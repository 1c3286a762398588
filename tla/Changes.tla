-------------------------------- MODULE Changes --------------------------------
(***************************************************************************)
(* Whether an action changes a message: applyRewriteOperations() and       *)
(* applyResponseReplace() (src/src/proxy/actions.ts), and the patches of   *)
(* manipulators (src/src/proxy/patch.ts).  Messages are the snapshots of   *)
(* Matchers; a replacement puts `value` for the value `from`.  Which header*)
(* of a request is rewritten is left out.                                  *)
(***************************************************************************)
EXTENDS RuleDefinitions

Written(op) == CASE op.op = "set_path" -> "path" [] op.op = "set_query" -> "query"
                 [] op.op = "replace_body" -> "body" [] OTHER -> "header.x"

(* set_header counts as a change whatever the header was.                  *)
Operate(op, message) ==
  LET field == Written(op)
      new == CASE op.op = "remove_header" -> {}
               [] op.op = "replace_body" ->
                    IF op.from \in message.now[field] THEN {op.value} ELSE message.now[field]
               [] OTHER -> {op.value}
  IN  [now |-> [message.now EXCEPT ![field] = new],
       modified |-> message.modified \/ op.op = "set_header" \/ new # message.now[field]]

Rewritten(request, operations) ==
  LET after[n \in 0 .. Len(operations)] ==
        IF n = 0 THEN [now |-> request, modified |-> FALSE]
        ELSE Operate(operations[n], after[n - 1])
  IN  after[Len(operations)]

ReplaceChanges(headers, action) ==
  action.from \in headers[action.target] /\ action.from # action.value

(* A patch is a function from the fields it sets to their values; headers, *)
(* metadata and trailers are functions themselves, where Nil removes one.  *)
HttpPatchFails(patch) ==
  \/ BodyFields \subseteq DOMAIN patch
  \/ \E f \in DOMAIN patch \cap (BodyFields \cup {"statusCode", "headers"}) : patch[f] = Malformed

HeaderPatchChanges(patch, headers) ==
  \E f \in DOMAIN patch : patch[f] # Nil \/ Candidates(headers, f) # {}

HttpPatchChanges(response, patch) ==
  \/ DOMAIN patch \cap BodyFields # {}
  \/ "statusCode" \in DOMAIN patch /\ patch["statusCode"] \notin response["status"]
  \/ "headers" \in DOMAIN patch /\ HeaderPatchChanges(patch["headers"], response)

GrpcPatchFails(patch) ==
  \E f \in DOMAIN patch \cap {"metadata", "messages", "grpcStatus", "grpcMessage", "trailers"} :
    patch[f] = Malformed

GrpcPatchChanges(response, patch) ==
  \/ "messages" \in DOMAIN patch
  \/ "grpcMessage" \in DOMAIN patch /\ patch["grpcMessage"] \notin response["grpc.message"]
  \/ "grpcStatus" \in DOMAIN patch /\ patch["grpcStatus"] \notin response["grpc.status"]
  \/ "metadata" \in DOMAIN patch /\ HeaderPatchChanges(patch["metadata"], response)
  \/ "trailers" \in DOMAIN patch /\ HeaderPatchChanges(patch["trailers"], response)
=============================================================================
