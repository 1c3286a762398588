---------------------------- MODULE RuleDefinitions ----------------------------
(***************************************************************************)
(* Which rules may exist: validateRule() (src/src/rules/validate.ts) and   *)
(* its hook for gRPC bodies (src/src/grpc/rule-validation.ts).  A draft is *)
(* a rule as an admin client sends it; an accepted one becomes the rule.   *)
(* Parts of the wrong shape (not an object, a string for a number, a       *)
(* pattern that does not compile) are the value Malformed, and the scalars *)
(* of a draft are well formed or not as a whole.                           *)
(***************************************************************************)
EXTENDS Matchers

CONSTANTS
  Nil,        \* an absent part
  MethodOf    \* of each :path: "unary", "streaming" or "unknown" to descriptors

Protocols == {"http", "grpc"}

RequestFieldRules ==
  [f \in BodyFields \cup {"method", "host", "path", "query", "grpc.service", "grpc.method"} |->
     CASE f \in {"method", "query"}             -> {"http"}
       [] f \in {"grpc.service", "grpc.method"} -> {"grpc"}
       [] OTHER                                 -> Protocols]

ResponseFieldRules ==
  [f \in BodyFields \cup {"status", "grpc.status"} |->
     CASE f = "status"      -> {"http"}
       [] f = "grpc.status" -> {"grpc"}
       [] OTHER             -> Protocols]

FieldIsValid(field, stage, protocol) ==
  LET table == IF stage = "request" THEN RequestFieldRules ELSE ResponseFieldRules IN
  \/ field \in HeaderFields
  \/ field \in TrailerFields \cup {Nameless} /\ stage = "response" /\ protocol = "grpc"
  \/ field \in DOMAIN table /\ protocol \in table[field]

MatcherIsValid(m, stage, protocol) ==
  \A p \in Parts[m] :
    /\ p # Malformed
    /\ p.type = "regex" => FieldIsValid(p.field, stage, protocol)
    /\ p.type \in Composite => p.conditions # <<>>

DelayIsValid(delay, stage) ==
  delay # Malformed /\ (delay = "total" => stage = "response")

(* Statuses are HTTP statuses or gRPC statuses.                            *)
StatusIsValid(status, protocol) ==
  status \in IF protocol = "http" THEN 100..599 ELSE 0..16

FaultIsValid(fault, protocol) ==
  /\ fault # Malformed
  /\ fault.kind = "http_response" => protocol = "http" /\ StatusIsValid(fault.status, "http")
  /\ fault.kind = "grpc_status" => protocol = "grpc" /\ StatusIsValid(fault.status, "grpc")

(* `keys` are the parts of a mock that are present.                        *)
MockIsValid(mock, protocol) ==
  /\ mock.keys \cap (IF protocol = "http" THEN {"grpcStatus", "grpcMessage", "messages", "metadata"}
                     ELSE {"statusCode", "body"}) = {}
  /\ StatusIsValid(mock.status, protocol)

HeaderOperations == {"set_header", "remove_header"}
Operations == HeaderOperations \cup {"set_path", "set_query", "replace_body"}

(* Mutant: gRPC rules are not held to header operations.                   *)
RewriteIsValidAnywhere(operations, protocol) ==
  /\ operations # <<>>
  /\ \A i \in DOMAIN operations : operations[i] # Malformed

RewriteIsValid(operations, protocol) ==
  /\ operations # <<>>
  /\ \A i \in DOMAIN operations :
       /\ operations[i] # Malformed
       /\ protocol = "grpc" => operations[i].op \in HeaderOperations

RequestActionIsValid(action, protocol) ==
  /\ action # Malformed
  /\ action.type = "mock_response" => MockIsValid(action, protocol)
  /\ action.type = "fault" => FaultIsValid(action.fault, protocol)
  /\ action.type = "request_rewrite" => RewriteIsValid(action.operations, protocol)

(* response_replace has a header for its target.                           *)
ResponseActionIsValid(action, protocol) ==
  /\ action # Malformed
  /\ action.type = "fault" => FaultIsValid(action.fault, protocol)
  /\ action.type = "response_replace" => action.target \in HeaderFields

RequestStageIsValid(stage, protocol) ==
  /\ stage # Malformed
  /\ stage.delay # Nil \/ stage.action # Nil
  /\ stage.delay # Nil => DelayIsValid(stage.delay, "request")
  /\ stage.action # Nil => RequestActionIsValid(stage.action, protocol)

ResponseStageIsValid(stage, protocol) ==
  /\ stage # Malformed
  /\ stage.delay # Nil \/ stage.action # Nil
  /\ stage.match # Nil => MatcherIsValid(stage.match, "response", protocol)
  /\ stage.delay # Nil => DelayIsValid(stage.delay, "response")
  /\ stage.action # Nil => ResponseActionIsValid(stage.action, protocol)

----------------------------------------------------------------------------
(* gRPC mocks with messages                                                *)

(* The one value a pattern stands for, of patterns taken as anchored: the  *)
(* code also takes an unanchored one, or a dot left unescaped, for its     *)
(* text.  A service and a method of the same name make up the :path of     *)
(* that name; other pairs are no known method.                             *)
Literal(m) == IF m.type = "regex" /\ Cardinality(m.accepts) = 1
              THEN CHOOSE v \in m.accepts : TRUE ELSE Nil

LiteralOf(conditions, field) ==
  LET named == {i \in DOMAIN conditions :
                  conditions[i].type = "regex" /\ conditions[i].field = field}
  IN  IF named = {} THEN Nil ELSE Literal(conditions[Max(named)])

LiteralGrpcTarget(m) ==
  LET paths == {i \in DOMAIN m.conditions :
                  Literal(m.conditions[i]) # Nil /\ m.conditions[i].field = "path"}
      service == LiteralOf(m.conditions, "grpc.service")
      method == LiteralOf(m.conditions, "grpc.method")
  IN  CASE m.type = "regex" -> IF m.field = "path" THEN Literal(m) ELSE Nil
        [] m.type = "all" ->
             IF paths # {} THEN Literal(m.conditions[Min(paths)])
             ELSE IF service = Nil \/ method = Nil THEN Nil
             ELSE IF service = method THEN service ELSE "other"
        [] OTHER -> Nil

MethodAt(path) == IF path \in DOMAIN MethodOf THEN MethodOf[path] ELSE "unknown"

Messages(rule) ==
  IF rule.protocol = "grpc" /\ rule.request # Nil /\ rule.request.action # Nil
     /\ rule.request.action.type = "mock_response"
  THEN rule.request.action.messages ELSE "none"

(* Messages "fit" the descriptor of any method, or none.                   *)
GrpcBodyIsValid(rule) ==
  LET target == LiteralGrpcTarget(rule.match) IN
  Messages(rule) # "none" /\ target # Nil =>
    MethodAt(target) = "unary" /\ Messages(rule) = "fit"

----------------------------------------------------------------------------
ConsumeIsValid(times) == times = Nil \/ times \in Nat \ {0}

IsObservation(rule) == rule.request = Nil /\ rule.response = Nil

RuleIsValid(draft) ==
  /\ draft.wellFormed
  /\ draft.protocol \in Protocols
  /\ MatcherIsValid(draft.match, "request", draft.protocol)
  /\ draft.request # Nil => RequestStageIsValid(draft.request, draft.protocol)
  /\ draft.response # Nil => ResponseStageIsValid(draft.response, draft.protocol)
  /\ ConsumeIsValid(draft.times)
  /\ IsObservation(draft) => draft.capture
  /\ GrpcBodyIsValid(draft)
=============================================================================
