---------------------------- MODULE TrafficMatching ----------------------------
(***************************************************************************)
(* What the proxy lets its rules see of an exchange, and what comes of it: *)
(* the parts of the HTTP pipeline (src/src/proxy/pipeline.ts, body.ts) and *)
(* of the gRPC listener (src/src/grpc/grpc-listener.ts) that decide which  *)
(* bodies are read, build the snapshots and evaluate the rules on them.    *)
(* Requests are read to their end and upstreams answer here; the exchange  *)
(* modules have what happens otherwise, RuleEngine has evaluations that    *)
(* interleave.                                                             *)
(***************************************************************************)
EXTENDS Changes

CONSTANTS
  Base64(_),   \* a value in base64
  Framed(_)    \* a JSON text as the bytes of gRPC messages on the wire

(* An exchange: what the client sends, and what the upstream answers.      *)
(*   large        its body exceeds the buffer limit                        *)
(*   unbuffered   its reply is an event stream, or exceeds the limit       *)
(*   trailersOnly the gRPC reply has its status in its headers             *)
(* The path of a gRPC request has the name of its service and its method.  *)
(* Bodies are texts: of gRPC messages, their JSON.  Messages of methods the*)
(* descriptors have can be decoded.                                        *)
Unary(t) == t.protocol = "grpc" /\ \E path \in t.path : MethodAt(path) = "unary"

Encoded(texts) == {Base64(v) : v \in texts}

(* What is encoded are the bytes that came.                                *)
Raw(protocol, texts) == Encoded(IF protocol = "grpc" THEN {Framed(v) : v \in texts} ELSE texts)

Snapshot(t, host, body, raw, grpc) ==
  [f \in RequestFields |->
     CASE f \in {"method", "path", "query"} -> t[f]
       [] f = "host"                        -> host
       [] f \in HeaderFields                -> t.header[f]
       [] f = "body"                        -> body
       [] f = "rawBodyBase64"               -> raw
       [] f = "grpc.messages"               -> IF grpc THEN body ELSE {}
       [] f = "metadata.x"                  -> IF grpc THEN t.header["header.x"] ELSE {}
       [] OTHER                             -> IF grpc THEN t.path ELSE {}]

----------------------------------------------------------------------------
(* Evaluation.  `rules` are in evaluation order, `consumed` are their      *)
(* counters; rules are told by their place, 0 is none.                     *)

Active(rules, protocol) ==
  {i \in DOMAIN rules : rules[i].enabled /\ rules[i].protocol = protocol}

Exhausted(rule, count) == rule.times # Nil /\ count >= rule.times

(* Each verdict depends on its rule alone, so the walk over the rules that *)
(* are considered has this closed form (RuleEngine!FirstMatchWins).        *)
Walk(rules, consumed, considered, verdict) ==
  LET applies == {i \in considered : verdict[i] = "yes" /\ ~Exhausted(rules[i], consumed[i])}
      stops == {i \in applies : ~IsObservation(rules[i])}
      last == IF stops = {} THEN Len(rules) ELSE Min(stops)
  IN  [intercept |-> IF stops = {} THEN 0 ELSE last,
       applied   |-> {i \in applies : i <= last},
       errors    |-> {i \in considered : i <= last /\ verdict[i] = "throws"}]

EvaluateRequest(rules, consumed, protocol, request, streaming) ==
  LET considered == {i \in Active(rules, protocol) :
                       ~(streaming /\ MatcherUsesBody(rules[i].match))}
  IN  Walk(rules, consumed, considered,
           [i \in considered |-> EvalMatcher(rules[i].match, "request", request, NoResponse)])

ResponseVerdict(rule, request, response) ==
  IF rule.response.match = Nil THEN "yes"
  ELSE EvalMatcher(rule.response.match, "response", request, response)

----------------------------------------------------------------------------
(* Request bodies                                                          *)

ReplacesBody(rule) ==
  /\ rule.request # Nil /\ rule.request.action # Nil
  /\ rule.request.action.type = "request_rewrite"
  /\ \E i \in DOMAIN rule.request.action.operations :
       rule.request.action.operations[i].op = "replace_body"

(* Mutant: scripts are not thought of.                                     *)
NeedsRequestBodyByName(rule) == MatcherUsesBody(rule.match) \/ ReplacesBody(rule)

NeedsRequestBody(rule) ==
  MatcherUsesBody(rule.match) \/ MatcherHasScript(rule.match) \/ ReplacesBody(rule)

BodyHandling(rules, t) ==
  LET active == Active(rules, "http")
      need == \E i \in active : NeedsRequestBody(rules[i])
      want == \E i \in active : rules[i].capture \/ ~IsObservation(rules[i])
  IN  IF ~need /\ ~want THEN "streamed"
      ELSE IF ~t.large THEN "read"
      ELSE IF need THEN "refused" ELSE "streamed"

Refused(rules, t) ==
  IF t.protocol = "http" THEN BodyHandling(rules, t) = "refused" ELSE Unary(t) /\ t.large

BodyShown(rules, t) ==
  IF (t.protocol = "http" /\ BodyHandling(rules, t) = "read") \/ Unary(t) THEN t.body ELSE {}

RequestShown(rules, t) ==
  Snapshot(t, t.host, BodyShown(rules, t), Raw(t.protocol, BodyShown(rules, t)),
           t.protocol = "grpc")

(* An empty body counts as none, for HTTP.                                 *)
Streaming(rules, t) ==
  IF t.protocol = "http" THEN BodyShown(rules, t) = {} ELSE ~Unary(t)

----------------------------------------------------------------------------
(* Replies.  Whoever asks has found a rule, so a reply that can be buffered*)
(* is (responseBodyInterest).                                              *)

ReplyOfCall(t, field) ==
  CASE field = "grpc.messages" -> t.replyBody
    [] field = "grpc.message"  -> t.grpcMessage
    [] field = "grpc.status"   -> t.grpcStatus
    [] OTHER                   -> IF t.trailersOnly THEN {} ELSE t.trailer[field]

WholeReply(t) ==
  [f \in ResponseFields |->
     CASE f = "body"          -> t.replyBody
       [] f = "rawBodyBase64" -> Raw(t.protocol, t.replyBody)
       [] f \in HeaderFields  -> t.replyHeader[f]
       [] f = "status"        -> t.status
       [] OTHER               -> IF t.protocol = "http" THEN {} ELSE ReplyOfCall(t, f)]

Without(fields, response) == [f \in ResponseFields |-> IF f \in fields THEN {} ELSE response[f]]

WithoutBody(response) == Without(BodyFields \cup {"grpc.messages"}, response)

(* The reply of a relayed call when its headers have come.                 *)
HeadersOnly(t) ==
  Without(TrailerFields \cup {"grpc.message"} \cup (IF t.trailersOnly THEN {} ELSE {"grpc.status"}),
          WithoutBody(WholeReply(t)))

Relayed(t) == t.protocol = "grpc" /\ ~Unary(t)

(* What of a reply is sent on, and may be changed before: of a gRPC call   *)
(* the status, apart from headers and trailers, and of a buffered reply no *)
(* header that the listener writes itself.                                 *)
Outgoing(t, reply) ==
  IF t.protocol = "http" THEN reply
  ELSE [f \in ResponseFields |->
          CASE f = "grpc.trailer.reserved"            -> {}
            [] f = "header.reserved" /\ ~Relayed(t)   -> {}
            [] f = "grpc.status" /\ reply[f] = {}     -> {"0"}
            [] OTHER                                  -> reply[f]]

NeedsTrailers(rule) ==
  rule.response.match # Nil /\ MatcherUsesTrailers(rule.response.match)

ReplyShown(rule, t) ==
  CASE Relayed(t) -> IF NeedsTrailers(rule) THEN WithoutBody(WholeReply(t)) ELSE HeadersOnly(t)
    [] t.protocol = "http" /\ t.unbuffered -> WithoutBody(WholeReply(t))
    [] OTHER -> WholeReply(t)

----------------------------------------------------------------------------
(* Effects: "mock", "fault", "modified" or "none", as the log tells them;  *)
(* delays are left out.                                                    *)

RequestEffect(rule, request) ==
  IF rule.request = Nil \/ rule.request.action = Nil THEN "none"
  ELSE LET action == rule.request.action
       IN  CASE action.type = "mock_response" -> "mock"
             [] action.type = "fault"         -> "fault"
             [] OTHER -> IF Rewritten(request, action.operations).modified
                         THEN "modified" ELSE "none"

(* A manipulator whose patch is refused changes nothing, and neither does  *)
(* one whose script throws, for want of something it `needs` to see.       *)
PatchEffect(action, request, response, fails, changes) ==
  IF fails \/ ~changes \/ \E sight \in action.needs : SeenAt(sight, request, response) = {}
  THEN "none" ELSE "modified"

(* Scripts see the response, changes are made to what is sent on of it.    *)
ResponseEffect(action, protocol, request, response, outgoing) ==
  IF action = Nil THEN "none"
  ELSE CASE action.type = "fault" -> "fault"
         [] action.type = "response_replace" ->
              IF ReplaceChanges(outgoing, action) THEN "modified" ELSE "none"
         [] OTHER ->
              IF protocol = "http"
              THEN PatchEffect(action, request, response, HttpPatchFails(action.patch),
                               HttpPatchChanges(outgoing, action.patch))
              ELSE PatchEffect(action, request, response, GrpcPatchFails(action.patch),
                               GrpcPatchChanges(outgoing, action.patch))

Ends == {"mock", "fault", "failed"}

(* Mocks are passed over on relayed calls, and fail on messages that do not*)
(* fit.                                                                    *)
LiveRequestEffect(rule, t, request) ==
  LET effect == RequestEffect(rule, request)
  IN  IF effect # "mock" THEN effect
      ELSE IF Relayed(t) THEN "none"
      ELSE IF Messages(rule) = "misfit" THEN "failed" ELSE "mock"

(* What a patch may set in a relayed reply.  Its headers are manipulated   *)
(* before a status is known, as if it were "0".                            *)
Relayable(action, rule) ==
  LET fields == {"grpcStatus", "grpcMessage", "trailers"}
                  \cup (IF NeedsTrailers(rule) THEN {} ELSE {"metadata"})
  IN  [action EXCEPT !.patch = [f \in DOMAIN action.patch \cap fields |-> action.patch[f]]]

RelayedPatchEffect(rule, t, request) ==
  LET shown == IF NeedsTrailers(rule) THEN ReplyShown(rule, t)
               ELSE Without({"grpc.status"}, HeadersOnly(t))
  IN  ResponseEffect(Relayable(rule.response.action, rule), "grpc", request, shown,
                     Outgoing(t, shown))

(* Only status faults are injected into relayed replies, and headers that  *)
(* are sent are not replaced; an HTTP reply that was not buffered is not   *)
(* manipulated.                                                            *)
LiveResponseEffect(rule, t, request) ==
  LET action == rule.response.action
      Is(type) == action # Nil /\ action.type = type
  IN  CASE Relayed(t) /\ Is("fault") ->
             IF action.fault.kind = "grpc_status" THEN "fault" ELSE "none"
        [] Relayed(t) /\ Is("response_replace") /\ NeedsTrailers(rule) -> "none"
        [] Relayed(t) /\ Is("script_manipulator") -> RelayedPatchEffect(rule, t, request)
        [] t.protocol = "http" /\ t.unbuffered /\ Is("script_manipulator") -> "none"
        [] OTHER -> ResponseEffect(action, t.protocol, request, ReplyShown(rule, t),
                                   Outgoing(t, ReplyShown(rule, t)))

(* What came of an exchange: the rules that applied, the verdict on the    *)
(* reply ("unasked" when there is nothing to ask) and the effect.          *)
Outcome(e, first, verdict, second) ==
  [intercept |-> e.intercept, applied |-> e.applied, errors |-> e.errors,
   verdict |-> verdict, effect |-> IF second = "none" THEN first ELSE second]

(* `rule` is the one that intercepts, if any.                              *)
LiveOf(e, rule, t, request) ==
  LET first == IF e.intercept = 0 THEN "none" ELSE LiveRequestEffect(rule, t, request)
      asked == e.intercept # 0 /\ first \notin Ends /\ rule.response # Nil
      verdict == IF asked THEN ResponseVerdict(rule, request, ReplyShown(rule, t)) ELSE "unasked"
  IN  Outcome(e, first, verdict,
              IF verdict = "yes" THEN LiveResponseEffect(rule, t, request) ELSE "none")

(* With this of the request shown to the rules.                            *)
LiveOn(rules, consumed, t, request, streaming) ==
  LET e == EvaluateRequest(rules, consumed, t.protocol, request, streaming)
  IN  LiveOf(e, rules[e.intercept], t, request)

Live(rules, consumed, t) ==
  LiveOn(rules, consumed, t, RequestShown(rules, t), Streaming(rules, t))
=============================================================================
