------------------------------- MODULE Simulation -------------------------------
(***************************************************************************)
(* Rules are created, exchanges pass, and rules:simulate                   *)
(* (src/src/admin/simulate.ts) is asked what the rules make of a logged    *)
(* exchange or of a sample.  A new rule comes last in evaluation order;    *)
(* RuleStore has the others.                                               *)
(***************************************************************************)
EXTENDS TrafficMatching

CONSTANTS
  Drafts,         \* what an admin client may send for a rule
  Traffic,        \* the exchanges that may pass
  InitialRules,   \* sequences of rules
  MaxRules,
  MaxExchanges

Presets == UNION {{rs[i] : i \in DOMAIN rs} : rs \in InitialRules}

IsSequence(s) == s \in Seq({s[i] : i \in DOMAIN s})

(* A draft has the types of rules/types.ts, or Malformed in their place: as*)
(* an action of a type nobody knows, which validation refuses.  What the   *)
(* script of a manipulator sees is among what there is.                    *)
IsTyped(draft) ==
  /\ draft.match \in Matchers
  /\ draft.request \notin {Nil, Malformed} /\ draft.request.action \notin {Nil, Malformed} =>
       LET action == draft.request.action IN
       /\ action.type \in {"mock_response", "fault", "request_rewrite"}
       /\ action.type = "request_rewrite" => IsSequence(action.operations)
  /\ draft.response \notin {Nil, Malformed} =>
       /\ draft.response.match \in Matchers \cup {Nil}
       /\ draft.response.action \notin {Nil, Malformed} =>
            LET action == draft.response.action IN
            /\ action.type \in {"fault", "response_replace", "script_manipulator"}
            /\ action.type = "script_manipulator" => action.needs \subseteq Sights

(* Nothing is missing from an exchange, and all of it can be read.         *)
IsFull(t) ==
  /\ {} \notin {t.method, t.host, t.path, t.query, t.body, t.status, t.replyBody}
  /\ \A f \in HeaderFields : {} \notin {t.header[f], t.replyHeader[f]}
  /\ ~t.large /\ ~t.unbuffered
  /\ t.protocol = "grpc" =>
       Unary(t) /\ ~t.trailersOnly /\ t.grpcStatus # {} /\ \A f \in TrailerFields : t.trailer[f] # {}

ASSUME SimulationConstants ==
  /\ MaxRules \in Nat /\ MaxExchanges \in Nat
  /\ \A rs \in InitialRules : IsSequence(rs)
  /\ \A rule \in Presets : RuleIsValid(rule)
  /\ \A draft \in Drafts \cup Presets : IsTyped(draft)
  /\ \A t \in Traffic :
       t.protocol \in Protocols /\ {t.large, t.unbuffered, t.trailersOnly} \subseteq BOOLEAN
  /\ \A protocol \in Protocols : \E t \in Traffic : t.protocol = protocol /\ IsFull(t)

VARIABLES
  rules,      \* the stored rules, in evaluation order
  consumed,   \* their counters
  passed,     \* exchanges so far
  entry,      \* the newest log entry, or Nil
  step        \* history: the last step, with what came of it

vars == <<rules, consumed, passed, entry, step>>

Init ==
  /\ rules \in InitialRules
  /\ consumed = [i \in DOMAIN rules |-> 0]
  /\ passed = 0
  /\ entry = Nil
  /\ step = [kind |-> "start"]

CreateRule(draft) ==
  /\ Len(rules) < MaxRules
  /\ RuleIsValid(draft)
  /\ rules' = Append(rules, draft)
  /\ consumed' = Append(consumed, 0)
  /\ step' = [kind |-> "rule"]
  /\ UNCHANGED <<passed, entry>>

----------------------------------------------------------------------------
(* Exchanges                                                               *)

Counted(applied) ==
  [i \in DOMAIN rules |->
     consumed[i] + IF i \in applied /\ rules[i].times # Nil THEN 1 ELSE 0]

(* persistNeeded(): whether an entry has the bodies of its exchange.       *)
Persisted(came) ==
  \/ came.effect \in {"mock", "fault", "modified"}
  \/ \E i \in came.applied : rules[i].capture

(* maskHeaders() *)
Masked(message) ==
  [f \in DOMAIN message |->
     IF f \in {"header.masked", "grpc.trailer.masked"} /\ message[f] # {}
     THEN {"***"} ELSE message[f]]

(* What an entry tells of a message, as inputFromLog() reads it: its text  *)
(* in base64, and neither the host nor the service, method and metadata of *)
(* a call.                                                                 *)
LoggedRequest(t, text) == Masked(Snapshot(t, {}, text, Encoded(text), FALSE))

LoggedReply(t, text) ==
  LET sent == Outgoing(t, WholeReply(t))
  IN  Masked([f \in ResponseFields |->
                CASE f = "body"                            -> text
                  [] f = "rawBodyBase64"                   -> Encoded(text)
                  [] f \in MessageFields                   -> {}
                  [] f = "status" /\ t.protocol = "grpc"   -> {"200"}
                  [] OTHER                                 -> sent[f]])

(* Mutant: the request is logged as it is forwarded.                       *)
EntryOfForwarded(t, came) ==
  LET seen == LoggedRequest(t, IF Persisted(came) THEN BodyShown(rules, t) ELSE {})
  IN  [rules     |-> rules,
       intercept |-> came.intercept,
       protocol  |-> t.protocol,
       verdict   |-> came.verdict,
       request   |-> IF came.intercept # 0 /\ came.effect = "modified"
                        /\ rules[came.intercept].request # Nil
                        /\ rules[came.intercept].request.action # Nil
                     THEN Rewritten(seen, rules[came.intercept].request.action.operations).now
                     ELSE seen,
       reply     |-> Nil]

(* The reply is the one the client got: the upstream's, or Nil for another.*)
EntryOf(t, came) ==
  [rules     |-> rules,
   intercept |-> came.intercept,
   protocol  |-> t.protocol,
   verdict   |-> came.verdict,
   request   |-> LoggedRequest(t, IF Persisted(came) THEN BodyShown(rules, t) ELSE {}),
   reply     |-> IF came.effect \in Ends \cup {"modified"} THEN Nil
                 ELSE LoggedReply(t, IF Persisted(came) /\ ~Relayed(t) /\ ~t.unbuffered
                                     THEN t.replyBody ELSE {})]

Exchange(t) ==
  LET came == Live(rules, consumed, t) IN
  /\ passed < MaxExchanges
  /\ passed' = passed + 1
  /\ UNCHANGED rules
  /\ IF Refused(rules, t)
     THEN /\ step' = [kind |-> "refused", traffic |-> t]
          /\ UNCHANGED <<consumed, entry>>
     ELSE /\ consumed' = Counted(came.applied)
          /\ entry' = IF came.applied \cup came.errors = {} THEN entry ELSE EntryOf(t, came)
          /\ step' = [kind |-> "exchange", traffic |-> t, counters |-> consumed, came |-> came]

----------------------------------------------------------------------------
(* Simulations.  They evaluate on a clone of the counters, and know nothing*)
(* of streaming.  Patches are applied as to HTTP responses.                *)

SimulatedResponseEffect(action, request, response, bodyMissing) ==
  IF action # Nil /\ action.type = "script_manipulator" /\ bodyMissing THEN "none"
  ELSE ResponseEffect(action, "http", request, response, response)

(* `response` is Nil, or the snapshot of it; `bodyMissing`: it comes from a*)
(* log entry without its body.                                             *)
SimulatedOf(e, rule, request, response, bodyMissing) ==
  LET first == IF e.intercept = 0 THEN "none" ELSE RequestEffect(rule, request)
      asked == e.intercept # 0 /\ first \notin Ends /\ rule.response # Nil /\ response # Nil
      verdict == IF asked THEN ResponseVerdict(rule, request, response) ELSE "unasked"
  IN  Outcome(e, first, verdict,
              IF verdict = "yes"
              THEN SimulatedResponseEffect(rule.response.action, request, response, bodyMissing)
              ELSE "none")

Simulated(counters, protocol, request, response, bodyMissing) ==
  LET e == EvaluateRequest(rules, counters, protocol, request, FALSE)
  IN  SimulatedOf(e, rules[e.intercept], request, response, bodyMissing)

(* A sample that tells all there is to tell of an exchange: not what the   *)
(* bytes of gRPC messages were, what they decode to, or a status message.  *)
Sampled(t) ==
  [Snapshot(t, t.host, t.body, Encoded(t.body), t.protocol = "grpc") EXCEPT !["grpc.messages"] = {}]

SampledReply(t) ==
  [Without(MessageFields \cup (IF t.grpcStatus = {} THEN TrailerFields ELSE {}), WholeReply(t))
     EXCEPT !["rawBodyBase64"] = Encoded(t.replyBody)]

(* Mutant: the sample is evaluated on counters nobody has used.            *)
SimulateSampleAfresh(t) ==
  /\ step' = [kind |-> "sample", traffic |-> t, whole |-> TRUE,
              came |-> Simulated([i \in DOMAIN rules |-> 0], t.protocol, Sampled(t),
                                 SampledReply(t), FALSE)]
  /\ UNCHANGED <<rules, consumed, passed, entry>>

SimulateSample(t) ==
  /\ \E reply \in {SampledReply(t), Nil} :
       step' = [kind |-> "sample", traffic |-> t, whole |-> reply # Nil,
                came |-> Simulated(consumed, t.protocol, Sampled(t), reply, FALSE)]
  /\ UNCHANGED <<rules, consumed, passed, entry>>

(* Replies that rules made or changed may be like any other.               *)
RepliesOf(logged) ==
  IF logged.reply # Nil THEN {logged.reply}
  ELSE {NoResponse} \cup
       {LoggedReply(t, t.replyBody) : t \in {u \in Traffic : u.protocol = logged.protocol}}

SimulateLog ==
  /\ entry # Nil
  /\ \E reply \in RepliesOf(entry) :
       step' = [kind |-> "log",
                came |-> Simulated(consumed, entry.protocol, entry.request, reply,
                                   reply["body"] = {})]
  /\ UNCHANGED <<rules, consumed, passed, entry>>

Next ==
  \/ \E draft \in Drafts : CreateRule(draft)
  \/ \E t \in Traffic : Exchange(t) \/ SimulateSample(t)
  \/ SimulateLog

Spec == Init /\ [][Next]_vars
----------------------------------------------------------------------------
SightOf(p, stage) == IF p.type = "script" THEN p.sight ELSE <<stage, p.field>>

(* All that a matcher and its scripts may look at.                         *)
LooksAt(m, stage) == {SightOf(p, stage) : p \in {q \in Parts[m] : q.type \notin Composite}}

Manipulates(rule) ==
  rule.response # Nil /\ rule.response.action # Nil
    /\ rule.response.action.type = "script_manipulator"

(* The same of the response stage of a rule.                               *)
LooksLateAt(rule) ==
  (IF rule.response = Nil \/ rule.response.match = Nil THEN {}
   ELSE LooksAt(rule.response.match, "response")) \cup
  (IF Manipulates(rule) THEN rule.response.action.needs ELSE {})

Faults(rule) ==
  LET actions == {stage.action : stage \in {rule.request, rule.response} \ {Nil}} \ {Nil}
  IN  {action.fault.kind : action \in {a \in actions : a.type = "fault"}}

(* A rule that is accepted can do what it says (validateRule() against what*)
(* the proxy does with rules): there is traffic of its protocol in which   *)
(* each field its matchers name has a value when they are asked (a trailer *)
(* without a name never has one: NamedFieldsExist), its faults are of its  *)
(* protocol (pipeline.ts:402 calls the other case unreachable), and no gRPC*)
(* rule rewrites what is not forwarded.  A mock with messages that do not  *)
(* fit is found out by an exchange only where the matcher does not pin the *)
(* method.                                                                 *)
AcceptedRulesCanWork ==
  \A i \in DOMAIN rules :
    LET rule == rules[i]
        own == {t \in Traffic : t.protocol = rule.protocol}
    IN  /\ rule.enabled => \A f \in MatcherFields(rule.match) : \E t \in own :
              ResolveField(f, "request", RequestShown(rules, t), NoResponse) # {}
        /\ rule.response # Nil /\ rule.response.match # Nil =>
              \A f \in MatcherFields(rule.response.match) \ {Nameless} : \E t \in own :
                ResolveField(f, "response", RequestShown(rules, t), ReplyShown(rule, t)) # {}
        /\ Faults(rule) \cap (IF rule.protocol = "http" THEN {"grpc_status"}
                              ELSE {"http_response"}) = {}
        /\ rule.protocol = "grpc" /\ rule.request # Nil /\ rule.request.action # Nil
             /\ rule.request.action.type = "request_rewrite" =>
              \A t \in own : \A f \in {"path", "query", "body"} :
                LET seen == RequestShown(rules, t)
                IN  Rewritten(seen, rule.request.action.operations).now[f] = seen[f]
        /\ step.kind = "exchange" /\ step.came.intercept = i /\ step.came.effect = "failed" =>
              LiteralGrpcTarget(rule.match) = Nil

(* What would come of an HTTP request if its body were always read.        *)
Unabridged(counters, t) ==
  LiveOn(rules, counters, t, Snapshot(t, t.host, t.body, Raw("http", t.body), FALSE), t.body = {})

ReadsBodyLate(rule) == LooksLateAt(rule) \cap ({"request"} \X BodyFields) # {}

(* Not reading a body never changes which rules apply, or fail in the      *)
(* request stage, what is rewritten, how a reply is judged or whether it is*)
(* changed: whatever an HTTP rule does with the body of a request, the body*)
(* has been read, unless the request was refused (requestBodyInterest();   *)
(* spec.md 4.8.3).  Scripts of the response stage are not counted among    *)
(* those that need it (body.ts:22): of a rule whose response stage looks at*)
(* the request's body only the request stage is as it would be.            *)
BodyIsReadWhenItMatters ==
  step.kind = "exchange" /\ step.traffic.protocol = "http" =>
    LET would == Unabridged(step.counters, step.traffic)
        late == would.intercept # 0 /\ ReadsBodyLate(rules[would.intercept])
    IN  /\ step.came.intercept = would.intercept
        /\ step.came.applied = would.applied
        /\ step.came.errors = would.errors
        /\ ~late => step.came.verdict = would.verdict /\ step.came.effect = would.effect

(* A verdict on the headers of a relayed reply is never one the trailers   *)
(* would have changed (matcherUsesTrailers(); spec.md 4.7.5).              *)
TrailersAreAwaited ==
  step.kind = "exchange" /\ Relayed(step.traffic) /\ step.came.verdict # "unasked" =>
    step.came.verdict = ResponseVerdict(rules[step.came.intercept],
                                        RequestShown(rules, step.traffic),
                                        WithoutBody(WholeReply(step.traffic)))

ReplacesReserved(rule) ==
  /\ rule.response # Nil /\ rule.response.action # Nil
  /\ rule.response.action.type = "response_replace"
  /\ rule.response.action.target = "header.reserved"

(* Of a gRPC call a sample does not have the bytes that came, decoded      *)
(* messages or a status message.                                           *)
Unsampled == {"request", "response"} \X (MessageFields \cup {"rawBodyBase64"})

(* What a simulation can know of an HTTP exchange: not of a body that is   *)
(* missing, too large or streamed, where a rule looks at it.               *)
HttpForeseeable(t) ==
  /\ ~t.unbuffered
  /\ t.body # {} \/ \A i \in Active(rules, "http") : ~MatcherUsesBody(rules[i].match)
  /\ ~t.large \/ \A i \in Active(rules, "http") : ~ReadsBodyLate(rules[i])

(* Of a gRPC call: not of one that is relayed or without a status, of what *)
(* samples do not have, of messages that do not encode, and of headers that*)
(* the listener takes out of a reply; and it does not know gRPC patches.   *)
GrpcForeseeable(t) ==
  /\ ~Relayed(t) /\ t.grpcStatus # {}
  /\ \A i \in Active(rules, "grpc") :
       /\ (LooksAt(rules[i].match, "request") \cup LooksLateAt(rules[i])) \cap Unsampled = {}
       /\ Messages(rules[i]) # "misfit"
       /\ ~Manipulates(rules[i]) /\ ~ReplacesReserved(rules[i])

Foreseeable(t) ==
  ~Refused(rules, t) /\ IF t.protocol = "http" THEN HttpForeseeable(t) ELSE GrpcForeseeable(t)

(* A simulation of a sample foretells the next exchange like it: the rules *)
(* that apply with what is left of their budgets, those that fail, the     *)
(* verdict on the reply, and whether it is mocked, broken or changed       *)
(* (spec.md 4.2.6).                                                        *)
SampleForetells ==
  step.kind = "sample" /\ step.whole /\ Foreseeable(step.traffic) =>
    step.came = Live(rules, consumed, step.traffic)

(* The rules are as they were, and do not count.                           *)
SameRules ==
  entry # Nil /\ rules = entry.rules /\ \A i \in DOMAIN rules : rules[i].times = Nil

(* What an entry has as the listener saw it: no headers that are masked    *)
(* (traffic-log.ts:206), bodies only if they were kept, of a gRPC call not *)
(* their bytes, and of its reply neither the headers and trailers that the *)
(* listener takes out, its HTTP status nor a status that may have been none*)
(* (grpc-listener.ts:641-648, 840-848).                                    *)
LoggedBody(message) ==
  IF message["body"] = {} THEN {} ELSE IF entry.protocol = "http" THEN BodyFields ELSE {"body"}

InTheLog ==
  {"request"} \X ({"method", "path", "query", "header.x", "header.reserved"} \cup
                  LoggedBody(entry.request))

ReplyInTheLog ==
  {"response"} \X
    (LoggedBody(entry.reply) \cup {"header.x"} \cup
     IF entry.protocol = "http" THEN {"header.reserved", "status"}
     ELSE {"grpc.trailer.x"} \cup IF entry.reply["grpc.status"] = {"0"} THEN {} ELSE {"grpc.status"})

LookOnlyAt(sights) == \A i \in DOMAIN rules : LooksAt(rules[i].match, "request") \subseteq sights

JudgeOnlyBy(sights) ==
  \A i \in DOMAIN rules :
    rules[i].response # Nil /\ rules[i].response.match # Nil =>
      LooksAt(rules[i].response.match, "response") \subseteq sights

Mocks(rule) ==
  rule.request # Nil /\ rule.request.action # Nil /\ rule.request.action.type = "mock_response"

(* Simulating a logged exchange under the rules it met finds the rule that *)
(* applied, if no rule looks at anything of the request that is not in the *)
(* log as it was, and its verdict on a reply nobody changed, if the same   *)
(* holds of what it judges the reply by (inputFromLog()); unless it is for *)
(* a mock that was passed over, which the simulation takes for one.        *)
PlainLogForetells ==
  step.kind = "log" /\ SameRules /\ LookOnlyAt(InTheLog) =>
    /\ step.came.intercept = entry.intercept
    /\ entry.reply # Nil /\ JudgeOnlyBy(InTheLog \cup ReplyInTheLog)
         /\ (entry.intercept = 0 \/ ~Mocks(rules[entry.intercept])) =>
          step.came.verdict = entry.verdict

(* spec.md 4.2.6: a simulation of a saved log tells what the current rules *)
(* make of it.  If so, rules that did not change and look neither at bodies*)
(* nor at what the log masks apply to it as they did.                      *)
LogForetells ==
  step.kind = "log" /\ SameRules
    /\ LookOnlyAt({"request"} \X (RequestFields \ (BodyFields \cup {"header.masked", "grpc.messages"}))) =>
    step.came.intercept = entry.intercept

(* `need` is set where "some matcher/action needs the body content to work *)
(* (matcher, replace_body, script)" (src/proxy/body.ts:16).  If so, every  *)
(* rule, with its scripts, does with an HTTP request what it would if its  *)
(* body were always read.                                                  *)
ScriptsHaveTheBody ==
  step.kind = "exchange" /\ step.traffic.protocol = "http" =>
    step.came = Unabridged(step.counters, step.traffic)

(* Of a rule whose request action is a mock or a fault "the response stage *)
(* never runs" (src/rules/validate.ts:793).                                *)
TerminalActionsEnd ==
  step.kind = "exchange" /\ step.came.intercept # 0 =>
    LET rule == rules[step.came.intercept]
    IN  rule.request # Nil /\ rule.request.action # Nil
          /\ rule.request.action.type \in {"mock_response", "fault"} =>
            step.came.verdict = "unasked"

(* `grpc.trailer.<name>` is the field of a trailer, of which replies have  *)
(* values (docs/spec.md:634): a field of an accepted response condition is *)
(* one that some reply has.                                                *)
NamedFieldsExist ==
  \A i \in DOMAIN rules :
    rules[i].response # Nil /\ rules[i].response.match # Nil =>
      MatcherFields(rules[i].response.match) \subseteq ResponseFields
=============================================================================
