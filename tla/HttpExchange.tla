----------------------------- MODULE HttpExchange -----------------------------
(***************************************************************************)
(* One HTTP exchange (src/src/proxy/pipeline.ts), from the pinned rules to *)
(* its log entry: body buffering, rule evaluation, the request stage, the  *)
(* upstream call, the response stage, and the exits that failures and a    *)
(* departing client open at every await.  Exchanges share nothing but the  *)
(* rule store, the counters and the log, which other modules describe.     *)
(*                                                                         *)
(* Headers, bodies and scripts are left out; what a matcher, a rewrite, a  *)
(* script or the upstream does is a choice.  A step ends where the code    *)
(* awaits or, for readability, earlier: the client may then leave in a     *)
(* moment where the code would not notice, which only adds behaviours.     *)
(***************************************************************************)
EXTENDS ExchangeOutcome, Naturals, Sequences

CONSTANTS
  Rules,      \* the intercept rules that may be found to apply
  Nil

(* A fault of kind "timeout" without durationMs is called "hang" here; the *)
(* kind "grpc_status" is refused for HTTP rules by their validation.       *)
Faults == {"http_response", "connection", "timeout", "hang"}
RequestActions == Faults \cup {"none", "mock_response", "request_rewrite"}
ReplyActions == Faults \cup {"none", "response_replace", "script_manipulator"}

Rule == [needsBody : BOOLEAN,          \* matcherUsesBody(rule.match)
         delay : BOOLEAN,              \* rule.request.delay
         action : RequestActions,
         onReply : BOOLEAN,            \* rule.response is present
         replyMatch : BOOLEAN,         \* rule.response.match is present
         replyDelay : BOOLEAN,
         replyAction : ReplyActions]

ASSUME ExchangeConstants ==
  /\ Rules \subseteq Rule
  /\ Nil \notin Rule

(* Where the handler is: before its first step, or what it awaits or does next. *)
Stages == {"start", "readingBody", "evaluating", "evaluatingAborted",
           "requestDelay", "requestStage", "sending", "readingReply",
           "matchingReply", "replyDelay", "replyStage", "manipulating",
           "deliver", "faultSleep", "done"}

(* What the client may be answered. *)
Responses == {"too_large", "mock", "fault", "bad_gateway", "gateway_timeout",
              "original", "changed", "internal_error"}

ASSUME NilConstant == Nil \notin Responses

VARIABLES
  pc,         \* one of Stages
  interest,   \* requestBodyInterest(): "none", "want" or "need"
  body,       \* "unread", "streamed", "buffered", "empty", "short" or "aborted"
  conn,       \* "open", "left" by the client or "closed" by the proxy
  rule,       \* evaluation.interceptRule, or Nil
  captured,   \* captureRules is not empty
  errors,     \* ruleErrors is not empty
  flags,      \* the OutcomeFlags that are set
  drafts,     \* of forwardedDraft and upstreamDraft, those that are set
  changed,    \* responseChanged, "no" or "yes"; "halfway": by a patch that failed
  reply,      \* the upstream: "none" asked, "awaited", its body "open", "read" or
              \* "overflowed" the limit, "piped" to the client, "spliced" behind
              \* what was read of it, "destroyed" or "failed"
  response,   \* what went out to the client, or Nil
  recorded,   \* calls of recordRequest()
  log         \* the entries added to the traffic log

vars == <<pc, interest, body, conn, rule, captured, errors, flags, drafts,
          changed, reply, response, recorded, log>>

evaluation == <<rule, captured>>
trace == <<errors, flags, drafts, recorded, log>>

Init ==
  /\ pc = "start"
  /\ interest \in {"none", "want", "need"}
  /\ body = "unread"
  /\ conn = "open"
  /\ rule = Nil /\ captured = FALSE /\ errors = FALSE
  /\ flags = {} /\ drafts = {} /\ changed = "no"
  /\ reply = "none" /\ response = Nil
  /\ recorded = 0 /\ log = <<>>

----------------------------------------------------------------------------
(* The exchange object of the listener. *)

IsDestroyed(c) == c # "open"

(* destroy(): a connection that is gone already stays as it is. *)
Hangup == conn' = IF IsDestroyed(conn) THEN conn ELSE "closed"

(* Headers that come from a rule or from the upstream may be refused by    *)
(* writeHead(), and the connection is then destroyed.                      *)
MayBeRefused == {"mock", "fault", "original", "changed"}

(* respond() and respondStream() do nothing when it is too late. *)
Respond(what) ==
  \/ /\ IsDestroyed(conn) \/ response # Nil
     /\ UNCHANGED <<conn, response>>
  \/ /\ ~IsDestroyed(conn) /\ response = Nil
     /\ response' = what
     /\ UNCHANGED conn
  \/ /\ ~IsDestroyed(conn) /\ response = Nil
     /\ what \in MayBeRefused
     /\ conn' = "closed"
     /\ UNCHANGED response

----------------------------------------------------------------------------
(* The log entry. *)

Matched == rule # Nil \/ captured

ShouldLog(f, e) == Matched \/ e \/ "upstream_error" \in f

(* Without a second look at the connection. *)
WriteLogUnchecked(f, e, d, c) ==
  /\ flags' = f /\ errors' = e /\ drafts' = d
  /\ recorded' = recorded + 1
  /\ log' = IF ShouldLog(f, e)
            THEN Append(log, [outcome |-> Outcome(f, e),
                              reason |-> Reason(Outcome(f, e), e, rule # Nil, captured),
                              drafts |-> d])
            ELSE log

(* writeLog(), with the flags, rule errors and drafts it finds, on a connection c. *)
WriteLog(f, e, d, c) ==
  LET all == IF IsDestroyed(c) THEN f \cup {"client_aborted"} ELSE f
      outcome == Outcome(all, e)
  IN  /\ flags' = all /\ errors' = e /\ drafts' = d
      /\ recorded' = recorded + 1
      /\ log' = IF ShouldLog(all, e)
                THEN Append(log, [outcome |-> outcome,
                                  reason |-> Reason(outcome, e, rule # Nil, captured),
                                  drafts |-> d])
                ELSE log

----------------------------------------------------------------------------
(* The request body. *)

Stream ==
  /\ body' = "streamed" /\ pc' = "evaluating"
  /\ UNCHANGED <<conn, response>>

(* reject413(): neither counted nor logged, no rule was evaluated. *)
TooLarge ==
  /\ Respond("too_large") /\ pc' = "done"
  /\ UNCHANGED body

(* The first steps, up to a decision about the request body: transparent    *)
(* streaming, or a declared length above the limit, or reading up to it.    *)
Begin ==
  /\ pc = "start"
  /\ \/ interest # "need" /\ Stream
     \/ interest = "need" /\ TooLarge
     \/ /\ interest # "none"
        /\ pc' = "readingBody" /\ UNCHANGED <<body, conn, response>>
  /\ UNCHANGED <<interest, evaluation, trace, changed, reply>>

BodyComplete ==
  /\ pc = "readingBody"
  /\ body' \in {"buffered", "empty"} /\ pc' = "evaluating"
  /\ UNCHANGED <<interest, conn, evaluation, trace, changed, reply, response>>

BodyOverflows ==
  /\ pc = "readingBody"
  /\ IF interest = "need" THEN TooLarge ELSE Stream
  /\ UNCHANGED <<interest, evaluation, trace, changed, reply>>

BodyShortForwarded ==
  /\ pc = "readingBody"
  /\ body' = "short" /\ pc' = "evaluating"
  /\ UNCHANGED <<interest, conn, evaluation, trace, changed, reply, response>>

BodyShortUnanswered ==
  /\ pc = "readingBody"
  /\ body' = "short" /\ pc' = "evaluatingAborted"
  /\ UNCHANGED <<interest, conn, evaluation, trace, changed, reply, response>>

(* The stream ends, but before the declared length was delivered. *)
BodyShort ==
  /\ pc = "readingBody"
  /\ body' = "short" /\ Hangup /\ pc' = "evaluatingAborted"
  /\ UNCHANGED <<interest, evaluation, trace, changed, reply, response>>

(* The stream closes without an end: readBodyUpTo() rejects. *)
BodyAborted ==
  /\ pc = "readingBody" /\ conn = "left"
  /\ body' = "aborted" /\ Hangup /\ pc' = "evaluatingAborted"
  /\ UNCHANGED <<interest, evaluation, trace, changed, reply, response>>

----------------------------------------------------------------------------
(* Rule evaluation. *)

(* What evaluateRequest() may find: the intercept rule, whether rules capture, *)
(* whether matchers failed.  No interest means that no rule is active; a rule  *)
(* that reads the body is passed over while there is none; only scripts fail,  *)
(* and they make the body needed.                                              *)
MayFind(r, captures, failures) ==
  /\ interest = "none" => r = Nil /\ ~captures
  /\ failures => interest = "need"
  /\ r # Nil /\ r.needsBody => interest = "need" /\ body = "buffered"

Evaluate ==
  /\ pc = "evaluating"
  /\ \E r \in Rules \cup {Nil}, captures, failures \in BOOLEAN :
       /\ MayFind(r, captures, failures)
       /\ rule' = r /\ captured' = captures /\ errors' = failures
       /\ pc' = IF r # Nil /\ r.delay THEN "requestDelay" ELSE "requestStage"
  /\ UNCHANGED <<interest, body, conn, flags, drafts, changed, reply, response, recorded, log>>

(* With an entry only where a rule captures or fails. *)
EvaluateAbortedCapture ==
  /\ pc = "evaluatingAborted"
  /\ \E r \in Rules \cup {Nil}, captures, failures \in BOOLEAN :
       /\ MayFind(r, captures, failures)
       /\ rule' = r /\ captured' = captures /\ errors' = failures
       /\ log' = IF captures \/ failures
                 THEN Append(log, [outcome |-> "client_aborted",
                                   reason |-> "client_aborted", drafts |-> {}])
                 ELSE log
  /\ recorded' = recorded + 1
  /\ pc' = "done"
  /\ UNCHANGED <<interest, body, conn, flags, drafts, changed, reply, response>>

(* The body failed: the rules are consumed all the same, and the attempt is *)
(* logged if any of them matched or failed.                                 *)
EvaluateAborted ==
  /\ pc = "evaluatingAborted"
  /\ \E r \in Rules \cup {Nil}, captures, failures \in BOOLEAN :
       /\ MayFind(r, captures, failures)
       /\ rule' = r /\ captured' = captures /\ errors' = failures
       /\ log' = IF r # Nil \/ captures \/ failures
                 THEN Append(log, [outcome |-> "client_aborted",
                                   reason |-> "client_aborted", drafts |-> {}])
                 ELSE log
  /\ recorded' = recorded + 1
  /\ pc' = "done"
  /\ UNCHANGED <<interest, body, conn, flags, drafts, changed, reply, response>>

----------------------------------------------------------------------------
(* Faults, shared by both stages; d are the drafts of the entry. *)

AnswerWithFault(d) ==
  /\ Respond("fault")
  /\ WriteLog(flags \cup {"fault"}, errors, d, conn')
  /\ pc' = "done"

BreakConnection(d) ==
  /\ WriteLog(flags \cup {"fault"}, errors, d, conn)
  /\ Hangup
  /\ pc' = "done" /\ UNCHANGED response

HoldConnection(kind, d) ==
  /\ WriteLog(flags \cup {"fault"}, errors, d, conn)
  /\ pc' = IF kind = "timeout" THEN "faultSleep" ELSE "done"
  /\ UNCHANGED <<conn, response>>

ExecuteFault(kind, d) ==
  \/ kind = "http_response" /\ AnswerWithFault(d)
  \/ kind = "connection" /\ BreakConnection(d)
  \/ kind \in {"timeout", "hang"} /\ HoldConnection(kind, d)

FaultSleepLogging ==
  /\ pc = "faultSleep"
  /\ WriteLog(flags, errors, drafts, conn)
  /\ Hangup /\ pc' = "done"
  /\ UNCHANGED <<interest, body, evaluation, changed, reply, response>>

FaultSleepElapses ==
  /\ pc = "faultSleep"
  /\ Hangup /\ pc' = "done"
  /\ UNCHANGED <<interest, body, evaluation, trace, changed, reply, response>>

(* The catch block around both stages: an exception nobody handled before. *)
Fail ==
  /\ \/ /\ IsDestroyed(conn)
        /\ WriteLog(flags \cup {"client_aborted"}, errors, drafts, conn)
        /\ UNCHANGED <<conn, response>>
     \/ /\ ~IsDestroyed(conn)
        /\ Respond("internal_error")
        /\ WriteLog(flags, TRUE, drafts, conn')
  /\ pc' = "done"

----------------------------------------------------------------------------
(* The request stage. *)

ActionIs(action) == rule # Nil /\ rule.action = action

RequestDelayElapses ==
  /\ pc = "requestDelay"
  /\ flags' = flags \cup {"delayed"} /\ pc' = "requestStage"
  /\ UNCHANGED <<interest, body, conn, evaluation, errors, drafts, changed, reply,
                 response, recorded, log>>

Mock ==
  /\ pc = "requestStage" /\ ActionIs("mock_response")
  /\ Respond("mock")
  /\ WriteLog(flags \cup {"mock"}, errors, drafts, conn')
  /\ pc' = "done"
  /\ UNCHANGED <<interest, body, evaluation, changed, reply>>

RequestFault ==
  /\ pc = "requestStage"
  /\ \E kind \in Faults : ActionIs(kind) /\ ExecuteFault(kind, drafts)
  /\ UNCHANGED <<interest, body, evaluation, changed, reply>>

(* The request goes to the upstream, after a rewrite that may change nothing. *)
Forward ==
  /\ pc = "requestStage"
  /\ rule # Nil => rule.action \in {"none", "request_rewrite"}
  /\ \/ UNCHANGED <<flags, drafts>>
     \/ /\ ActionIs("request_rewrite")
        /\ flags' = flags \cup {"modified"} /\ drafts' = drafts \cup {"forwarded"}
  /\ reply' = "awaited" /\ pc' = "sending"
  /\ UNCHANGED <<interest, body, conn, evaluation, errors, changed, response, recorded, log>>

RewriteThrows ==
  /\ pc = "requestStage" /\ ActionIs("request_rewrite")
  /\ Fail
  /\ UNCHANGED <<interest, body, evaluation, changed, reply>>

----------------------------------------------------------------------------
(* The upstream. *)

(* Without the return. *)
AnswerForAndGoOn(status) ==
  /\ Respond(status)
  /\ WriteLog(flags \cup {"upstream_error"}, errors, drafts \cup {"upstream"}, conn')
  /\ reply' = "failed" /\ pc' = "deliver"

(* The proxy answers in place of the upstream, which counts as an error. *)
AnswerFor(status) ==
  /\ Respond(status)
  /\ WriteLog(flags \cup {"upstream_error"}, errors, drafts \cup {"upstream"}, conn')
  /\ reply' = "failed" /\ pc' = "done"

SendFails ==
  /\ pc = "sending"
  /\ \E status \in {"bad_gateway", "gateway_timeout"} : AnswerFor(status)
  /\ UNCHANGED <<interest, body, evaluation, changed>>

AfterReply == IF rule # Nil /\ rule.onReply THEN "matchingReply" ELSE "deliver"

(* The reply's headers are there.  Its body is read if a rule matched, unless *)
(* it is an event stream or declared too large.                               *)
ReplyArrives ==
  /\ pc = "sending"
  /\ \/ Matched /\ pc' = "readingReply"
     \/ pc' = AfterReply
  /\ reply' = "open"
  /\ UNCHANGED <<interest, body, conn, evaluation, trace, changed, response>>

(* All of it, or a prefix: concatStream() pipes the rest into a stream of its *)
(* own, behind the prefix.                                                    *)
ReplyIsRead ==
  /\ pc = "readingReply"
  /\ reply' \in {"read", "overflowed"} /\ pc' = AfterReply
  /\ UNCHANGED <<interest, body, conn, evaluation, trace, changed, response>>

ReplyBreaks ==
  /\ pc = "readingReply"
  /\ AnswerFor("bad_gateway")
  /\ UNCHANGED <<interest, body, evaluation, changed>>

----------------------------------------------------------------------------
(* The response stage. *)

ReplyMatches ==
  /\ pc = "matchingReply"
  /\ pc' = IF rule.replyDelay THEN "replyDelay" ELSE "replyStage"
  /\ UNCHANGED <<interest, body, conn, evaluation, trace, changed, reply, response>>

ReplyDoesNotMatch ==
  /\ pc = "matchingReply" /\ rule.replyMatch
  /\ errors' \in {errors, TRUE} /\ pc' = "deliver"
  /\ UNCHANGED <<interest, body, conn, evaluation, flags, drafts, changed, reply,
                 response, recorded, log>>

(* A timer that is dropped with the connection. *)
ReplyDelayDropped ==
  /\ pc = "replyDelay" /\ conn = "open"
  /\ flags' = flags \cup {"delayed"} /\ pc' = "replyStage"
  /\ UNCHANGED <<interest, body, conn, evaluation, errors, drafts, changed, reply,
                 response, recorded, log>>

ReplyDelayElapses ==
  /\ pc = "replyDelay"
  /\ flags' = flags \cup {"delayed"} /\ pc' = "replyStage"
  /\ UNCHANGED <<interest, body, conn, evaluation, errors, drafts, changed, reply,
                 response, recorded, log>>

(* responseBody === undefined *)
Unread == {"open", "overflowed"}

ReplyFaultUntraced ==
  /\ pc = "replyStage" /\ rule.replyAction \in Faults
  /\ reply' = IF reply \in Unread THEN "destroyed" ELSE reply
  /\ ExecuteFault(rule.replyAction, drafts)
  /\ UNCHANGED <<interest, body, evaluation, changed>>

ReplyFault ==
  /\ pc = "replyStage" /\ rule.replyAction \in Faults
  /\ reply' = IF reply \in Unread THEN "destroyed" ELSE reply
  /\ ExecuteFault(rule.replyAction, drafts \cup {"upstream"})
  /\ UNCHANGED <<interest, body, evaluation, changed>>

ChangeReply ==
  /\ changed' = "yes"
  /\ flags' = flags \cup {"modified"}
  /\ pc' = "deliver"
  /\ UNCHANGED <<interest, body, conn, evaluation, errors, drafts, reply, response,
                 recorded, log>>

LeaveReply ==
  /\ pc' = "deliver"
  /\ UNCHANGED <<interest, body, conn, evaluation, trace, changed, reply, response>>

(* A manipulator is run on a buffered body only. *)
ReplyAction ==
  /\ pc = "replyStage"
  /\ \/ rule.replyAction \in {"none", "response_replace"} /\ LeaveReply
     \/ rule.replyAction = "response_replace" /\ ChangeReply
     \/ rule.replyAction = "script_manipulator" /\ reply \in Unread /\ LeaveReply
     \/ /\ rule.replyAction = "script_manipulator" /\ reply = "read"
        /\ pc' = "manipulating"
        /\ UNCHANGED <<interest, body, conn, evaluation, trace, changed, reply, response>>

ReplaceThrows ==
  /\ pc = "replyStage" /\ rule.replyAction = "response_replace"
  /\ Fail
  /\ UNCHANGED <<interest, body, evaluation, changed, reply>>

(* The script failed, timed out or could not be run, or its patch is refused, *)
(* perhaps after its headers have been put into the response.                 *)
PatchFails ==
  /\ errors' = TRUE /\ pc' = "deliver"
  /\ changed' \in {"no", "halfway"}
  /\ UNCHANGED <<interest, body, conn, evaluation, flags, drafts, reply, response,
                 recorded, log>>

(* The manipulator's patch is applied, changes nothing, or fails. *)
Manipulated ==
  /\ pc = "manipulating"
  /\ ChangeReply \/ LeaveReply \/ PatchFails

(* What is left of the upstream's body once its headers were handed on.  The *)
(* handlers that destroy it with the client are only installed when the      *)
(* headers could be written; HTTP/1.1 and HTTP/2 differ when they could not, *)
(* and when the client has left, HTTP/1.1 still takes the end of an empty one. *)
(* Of an overflowed body they destroy the stream it was piped into: unless its *)
(* last bytes are in there already, the rest of it is left where it is.        *)
Held == {"open", "read"}

Piped ==
  IF reply = "read" THEN {"read"}
  ELSE IF IsDestroyed(conn) THEN Held
  ELSE IF reply = "overflowed" THEN IF IsDestroyed(conn') THEN Held ELSE {"spliced"}
  ELSE IF IsDestroyed(conn') THEN {"open", "destroyed"} ELSE {"piped"}

Deliver ==
  /\ pc = "deliver"
  /\ Respond(IF changed = "no" THEN "original" ELSE "changed")
  /\ reply' \in Piped
  /\ WriteLog(flags, errors, IF changed = "yes" THEN drafts \cup {"upstream"} ELSE drafts, conn')
  /\ pc' = "done"
  /\ UNCHANGED <<interest, body, evaluation, changed>>

----------------------------------------------------------------------------
(* The client and the rest of a streamed reply. *)

Flowing == {"piped", "spliced"}

ClientLeaves ==
  /\ conn = "open"
  /\ pc # "done" \/ reply \in Flowing \/ response = Nil
  /\ conn' = "left"
  /\ CASE reply = "piped" -> reply' = "destroyed"
       [] reply = "spliced" -> reply' \in Held
       [] OTHER -> UNCHANGED reply
  /\ UNCHANGED <<pc, interest, body, evaluation, trace, changed, response>>

PipeEnds ==
  /\ reply \in Flowing
  /\ reply' = "read"
  /\ UNCHANGED <<pc, interest, body, conn, evaluation, trace, changed, response>>

PipeBreaks ==
  /\ reply \in Flowing
  /\ reply' = "failed" /\ conn' = "closed"
  /\ UNCHANGED <<pc, interest, body, evaluation, trace, changed, response>>

----------------------------------------------------------------------------
(* Steps that are sure to be taken: the handler's own, timers, scripts (the *)
(* sandbox settles), the upstream's headers or their timeout (which only a  *)
(* request body sent for ever could put off), and the news that a client    *)
(* whose body is being read has left.                                       *)
HandlerStep ==
  \/ Begin \/ BodyAborted \/ Evaluate \/ EvaluateAborted
  \/ RequestDelayElapses \/ Mock \/ RequestFault \/ Forward \/ RewriteThrows
  \/ SendFails \/ ReplyArrives
  \/ ReplyMatches \/ ReplyDoesNotMatch \/ ReplyDelayElapses \/ ReplyFault
  \/ ReplyAction \/ ReplaceThrows \/ Manipulated \/ Deliver \/ FaultSleepElapses

(* Steps that take a client or an upstream that goes on sending. *)
PeerStep ==
  \/ BodyComplete \/ BodyOverflows \/ BodyShort
  \/ ReplyIsRead \/ ReplyBreaks \/ PipeEnds \/ PipeBreaks
  \/ ClientLeaves

Next == HandlerStep \/ PeerStep

Spec == Init /\ [][Next]_vars

FairSpec == Spec /\ WF_vars(HandlerStep)

----------------------------------------------------------------------------
Bodies == {"unread", "streamed", "buffered", "empty", "short", "aborted"}
Replies == {"none", "awaited", "open", "read", "overflowed", "piped", "spliced",
            "destroyed", "failed"}

(* Types of the variables. *)
TypeOK ==
  /\ pc \in Stages
  /\ interest \in {"none", "want", "need"}
  /\ body \in Bodies
  /\ conn \in {"open", "left", "closed"}
  /\ rule \in Rules \cup {Nil}
  /\ captured \in BOOLEAN /\ errors \in BOOLEAN
  /\ changed \in {"no", "yes", "halfway"}
  /\ flags \subseteq Flags /\ drafts \subseteq Drafts
  /\ reply \in Replies
  /\ response \in Responses \cup {Nil}
  /\ recorded \in Nat
  /\ log \in Seq(Entry)

(* The exchange ended with 413: nothing of its body was accepted. *)
Refused == pc = "done" /\ body = "unread"

(* Every exchange is counted exactly once, however it ends, unless it was     *)
(* refused with 413 before any rule was evaluated, and logged at most once,   *)
(* when it is counted: no exit of handleHttpExchange is without its           *)
(* writeLog() and none runs into a second one.                                *)
RecordedOnce ==
  /\ recorded <= 1 /\ Len(log) <= recorded
  /\ pc = "done" => (recorded = 1 <=> ~Refused)

(* A rule that was applied, and perhaps consumed, leaves a trace: the exchange *)
(* has an entry, also when the client left or the upstream failed.             *)
AppliedRuleIsLogged ==
  pc = "done" /\ (Matched \/ errors) => Len(log) = 1

(* The fault that was run, if one was: the request's when nothing was forwarded. *)
AppliedFault == IF reply = "none" THEN rule.action ELSE rule.replyAction

(* What the client met with, as an entry with this outcome has it. *)
AnswerFits(outcome) ==
  /\ outcome = "client_aborted" => response = Nil
  /\ outcome = "upstream_error" => response \in {"bad_gateway", "gateway_timeout"}
  /\ outcome = "mock" => response = "mock"
  /\ outcome = "fault" =>
       response = IF AppliedFault \in {"connection", "timeout", "hang"} THEN Nil ELSE "fault"
  /\ outcome = "modified" => response \in {"original", "changed", "internal_error"}
  /\ outcome \in {"delayed", "rule_error"} =>
       response \in {"original", "internal_error"} \cup (IF changed = "halfway" THEN {"changed"} ELSE {})
  /\ outcome = "captured" => response = "original"

(* The outcome in the log is what the client met with: a mock, fault or        *)
(* change that was never delivered is not logged as applied (writeLog() looks  *)
(* at the connection again), and what was delivered is not logged as aborted.  *)
(* A patch that failed halfway is the exception (FailedPatchPassesThrough).    *)
LogTellsWhatClientGot ==
  \A i \in 1 .. Len(log) : AnswerFits(log[i].outcome)

(* The reason given for an entry is one that is there, and an upstream failure *)
(* or rule error is named only when no rule matched.                           *)
LogSaysWhy ==
  \A i \in 1 .. Len(log) :
    LET reason == log[i].reason
    IN  /\ reason = "matched_rule" => rule # Nil
        /\ reason = "capture_rule" => captured /\ rule = Nil
        /\ reason = "rule_error" => errors /\ ~Matched
        /\ reason = "upstream_error" => reply = "failed" /\ ~Matched
        /\ reason = "client_aborted" => conn # "open"

(* A changed exchange can be traced: an entry that says "modified" holds the   *)
(* forwarded request or the upstream's own response, and it holds the latter   *)
(* whenever the client got a changed response or a fault in its place, but for *)
(* a change by a patch that failed.                                            *)
ChangesAreTraceable ==
  \A i \in 1 .. Len(log) :
    /\ log[i].outcome = "modified" => log[i].drafts # {}
    /\ response = "changed" => changed = "halfway" \/ "upstream" \in log[i].drafts
    /\ response = "fault" /\ reply # "none" => "upstream" \in log[i].drafts

(* When the handler is done the client has its answer or a closed connection,  *)
(* unless a fault was to leave it hanging.                                     *)
NobodyLeftWaiting ==
  pc = "done" => \/ response # Nil
                 \/ conn # "open"
                 \/ rule # Nil /\ AppliedFault = "hang"

(* An incomplete request body that was to be buffered is never forwarded, and  *)
(* a rule that reads the body never applies without one.                       *)
IncompleteNotForwarded ==
  /\ body \in {"short", "aborted"} => reply = "none"
  /\ rule # Nil /\ rule.needsBody => body = "buffered"

(* Every exchange ends, whatever the client does in the meantime, unless a     *)
(* body stalls for ever: the code sets no timeout for either body.             *)
EndsUnlessBodyStalls ==
  <>(pc = "done" \/ [](pc = "readingReply") \/ [](pc = "readingBody" /\ conn = "open"))

(* The trace of an exchange is as ExchangeLog promises. *)
Trace == INSTANCE ExchangeLog WITH rejected <- Refused
TraceSpec == Trace!TraceSpec

(* `rule_error` is "script error などにより rule 適用に失敗し passthrough した"          *)
(* (docs/spec.md:1354: applying the rule failed and the response was passed       *)
(* through): what the client got is what the upstream sent.                       *)
FailedPatchPassesThrough ==
  \A i \in 1 .. Len(log) : log[i].outcome = "rule_error" => response # "changed"

(* "the 'close' handlers in the pipeline do the cleanup" when the client goes   *)
(* (src/proxy/http-listener.ts:82): when the handler is done and the client has *)
(* left, the body of the upstream's reply is not held, unread, by anyone.  They *)
(* are installed with the response, and not for a client that left before it.   *)
ReplyIsReleased == pc = "done" /\ conn = "left" => reply # "open"

(* The same of a client that left after its response had begun, when the        *)
(* handlers are there: they destroy the stream they were given, which for a     *)
(* body above the limit is not the upstream's (src/proxy/body.ts:6).            *)
SentReplyIsReleased == response # Nil /\ conn = "left" => reply # "open"

=============================================================================
