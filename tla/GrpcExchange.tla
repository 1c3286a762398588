----------------------------- MODULE GrpcExchange ------------------------------
(***************************************************************************)
(* One gRPC call (src/src/grpc/grpc-listener.ts): what its two paths share.*)
(* A method known to be unary is buffered (handleUnary), every other one   *)
(* is relayed as it comes (handleStreaming).  This module holds the state, *)
(* the listener's answers, the log entry and the way to the upstream;      *)
(* GrpcCall adds the two ways back.                                        *)
(*                                                                         *)
(* Metadata, messages and scripts are left out; what a matcher, a rewrite, *)
(* a script or the upstream does is a choice.                              *)
(***************************************************************************)
EXTENDS ExchangeOutcome, Naturals, Sequences

CONSTANTS
  Rules,      \* the intercept rules that may be found to apply
  Nil

(* A fault of kind "timeout" without durationMs is called "hang" here; the *)
(* kind "http_response" is refused for gRPC rules by their validation.     *)
Faults == {"grpc_status", "connection", "timeout", "hang"}
RequestActions == Faults \cup {"none", "mock_response", "request_rewrite"}
ReplyActions == Faults \cup {"none", "response_replace", "script_manipulator"}

Rule == [delay : BOOLEAN,
         action : RequestActions,
         onReply : BOOLEAN,            \* rule.response is present
         replyMatch : {"none", "headers", "trailers"},   \* its condition, and what that reads
         replyDelay : BOOLEAN,
         replyAction : ReplyActions]

ASSUME CallConstants ==
  /\ Rules \subseteq Rule
  /\ Nil \notin Rule

(* Where the call is: before its first step, or what is awaited or done next. *)
Stages == {"start", "readingBody", "evaluating", "evaluatingAborted",
           "requestDelay", "requestStage", "sending", "readingReply",
           "matchingReply", "replyDelay", "replyStage", "manipulating", "deliver",
           "relaying", "matchingTrailers", "patchingTrailers", "finishing",
           "faultSleep", "done"}

(* What the client may be answered. *)
Responses == {"exhausted", "mock", "fault", "unavailable", "deadline_exceeded",
              "unbuffered", "original", "changed", "internal_error"}

(* Nil is none of them, nor the name of the trailers that end a call. *)
ASSUME NilIsNoResponse == Nil \notin Responses \cup {"own", "upstream"}

VARIABLES
  unary,      \* the descriptors know the method, and that it is unary
  pc,         \* one of Stages
  stream,     \* the client's: "open", "left" by the client or "closed" by the proxy
  rule,       \* acc.rule, or Nil
  captured,   \* acc.captureRules is not empty
  errors,     \* acc.ruleErrors is not empty
  flags,      \* those of acc.flags that are set
  drafts,     \* of acc.forwardedDraft and acc.upstreamDraft, those that are set
  changed,    \* what the client is sent was changed: "no", "yes", or "halfway" by
              \* a patch that failed
  reply,      \* the upstream: "none" asked, "awaited", its body "open", "read",
              \* "piped" to the client, "ended", "cut" off like an end, "lost" before
              \* anyone listened, "destroyed" or "failed"
  response,   \* what went out to the client, or Nil
  ending,     \* the trailers it was sent: Nil, the proxy's "own", or in a relayed
              \* call the "upstream"'s or "changed" ones
  rejected,   \* refused because the request is too large
  recorded,   \* calls of recordRequest()
  log         \* the entries added to the traffic log

vars == <<unary, pc, stream, rule, captured, errors, flags, drafts, changed, reply,
          response, ending, rejected, recorded, log>>

evaluation == <<rule, captured>>
trace == <<errors, flags, drafts, recorded, log>>
answer == <<response, ending>>
fixed == <<unary, rejected>>

Init ==
  /\ unary \in BOOLEAN
  /\ pc = "start"
  /\ stream = "open"
  /\ rule = Nil /\ captured = FALSE /\ errors = FALSE
  /\ flags = {} /\ drafts = {} /\ changed = "no"
  /\ reply = "none" /\ response = Nil /\ ending = Nil
  /\ rejected = FALSE
  /\ recorded = 0 /\ log = <<>>

----------------------------------------------------------------------------
(* The client's stream. *)

IsDestroyed(s) == s # "open"

(* destroy(), or the reset of its connection: nothing if it is gone already. *)
Hangup == stream' = IF IsDestroyed(stream) THEN stream ELSE "closed"

(* Metadata that comes from a rule or from the upstream may be refused by *)
(* stream.respond(), and the stream is then destroyed.                    *)
MayBeRefused == {"mock", "fault", "original", "changed"}

(* respondGrpc(): headers, body and trailers, unless it is too late. *)
RespondGrpc(what) ==
  \/ /\ IsDestroyed(stream) \/ response # Nil
     /\ UNCHANGED <<stream, answer>>
  \/ /\ ~IsDestroyed(stream) /\ response = Nil
     /\ response' = what /\ ending' = "own"
     /\ UNCHANGED stream
  \/ /\ ~IsDestroyed(stream) /\ response = Nil
     /\ what \in MayBeRefused
     /\ stream' = "closed"
     /\ UNCHANGED answer

----------------------------------------------------------------------------
(* The log entry. *)

Matched == rule # Nil \/ captured

ShouldLog(f, e) == Matched \/ e \/ "upstream_error" \in f

(* makeWriteLog(), with the flags, rule errors and drafts it finds. *)
RawWriteLog(f, e, d) ==
  /\ flags' = f /\ errors' = e /\ drafts' = d
  /\ recorded' = recorded + 1
  /\ log' = IF ShouldLog(f, e)
            THEN Append(log, [outcome |-> Outcome(f, e),
                              reason |-> Reason(Outcome(f, e), e, rule # Nil, captured),
                              drafts |-> d])
            ELSE log

(* writeLog() of both paths, on a stream s that the relay did not destroy itself. *)
WriteLog(f, e, d, s) ==
  RawWriteLog(IF IsDestroyed(s) THEN f \cup {"client_aborted"} ELSE f, e, d)

(* `logged` *)
Logged == recorded > 0

----------------------------------------------------------------------------
(* The request. *)

(* handleGrpcStream() *)
Begin ==
  /\ pc = "start"
  /\ pc' = IF unary THEN "readingBody" ELSE "evaluating"
  /\ UNCHANGED <<fixed, stream, evaluation, trace, changed, reply, answer>>

BodyComplete ==
  /\ pc = "readingBody"
  /\ pc' = "evaluating"
  /\ UNCHANGED <<fixed, stream, evaluation, trace, changed, reply, answer>>

(* Neither counted nor logged, no rule was evaluated. *)
BodyOverflows ==
  /\ pc = "readingBody"
  /\ RespondGrpc("exhausted")
  /\ rejected' = TRUE /\ pc' = "done"
  /\ UNCHANGED <<unary, evaluation, trace, changed, reply>>

BodyUnusableUnanswered ==
  /\ pc = "readingBody"
  /\ pc' = "evaluatingAborted"
  /\ UNCHANGED <<fixed, stream, evaluation, trace, changed, reply, answer>>

(* It ends inside a frame. *)
BodyUnusable ==
  /\ pc = "readingBody"
  /\ Hangup /\ pc' = "evaluatingAborted"
  /\ UNCHANGED <<fixed, evaluation, trace, changed, reply, answer>>

(* The stream is reset or closes before its end. *)
BodyAborted ==
  /\ pc = "readingBody" /\ IsDestroyed(stream)
  /\ Hangup /\ pc' = "evaluatingAborted"
  /\ UNCHANGED <<fixed, evaluation, trace, changed, reply, answer>>

(* What evaluateRequest() finds: an intercept rule, whether rules capture, *)
(* whether matchers failed.                                                *)
Evaluate ==
  /\ pc = "evaluating"
  /\ \E r \in Rules \cup {Nil}, captures, failures \in BOOLEAN :
       /\ rule' = r /\ captured' = captures /\ errors' = failures
       /\ pc' = IF r # Nil /\ r.delay THEN "requestDelay" ELSE "requestStage"
  /\ UNCHANGED <<fixed, stream, flags, drafts, changed, reply, answer, recorded, log>>

(* logAbortedUnaryRequest(): the rules are consumed all the same, and the *)
(* attempt is logged if any of them matched or failed.                    *)
EvaluateAborted ==
  /\ pc = "evaluatingAborted"
  /\ \E r \in Rules \cup {Nil}, captures, failures \in BOOLEAN :
       /\ rule' = r /\ captured' = captures /\ errors' = failures
       /\ log' = IF r # Nil \/ captures \/ failures
                 THEN Append(log, [outcome |-> "client_aborted",
                                   reason |-> "client_aborted", drafts |-> {}])
                 ELSE log
  /\ recorded' = recorded + 1
  /\ pc' = "done"
  /\ UNCHANGED <<fixed, stream, flags, drafts, changed, reply, answer>>

----------------------------------------------------------------------------
(* Faults, alike in both paths; d are the drafts of the entry. *)

AnswerWithStatus(d) ==
  /\ RespondGrpc("fault")
  /\ WriteLog(flags \cup {"fault"}, errors, d, stream')
  /\ pc' = "done"

BreakConnection(d) ==
  /\ WriteLog(flags \cup {"fault"}, errors, d, stream)
  /\ Hangup
  /\ pc' = "done" /\ UNCHANGED answer

HoldStream(kind, d) ==
  /\ WriteLog(flags \cup {"fault"}, errors, d, stream)
  /\ pc' = IF kind = "timeout" THEN "faultSleep" ELSE "done"
  /\ UNCHANGED <<stream, answer>>

ExecuteFault(kind, d) ==
  \/ kind = "grpc_status" /\ AnswerWithStatus(d)
  \/ kind = "connection" /\ BreakConnection(d)
  \/ kind \in {"timeout", "hang"} /\ HoldStream(kind, d)

FaultSleepElapses ==
  /\ pc = "faultSleep"
  /\ Hangup /\ pc' = "done"
  /\ UNCHANGED <<fixed, evaluation, trace, changed, reply, answer>>

(* The catch block around each path; what becomes of the reply differs. *)
Fail ==
  /\ \/ /\ IsDestroyed(stream)
        /\ WriteLog(flags \cup {"client_aborted"}, errors, drafts, stream)
        /\ UNCHANGED <<stream, answer>>
     \/ /\ ~IsDestroyed(stream)
        /\ RespondGrpc("internal_error")
        /\ WriteLog(flags, TRUE, drafts, stream')
  /\ pc' = "done"

----------------------------------------------------------------------------
(* The request stage. *)

ActionIs(action) == rule # Nil /\ rule.action = action

RequestDelayElapses ==
  /\ pc = "requestDelay"
  /\ flags' = flags \cup {"delayed"} /\ pc' = "requestStage"
  /\ UNCHANGED <<fixed, stream, evaluation, errors, drafts, changed, reply, answer,
                 recorded, log>>

Mock ==
  /\ pc = "requestStage" /\ unary /\ ActionIs("mock_response")
  /\ RespondGrpc("mock")
  /\ WriteLog(flags \cup {"mock"}, errors, drafts, stream')
  /\ pc' = "done"
  /\ UNCHANGED <<fixed, evaluation, changed, reply>>

(* The descriptors cannot encode the messages of the mock. *)
MockFails ==
  /\ pc = "requestStage" /\ unary /\ ActionIs("mock_response")
  /\ RespondGrpc("internal_error")
  /\ WriteLog(flags, TRUE, drafts, stream')
  /\ pc' = "done"
  /\ UNCHANGED <<fixed, evaluation, changed, reply>>

RequestFault ==
  /\ pc = "requestStage"
  /\ \E kind \in Faults : ActionIs(kind) /\ ExecuteFault(kind, drafts)
  /\ UNCHANGED <<fixed, evaluation, changed, reply>>

(* The request goes to the upstream, after a rewrite that may change nothing; *)
(* a mock is not for calls that are relayed, and counts as a rule error.      *)
Forward ==
  /\ pc = "requestStage"
  /\ rule # Nil => \/ rule.action \in {"none", "request_rewrite"}
                   \/ rule.action = "mock_response" /\ ~unary
  /\ \/ UNCHANGED <<flags, drafts>>
     \/ /\ ActionIs("request_rewrite")
        /\ flags' = flags \cup {"modified"} /\ drafts' = drafts \cup {"forwarded"}
  /\ errors' = (errors \/ ActionIs("mock_response"))
  /\ reply' = "awaited" /\ pc' = "sending"
  /\ UNCHANGED <<fixed, stream, evaluation, changed, answer, recorded, log>>

----------------------------------------------------------------------------
(* The upstream. *)

(* The proxy answers in place of the upstream, which counts as an error. *)
AnswerFor(what) ==
  /\ RespondGrpc(what)
  /\ WriteLog(flags \cup {"upstream_error"}, errors, drafts \cup {"upstream"}, stream')
  /\ pc' = "done"

SendFails ==
  /\ pc = "sending"
  /\ \E what \in {"unavailable", "deadline_exceeded"} : AnswerFor(what)
  /\ reply' = "failed"
  /\ UNCHANGED <<fixed, evaluation, changed>>

(* The stage a relayed call enters with the headers of its reply: a condition *)
(* on trailers, and with it the whole stage, waits for them.                  *)
HeaderStage ==
  IF rule # Nil /\ rule.onReply /\ rule.replyMatch # "trailers" THEN "matchingReply" ELSE "deliver"

ReplyArrives ==
  /\ pc = "sending"
  /\ reply' = "open"
  /\ pc' = IF unary THEN "readingReply" ELSE HeaderStage
  /\ UNCHANGED <<fixed, stream, evaluation, trace, changed, answer>>

=============================================================================
