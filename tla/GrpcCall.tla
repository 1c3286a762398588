------------------------------- MODULE GrpcCall --------------------------------
(***************************************************************************)
(* The two ways back of a gRPC call (src/src/grpc/grpc-listener.ts): a     *)
(* unary reply is buffered, changed and sent at once; any other one is     *)
(* relayed, and its log entry is left to whichever comes first: its end,   *)
(* an error of it, the client's departure, or an exception.                *)
(*                                                                         *)
(* destroy() and the 'close' event of a stream are one step: the event is  *)
(* emitted before any awaited promise goes on.                             *)
(***************************************************************************)
EXTENDS GrpcExchange

----------------------------------------------------------------------------
(* The reply to a unary call. *)

AfterReply == IF rule # Nil /\ rule.onReply THEN "matchingReply" ELSE "deliver"

ReplyIsRead ==
  /\ pc = "readingReply"
  /\ reply' = "read" /\ pc' = AfterReply
  /\ UNCHANGED <<fixed, stream, evaluation, trace, changed, answer>>

(* It breaks, or is too large and left where it is. *)
ReplyNotBuffered ==
  /\ pc = "readingReply"
  /\ AnswerFor("unbuffered")
  /\ reply' \in {"failed", "open"}
  /\ UNCHANGED <<fixed, evaluation, changed>>

(* grpcStatusOf() throws at a grpc-message it cannot decode. *)
StatusUnreadable ==
  /\ pc = "readingReply"
  /\ Fail
  /\ reply' = "read"
  /\ UNCHANGED <<fixed, evaluation, changed>>

----------------------------------------------------------------------------
(* The response stage: of a unary call, or with the headers of a relayed one. *)

(* upstreamReplyStream?.destroy() in the catch block of the relay. *)
Released == IF ~unary /\ reply = "open" THEN "destroyed" ELSE reply

HeadersUnreadable ==
  /\ pc = "matchingReply" /\ ~unary
  /\ Fail
  /\ reply' = Released
  /\ UNCHANGED <<fixed, evaluation, changed>>

ReplyMatches ==
  /\ pc = "matchingReply"
  /\ pc' = IF rule.replyDelay THEN "replyDelay" ELSE "replyStage"
  /\ UNCHANGED <<fixed, stream, evaluation, trace, changed, reply, answer>>

ReplyDoesNotMatch ==
  /\ pc = "matchingReply" /\ rule.replyMatch # "none"
  /\ errors' \in {errors, TRUE} /\ pc' = "deliver"
  /\ UNCHANGED <<fixed, stream, evaluation, flags, drafts, changed, reply, answer,
                 recorded, log>>

ReplyDelayElapses ==
  /\ pc = "replyDelay"
  /\ flags' = flags \cup {"delayed"} /\ pc' = "replyStage"
  /\ UNCHANGED <<fixed, stream, evaluation, errors, drafts, changed, reply, answer,
                 recorded, log>>

UnaryFaultUntraced ==
  /\ pc = "replyStage" /\ unary /\ rule.replyAction \in Faults
  /\ ExecuteFault(rule.replyAction, drafts)
  /\ UNCHANGED <<fixed, evaluation, changed, reply>>

UnaryFault ==
  /\ pc = "replyStage" /\ unary /\ rule.replyAction \in Faults
  /\ ExecuteFault(rule.replyAction, drafts \cup {"upstream"})
  /\ UNCHANGED <<fixed, evaluation, changed, reply>>

(* Before the relay only a status takes the place of the reply. *)
HeaderFault ==
  /\ pc = "replyStage" /\ ~unary /\ rule.replyAction = "grpc_status"
  /\ AnswerWithStatus(drafts)
  /\ reply' = Released
  /\ UNCHANGED <<fixed, evaluation, changed>>

ChangeReply ==
  /\ changed' = "yes" /\ flags' = flags \cup {"modified"}
  /\ pc' = "deliver"
  /\ UNCHANGED <<fixed, stream, evaluation, errors, drafts, reply, answer, recorded, log>>

LeaveReply ==
  /\ pc' = "deliver"
  /\ UNCHANGED <<fixed, stream, evaluation, trace, changed, reply, answer>>

ReplyAction ==
  /\ pc = "replyStage"
  /\ \/ rule.replyAction \in {"none", "response_replace"} /\ LeaveReply
     \/ rule.replyAction = "response_replace" /\ ChangeReply
     \/ ~unary /\ rule.replyAction \in Faults \ {"grpc_status"} /\ LeaveReply
     \/ /\ rule.replyAction = "script_manipulator"
        /\ pc' = "manipulating"
        /\ UNCHANGED <<fixed, stream, evaluation, trace, changed, reply, answer>>

ReplaceThrows ==
  /\ pc = "replyStage" /\ rule.replyAction = "response_replace"
  /\ Fail
  /\ reply' = Released
  /\ UNCHANGED <<fixed, evaluation, changed>>

(* The script or its patch fails, perhaps after metadata has been put into the *)
(* response.                                                                   *)
PatchFails ==
  /\ errors' = TRUE /\ changed' \in {"no", "halfway"}
  /\ pc' = "deliver"
  /\ UNCHANGED <<fixed, stream, evaluation, flags, drafts, reply, answer, recorded, log>>

(* The patched messages cannot be encoded: body and status are the upstream's *)
(* again, metadata and trailers stay patched.                                 *)
EncodeFails ==
  /\ errors' = TRUE /\ changed' \in {"no", "halfway"}
  /\ flags' = flags \ {"modified"} /\ drafts' = drafts \cup {"upstream"}
  /\ pc' = "deliver"
  /\ UNCHANGED <<fixed, stream, evaluation, reply, answer, recorded, log>>

(* A patch of the status and the trailers of a reply that has none yet. *)
PatchNothing ==
  /\ flags' = flags \cup {"modified"}
  /\ pc' = "deliver"
  /\ UNCHANGED <<fixed, stream, evaluation, errors, drafts, changed, reply, answer,
                 recorded, log>>

Manipulated ==
  /\ pc = "manipulating"
  /\ \/ ChangeReply \/ LeaveReply \/ PatchFails
     \/ unary /\ EncodeFails
     \/ ~unary /\ PatchNothing

Delivered == IF changed = "no" THEN "original" ELSE "changed"

Deliver ==
  /\ pc = "deliver" /\ unary
  /\ RespondGrpc(Delivered)
  /\ WriteLog(flags, errors,
              IF changed = "yes" THEN drafts \cup {"upstream"} ELSE drafts, stream')
  /\ pc' = "done"
  /\ UNCHANGED <<fixed, evaluation, changed, reply>>

----------------------------------------------------------------------------
(* The relay. *)

(* Nobody listens to the reply while the response stage awaits. *)
ReplyIsLost ==
  /\ ~unary /\ pc \in {"matchingReply", "replyDelay", "manipulating"}
  /\ reply = "open"
  /\ reply' = "lost"
  /\ UNCHANGED <<fixed, pc, stream, evaluation, trace, changed, answer>>

StartRelay ==
  /\ pc = "deliver" /\ ~unary /\ ~IsDestroyed(stream)
  /\ response' = Delivered
  /\ reply' = IF reply = "open" THEN "piped" ELSE reply
  /\ pc' = "relaying"
  /\ UNCHANGED <<fixed, stream, evaluation, trace, changed, ending>>

(* stream.respond() throws: the client is gone or the metadata is refused. *)
RelayRefused ==
  /\ pc = "deliver" /\ ~unary
  /\ Fail
  /\ reply' = Released
  /\ UNCHANGED <<fixed, evaluation, changed>>

Relay == {"relaying", "matchingTrailers", "patchingTrailers", "finishing"}

NeedsTrailers == rule # Nil /\ rule.onReply /\ rule.replyMatch = "trailers"

(* The end of the reply.  A reset without an error code looks like one, and   *)
(* the end may also follow the 'close' event by which the proxy destroyed it. *)
ReplyEnds ==
  /\ pc = "relaying"
  /\ \/ reply = "piped" /\ reply' = "ended"
     \/ reply = "piped" /\ reply' = "cut"
     \/ reply = "destroyed" /\ UNCHANGED reply
  /\ pc' = IF Logged THEN "done"
           ELSE IF NeedsTrailers THEN "matchingTrailers" ELSE "finishing"
  /\ UNCHANGED <<fixed, stream, evaluation, trace, changed, answer>>

TrailersMatch ==
  /\ pc = "matchingTrailers"
  /\ \/ /\ rule.replyAction = "grpc_status"
        /\ flags' = flags \cup {"fault"} /\ changed' = "yes"
        /\ pc' = "finishing"
     \/ /\ rule.replyAction = "script_manipulator"
        /\ pc' = "patchingTrailers" /\ UNCHANGED <<flags, changed>>
     \/ /\ rule.replyAction \notin {"grpc_status", "script_manipulator"}
        /\ pc' = "finishing" /\ UNCHANGED <<flags, changed>>
  /\ UNCHANGED <<fixed, stream, evaluation, errors, drafts, reply, answer, recorded, log>>

TrailersDoNotMatch ==
  /\ pc = "matchingTrailers"
  /\ errors' \in {errors, TRUE} /\ pc' = "finishing"
  /\ UNCHANGED <<fixed, stream, evaluation, flags, drafts, changed, reply, answer,
                 recorded, log>>

(* The patch changes the trailers or nothing, or fails, perhaps after metadata *)
(* of the trailers has been changed.                                           *)
TrailersPatched ==
  /\ pc = "patchingTrailers"
  /\ \/ changed' = "yes" /\ flags' = flags \cup {"modified"} /\ UNCHANGED errors
     \/ UNCHANGED <<changed, flags, errors>>
     \/ errors' = TRUE /\ UNCHANGED <<changed, flags>>
  /\ pc' = "finishing"
  /\ UNCHANGED <<fixed, stream, evaluation, drafts, reply, answer, recorded, log>>

FinishUnguarded ==
  /\ pc = "finishing"
  /\ ending' = IF IsDestroyed(stream) THEN ending
               ELSE IF NeedsTrailers /\ changed # "no" THEN "changed" ELSE "upstream"
  /\ WriteLog(flags, errors, drafts, stream)
  /\ pc' = "done"
  /\ UNCHANGED <<fixed, stream, evaluation, changed, reply, response>>

(* The trailers are sent, unless the call was logged during the awaits. *)
Finish ==
  /\ pc = "finishing"
  /\ \/ Logged /\ UNCHANGED <<ending, trace>>
     \/ /\ ~Logged
        /\ ending' = IF NeedsTrailers /\ changed # "no" THEN "changed" ELSE "upstream"
        /\ WriteLog(flags, errors, drafts, stream)
  /\ pc' = "done"
  /\ UNCHANGED <<fixed, stream, evaluation, changed, reply, response>>

(* A grpc-message that cannot be decoded, or encoded. *)
TailThrows ==
  /\ pc \in {"matchingTrailers", "finishing"}
  /\ \/ Logged /\ UNCHANGED <<trace, reply>>
     \/ ~Logged /\ WriteLog(flags, TRUE, drafts, stream) /\ reply' = "garbled"
  /\ Hangup
  /\ pc' = "done"
  /\ UNCHANGED <<fixed, evaluation, changed, answer>>

(* The 'close' handler of the client's stream logs what nobody logged before. *)
LogOnClose(flag) ==
  IF Logged THEN UNCHANGED trace ELSE RawWriteLog(flags \cup {flag}, errors, drafts)

ReplyErrorsUnlogged ==
  /\ pc \in Relay /\ reply \in {"piped", "ended"}
  /\ reply' = "failed" /\ Hangup
  /\ UNCHANGED <<fixed, pc, evaluation, trace, changed, answer>>

ReplyErrorsBlamesClient ==
  /\ pc \in Relay /\ reply \in {"piped", "ended"}
  /\ reply' = "failed" /\ Hangup
  /\ LogOnClose("client_aborted")
  /\ UNCHANGED <<fixed, pc, evaluation, changed, answer>>

ReplyErrors ==
  /\ pc \in Relay /\ reply \in {"piped", "ended"}
  /\ reply' = "failed"
  /\ Hangup
  /\ LogOnClose("upstream_error")
  /\ UNCHANGED <<fixed, pc, evaluation, changed, answer>>

ClientLeaves ==
  /\ stream = "open" /\ ending = Nil
  /\ stream' = "left"
  /\ \/ /\ pc \in Relay
        /\ LogOnClose("client_aborted")
        /\ reply' = IF reply = "piped" THEN "destroyed" ELSE reply
     \/ pc \notin Relay /\ UNCHANGED <<trace, reply>>
  /\ UNCHANGED <<fixed, pc, evaluation, changed, answer>>

(* sendTrailers() throws. *)
TrailersRefused ==
  /\ stream = "open" /\ ending # Nil
  /\ stream' = "closed"
  /\ UNCHANGED <<fixed, pc, evaluation, trace, changed, reply, answer>>

----------------------------------------------------------------------------
(* Steps that are sure to be taken, as in HttpExchange. *)
HandlerStep ==
  \/ Begin \/ BodyAborted \/ Evaluate \/ EvaluateAborted
  \/ RequestDelayElapses \/ Mock \/ MockFails \/ RequestFault \/ Forward
  \/ SendFails \/ ReplyArrives
  \/ HeadersUnreadable \/ ReplyMatches \/ ReplyDoesNotMatch \/ ReplyDelayElapses
  \/ UnaryFault \/ HeaderFault \/ ReplyAction \/ ReplaceThrows \/ Manipulated \/ Deliver
  \/ StartRelay \/ RelayRefused
  \/ TrailersMatch \/ TrailersDoNotMatch \/ TrailersPatched \/ Finish \/ TailThrows
  \/ FaultSleepElapses

(* Steps that take a client or an upstream that goes on sending, or fails. *)
PeerStep ==
  \/ BodyComplete \/ BodyOverflows \/ BodyUnusable
  \/ ReplyIsRead \/ ReplyNotBuffered \/ StatusUnreadable
  \/ ReplyIsLost \/ ReplyEnds \/ ReplyErrors \/ ClientLeaves \/ TrailersRefused

Next == HandlerStep \/ PeerStep

Spec == Init /\ [][Next]_vars

FairSpec == Spec /\ WF_vars(HandlerStep)

----------------------------------------------------------------------------
Replies == {"none", "awaited", "open", "read", "piped", "ended", "cut", "lost",
            "destroyed", "garbled", "failed"}

(* Types of the variables. *)
TypeOK ==
  /\ unary \in BOOLEAN /\ pc \in Stages
  /\ stream \in {"open", "left", "closed"}
  /\ rule \in Rules \cup {Nil}
  /\ captured \in BOOLEAN /\ errors \in BOOLEAN /\ rejected \in BOOLEAN
  /\ changed \in {"no", "yes", "halfway"}
  /\ flags \subseteq Flags /\ drafts \subseteq Drafts
  /\ reply \in Replies
  /\ response \in Responses \cup {Nil}
  /\ ending \in {Nil, "own", "upstream", "changed"}
  /\ recorded \in Nat
  /\ log \in Seq(Entry)

(* The trace of a call is as ExchangeLog promises, whichever of the relay's    *)
(* end, its errors, the client's departure and an exception comes first:       *)
(* "Guarantee exactly one writeLog call for this attempt no matter how the     *)
(* relay ends" (src/src/grpc/grpc-listener.ts:924).                            *)
Trace == INSTANCE ExchangeLog
TraceSpec == Trace!TraceSpec

(* A rule that was applied, and perhaps consumed, leaves an entry when the call *)
(* is over, also if the client left or the upstream failed.                     *)
AppliedRuleIsLogged ==
  /\ pc = "done" \/ (pc \in Relay /\ stream # "open")
  /\ Matched \/ errors
  => Len(log) = 1

(* The fault that was run, if one was: the request's when nothing was forwarded. *)
AppliedFault == IF reply = "none" THEN rule.action ELSE rule.replyAction

(* A relayed call has its trailers, unless the proxy could not make them of *)
(* the upstream's.                                                          *)
HasItsEnd == ending # Nil \/ reply = "garbled"

(* What the client met with, as an entry with this outcome has it.  Only when *)
(* nothing has gone out may the stream of a "client_aborted" call have been   *)
(* destroyed by the proxy: a request that breaks off, an answer that          *)
(* stream.respond() refuses.                                                  *)
AnswerFits(outcome) ==
  /\ outcome = "client_aborted" =>
       ending = Nil /\ (stream = "left" \/ (stream = "closed" /\ response = Nil))
  /\ outcome = "upstream_error" =>
       \/ response \in {"unavailable", "deadline_exceeded", "unbuffered"}
       \/ ~unary /\ reply = "failed" /\ stream = "closed" /\ ending = Nil
  /\ outcome = "mock" => response = "mock"
  /\ outcome = "fault" =>
       IF AppliedFault = "grpc_status"
       THEN response = "fault" \/ ending = "changed" \/ reply = "garbled"
       ELSE response = Nil
  /\ outcome = "modified" =>
       response \in {"original", "changed", "internal_error"} /\ HasItsEnd
  /\ outcome \in {"delayed", "rule_error", "captured"} =>
       /\ response \in {"original", "internal_error"}
            \cup (IF changed = "halfway" THEN {"changed"} ELSE {})
       /\ changed = "no" => ending # "changed"
       /\ HasItsEnd
  /\ outcome = "captured" => response = "original"

(* The outcome in the log is what the client met with, in both paths: writeLog() *)
(* looks at the stream again before it decides; once an answer has begun, the    *)
(* relay tells its own destruction of the stream from the client's; and an       *)
(* applied or passed-through answer has its trailers, or they were unusable.     *)
LogTellsWhatClientGot ==
  \A i \in 1 .. Len(log) : AnswerFits(log[i].outcome)

(* When a unary answer was changed or replaced by a fault, its entry holds the *)
(* upstream's own response.  (That of a relayed call never does.)              *)
UnaryChangesAreTraceable ==
  \A i \in 1 .. Len(log) :
    /\ unary
    /\ \/ response = "changed" /\ changed = "yes"
       \/ response = "fault" /\ reply # "none"
    => "upstream" \in log[i].drafts

(* The client has all of its answer, or its stream is gone. *)
Over == stream # "open" \/ ending # Nil

Hanging == pc = "done" /\ rule # Nil /\ AppliedFault = "hang"

(* Every call comes to an end for its client, whatever fails on the way, unless *)
(* a peer stalls, a fault leaves it hanging, or the reply was lost unnoticed    *)
(* before the relay began.                                                      *)
CallEnds ==
  <>(\/ Over
     \/ [](pc \in {"readingBody", "readingReply"})
     \/ [](pc = "relaying" /\ reply \in {"piped", "lost"})
     \/ []Hanging)

(* "upstream から response が返った場合は、その内容が error であってもそのまま返す(変換しない)" *)
(* (docs/spec.md:162: a response of the upstream is returned as it is, even an error): *)
(* without a rule, a client whose upstream answered is not given an answer of the      *)
(* proxy's.                                                                            *)
UpstreamAnswerIsReturned ==
  rule = Nil /\ reply = "read" => response \in {Nil, "original"}

(* "trailer の書き換え(...)は upstream trailer を受信してから client へ返す trailer に適用する"      *)
(* (docs/spec.md:1167: trailer patches are applied to the trailers the client gets,     *)
(* once the upstream's are there): a call that was relayed to its end and is logged as  *)
(* "modified" differs from what client and upstream sent.                               *)
ModifiedIsDelivered ==
  \A i \in 1 .. Len(log) :
    log[i].outcome = "modified" /\ ending = "upstream"
      => "forwarded" \in log[i].drafts \/ changed = "yes"

(* "script error などにより rule 適用に失敗し passthrough した" (docs/spec.md:1354: rule_error means *)
(* that a rule could not be applied and the exchange was passed through): a call with *)
(* this entry whose client was sent the upstream's headers gets trailers as well.     *)
RuleErrorIsPassedThrough ==
  \A i \in 1 .. Len(log) :
    log[i].outcome = "rule_error" /\ response = "original" => ending # Nil

(* "client が応答前に接続 / stream を中断した" (docs/spec.md:1355: client_aborted means that the *)
(* client broke off before the answer): the stream of a call whose answer was changed *)
(* by a rule and that is logged so was left by the client.                            *)
AbortIsTheClients ==
  \A i \in 1 .. Len(log) :
    log[i].outcome = "client_aborted" /\ changed = "yes" => stream = "left"

=============================================================================
