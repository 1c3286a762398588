---------------------------- MODULE GrpcCallProofs ----------------------------
(***************************************************************************)
(* Theorems about GrpcCall, for every set of rules: types, one record per  *)
(* call whichever of the relay's ends comes first, and what the log entry  *)
(* and the client are told.                                                *)
(***************************************************************************)
EXTENDS GrpcCall, TLAPS

Exits == {"faultSleep", "done"}
Waiting == Stages \ (Relay \cup Exits)
BeforeRules == {"start", "readingBody", "evaluating", "evaluatingAborted"}
BeforeForward == BeforeRules \cup {"requestDelay", "requestStage"}
RuleStages == {"requestDelay", "matchingReply", "replyDelay", "replyStage", "manipulating"}

Unlogged == recorded = 0 /\ log = <<>>

(* Before the relay, and before any exit, a call has no trace and no answer. *)
NothingYet ==
  pc \in Waiting =>
    /\ Unlogged /\ ~rejected /\ response = Nil /\ ending = Nil
    /\ flags \subseteq {"modified", "delayed"}

(* What is known of the rule, the client and the upstream at each stage. *)
StageFacts ==
  /\ pc \in BeforeRules => rule = Nil /\ ~captured /\ ~errors
  /\ pc \notin Exits => (pc \in BeforeForward <=> reply = "none")
  /\ pc \in RuleStages => rule # Nil
  /\ pc = "evaluatingAborted" => stream # "open"
  /\ pc = "readingReply" => unary

(* A change is flagged, unless it is the half of one that failed. *)
ChangeIsFlagged ==
  pc \notin Exits =>
    /\ changed = "yes" => "modified" \in flags \/ "fault" \in flags
    /\ changed = "halfway" => errors
    /\ changed # "no" => pc \in Relay \cup {"deliver"}

(* The relay goes on, its client's stream gone, after it was logged: by a      *)
(* handler that knows why the stream is gone.  Until then the stream is open.  *)
RelayFacts ==
  pc \in Relay =>
    /\ ~unary /\ ~rejected /\ ending = Nil
    /\ response \in {"original", "changed"}
    /\ response = "changed" => changed # "no"
    /\ pc \in {"matchingTrailers", "patchingTrailers"} => NeedsTrailers
    /\ "fault" \in flags =>
         /\ pc = "finishing" /\ NeedsTrailers
         /\ rule.replyAction = "grpc_status" /\ changed = "yes"
    /\ IF Logged
       THEN /\ stream # "open"
            /\ \A i \in 1 .. Len(log) : log[i].outcome \in {"client_aborted", "upstream_error"}
       ELSE /\ log = <<>> /\ stream = "open"
            /\ flags \subseteq {"modified", "delayed", "fault"}

(* A call that is decided has the one record it will ever have. *)
Decided ==
  pc \in Exits \/ Logged =>
    IF rejected
    THEN pc = "done" /\ Unlogged /\ ~Matched /\ ~errors
    ELSE /\ recorded = 1
         /\ log = <<>> \/ \E entry \in Entry : log = <<entry>>
         /\ Matched \/ errors => log # <<>>

CallInv ==
  /\ TypeOK /\ NothingYet /\ StageFacts /\ ChangeIsFlagged /\ RelayFacts /\ Decided
  /\ LogTellsWhatClientGot /\ UnaryChangesAreTraceable

----------------------------------------------------------------------------
LEMMA InitHolds == Init => CallInv
<1> SUFFICES ASSUME Init PROVE CallInv
  OBVIOUS
<1>1. log \in Seq(Entry) /\ Len(log) = 0
  BY DEF Init
<1>2. TypeOK
  BY <1>1 DEF Init, TypeOK, Stages, Replies
<1>3. NothingYet /\ StageFacts /\ ChangeIsFlagged /\ RelayFacts /\ Decided
  BY DEF Init, NothingYet, StageFacts, ChangeIsFlagged, RelayFacts, Decided, Unlogged, Logged,
         Relay, Exits, BeforeRules, BeforeForward, RuleStages
<1>4. LogTellsWhatClientGot /\ UnaryChangesAreTraceable
  BY <1>1 DEF LogTellsWhatClientGot, UnaryChangesAreTraceable
<1> QED BY <1>2, <1>3, <1>4 DEF CallInv

(* An answer reaches the client with the proxy's trailers, or the stream is gone. *)
LEMMA Answering ==
  ASSUME TypeOK, response = Nil, ending = Nil, NEW what \in Responses, RespondGrpc(what)
  PROVE  /\ stream' \in {"open", "left", "closed"}
         /\ \/ stream' # "open" /\ response' = Nil /\ ending' = Nil
            \/ stream' = "open" /\ response' = what /\ ending' = "own"
  BY DEF TypeOK, RespondGrpc, IsDestroyed, answer

LEMMA OutcomeType ==
  ASSUME NEW f \in SUBSET Flags, NEW e \in BOOLEAN
  PROVE  Outcome(f, e) \in Outcomes
  BY DEF Outcome, Outcomes, Flags

LEMMA ReasonType ==
  ASSUME NEW outcome, NEW e, NEW intercepted, NEW captures
  PROVE  Reason(outcome, e, intercepted, captures) \in Reasons
  BY DEF Reason, Reasons

(* The one entry of a call, if it gets one. *)
LEMMA Recording ==
  ASSUME Unlogged, NEW f \in SUBSET Flags, NEW e \in BOOLEAN, NEW d \in SUBSET Drafts,
         RawWriteLog(f, e, d)
  PROVE  /\ flags' = f /\ errors' = e /\ drafts' = d /\ recorded' = 1
         /\ \/ log' = <<>> /\ ~Matched /\ ~e
            \/ \E entry \in Entry :
                 log' = <<entry>> /\ entry.outcome = Outcome(f, e) /\ entry.drafts = d
<1> DEFINE entry == [outcome |-> Outcome(f, e),
                     reason |-> Reason(Outcome(f, e), e, rule # Nil, captured), drafts |-> d]
<1>1. entry \in Entry
  BY OutcomeType, ReasonType DEF Entry
<1>2. /\ flags' = f /\ errors' = e /\ drafts' = d /\ recorded' = 1
      /\ log' = IF ShouldLog(f, e) THEN Append(<<>>, entry) ELSE <<>>
  BY DEF RawWriteLog, Unlogged
<1>3. CASE ShouldLog(f, e)
  <2>1. log' = <<entry>>
    BY <1>2, <1>3
  <2>2. entry.outcome = Outcome(f, e) /\ entry.drafts = d
    OBVIOUS
  <2> QED BY <1>1, <1>2, <2>1, <2>2
<1>4. CASE ~ShouldLog(f, e)
  <2>1. log' = <<>> /\ ~Matched /\ ~e
    BY <1>2, <1>4 DEF ShouldLog
  <2> QED BY <1>2, <2>1
<1> QED BY <1>3, <1>4

(* Drafts d hold the upstream's own reply if a unary client is answered `what` *)
(* in place of it.                                                             *)
KeepsReply(what, d) ==
  \/ ~unary' \/ "upstream" \in d
  \/ ~(what = "changed" /\ changed' = "yes") /\ ~(what = "fault" /\ reply' # "none")

(* It suffices that the answer fits the outcome and the drafts hold the reply. *)
LEMMA Logging ==
  ASSUME Unlogged, ~rejected, UNCHANGED <<rejected, rule, captured>>,
         NEW f \in SUBSET Flags, NEW e \in BOOLEAN, NEW d \in SUBSET Drafts,
         RawWriteLog(f, e, d),
         NEW outcome, outcome = Outcome(f, e), AnswerFits(outcome)', KeepsReply(response', d)
  PROVE  /\ flags' = f /\ errors' = e /\ drafts' = d /\ log' \in Seq(Entry) /\ Logged'
         /\ recorded' = 1
         /\ \A i \in 1 .. Len(log') : log'[i].outcome = outcome
         /\ Decided' /\ LogTellsWhatClientGot' /\ UnaryChangesAreTraceable'
<1>1. /\ flags' = f /\ errors' = e /\ drafts' = d /\ recorded' = 1
      /\ \/ log' = <<>> /\ ~Matched /\ ~e
         \/ \E entry \in Entry : log' = <<entry>> /\ entry.outcome = outcome /\ entry.drafts = d
  BY Recording
<1>2. log' \in Seq(Entry)
  <2>1. ASSUME NEW entry \in Entry PROVE <<entry>> \in Seq(Entry)
    OBVIOUS
  <2>2. <<>> \in Seq(Entry)
    OBVIOUS
  <2> QED BY <1>1, <2>1, <2>2
<1>3. ASSUME NEW i \in 1 .. Len(log')
      PROVE  log'[i].outcome = outcome /\ log'[i].drafts = d
  <2>1. CASE log' = <<>>
    BY <2>1
  <2>2. ASSUME NEW entry \in Entry, log' = <<entry>>, entry.outcome = outcome, entry.drafts = d
        PROVE  log'[i].outcome = outcome /\ log'[i].drafts = d
    <3>1. i = 1 /\ log'[1] = entry
      BY <2>2
    <3> QED BY <2>2, <3>1
  <2> QED BY <1>1, <2>1, <2>2
<1>4. Decided'
  <2>1. log' = <<>> \/ \E entry \in Entry : log' = <<entry>>
    BY <1>1
  <2>2. \A entry : <<entry>> # <<>>
    OBVIOUS
  <2>3. log' # <<>> \/ (~Matched /\ ~e)
    BY <1>1, <2>2
  <2>4. (Matched \/ errors)' => log' # <<>>
    BY <1>1, <2>3 DEF Matched
  <2> QED BY <1>1, <2>1, <2>4 DEF Decided
<1>5. LogTellsWhatClientGot'
  <2>1. SUFFICES ASSUME NEW i \in 1 .. Len(log') PROVE AnswerFits(log[i].outcome)'
    BY DEF LogTellsWhatClientGot
  <2>2. log[i].outcome' = outcome
    BY <1>3
  <2> QED BY <2>2 DEF AnswerFits, AppliedFault
<1>6. UnaryChangesAreTraceable'
  BY <1>3 DEF UnaryChangesAreTraceable, KeepsReply
<1> QED BY <1>1, <1>2, <1>3, <1>4, <1>5, <1>6 DEF Logged

----------------------------------------------------------------------------
(* A step that takes no exit and logs nothing, before the call is logged. *)
LEMMA GoingOn ==
  ASSUME CallInv, pc \notin Exits, ~Logged, UNCHANGED <<recorded, log, rejected>>,
         pc' \notin Exits, TypeOK', NothingYet', StageFacts', ChangeIsFlagged', RelayFacts'
  PROVE  CallInv'
<1>1. recorded = 0 /\ log = <<>>
  BY DEF CallInv, TypeOK, NothingYet, RelayFacts, Waiting, Unlogged, Logged
<1>2. Decided' /\ LogTellsWhatClientGot' /\ UnaryChangesAreTraceable'
  BY <1>1 DEF Decided, Logged, LogTellsWhatClientGot, UnaryChangesAreTraceable
<1> QED BY <1>2 DEF CallInv

(* A step that takes an exit and logs the call. *)
LEMMA Leaving ==
  ASSUME CallInv, pc \notin Exits, ~Logged, pc' \in Exits,
         NEW f \in SUBSET Flags, NEW e \in BOOLEAN, NEW d \in SUBSET Drafts, NEW s,
         WriteLog(f, e, d, s),
         UNCHANGED <<unary, rejected, rule, captured, changed>>,
         stream' \in {"open", "left", "closed"}, reply' \in Replies,
         response' \in Responses \cup {Nil}, ending' \in {Nil, "own", "upstream", "changed"},
         NEW outcome,
         outcome = Outcome(IF IsDestroyed(s) THEN f \cup {"client_aborted"} ELSE f, e),
         AnswerFits(outcome)', KeepsReply(response', d)
  PROVE  CallInv'
<1> DEFINE all == IF IsDestroyed(s) THEN f \cup {"client_aborted"} ELSE f
<1>1. all \in SUBSET Flags /\ RawWriteLog(all, e, d)
  BY DEF Flags, WriteLog
<1>2. Unlogged /\ ~rejected
  BY DEF CallInv, TypeOK, NothingYet, RelayFacts, Waiting, Unlogged, Logged
<1> HIDE DEF all
<1>3. /\ flags' = all /\ errors' = e /\ drafts' = d /\ log' \in Seq(Entry) /\ recorded' = 1
      /\ Decided' /\ LogTellsWhatClientGot' /\ UnaryChangesAreTraceable'
  BY <1>1, <1>2, Logging DEF all
<1>4. TypeOK'
  BY <1>1, <1>3 DEF CallInv, TypeOK, Stages, Exits
<1>5. NothingYet' /\ StageFacts' /\ ChangeIsFlagged' /\ RelayFacts'
  BY DEF NothingYet, StageFacts, ChangeIsFlagged, RelayFacts, Waiting, Exits, BeforeRules,
         RuleStages, Relay
<1> QED BY <1>3, <1>4, <1>5 DEF CallInv

(* An exit by an answer: what the outcome says of it must hold if it arrives. *)
LEMMA LeavingWithAnswer ==
  ASSUME CallInv, pc \in Waiting, pc' = "done", NEW what \in Responses,
         NEW f \in SUBSET (Flags \ {"client_aborted"}), NEW e \in BOOLEAN, NEW d \in SUBSET Drafts,
         RespondGrpc(what), WriteLog(f, e, d, stream'),
         UNCHANGED <<unary, rejected, rule, captured, changed>>, reply' \in Replies,
         NEW outcome, outcome = Outcome(f, e),
         response' = what /\ ending' = "own" => AnswerFits(outcome)', KeepsReply(what, d)
  PROVE  CallInv'
<1>0. /\ pc \notin Exits /\ ~Logged /\ response = Nil /\ ending = Nil /\ TypeOK
      /\ pc' \in Exits /\ f \in SUBSET Flags
  BY DEF CallInv, NothingYet, Unlogged, Logged, Waiting, Exits
<1>1. /\ stream' \in {"open", "left", "closed"}
      /\ \/ stream' # "open" /\ response' = Nil /\ ending' = Nil
         \/ stream' = "open" /\ response' = what /\ ending' = "own"
  BY <1>0, Answering
<1>2. CASE stream' # "open" /\ response' = Nil /\ ending' = Nil
  <2>1. "client_aborted" = Outcome(IF IsDestroyed(stream') THEN f \cup {"client_aborted"} ELSE f, e)
    BY <1>2 DEF IsDestroyed, Outcome
  <2>2. AnswerFits("client_aborted")'
    BY <1>1, <1>2 DEF AnswerFits
  <2>3. KeepsReply(response', d)
    BY <1>2, NilIsNoResponse DEF Responses, KeepsReply
  <2> QED BY <1>0, <1>1, <1>2, <2>1, <2>2, <2>3, Leaving
<1>3. CASE stream' = "open" /\ response' = what /\ ending' = "own"
  <2>1. outcome = Outcome(IF IsDestroyed(stream') THEN f \cup {"client_aborted"} ELSE f, e)
    BY <1>3 DEF IsDestroyed
  <2> QED BY <1>0, <1>1, <1>3, <2>1, Leaving
<1> QED BY <1>1, <1>2, <1>3

(* An exit without one, after a fault that holds or breaks the connection. *)
LEMMA LeavingUnanswered ==
  ASSUME CallInv, pc \in Waiting, pc' \in Exits, NEW d \in SUBSET Drafts,
         WriteLog(flags \cup {"fault"}, errors, d, stream),
         UNCHANGED <<unary, rejected, rule, captured, changed, response, ending>>,
         stream' \in {"open", "left", "closed"}, reply' \in Replies,
         stream # "open" => stream' # "open",
         AppliedFault' \in {"connection", "timeout", "hang"}
  PROVE  CallInv'
<1>0. /\ flags \cup {"fault"} \in SUBSET Flags /\ errors \in BOOLEAN
      /\ response' = Nil /\ ending' = Nil /\ pc \notin Exits /\ ~Logged
      /\ "client_aborted" \notin flags /\ "upstream_error" \notin flags /\ "mock" \notin flags
  BY DEF CallInv, TypeOK, Flags, NothingYet, Unlogged, Logged, Waiting, Exits
<1>1. KeepsReply(response', d)
  BY <1>0, NilIsNoResponse DEF Responses, KeepsReply
<1>2. CASE IsDestroyed(stream)
  <2>1. "client_aborted" = Outcome((flags \cup {"fault"}) \cup {"client_aborted"}, errors)
    BY DEF Outcome
  <2>2. AnswerFits("client_aborted")'
    BY <1>0, <1>2 DEF AnswerFits, IsDestroyed
  <2> QED BY <1>0, <1>1, <1>2, <2>1, <2>2, Leaving
<1>3. CASE ~IsDestroyed(stream)
  <2>1. "fault" = Outcome(flags \cup {"fault"}, errors)
    BY <1>0 DEF Outcome
  <2>2. AnswerFits("fault")'
    BY <1>0 DEF AnswerFits
  <2> QED BY <1>0, <1>1, <1>3, <2>1, <2>2, Leaving
<1> QED BY <1>2, <1>3

(* Faults, in either stage. *)
LEMMA FaultExits ==
  ASSUME CallInv, pc \in Waiting, NEW kind \in Faults, NEW d \in SUBSET Drafts,
         ExecuteFault(kind, d), UNCHANGED <<unary, rejected, rule, captured, changed>>,
         reply' \in Replies, AppliedFault' = kind,
         ~unary' \/ "upstream" \in d \/ reply' = "none"
  PROVE  CallInv'
<1>0. /\ flags \subseteq {"modified", "delayed"} /\ response = Nil /\ ending = Nil
      /\ flags \cup {"fault"} \in SUBSET (Flags \ {"client_aborted"})
      /\ errors \in BOOLEAN /\ stream \in {"open", "left", "closed"}
  BY DEF CallInv, TypeOK, NothingYet, Flags
<1>1. CASE kind = "grpc_status" /\ AnswerWithStatus(d)
  <2>1. /\ RespondGrpc("fault") /\ WriteLog(flags \cup {"fault"}, errors, d, stream')
        /\ pc' = "done" /\ "fault" \in Responses
    BY <1>1 DEF AnswerWithStatus, Responses
  <2>2. Outcome(flags \cup {"fault"}, errors) = "fault"
    BY <1>0 DEF Outcome
  <2>3. response' = "fault" => AnswerFits("fault")'
    BY <1>1 DEF AnswerFits
  <2>4. KeepsReply("fault", d)
    BY DEF KeepsReply
  <2> QED BY <1>0, <2>1, <2>2, <2>3, <2>4, LeavingWithAnswer
<1>2. CASE kind = "connection" /\ BreakConnection(d)
  <2>1. /\ WriteLog(flags \cup {"fault"}, errors, d, stream) /\ pc' \in Exits
        /\ UNCHANGED <<response, ending>> /\ stream' \in {"open", "left", "closed"}
        /\ stream' # "open"
    BY <1>0, <1>2 DEF BreakConnection, Hangup, IsDestroyed, Exits, answer
  <2> QED BY <1>0, <1>2, <2>1, LeavingUnanswered
<1>3. CASE kind \in {"timeout", "hang"} /\ HoldStream(kind, d)
  <2>1. /\ WriteLog(flags \cup {"fault"}, errors, d, stream) /\ pc' \in Exits
        /\ UNCHANGED <<response, ending, stream>>
    BY <1>3 DEF HoldStream, Exits, answer
  <2> QED BY <1>0, <1>3, <2>1, LeavingUnanswered
<1> QED BY <1>1, <1>2, <1>3 DEF ExecuteFault

(* The catch blocks. *)
LEMMA FailExits ==
  ASSUME CallInv, pc \in Waiting, Fail, UNCHANGED <<fixed, evaluation, changed>>,
         reply' \in Replies
  PROVE  CallInv'
<1>0. /\ flags \subseteq {"modified", "delayed"} /\ response = Nil /\ ending = Nil
      /\ flags \in SUBSET (Flags \ {"client_aborted"}) /\ drafts \in SUBSET Drafts
      /\ flags \cup {"client_aborted"} \in SUBSET Flags
      /\ errors \in BOOLEAN /\ stream \in {"open", "left", "closed"}
      /\ UNCHANGED <<unary, rejected, rule, captured, changed>> /\ pc' = "done"
  BY DEF CallInv, TypeOK, NothingYet, Flags, Fail, fixed, evaluation
<1>1. CASE /\ IsDestroyed(stream)
           /\ WriteLog(flags \cup {"client_aborted"}, errors, drafts, stream)
           /\ UNCHANGED <<stream, answer>>
  <2>1. "client_aborted" = Outcome((flags \cup {"client_aborted"}) \cup {"client_aborted"}, errors)
    BY DEF Outcome
  <2>2. response' = Nil /\ ending' = Nil /\ stream' \in {"left", "closed"}
    BY <1>0, <1>1 DEF answer, IsDestroyed
  <2>3. AnswerFits("client_aborted")'
    BY <2>2 DEF AnswerFits
  <2>4. KeepsReply(response', drafts)
    BY <2>2, NilIsNoResponse DEF Responses, KeepsReply
  <2>5. pc \notin Exits /\ pc' \in Exits /\ ~Logged
    BY <1>0 DEF Waiting, Exits, CallInv, NothingYet, Unlogged, Logged
  <2> QED BY <1>0, <1>1, <2>1, <2>2, <2>3, <2>4, <2>5, Leaving
<1>2. CASE RespondGrpc("internal_error") /\ WriteLog(flags, TRUE, drafts, stream')
  <2>1. PICK outcome \in {"modified", "delayed", "rule_error"} : outcome = Outcome(flags, TRUE)
    BY <1>0 DEF Outcome
  <2>2. response' = "internal_error" /\ ending' = "own" => AnswerFits(outcome)'
    BY <2>1, NilIsNoResponse DEF AnswerFits, HasItsEnd
  <2>3. "internal_error" \in Responses /\ KeepsReply("internal_error", drafts)
    BY DEF Responses, KeepsReply
  <2> QED BY <1>0, <1>2, <2>1, <2>2, <2>3, LeavingWithAnswer
<1> QED BY <1>1, <1>2 DEF Fail

(* The answers in place of the upstream. *)
LEMMA UpstreamFailures ==
  ASSUME CallInv, SendFails \/ ReplyNotBuffered
  PROVE  CallInv'
<1>0. /\ pc \in Waiting /\ flags \subseteq {"modified", "delayed"}
      /\ flags \cup {"upstream_error"} \in SUBSET (Flags \ {"client_aborted"})
      /\ drafts \cup {"upstream"} \in SUBSET Drafts /\ errors \in BOOLEAN
  BY DEF CallInv, TypeOK, NothingYet, SendFails, ReplyNotBuffered, Waiting, Stages, Relay,
         Exits, Flags, Drafts
<1>1. PICK what \in {"unavailable", "deadline_exceeded", "unbuffered"} : AnswerFor(what)
  BY DEF SendFails, ReplyNotBuffered
<1>2. /\ UNCHANGED <<unary, rejected, rule, captured, changed>>
      /\ reply' \in Replies /\ pc' = "done" /\ RespondGrpc(what) /\ what \in Responses
      /\ WriteLog(flags \cup {"upstream_error"}, errors, drafts \cup {"upstream"}, stream')
  BY <1>1 DEF SendFails, ReplyNotBuffered, AnswerFor, fixed, evaluation, Replies, Responses
<1>3. Outcome(flags \cup {"upstream_error"}, errors) = "upstream_error"
  BY <1>0 DEF Outcome
<1>4. /\ response' = what => AnswerFits("upstream_error")'
      /\ KeepsReply(what, drafts \cup {"upstream"})
  BY <1>1 DEF AnswerFits, KeepsReply
<1> QED BY <1>0, <1>2, <1>3, <1>4, LeavingWithAnswer

LEMMA MockExits ==
  ASSUME CallInv, Mock \/ MockFails
  PROVE  CallInv'
<1>0. /\ pc \in Waiting /\ pc' = "done" /\ flags \subseteq {"modified", "delayed"}
      /\ flags \cup {"mock"} \in SUBSET (Flags \ {"client_aborted"})
      /\ flags \in SUBSET (Flags \ {"client_aborted"})
      /\ drafts \in SUBSET Drafts /\ errors \in BOOLEAN
      /\ UNCHANGED <<unary, rejected, rule, captured, changed>> /\ reply' \in Replies
  BY DEF CallInv, TypeOK, NothingYet, Mock, MockFails, Waiting, Stages, Relay, Exits, Flags,
         fixed, evaluation
<1>1. CASE Mock
  <2>1. RespondGrpc("mock") /\ WriteLog(flags \cup {"mock"}, errors, drafts, stream')
    BY <1>1 DEF Mock
  <2>2. Outcome(flags \cup {"mock"}, errors) = "mock" /\ "mock" \in Responses
    BY <1>0 DEF Outcome, Responses
  <2>3. (response' = "mock" => AnswerFits("mock")') /\ KeepsReply("mock", drafts)
    BY DEF AnswerFits, KeepsReply
  <2> QED BY <1>0, <2>1, <2>2, <2>3, LeavingWithAnswer
<1>2. CASE MockFails
  <2>1. RespondGrpc("internal_error") /\ WriteLog(flags, TRUE, drafts, stream')
    BY <1>2 DEF MockFails
  <2>2. PICK outcome \in {"modified", "delayed", "rule_error"} : outcome = Outcome(flags, TRUE)
    BY <1>0 DEF Outcome
  <2>3. "internal_error" \in Responses /\ KeepsReply("internal_error", drafts)
    BY DEF Responses, KeepsReply
  <2>4. response' = "internal_error" /\ ending' = "own" => AnswerFits(outcome)'
    BY <2>2, NilIsNoResponse DEF AnswerFits, HasItsEnd
  <2> QED BY <1>0, <2>1, <2>2, <2>3, <2>4, LeavingWithAnswer
<1> QED BY <1>1, <1>2

LEMMA FaultsAreTold ==
  ASSUME CallInv, RequestFault \/ UnaryFault \/ HeaderFault
  PROVE  CallInv'
<1>0. /\ pc \in {"requestStage", "replyStage"} /\ pc \in Waiting
      /\ UNCHANGED <<unary, rejected, rule, captured, changed>>
      /\ reply \in Replies /\ drafts \in SUBSET Drafts
      /\ drafts \cup {"upstream"} \in SUBSET Drafts
      /\ reply = "none" <=> pc = "requestStage"
  BY DEF CallInv, TypeOK, StageFacts, RequestFault, UnaryFault, HeaderFault, Waiting, Stages,
         Relay, Exits, fixed, evaluation, BeforeForward, BeforeRules, Drafts
<1>1. CASE RequestFault
  <2>1. PICK kind \in Faults : ActionIs(kind) /\ ExecuteFault(kind, drafts)
    BY <1>1 DEF RequestFault
  <2>2. pc = "requestStage" /\ reply' = reply
    BY <1>1 DEF RequestFault
  <2>3. AppliedFault' = kind
    BY <1>0, <2>1, <2>2 DEF ActionIs, AppliedFault
  <2> QED BY <1>0, <2>1, <2>2, <2>3, FaultExits
<1>2. CASE UnaryFault
  <2>1. /\ pc = "replyStage" /\ reply' = reply /\ rule.replyAction \in Faults
        /\ ExecuteFault(rule.replyAction, drafts \cup {"upstream"})
    BY <1>2 DEF UnaryFault
  <2>2. AppliedFault' = rule.replyAction
    BY <1>0, <2>1 DEF AppliedFault
  <2> QED BY <1>0, <2>1, <2>2, FaultExits
<1>3. CASE HeaderFault
  <2>1. /\ pc = "replyStage" /\ ~unary /\ rule.replyAction = "grpc_status"
        /\ AnswerWithStatus(drafts) /\ reply' = Released
    BY <1>3 DEF HeaderFault
  <2>2. reply' \in Replies /\ reply' # "none"
    BY <1>0, <2>1 DEF Released, Replies
  <2>3. AppliedFault' = "grpc_status" /\ "grpc_status" \in Faults
    BY <1>0, <2>1, <2>2 DEF AppliedFault, Faults
  <2>4. ExecuteFault("grpc_status", drafts)
    BY <2>1 DEF ExecuteFault
  <2> QED BY <1>0, <2>1, <2>2, <2>3, <2>4, FaultExits
<1> QED BY <1>1, <1>2, <1>3

LEMMA FailuresAreTold ==
  ASSUME CallInv, StatusUnreadable \/ HeadersUnreadable \/ ReplaceThrows \/ RelayRefused
  PROVE  CallInv'
<1>1. /\ pc \in Waiting /\ Fail /\ UNCHANGED <<fixed, evaluation, changed>>
      /\ reply' \in Replies
  BY DEF CallInv, TypeOK, StatusUnreadable, HeadersUnreadable, ReplaceThrows, RelayRefused,
         Released, Waiting, Stages, Relay, Exits, Replies
<1> QED BY <1>1, FailExits

(* The unary reply goes out, changed or not. *)
LEMMA DeliverExits ==
  ASSUME CallInv, Deliver
  PROVE  CallInv'
<1> DEFINE d == IF changed = "yes" THEN drafts \cup {"upstream"} ELSE drafts
<1>0. /\ pc \in Waiting /\ pc' = "done" /\ flags \subseteq {"modified", "delayed"}
      /\ flags \in SUBSET (Flags \ {"client_aborted"})
      /\ drafts \in SUBSET Drafts /\ errors \in BOOLEAN
      /\ UNCHANGED <<unary, rejected, rule, captured, changed>> /\ reply' \in Replies
      /\ changed \in {"no", "yes", "halfway"}
      /\ changed = "yes" => "modified" \in flags
      /\ changed = "halfway" => errors
  BY DEF CallInv, TypeOK, NothingYet, ChangeIsFlagged, Deliver, Waiting, Stages, Relay, Exits,
         Flags, fixed, evaluation
<1>1. RespondGrpc(Delivered) /\ WriteLog(flags, errors, d, stream')
  BY DEF Deliver
<1>2. d \in SUBSET Drafts /\ Delivered \in Responses /\ (changed = "yes" => "upstream" \in d)
  BY <1>0 DEF Delivered, Drafts, Responses
<1>3. PICK outcome \in {"modified", "delayed", "rule_error", "captured"} :
        outcome = Outcome(flags, errors)
  BY <1>0 DEF Outcome
<1>4. PICK what \in {"original", "changed"} : what = Delivered
  BY DEF Delivered
<1>5. ASSUME response' = what, ending' = "own"
      PROVE  AnswerFits(outcome)'
  <2>1. CASE outcome = "modified"
    BY <1>4, <1>5, <2>1, NilIsNoResponse DEF AnswerFits, HasItsEnd
  <2>2. CASE outcome \in {"delayed", "rule_error"}
    <3>1. changed' # "yes"
      BY <1>0, <1>3, <2>2 DEF Outcome
    <3>2. what = "changed" => changed' = "halfway"
      BY <1>0, <1>4, <3>1 DEF Delivered
    <3> QED BY <1>4, <1>5, <2>2, <3>2, NilIsNoResponse DEF AnswerFits, HasItsEnd
  <2>3. CASE outcome = "captured"
    <3>1. changed = "no"
      BY <1>0, <1>3, <2>3 DEF Outcome
    <3>2. what = "original"
      BY <1>4, <3>1 DEF Delivered
    <3> QED BY <1>5, <2>3, <3>2, NilIsNoResponse DEF AnswerFits, HasItsEnd
  <2> QED BY <1>3, <2>1, <2>2, <2>3
<1>6. KeepsReply(what, d)
  BY <1>0, <1>2, <1>4 DEF KeepsReply
<1> HIDE DEF d
<1> QED BY <1>0, <1>1, <1>2, <1>3, <1>4, <1>5, <1>6, LeavingWithAnswer

(* A request that is refused for its size, and one that broke off. *)
LEMMA RefusedOrAborted ==
  ASSUME CallInv, BodyOverflows \/ EvaluateAborted
  PROVE  CallInv'
<1> USE DEF fixed, evaluation, trace, answer
<1>0. /\ TypeOK /\ pc \in {"readingBody", "evaluatingAborted"} /\ pc \in Waiting /\ pc' = "done"
      /\ Unlogged /\ ~rejected /\ response = Nil /\ ending = Nil
      /\ rule = Nil /\ ~captured /\ ~errors
      /\ pc = "evaluatingAborted" => stream # "open"
  BY DEF CallInv, NothingYet, StageFacts, BodyOverflows, EvaluateAborted, Waiting, Stages,
         Relay, Exits, BeforeRules
<1>1. NothingYet' /\ StageFacts' /\ ChangeIsFlagged' /\ RelayFacts'
  BY <1>0 DEF NothingYet, StageFacts, ChangeIsFlagged, RelayFacts, Waiting, Exits, Relay,
              BeforeRules, RuleStages
<1>2. CASE BodyOverflows
  <2>1. /\ UNCHANGED <<unary, rule, captured, errors, flags, drafts, changed, reply, recorded, log>>
        /\ rejected' = TRUE /\ RespondGrpc("exhausted") /\ "exhausted" \in Responses
    BY <1>2 DEF BodyOverflows, Responses
  <2>2. /\ stream' \in {"open", "left", "closed"} /\ response' \in Responses \cup {Nil}
        /\ ending' \in {Nil, "own"}
    BY <1>0, <2>1, Answering
  <2>3. TypeOK'
    BY <1>0, <2>1, <2>2 DEF TypeOK, Stages
  <2>4. Decided'
    BY <1>0, <2>1, NilIsNoResponse DEF Decided, Unlogged, Matched
  <2>5. Len(log') = 0
    BY <1>0, <2>1 DEF Unlogged
  <2>6. LogTellsWhatClientGot' /\ UnaryChangesAreTraceable'
    BY <2>5 DEF LogTellsWhatClientGot, UnaryChangesAreTraceable
  <2> QED BY <1>1, <2>3, <2>4, <2>6 DEF CallInv
<1>3. CASE EvaluateAborted
  <2> DEFINE entry == [outcome |-> "client_aborted", reason |-> "client_aborted", drafts |-> {}]
  <2>1. PICK r \in Rules \cup {Nil}, captures, failures \in BOOLEAN :
          /\ rule' = r /\ captured' = captures /\ errors' = failures
          /\ log' = IF r # Nil \/ captures \/ failures THEN Append(log, entry) ELSE log
    BY <1>3 DEF EvaluateAborted
  <2>2. /\ UNCHANGED <<unary, rejected, stream, flags, drafts, changed, reply, response, ending>>
        /\ recorded' = 1
    BY <1>0, <1>3 DEF EvaluateAborted, Unlogged
  <2>3. entry \in Entry
    BY DEF Entry, Outcomes, Flags, Reasons
  <2>4. IF Matched' \/ errors' THEN log' = <<entry>> ELSE log' = <<>>
    <3>1. Append(<<>>, entry) = <<entry>>
      OBVIOUS
    <3>2. log' = IF r # Nil \/ captures \/ failures THEN <<entry>> ELSE <<>>
      BY <1>0, <2>1, <3>1 DEF Unlogged
    <3>3. Matched' \/ errors' <=> r # Nil \/ captures \/ failures
      BY <2>1 DEF Matched
    <3> QED BY <3>2, <3>3
  <2>5. /\ log' \in Seq(Entry)
        /\ \A i \in 1 .. Len(log') : log'[i].outcome = "client_aborted"
        /\ log' = <<>> \/ \E x \in Entry : log' = <<x>>
        /\ Matched' \/ errors' => log' # <<>>
    <3>1. CASE log' = <<>>
      BY <2>4, <3>1
    <3>2. CASE log' = <<entry>>
      BY <2>3, <3>2
    <3> QED BY <2>4, <3>1, <3>2
  <2>6. TypeOK'
    BY <1>0, <2>1, <2>2, <2>5 DEF TypeOK, Stages
  <2>7. Decided'
    BY <1>0, <2>2, <2>5 DEF Decided
  <2>8. AnswerFits("client_aborted")'
    <3>1. stream # "open"
      BY <1>0, <1>3 DEF EvaluateAborted
    <3> QED BY <1>0, <2>2, <3>1 DEF TypeOK, AnswerFits
  <2>9. LogTellsWhatClientGot'
    <3>1. SUFFICES ASSUME NEW i \in 1 .. Len(log') PROVE AnswerFits(log[i].outcome)'
      BY DEF LogTellsWhatClientGot
    <3>2. log[i].outcome' = "client_aborted"
      BY <2>5
    <3> QED BY <2>8, <3>2 DEF AnswerFits, AppliedFault
  <2>10. UnaryChangesAreTraceable'
    BY <1>0, <2>2, NilIsNoResponse DEF UnaryChangesAreTraceable, Responses
  <2> QED BY <1>1, <2>6, <2>7, <2>9, <2>10 DEF CallInv
<1> QED BY <1>2, <1>3

----------------------------------------------------------------------------
(* The steps that take no exit, before the relay. *)
LEMMA GoingOnSteps ==
  ASSUME CallInv,
         Begin \/ BodyComplete \/ BodyUnusable \/ BodyAborted \/ Evaluate
           \/ RequestDelayElapses \/ Forward \/ ReplyArrives \/ ReplyIsRead \/ ReplyMatches
           \/ ReplyDoesNotMatch \/ ReplyDelayElapses \/ ReplyAction \/ Manipulated
           \/ ReplyIsLost \/ (ClientLeaves /\ pc \in Waiting)
  PROVE  CallInv'
<1> USE DEF Stages, Waiting, Exits, BeforeRules, BeforeForward, RuleStages, Relay, Replies,
            fixed, evaluation, trace, answer
<1>0. /\ TypeOK /\ StageFacts /\ NothingYet /\ ChangeIsFlagged
      /\ flags \in SUBSET Flags /\ drafts \in SUBSET Drafts
  BY DEF CallInv, TypeOK
<1> DEFINE Goal == /\ pc \in Waiting /\ pc' \in Waiting /\ TypeOK' /\ StageFacts'
                   /\ UNCHANGED <<recorded, log, response, ending, rejected>>
                   /\ flags' \subseteq {"modified", "delayed"}
                   /\ ChangeIsFlagged'
<1> SUFFICES Goal
  <2>1. NothingYet' /\ RelayFacts' /\ ~Logged
    BY <1>0 DEF NothingYet, RelayFacts, Unlogged, Logged
  <2>2. pc \notin Exits /\ pc' \notin Exits
    OBVIOUS
  <2> QED BY <2>1, <2>2, GoingOn
<1>1. CASE Begin \/ BodyComplete
  BY <1>0, <1>1 DEF Begin, BodyComplete, TypeOK, StageFacts, NothingYet, ChangeIsFlagged
<1>2. CASE BodyUnusable \/ BodyAborted
  BY <1>0, <1>2 DEF BodyUnusable, BodyAborted, Hangup, IsDestroyed, TypeOK, StageFacts,
                    NothingYet, ChangeIsFlagged
<1>3. CASE Evaluate
  BY <1>0, <1>3 DEF Evaluate, TypeOK, StageFacts, NothingYet, ChangeIsFlagged
<1>4. CASE RequestDelayElapses \/ ReplyDelayElapses
  <2>1. flags' \subseteq Flags /\ flags' \subseteq {"modified", "delayed"}
    BY <1>0, <1>4 DEF RequestDelayElapses, ReplyDelayElapses, NothingYet, Flags
  <2> QED BY <1>0, <1>4, <2>1
          DEF RequestDelayElapses, ReplyDelayElapses, TypeOK, StageFacts, NothingYet,
              ChangeIsFlagged
<1>5. CASE Forward
  <2>1. /\ pc = "requestStage" /\ pc' = "sending" /\ reply' = "awaited"
        /\ UNCHANGED <<unary, stream, rule, captured, changed, response, ending, rejected,
                       recorded, log>>
        /\ errors' = (errors \/ ActionIs("mock_response"))
    BY <1>5 DEF Forward
  <2>2. flags' \in {flags, flags \cup {"modified"}} /\ drafts' \in {drafts, drafts \cup {"forwarded"}}
    BY <1>5 DEF Forward
  <2>3. flags' \subseteq {"modified", "delayed"}
    BY <1>0, <2>1, <2>2 DEF NothingYet
  <2>4. flags' \subseteq Flags /\ drafts' \subseteq Drafts /\ errors' \in BOOLEAN
    BY <1>0, <2>1, <2>2 DEF Flags, Drafts
  <2>5. TypeOK'
    BY <1>0, <2>1, <2>4 DEF TypeOK
  <2>6. StageFacts' /\ ChangeIsFlagged'
    BY <1>0, <2>1 DEF StageFacts, ChangeIsFlagged
  <2> QED BY <1>0, <2>1, <2>3, <2>5, <2>6
<1>6. CASE ReplyArrives \/ ReplyIsRead
  BY <1>0, <1>6 DEF ReplyArrives, ReplyIsRead, HeaderStage, AfterReply, TypeOK, StageFacts,
                    NothingYet, ChangeIsFlagged
<1>7. CASE ReplyMatches \/ ReplyIsLost
  BY <1>0, <1>7 DEF ReplyMatches, ReplyIsLost, TypeOK, StageFacts, NothingYet, ChangeIsFlagged
<1>8. CASE ReplyDoesNotMatch
  <2>1. errors' \in BOOLEAN
    BY <1>0, <1>8 DEF ReplyDoesNotMatch, TypeOK
  <2> QED BY <1>0, <1>8, <2>1 DEF ReplyDoesNotMatch, TypeOK, StageFacts, NothingYet,
                                  ChangeIsFlagged
<1>9. ASSUME pc \in {"replyStage", "manipulating"}, ChangeReply
      PROVE  Goal
  <2>1. /\ flags' \subseteq Flags /\ flags' \subseteq {"modified", "delayed"}
        /\ "modified" \in flags' /\ changed' = "yes"
    BY <1>0, <1>9 DEF ChangeReply, NothingYet, Flags
  <2> QED BY <1>0, <1>9, <2>1 DEF ChangeReply, TypeOK, StageFacts, NothingYet, ChangeIsFlagged
<1>10. ASSUME pc \in {"replyStage", "manipulating"}, LeaveReply
       PROVE  Goal
  BY <1>0, <1>10 DEF LeaveReply, TypeOK, StageFacts, NothingYet, ChangeIsFlagged
<1>11. CASE ReplyAction
  <2>1. CASE pc' = "manipulating"
    BY <1>0, <2>1, <1>11 DEF ReplyAction, LeaveReply, ChangeReply, TypeOK, StageFacts,
                             NothingYet, ChangeIsFlagged
  <2> QED BY <2>1, <1>9, <1>10, <1>11 DEF ReplyAction
<1>12. CASE Manipulated
  <2>1. CASE PatchFails
    BY <1>0, <2>1, <1>12 DEF Manipulated, PatchFails, TypeOK, StageFacts, NothingYet,
                             ChangeIsFlagged
  <2>2. CASE EncodeFails
    <3>1. flags' \subseteq Flags /\ flags' \subseteq {"modified", "delayed"} /\ drafts' \subseteq Drafts
      BY <1>0, <2>2, <1>12 DEF Manipulated, EncodeFails, NothingYet, Drafts
    <3> QED BY <1>0, <2>2, <3>1, <1>12 DEF Manipulated, EncodeFails, TypeOK, StageFacts,
                                           NothingYet, ChangeIsFlagged
  <2>3. CASE PatchNothing
    <3>1. flags' \subseteq Flags /\ flags' \subseteq {"modified", "delayed"}
      BY <1>0, <2>3, <1>12 DEF Manipulated, PatchNothing, NothingYet, Flags
    <3> QED BY <1>0, <2>3, <3>1, <1>12 DEF Manipulated, PatchNothing, TypeOK, StageFacts,
                                           NothingYet, ChangeIsFlagged
  <2> QED BY <2>1, <2>2, <2>3, <1>9, <1>10, <1>12 DEF Manipulated
<1>13. CASE ClientLeaves /\ pc \in Waiting
  BY <1>0, <1>13 DEF ClientLeaves, TypeOK, StageFacts, NothingYet, ChangeIsFlagged
<1> QED BY <1>1, <1>2, <1>3, <1>4, <1>5, <1>6, <1>7, <1>8, <1>11, <1>12, <1>13

----------------------------------------------------------------------------
(* The relay begins with an open stream and no entry. *)
LEMMA RelayBegins ==
  ASSUME CallInv, StartRelay
  PROVE  CallInv'
<1> USE DEF Stages, Waiting, Exits, BeforeRules, BeforeForward, RuleStages, Relay, Replies,
            fixed, evaluation, trace
<1>1. /\ TypeOK /\ pc = "deliver" /\ pc' = "relaying" /\ ~unary /\ stream = "open"
      /\ Unlogged /\ ~rejected /\ ending = Nil /\ flags \subseteq {"modified", "delayed"}
      /\ changed = "yes" => "modified" \in flags
      /\ changed = "halfway" => errors
      /\ reply # "none"
  BY DEF CallInv, StartRelay, IsDestroyed, TypeOK, NothingYet, StageFacts, ChangeIsFlagged
<1>2. /\ UNCHANGED <<unary, rejected, stream, rule, captured, errors, flags, drafts, recorded,
                     log, changed, ending>>
      /\ response' = Delivered /\ reply' \in {reply, "piped"}
  BY DEF StartRelay
<1>3. response' \in {"original", "changed"} /\ (response' = "changed" => changed # "no")
  BY <1>2 DEF Delivered
<1>4. TypeOK'
  BY <1>1, <1>2, <1>3 DEF TypeOK, Responses
<1>5. NothingYet' /\ StageFacts' /\ ChangeIsFlagged'
  BY <1>1, <1>2 DEF NothingYet, StageFacts, ChangeIsFlagged
<1>6. RelayFacts' /\ ~Logged
  BY <1>1, <1>2, <1>3 DEF RelayFacts, Unlogged, Logged
<1> QED BY <1>1, <1>2, <1>4, <1>5, <1>6, GoingOn

(* A step of the relay that writes no entry. *)
LEMMA RelayGoesOn ==
  ASSUME CallInv, pc \in Relay, pc' \in Relay \/ (pc' = "done" /\ Logged),
         UNCHANGED <<unary, rejected, stream, rule, captured, recorded, log, response, ending>>,
         reply = "failed" => reply' = "failed", errors' => errors \/ rule # Nil,
         TypeOK', ChangeIsFlagged', RelayFacts', reply' # "none"
  PROVE  CallInv'
<1> USE DEF Waiting, Exits, Relay
<1>1. ~rejected /\ ~unary
  BY DEF CallInv, RelayFacts
<1>2. NothingYet' /\ StageFacts'
  BY <1>1 DEF NothingYet, StageFacts, BeforeRules, BeforeForward, RuleStages
<1>3. CASE ~Logged
  <2>1. pc \notin Exits /\ pc' \notin Exits
    BY <1>3
  <2> QED BY <1>2, <1>3, <2>1, GoingOn
<1>4. CASE Logged
  <2>1. \A i \in 1 .. Len(log) : log[i].outcome \in {"client_aborted", "upstream_error"}
    BY <1>4 DEF CallInv, RelayFacts
  <2>2. LogTellsWhatClientGot'
    BY <1>1, <2>1 DEF LogTellsWhatClientGot, AnswerFits, CallInv
  <2>3. UnaryChangesAreTraceable'
    BY <1>1 DEF UnaryChangesAreTraceable
  <2>4. /\ recorded = 1 /\ (log = <<>> \/ \E entry \in Entry : log = <<entry>>)
        /\ Matched \/ errors => log # <<>>
    BY <1>1, <1>4 DEF CallInv, Decided
  <2>5. (Matched \/ errors)' => log # <<>>
    BY <2>4 DEF Matched
  <2>6. Decided'
    BY <1>1, <2>4, <2>5 DEF Decided
  <2> QED BY <1>2, <2>2, <2>3, <2>6 DEF CallInv
<1> QED BY <1>3, <1>4

LEMMA RelayGoesOnSteps ==
  ASSUME CallInv, \/ ReplyEnds \/ TrailersMatch \/ TrailersDoNotMatch \/ TrailersPatched
  PROVE  CallInv'
<1> USE DEF Stages, Waiting, Exits, BeforeRules, BeforeForward, RuleStages, Relay, Replies,
            fixed, evaluation, trace, answer
<1>0. /\ TypeOK /\ StageFacts /\ ChangeIsFlagged /\ RelayFacts
      /\ flags \in SUBSET Flags /\ pc \in Relay /\ reply # "none"
  BY DEF CallInv, TypeOK, StageFacts, ReplyEnds, TrailersMatch, TrailersDoNotMatch,
         TrailersPatched
<1>1. /\ ~unary /\ ~rejected /\ ending = Nil /\ response \in {"original", "changed"}
      /\ (response = "changed" => changed # "no")
      /\ (pc # "finishing" => "fault" \notin flags)
      /\ changed = "yes" => "modified" \in flags \/ "fault" \in flags
      /\ changed = "halfway" => errors
  BY <1>0 DEF RelayFacts, ChangeIsFlagged
<1>2. CASE ReplyEnds
  <2>1. /\ pc = "relaying" /\ reply # "failed" /\ reply' \in {"ended", "cut", "destroyed"}
        /\ pc' = IF Logged THEN "done"
                 ELSE IF NeedsTrailers THEN "matchingTrailers" ELSE "finishing"
        /\ UNCHANGED <<unary, rejected, stream, rule, captured, errors, flags, drafts, recorded,
                       log, changed, response, ending>>
    BY <1>2 DEF ReplyEnds
  <2>2. TypeOK'
    BY <1>0, <2>1 DEF TypeOK
  <2>3. ChangeIsFlagged'
    BY <1>0, <2>1 DEF ChangeIsFlagged
  <2>4. RelayFacts'
    BY <1>0, <2>1 DEF RelayFacts, NeedsTrailers, Logged
  <2>5. pc' \in Relay \/ (pc' = "done" /\ Logged)
    BY <2>1
  <2> QED BY <1>0, <2>1, <2>2, <2>3, <2>4, <2>5, RelayGoesOn
<1>3. CASE TrailersMatch
  <2>1. /\ pc = "matchingTrailers" /\ pc' \in {"finishing", "patchingTrailers"} /\ NeedsTrailers
        /\ UNCHANGED <<unary, rejected, stream, rule, captured, errors, drafts, reply, recorded,
                       log, response, ending>>
        /\ \/ UNCHANGED <<flags, changed>>
           \/ /\ rule.replyAction = "grpc_status" /\ pc' = "finishing"
              /\ flags' = flags \cup {"fault"} /\ changed' = "yes"
    BY <1>0, <1>3 DEF TrailersMatch, RelayFacts
  <2>2. flags' \subseteq Flags /\ changed' \in {"no", "yes", "halfway"}
    BY <1>0, <2>1 DEF Flags, TypeOK
  <2>3. TypeOK'
    BY <1>0, <2>1, <2>2 DEF TypeOK
  <2>4. ChangeIsFlagged'
    BY <1>0, <2>1 DEF ChangeIsFlagged
  <2>5. RelayFacts'
    <3>1. CASE UNCHANGED <<flags, changed>>
      BY <1>0, <1>1, <2>1, <3>1 DEF RelayFacts, NeedsTrailers, Logged
    <3>2. CASE /\ rule.replyAction = "grpc_status" /\ pc' = "finishing"
               /\ flags' = flags \cup {"fault"} /\ changed' = "yes"
      BY <1>0, <1>1, <2>1, <3>2 DEF RelayFacts, NeedsTrailers, Logged
    <3> QED BY <2>1, <3>1, <3>2
  <2> QED BY <1>0, <2>1, <2>3, <2>4, <2>5, RelayGoesOn
<1>4. CASE TrailersDoNotMatch
  <2>1. /\ pc = "matchingTrailers" /\ pc' = "finishing" /\ NeedsTrailers
        /\ UNCHANGED <<unary, rejected, stream, rule, captured, flags, drafts, changed, reply,
                       recorded, log, response, ending>>
        /\ errors' \in BOOLEAN /\ errors' \in {errors, TRUE}
    BY <1>0, <1>4 DEF TrailersDoNotMatch, RelayFacts, TypeOK
  <2>2. errors => errors'
    BY <1>0, <2>1 DEF TypeOK
  <2>3. rule # Nil
    BY <2>1 DEF NeedsTrailers
  <2>4. TypeOK'
    BY <1>0, <2>1 DEF TypeOK
  <2>5. ChangeIsFlagged'
    BY <1>0, <1>1, <2>1, <2>2 DEF ChangeIsFlagged
  <2>6. RelayFacts'
    BY <1>0, <1>1, <2>1 DEF RelayFacts, NeedsTrailers, Logged
  <2> QED BY <1>0, <2>1, <2>3, <2>4, <2>5, <2>6, RelayGoesOn
<1>5. CASE TrailersPatched
  <2>1. /\ pc = "patchingTrailers" /\ pc' = "finishing" /\ NeedsTrailers
        /\ UNCHANGED <<unary, rejected, stream, rule, captured, drafts, reply,
                       recorded, log, response, ending>>
        /\ \/ changed' = "yes" /\ flags' = flags \cup {"modified"} /\ UNCHANGED errors
           \/ UNCHANGED <<changed, flags, errors>>
           \/ errors' = TRUE /\ UNCHANGED <<changed, flags>>
    BY <1>0, <1>5 DEF TrailersPatched, RelayFacts
  <2>2. /\ flags' \subseteq Flags /\ changed' \in {"no", "yes", "halfway"} /\ errors' \in BOOLEAN
        /\ flags' \in {flags, flags \cup {"modified"}}
    BY <1>0, <2>1 DEF Flags, TypeOK
  <2>3. rule # Nil
    BY <2>1 DEF NeedsTrailers
  <2>4. TypeOK'
    BY <1>0, <2>1, <2>2 DEF TypeOK
  <2>5. ChangeIsFlagged'
    BY <1>0, <1>1, <2>1 DEF ChangeIsFlagged
  <2>6. RelayFacts'
    <3>1. response' = "changed" => changed' # "no"
      BY <1>1, <2>1
    <3> QED BY <1>0, <1>1, <2>1, <2>2, <3>1 DEF RelayFacts, NeedsTrailers, Logged
  <2> QED BY <1>0, <2>1, <2>3, <2>4, <2>5, <2>6, RelayGoesOn
<1> QED BY <1>2, <1>3, <1>4, <1>5

(* What a call that ends with its relay, not yet logged, was answered: the       *)
(* outcome of its flags fits once the trailers are sent or the stream destroyed. *)
LEMMA RelayAnswerFits ==
  ASSUME CallInv, pc \in Relay, ~Logged, NEW e \in BOOLEAN, errors => e,
         UNCHANGED <<rule, changed, response>>, reply' # "none",
         NEW outcome, outcome = Outcome(flags, e),
         \/ ending' = (IF NeedsTrailers /\ changed # "no" THEN "changed" ELSE "upstream")
         \/ ending' = Nil /\ stream' = "closed" /\ reply' = "garbled" /\ e
  PROVE  AnswerFits(outcome)'
<1>1. /\ flags \subseteq {"modified", "delayed", "fault"}
      /\ response' \in {"original", "changed"} /\ (response' = "changed" => changed # "no")
      /\ "fault" \in flags => NeedsTrailers /\ rule.replyAction = "grpc_status" /\ changed = "yes"
      /\ changed = "yes" => "modified" \in flags \/ "fault" \in flags
      /\ changed = "halfway" => e
      /\ changed \in {"no", "yes", "halfway"}
  BY DEF CallInv, TypeOK, RelayFacts, ChangeIsFlagged, Relay, Exits
<1>2. outcome \in {"fault", "modified", "delayed", "rule_error", "captured"}
  BY <1>1 DEF Outcome
<1>3. CASE outcome = "fault"
  <2>1. "fault" \in flags
    BY <1>3 DEF Outcome
  <2>2. AppliedFault' = "grpc_status" /\ (ending' = "changed" \/ reply' = "garbled")
    BY <1>1, <2>1 DEF AppliedFault
  <2> QED BY <1>1, <1>3, <2>2 DEF AnswerFits
<1>4. CASE outcome = "modified"
  BY <1>1, <1>4, NilIsNoResponse DEF AnswerFits, HasItsEnd, Responses
<1>5. CASE outcome \in {"delayed", "rule_error", "captured"}
  <2>1. "modified" \notin flags /\ "fault" \notin flags
    BY <1>5 DEF Outcome
  <2>2. changed \in {"no", "halfway"}
    BY <1>1, <2>1
  <2>3. response' = "changed" => changed' = "halfway"
    BY <1>1, <2>2
  <2>4. (changed' = "no" => ending' # "changed") /\ HasItsEnd'
    BY NilIsNoResponse DEF Responses, HasItsEnd
  <2>5. outcome = "captured" => response' = "original"
    <3>1. SUFFICES ASSUME outcome = "captured" PROVE changed = "no"
      BY <1>1
    <3>2. ~e
      BY <3>1 DEF Outcome
    <3> QED BY <1>1, <2>2, <3>2
  <2> QED BY <1>1, <1>5, <2>3, <2>4, <2>5 DEF AnswerFits
<1> QED BY <1>2, <1>3, <1>4, <1>5

LEMMA RelayExits ==
  ASSUME CallInv, Finish \/ TailThrows
  PROVE  CallInv'
<1> USE DEF Waiting, Exits, Relay, fixed, evaluation, trace, answer
<1>0. /\ pc \in {"matchingTrailers", "finishing"} /\ pc \in Relay /\ pc' = "done" /\ TypeOK
      /\ ~unary /\ ~rejected /\ ending = Nil /\ response \in {"original", "changed"}
      /\ reply # "none" /\ reply \in Replies
      /\ flags \in SUBSET Flags /\ drafts \in SUBSET Drafts /\ errors \in BOOLEAN
      /\ UNCHANGED <<unary, rejected, rule, captured, changed, response>> /\ reply' \in {reply, "garbled"}
  BY DEF CallInv, TypeOK, StageFacts, RelayFacts, Finish, TailThrows, BeforeForward, BeforeRules
<1>1. CASE Logged
  <2>1. /\ UNCHANGED <<recorded, log, errors, flags, drafts, ending, reply>> /\ stream # "open"
        /\ stream' = stream
    BY <1>0, <1>1 DEF Finish, TailThrows, CallInv, RelayFacts, Hangup, IsDestroyed
  <2>2. TypeOK'
    BY <1>0, <2>1 DEF TypeOK, Stages
  <2>3. ChangeIsFlagged' /\ RelayFacts'
    BY <1>0 DEF ChangeIsFlagged, RelayFacts
  <2> QED BY <1>0, <1>1, <2>1, <2>2, <2>3, RelayGoesOn
<1>2. CASE ~Logged
  <2>1. stream = "open" /\ pc \notin Exits /\ pc' \in Exits
    BY <1>0, <1>2 DEF CallInv, RelayFacts
  <2>2. \A d : KeepsReply(response', d)
    BY <1>0 DEF KeepsReply
  <2>3. CASE Finish
    <3>1. /\ ending' = (IF NeedsTrailers /\ changed # "no" THEN "changed" ELSE "upstream")
          /\ WriteLog(flags, errors, drafts, stream) /\ stream' = stream
      BY <1>2, <2>3 DEF Finish
    <3>2. PICK outcome : outcome = Outcome(flags, errors)
      OBVIOUS
    <3>3. AnswerFits(outcome)'
      BY <1>0, <1>2, <3>1, <3>2, RelayAnswerFits
    <3>4. outcome = Outcome(IF IsDestroyed(stream) THEN flags \cup {"client_aborted"} ELSE flags, errors)
      BY <2>1, <3>2 DEF IsDestroyed
    <3>5. /\ stream' \in {"open", "left", "closed"} /\ response' \in Responses \cup {Nil}
          /\ ending' \in {Nil, "own", "upstream", "changed"} /\ reply' \in Replies
      BY <1>0, <2>1, <3>1 DEF Responses, Replies
    <3> QED BY <1>0, <1>2, <2>1, <2>2, <3>1, <3>3, <3>4, <3>5, Leaving
  <2>4. CASE TailThrows
    <3>1. /\ ending' = Nil /\ stream' = "closed" /\ reply' = "garbled"
          /\ WriteLog(flags, TRUE, drafts, stream)
      BY <1>0, <1>2, <2>1, <2>4 DEF TailThrows, Hangup, IsDestroyed
    <3>2. PICK outcome : outcome = Outcome(flags, TRUE)
      OBVIOUS
    <3>3. AnswerFits(outcome)'
      BY <1>0, <1>2, <3>1, <3>2, RelayAnswerFits
    <3>4. outcome = Outcome(IF IsDestroyed(stream) THEN flags \cup {"client_aborted"} ELSE flags, TRUE)
      BY <2>1, <3>2 DEF IsDestroyed
    <3>5. /\ stream' \in {"open", "left", "closed"} /\ response' \in Responses \cup {Nil}
          /\ ending' \in {Nil, "own", "upstream", "changed"} /\ reply' \in Replies
      BY <1>0, <3>1 DEF Responses, Replies
    <3> QED BY <1>0, <1>2, <2>1, <2>2, <3>1, <3>3, <3>4, <3>5, Leaving
  <2> QED BY <2>3, <2>4
<1> QED BY <1>1, <1>2

----------------------------------------------------------------------------
(* The stream's 'close' handler logs a relayed call that nobody logged before. *)
LEMMA CloseIsLogged ==
  ASSUME CallInv, ReplyErrors \/ (ClientLeaves /\ pc \in Relay)
  PROVE  CallInv'
<1> USE DEF Waiting, Exits, Relay, fixed, evaluation, trace, answer
<1>0. /\ pc \in Relay /\ pc' = pc /\ TypeOK
      /\ ~unary /\ ~rejected /\ ending = Nil /\ response \in {"original", "changed"}
      /\ reply # "none" /\ reply' \in Replies /\ reply' # "none"
      /\ flags \in SUBSET Flags /\ drafts \in SUBSET Drafts /\ errors \in BOOLEAN
      /\ UNCHANGED <<unary, rejected, rule, captured, changed, response, ending>>
  BY DEF CallInv, TypeOK, StageFacts, RelayFacts, ReplyErrors, ClientLeaves, BeforeForward,
         BeforeRules, Replies
<1>1. CASE Logged
  <2>1. UNCHANGED <<recorded, log, errors, flags, drafts, stream>> /\ (reply = "failed" => reply' = "failed")
    BY <1>0, <1>1 DEF ReplyErrors, ClientLeaves, LogOnClose, CallInv, RelayFacts, Hangup,
                      IsDestroyed
  <2>2. TypeOK'
    BY <1>0, <2>1 DEF TypeOK, Stages
  <2>3. ChangeIsFlagged' /\ RelayFacts'
    BY <1>0, <2>1 DEF CallInv, ChangeIsFlagged, RelayFacts, NeedsTrailers, Logged
  <2> QED BY <1>0, <2>1, <2>2, <2>3, RelayGoesOn
<1>2. CASE ~Logged
  <2>1. /\ stream = "open" /\ stream' \in {"left", "closed"} /\ Unlogged
        /\ flags \subseteq {"modified", "delayed", "fault"}
    BY <1>0, <1>2 DEF CallInv, TypeOK, RelayFacts, ReplyErrors, ClientLeaves, Hangup, IsDestroyed,
                      Unlogged, Logged
  <2>2. PICK flag \in {"client_aborted", "upstream_error"} :
          /\ RawWriteLog(flags \cup {flag}, errors, drafts)
          /\ IF flag = "upstream_error" THEN stream' = "closed" /\ reply' = "failed"
             ELSE stream' = "left"
    BY <1>0, <1>2, <2>1 DEF ReplyErrors, ClientLeaves, LogOnClose, Hangup, IsDestroyed
  <2>3. flags \cup {flag} \in SUBSET Flags
    BY <1>0 DEF Flags
  <2>4. flag = Outcome(flags \cup {flag}, errors)
    BY <2>1 DEF Outcome
  <2>5. AnswerFits(flag)'
    BY <1>0, <2>1, <2>2 DEF AnswerFits
  <2>6. KeepsReply(response', drafts)
    BY <1>0 DEF KeepsReply
  <2>7. /\ flags' = flags \cup {flag} /\ errors' = errors /\ drafts' = drafts
        /\ log' \in Seq(Entry) /\ recorded' = 1 /\ Logged'
        /\ \A i \in 1 .. Len(log') : log'[i].outcome = flag
        /\ Decided' /\ LogTellsWhatClientGot' /\ UnaryChangesAreTraceable'
    <3>1. UNCHANGED <<rejected, rule, captured>>
      BY <1>0
    <3> QED BY <1>0, <2>1, <2>2, <2>3, <2>4, <2>5, <2>6, <3>1, Logging
  <2>8. TypeOK'
    BY <1>0, <2>1, <2>3, <2>7 DEF TypeOK, Stages
  <2>9. NothingYet' /\ StageFacts'
    BY <1>0 DEF NothingYet, StageFacts, BeforeRules, BeforeForward, RuleStages
  <2>10. ChangeIsFlagged'
    BY <1>0, <2>7 DEF CallInv, ChangeIsFlagged
  <2>11. RelayFacts'
    <3>1. "fault" \in flags' => "fault" \in flags
      BY <2>7
    <3>2. /\ response = "changed" => changed # "no"
          /\ pc \in {"matchingTrailers", "patchingTrailers"} => NeedsTrailers
          /\ "fault" \in flags =>
               /\ pc = "finishing" /\ NeedsTrailers
               /\ rule.replyAction = "grpc_status" /\ changed = "yes"
      BY <1>0 DEF CallInv, RelayFacts
    <3>3. stream' # "open"
      BY <2>1
    <3> QED BY <1>0, <2>7, <3>1, <3>2, <3>3 DEF RelayFacts, NeedsTrailers
  <2> QED BY <2>7, <2>8, <2>9, <2>10, <2>11 DEF CallInv
<1> QED BY <1>1, <1>2

(* Nothing that happens to the client later makes the entry untrue. *)
LEMMA AfterTheExit ==
  ASSUME CallInv,
         FaultSleepElapses \/ TrailersRefused \/ (ClientLeaves /\ pc \in Exits)
           \/ UNCHANGED vars
  PROVE  CallInv'
<1> USE DEF Waiting, Exits, fixed, evaluation, trace, answer
<1>1. CASE UNCHANGED vars
  <2>1. UNCHANGED <<unary, pc, stream, rule, captured, errors, flags, drafts, changed, reply,
                    response, ending, rejected, recorded, log>>
    BY <1>1 DEF vars
  <2>2. TypeOK' /\ NothingYet' /\ StageFacts'
    BY <2>1 DEF CallInv, TypeOK, NothingYet, StageFacts, Unlogged
  <2>3. ChangeIsFlagged' /\ RelayFacts' /\ Decided'
    BY <2>1 DEF CallInv, ChangeIsFlagged, RelayFacts, Decided, Unlogged, Matched, NeedsTrailers,
                Logged
  <2>4. LogTellsWhatClientGot' /\ UnaryChangesAreTraceable'
    BY <2>1 DEF CallInv, LogTellsWhatClientGot, UnaryChangesAreTraceable, AnswerFits, HasItsEnd, AppliedFault
  <2> QED BY <2>2, <2>3, <2>4 DEF CallInv
<1>2. CASE FaultSleepElapses \/ TrailersRefused \/ (ClientLeaves /\ pc \in Exits)
  <2>1. pc \in Exits
    <3>1. SUFFICES ASSUME TrailersRefused PROVE pc \in Exits
      BY <1>2 DEF FaultSleepElapses
    <3>2. ending # Nil
      BY <3>1 DEF TrailersRefused
    <3> QED BY <3>2 DEF CallInv, TypeOK, NothingYet, RelayFacts
  <2>2. /\ pc' \in Exits /\ (pc' = pc \/ pc' = "done")
        /\ UNCHANGED <<unary, rule, captured, errors, flags, drafts, changed, reply,
                       response, ending, rejected, recorded, log>>
        /\ stream' \in {stream, "left", "closed"} /\ stream \in {"open", "left", "closed"}
        /\ stream # "open" => stream' = stream
    BY <1>2, <2>1 DEF CallInv, TypeOK, FaultSleepElapses, TrailersRefused, ClientLeaves, Hangup,
                 IsDestroyed, Relay
  <2>3. TypeOK'
    BY <2>2 DEF CallInv, TypeOK, Stages
  <2>4. NothingYet' /\ StageFacts' /\ ChangeIsFlagged' /\ RelayFacts'
    BY <2>2 DEF NothingYet, StageFacts, ChangeIsFlagged, RelayFacts, BeforeRules, RuleStages,
                Relay
  <2>5. Decided'
    BY <2>1, <2>2 DEF CallInv, Decided, Unlogged, Matched
  <2>6. UnaryChangesAreTraceable'
    BY <2>2 DEF CallInv, UnaryChangesAreTraceable
  <2>7. \A outcome : AnswerFits(outcome) => AnswerFits(outcome)'
    BY <2>2 DEF AnswerFits, HasItsEnd, AppliedFault
  <2>8. LogTellsWhatClientGot'
    <3>1. SUFFICES ASSUME NEW i \in 1 .. Len(log') PROVE AnswerFits(log[i].outcome)'
      BY DEF LogTellsWhatClientGot
    <3>2. PICK outcome : outcome = log[i].outcome
      OBVIOUS
    <3>3. AnswerFits(log[i].outcome)
      BY <2>2, <3>1 DEF CallInv, LogTellsWhatClientGot
    <3>4. AnswerFits(outcome)'
      BY <2>7, <3>2, <3>3
    <3>5. log[i].outcome' = outcome
      BY <2>2, <3>2
    <3> QED BY <3>4, <3>5 DEF AnswerFits, AppliedFault
  <2> QED BY <2>3, <2>4, <2>5, <2>6, <2>8 DEF CallInv
<1> QED BY <1>1, <1>2

----------------------------------------------------------------------------
LEMMA StepHolds == CallInv /\ [Next]_vars => CallInv'
<1> SUFFICES ASSUME CallInv, [Next]_vars PROVE CallInv'
  OBVIOUS
<1>1. CASE ClientLeaves
  <2>1. pc \in Waiting \cup Relay \cup Exits
    BY DEF CallInv, TypeOK, Waiting
  <2> QED BY <1>1, <2>1, GoingOnSteps, CloseIsLogged, AfterTheExit
<1>2. CASE HandlerStep
  BY <1>2, GoingOnSteps, RefusedOrAborted, MockExits, FaultsAreTold, UpstreamFailures,
     FailuresAreTold, DeliverExits, RelayBegins, RelayGoesOnSteps, RelayExits, AfterTheExit
  DEF HandlerStep
<1>3. CASE PeerStep
  BY <1>1, <1>3, GoingOnSteps, RefusedOrAborted, UpstreamFailures, FailuresAreTold,
     RelayGoesOnSteps, CloseIsLogged, AfterTheExit DEF PeerStep
<1>4. CASE UNCHANGED vars
  BY <1>4, AfterTheExit
<1> QED BY <1>2, <1>3, <1>4 DEF Next

THEOREM CallInvariant == Spec => []CallInv
<1> QED BY InitHolds, StepHolds, PTL DEF Spec

(* The types of a call's state. *)
THEOREM CallTypesCorrect == Spec => []TypeOK
<1>1. CallInv => TypeOK
  BY DEF CallInv
<1> QED BY <1>1, CallInvariant, PTL

(* A rule that was consumed leaves an entry, whether the call ends by its       *)
(* relay, by an error of the upstream, by the client or by an exception.        *)
THEOREM AppliedRulesLeaveEntries == Spec => []AppliedRuleIsLogged
<1>1. CallInv => AppliedRuleIsLogged
  <2> SUFFICES ASSUME CallInv, pc = "done" \/ (pc \in Relay /\ stream # "open"),
                      Matched \/ errors
               PROVE  Len(log) = 1
    BY DEF AppliedRuleIsLogged
  <2>1. pc \in Exits \/ Logged
    BY DEF CallInv, RelayFacts, Exits
  <2>2. ~rejected /\ log # <<>> /\ (log = <<>> \/ \E entry \in Entry : log = <<entry>>)
    BY <2>1 DEF CallInv, Decided
  <2> QED BY <2>2
<1> QED BY <1>1, CallInvariant, PTL

(* The outcome of an entry is what the client met with, in both paths and for   *)
(* every order of the relay's end, its errors and the client's departure.       *)
THEOREM LogMatchesAnswer == Spec => []LogTellsWhatClientGot
<1>1. CallInv => LogTellsWhatClientGot
  BY DEF CallInv
<1> QED BY <1>1, CallInvariant, PTL

(* The entry of a unary call holds the upstream's response if it was changed or *)
(* replaced.                                                                    *)
THEOREM UnaryChangesLeaveTraces == Spec => []UnaryChangesAreTraceable
<1>1. CallInv => UnaryChangesAreTraceable
  BY DEF CallInv
<1> QED BY <1>1, CallInvariant, PTL

----------------------------------------------------------------------------
(* Once a call is decided nothing is added to its trace or taken back, though  *)
(* the relay may go on awaiting, and its handlers be called.                   *)
LEMMA TraceIsFinal ==
  ASSUME CallInv, [Next]_vars, pc \in Exits \/ Logged
  PROVE  UNCHANGED <<recorded, log, rejected>>
<1> USE DEF trace, fixed, Relay
<1>1. pc \in Exits \cup Relay /\ (pc \in Relay => Logged)
  BY DEF CallInv, TypeOK, NothingYet, Unlogged, Logged, Waiting, Exits
<1>2. CASE pc \in Exits
  <2>1. FaultSleepElapses \/ ClientLeaves \/ TrailersRefused \/ UNCHANGED vars
    BY <1>2 DEF Exits, Next, HandlerStep, PeerStep, Begin, BodyAborted, Evaluate,
       EvaluateAborted, RequestDelayElapses, Mock, MockFails, RequestFault, Forward, SendFails,
       ReplyArrives, HeadersUnreadable, ReplyMatches, ReplyDoesNotMatch, ReplyDelayElapses,
       UnaryFault, HeaderFault, ReplyAction, ReplaceThrows, Manipulated, Deliver, StartRelay,
       RelayRefused, TrailersMatch, TrailersDoNotMatch, TrailersPatched, Finish, TailThrows,
       BodyComplete, BodyOverflows, BodyUnusable, ReplyIsRead, ReplyNotBuffered,
       StatusUnreadable, ReplyIsLost, ReplyEnds, ReplyErrors
  <2> QED BY <1>2, <2>1 DEF FaultSleepElapses, ClientLeaves, TrailersRefused, vars, Exits
<1>3. CASE pc \in Relay
  <2>1. \/ TrailersMatch \/ TrailersDoNotMatch \/ TrailersPatched \/ Finish \/ TailThrows
        \/ ReplyEnds \/ ReplyErrors \/ ClientLeaves \/ TrailersRefused \/ UNCHANGED vars
    BY <1>3 DEF Next, HandlerStep, PeerStep, Begin, BodyAborted, Evaluate,
       EvaluateAborted, RequestDelayElapses, Mock, MockFails, RequestFault, Forward, SendFails,
       ReplyArrives, HeadersUnreadable, ReplyMatches, ReplyDoesNotMatch, ReplyDelayElapses,
       UnaryFault, HeaderFault, ReplyAction, ReplaceThrows, Manipulated, Deliver, StartRelay,
       RelayRefused, FaultSleepElapses,
       BodyComplete, BodyOverflows, BodyUnusable, ReplyIsRead, ReplyNotBuffered,
       StatusUnreadable, ReplyIsLost
  <2>2. Logged
    BY <1>1, <1>3
  <2>3. CASE TrailersMatch \/ TrailersDoNotMatch \/ TrailersPatched \/ ReplyEnds
               \/ TrailersRefused \/ UNCHANGED vars
    BY <2>3 DEF TrailersMatch, TrailersDoNotMatch, TrailersPatched, ReplyEnds, TrailersRefused,
                vars
  <2>4. CASE Finish \/ TailThrows
    BY <2>2, <2>4 DEF Finish, TailThrows
  <2>5. CASE ReplyErrors \/ ClientLeaves
    BY <2>2, <2>5 DEF ReplyErrors, ClientLeaves, LogOnClose
  <2> QED BY <2>1, <2>3, <2>4, <2>5
<1> QED BY <1>1, <1>2, <1>3

(* Each step of a call rejects it, records it, or leaves its trace alone. *)
LEMMA TraceStep ==
  ASSUME CallInv, CallInv', [Next]_vars
  PROVE  [Trace!TraceNext]_(Trace!traceVars)
<1> USE DEF Trace!traceVars, Trace!TraceNext, Trace!Undecided
<1>1. CASE pc \in Exits \/ Logged
  BY <1>1, TraceIsFinal
<1>2. CASE pc \notin Exits /\ ~Logged
  <2>1. recorded = 0 /\ log = <<>> /\ ~rejected
    BY <1>2 DEF CallInv, TypeOK, NothingYet, RelayFacts, Waiting, Unlogged, Logged
  <2>2. CASE pc' \notin Exits /\ ~Logged'
    <3>1. recorded' = 0 /\ log' = <<>> /\ ~rejected'
      BY <2>2 DEF CallInv, TypeOK, NothingYet, RelayFacts, Waiting, Unlogged, Logged
    <3>2. rejected' = rejected
      BY <2>1, <3>1 DEF CallInv, TypeOK
    <3> QED BY <2>1, <3>1, <3>2
  <2>3. CASE (pc' \in Exits \/ Logged') /\ rejected'
    <3>1. recorded' = 0 /\ log' = <<>>
      BY <2>3 DEF CallInv, Decided, Unlogged
    <3>2. rejected' = TRUE
      BY <2>3 DEF CallInv, TypeOK
    <3> QED BY <2>1, <3>1, <3>2 DEF Trace!Reject
  <2>4. CASE (pc' \in Exits \/ Logged') /\ ~rejected'
    <3>1. recorded' = 1 /\ (log' = <<>> \/ \E entry \in Entry : log' = <<entry>>)
      BY <2>4 DEF CallInv, Decided
    <3>2. rejected' = rejected
      BY <2>1, <2>4 DEF CallInv, TypeOK
    <3> QED BY <2>1, <3>1, <3>2 DEF Trace!RecordPassthrough, Trace!RecordAndLog
  <2> QED BY <2>2, <2>3, <2>4
<1> QED BY <1>1, <1>2

(* Both paths of a gRPC call, whichever of the relay's end, its errors, the     *)
(* client's departure and an exception comes first, implement the trace that    *)
(* ExchangeLog promises.                                                        *)
THEOREM CallImplementsTrace == Spec => TraceSpec
<1>1. Init => Trace!TraceInit
  BY DEF Init, Trace!TraceInit
<1>2. CallInv /\ CallInv' /\ [Next]_vars => [Trace!TraceNext]_(Trace!traceVars)
  BY TraceStep
<1> QED BY <1>1, <1>2, CallInvariant, PTL DEF Spec, TraceSpec, Trace!TraceSpec

=============================================================================
