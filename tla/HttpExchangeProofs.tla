-------------------------- MODULE HttpExchangeProofs --------------------------
(***************************************************************************)
(* Theorems about HttpExchange: types, one record per exchange, and what   *)
(* the log entry and the client are told, for every set of rules.          *)
(***************************************************************************)
EXTENDS HttpExchange, TLAPS

Running == Stages \ {"faultSleep", "done"}
BeforeRules == {"start", "readingBody", "evaluating", "evaluatingAborted"}
BeforeForward == BeforeRules \cup {"requestDelay", "requestStage"}
RuleStages == {"requestDelay", "matchingReply", "replyDelay", "replyStage", "manipulating"}

(* Until its exit is taken an exchange has no trace and no answer. *)
NothingYet ==
  pc \in Running =>
    /\ recorded = 0 /\ log = <<>> /\ response = Nil
    /\ flags \subseteq {"modified", "delayed"}
    /\ changed = "yes" => "modified" \in flags
    /\ changed = "halfway" => errors

(* What is known of the rule, the body and the upstream at each stage. *)
StageFacts ==
  /\ pc \in BeforeRules => rule = Nil /\ ~captured /\ ~errors
  /\ pc \in {"start", "readingBody"} => body = "unread"
  /\ body = "unread" => pc \in {"start", "readingBody", "done"}
  /\ pc \in Running => (pc \in BeforeForward <=> reply = "none")
  /\ pc \in RuleStages => rule # Nil
  /\ pc = "evaluatingAborted" => conn # "open"

(* After its exit it has the one record it will ever have. *)
Decided ==
  pc \in {"faultSleep", "done"} =>
    IF body = "unread"
    THEN pc = "done" /\ recorded = 0 /\ log = <<>> /\ ~Matched /\ ~errors
    ELSE /\ recorded = 1
         /\ log = <<>> \/ \E entry \in Entry : log = <<entry>>
         /\ Matched \/ errors => log # <<>>

ExchangeInv ==
  /\ TypeOK /\ NothingYet /\ StageFacts /\ Decided
  /\ LogTellsWhatClientGot /\ NobodyLeftWaiting

----------------------------------------------------------------------------
LEMMA InitHolds == Init => ExchangeInv
<1> SUFFICES ASSUME Init PROVE ExchangeInv
  OBVIOUS
<1>1. log \in Seq(Entry) /\ Len(log) = 0
  BY DEF Init
<1>2. TypeOK
  BY <1>1 DEF Init, TypeOK, Stages, Bodies, Replies
<1>3. NothingYet /\ StageFacts /\ Decided
  BY DEF Init, NothingYet, StageFacts, Decided, Running, BeforeRules, BeforeForward,
         RuleStages, Stages
<1>4. LogTellsWhatClientGot /\ NobodyLeftWaiting
  BY <1>1 DEF Init, LogTellsWhatClientGot, NobodyLeftWaiting
<1> QED BY <1>2, <1>3, <1>4 DEF ExchangeInv

(* An answer reaches the client, or the connection is gone. *)
LEMMA Answering ==
  ASSUME TypeOK, response = Nil, NEW what \in Responses, Respond(what)
  PROVE  /\ conn' \in {"open", "left", "closed"}
         /\ \/ conn' # "open" /\ response' = Nil
            \/ conn' = "open" /\ response' = what
  BY NilConstant DEF TypeOK, Respond, IsDestroyed

LEMMA OutcomeType ==
  ASSUME NEW f \in SUBSET Flags, NEW e \in BOOLEAN
  PROVE  Outcome(f, e) \in Outcomes
  BY DEF Outcome, Outcomes, Flags

LEMMA ReasonType ==
  ASSUME NEW outcome, NEW e, NEW intercepted, NEW captures
  PROVE  Reason(outcome, e, intercepted, captures) \in Reasons
  BY DEF Reason, Reasons

(* What the first writeLog() of an exchange leaves behind. *)
LEMMA Recording ==
  ASSUME NEW f \in SUBSET Flags, NEW e \in BOOLEAN, NEW d \in SUBSET Drafts, NEW c,
         recorded = 0, log = <<>>, WriteLog(f, e, d, c)
  PROVE  /\ flags' \subseteq Flags /\ errors' = e /\ drafts' = d /\ recorded' = 1
         /\ \/ log' = <<>> /\ ~Matched /\ ~e
            \/ \E entry \in Entry :
                 /\ log' = <<entry>>
                 /\ entry.outcome = Outcome(IF IsDestroyed(c) THEN f \cup {"client_aborted"}
                                            ELSE f, e)
<1> DEFINE all == IF IsDestroyed(c) THEN f \cup {"client_aborted"} ELSE f
           entry == [outcome |-> Outcome(all, e), reason |-> Reason(Outcome(all, e), e, rule # Nil, captured),
                     drafts |-> d]
<1>1. all \in SUBSET Flags
  BY DEF Flags
<1>2. entry \in Entry
  BY <1>1, OutcomeType, ReasonType DEF Entry
<1>3. /\ flags' = all /\ errors' = e /\ drafts' = d /\ recorded' = 1
      /\ log' = IF ShouldLog(all, e) THEN Append(log, entry) ELSE log
  BY DEF WriteLog
<1>4. CASE ShouldLog(all, e)
  <2>1. log' = <<entry>>
    BY <1>3, <1>4
  <2>2. entry.outcome = Outcome(all, e)
    OBVIOUS
  <2> QED BY <1>1, <1>2, <1>3, <2>1, <2>2
<1>5. CASE ~ShouldLog(all, e)
  <2>1. log' = <<>> /\ ~Matched /\ ~e
    BY <1>3, <1>5 DEF ShouldLog
  <2> QED BY <1>1, <1>3, <2>1
<1> QED BY <1>4, <1>5

(* A step to another stage before the exit. *)
LEMMA GoingOn ==
  ASSUME ExchangeInv, pc' \in Running, TypeOK', StageFacts',
         UNCHANGED <<recorded, log, response>>, pc \in Running,
         flags' \subseteq {"modified", "delayed"}, changed' = "yes" => "modified" \in flags',
         changed' = "halfway" => errors'
  PROVE  ExchangeInv'
  BY DEF ExchangeInv, NothingYet, Decided, LogTellsWhatClientGot, NobodyLeftWaiting, Running

(* A step that takes an exit: it suffices that the answer fits the outcome. *)
LEMMA Leaving ==
  ASSUME ExchangeInv, pc \in Running, body # "unread", pc' \in {"faultSleep", "done"},
         NEW f \in SUBSET Flags, NEW e \in BOOLEAN, NEW d \in SUBSET Drafts, NEW c,
         WriteLog(f, e, d, c),
         UNCHANGED <<interest, body, rule, captured, changed>>,
         conn' \in {"open", "left", "closed"}, reply' \in Replies,
         response' \in Responses \cup {Nil},
         NEW outcome,
         outcome = Outcome(IF IsDestroyed(c) THEN f \cup {"client_aborted"} ELSE f, e),
         AnswerFits(outcome)',
         NobodyLeftWaiting'
  PROVE  ExchangeInv'
<1>1. /\ flags' \subseteq Flags /\ errors' = e /\ drafts' = d /\ recorded' = 1
      /\ \/ log' = <<>> /\ ~Matched /\ ~e
         \/ \E entry \in Entry : log' = <<entry>> /\ entry.outcome = outcome
  BY Recording DEF ExchangeInv, NothingYet
<1>2. log' = <<>> \/ \E entry \in Entry : log' = <<entry>>
  BY <1>1
<1>3. log' \in Seq(Entry)
  <2>1. ASSUME NEW entry \in Entry PROVE <<entry>> \in Seq(Entry)
    OBVIOUS
  <2>2. <<>> \in Seq(Entry)
    OBVIOUS
  <2> QED BY <1>2, <2>1, <2>2
<1>4. TypeOK'
  BY <1>1, <1>3 DEF ExchangeInv, TypeOK, Stages
<1>5. LogTellsWhatClientGot'
  <2>1. CASE log' = <<>>
    BY <2>1 DEF LogTellsWhatClientGot
  <2>2. ASSUME NEW entry \in Entry, log' = <<entry>>, entry.outcome = outcome
        PROVE  LogTellsWhatClientGot'
    <3>1. Len(log') = 1 /\ log'[1] = entry
      BY <2>2
    <3>2. SUFFICES ASSUME NEW i \in 1 .. Len(log')
                   PROVE  AnswerFits(log[i].outcome)'
      BY DEF LogTellsWhatClientGot
    <3>3. i = 1
      BY <3>1
    <3>4. log[i].outcome' = outcome
      BY <2>2, <3>1, <3>3
    <3> QED BY <3>4 DEF AnswerFits, AppliedFault
  <2> QED BY <1>1, <2>1, <2>2
<1>6. Decided'
  <2>1. (Matched \/ errors)' => log' # <<>>
    BY <1>1 DEF Matched
  <2> QED BY <1>1, <1>2, <2>1 DEF Decided
<1>7. NothingYet' /\ StageFacts'
  BY DEF NothingYet, StageFacts, Running, ExchangeInv, BeforeRules, RuleStages, Stages
<1> QED BY <1>4, <1>5, <1>6, <1>7 DEF ExchangeInv

----------------------------------------------------------------------------
(* The steps that do not take an exit. *)
LEMMA GoingOnSteps ==
  ASSUME ExchangeInv,
         BodyComplete \/ BodyShort \/ BodyAborted \/ Evaluate \/ RequestDelayElapses
           \/ Forward \/ ReplyArrives \/ ReplyIsRead \/ ReplyMatches
           \/ ReplyDoesNotMatch \/ ReplyDelayElapses \/ ReplyAction \/ Manipulated
  PROVE  ExchangeInv'
<1> USE DEF Stages, Running, BeforeRules, BeforeForward, RuleStages, Bodies, Replies,
            evaluation, trace
<1>0. /\ TypeOK /\ StageFacts /\ NothingYet
      /\ flags \in SUBSET Flags /\ drafts \in SUBSET Drafts
  BY DEF ExchangeInv, TypeOK
<1> DEFINE Goal == /\ pc \in Running /\ pc' \in Running /\ TypeOK' /\ StageFacts'
                   /\ UNCHANGED <<recorded, log, response>>
                   /\ flags' \subseteq {"modified", "delayed"}
                   /\ changed' = "yes" => "modified" \in flags'
                   /\ changed' = "halfway" => errors'
<1> SUFFICES Goal
  BY GoingOn
<1>1. CASE BodyComplete
  BY <1>0, <1>1 DEF BodyComplete, TypeOK, StageFacts, NothingYet
<1>2. CASE BodyShort
  BY <1>0, <1>2 DEF BodyShort, Hangup, IsDestroyed, TypeOK, StageFacts, NothingYet
<1>3. CASE BodyAborted
  BY <1>0, <1>3 DEF BodyAborted, Hangup, IsDestroyed, TypeOK, StageFacts, NothingYet
<1>4. CASE Evaluate
  BY <1>0, <1>4 DEF Evaluate, TypeOK, StageFacts, NothingYet
<1>5. CASE RequestDelayElapses
  BY <1>0, <1>5 DEF RequestDelayElapses, TypeOK, StageFacts, NothingYet, Flags
<1>6. CASE Forward
  <2>1. /\ pc = "requestStage" /\ pc' = "sending" /\ reply' = "awaited"
        /\ UNCHANGED <<interest, body, conn, rule, captured, errors, changed, response,
                       recorded, log>>
    BY <1>6 DEF Forward
  <2>2. flags' \in {flags, flags \cup {"modified"}} /\ drafts' \in {drafts, drafts \cup {"forwarded"}}
    BY <1>6 DEF Forward
  <2>3. /\ flags' \subseteq {"modified", "delayed"}
        /\ (changed = "yes" => "modified" \in flags')
        /\ (changed = "halfway" => errors)
    BY <1>0, <2>1, <2>2 DEF NothingYet
  <2>4. flags' \subseteq Flags /\ drafts' \subseteq Drafts
    BY <1>0, <2>2 DEF Flags, Drafts
  <2>5. TypeOK'
    BY <1>0, <2>1, <2>4 DEF TypeOK
  <2> QED BY <1>0, <2>1, <2>3, <2>5 DEF StageFacts
<1>7. CASE ReplyArrives
  BY <1>0, <1>7 DEF ReplyArrives, AfterReply, TypeOK, StageFacts, NothingYet
<1>8. CASE ReplyIsRead
  BY <1>0, <1>8 DEF ReplyIsRead, AfterReply, TypeOK, StageFacts, NothingYet
<1>9. CASE ReplyMatches
  BY <1>0, <1>9 DEF ReplyMatches, TypeOK, StageFacts, NothingYet
<1>10. CASE ReplyDoesNotMatch
  <2>1. errors' \in BOOLEAN
    BY <1>0, <1>10 DEF ReplyDoesNotMatch, TypeOK
  <2>2. ASSUME errors PROVE errors'
    <3>1. errors' \in {TRUE}
      BY <1>0, <1>10, <2>2 DEF ReplyDoesNotMatch, TypeOK
    <3> QED BY <3>1
  <2> QED BY <1>0, <1>10, <2>1, <2>2 DEF ReplyDoesNotMatch, TypeOK, StageFacts, NothingYet
<1>11. CASE ReplyDelayElapses
  BY <1>0, <1>11 DEF ReplyDelayElapses, TypeOK, StageFacts, NothingYet, Flags
<1>12. CASE ReplyAction
  <2>1. CASE LeaveReply
    BY <1>0, <2>1, <1>12 DEF ReplyAction, LeaveReply, TypeOK, StageFacts, NothingYet
  <2>2. CASE ChangeReply
    <3>1. /\ flags' \subseteq Flags /\ flags' \subseteq {"modified", "delayed"}
          /\ "modified" \in flags' /\ changed' = "yes"
      BY <1>0, <2>2, <1>12 DEF ReplyAction, ChangeReply, NothingYet, Flags
    <3> QED BY <1>0, <2>2, <3>1, <1>12 DEF ReplyAction, ChangeReply, TypeOK, StageFacts, NothingYet
  <2>3. CASE pc' = "manipulating"
    BY <1>0, <2>3, <1>12 DEF ReplyAction, LeaveReply, ChangeReply, TypeOK, StageFacts, NothingYet
  <2> QED BY <2>1, <2>2, <2>3, <1>12 DEF ReplyAction
<1>13. CASE Manipulated
  <2>1. CASE LeaveReply
    BY <1>0, <2>1, <1>13 DEF Manipulated, LeaveReply, TypeOK, StageFacts, NothingYet
  <2>2. CASE ChangeReply
    <3>1. /\ flags' \subseteq Flags /\ flags' \subseteq {"modified", "delayed"}
          /\ "modified" \in flags' /\ changed' = "yes"
      BY <1>0, <2>2, <1>13 DEF Manipulated, ChangeReply, NothingYet, Flags
    <3> QED BY <1>0, <2>2, <3>1, <1>13 DEF Manipulated, ChangeReply, TypeOK, StageFacts, NothingYet
  <2>3. CASE PatchFails
    BY <1>0, <2>3, <1>13 DEF Manipulated, PatchFails, TypeOK, StageFacts, NothingYet
  <2> QED BY <2>1, <2>2, <2>3, <1>13 DEF Manipulated
<1> QED BY <1>1, <1>2, <1>3, <1>4, <1>5, <1>6, <1>7, <1>8, <1>9, <1>10, <1>11, <1>12, <1>13

----------------------------------------------------------------------------
(* An exit by an answer: what the outcome says of it must hold if it arrives. *)
LEMMA LeavingWithAnswer ==
  ASSUME ExchangeInv, pc \in Running, body # "unread", pc' = "done",
         NEW what \in Responses,
         NEW f \in SUBSET (Flags \ {"client_aborted"}), NEW e \in BOOLEAN, NEW d \in SUBSET Drafts,
         Respond(what), WriteLog(f, e, d, conn'),
         UNCHANGED <<interest, body, rule, captured, changed>>, reply' \in Replies,
         NEW outcome, outcome = Outcome(f, e), response' = what => AnswerFits(outcome)'
  PROVE  ExchangeInv'
<1>1. /\ conn' \in {"open", "left", "closed"}
      /\ \/ conn' # "open" /\ response' = Nil
         \/ conn' = "open" /\ response' = what
  BY Answering DEF ExchangeInv, NothingYet
<1>2. CASE conn' # "open" /\ response' = Nil
  <2>1. "client_aborted" = Outcome(IF IsDestroyed(conn') THEN f \cup {"client_aborted"} ELSE f, e)
    BY <1>2 DEF IsDestroyed, Outcome
  <2>2. AnswerFits("client_aborted")' /\ NobodyLeftWaiting'
    BY <1>2 DEF AnswerFits, NobodyLeftWaiting
  <2> QED BY <1>1, <1>2, <2>1, <2>2, Leaving, f \in SUBSET Flags
<1>3. CASE conn' = "open" /\ response' = what
  <2>1. outcome = Outcome(IF IsDestroyed(conn') THEN f \cup {"client_aborted"} ELSE f, e)
    BY <1>3 DEF IsDestroyed
  <2>2. NobodyLeftWaiting'
    BY <1>3, NilConstant DEF NobodyLeftWaiting
  <2> QED BY <1>1, <1>3, <2>1, <2>2, Leaving, f \in SUBSET Flags
<1> QED BY <1>1, <1>2, <1>3

(* An exit without one, after a fault that holds or breaks the connection. *)
LEMMA LeavingUnanswered ==
  ASSUME ExchangeInv, pc \in Running, body # "unread", pc' \in {"faultSleep", "done"},
         NEW d \in SUBSET Drafts,
         WriteLog(flags \cup {"fault"}, errors, d, conn),
         UNCHANGED <<interest, body, rule, captured, changed, response>>,
         conn' \in {"open", "left", "closed"}, reply' \in Replies,
         AppliedFault' \in {"connection", "timeout", "hang"},
         NobodyLeftWaiting'
  PROVE  ExchangeInv'
<1>1. flags \cup {"fault"} \in SUBSET Flags /\ errors \in BOOLEAN
  BY DEF ExchangeInv, TypeOK, Flags
<1>2. response' = Nil
  BY DEF ExchangeInv, NothingYet
<1>3. CASE IsDestroyed(conn)
  <2>1. "client_aborted" = Outcome((flags \cup {"fault"}) \cup {"client_aborted"}, errors)
    BY DEF Outcome
  <2>2. AnswerFits("client_aborted")'
    BY <1>2 DEF AnswerFits
  <2> QED BY <1>1, <1>2, <1>3, <2>1, <2>2, Leaving
<1>4. CASE ~IsDestroyed(conn)
  <2>1. "fault" = Outcome(flags \cup {"fault"}, errors)
    BY DEF Outcome, ExchangeInv, NothingYet
  <2>2. AnswerFits("fault")'
    BY <1>2 DEF AnswerFits
  <2> QED BY <1>1, <1>2, <1>4, <2>1, <2>2, Leaving
<1> QED BY <1>3, <1>4

(* Faults, in either stage. *)
LEMMA FaultExits ==
  ASSUME ExchangeInv, pc \in Running, body # "unread", rule # Nil,
         NEW kind \in Faults, NEW d \in SUBSET Drafts, ExecuteFault(kind, d),
         UNCHANGED <<interest, body, rule, captured, changed>>,
         reply' \in Replies, AppliedFault' = kind
  PROVE  ExchangeInv'
<1>0. /\ flags \subseteq {"modified", "delayed"} /\ response = Nil
      /\ flags \cup {"fault"} \in SUBSET (Flags \ {"client_aborted"})
      /\ errors \in BOOLEAN /\ conn \in {"open", "left", "closed"}
  BY DEF ExchangeInv, TypeOK, NothingYet, Flags
<1>1. CASE kind = "http_response" /\ AnswerWithFault(d)
  <2>1. Respond("fault") /\ WriteLog(flags \cup {"fault"}, errors, d, conn') /\ pc' = "done"
    BY <1>1 DEF AnswerWithFault
  <2>2. Outcome(flags \cup {"fault"}, errors) = "fault"
    BY <1>0 DEF Outcome
  <2>3. response' = "fault" => AnswerFits("fault")'
    BY <1>1 DEF AnswerFits
  <2>4. "fault" \in Responses
    BY DEF Responses
  <2> QED BY <1>0, <2>1, <2>2, <2>3, <2>4, LeavingWithAnswer
<1>2. CASE kind = "connection" /\ BreakConnection(d)
  <2>1. /\ WriteLog(flags \cup {"fault"}, errors, d, conn)
        /\ pc' = "done" /\ response' = response
        /\ conn' \in {"left", "closed"}
    BY <1>0, <1>2 DEF BreakConnection, Hangup, IsDestroyed
  <2>2. NobodyLeftWaiting'
    BY <2>1 DEF NobodyLeftWaiting
  <2> QED BY <1>2, <2>1, <2>2, LeavingUnanswered
<1>3. CASE kind \in {"timeout", "hang"} /\ HoldConnection(kind, d)
  <2>1. /\ WriteLog(flags \cup {"fault"}, errors, d, conn)
        /\ pc' = IF kind = "timeout" THEN "faultSleep" ELSE "done"
        /\ UNCHANGED <<conn, response>>
    BY <1>3 DEF HoldConnection
  <2>2. NobodyLeftWaiting'
    BY <1>3, <2>1 DEF NobodyLeftWaiting
  <2> QED BY <1>0, <1>3, <2>1, <2>2, LeavingUnanswered
<1> QED BY <1>1, <1>2, <1>3 DEF ExecuteFault

(* The catch block. *)
LEMMA FailExits ==
  ASSUME ExchangeInv, pc \in Running, body # "unread", Fail,
         UNCHANGED <<interest, body, rule, captured, changed, reply>>
  PROVE  ExchangeInv'
<1>0. /\ flags \subseteq {"modified", "delayed"} /\ response = Nil
      /\ flags \in SUBSET (Flags \ {"client_aborted"}) /\ drafts \in SUBSET Drafts
      /\ errors \in BOOLEAN /\ conn \in {"open", "left", "closed"}
      /\ reply \in Replies
  BY DEF ExchangeInv, TypeOK, NothingYet, Flags
<1>1. CASE /\ IsDestroyed(conn)
           /\ WriteLog(flags \cup {"client_aborted"}, errors, drafts, conn)
           /\ UNCHANGED <<conn, response>>
  <2>1. pc' = "done"
    BY DEF Fail
  <2>2. "client_aborted" = Outcome((flags \cup {"client_aborted"}) \cup {"client_aborted"}, errors)
    BY DEF Outcome
  <2>3. AnswerFits("client_aborted")' /\ NobodyLeftWaiting'
    BY <1>0, <1>1 DEF AnswerFits, NobodyLeftWaiting, IsDestroyed
  <2>4. flags \cup {"client_aborted"} \in SUBSET Flags
    BY <1>0 DEF Flags
  <2> QED BY <1>0, <1>1, <2>1, <2>2, <2>3, <2>4, Leaving
<1>2. CASE Respond("internal_error") /\ WriteLog(flags, TRUE, drafts, conn')
  <2>1. pc' = "done"
    BY DEF Fail
  <2>2. PICK outcome \in {"modified", "delayed", "rule_error"} : outcome = Outcome(flags, TRUE)
    BY <1>0 DEF Outcome
  <2>3. response' = "internal_error" => AnswerFits(outcome)'
    BY DEF AnswerFits
  <2>4. "internal_error" \in Responses
    BY DEF Responses
  <2> QED BY <1>0, <1>2, <2>1, <2>2, <2>3, <2>4, LeavingWithAnswer
<1> QED BY <1>1, <1>2 DEF Fail

(* A refused exchange leaves without a record. *)
LEMMA Refusing ==
  ASSUME ExchangeInv, pc \in {"start", "readingBody"}, TooLarge,
         UNCHANGED <<interest, evaluation, trace, changed, reply>>
  PROVE  ExchangeInv'
<1>1. /\ body = "unread" /\ recorded = 0 /\ log = <<>> /\ response = Nil
      /\ rule = Nil /\ ~captured /\ ~errors /\ TypeOK /\ "too_large" \in Responses
  BY DEF ExchangeInv, NothingYet, StageFacts, Running, Stages, BeforeRules, Responses
<1>2. /\ conn' \in {"open", "left", "closed"}
      /\ \/ conn' # "open" /\ response' = Nil
         \/ conn' = "open" /\ response' = "too_large"
      /\ pc' = "done" /\ body' = body
      /\ UNCHANGED <<interest, rule, captured, errors, flags, drafts, recorded, log, changed, reply>>
  <2>1. Respond("too_large") /\ pc' = "done" /\ body' = body
    BY DEF TooLarge
  <2>2. UNCHANGED <<interest, rule, captured, errors, flags, drafts, recorded, log, changed, reply>>
    BY DEF evaluation, trace
  <2> QED BY <1>1, <2>1, <2>2, Answering
<1>3. TypeOK'
  BY <1>1, <1>2 DEF TypeOK, Stages
<1>4. NothingYet' /\ StageFacts' /\ Decided'
  BY <1>1, <1>2 DEF NothingYet, StageFacts, Decided, Matched, Running, BeforeRules, RuleStages
<1>5. LogTellsWhatClientGot' /\ NobodyLeftWaiting'
  BY <1>1, <1>2, NilConstant DEF LogTellsWhatClientGot, NobodyLeftWaiting
<1> QED BY <1>3, <1>4, <1>5 DEF ExchangeInv

LEMMA BeginPreserves ==
  ASSUME ExchangeInv, Begin \/ BodyOverflows
  PROVE  ExchangeInv'
<1>1. /\ pc \in {"start", "readingBody"}
      /\ UNCHANGED <<interest, evaluation, trace, changed, reply>>
  BY DEF Begin, BodyOverflows
<1>2. CASE TooLarge
  BY <1>1, <1>2, Refusing
<1>3. CASE \/ Stream
           \/ pc' = "readingBody" /\ pc = "start" /\ UNCHANGED <<body, conn, response>>
  <2>1. /\ pc' \in {"readingBody", "evaluating"} /\ body' \in {body, "streamed"}
        /\ pc' = "readingBody" => body' = body /\ pc = "start"
        /\ pc' = "evaluating" => body' = "streamed"
        /\ UNCHANGED <<conn, response>>
    BY <1>3 DEF Stream
  <2>2. TypeOK'
    BY <1>1, <2>1 DEF ExchangeInv, TypeOK, Stages, Bodies, evaluation, trace
  <2>3. StageFacts'
    BY <1>1, <2>1 DEF ExchangeInv, StageFacts, evaluation, trace, Running, Stages,
                      BeforeRules, BeforeForward, RuleStages
  <2>4. /\ pc \in Running /\ pc' \in Running
        /\ flags' \subseteq {"modified", "delayed"} /\ (changed' = "yes" => "modified" \in flags')
        /\ changed' = "halfway" => errors'
        /\ UNCHANGED <<recorded, log, response>>
    BY <1>1, <2>1 DEF ExchangeInv, NothingYet, trace, Running, Stages
  <2> QED BY <2>2, <2>3, <2>4, GoingOn
<1> QED BY <1>2, <1>3 DEF Begin, BodyOverflows

LEMMA EvaluateAbortedPreserves ==
  ASSUME ExchangeInv, EvaluateAborted
  PROVE  ExchangeInv'
<1>1. /\ pc = "evaluatingAborted" /\ pc' = "done" /\ recorded' = recorded + 1
      /\ UNCHANGED <<interest, body, conn, flags, drafts, changed, reply, response>>
  BY DEF EvaluateAborted
<1>2. /\ recorded = 0 /\ log = <<>> /\ response = Nil /\ body # "unread" /\ conn # "open"
      /\ TypeOK
  BY <1>1 DEF ExchangeInv, NothingYet, StageFacts, Running, Stages
<1> DEFINE entry == [outcome |-> "client_aborted", reason |-> "client_aborted", drafts |-> {}]
<1>3. entry \in Entry /\ entry.outcome = "client_aborted"
  BY DEF Entry, Outcomes, Flags, Reasons
<1>4. PICK r \in Rules \cup {Nil}, captures, failures \in BOOLEAN :
        /\ rule' = r /\ captured' = captures /\ errors' = failures
        /\ log' = IF r # Nil \/ captures \/ failures THEN Append(log, entry) ELSE log
  BY DEF EvaluateAborted
<1>5. /\ log' = <<>> \/ log' = <<entry>>
      /\ (Matched \/ errors)' => log' = <<entry>>
  <2>1. Append(<<>>, entry) = <<entry>>
    OBVIOUS
  <2> QED BY <1>2, <1>4, <2>1 DEF Matched
<1>6. TypeOK'
  <2>1. <<>> \in Seq(Entry) /\ <<entry>> \in Seq(Entry)
    BY <1>3
  <2> QED BY <1>1, <1>2, <1>4, <1>5, <2>1 DEF TypeOK, Stages
<1>7. NothingYet' /\ StageFacts'
  BY <1>1, <1>2 DEF NothingYet, StageFacts, Running, BeforeRules, RuleStages
<1>8. Decided'
  <2>1. <<entry>> # <<>>
    OBVIOUS
  <2> HIDE DEF entry
  <2> QED BY <1>1, <1>2, <1>3, <1>5, <2>1 DEF Decided
<1>9. LogTellsWhatClientGot'
  <2>1. \A i \in 1 .. Len(log') : log'[i].outcome = "client_aborted"
    BY <1>3, <1>5
  <2> QED BY <1>1, <1>2, <2>1 DEF LogTellsWhatClientGot, AnswerFits
<1>10. NobodyLeftWaiting'
  BY <1>1, <1>2 DEF NobodyLeftWaiting
<1> QED BY <1>6, <1>7, <1>8, <1>9, <1>10 DEF ExchangeInv

----------------------------------------------------------------------------
(* What the exits have in common: they are taken once, with an unused trace. *)
LEMMA BeforeExit ==
  ASSUME ExchangeInv,
         pc \in {"requestStage", "sending", "readingReply", "replyStage", "deliver"}
  PROVE  /\ pc \in Running /\ body # "unread"
         /\ flags \subseteq {"modified", "delayed"} /\ (changed = "yes" => "modified" \in flags)
         /\ (changed = "halfway" => errors) /\ changed \in {"no", "yes", "halfway"}
         /\ errors \in BOOLEAN /\ drafts \in SUBSET Drafts /\ drafts \cup {"upstream"} \in SUBSET Drafts
         /\ reply \in Replies /\ (reply = "none" <=> pc = "requestStage")
         /\ (pc = "replyStage" => rule # Nil)
  BY DEF ExchangeInv, TypeOK, NothingYet, StageFacts, Running, Stages, BeforeRules,
         BeforeForward, RuleStages, Drafts

LEMMA MockPreserves ==
  ASSUME ExchangeInv, Mock
  PROVE  ExchangeInv'
<1>1. /\ pc = "requestStage" /\ pc' = "done" /\ Respond("mock")
      /\ WriteLog(flags \cup {"mock"}, errors, drafts, conn')
      /\ UNCHANGED <<interest, body, rule, captured, changed, reply>>
  BY DEF Mock, evaluation
<1>2. flags \cup {"mock"} \in SUBSET (Flags \ {"client_aborted"}) /\ "mock" \in Responses
  BY <1>1, BeforeExit DEF Flags, Responses
<1>3. "mock" = Outcome(flags \cup {"mock"}, errors)
  BY <1>1, BeforeExit DEF Outcome
<1>4. response' = "mock" => AnswerFits("mock")'
  BY DEF AnswerFits
<1> QED BY <1>1, <1>2, <1>3, <1>4, BeforeExit, LeavingWithAnswer

LEMMA FaultPreserves ==
  ASSUME ExchangeInv, RequestFault \/ ReplyFault
  PROVE  ExchangeInv'
<1>1. CASE RequestFault
  <2>1. PICK kind \in Faults : ActionIs(kind) /\ ExecuteFault(kind, drafts)
    BY <1>1 DEF RequestFault
  <2>2. /\ pc = "requestStage"
        /\ UNCHANGED <<interest, body, rule, captured, changed, reply>>
    BY <1>1 DEF RequestFault, evaluation
  <2>3. rule # Nil /\ AppliedFault' = kind
    BY <2>1, <2>2, BeforeExit DEF ActionIs, AppliedFault
  <2> QED BY <2>1, <2>2, <2>3, BeforeExit, FaultExits
<1>2. CASE ReplyFault
  <2>1. /\ pc = "replyStage" /\ rule.replyAction \in Faults
        /\ reply' = IF reply \in Unread THEN "destroyed" ELSE reply
        /\ ExecuteFault(rule.replyAction, drafts \cup {"upstream"})
        /\ UNCHANGED <<interest, body, rule, captured, changed>>
    BY <1>2 DEF ReplyFault, evaluation
  <2>2. reply' \in Replies /\ reply' # "none"
    BY <2>1, BeforeExit DEF Replies, Unread
  <2>3. AppliedFault' = rule.replyAction
    BY <2>1, <2>2 DEF AppliedFault
  <2> QED BY <2>1, <2>2, <2>3, BeforeExit, FaultExits
<1> QED BY <1>1, <1>2

LEMMA UpstreamFailurePreserves ==
  ASSUME ExchangeInv, SendFails \/ ReplyBreaks
  PROVE  ExchangeInv'
<1>1. /\ pc \in {"sending", "readingReply"}
      /\ UNCHANGED <<interest, body, rule, captured, changed>>
  BY DEF SendFails, ReplyBreaks, evaluation
<1>2. PICK status \in {"bad_gateway", "gateway_timeout"} : AnswerFor(status)
  BY DEF SendFails, ReplyBreaks
<1>3. /\ Respond(status) /\ reply' \in Replies /\ pc' = "done" /\ status \in Responses
      /\ WriteLog(flags \cup {"upstream_error"}, errors, drafts \cup {"upstream"}, conn')
  BY <1>2 DEF AnswerFor, Replies, Responses
<1>4. flags \cup {"upstream_error"} \in SUBSET (Flags \ {"client_aborted"})
  BY <1>1, BeforeExit DEF Flags
<1>5. "upstream_error" = Outcome(flags \cup {"upstream_error"}, errors)
  BY <1>1, BeforeExit DEF Outcome
<1>6. response' = status => AnswerFits("upstream_error")'
  BY DEF AnswerFits
<1> QED BY <1>1, <1>3, <1>4, <1>5, <1>6, BeforeExit, LeavingWithAnswer

LEMMA ThrowPreserves ==
  ASSUME ExchangeInv, RewriteThrows \/ ReplaceThrows
  PROVE  ExchangeInv'
<1>1. /\ pc \in {"requestStage", "replyStage"} /\ Fail
      /\ UNCHANGED <<interest, body, rule, captured, changed, reply>>
  BY DEF RewriteThrows, ReplaceThrows, evaluation
<1> QED BY <1>1, BeforeExit, FailExits

LEMMA DeliverPreserves ==
  ASSUME ExchangeInv, Deliver
  PROVE  ExchangeInv'
<1>1. /\ pc = "deliver" /\ pc' = "done" /\ reply' \in Piped
      /\ UNCHANGED <<interest, body, rule, captured, changed>>
  BY DEF Deliver, evaluation
<1>2. PICK what \in {"changed", "original"} :
        what = (IF changed = "no" THEN "original" ELSE "changed") /\ Respond(what)
  BY DEF Deliver
<1>3. PICK d \in SUBSET Drafts : WriteLog(flags, errors, d, conn')
  BY <1>1, BeforeExit DEF Deliver
<1>4. PICK outcome \in {"modified", "delayed", "rule_error", "captured"} :
        outcome = Outcome(flags, errors) /\ (changed = "yes" => outcome = "modified")
        /\ (changed = "halfway" => outcome # "captured")
  BY <1>1, BeforeExit DEF Outcome
<1>5. response' = what => AnswerFits(outcome)'
  BY <1>1, <1>2, <1>4, BeforeExit DEF AnswerFits
<1>6. flags \in SUBSET (Flags \ {"client_aborted"}) /\ what \in Responses
  BY <1>1, BeforeExit DEF Flags, Responses
<1>7. reply' \in Replies
  BY <1>1 DEF Piped, Held, Replies
<1> QED BY <1>1, <1>2, <1>3, <1>4, <1>5, <1>6, <1>7, BeforeExit, LeavingWithAnswer

----------------------------------------------------------------------------
(* The client, the rest of a streamed reply and the end of a fault's sleep     *)
(* change neither the trace nor what was answered.                             *)
LEMMA AfterwardsPreserves ==
  ASSUME ExchangeInv, FaultSleepElapses \/ ClientLeaves \/ PipeEnds \/ PipeBreaks \/ UNCHANGED vars
  PROVE  ExchangeInv'
<1>1. /\ UNCHANGED <<interest, body, rule, captured, errors, flags, drafts, changed, response,
                     recorded, log>>
      /\ conn' \in {conn, "left", "closed"}
      /\ reply' \in {reply, "open", "destroyed", "read", "failed"}
      /\ reply = "none" <=> reply' = "none"
      /\ pc' = pc \/ (pc = "faultSleep" /\ pc' = "done" /\ conn' # "open")
  <2>1. CASE FaultSleepElapses
    BY <2>1 DEF FaultSleepElapses, evaluation, trace, Hangup, IsDestroyed
  <2>2. CASE ClientLeaves
    BY <2>2 DEF ClientLeaves, Flowing, Held, evaluation, trace
  <2>3. CASE PipeEnds
    BY <2>3 DEF PipeEnds, Flowing, evaluation, trace
  <2>4. CASE PipeBreaks
    BY <2>4 DEF PipeBreaks, Flowing, evaluation, trace
  <2>5. CASE UNCHANGED vars
    BY <2>5 DEF vars
  <2> QED BY <2>1, <2>2, <2>3, <2>4, <2>5
<1>2. TypeOK'
  BY <1>1 DEF ExchangeInv, TypeOK, Stages, Replies
<1>3. NothingYet' /\ StageFacts'
  BY <1>1 DEF ExchangeInv, NothingYet, StageFacts, Running, BeforeRules, BeforeForward,
              RuleStages, Stages
<1>4. Decided'
  <2>1. pc' \in {"faultSleep", "done"} => pc \in {"faultSleep", "done"}
    BY <1>1
  <2> QED BY <1>1, <2>1 DEF ExchangeInv, Decided, Matched
<1>5. LogTellsWhatClientGot'
  BY <1>1 DEF ExchangeInv, LogTellsWhatClientGot, AnswerFits, AppliedFault
<1>6. NobodyLeftWaiting'
  BY <1>1 DEF ExchangeInv, NobodyLeftWaiting, AppliedFault
<1> QED BY <1>2, <1>3, <1>4, <1>5, <1>6 DEF ExchangeInv

LEMMA NextPreserves == ExchangeInv /\ [Next]_vars => ExchangeInv'
<1> SUFFICES ASSUME ExchangeInv, [Next]_vars PROVE ExchangeInv'
  OBVIOUS
<1>1. CASE \/ BodyComplete \/ BodyShort \/ BodyAborted \/ Evaluate \/ RequestDelayElapses
           \/ Forward \/ ReplyArrives \/ ReplyIsRead \/ ReplyMatches
           \/ ReplyDoesNotMatch \/ ReplyDelayElapses \/ ReplyAction \/ Manipulated
  BY <1>1, GoingOnSteps
<1>2. CASE Begin \/ BodyOverflows
  BY <1>2, BeginPreserves
<1>3. CASE EvaluateAborted
  BY <1>3, EvaluateAbortedPreserves
<1>4. CASE Mock
  BY <1>4, MockPreserves
<1>5. CASE RequestFault \/ ReplyFault
  BY <1>5, FaultPreserves
<1>6. CASE SendFails \/ ReplyBreaks
  BY <1>6, UpstreamFailurePreserves
<1>7. CASE RewriteThrows \/ ReplaceThrows
  BY <1>7, ThrowPreserves
<1>8. CASE Deliver
  BY <1>8, DeliverPreserves
<1>9. CASE FaultSleepElapses \/ ClientLeaves \/ PipeEnds \/ PipeBreaks \/ UNCHANGED vars
  BY <1>9, AfterwardsPreserves
<1> QED BY <1>1, <1>2, <1>3, <1>4, <1>5, <1>6, <1>7, <1>8, <1>9 DEF Next, HandlerStep, PeerStep

(* The invariant of handleHttpExchange holds, whatever the rules are. *)
THEOREM ExchangeInvariant == Spec => []ExchangeInv
<1>1. Init => ExchangeInv
  BY InitHolds
<1>2. ExchangeInv /\ [Next]_vars => ExchangeInv'
  BY NextPreserves
<1> QED BY <1>1, <1>2, PTL DEF Spec

(* The variables keep their types. *)
THEOREM ExchangeTypesCorrect == Spec => []TypeOK
<1>1. ExchangeInv => TypeOK
  BY DEF ExchangeInv
<1> QED BY <1>1, ExchangeInvariant, PTL

(* Every exit of handleHttpExchange but the 413 counts the exchange, and none *)
(* counts or logs it a second time.                                           *)
THEOREM ExchangeRecordedOnce == Spec => []RecordedOnce
<1>1. ExchangeInv => RecordedOnce
  <2> SUFFICES ASSUME ExchangeInv PROVE RecordedOnce
    OBVIOUS
  <2>1. CASE pc \in Running
    BY <2>1 DEF ExchangeInv, NothingYet, RecordedOnce, Running
  <2>2. CASE pc \in {"faultSleep", "done"}
    <3>1. \A entry \in Entry : Len(<<entry>>) = 1
      OBVIOUS
    <3>2. CASE body = "unread"
      <4>1. recorded = 0 /\ Len(log) = 0 /\ pc = "done"
        BY <2>2, <3>2 DEF ExchangeInv, Decided
      <4> QED BY <3>2, <4>1 DEF RecordedOnce, Refused
    <3>3. CASE body # "unread"
      <4>1. recorded = 1 /\ Len(log) \in 0 .. 1
        BY <2>2, <3>1, <3>3 DEF ExchangeInv, Decided
      <4>2. recorded <= 1 /\ Len(log) <= recorded
        <5> DEFINE n == Len(log)
        <5>1. n \in 0 .. 1 /\ recorded = 1
          BY <4>1
        <5> HIDE DEF n
        <5>2. recorded <= 1 /\ n <= recorded
          BY <5>1
        <5> QED BY <5>2 DEF n
      <4>3. ~Refused
        BY <3>3 DEF Refused
      <4> QED BY <4>1, <4>2, <4>3 DEF RecordedOnce
    <3> QED BY <3>2, <3>3
  <2> QED BY <2>1, <2>2 DEF ExchangeInv, TypeOK, Running
<1> QED BY <1>1, ExchangeInvariant, PTL

(* An exchange some rule was applied to, or failed on, is logged in the end. *)
THEOREM AppliedRulesAreLogged == Spec => []AppliedRuleIsLogged
<1>1. ExchangeInv => AppliedRuleIsLogged
  <2>1. \A entry \in Entry : Len(<<entry>>) = 1
    OBVIOUS
  <2> QED BY <2>1 DEF ExchangeInv, Decided, AppliedRuleIsLogged
<1> QED BY <1>1, ExchangeInvariant, PTL

(* The outcome of an entry is what the client met with. *)
THEOREM LogIsTruthful == Spec => []LogTellsWhatClientGot
<1>1. ExchangeInv => LogTellsWhatClientGot
  BY DEF ExchangeInv
<1> QED BY <1>1, ExchangeInvariant, PTL

(* The handler never ends on a client that has neither an answer nor a closed *)
(* connection, unless a hang fault wants that.                                *)
THEOREM ClientIsServed == Spec => []NobodyLeftWaiting
<1>1. ExchangeInv => NobodyLeftWaiting
  BY DEF ExchangeInv
<1> QED BY <1>1, ExchangeInvariant, PTL

----------------------------------------------------------------------------
(* Once it has taken its exit, an exchange leaves its trace alone. *)
LEMMA TraceIsFinal ==
  ASSUME ExchangeInv, [Next]_vars, pc \in {"faultSleep", "done"}
  PROVE  UNCHANGED <<body, recorded, log>> /\ pc' \in {pc, "done"}
<1>1. FaultSleepElapses \/ ClientLeaves \/ PipeEnds \/ PipeBreaks \/ UNCHANGED vars
  BY DEF Next, HandlerStep, PeerStep, Begin, BodyAborted, Evaluate, EvaluateAborted,
         RequestDelayElapses, Mock, RequestFault, Forward, RewriteThrows, SendFails,
         ReplyArrives, ReplyMatches, ReplyDoesNotMatch, ReplyDelayElapses, ReplyFault,
         ReplyAction, ReplaceThrows, Manipulated, Deliver, BodyComplete, BodyOverflows,
         BodyShort, ReplyIsRead, ReplyBreaks
<1> QED BY <1>1 DEF FaultSleepElapses, ClientLeaves, PipeEnds, PipeBreaks, vars, trace

(* Each step of an exchange rejects it, records it, or leaves its trace alone. *)
LEMMA TraceStep ==
  ASSUME ExchangeInv, ExchangeInv', [Next]_vars
  PROVE  [Trace!TraceNext]_(Trace!traceVars)
<1> USE DEF Trace!traceVars, Trace!TraceNext, Trace!Undecided, Refused
<1>1. CASE pc \in {"faultSleep", "done"}
  <2>1. Refused' = Refused
    BY <1>1, TraceIsFinal DEF ExchangeInv, Decided
  <2> QED BY <1>1, <2>1, TraceIsFinal
<1>2. CASE pc \in Running
  <2>1. recorded = 0 /\ log = <<>> /\ Refused = FALSE
    BY <1>2 DEF ExchangeInv, NothingYet, Running
  <2>2. CASE pc' \in Running
    BY <2>1, <2>2 DEF ExchangeInv, NothingYet, Running
  <2>3. CASE pc' \in {"faultSleep", "done"} /\ body' = "unread"
    <3>1. recorded' = 0 /\ log' = <<>> /\ Refused' = TRUE
      BY <2>3 DEF ExchangeInv, Decided
    <3> QED BY <2>1, <3>1 DEF Trace!Reject
  <2>4. CASE pc' \in {"faultSleep", "done"} /\ body' # "unread"
    <3>1. /\ recorded' = 1 /\ Refused' = FALSE
          /\ log' = <<>> \/ \E entry \in Entry : log' = <<entry>>
      BY <2>4 DEF ExchangeInv, Decided
    <3> QED BY <2>1, <3>1 DEF Trace!RecordPassthrough, Trace!RecordAndLog
  <2> QED BY <2>2, <2>3, <2>4 DEF ExchangeInv, TypeOK, Running
<1> QED BY <1>1, <1>2 DEF ExchangeInv, TypeOK, Running

(* handleHttpExchange implements the trace that ExchangeLog promises. *)
THEOREM ExchangeImplementsTrace == Spec => TraceSpec
<1>1. Init => Trace!TraceInit
  BY DEF Init, Trace!TraceInit, Refused
<1>2. ExchangeInv /\ ExchangeInv' /\ [Next]_vars => [Trace!TraceNext]_(Trace!traceVars)
  BY TraceStep
<1> QED BY <1>1, <1>2, ExchangeInvariant, PTL DEF Spec, TraceSpec, Trace!TraceSpec

----------------------------------------------------------------------------
(* Why an entry says what it says, and that changes can be traced.  Until its  *)
(* exit, what makes an exchange "modified" is there to be seen.                *)
Sources ==
  pc \in Running =>
    /\ "modified" \in flags => changed = "yes" \/ "forwarded" \in drafts
    /\ changed # "no" => pc = "deliver"

(* A body that is not whole goes no further, and rules are found once it is    *)
(* known what became of it.                                                    *)
BodyIsSettled ==
  /\ body \in {"short", "aborted"} =>
       pc \in {"evaluatingAborted", "done"} /\ reply = "none"
  /\ rule # Nil /\ rule.needsBody => body = "buffered"

TellInv == Sources /\ LogSaysWhy /\ ChangesAreTraceable

(* What an exit knows of the entry it writes: flags f, drafts d, connection c. *)
EntryIsSound(f, e, d, c) ==
  /\ "upstream_error" \in f => reply' = "failed"
  /\ "client_aborted" \in f \/ IsDestroyed(c) => conn' # "open"
  /\ "modified" \in f => d # {}
  /\ response' = "changed" => changed' = "halfway" \/ "upstream" \in d
  /\ response' = "fault" /\ reply' # "none" => "upstream" \in d

(* A sound entry tells the truth about why it was written. *)
LEMMA SoundEntry ==
  ASSUME ExchangeInv, pc \in Running, pc' \notin Running,
         NEW f \in SUBSET Flags, NEW e \in BOOLEAN, NEW d \in SUBSET Drafts, NEW c,
         WriteLog(f, e, d, c), UNCHANGED <<rule, captured>>, EntryIsSound(f, e, d, c)
  PROVE  TellInv'
<1> DEFINE all == IF IsDestroyed(c) THEN f \cup {"client_aborted"} ELSE f
           outcome == Outcome(all, e)
           reason == Reason(outcome, e, rule # Nil, captured)
           entry == [outcome |-> outcome, reason |-> reason, drafts |-> d]
<1>1. /\ log = <<>> /\ errors' = e /\ captured \in BOOLEAN
      /\ log' = IF ShouldLog(all, e) THEN Append(log, entry) ELSE log
  BY DEF ExchangeInv, NothingYet, TypeOK, WriteLog
<1>2. CASE ~ShouldLog(all, e)
  <2>1. log' = <<>>
    BY <1>1, <1>2
  <2> QED BY <2>1 DEF TellInv, Sources, LogSaysWhy, ChangesAreTraceable
<1>3. CASE ShouldLog(all, e)
  <2>1. /\ log' = <<entry>> /\ Len(log') = 1 /\ log'[1] = entry
        /\ entry.outcome = outcome /\ entry.reason = reason /\ entry.drafts = d
    BY <1>1, <1>3
  <2>2. /\ "upstream_error" \in all <=> "upstream_error" \in f
        /\ "modified" \in all <=> "modified" \in f
        /\ "client_aborted" \in all => conn' # "open"
    BY DEF EntryIsSound
  <2>3. /\ outcome = "client_aborted" <=> "client_aborted" \in all
        /\ outcome = "upstream_error" => "upstream_error" \in all
        /\ "upstream_error" \in all => outcome \in {"client_aborted", "upstream_error"}
        /\ outcome = "modified" => "modified" \in all
    BY DEF Outcome
  <2>4. /\ reason = "matched_rule" => rule # Nil
        /\ reason = "rule_error" => e /\ ~Matched
        /\ reason = "upstream_error" => outcome = "upstream_error" /\ ~Matched
        /\ reason = "client_aborted" => outcome = "client_aborted"
    BY DEF Reason, Matched
  <2>5. reason = "capture_rule" => captured /\ rule = Nil
    BY <1>1, <1>3, <2>3 DEF Reason, Matched, ShouldLog
  <2> HIDE DEF all, outcome, reason, entry
  <2>6. Sources'
    BY DEF Sources
  <2>7. LogSaysWhy'
    <3> SUFFICES ASSUME NEW i \in 1 .. Len(log')
                 PROVE  LET why == log'[i].reason
                        IN  /\ why = "matched_rule" => rule' # Nil
                            /\ why = "capture_rule" => captured' /\ rule' = Nil
                            /\ why = "rule_error" => errors' /\ ~Matched'
                            /\ why = "upstream_error" => reply' = "failed" /\ ~Matched'
                            /\ why = "client_aborted" => conn' # "open"
      BY DEF LogSaysWhy
    <3>1. log'[i].reason = reason
      BY <2>1
    <3>2. Matched' <=> Matched
      BY DEF Matched
    <3> QED BY <1>1, <2>2, <2>3, <2>4, <2>5, <3>1, <3>2 DEF EntryIsSound
  <2>8. ChangesAreTraceable'
    <3> SUFFICES ASSUME NEW i \in 1 .. Len(log')
                 PROVE  /\ log'[i].outcome = "modified" => log'[i].drafts # {}
                        /\ response' = "changed" =>
                             changed' = "halfway" \/ "upstream" \in log'[i].drafts
                        /\ response' = "fault" /\ reply' # "none" =>
                             "upstream" \in log'[i].drafts
      BY DEF ChangesAreTraceable
    <3>1. log'[i].outcome = outcome /\ log'[i].drafts = d
      BY <2>1
    <3> QED BY <2>2, <2>3, <3>1 DEF EntryIsSound
  <2> QED BY <2>6, <2>7, <2>8 DEF TellInv
<1> QED BY <1>2, <1>3

(* What an exit that answers adds: a destroyed connection is no open one. *)
LEMMA AnsweredExit ==
  ASSUME ExchangeInv, pc \in Running, NEW what \in Responses, Respond(what)
  PROVE  /\ response' \in {Nil, what}
         /\ IsDestroyed(conn') => conn' # "open"
<1>1. response = Nil /\ TypeOK
  BY DEF ExchangeInv, NothingYet
<1> QED BY <1>1, Answering DEF IsDestroyed

(* Faults, in either stage. *)
LEMMA FaultIsSound ==
  ASSUME ExchangeInv, TellInv, pc \in {"requestStage", "replyStage"},
         NEW kind \in Faults, NEW d \in SUBSET Drafts, ExecuteFault(kind, d),
         UNCHANGED <<rule, captured, changed>>,
         drafts \subseteq d, reply' # "none" => "upstream" \in d
  PROVE  TellInv'
<1>0. /\ pc \in Running /\ flags \subseteq {"modified", "delayed"} /\ errors \in BOOLEAN
      /\ flags \cup {"fault"} \in SUBSET Flags /\ response = Nil
      /\ "modified" \in flags => d # {}
  BY BeforeExit DEF Flags, ExchangeInv, NothingYet, TellInv, Sources, Running, Stages
<1>1. pc' \in {"faultSleep", "done"}
  BY DEF ExecuteFault, AnswerWithFault, BreakConnection, HoldConnection
<1>2. CASE AnswerWithFault(d)
  <2>1. /\ WriteLog(flags \cup {"fault"}, errors, d, conn')
        /\ Respond("fault") /\ "fault" \in Responses
    BY <1>2 DEF AnswerWithFault, Responses
  <2>2. response' \in {Nil, "fault"} /\ (IsDestroyed(conn') => conn' # "open")
    BY <1>0, <2>1, AnsweredExit
  <2>3. EntryIsSound(flags \cup {"fault"}, errors, d, conn')
    BY <1>0, <2>2, NilConstant DEF EntryIsSound, Responses
  <2> QED BY <1>0, <1>1, <2>1, <2>3, SoundEntry DEF Running
<1>3. CASE BreakConnection(d) \/ HoldConnection(kind, d)
  <2>1. /\ WriteLog(flags \cup {"fault"}, errors, d, conn)
        /\ response' = Nil
        /\ IsDestroyed(conn) => conn' # "open"
    BY <1>0, <1>3 DEF BreakConnection, HoldConnection, Hangup, IsDestroyed
  <2>2. EntryIsSound(flags \cup {"fault"}, errors, d, conn)
    BY <1>0, <2>1, NilConstant DEF EntryIsSound, Responses
  <2> QED BY <1>0, <1>1, <2>1, <2>2, SoundEntry DEF Running
<1> QED BY <1>2, <1>3 DEF ExecuteFault

(* Every exit but the two that reject or abort the request writes a sound entry. *)
LEMMA ExitsAreSound ==
  ASSUME ExchangeInv, TellInv,
         Mock \/ RequestFault \/ ReplyFault \/ SendFails \/ ReplyBreaks
           \/ RewriteThrows \/ ReplaceThrows \/ Deliver
  PROVE  TellInv'
<1>0. pc \in {"requestStage", "sending", "readingReply", "replyStage", "deliver"}
  BY DEF Mock, RequestFault, ReplyFault, SendFails, ReplyBreaks, RewriteThrows,
         ReplaceThrows, Deliver
<1>1. /\ pc \in Running /\ flags \subseteq {"modified", "delayed"} /\ flags \subseteq Flags
      /\ errors \in BOOLEAN /\ drafts \in SUBSET Drafts
      /\ drafts \cup {"upstream"} \in SUBSET Drafts /\ response = Nil
      /\ changed \in {"no", "yes", "halfway"}
      /\ "modified" \in flags => changed = "yes" \/ "forwarded" \in drafts
      /\ changed # "no" => pc = "deliver"
  BY <1>0, BeforeExit DEF Flags, ExchangeInv, NothingYet, TellInv, Sources
<1>2. CASE Mock
  <2>1. /\ pc' = "done" /\ WriteLog(flags \cup {"mock"}, errors, drafts, conn')
        /\ Respond("mock") /\ "mock" \in Responses /\ UNCHANGED <<rule, captured>>
        /\ pc = "requestStage"
    BY <1>2 DEF Mock, Responses, evaluation
  <2>2. response' \in {Nil, "mock"} /\ (IsDestroyed(conn') => conn' # "open")
    BY <1>1, <2>1, AnsweredExit
  <2>3. EntryIsSound(flags \cup {"mock"}, errors, drafts, conn')
    BY <1>1, <2>1, <2>2, NilConstant DEF EntryIsSound, Responses
  <2>4. flags \cup {"mock"} \in SUBSET Flags
    BY <1>1 DEF Flags
  <2> QED BY <1>1, <2>1, <2>3, <2>4, SoundEntry DEF Running
<1>3. CASE RequestFault
  <2>1. PICK kind \in Faults : ExecuteFault(kind, drafts)
    BY <1>3 DEF RequestFault
  <2>2. /\ pc = "requestStage" /\ reply' = reply
        /\ UNCHANGED <<rule, captured, changed>>
    BY <1>3 DEF RequestFault, evaluation
  <2>3. reply' = "none"
    BY <2>2, BeforeExit
  <2> QED BY <1>1, <2>1, <2>2, <2>3, FaultIsSound
<1>4. CASE ReplyFault
  <2>1. /\ pc = "replyStage" /\ rule.replyAction \in Faults
        /\ ExecuteFault(rule.replyAction, drafts \cup {"upstream"})
        /\ UNCHANGED <<rule, captured, changed>>
    BY <1>4 DEF ReplyFault, evaluation
  <2> QED BY <1>1, <2>1, FaultIsSound
<1>5. CASE SendFails \/ ReplyBreaks
  <2>1. PICK status \in {"bad_gateway", "gateway_timeout"} : AnswerFor(status)
    BY <1>5 DEF SendFails, ReplyBreaks
  <2>2. /\ Respond(status) /\ reply' = "failed" /\ pc' = "done" /\ status \in Responses
        /\ WriteLog(flags \cup {"upstream_error"}, errors, drafts \cup {"upstream"}, conn')
    BY <2>1 DEF AnswerFor, Responses
  <2>3. UNCHANGED <<rule, captured>>
    BY <1>5 DEF SendFails, ReplyBreaks, evaluation
  <2>4. response' \in {Nil, status} /\ (IsDestroyed(conn') => conn' # "open")
    BY <1>1, <2>2, AnsweredExit
  <2>5. EntryIsSound(flags \cup {"upstream_error"}, errors, drafts \cup {"upstream"}, conn')
    BY <1>1, <2>2, <2>4 DEF EntryIsSound
  <2>6. flags \cup {"upstream_error"} \in SUBSET Flags
    BY <1>1 DEF Flags
  <2> QED BY <1>1, <2>2, <2>3, <2>5, <2>6, SoundEntry DEF Running
<1>6. CASE RewriteThrows \/ ReplaceThrows
  <2>1. /\ Fail /\ pc \in {"requestStage", "replyStage"} /\ pc' = "done"
        /\ UNCHANGED <<rule, captured>>
    BY <1>6 DEF RewriteThrows, ReplaceThrows, Fail, evaluation
  <2>2. CASE /\ IsDestroyed(conn)
             /\ WriteLog(flags \cup {"client_aborted"}, errors, drafts, conn)
             /\ UNCHANGED <<conn, response>>
    <3>1. EntryIsSound(flags \cup {"client_aborted"}, errors, drafts, conn)
      BY <1>1, <2>1, <2>2, NilConstant DEF EntryIsSound, IsDestroyed, Responses
    <3>2. flags \cup {"client_aborted"} \in SUBSET Flags
      BY <1>1 DEF Flags
    <3> QED BY <1>1, <2>1, <2>2, <3>1, <3>2, SoundEntry DEF Running
  <2>3. CASE Respond("internal_error") /\ WriteLog(flags, TRUE, drafts, conn')
    <3>1. response' \in {Nil, "internal_error"} /\ (IsDestroyed(conn') => conn' # "open")
      BY <1>1, <2>3, AnsweredExit DEF Responses
    <3>2. EntryIsSound(flags, TRUE, drafts, conn')
      BY <1>1, <2>1, <3>1, NilConstant DEF EntryIsSound, Responses
    <3> QED BY <1>1, <2>1, <2>3, <3>2, SoundEntry DEF Running
  <2> QED BY <2>1, <2>2, <2>3 DEF Fail
<1>7. CASE Deliver
  <2> DEFINE d == IF changed = "yes" THEN drafts \cup {"upstream"} ELSE drafts
  <2>1. PICK what \in {"original", "changed"} :
          what = (IF changed = "no" THEN "original" ELSE "changed") /\ Respond(what)
    BY <1>7 DEF Deliver
  <2>2. /\ WriteLog(flags, errors, d, conn') /\ pc' = "done"
        /\ UNCHANGED <<rule, captured, changed>>
    BY <1>7 DEF Deliver, evaluation
  <2>3. response' \in {Nil, what} /\ (IsDestroyed(conn') => conn' # "open")
    BY <1>1, <2>1, AnsweredExit DEF Responses
  <2>4. EntryIsSound(flags, errors, d, conn')
    BY <1>1, <2>1, <2>2, <2>3, NilConstant DEF EntryIsSound, Responses
  <2>5. d \in SUBSET Drafts
    BY <1>1
  <2> HIDE DEF d
  <2> QED BY <1>1, <2>2, <2>4, <2>5, SoundEntry DEF Running
<1> QED BY <1>2, <1>3, <1>4, <1>5, <1>6, <1>7

(* The steps before an exit write nothing. *)
LEMMA NothingTold ==
  ASSUME ExchangeInv, TellInv,
         \/ BodyComplete \/ BodyShort \/ BodyAborted \/ Evaluate \/ RequestDelayElapses
           \/ Forward \/ ReplyArrives \/ ReplyIsRead \/ ReplyMatches
           \/ ReplyDoesNotMatch \/ ReplyDelayElapses \/ ReplyAction \/ Manipulated
         \/ Begin \/ BodyOverflows
  PROVE  TellInv'
<1>1. log = <<>> /\ log' = log
  BY DEF ExchangeInv, NothingYet, Running, Stages, trace, BodyComplete, BodyShort, BodyAborted,
         Evaluate, RequestDelayElapses, Forward, ReplyArrives, ReplyIsRead, ReplyMatches,
         ReplyDoesNotMatch, ReplyDelayElapses, ReplyAction, LeaveReply, ChangeReply,
         Manipulated, PatchFails, Begin, BodyOverflows
<1>2. LogSaysWhy' /\ ChangesAreTraceable'
  BY <1>1 DEF LogSaysWhy, ChangesAreTraceable
<1>3. Sources'
  <2> USE DEF TellInv, Sources, Running, Stages, trace
  <2>1. CASE BodyComplete \/ BodyShort \/ BodyAborted \/ Evaluate \/ Begin \/ BodyOverflows
    BY <2>1 DEF BodyComplete, BodyShort, BodyAborted, Evaluate, Begin, BodyOverflows,
                Stream, TooLarge
  <2>2. CASE RequestDelayElapses \/ ReplyDelayElapses
    BY <2>2 DEF RequestDelayElapses, ReplyDelayElapses
  <2>3. CASE Forward
    BY <2>3 DEF Forward
  <2>4. CASE ReplyArrives \/ ReplyIsRead
    BY <2>4 DEF ReplyArrives, ReplyIsRead, AfterReply
  <2>5. CASE ReplyMatches \/ ReplyDoesNotMatch
    BY <2>5 DEF ReplyMatches, ReplyDoesNotMatch
  <2>6. CASE ReplyAction
    BY <2>6 DEF ReplyAction, LeaveReply, ChangeReply
  <2>7. CASE Manipulated
    BY <2>7 DEF Manipulated, LeaveReply, ChangeReply, PatchFails
  <2> QED BY <2>1, <2>2, <2>3, <2>4, <2>5, <2>6, <2>7
<1> QED BY <1>2, <1>3 DEF TellInv

(* The entry of an aborted request names the client. *)
LEMMA AbortIsTold ==
  ASSUME ExchangeInv, TellInv, EvaluateAborted
  PROVE  TellInv'
<1>1. /\ pc = "evaluatingAborted" /\ pc' = "done" /\ UNCHANGED <<conn, response>>
      /\ log = <<>> /\ response = Nil /\ conn # "open"
  BY DEF EvaluateAborted, ExchangeInv, NothingYet, StageFacts, Running, Stages
<1> DEFINE entry == [outcome |-> "client_aborted", reason |-> "client_aborted", drafts |-> {}]
<1>2. log' = <<>> \/ log' = <<entry>>
  <2>1. Append(<<>>, entry) = <<entry>>
    OBVIOUS
  <2> QED BY <1>1, <2>1 DEF EvaluateAborted
<1>3. \A i \in 1 .. Len(log') :
        log'[i].outcome = "client_aborted" /\ log'[i].reason = "client_aborted"
  BY <1>2
<1>4. LogSaysWhy'
  BY <1>1, <1>3 DEF LogSaysWhy
<1>5. ChangesAreTraceable'
  BY <1>1, <1>3, NilConstant DEF ChangesAreTraceable, Responses
<1>6. Sources'
  BY <1>1 DEF Sources, Running
<1> QED BY <1>4, <1>5, <1>6 DEF TellInv

(* What happens to the client and the reply later makes no entry untrue. *)
LEMMA StillTold ==
  ASSUME ExchangeInv, TellInv,
         FaultSleepElapses \/ ClientLeaves \/ PipeEnds \/ PipeBreaks \/ UNCHANGED vars
  PROVE  TellInv'
<1>1. /\ UNCHANGED <<rule, captured, errors, flags, drafts, changed, response, log>>
      /\ conn # "open" => conn' # "open"
      /\ reply = "failed" => reply' = "failed"
      /\ reply = "none" => reply' = "none"
      /\ pc' \in Running => pc' = pc
  <2>1. CASE FaultSleepElapses
    BY <2>1 DEF FaultSleepElapses, evaluation, trace, Hangup, IsDestroyed, Running
  <2>2. CASE ClientLeaves
    BY <2>2 DEF ClientLeaves, Flowing, Held, evaluation, trace
  <2>3. CASE PipeEnds \/ PipeBreaks
    BY <2>3 DEF PipeEnds, PipeBreaks, Flowing, evaluation, trace
  <2>4. CASE UNCHANGED vars
    BY <2>4 DEF vars
  <2> QED BY <2>1, <2>2, <2>3, <2>4
<1>2. LogSaysWhy'
  BY <1>1 DEF TellInv, LogSaysWhy, Matched
<1>3. ChangesAreTraceable'
  BY <1>1 DEF TellInv, ChangesAreTraceable
<1>4. Sources'
  BY <1>1 DEF TellInv, Sources
<1> QED BY <1>2, <1>3, <1>4 DEF TellInv

LEMMA TellInvariant == Spec => []TellInv
<1>1. Init => TellInv
  <2>1. Init => Len(log) = 0
    BY DEF Init
  <2> QED BY <2>1 DEF Init, TellInv, Sources, LogSaysWhy, ChangesAreTraceable
<1>2. ExchangeInv /\ TellInv /\ [Next]_vars => TellInv'
  BY ExitsAreSound, NothingTold, AbortIsTold, StillTold DEF Next, HandlerStep, PeerStep
<1> QED BY <1>1, <1>2, ExchangeInvariant, PTL DEF Spec

(* The reason of every entry is one that is there, as far as the exchange      *)
(* itself is concerned: rules, captures, script failures, upstream and client. *)
THEOREM LogGivesTheReason == Spec => []LogSaysWhy
<1>1. TellInv => LogSaysWhy
  BY DEF TellInv
<1> QED BY <1>1, TellInvariant, PTL

(* Whatever was changed on the way, its entry holds what it was changed from   *)
(* or to, but for a patch that failed halfway.                                 *)
THEOREM ChangesLeaveTraces == Spec => []ChangesAreTraceable
<1>1. TellInv => ChangesAreTraceable
  BY DEF TellInv
<1> QED BY <1>1, TellInvariant, PTL

----------------------------------------------------------------------------
LEMMA BodyStaysSettled ==
  ASSUME ExchangeInv, BodyIsSettled, [Next]_vars
  PROVE  BodyIsSettled'
<1> USE DEF BodyIsSettled, evaluation, trace
<1>0. /\ pc \in BeforeRules => rule = Nil
      /\ pc \in {"start", "readingBody"} => body = "unread"
  BY DEF ExchangeInv, StageFacts
<1>1. CASE BodyComplete \/ BodyShort \/ BodyAborted \/ Begin \/ BodyOverflows
  <2>1. /\ rule' = Nil
        /\ body' \in {"short", "aborted"} => pc' = "evaluatingAborted"
        /\ pc \in {"start", "readingBody"} /\ reply' = reply
    BY <1>0, <1>1 DEF BodyComplete, BodyShort, BodyAborted, Begin, BodyOverflows, Stream,
                      TooLarge, BeforeRules
  <2>2. reply = "none"
    BY <2>1 DEF ExchangeInv, StageFacts, Running, Stages, BeforeRules, BeforeForward
  <2> QED BY <2>1, <2>2
<1>2. CASE Evaluate \/ EvaluateAborted
  <2>1. PICK r \in Rules \cup {Nil}, captures, failures \in BOOLEAN :
          MayFind(r, captures, failures) /\ rule' = r
    BY <1>2 DEF Evaluate, EvaluateAborted
  <2>2. UNCHANGED <<body, reply>> /\ (body \in {"short", "aborted"} => pc' = "done")
    BY <1>2 DEF Evaluate, EvaluateAborted
  <2> QED BY <2>1, <2>2 DEF MayFind
<1>3. CASE \/ RequestDelayElapses \/ Mock \/ RequestFault \/ Forward \/ RewriteThrows
           \/ SendFails \/ ReplyArrives \/ ReplyMatches \/ ReplyDoesNotMatch
           \/ ReplyDelayElapses \/ ReplyFault \/ ReplyAction \/ ReplaceThrows
           \/ Manipulated \/ Deliver \/ FaultSleepElapses \/ ReplyIsRead \/ ReplyBreaks
  <2>1. /\ UNCHANGED <<body, rule>>
        /\ pc \notin {"evaluatingAborted", "done"}
    BY <1>3 DEF RequestDelayElapses, Mock, RequestFault, Forward, RewriteThrows, SendFails,
                ReplyArrives, ReplyMatches, ReplyDoesNotMatch, ReplyDelayElapses, ReplyFault,
                ReplyAction, LeaveReply, ChangeReply, ReplaceThrows, Manipulated, PatchFails,
                Deliver, FaultSleepElapses, ReplyIsRead, ReplyBreaks
  <2> QED BY <2>1
<1>4. CASE ClientLeaves \/ PipeEnds \/ PipeBreaks \/ UNCHANGED vars
  BY <1>4 DEF ClientLeaves, PipeEnds, PipeBreaks, Flowing, Held, vars
<1> QED BY <1>1, <1>2, <1>3, <1>4 DEF Next, HandlerStep, PeerStep

(* A request body that broke off never reaches the upstream, and a rule that   *)
(* looks at the body is never applied to anything but a whole, buffered one.   *)
THEOREM OnlyWholeBodiesPass == Spec => []IncompleteNotForwarded
<1>1. Init => BodyIsSettled
  BY DEF Init, BodyIsSettled
<1>2. ExchangeInv /\ BodyIsSettled /\ [Next]_vars => BodyIsSettled'
  BY BodyStaysSettled
<1>3. BodyIsSettled => IncompleteNotForwarded
  BY DEF BodyIsSettled, IncompleteNotForwarded
<1> QED BY <1>1, <1>2, <1>3, ExchangeInvariant, PTL DEF Spec

=============================================================================
