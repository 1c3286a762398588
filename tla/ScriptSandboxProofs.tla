-------------------------- MODULE ScriptSandboxProofs --------------------------
(***************************************************************************)
(* Proofs about the script sandbox, for any number of calls and crashes:   *)
(* answers, timers and jobs never get mixed up.                            *)
(***************************************************************************)
EXTENDS ScriptSandbox, FiniteSetTheorems, TLAPS

JobTypes ==
  /\ nextId \in Nat \ {0}
  /\ jobs \in [Ids -> Calls \cup {Nil}]
  /\ DOMAIN timers = Ids
  /\ promise \in [Calls -> {"new", "pending"} \cup Outcomes]
  /\ DOMAIN answer = Calls

(* Ids are used once, and last: each call that is still to come finds one. *)
New == {c \in Calls : promise[c] = "new"}
IdsSuffice == Cardinality(New) + nextId <= Cardinality(Calls) + 1

(* The jobs are those of the calls that wait, one for each.                *)
JobsWait ==
  \A id \in Ids : jobs[id] # Nil => promise[jobs[id]] = "pending" /\ id < nextId

OneJobEach == \A i, j \in Ids : jobs[i] # Nil /\ jobs[i] = jobs[j] => i = j

WaitersHaveJobs ==
  \A c \in Calls : promise[c] = "pending" => \E id \in Ids : jobs[id] = c

TimersHaveJobs ==
  \A id \in Ids : timers[id] # Nil => jobs[id] # Nil /\ timers[id].call = jobs[id]

(* What is under way to a worker or back is for the job of its id, or for  *)
(* none any more.                                                          *)
Belongs(message) ==
  /\ message.id \in Ids /\ message.id < nextId
  /\ message.call \in Calls
  /\ jobs[message.id] \in {Nil, message.call}

MessagesBelong ==
  /\ \A sent \in inbox : Belongs(sent)
  /\ \A message \in wire : Belongs(message) /\ message.outcome \in Outcomes

ClosedHasNoJobs == closed => \A id \in Ids : jobs[id] = Nil

JobInv ==
  /\ JobTypes /\ IdsSuffice
  /\ JobsWait /\ OneJobEach /\ WaitersHaveJobs
  /\ TimersHaveJobs /\ MessagesBelong /\ ClosedHasNoJobs
  /\ AnswerIsOwn

----------------------------------------------------------------------------
(* There are finitely many calls, so their ids can be counted.             *)
LEMMA CallsAreCounted ==
  /\ Cardinality(Calls) \in Nat
  /\ \A S \in SUBSET Calls : IsFiniteSet(S) /\ Cardinality(S) \in Nat
  BY SandboxConstants, FS_Subset, FS_CardinalityType

(* A call that is made leaves one fewer to come.                           *)
LEMMA OneFewer ==
  ASSUME NEW c \in New, New' = New \ {c}
  PROVE  Cardinality(New') = Cardinality(New) - 1 /\ Cardinality(New) \in Nat
  <1>1. New \in SUBSET Calls
    BY DEF New
  <1>2. IsFiniteSet(New) /\ Cardinality(New) \in Nat
    BY <1>1, CallsAreCounted
  <1>3. Cardinality(New \ {c}) = Cardinality(New) - 1
    BY <1>2, FS_RemoveElement
  <1> QED
    BY <1>2, <1>3

(* A promise that settles was not one of a call still to come.             *)
LEMMA SettlingKeepsNew ==
  ASSUME JobTypes, NEW calls, NEW outcome \in Outcomes,
         promise' = Settled(calls, outcome)
  PROVE  /\ promise' \in [Calls -> {"new", "pending"} \cup Outcomes]
         /\ New' = New
  BY DEF JobTypes, Settled, New, Outcomes

(* Messages stay in their place while jobs only end.                       *)
LEMMA MessagesStay ==
  ASSUME MessagesBelong, nextId' = nextId,
         inbox' \subseteq inbox, wire' \subseteq wire,
         \A id \in Ids : jobs'[id] \in {jobs[id], Nil}
  PROVE  MessagesBelong'
  BY DEF MessagesBelong, Belongs

(* One job ends: it is answered, its time is up, or it could not be sent.  *)
LEMMA OneJobEnds ==
  ASSUME JobInv, NEW id \in Ids, jobs[id] # Nil, NEW outcome \in Outcomes,
         jobs' = [jobs EXCEPT ![id] = Nil],
         timers' = [timers EXCEPT ![id] = Nil],
         promise' = Settled({jobs[id]}, outcome),
         inbox' \subseteq inbox, wire' \subseteq wire,
         DOMAIN answer' = Calls, AnswerIsOwn',
         UNCHANGED <<nextId, closed>>
  PROVE  JobInv'
  <1> DEFINE call == jobs[id]
  <1>0. call \in Calls /\ promise[call] = "pending" /\ call # Nil
    BY DEF JobInv, JobTypes, JobsWait
  <1>1. /\ promise' \in [Calls -> {"new", "pending"} \cup Outcomes]
        /\ New' = New
    BY SettlingKeepsNew DEF JobInv
  <1>2. \A c \in Calls : promise'[c] = IF c = call THEN outcome ELSE promise[c]
    BY <1>0 DEF Settled
  <1>3. \A i \in Ids : jobs'[i] = IF i = id THEN Nil ELSE jobs[i]
    BY DEF JobInv, JobTypes
  <1>4. \A i \in Ids : timers'[i] = IF i = id THEN Nil ELSE timers[i]
    BY DEF JobInv, JobTypes
  <1>5. outcome # "pending" /\ outcome # "new"
    BY DEF Outcomes
  <1>6. \A i \in Ids : i # id /\ jobs[i] # Nil => jobs[i] # call /\ jobs[i] \in Calls
    BY DEF JobInv, JobTypes, OneJobEach
  <1>7. JobTypes' /\ IdsSuffice'
    BY <1>1 DEF JobInv, JobTypes, IdsSuffice
  <1> HIDE DEF call
  <1>8. /\ JobsWait' /\ OneJobEach'
        /\ TimersHaveJobs' /\ ClosedHasNoJobs'
    <2>1. JobsWait'
      BY <1>2, <1>3, <1>6 DEF JobInv, JobsWait
    <2>2. OneJobEach'
      BY <1>3 DEF JobInv, OneJobEach
    <2>3. TimersHaveJobs'
      <3> SUFFICES ASSUME NEW i \in Ids, timers'[i] # Nil
                   PROVE  jobs'[i] # Nil /\ timers'[i].call = jobs'[i]
        BY DEF TimersHaveJobs
      <3>1. i # id /\ timers'[i] = timers[i] /\ jobs'[i] = jobs[i]
        BY <1>3, <1>4
      <3> QED
        BY <3>1 DEF JobInv, TimersHaveJobs
    <2>4. ClosedHasNoJobs'
      BY <1>3 DEF JobInv, ClosedHasNoJobs
    <2> QED
      BY <2>1, <2>2, <2>3, <2>4
  <1>9. WaitersHaveJobs'
    <2> SUFFICES ASSUME NEW c \in Calls, promise'[c] = "pending"
                 PROVE  \E i \in Ids : jobs'[i] = c
      BY DEF WaitersHaveJobs
    <2>1. c # call /\ promise[c] = "pending"
      BY <1>2, <1>5
    <2>2. PICK i \in Ids : jobs[i] = c
      BY <2>1 DEF JobInv, WaitersHaveJobs
    <2>3. i # id
      BY <2>1, <2>2 DEF call
    <2> QED
      BY <1>3, <2>2, <2>3
  <1>10. MessagesBelong'
    BY <1>3, MessagesStay DEF JobInv
  <1> QED
    BY <1>7, <1>8, <1>9, <1>10 DEF JobInv

(* failAllPending(): all jobs end, with their timers, and nobody waits.    *)
LEMMA AllJobsEnd ==
  ASSUME JobInv, FailAllPending, UNCHANGED <<inbox, wire>>
  PROVE  JobInv'
  <1>1. /\ jobs' = [id \in Ids |-> Nil]
        /\ timers' = [id \in Ids |-> IF jobs[id] = Nil THEN timers[id] ELSE Nil]
        /\ promise' = Settled(Waiting, "rejected")
        /\ nextId' = nextId /\ answer' = answer
    BY DEF FailAllPending
  <1>2. "rejected" \in Outcomes
    BY DEF Outcomes
  <1>3. /\ promise' \in [Calls -> {"new", "pending"} \cup Outcomes]
        /\ New' = New
    BY <1>1, <1>2, SettlingKeepsNew DEF JobInv
  <1>4. \A id \in Ids : timers'[id] = Nil
    BY <1>1 DEF JobInv, TimersHaveJobs
  <1>5. JobTypes' /\ IdsSuffice' /\ AnswerIsOwn'
    BY <1>1, <1>3 DEF JobInv, JobTypes, IdsSuffice, AnswerIsOwn
  <1>6. JobsWait' /\ OneJobEach' /\ TimersHaveJobs' /\ ClosedHasNoJobs'
    BY <1>1, <1>4 DEF JobsWait, OneJobEach, TimersHaveJobs, ClosedHasNoJobs
  <1>7. WaitersHaveJobs'
    <2> SUFFICES ASSUME NEW c \in Calls, promise'[c] = "pending"
                 PROVE  FALSE
      BY DEF WaitersHaveJobs
    <2>1. promise'[c] = IF c \in Waiting /\ promise[c] = "pending" THEN "rejected" ELSE promise[c]
      BY <1>1 DEF Settled
    <2>2. promise[c] = "pending" /\ c \notin Waiting
      BY <2>1
    <2>3. PICK id \in Ids : jobs[id] = c
      BY <2>2 DEF JobInv, WaitersHaveJobs
    <2>4. c # Nil
      BY SandboxConstants
    <2> QED
      BY <2>2, <2>3, <2>4 DEF Waiting
  <1>8. MessagesBelong'
    BY <1>1, MessagesStay DEF JobInv
  <1> QED
    BY <1>5, <1>6, <1>7, <1>8 DEF JobInv

(* A job is sent: its id is fresh, and its call had none.                  *)
LEMMA OneJobStarts ==
  ASSUME JobInv, NEW c \in Calls, RunSent(c)
  PROVE  JobInv'
  <1>1. /\ promise[c] = "new" /\ ~closed
        /\ promise' = [promise EXCEPT ![c] = "pending"]
        /\ nextId' = nextId + 1
        /\ timers' = [timers EXCEPT ![nextId] = [worker |-> worker, call |-> c]]
        /\ jobs' = [jobs EXCEPT ![nextId] = c]
        /\ inbox' = inbox \cup {[worker |-> worker, id |-> nextId, call |-> c]}
        /\ closed' = closed /\ wire' = wire /\ answer' = answer
    BY DEF RunSent, Available
  <1>2. New' = New \ {c} /\ c \in New
    BY <1>1 DEF New, JobInv, JobTypes
  <1>3. Cardinality(New') = Cardinality(New) - 1 /\ Cardinality(New) \in Nat
    BY <1>2, OneFewer
  <1>4. Cardinality(New') \in Nat
    <2>1. New' \in SUBSET Calls
      BY <1>2 DEF New
    <2> QED
      BY <2>1, CallsAreCounted
  <1>5. nextId \in Ids /\ nextId \in Nat
    BY <1>3, <1>4, CallsAreCounted DEF JobInv, JobTypes, IdsSuffice, Ids
  <1>6. c # Nil
    BY SandboxConstants
  <1>7. \A i \in Ids : jobs'[i] = IF i = nextId THEN c ELSE jobs[i]
    BY <1>1 DEF JobInv, JobTypes
  <1>8. \A i \in Ids : timers'[i] = IF i = nextId
                                    THEN [worker |-> worker, call |-> c] ELSE timers[i]
    BY <1>1 DEF JobInv, JobTypes
  <1>9. \A d \in Calls : promise'[d] = IF d = c THEN "pending" ELSE promise[d]
    BY <1>1 DEF JobInv, JobTypes
  <1>10. jobs[nextId] = Nil
    BY <1>5 DEF JobInv, JobsWait
  <1>11. \A i \in Ids : jobs[i] # Nil => jobs[i] # c /\ jobs[i] \in Calls
    BY <1>1 DEF JobInv, JobTypes, JobsWait
  <1>12. Ids \subseteq Int
    BY DEF Ids
  <1>13. JobTypes' /\ IdsSuffice' /\ AnswerIsOwn'
    <2>1. nextId' \in Nat \ {0} /\ jobs' \in [Ids -> Calls \cup {Nil}]
      BY <1>1, <1>5 DEF JobInv, JobTypes
    <2>2. DOMAIN timers' = Ids /\ DOMAIN answer' = Calls
      BY <1>1 DEF JobInv, JobTypes
    <2>3. promise' \in [Calls -> {"new", "pending"} \cup Outcomes]
      BY <1>1 DEF JobInv, JobTypes
    <2>4. IdsSuffice'
      BY <1>1, <1>3, <1>5, CallsAreCounted DEF JobInv, IdsSuffice
    <2>5. AnswerIsOwn'
      BY <1>1 DEF JobInv, AnswerIsOwn
    <2> QED
      BY <2>1, <2>2, <2>3, <2>4, <2>5 DEF JobTypes
  <1>14. JobsWait'
    <2> SUFFICES ASSUME NEW i \in Ids, jobs'[i] # Nil
                 PROVE  promise'[jobs'[i]] = "pending" /\ i < nextId'
      BY DEF JobsWait
    <2>1. CASE i = nextId
      BY <2>1, <1>1, <1>5, <1>7, <1>9
    <2>2. CASE i # nextId
      <3>1. jobs'[i] = jobs[i] /\ jobs[i] \in Calls /\ jobs[i] # c
        BY <2>2, <1>7, <1>11
      <3>2. promise[jobs[i]] = "pending" /\ i < nextId
        BY <3>1 DEF JobInv, JobsWait
      <3> QED
        BY <3>1, <3>2, <1>1, <1>5, <1>9, <1>12
    <2> QED
      BY <2>1, <2>2
  <1>15. OneJobEach'
    BY <1>7, <1>11 DEF JobInv, OneJobEach
  <1>16. WaitersHaveJobs'
    <2> SUFFICES ASSUME NEW d \in Calls, promise'[d] = "pending"
                 PROVE  \E i \in Ids : jobs'[i] = d
      BY DEF WaitersHaveJobs
    <2>1. CASE d = c
      BY <2>1, <1>5, <1>7
    <2>2. CASE d # c
      <3>1. PICK i \in Ids : jobs[i] = d
        BY <2>2, <1>9 DEF JobInv, WaitersHaveJobs
      <3>2. i # nextId
        BY <3>1, <1>10, SandboxConstants
      <3> QED
        BY <3>1, <3>2, <1>7
    <2> QED
      BY <2>1, <2>2
  <1>17. TimersHaveJobs'
    <2> SUFFICES ASSUME NEW i \in Ids, timers'[i] # Nil
                 PROVE  jobs'[i] # Nil /\ timers'[i].call = jobs'[i]
      BY DEF TimersHaveJobs
    <2>1. CASE i = nextId
      BY <2>1, <1>6, <1>7, <1>8
    <2>2. CASE i # nextId
      BY <2>2, <1>7, <1>8 DEF JobInv, TimersHaveJobs
    <2> QED
      BY <2>1, <2>2
  <1>18. MessagesBelong'
    <2>1. ASSUME NEW m, Belongs(m)
          PROVE  Belongs(m)'
      <3>1. m.id \in Ids /\ m.id < nextId /\ m.id # nextId
        BY <2>1, <1>5, <1>12 DEF Belongs
      <3>2. jobs'[m.id] = jobs[m.id]
        BY <3>1, <1>7
      <3>3. m.id < nextId'
        <4>1. m.id \in Int
          BY <3>1, <1>12
        <4> QED
          BY <3>1, <4>1, <1>1, <1>5
      <3> QED
        BY <2>1, <3>1, <3>2, <3>3 DEF Belongs
    <2>2. ASSUME NEW m, m = [worker |-> worker, id |-> nextId, call |-> c]
          PROVE  Belongs(m)'
      <3>1. m.id = nextId /\ m.call = c
        BY <2>2
      <3> QED
        BY <3>1, <1>1, <1>5, <1>7 DEF Belongs
    <2> QED
      BY <1>1, <2>1, <2>2 DEF JobInv, MessagesBelong
  <1>19. ClosedHasNoJobs'
    BY <1>1 DEF ClosedHasNoJobs
  <1> QED
    BY <1>13, <1>14, <1>15, <1>16, <1>17, <1>18, <1>19 DEF JobInv

(* A refused call has no job, and none is disturbed.                       *)
LEMMA NoJobStarts ==
  ASSUME JobInv, NEW c \in Calls, RunRefused(c)
  PROVE  JobInv'
  <1>1. /\ promise[c] = "new"
        /\ promise' = [promise EXCEPT ![c] = "rejected"]
        /\ UNCHANGED <<nextId, closed, jobs, timers, inbox, wire, answer>>
    BY DEF RunRefused
  <1>2. New' = New \ {c} /\ c \in New
    BY <1>1 DEF New, JobInv, JobTypes
  <1>3. Cardinality(New') = Cardinality(New) - 1 /\ Cardinality(New) \in Nat
    BY <1>2, OneFewer
  <1>4. \A d \in Calls : promise'[d] = IF d = c THEN "rejected" ELSE promise[d]
    BY <1>1 DEF JobInv, JobTypes
  <1>5. promise' \in [Calls -> {"new", "pending"} \cup Outcomes]
    BY <1>1 DEF JobInv, JobTypes, Outcomes
  <1>6. IdsSuffice'
    BY <1>1, <1>3, CallsAreCounted DEF JobInv, JobTypes, IdsSuffice
  <1>7. JobsWait'
    BY <1>1, <1>4 DEF JobInv, JobTypes, JobsWait
  <1>8. WaitersHaveJobs'
    BY <1>1, <1>4 DEF JobInv, WaitersHaveJobs
  <1>9. MessagesBelong'
    BY <1>1 DEF JobInv, MessagesBelong, Belongs
  <1> QED
    BY <1>1, <1>5, <1>6, <1>7, <1>8, <1>9
    DEF JobInv, JobTypes, OneJobEach, TimersHaveJobs, ClosedHasNoJobs, AnswerIsOwn

(* Steps that leave the jobs alone, and messages at most on their way.     *)
LEMMA JobsUndisturbed ==
  ASSUME JobInv, UNCHANGED <<jobVars, closed>>,
         inbox' \subseteq inbox, wire' \subseteq wire
  PROVE  JobInv'
  <1>1. UNCHANGED <<nextId, jobs, timers, promise, answer, closed>>
    BY DEF jobVars
  <1>2. MessagesBelong'
    BY <1>1 DEF JobInv, MessagesBelong, Belongs
  <1>3. IdsSuffice'
    BY <1>1 DEF JobInv, IdsSuffice, New
  <1> QED
    BY <1>1, <1>2, <1>3
    DEF JobInv, JobTypes, JobsWait, OneJobEach, WaitersHaveJobs, TimersHaveJobs,
        ClosedHasNoJobs, AnswerIsOwn

(* Every action starts, ends or leaves alone the jobs.                     *)
LEMMA JobInvIsKept == Spec => []JobInv
  <1>1. Init => JobInv
    <2> SUFFICES ASSUME Init PROVE JobInv
      OBVIOUS
    <2>1. New = Calls
      BY DEF Init, New
    <2>2. JobTypes /\ IdsSuffice
      BY <2>1, CallsAreCounted DEF Init, JobTypes, IdsSuffice
    <2> QED
      BY <2>2
      DEF Init, JobInv, JobsWait, OneJobEach, WaitersHaveJobs, TimersHaveJobs,
          MessagesBelong, ClosedHasNoJobs, AnswerIsOwn
  <1>2. JobInv /\ [Next]_vars => JobInv'
    <2> SUFFICES ASSUME JobInv, [Next]_vars PROVE JobInv'
      OBVIOUS
    <2>1. CASE \E c \in Calls : RunRefused(c)
      BY <2>1, NoJobStarts
    <2>2. CASE \E c \in Calls : RunSent(c)
      BY <2>2, OneJobStarts
    <2>3. ASSUME NEW id \in Ids, TimeoutFires(id) PROVE JobInv'
      <3>1. jobs[id] # Nil /\ timers[id].call = jobs[id]
        BY <2>3 DEF TimeoutFires, JobInv, TimersHaveJobs
      <3>2. /\ promise' = Settled({jobs[id]}, "rejected")
            /\ "rejected" \in Outcomes
        BY <2>3, <3>1 DEF TimeoutFires, Outcomes
      <3>3. DOMAIN answer' = Calls /\ AnswerIsOwn'
        BY <2>3 DEF TimeoutFires, JobInv, JobTypes, AnswerIsOwn
      <3> QED
        BY <2>3, <3>1, <3>2, <3>3, OneJobEnds DEF TimeoutFires
    <2>4. ASSUME NEW sent \in inbox, SendFails(sent) PROVE JobInv'
      <3>1. inbox' \subseteq inbox /\ UNCHANGED <<nextId, closed, wire, answer>>
        BY <2>4 DEF SendFails, jobVars
      <3>2. sent.id \in Ids
        BY DEF JobInv, MessagesBelong, Belongs
      <3>3. CASE jobs[sent.id] # Nil
        <4>1. /\ jobs' = [jobs EXCEPT ![sent.id] = Nil]
              /\ timers' = [timers EXCEPT ![sent.id] = Nil]
              /\ promise' = Settled({jobs[sent.id]}, "rejected")
              /\ "rejected" \in Outcomes
          BY <2>4, <3>3 DEF SendFails, Outcomes
        <4>2. DOMAIN answer' = Calls /\ AnswerIsOwn'
          BY <3>1 DEF JobInv, JobTypes, AnswerIsOwn
        <4> QED
          BY <3>1, <3>2, <3>3, <4>1, <4>2, OneJobEnds
      <3>4. CASE jobs[sent.id] = Nil
        <4>1. UNCHANGED <<jobVars, closed>>
          BY <2>4, <3>1, <3>4 DEF SendFails, jobVars
        <4> QED
          BY <3>1, <4>1, JobsUndisturbed
      <3> QED
        BY <3>3, <3>4
    <2>5. ASSUME NEW received \in inbox, NEW outcome \in Outcomes,
                 WorkerAnswers(received, outcome)
          PROVE  JobInv'
      <3>1. /\ UNCHANGED <<nextId, jobs, timers, promise, answer, closed>>
            /\ inbox' \subseteq inbox
            /\ wire' = wire \cup
                 {[id |-> received.id, call |-> received.call, outcome |-> outcome]}
        BY <2>5 DEF WorkerAnswers, jobVars
      <3>2. Belongs(received)
        BY DEF JobInv, MessagesBelong
      <3>3. MessagesBelong'
        <4>1. ASSUME NEW m, m = [id |-> received.id, call |-> received.call,
                                 outcome |-> outcome]
              PROVE  Belongs(m) /\ m.outcome \in Outcomes
          BY <4>1, <3>2 DEF Belongs
        <4>2. /\ \A sent \in inbox' : Belongs(sent)
              /\ \A message \in wire' : Belongs(message) /\ message.outcome \in Outcomes
          BY <3>1, <4>1 DEF JobInv, MessagesBelong
        <4> QED
          BY <3>1, <4>2 DEF MessagesBelong, Belongs
      <3>4. IdsSuffice'
        BY <3>1 DEF JobInv, IdsSuffice, New
      <3> QED
        BY <3>1, <3>3, <3>4
        DEF JobInv, JobTypes, JobsWait, OneJobEach, WaitersHaveJobs, TimersHaveJobs,
            ClosedHasNoJobs, AnswerIsOwn
    <2>6. ASSUME NEW message \in wire, MessageArrives(message) PROVE JobInv'
      <3>1. wire' \subseteq wire /\ UNCHANGED <<nextId, closed, inbox>>
        BY <2>6 DEF MessageArrives
      <3>2. Belongs(message) /\ message.outcome \in Outcomes
        BY DEF JobInv, MessagesBelong
      <3>3. CASE jobs[message.id] # Nil
        <4>1. /\ jobs' = [jobs EXCEPT ![message.id] = Nil]
              /\ timers' = [timers EXCEPT ![message.id] = Nil]
              /\ promise' = Settled({jobs[message.id]}, message.outcome)
              /\ answer' = [answer EXCEPT ![jobs[message.id]] = message.call]
          BY <2>6, <3>3 DEF MessageArrives
        <4>2. message.id \in Ids /\ message.call = jobs[message.id]
          BY <3>2, <3>3 DEF Belongs
        <4>3. DOMAIN answer' = Calls /\ AnswerIsOwn'
          BY <4>1, <4>2 DEF JobInv, JobTypes, AnswerIsOwn
        <4> QED
          BY <3>1, <3>2, <3>3, <4>1, <4>2, <4>3, OneJobEnds
      <3>4. CASE jobs[message.id] = Nil
        <4>1. UNCHANGED <<jobVars, closed>>
          BY <2>6, <3>1, <3>4 DEF MessageArrives, jobVars
        <4> QED
          BY <3>1, <4>1, JobsUndisturbed
      <3> QED
        BY <3>3, <3>4
    <2>7. CASE \E w \in Workers : WorkerCrashes(w) \/ ChannelCloses(w) \/ ExitOfAnother(w)
      BY <2>7, JobsUndisturbed DEF WorkerCrashes, ChannelCloses, ExitOfAnother
    <2>8. CASE \E w \in Workers : ExitOfCurrent(w)
      BY <2>8, AllJobsEnd DEF ExitOfCurrent
    <2>9. CASE Close
      BY <2>9, AllJobsEnd DEF Close
    <2>10. CASE UNCHANGED vars
      BY <2>10, JobsUndisturbed DEF vars, jobVars
    <2> QED
      BY <2>1, <2>2, <2>3, <2>4, <2>5, <2>6, <2>7, <2>8, <2>9, <2>10 DEF Next, Exits
  <1> QED
    BY <1>1, <1>2, PTL DEF Spec

----------------------------------------------------------------------------
(* However workers die, time out and are replaced, and in whatever order   *)
(* their last messages come, a call never gets another call's result.      *)
THEOREM AnswersAreOwn == Spec => []AnswerIsOwn
  <1>1. JobInv => AnswerIsOwn
    BY DEF JobInv
  <1> QED
    BY <1>1, JobInvIsKept, PTL

(* A timer that fires finds its call still waiting: it never kills a       *)
(* worker for a call that was answered, refused or failed.                 *)
THEOREM KillsAreForWaiters == Spec => KillIsForAWaitingCall
  <1>1. JobInv => [\A id \in Ids : TimeoutFires(id) => promise[timers[id].call] = "pending"]_vars
    BY DEF JobInv, TimersHaveJobs, JobsWait, TimeoutFires
  <1> QED
    BY <1>1, JobInvIsKept, PTL DEF KillIsForAWaitingCall

(* Every pending call is a registered job, which a timeout, the worker's   *)
(* end or close() reaches; close() leaves none.                            *)
THEOREM PendingCallsAreRegistered == Spec => []PendingAreRegistered
  <1>1. JobInv => PendingAreRegistered
    <2> SUFFICES ASSUME JobInv PROVE PendingAreRegistered
      OBVIOUS
    <2>1. ASSUME NEW c \in Waiting PROVE c \in Calls /\ promise[c] = "pending"
      BY <2>1 DEF Waiting, JobInv, JobTypes, JobsWait
    <2>2. ASSUME NEW c \in Calls, promise[c] = "pending" PROVE c \in Waiting
      BY <2>2, SandboxConstants DEF Waiting, JobInv, WaitersHaveJobs
    <2>3. closed => Waiting = {}
      BY DEF Waiting, JobInv, ClosedHasNoJobs
    <2> QED
      BY <2>1, <2>2, <2>3 DEF PendingAreRegistered
  <1> QED
    BY <1>1, JobInvIsKept, PTL

=============================================================================
