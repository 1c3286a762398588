----------------------------- MODULE ScriptSandbox -----------------------------
(***************************************************************************)
(* The script sandbox (src/src/script/sandbox.ts): jobs sent over IPC to a *)
(* worker subprocess that is killed and replaced when a job times out.     *)
(* Its methods and event callbacks run to completion on the event loop;    *)
(* what the subprocess does, and the order in which its death, its last    *)
(* messages and the loss of its channel are reported, is up to Node.       *)
(* A call is one run(); scripts and their inputs are left out.             *)
(***************************************************************************)
EXTENDS Integers, FiniteSets

CONSTANTS
  Calls,        \* the run() calls that are made
  MaxCrashes,   \* bound on deaths of the worker other than by SIGKILL
  Nil

ASSUME SandboxConstants ==
  /\ IsFiniteSet(Calls)
  /\ MaxCrashes \in Nat
  /\ Nil \notin Calls /\ Nil \notin Int

Ids == 1 .. Cardinality(Calls)
(* One from the constructor, and one for each death of another. *)
Workers == 1 .. 1 + Cardinality(Calls) + MaxCrashes

Done == 0      \* close() awaits no worker any more

VARIABLES
  worker,     \* this.worker, or Nil
  spawned,    \* how many workers were ever spawned: restarts + 1
  nextId,
  closed,
  jobs,       \* jobs[id]: the call waiting for this id's answer, or Nil
  timers,     \* timers[id]: what an armed timer closed over, or Nil
  process,    \* of each worker: "unborn", "running", "dying" (its exit event
              \* still to come), "gone", or "failed" (spawn reported an error)
  connected,  \* the workers whose IPC channel is open as far as Node knows
  inbox,      \* jobs on their way to a worker, or being run by it
  wire,       \* answers on their way to the proxy
  promise,    \* of each call: "new", "pending", "resolved", "rejected"
  answer,     \* of each call: the call whose script's result it got, or Nil
  closing     \* close(): Nil, Done, or the worker whose exit it awaits

vars == <<worker, spawned, nextId, closed, jobs, timers, process, connected,
          inbox, wire, promise, answer, closing>>

jobVars == <<nextId, jobs, timers, promise, answer>>
workerVars == <<worker, spawned, process, connected>>

----------------------------------------------------------------------------
(* spawnWorker(), in a state where worker is Nil.  A spawn that fails emits  *)
(* 'error' and never 'exit': the worker stays in this.worker.                *)
Spawn(processes, outcome) ==
  /\ worker' = spawned + 1
  /\ spawned' = spawned + 1
  /\ process' = [processes EXCEPT ![spawned + 1] = outcome]
  /\ connected' = connected \cup {spawned + 1}

SpawnOutcomes == {"running", "failed"}

Init ==
  /\ worker = 1 /\ spawned = 1
  /\ \E outcome \in SpawnOutcomes :
       process = [w \in Workers |-> IF w = 1 THEN outcome ELSE "unborn"]
  /\ connected = {1}
  /\ nextId = 1
  /\ jobs = [id \in Ids |-> Nil]
  /\ timers = [id \in Ids |-> Nil]
  /\ inbox = {} /\ wire = {}
  /\ promise = [c \in Calls |-> "new"]
  /\ answer = [c \in Calls |-> Nil]
  /\ closed = FALSE /\ closing = Nil

Waiting == {jobs[id] : id \in {i \in Ids : jobs[i] # Nil}}

(* Settling a promise that is settled already does nothing. *)
Settled(calls, outcome) ==
  [c \in Calls |-> IF c \in calls /\ promise[c] = "pending" THEN outcome ELSE promise[c]]

(* SIGKILL: nothing for a process that is not running. *)
Killed(w) == [process EXCEPT ![w] = IF @ = "running" THEN "dying" ELSE @]

(* failAllPending() *)
FailAllKeepingTimers ==
  /\ jobs' = [id \in Ids |-> Nil]
  /\ promise' = Settled(Waiting, "rejected")
  /\ UNCHANGED <<timers, nextId, answer>>

FailAllSilently ==
  /\ jobs' = [id \in Ids |-> Nil]
  /\ timers' = [id \in Ids |-> IF jobs[id] = Nil THEN timers[id] ELSE Nil]
  /\ UNCHANGED <<promise, nextId, answer>>

FailAllPending ==
  /\ jobs' = [id \in Ids |-> Nil]
  /\ timers' = [id \in Ids |-> IF jobs[id] = Nil THEN timers[id] ELSE Nil]
  /\ promise' = Settled(Waiting, "rejected")
  /\ UNCHANGED <<nextId, answer>>

----------------------------------------------------------------------------
(* run() *)
Available == ~closed /\ worker # Nil /\ worker \in connected

RunRefused(c) ==
  /\ promise[c] = "new"
  /\ ~Available
  /\ promise' = [promise EXCEPT ![c] = "rejected"]
  /\ UNCHANGED <<workerVars, nextId, closed, jobs, timers, inbox, wire, answer, closing>>

RunSent(c) ==
  /\ promise[c] = "new"
  /\ Available
  /\ promise' = [promise EXCEPT ![c] = "pending"]
  /\ nextId' = nextId + 1
  /\ timers' = [timers EXCEPT ![nextId] = [worker |-> worker, call |-> c]]
  /\ jobs' = [jobs EXCEPT ![nextId] = c]
  /\ inbox' = inbox \cup {[worker |-> worker, id |-> nextId, call |-> c]}
  /\ UNCHANGED <<workerVars, closed, wire, answer, closing>>

(* The timer of run(): it kills the worker it was created with. *)
TimeoutFires(id) ==
  /\ timers[id] # Nil
  /\ jobs' = [jobs EXCEPT ![id] = Nil]
  /\ timers' = [timers EXCEPT ![id] = Nil]
  /\ process' = Killed(timers[id].worker)
  /\ promise' = Settled({timers[id].call}, "rejected")
  /\ UNCHANGED <<worker, spawned, connected, nextId, closed, inbox, wire, answer, closing>>

(* The callback of worker.send(), with the job undelivered. *)
SendFails(sent) ==
  /\ sent \in inbox
  /\ process[sent.worker] # "running"
  /\ inbox' = inbox \ {sent}
  /\ IF jobs[sent.id] # Nil
     THEN /\ jobs' = [jobs EXCEPT ![sent.id] = Nil]
          /\ timers' = [timers EXCEPT ![sent.id] = Nil]
          /\ promise' = Settled({jobs[sent.id]}, "rejected")
     ELSE UNCHANGED <<jobs, timers, promise>>
  /\ UNCHANGED <<workerVars, nextId, closed, wire, answer, closing>>

(* The worker answers a job, in any order; a runaway script never does. *)
WorkerAnswers(received, outcome) ==
  /\ received \in inbox
  /\ process[received.worker] = "running"
  /\ inbox' = inbox \ {received}
  /\ wire' = wire \cup {[id |-> received.id, call |-> received.call, outcome |-> outcome]}
  /\ UNCHANGED <<workerVars, jobVars, closed, closing>>

(* worker.on('message') *)
MessageArrives(message) ==
  /\ message \in wire
  /\ wire' = wire \ {message}
  /\ IF jobs[message.id] # Nil
     THEN LET c == jobs[message.id] IN
          /\ jobs' = [jobs EXCEPT ![message.id] = Nil]
          /\ timers' = [timers EXCEPT ![message.id] = Nil]
          /\ promise' = Settled({c}, message.outcome)
          /\ answer' = [answer EXCEPT ![c] = message.call]
     ELSE UNCHANGED <<jobs, timers, promise, answer>>
  /\ UNCHANGED <<workerVars, nextId, closed, inbox, closing>>

----------------------------------------------------------------------------
(* The life of the subprocess.                                               *)

Crashes == Cardinality({w \in Workers : process[w] \in {"dying", "gone"}})

WorkerCrashes(w) ==
  /\ process[w] = "running"
  /\ Crashes < MaxCrashes
  /\ process' = [process EXCEPT ![w] = "dying"]
  /\ UNCHANGED <<worker, spawned, connected, jobVars, closed, inbox, wire, closing>>

ChannelCloses(w) ==
  /\ w \in connected
  /\ process[w] \in {"dying", "gone", "failed"}
  /\ connected' = connected \ {w}
  /\ UNCHANGED <<worker, spawned, process, jobVars, closed, inbox, wire, closing>>

Exited(w) == [process EXCEPT ![w] = "gone"]

(* worker.on('exit'): close() may be waiting for it too. *)
ExitOfAnother(w) ==
  /\ process[w] = "dying"
  /\ worker # w
  /\ process' = Exited(w)
  /\ closing' = IF closing = w THEN Done ELSE closing
  /\ UNCHANGED <<worker, spawned, connected, jobVars, closed, inbox, wire>>

SpawnRestartingIds(w) ==
  /\ process[w] = "dying"
  /\ worker = w
  /\ jobs' = [id \in Ids |-> Nil]
  /\ timers' = [id \in Ids |-> IF jobs[id] = Nil THEN timers[id] ELSE Nil]
  /\ promise' = Settled(Waiting, "rejected")
  /\ nextId' = 1
  /\ \E outcome \in SpawnOutcomes : Spawn(Exited(w), outcome)
  /\ UNCHANGED <<answer, closed, inbox, wire, closing>>

ExitWithoutSuccessor(w) ==
  /\ process[w] = "dying"
  /\ worker = w
  /\ worker' = Nil
  /\ process' = Exited(w)
  /\ FailAllPending
  /\ UNCHANGED <<spawned, connected, closed, inbox, wire, closing>>

(* this.worker = w implies that close() was not called. *)
ExitOfCurrent(w) ==
  /\ process[w] = "dying"
  /\ worker = w
  /\ FailAllPending
  /\ \E outcome \in SpawnOutcomes : Spawn(Exited(w), outcome)
  /\ UNCHANGED <<closed, inbox, wire, closing>>

(* close(), which main() calls once. *)
CloseLeavingIdleWorker ==
  /\ ~closed
  /\ closed' = TRUE
  /\ FailAllPending
  /\ worker' = Nil
  /\ process' = IF worker = Nil \/ Waiting = {} THEN process ELSE Killed(worker)
  /\ closing' = IF worker = Nil THEN Done ELSE worker
  /\ UNCHANGED <<spawned, connected, inbox, wire>>

CloseKeepingWorker ==
  /\ ~closed
  /\ closed' = TRUE
  /\ FailAllPending
  /\ process' = IF worker = Nil THEN process ELSE Killed(worker)
  /\ closing' = IF worker = Nil THEN Done ELSE worker
  /\ UNCHANGED <<worker, spawned, connected, inbox, wire>>

Close ==
  /\ ~closed
  /\ closed' = TRUE
  /\ FailAllPending
  /\ worker' = Nil
  /\ process' = IF worker = Nil THEN process ELSE Killed(worker)
  /\ closing' = IF worker = Nil THEN Done ELSE worker
  /\ UNCHANGED <<spawned, connected, inbox, wire>>

----------------------------------------------------------------------------
Outcomes == {"resolved", "rejected"}

Exits(w) == ExitOfCurrent(w) \/ ExitOfAnother(w)

Next ==
  \/ \E c \in Calls : RunRefused(c) \/ RunSent(c)
  \/ \E id \in Ids : TimeoutFires(id)
  \/ \E sent \in inbox : SendFails(sent)
  \/ \E received \in inbox, outcome \in Outcomes : WorkerAnswers(received, outcome)
  \/ \E message \in wire : MessageArrives(message)
  \/ \E w \in Workers : WorkerCrashes(w) \/ ChannelCloses(w) \/ Exits(w)
  \/ Close

(* Node fires armed timers and reports the end of a process that ended. *)
Fairness ==
  /\ \A id \in Ids : WF_vars(TimeoutFires(id))
  /\ \A w \in Workers : WF_vars(Exits(w))

Spec == Init /\ [][Next]_vars /\ Fairness

----------------------------------------------------------------------------
(* Types of the sandbox's state; a closed sandbox has no worker. *)
TypeOK ==
  /\ worker \in Workers \cup {Nil} /\ spawned \in Workers
  /\ nextId \in Ids \cup {Cardinality(Calls) + 1}
  /\ closed \in BOOLEAN /\ (closed => worker = Nil)
  /\ jobs \in [Ids -> Calls \cup {Nil}]
  /\ timers \in [Ids -> [worker : Workers, call : Calls] \cup {Nil}]
  /\ process \in [Workers -> {"unborn", "running", "dying", "gone", "failed"}]
  /\ connected \subseteq Workers
  /\ inbox \subseteq [worker : Workers, id : Ids, call : Calls]
  /\ wire \subseteq [id : Ids, call : Calls, outcome : Outcomes]
  /\ promise \in [Calls -> {"new", "pending"} \cup Outcomes]
  /\ answer \in [Calls -> Calls \cup {Nil}]
  /\ closing \in Workers \cup {Nil, Done}

(* A call gets the result of its own script, never one that a dead worker    *)
(* sent before it was replaced: ids are not reused across workers.           *)
AnswerIsOwn == \A c \in Calls : answer[c] \in {c, Nil}

(* A worker is killed only on behalf of a call that is still waiting: no     *)
(* timer outlives its job, else it would take down unrelated jobs.           *)
KillIsForAWaitingCall ==
  [][\A id \in Ids : TimeoutFires(id) => promise[timers[id].call] = "pending"]_vars

(* The pending calls are exactly the registered jobs, so that close(), an    *)
(* exit or a timeout reaches every one of them, and none waits once the      *)
(* sandbox is closed.                                                        *)
PendingAreRegistered ==
  /\ Waiting = {c \in Calls : promise[c] = "pending"}
  /\ closed => Waiting = {}

(* Every run() settles, whether its script runs away, the worker dies with   *)
(* or without the job, or the answer is lost with it.                        *)
EveryRunSettles == \A c \in Calls : promise[c] = "pending" ~> promise[c] \in Outcomes

(* After each death a replacement is spawned (spec 4.4.3), until close().    *)
(* Nothing spawns another if that one fails to start.                        *)
WorkerReplaced ==
  \A w \in Workers :
    process[w] = "dying" ~> (closed \/ (worker # Nil /\ worker > w))

(* close() completes, unless the worker it waits for never started: its      *)
(* 'exit' will not come.                                                     *)
CloseCompletes ==
  \A w \in Workers : closing = w /\ process[w] # "failed" ~> closing = Done

=============================================================================
