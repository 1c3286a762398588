--------------------------- MODULE ReflectionImport ---------------------------
(***************************************************************************)
(* The reflection importer (src/src/grpc/reflection-import.ts) over the    *)
(* descriptor registry, driven by gRPC calls, the admin API, the imports   *)
(* declared in the configuration, and shutdown.  A fetch takes any time;   *)
(* everything else in the importer runs to completion, including the       *)
(* continuations of an import that has ended, which are microtasks.        *)
(***************************************************************************)
EXTENDS ReflectionFetch

CONSTANTS
  Allowed,        \* the targets that match reflection.allow
  Startup,        \* the targets of reflection sources in the configuration
  StartupSymbols, \* their explicit symbols ({} for none)
  Named,          \* the sets of services that admin requests name
  Configured,     \* the fixed upstreams of reverse gRPC listeners
  NegativeTtl,    \* settings.negativeTtlMs
  MaxAttempts,    \* DEFAULT_STARTUP_ATTEMPTS
  MaxObserved,    \* MAX_OBSERVED_TARGETS
  MaxRequests,    \* bound on gRPC calls and admin requests
  MaxNow,         \* bound on the clock
  Nil

ASSUME ImportConstants ==
  /\ Allowed \subseteq Targets /\ Startup \subseteq Targets
  /\ Configured \subseteq Targets /\ Malformed \subseteq Targets
  /\ StartupSymbols \in [Startup -> SUBSET Services]
  /\ Named \subseteq SUBSET Services
  /\ Services \cap {"all", "admin", "startup"} = {}
  /\ {NegativeTtl, MaxAttempts, MaxObserved} \subseteq Nat \ {0}
  /\ {MaxRequests, MaxNow} \subseteq Nat

(* Who awaits an import: a call for a service, reflect-all, an admin       *)
(* request, the start-up attempt.                                          *)
Waiters == Services \cup {"all", "admin", "startup"}

(* A running import.                                                       *)
Import == [symbols : SUBSET Services, waiters : SUBSET Waiters]

ASSUME NilIsNone == Nil \notin Import /\ Nil \notin Nat

VARIABLES
  inFlight,      \* of each target: Nil, or the running import
  retryAt,       \* failures: when a failed target may be asked again, or Nil
  unknownUntil,  \* unknownServices: of each target and service, or Nil
  seen,          \* observed: the services called at each observed target
  attempt,       \* of each target in Startup: number and state of its attempt
  reflectAll,    \* importObserved(): Nil, or the outcome of each target so far
  closed,
  now,
  requests,      \* calls and admin requests made so far
  fetches,       \* history: the fetches that are running, per target
  askedAt          \* history: of each target and service, when a call last made
                 \* or joined a query, unless one has been of use since

importVars == <<inFlight, retryAt, unknownUntil, fetches, askedAt>>
vars == <<descriptors, importVars, seen, attempt, reflectAll, closed, now,
          requests>>

AttemptStates == {"importing", "waiting", "imported", "gave_up", "stopped"}
Outcomes == {"skipped", "pending", "imported", "failed"}
Long == -NegativeTtl      \* longer ago than anything is remembered

----------------------------------------------------------------------------
(* Mutant: import() that does not look for an import that runs.            *)
ImportForUnshared(targets, symbols, waiter) ==
  /\ inFlight' = [t \in Targets |->
        IF t \in targets THEN [symbols |-> symbols, waiters |-> {waiter}]
        ELSE inFlight[t]]
  /\ fetches' = [t \in Targets |-> fetches[t] + (IF t \in targets THEN 1 ELSE 0)]

(* Mutant: only the caller that starts an import hears of its end.         *)
ImportForFirstOnly(targets, symbols, waiter) ==
  LET idle == {t \in targets : inFlight[t] = Nil}
  IN  /\ inFlight' = [t \in Targets |->
            IF t \in idle THEN [symbols |-> symbols, waiters |-> {waiter}]
            ELSE inFlight[t]]
      /\ fetches' = [t \in Targets |-> fetches[t] + (IF t \in idle THEN 1 ELSE 0)]

(* import() of several targets in one synchronous stretch, each for one    *)
(* waiter: a target whose import runs already is not asked again.          *)
ImportFor(targets, symbols, waiter) ==
  LET idle == {t \in targets : inFlight[t] = Nil}
  IN  /\ inFlight' = [t \in Targets |->
            IF t \notin targets THEN inFlight[t]
            ELSE IF t \in idle THEN [symbols |-> symbols, waiters |-> {waiter}]
            ELSE [inFlight[t] EXCEPT !.waiters = @ \cup {waiter}]]
      /\ fetches' = [t \in Targets |-> fetches[t] + (IF t \in idle THEN 1 ELSE 0)]

(* A call that joins a query counts as asking.                             *)
Asks(target, service) ==
  askedAt' = [askedAt EXCEPT ![target][service] = now]

Init ==
  /\ descriptors = {}
  /\ inFlight = [t \in Targets |->
        IF t \in Startup
          THEN [symbols |-> StartupSymbols[t], waiters |-> {"startup"}] ELSE Nil]
  /\ fetches = [t \in Targets |-> IF t \in Startup THEN 1 ELSE 0]
  /\ attempt = [t \in Startup |-> [number |-> 1, state |-> "importing"]]
  /\ retryAt = [t \in Targets |-> Nil]
  /\ unknownUntil = [t \in Targets |-> [s \in Services |-> Nil]]
  /\ seen = [t \in Configured |-> {}]
  /\ askedAt = [t \in Targets |-> [s \in Services |-> Long]]
  /\ reflectAll = Nil
  /\ closed = FALSE
  /\ now = 0
  /\ requests = 0

RequestArrives == requests < MaxRequests /\ requests' = requests + 1

----------------------------------------------------------------------------
(* gRPC calls                                                              *)

(* entryFor(): when the map is full, the target seen least recently makes  *)
(* way.  When calls came is not kept, so it may be any.                    *)
Kept(target) ==
  IF target \in DOMAIN seen \/ Cardinality(DOMAIN seen) < MaxObserved
    THEN {DOMAIN seen}
    ELSE {DOMAIN seen \ {t} : t \in DOMAIN seen}

Observe(target, service) ==
  \E kept \in Kept(target) :
    seen' = [t \in kept \cup {target} |->
      IF t # target THEN seen[t]
      ELSE {service} \cup (IF t \in kept THEN seen[t] ELSE {})]

(* Mutant: ensure() that remembers absent services but not failed targets. *)
MayAskForgettingFailures(target, service) ==
  /\ ~closed
  /\ ~HasService(descriptors, service)
  /\ target \in Allowed
  /\ unknownUntil[target][service] = Nil \/ unknownUntil[target][service] <= now

(* The guards of ensure().                                                 *)
MayAsk(target, service) ==
  /\ ~closed
  /\ ~HasService(descriptors, service)
  /\ target \in Allowed
  /\ unknownUntil[target][service] = Nil \/ unknownUntil[target][service] <= now
  /\ retryAt[target] = Nil \/ retryAt[target] <= now

(* Calls go to upstreams, which are never malformed (upstreamAuthority()). *)
(* A call of a method whose service no descriptor defines has its target   *)
(* asked in the background.                                                *)
CallArrives(target, service) ==
  /\ RequestArrives
  /\ Observe(target, service)
  /\ IF MayAsk(target, service)
       THEN ImportFor({target}, {}, service) /\ Asks(target, service)
       ELSE UNCHANGED <<inFlight, fetches, askedAt>>
  /\ UNCHANGED <<descriptors, retryAt, unknownUntil, attempt, reflectAll, closed,
                 now>>

----------------------------------------------------------------------------
(* The end of an import: run() after its fetch, and the continuations of   *)
(* those who await it.                                                     *)

(* A call that waited and whose service is still not defined remembers so. *)
NoteAbsent(target, waiters) ==
  unknownUntil' = [unknownUntil EXCEPT ![target] = [s \in Services |->
    IF s \in waiters /\ ~HasService(descriptors', s) THEN now + NegativeTtl ELSE @[s]]]

AttemptEnds(target, waiters, state) ==
  attempt' = [t \in Startup |->
    IF t = target /\ "startup" \in waiters
      THEN [attempt[t] EXCEPT !.state = state] ELSE attempt[t]]

AllLearns(target, waiters, outcome) ==
  reflectAll' = IF "all" \in waiters
                  THEN [reflectAll EXCEPT ![target] = outcome] ELSE reflectAll

(* Mutant: a failure schedules the next attempt even after close().        *)
AfterFailureUnguarded(target) ==
  IF attempt[target].number >= MaxAttempts THEN "gave_up" ELSE "waiting"

(* A start-up import that failed is tried again, unless the process is being*)
(* closed or its attempts are used up.                                     *)
AfterFailure(target) ==
  IF closed THEN "stopped"
  ELSE IF attempt[target].number >= MaxAttempts THEN "gave_up" ELSE "waiting"

FetchOver(target) ==
  /\ inFlight[target] # Nil
  /\ inFlight' = [inFlight EXCEPT ![target] = Nil]
  /\ fetches' = [fetches EXCEPT ![target] = @ - 1]
  /\ UNCHANGED <<seen, closed, now, requests>>

ImportSucceeds(target) ==
  /\ FetchOver(target)
  /\ LET waiters == inFlight[target].waiters
     IN  /\ \E result \in ResultsFrom(target, inFlight[target].symbols) :
              /\ result.reason = "none"
              /\ Acceptable(result.services, result.whole)
              /\ descriptors' = Added(WithoutSource(descriptors, target), target,
                                      result.services)
         /\ retryAt' = [retryAt EXCEPT ![target] = Nil]
         /\ NoteAbsent(target, waiters)
         /\ AttemptEnds(target, waiters, "imported")
         /\ AllLearns(target, waiters, "imported")
         /\ askedAt' = [askedAt EXCEPT ![target] = [s \in Services |->
              IF s \in waiters /\ ~HasService(descriptors', s) THEN @[s] ELSE Long]]

ImportGoesWrong(target) ==
  LET waiters == inFlight[target].waiters
  IN  /\ AttemptEnds(target, waiters, AfterFailure(target))
      /\ AllLearns(target, waiters, "failed")
      /\ UNCHANGED unknownUntil

(* A target that fails has failed the calls of all its services.           *)
AskedInVain(target) ==
  \E last \in {askedAt[target][s] : s \in Services} :
    /\ \A s \in Services : askedAt[target][s] <= last
    /\ askedAt' = [askedAt EXCEPT ![target] = [s \in Services |-> last]]

(* The fetch failed; a malformed target is the caller's mistake, not a     *)
(* failure of the upstream.                                                *)
ImportFails(target) ==
  /\ FetchOver(target)
  /\ \E result \in ResultsFrom(target, inFlight[target].symbols) :
       /\ result.reason # "none"
       /\ retryAt' = IF result.reason = "invalid_target" THEN retryAt
                     ELSE [retryAt EXCEPT ![target] = now + NegativeTtl]
  /\ IF target \in Malformed THEN UNCHANGED askedAt ELSE AskedInVain(target)
  /\ UNCHANGED descriptors
  /\ ImportGoesWrong(target)

(* The fetch succeeded, but the registry does not take what it brought: the*)
(* target's earlier descriptors have been removed by then.                 *)
ImportIsRefused(target) ==
  /\ FetchOver(target)
  /\ \E result \in ResultsFrom(target, inFlight[target].symbols) :
       /\ result.reason = "none"
       /\ ~Acceptable(result.services, result.whole)
  /\ descriptors' = WithoutSource(descriptors, target)
  /\ retryAt' = [retryAt EXCEPT ![target] = now + NegativeTtl]
  /\ AskedInVain(target)
  /\ ImportGoesWrong(target)

----------------------------------------------------------------------------
(* Start-up imports, the admin API, shutdown, time                         *)

RetryTimerFires(target) ==
  /\ attempt[target].state = "waiting"
  /\ attempt' = [attempt EXCEPT ![target] =
       [number |-> @.number + 1, state |-> "importing"]]
  /\ ImportFor({target}, StartupSymbols[target], "startup")
  /\ UNCHANGED <<descriptors, retryAt, unknownUntil, askedAt, seen, reflectAll,
                 closed, now, requests>>

(* The admin server is closed in the same stretch as the importer.         *)
AdminRequest ==
  /\ ~closed
  /\ RequestArrives
  /\ UNCHANGED <<attempt, closed, now, retryAt, unknownUntil, askedAt, seen>>

(* POST descriptors:reflect                                                *)
Reflect(target, symbols) ==
  /\ AdminRequest
  /\ ImportFor({target}, symbols, "admin")
  /\ UNCHANGED <<descriptors, reflectAll>>

(* POST descriptors                                                        *)
UploadDescriptor(services) ==
  /\ AdminRequest
  /\ Acceptable(services, TRUE)
  /\ descriptors' = Added(descriptors, Upload, services)
  /\ UNCHANGED <<inFlight, fetches, reflectAll>>

(* DELETE descriptors/:id                                                  *)
DeleteDescriptor(d) ==
  /\ AdminRequest
  /\ descriptors' = descriptors \ {d}
  /\ UNCHANGED <<inFlight, fetches, reflectAll>>

(* observedTargets(): whether a target's services are all defined by now.  *)
Covered(target) ==
  /\ \A s \in seen[target] : HasService(descriptors, s)
  /\ \/ seen[target] # {}
     \/ \E d \in descriptors : d.source = target

(* POST descriptors:reflect-all                                            *)
ReflectAll(onlyMissing) ==
  LET wanted == {t \in DOMAIN seen : t \in Allowed /\ ~(onlyMissing /\ Covered(t))}
  IN  /\ AdminRequest
      /\ reflectAll = Nil
      /\ reflectAll' = [t \in DOMAIN seen |->
                          IF t \in wanted THEN "pending" ELSE "skipped"]
      /\ ImportFor(wanted, {}, "all")
      /\ UNCHANGED descriptors

ReflectAllReturns ==
  /\ reflectAll # Nil
  /\ \A t \in DOMAIN reflectAll : reflectAll[t] # "pending"
  /\ reflectAll' = Nil
  /\ UNCHANGED <<descriptors, importVars, seen, attempt, closed, now, requests>>

(* close(): armed timers are cleared.                                      *)
Close ==
  /\ ~closed
  /\ closed' = TRUE
  /\ attempt' = [t \in Startup |->
       IF attempt[t].state = "waiting"
         THEN [attempt[t] EXCEPT !.state = "stopped"] ELSE attempt[t]]
  /\ UNCHANGED <<descriptors, importVars, seen, reflectAll, now, requests>>

Tick ==
  /\ now < MaxNow
  /\ now' = now + 1
  /\ UNCHANGED <<descriptors, importVars, seen, attempt, reflectAll, closed,
                 requests>>

FetchEnds(target) ==
  ImportSucceeds(target) \/ ImportFails(target) \/ ImportIsRefused(target)

Next ==
  \/ \E t \in Targets \ Malformed, s \in Services : CallArrives(t, s)
  \/ \E t \in Targets : FetchEnds(t)
  \/ \E t \in Startup : RetryTimerFires(t)
  \/ \E t \in Targets, symbols \in Named : Reflect(t, symbols)
  \/ \E services \in Named : UploadDescriptor(services)
  \/ \E d \in descriptors : DeleteDescriptor(d)
  \/ \E onlyMissing \in BOOLEAN : ReflectAll(onlyMissing)
  \/ ReflectAllReturns
  \/ Close
  \/ Tick

(* A fetch ends: each of its calls has a timeout (reflection.ts, readReply *)
(* and sendToUpstream).  Timers fire, and an answer that is due is given.  *)
Fairness ==
  /\ \A t \in Targets : WF_vars(FetchEnds(t))
  /\ \A t \in Startup : WF_vars(RetryTimerFires(t))
  /\ WF_vars(ReflectAllReturns)

Spec == Init /\ [][Next]_vars /\ Fairness

----------------------------------------------------------------------------
(* Properties                                                              *)

(* The type invariant.                                                     *)
TypeOK ==
  /\ descriptors \subseteq Descriptor
  /\ \A d, e \in descriptors : d.id = e.id => d = e
  /\ inFlight \in [Targets -> Import \cup {Nil}]
  /\ fetches \in [Targets -> Int]
  /\ retryAt \in [Targets -> Nat \cup {Nil}]
  /\ unknownUntil \in [Targets -> [Services -> Nat \cup {Nil}]]
  /\ DOMAIN seen \subseteq Targets
  /\ \A t \in DOMAIN seen : seen[t] \subseteq Services
  /\ attempt \in [Startup -> [number : 1 .. MaxAttempts, state : AttemptStates]]
  /\ \/ reflectAll = Nil
     \/ /\ DOMAIN reflectAll \subseteq Targets
        /\ \A t \in DOMAIN reflectAll : reflectAll[t] \in Outcomes
  /\ askedAt \in [Targets -> [Services -> Int]]
  /\ closed \in BOOLEAN
  /\ {now, requests} \subseteq Nat

(* Whoever has a target asked, calls, administrators and start-up retries, *)
(* at most one fetch of it runs at a time, and it is one that the next can *)
(* join ("share one in-flight request", import()); and what was reflected  *)
(* from a target is one descriptor at most (run()).                        *)
OneImportPerTarget ==
  /\ \A t \in Targets : fetches[t] = IF inFlight[t] = Nil THEN 0 ELSE 1
  /\ \A d, e \in descriptors : d.source = e.source /\ d.source # Upload => d = e

(* A call does not have a target asked again within negativeTtlMs of the   *)
(* last time it was asked in vain: when it failed, for any of its services;*)
(* when it answered but does not have the service, for this one.  Imports  *)
(* that others make in between, start-up retries and deleted descriptors   *)
(* included, may end the wait only by being of use (ensure(), run()).      *)
VainQueriesAreSpaced ==
  [][\A t \in Targets, s \in Services :
       fetches'[t] > fetches[t] /\ inFlight'[t].waiters = {s}
         => now - askedAt[t][s] >= NegativeTtl]_vars

(* After close() no target is asked any more and no timer is armed, although*)
(* imports that were running end later and calls still arrive              *)
(* (scheduleStartupImport(), ensure(), close()).                           *)
QuietAfterClose ==
  [][closed' =>
       /\ \A t \in Startup : attempt'[t].state # "waiting"
       /\ \A t \in Targets : fetches'[t] <= fetches[t]]_vars

(* A start-up import comes to an end, at the latest with its last attempt or*)
(* the shutdown, whoever else has the same target asked; and reflect-all   *)
(* answers (scheduleStartupImport(), importObserved()).                    *)
ImportsSettle ==
  /\ \A t \in Startup : <>[](attempt[t].state \in {"imported", "gave_up", "stopped"})
  /\ (reflectAll # Nil) ~> (reflectAll = Nil)

(* An import leaves a target that had descriptors with descriptors: "a     *)
(* successful import replaces the descriptors previously imported from that*)
(* target" (reflection-import.ts:174), one that fails does not.            *)
FailedImportKeepsDescriptors ==
  [][\A t \in {d.source : d \in descriptors} \cap Targets :
       inFlight[t] # Nil /\ inFlight'[t] = Nil
         => t \in {d.source : d \in descriptors'}]_vars
=============================================================================
