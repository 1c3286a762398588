------------------------ MODULE ReflectionImportProofs ------------------------
(***************************************************************************)
(* Proofs about the reflection importer, for any targets, services and     *)
(* bounds: imports are shared, shutdown silences it, and calls do not have *)
(* an upstream asked again and again for what it does not have.            *)
(***************************************************************************)
EXTENDS ReflectionImport, TLAPS

(* Imports that run, and the descriptors they leave.                       *)
ImportTypes ==
  /\ inFlight \in [Targets -> Import \cup {Nil}]
  /\ fetches \in [Targets -> Int]

FetchesAreShared ==
  \A t \in Targets : fetches[t] = IF inFlight[t] = Nil THEN 0 ELSE 1

OneDescriptorEach ==
  \A d, e \in descriptors : d.source = e.source /\ d.source # Upload => d = e

ShareInv == ImportTypes /\ FetchesAreShared /\ OneDescriptorEach

(* Start-up attempts.                                                      *)
AttemptTypes ==
  /\ attempt \in [Startup -> [number : Int, state : AttemptStates]]
  /\ closed \in BOOLEAN

ClosedIsQuiet == closed => \A t \in Startup : attempt[t].state # "waiting"

QuietInv == AttemptTypes /\ ClosedIsQuiet

(* What is remembered of targets that were asked in vain.                  *)
VainTypes ==
  /\ now \in Nat
  /\ retryAt \in [Targets -> Nat \cup {Nil}]
  /\ unknownUntil \in [Targets -> [Services -> Nat \cup {Nil}]]
  /\ askedAt \in [Targets -> [Services -> Int]]

AskedInThePast == \A t \in Targets, s \in Services : askedAt[t][s] <= now

(* Of a target that is not being asked, the wait since it was asked in vain*)
(* is over, or the target or the service is remembered until it is.        *)
Remembered(t, s) ==
  \/ askedAt[t][s] + NegativeTtl <= now
  \/ retryAt[t] # Nil /\ askedAt[t][s] + NegativeTtl <= retryAt[t]
  \/ unknownUntil[t][s] # Nil /\ askedAt[t][s] + NegativeTtl <= unknownUntil[t][s]

VainIsRemembered ==
  \A t \in Targets \ Malformed, s \in Services :
    inFlight[t] = Nil => Remembered(t, s)

VainInv == VainTypes /\ AskedInThePast /\ VainIsRemembered

----------------------------------------------------------------------------
(* Imports are shared                                                      *)

(* import(): an import is started for targets that have none, and joined   *)
(* otherwise; either way there is one.                                     *)
LEMMA ImportForShares ==
  ASSUME ImportTypes, FetchesAreShared,
         NEW targets, NEW symbols \in SUBSET Services, NEW waiter \in Waiters,
         ImportFor(targets, symbols, waiter)
  PROVE  /\ ImportTypes' /\ FetchesAreShared'
         /\ \A t \in Targets :
              /\ inFlight'[t] = Nil => inFlight[t] = Nil
              /\ t \in targets => inFlight'[t] # Nil
              /\ t \notin targets => inFlight'[t] = inFlight[t] /\ fetches'[t] = fetches[t]
  <1> DEFINE fresh == [symbols |-> symbols, waiters |-> {waiter}]
             joined(t) == [inFlight[t] EXCEPT !.waiters = @ \cup {waiter}]
             idle == {t \in targets : inFlight[t] = Nil}
  <1>1. fresh \in Import /\ fresh # Nil
    BY NilIsNone DEF Import
  <1>2. ASSUME NEW t \in Targets, inFlight[t] # Nil
        PROVE  joined(t) \in Import /\ joined(t) # Nil
    <2>1. inFlight[t] \in Import
      BY <1>2 DEF ImportTypes
    <2> QED
      BY <2>1, NilIsNone DEF Import
  <1>3. /\ inFlight' = [t \in Targets |->
             IF t \notin targets THEN inFlight[t]
             ELSE IF t \in idle THEN fresh ELSE joined(t)]
        /\ fetches' = [t \in Targets |-> fetches[t] + (IF t \in idle THEN 1 ELSE 0)]
    BY DEF ImportFor
  <1> HIDE DEF fresh, joined
  <1>4. ASSUME NEW t \in Targets
        PROVE  /\ inFlight'[t] \in Import \cup {Nil} /\ fetches'[t] \in Int
               /\ fetches'[t] = IF inFlight'[t] = Nil THEN 0 ELSE 1
               /\ inFlight'[t] = Nil => inFlight[t] = Nil
               /\ t \in targets => inFlight'[t] # Nil
               /\ t \notin targets => inFlight'[t] = inFlight[t] /\ fetches'[t] = fetches[t]
    <2>0. /\ inFlight[t] \in Import \cup {Nil} /\ fetches[t] \in Int
          /\ fetches[t] = IF inFlight[t] = Nil THEN 0 ELSE 1
      BY DEF ImportTypes, FetchesAreShared
    <2>1. CASE t \notin targets
      <3>1. inFlight'[t] = inFlight[t] /\ fetches'[t] = fetches[t] + 0
        BY <1>3, <2>1
      <3> QED
        BY <2>0, <2>1, <3>1
    <2>2. CASE t \in targets /\ inFlight[t] = Nil
      <3>1. inFlight'[t] = fresh /\ fetches'[t] = fetches[t] + 1
        BY <1>3, <2>2
      <3> QED
        BY <1>1, <2>0, <2>2, <3>1
    <2>3. CASE t \in targets /\ inFlight[t] # Nil
      <3>1. inFlight'[t] = joined(t) /\ fetches'[t] = fetches[t] + 0
        BY <1>3, <2>3
      <3> QED
        BY <1>2, <2>0, <2>3, <3>1
    <2> QED
      BY <2>1, <2>2, <2>3
  <1>5. inFlight' \in [Targets -> Import \cup {Nil}] /\ fetches' \in [Targets -> Int]
    BY <1>3, <1>4
  <1> QED
    BY <1>4, <1>5 DEF ImportTypes, FetchesAreShared

(* A fetch is started for a target that has none, and for one waiter.      *)
LEMMA ImportForStarts ==
  ASSUME ImportTypes, FetchesAreShared,
         NEW targets, NEW symbols, NEW waiter, ImportFor(targets, symbols, waiter),
         NEW t \in Targets, fetches'[t] > fetches[t]
  PROVE  /\ t \in targets /\ inFlight[t] = Nil
         /\ inFlight'[t].waiters = {waiter}
  <1> DEFINE fresh == [symbols |-> symbols, waiters |-> {waiter}]
             idle == {u \in targets : inFlight[u] = Nil}
  <1>1. fetches'[t] = fetches[t] + (IF t \in idle THEN 1 ELSE 0)
    BY DEF ImportFor
  <1>2. t \in idle
    BY <1>1 DEF ImportTypes
  <1>3. inFlight'[t] = fresh
    BY <1>2 DEF ImportFor
  <1> QED
    BY <1>2, <1>3

(* The end of a fetch leaves none for its target.                          *)
LEMMA FetchOverShares ==
  ASSUME ImportTypes, FetchesAreShared, NEW target \in Targets, FetchOver(target)
  PROVE  /\ ImportTypes' /\ FetchesAreShared'
         /\ inFlight[target] # Nil
         /\ \A t \in Targets : t # target => inFlight'[t] = inFlight[t]
         /\ \A t \in Targets : fetches'[t] <= fetches[t]
  BY DEF FetchOver, ImportTypes, FetchesAreShared

(* What an import brings takes the place of what it brought before.        *)
LEMMA AddedReplaces ==
  ASSUME OneDescriptorEach, NEW source, NEW services, NEW stored \in SUBSET descriptors,
         source = Upload \/ \A d \in stored : d.source # source,
         descriptors' = Added(stored, source, services)
  PROVE  OneDescriptorEach'
  <1> DEFINE new == [id |-> FreshId(stored), source |-> source, services |-> services]
  <1>1. descriptors' = stored \cup {new} /\ new.source = source
    BY DEF Added
  <1> HIDE DEF new
  <1> QED
    BY <1>1 DEF OneDescriptorEach

(* Every import is started by ImportFor and ended by FetchOver.            *)
LEMMA ShareInvIsKept == Spec => []ShareInv
  <1>1. Init => ShareInv
    <2> SUFFICES ASSUME Init PROVE ShareInv
      OBVIOUS
    <2>1. \A t \in Startup :
            [symbols |-> StartupSymbols[t], waiters |-> {"startup"}] \in Import
      BY ImportConstants DEF Import, Waiters
    <2> QED
      BY <2>1, NilIsNone
      DEF Init, ShareInv, ImportTypes, FetchesAreShared, OneDescriptorEach
  <1>2. ShareInv /\ [Next]_vars => ShareInv'
    <2> SUFFICES ASSUME ShareInv, [Next]_vars PROVE ShareInv'
      OBVIOUS
    <2>0. ImportTypes /\ FetchesAreShared /\ OneDescriptorEach
      BY DEF ShareInv
    <2>1. CASE UNCHANGED <<inFlight, fetches, descriptors>>
      BY <2>0, <2>1 DEF ShareInv, ImportTypes, FetchesAreShared, OneDescriptorEach
    <2>2. ASSUME NEW t \in Targets \ Malformed, NEW s \in Services, CallArrives(t, s)
          PROVE  ShareInv'
      <3>1. CASE MayAsk(t, s)
        <4>1. ImportFor({t}, {}, s) /\ s \in Waiters /\ descriptors' = descriptors
          BY <2>2, <3>1 DEF CallArrives, Waiters
        <4> QED
          BY <2>0, <4>1, ImportForShares DEF ShareInv, OneDescriptorEach
      <3>2. CASE ~MayAsk(t, s)
        BY <2>1, <2>2, <3>2 DEF CallArrives
      <3> QED
        BY <3>1, <3>2
    <2>3. ASSUME NEW t \in Targets, FetchEnds(t)
          PROVE  ShareInv'
      <3>1. FetchOver(t)
        BY <2>3 DEF FetchEnds, ImportSucceeds, ImportFails, ImportIsRefused
      <3>2. ImportTypes' /\ FetchesAreShared'
        BY <2>0, <3>1, FetchOverShares
      <3>3. CASE ImportSucceeds(t)
        <4>1. PICK result \in ResultsFrom(t, inFlight[t].symbols) :
                descriptors' = Added(WithoutSource(descriptors, t), t, result.services)
          BY <3>3 DEF ImportSucceeds
        <4>2. /\ WithoutSource(descriptors, t) \in SUBSET descriptors
              /\ \A d \in WithoutSource(descriptors, t) : d.source # t
          BY DEF WithoutSource
        <4> QED
          BY <2>0, <3>2, <4>1, <4>2, AddedReplaces DEF ShareInv
      <3>4. CASE ImportFails(t)
        BY <2>0, <3>2, <3>4 DEF ShareInv, ImportFails, OneDescriptorEach
      <3>5. CASE ImportIsRefused(t)
        BY <2>0, <3>2, <3>5 DEF ShareInv, ImportIsRefused, OneDescriptorEach, WithoutSource
      <3> QED
        BY <2>3, <3>3, <3>4, <3>5 DEF FetchEnds
    <2>4. ASSUME NEW t \in Startup, RetryTimerFires(t)
          PROVE  ShareInv'
      <3>1. /\ ImportFor({t}, StartupSymbols[t], "startup")
            /\ StartupSymbols[t] \in SUBSET Services /\ "startup" \in Waiters
            /\ descriptors' = descriptors
        BY <2>4, ImportConstants DEF RetryTimerFires, Waiters
      <3> QED
        BY <2>0, <3>1, ImportForShares DEF ShareInv, OneDescriptorEach
    <2>5. ASSUME NEW t \in Targets, NEW symbols \in Named, Reflect(t, symbols)
          PROVE  ShareInv'
      <3>1. /\ ImportFor({t}, symbols, "admin")
            /\ symbols \in SUBSET Services /\ "admin" \in Waiters
            /\ descriptors' = descriptors
        BY <2>5, ImportConstants DEF Reflect, Waiters
      <3> QED
        BY <2>0, <3>1, ImportForShares DEF ShareInv, OneDescriptorEach
    <2>6. ASSUME NEW services \in Named, UploadDescriptor(services)
          PROVE  ShareInv'
      <3>1. descriptors' = Added(descriptors, Upload, services)
        BY <2>6 DEF UploadDescriptor
      <3> QED
        BY <2>0, <2>6, <3>1, AddedReplaces
        DEF UploadDescriptor, ShareInv, ImportTypes, FetchesAreShared
    <2>7. ASSUME NEW d \in descriptors, DeleteDescriptor(d)
          PROVE  ShareInv'
      BY <2>0, <2>7
      DEF DeleteDescriptor, ShareInv, ImportTypes, FetchesAreShared, OneDescriptorEach
    <2>8. ASSUME NEW onlyMissing \in BOOLEAN, ReflectAll(onlyMissing)
          PROVE  ShareInv'
      <3>1. PICK wanted \in SUBSET DOMAIN seen :
              ImportFor(wanted, {}, "all") /\ descriptors' = descriptors
        BY <2>8 DEF ReflectAll
      <3> QED
        BY <2>0, <3>1, ImportForShares DEF ShareInv, OneDescriptorEach, Waiters
    <2> QED
      BY <2>1, <2>2, <2>3, <2>4, <2>5, <2>6, <2>7, <2>8
      DEF Next, ReflectAllReturns, Close, Tick, vars, importVars
  <1> QED
    BY <1>1, <1>2, PTL DEF Spec

----------------------------------------------------------------------------
(* Shutdown                                                                *)

(* How an attempt may change when an import ends.                          *)
LEMMA AttemptEndsQuietly ==
  ASSUME QuietInv, NEW target \in Targets, NEW waiters, NEW state \in AttemptStates,
         closed => state # "waiting",
         AttemptEnds(target, waiters, state), closed' = closed
  PROVE  QuietInv'
  <1>1. ASSUME NEW t \in Startup
        PROVE  /\ attempt'[t] \in [number : Int, state : AttemptStates]
               /\ attempt'[t] = attempt[t] \/ attempt'[t].state = state
    <2>1. attempt[t] \in [number : Int, state : AttemptStates]
      BY DEF QuietInv, AttemptTypes
    <2>2. \/ attempt'[t] = attempt[t]
          \/ attempt'[t] = [attempt[t] EXCEPT !.state = state]
      BY DEF AttemptEnds
    <2> QED
      BY <2>1, <2>2
  <1>2. attempt' = [t \in Startup |-> attempt'[t]]
    BY DEF AttemptEnds
  <1>3. attempt' \in [Startup -> [number : Int, state : AttemptStates]]
    BY <1>1, <1>2
  <1> QED
    BY <1>1, <1>3 DEF QuietInv, AttemptTypes, ClosedIsQuiet

(* close() clears the timers, and none is armed after it.                  *)
LEMMA QuietInvIsKept == Spec => []QuietInv
  <1>1. Init => QuietInv
    <2> SUFFICES ASSUME Init PROVE QuietInv
      OBVIOUS
    <2>1. /\ attempt = [t \in Startup |-> [number |-> 1, state |-> "importing"]]
          /\ closed = FALSE
      BY DEF Init
    <2>2. attempt \in [Startup -> [number : Int, state : AttemptStates]]
      BY <2>1 DEF AttemptStates
    <2> QED
      BY <2>1, <2>2 DEF QuietInv, AttemptTypes, ClosedIsQuiet
  <1>2. QuietInv /\ [Next]_vars => QuietInv'
    <2> SUFFICES ASSUME QuietInv, [Next]_vars PROVE QuietInv'
      OBVIOUS
    <2>0. AttemptTypes /\ ClosedIsQuiet
      BY DEF QuietInv
    <2>1. CASE UNCHANGED <<attempt, closed>>
      BY <2>0, <2>1 DEF QuietInv, AttemptTypes, ClosedIsQuiet
    <2>2. ASSUME NEW t \in Targets, FetchEnds(t)
          PROVE  QuietInv'
      <3>1. closed' = closed
        BY <2>2 DEF FetchEnds, ImportSucceeds, ImportFails, ImportIsRefused, FetchOver
      <3>2. /\ AfterFailure(t) \in AttemptStates
            /\ closed => AfterFailure(t) # "waiting"
        BY DEF AfterFailure, AttemptStates
      <3>3. "imported" \in AttemptStates /\ "imported" # "waiting"
        BY DEF AttemptStates
      <3>4. PICK state \in {"imported", AfterFailure(t)} :
              AttemptEnds(t, inFlight[t].waiters, state)
        BY <2>2 DEF FetchEnds, ImportSucceeds, ImportFails, ImportIsRefused, ImportGoesWrong
      <3> QED
        BY <3>1, <3>2, <3>3, <3>4, AttemptEndsQuietly
    <2>3. ASSUME NEW t \in Startup, RetryTimerFires(t)
          PROVE  QuietInv'
      <3>1. /\ attempt' = [attempt EXCEPT ![t] =
                 [number |-> attempt[t].number + 1, state |-> "importing"]]
            /\ closed' = closed
        BY <2>0, <2>3 DEF RetryTimerFires, AttemptTypes
      <3> QED
        BY <2>0, <3>1 DEF QuietInv, AttemptTypes, ClosedIsQuiet, AttemptStates
    <2>4. CASE Close
      <3>1. /\ closed' = TRUE
            /\ attempt' = [t \in Startup |->
                 IF attempt[t].state = "waiting"
                   THEN [attempt[t] EXCEPT !.state = "stopped"] ELSE attempt[t]]
        BY <2>4 DEF Close
      <3>2. ASSUME NEW t \in Startup
            PROVE  /\ attempt'[t] \in [number : Int, state : AttemptStates]
                   /\ attempt'[t].state # "waiting"
        <4>1. attempt[t] \in [number : Int, state : AttemptStates]
          BY <2>0 DEF AttemptTypes
        <4> QED
          BY <3>1, <4>1 DEF AttemptStates
      <3>3. attempt' \in [Startup -> [number : Int, state : AttemptStates]]
        BY <3>1, <3>2
      <3> QED
        BY <3>1, <3>2, <3>3 DEF QuietInv, AttemptTypes, ClosedIsQuiet
    <2> QED
      BY <2>1, <2>2, <2>3, <2>4
      DEF Next, CallArrives, Reflect, UploadDescriptor, DeleteDescriptor, AdminRequest,
          ReflectAll, ReflectAllReturns, Tick, vars
  <1> QED
    BY <1>1, <1>2, PTL DEF Spec

----------------------------------------------------------------------------
(* Queries in vain                                                         *)

(* Only a malformed target has a fetch fail for being malformed.           *)
LEMMA ReasonsOfReplies ==
  ASSUME NEW reply \in Replies
  PROVE  ReasonOf(reply) # "invalid_target"
  BY Zenon DEF ReasonOf, Replies

LEMMA ReasonsOfProtocols ==
  ASSUME NEW server \in Servers, NEW protocol \in Protocols, NEW symbols
  PROVE  WithProtocol(server, protocol, symbols).reason # "invalid_target"
  <1> DEFINE asked == IF symbols = {} THEN server.listed ELSE symbols
             missing == asked \ server.resolved
  <1>1. server.reply[protocol] \in Replies
    BY DEF Servers
  <1>2. ReasonOf(server.reply[protocol]) # "invalid_target"
    BY <1>1, ReasonsOfReplies
  <1>3. \A reason : Failed(reason).reason = reason
    BY DEF Failed
  <1>4. CASE ReasonOf(server.reply[protocol]) # "none"
    BY <1>2, <1>3, <1>4 DEF WithProtocol
  <1> QED
    BY <1>2, <1>3 DEF WithProtocol

LEMMA ReasonsOfFetches ==
  ASSUME NEW target \in Targets \ Malformed, NEW symbols,
         NEW result \in ResultsFrom(target, symbols)
  PROVE  result.reason # "invalid_target"
  <1>1. PICK server \in Servers : result = Fetched(server, symbols)
    BY DEF ResultsFrom, Fetches
  <1> QED
    BY <1>1, ReasonsOfProtocols DEF Fetched, Protocols

(* A target for which a wait was entered is remembered.                    *)
LEMMA FailureIsRemembered ==
  ASSUME VainTypes, AskedInThePast, NEW target \in Targets,
         AskedInVain(target), now' = now,
         retryAt' = [retryAt EXCEPT ![target] = now + NegativeTtl]
  PROVE  /\ askedAt' \in [Targets -> [Services -> Int]]
         /\ retryAt' \in [Targets -> Nat \cup {Nil}]
         /\ AskedInThePast'
         /\ \A s \in Services : Remembered(target, s)'
         /\ \A t \in Targets : t # target
              => askedAt'[t] = askedAt[t] /\ retryAt'[t] = retryAt[t]
  <1>1. PICK last \in {askedAt[target][s] : s \in Services} :
          askedAt' = [askedAt EXCEPT ![target] = [s \in Services |-> last]]
    BY DEF AskedInVain
  <1>2. last \in Int /\ last <= now
    BY DEF VainTypes, AskedInThePast
  <1>3. now + NegativeTtl \in Nat /\ NegativeTtl \in Nat /\ now \in Nat
    BY ImportConstants DEF VainTypes
  <1>4. /\ askedAt' \in [Targets -> [Services -> Int]]
        /\ \A s \in Services : askedAt'[target][s] = last
        /\ \A t \in Targets : t # target => askedAt'[t] = askedAt[t]
    BY <1>1, <1>2 DEF VainTypes
  <1>5. /\ retryAt' \in [Targets -> Nat \cup {Nil}]
        /\ retryAt'[target] = now + NegativeTtl
        /\ \A t \in Targets : t # target => retryAt'[t] = retryAt[t]
    BY <1>3 DEF VainTypes
  <1>6. AskedInThePast'
    BY <1>2, <1>4 DEF AskedInThePast
  <1>7. \A s \in Services : Remembered(target, s)'
    <2> SUFFICES ASSUME NEW s \in Services PROVE Remembered(target, s)'
      OBVIOUS
    <2>1. retryAt'[target] # Nil
      BY <1>3, <1>5, NilIsNone
    <2> QED
      BY <1>2, <1>3, <1>4, <1>5, <2>1 DEF Remembered
  <1> QED
    BY <1>4, <1>5, <1>6, <1>7

(* A step that leaves what is remembered alone and ends no import.         *)
LEMMA RememberedStays ==
  ASSUME VainInv, UNCHANGED <<now, retryAt, unknownUntil>>,
         askedAt' \in [Targets -> [Services -> Int]], AskedInThePast',
         \A t \in Targets : inFlight'[t] = Nil
           => inFlight[t] = Nil /\ askedAt'[t] = askedAt[t]
  PROVE  VainInv'
  <1>1. VainTypes'
    BY DEF VainInv, VainTypes
  <1>2. VainIsRemembered'
    BY DEF VainInv, VainIsRemembered, Remembered
  <1> QED
    BY <1>1, <1>2 DEF VainInv

(* An import that succeeds is of use, or its service is remembered.        *)
LEMMA SuccessIsRemembered ==
  ASSUME VainInv, ImportTypes, FetchesAreShared,
         NEW target \in Targets, ImportSucceeds(target)
  PROVE  VainInv'
  <1> DEFINE waiters == inFlight[target].waiters
             vain(s) == s \in waiters /\ ~HasService(descriptors', s)
  <1>0. VainTypes /\ AskedInThePast /\ VainIsRemembered
    BY DEF VainInv
  <1>1. /\ FetchOver(target) /\ now' = now
        /\ retryAt' = [retryAt EXCEPT ![target] = Nil]
        /\ unknownUntil' = [unknownUntil EXCEPT ![target] = [s \in Services |->
             IF vain(s) THEN now + NegativeTtl ELSE unknownUntil[target][s]]]
        /\ askedAt' = [askedAt EXCEPT ![target] = [s \in Services |->
             IF vain(s) THEN askedAt[target][s] ELSE Long]]
    BY <1>0 DEF ImportSucceeds, FetchOver, NoteAbsent, VainTypes
  <1> HIDE DEF vain
  <1>2. /\ NegativeTtl \in Nat /\ Long = -NegativeTtl /\ now \in Nat
        /\ now + NegativeTtl \in Nat /\ Long \in Int /\ Long <= now
    BY <1>0, ImportConstants DEF Long, VainTypes
  <1>3. VainTypes'
    <2>1. [s \in Services |-> IF vain(s) THEN now + NegativeTtl ELSE unknownUntil[target][s]]
            \in [Services -> Nat \cup {Nil}]
      BY <1>0, <1>2 DEF VainTypes
    <2>2. [s \in Services |-> IF vain(s) THEN askedAt[target][s] ELSE Long]
            \in [Services -> Int]
      BY <1>0, <1>2 DEF VainTypes
    <2> QED
      BY <1>0, <1>1, <2>1, <2>2 DEF VainTypes
  <1>4. ASSUME NEW s \in Services
        PROVE  /\ askedAt'[target][s] = IF vain(s) THEN askedAt[target][s] ELSE Long
               /\ vain(s) => unknownUntil'[target][s] = now + NegativeTtl
    BY <1>0, <1>1 DEF VainTypes
  <1>5. \A t \in Targets : t # target =>
          /\ askedAt'[t] = askedAt[t] /\ retryAt'[t] = retryAt[t]
          /\ unknownUntil'[t] = unknownUntil[t] /\ inFlight'[t] = inFlight[t]
    BY <1>0, <1>1, FetchOverShares DEF VainTypes
  <1>6. AskedInThePast'
    <2> SUFFICES ASSUME NEW t \in Targets, NEW s \in Services
                 PROVE  askedAt'[t][s] <= now'
      BY DEF AskedInThePast
    <2>1. CASE t = target
      BY <1>0, <1>1, <1>2, <1>4, <2>1 DEF AskedInThePast
    <2>2. CASE t # target
      BY <1>0, <1>1, <1>5, <2>2 DEF AskedInThePast
    <2> QED
      BY <2>1, <2>2
  <1>7. ASSUME NEW s \in Services PROVE Remembered(target, s)'
    <2>1. CASE vain(s)
      <3>1. /\ unknownUntil'[target][s] = now + NegativeTtl
            /\ unknownUntil'[target][s] # Nil
        BY <1>2, <1>4, <2>1, NilIsNone
      <3>2. /\ askedAt'[target][s] = askedAt[target][s]
            /\ askedAt[target][s] \in Int /\ askedAt[target][s] <= now
        BY <1>0, <1>4, <2>1 DEF VainTypes, AskedInThePast
      <3> QED
        BY <1>2, <3>1, <3>2 DEF Remembered
    <2>2. CASE ~vain(s)
      <3>1. askedAt'[target][s] = Long
        BY <1>4, <2>2
      <3> QED
        BY <1>1, <1>2, <3>1 DEF Remembered
    <2> QED
      BY <2>1, <2>2
  <1>8. VainIsRemembered'
    BY <1>0, <1>1, <1>5, <1>7 DEF VainIsRemembered, Remembered
  <1> QED
    BY <1>3, <1>6, <1>8 DEF VainInv

(* An import that fails has its target remembered.                         *)
LEMMA FailureStep ==
  ASSUME VainInv, ImportTypes, FetchesAreShared, NEW target \in Targets,
         FetchOver(target), AskedInVain(target),
         retryAt' = [retryAt EXCEPT ![target] = now + NegativeTtl],
         UNCHANGED unknownUntil
  PROVE  VainInv'
  <1>0. VainTypes /\ AskedInThePast /\ VainIsRemembered
    BY DEF VainInv
  <1>1. now' = now
    BY DEF FetchOver
  <1>2. /\ askedAt' \in [Targets -> [Services -> Int]]
        /\ retryAt' \in [Targets -> Nat \cup {Nil}]
        /\ AskedInThePast'
        /\ \A s \in Services : Remembered(target, s)'
        /\ \A t \in Targets : t # target
             => askedAt'[t] = askedAt[t] /\ retryAt'[t] = retryAt[t]
    BY <1>0, <1>1, FailureIsRemembered
  <1>3. \A t \in Targets : t # target => inFlight'[t] = inFlight[t]
    BY FetchOverShares
  <1>4. VainIsRemembered'
    BY <1>0, <1>1, <1>2, <1>3 DEF VainIsRemembered, Remembered
  <1> QED
    BY <1>0, <1>1, <1>2, <1>4 DEF VainInv, VainTypes

(* What an end of an import leaves to be remembered is remembered, and only*)
(* calls add to it.                                                        *)
LEMMA VainInvIsKept == Spec => []VainInv
  <1>1. Init => VainInv
    <2> SUFFICES ASSUME Init PROVE VainInv
      OBVIOUS
    <2>1. /\ now = 0
          /\ retryAt = [t \in Targets |-> Nil]
          /\ unknownUntil = [t \in Targets |-> [s \in Services |-> Nil]]
          /\ askedAt = [t \in Targets |-> [s \in Services |-> Long]]
      BY DEF Init
    <2>2. NegativeTtl \in Nat /\ Long = -NegativeTtl /\ Long \in Int /\ Long <= 0
      BY ImportConstants DEF Long
    <2>3. VainTypes
      BY <2>1, <2>2 DEF VainTypes
    <2>4. \A t \in Targets, s \in Services : askedAt[t][s] = Long
      BY <2>1
    <2> QED
      BY <2>1, <2>2, <2>3, <2>4 DEF VainInv, AskedInThePast, VainIsRemembered, Remembered
  <1>2. VainInv /\ ShareInv /\ [Next]_vars => VainInv'
    <2> SUFFICES ASSUME VainInv, ShareInv, [Next]_vars PROVE VainInv'
      OBVIOUS
    <2>0. /\ VainTypes /\ AskedInThePast /\ VainIsRemembered
          /\ ImportTypes /\ FetchesAreShared
      BY DEF VainInv, ShareInv
    <2>1. ASSUME UNCHANGED <<now, retryAt, unknownUntil, askedAt>>,
                 \A t \in Targets : inFlight'[t] = Nil => inFlight[t] = Nil
          PROVE  VainInv'
      <3>1. askedAt' \in [Targets -> [Services -> Int]] /\ AskedInThePast'
        BY <2>0, <2>1 DEF VainTypes, AskedInThePast
      <3> QED
        BY <2>1, <3>1, RememberedStays
    <2>2. ASSUME NEW t \in Targets \ Malformed, NEW s \in Services, CallArrives(t, s)
          PROVE  VainInv'
      <3>0. UNCHANGED <<now, retryAt, unknownUntil>>
        BY <2>2 DEF CallArrives
      <3>1. CASE MayAsk(t, s)
        <4>1. ImportFor({t}, {}, s) /\ s \in Waiters /\ Asks(t, s)
          BY <2>2, <3>1 DEF CallArrives, Waiters
        <4>2. /\ inFlight'[t] # Nil
              /\ \A u \in Targets : inFlight'[u] = Nil => inFlight[u] = Nil
          BY <2>0, <4>1, ImportForShares
        <4>3. /\ askedAt' \in [Targets -> [Services -> Int]]
              /\ \A u \in Targets : u # t => askedAt'[u] = askedAt[u]
              /\ \A r \in Services : askedAt'[t][r] \in {now, askedAt[t][r]}
          BY <2>0, <4>1 DEF Asks, VainTypes
        <4>4. AskedInThePast'
          <5> SUFFICES ASSUME NEW u \in Targets, NEW r \in Services
                       PROVE  askedAt'[u][r] <= now'
            BY DEF AskedInThePast
          <5>1. askedAt'[u][r] \in {now, askedAt[u][r]}
            BY <4>3
          <5>2. now' = now /\ now \in Nat /\ askedAt[u][r] <= now
            BY <2>0, <3>0 DEF AskedInThePast, VainTypes
          <5> QED
            BY <5>1, <5>2
        <4> QED
          BY <3>0, <4>2, <4>3, <4>4, RememberedStays
      <3>2. CASE ~MayAsk(t, s)
        BY <2>1, <2>2, <3>0, <3>2 DEF CallArrives
      <3> QED
        BY <3>1, <3>2
    <2>3. ASSUME NEW t \in Targets, ImportSucceeds(t)
          PROVE  VainInv'
      BY <2>0, <2>3, SuccessIsRemembered
    <2>4. ASSUME NEW t \in Targets, ImportFails(t)
          PROVE  VainInv'
      <3>1. PICK result \in ResultsFrom(t, inFlight[t].symbols) :
              retryAt' = IF result.reason = "invalid_target" THEN retryAt
                         ELSE [retryAt EXCEPT ![t] = now + NegativeTtl]
        BY <2>4 DEF ImportFails
      <3>2. FetchOver(t) /\ UNCHANGED unknownUntil /\ now' = now
        BY <2>4 DEF ImportFails, ImportGoesWrong, FetchOver
      <3>3. CASE t \notin Malformed
        <4>1. result.reason # "invalid_target"
          BY <3>3, ReasonsOfFetches
        <4> QED
          BY <2>0, <2>4, <3>1, <3>2, <3>3, <4>1, FailureStep DEF ImportFails
      <3>4. CASE t \in Malformed
        <4>1. askedAt' = askedAt
          BY <2>4, <3>4 DEF ImportFails
        <4>2. now + NegativeTtl \in Nat
          BY <2>0, ImportConstants DEF VainTypes
        <4>3. /\ retryAt' \in [Targets -> Nat \cup {Nil}]
              /\ \A u \in Targets : u # t => retryAt'[u] = retryAt[u]
          BY <2>0, <3>1, <4>2 DEF VainTypes
        <4>4. \A u \in Targets : u # t => inFlight'[u] = inFlight[u]
          BY <2>0, <3>2, FetchOverShares
        <4>5. VainTypes' /\ AskedInThePast'
          BY <2>0, <3>2, <4>1, <4>3 DEF VainTypes, AskedInThePast
        <4>6. VainIsRemembered'
          BY <2>0, <3>2, <3>4, <4>1, <4>3, <4>4 DEF VainIsRemembered, Remembered
        <4> QED
          BY <4>5, <4>6 DEF VainInv
      <3> QED
        BY <3>3, <3>4
    <2>5. ASSUME NEW t \in Targets, ImportIsRefused(t)
          PROVE  VainInv'
      BY <2>0, <2>5, FailureStep DEF ImportIsRefused, ImportGoesWrong
    <2>6. ASSUME NEW t \in Startup, RetryTimerFires(t)
          PROVE  VainInv'
      <3>1. /\ ImportFor({t}, StartupSymbols[t], "startup")
            /\ StartupSymbols[t] \in SUBSET Services /\ "startup" \in Waiters
        BY <2>6, ImportConstants DEF RetryTimerFires, Waiters
      <3>2. \A u \in Targets : inFlight'[u] = Nil => inFlight[u] = Nil
        BY <2>0, <3>1, ImportForShares
      <3> QED
        BY <2>1, <2>6, <3>2 DEF RetryTimerFires
    <2>7. ASSUME NEW t \in Targets, NEW symbols \in Named, Reflect(t, symbols)
          PROVE  VainInv'
      <3>1. /\ ImportFor({t}, symbols, "admin")
            /\ symbols \in SUBSET Services /\ "admin" \in Waiters
        BY <2>7, ImportConstants DEF Reflect, Waiters
      <3>2. \A u \in Targets : inFlight'[u] = Nil => inFlight[u] = Nil
        BY <2>0, <3>1, ImportForShares
      <3> QED
        BY <2>1, <2>7, <3>2 DEF Reflect, AdminRequest
    <2>8. ASSUME NEW onlyMissing \in BOOLEAN, ReflectAll(onlyMissing)
          PROVE  VainInv'
      <3>1. PICK wanted \in SUBSET DOMAIN seen : ImportFor(wanted, {}, "all")
        BY <2>8 DEF ReflectAll
      <3>2. \A u \in Targets : inFlight'[u] = Nil => inFlight[u] = Nil
        BY <2>0, <3>1, ImportForShares DEF Waiters
      <3> QED
        BY <2>1, <2>8, <3>2 DEF ReflectAll, AdminRequest
    <2>9. CASE Tick
      <3>1. /\ now' = now + 1
            /\ UNCHANGED <<inFlight, retryAt, unknownUntil, askedAt>>
        BY <2>9 DEF Tick, importVars
      <3>2. VainTypes' /\ AskedInThePast'
        BY <2>0, <3>1 DEF VainTypes, AskedInThePast
      <3>3. NegativeTtl \in Nat
        BY ImportConstants
      <3>4. ASSUME NEW t \in Targets, NEW s \in Services, Remembered(t, s)
            PROVE  Remembered(t, s)'
        <4>1. askedAt[t][s] \in Int /\ now \in Nat
          BY <2>0 DEF VainTypes
        <4> QED
          BY <3>1, <3>3, <3>4, <4>1 DEF Remembered
      <3>5. VainIsRemembered'
        BY <2>0, <3>1, <3>4 DEF VainIsRemembered
      <3> QED
        BY <3>2, <3>5 DEF VainInv
    <2>10. CASE UNCHANGED <<inFlight, retryAt, unknownUntil, askedAt, now>>
      BY <2>1, <2>10
    <2> QED
      BY <2>2, <2>3, <2>4, <2>5, <2>6, <2>7, <2>8, <2>9, <2>10
      DEF Next, FetchEnds, UploadDescriptor, DeleteDescriptor, AdminRequest,
          ReflectAllReturns, Close, vars, importVars
  <1> QED
    BY <1>1, <1>2, ShareInvIsKept, PTL DEF Spec

----------------------------------------------------------------------------
(* Theorems                                                                *)

(* Whoever has targets asked, each is asked once at a time, and has at most*)
(* one reflected descriptor, for any number of targets and requests        *)
(* (import(), run()).                                                      *)
THEOREM ImportsAreShared == Spec => []OneImportPerTarget
  <1>1. ShareInv => OneImportPerTarget
    BY DEF ShareInv, FetchesAreShared, OneDescriptorEach, OneImportPerTarget
  <1> QED
    BY <1>1, ShareInvIsKept, PTL

(* After close() no step arms a timer or asks a target: not the imports that*)
(* were running and fail then, not the calls that still arrive             *)
(* (scheduleStartupImport(), ensure(), close()).                           *)
THEOREM ImporterStaysQuiet == Spec => QuietAfterClose
  <1> DEFINE Quiet ==
        closed' =>
          /\ \A t \in Startup : attempt'[t].state # "waiting"
          /\ \A t \in Targets : fetches'[t] <= fetches[t]
  <1>1. ShareInv /\ QuietInv /\ QuietInv' /\ [Next]_vars => Quiet
    <2> SUFFICES ASSUME ShareInv, QuietInv, QuietInv', [Next]_vars, closed'
                 PROVE  \A t \in Targets : fetches'[t] <= fetches[t]
      BY DEF QuietInv, ClosedIsQuiet
    <2>0. /\ ImportTypes /\ FetchesAreShared /\ ClosedIsQuiet
          /\ \A t \in Targets : fetches[t] \in Int
      BY DEF ShareInv, QuietInv, ImportTypes
    <2>1. CASE UNCHANGED fetches
      BY <2>0, <2>1
    <2>2. ASSUME NEW t \in Targets \ Malformed, NEW s \in Services, CallArrives(t, s)
          PROVE  UNCHANGED fetches
      BY <2>2 DEF CallArrives, MayAsk
    <2>3. ASSUME NEW t \in Targets, FetchEnds(t)
          PROVE  \A u \in Targets : fetches'[u] <= fetches[u]
      <3>1. FetchOver(t)
        BY <2>3 DEF FetchEnds, ImportSucceeds, ImportFails, ImportIsRefused
      <3> QED
        BY <2>0, <3>1, FetchOverShares
    <2>4. ASSUME NEW t \in Startup, RetryTimerFires(t)
          PROVE  FALSE
      BY <2>0, <2>4 DEF RetryTimerFires, ClosedIsQuiet
    <2>5. ASSUME AdminRequest
          PROVE  FALSE
      BY <2>5 DEF AdminRequest
    <2> QED
      BY <2>1, <2>2, <2>3, <2>4, <2>5
      DEF Next, Reflect, UploadDescriptor, DeleteDescriptor, ReflectAll,
          ReflectAllReturns, Close, Tick, vars, importVars
  <1> QED
    BY <1>1, ShareInvIsKept, QuietInvIsKept, PTL DEF Spec, QuietAfterClose

(* Calls have an upstream asked for descriptors at most once in negativeTtlMs*)
(* while asking is in vain, whatever start-up retries, administrators and  *)
(* calls of other services do in between (ensure(), run()).                *)
THEOREM QueriesInVainAreSpaced == Spec => VainQueriesAreSpaced
  <1> DEFINE Spaced ==
        \A t \in Targets, s \in Services :
          fetches'[t] > fetches[t] /\ inFlight'[t].waiters = {s}
            => now - askedAt[t][s] >= NegativeTtl
  <1>1. ShareInv /\ VainInv /\ [Next]_vars => Spaced
    <2> SUFFICES ASSUME ShareInv, VainInv, [Next]_vars,
                        NEW t \in Targets, NEW s \in Services,
                        fetches'[t] > fetches[t], inFlight'[t].waiters = {s}
                 PROVE  now - askedAt[t][s] >= NegativeTtl
      OBVIOUS
    <2>0. /\ ImportTypes /\ FetchesAreShared
          /\ \A u \in Targets : fetches[u] \in Int
          /\ s \notin {"all", "admin", "startup"}
      BY ImportConstants DEF ShareInv, ImportTypes
    <2>1. CASE UNCHANGED fetches
      BY <2>0, <2>1
    <2>2. ASSUME NEW targets, NEW symbols \in SUBSET Services,
                 NEW waiter \in {"all", "admin", "startup"},
                 ImportFor(targets, symbols, waiter)
          PROVE  FALSE
      <3>1. {s} = {waiter}
        BY <2>0, <2>2, ImportForStarts
      <3> QED
        BY <2>0, <3>1
    <2>3. ASSUME NEW u \in Targets \ Malformed, NEW r \in Services, CallArrives(u, r)
          PROVE  now - askedAt[t][s] >= NegativeTtl
      <3>1. CASE ~MayAsk(u, r)
        BY <2>1, <2>3, <3>1 DEF CallArrives
      <3>2. CASE MayAsk(u, r)
        <4>1. ImportFor({u}, {}, r) /\ r \in Waiters
          BY <2>3, <3>2 DEF CallArrives, Waiters
        <4>2. t \in {u} /\ inFlight[t] = Nil /\ {s} = {r}
          BY <2>0, <4>1, ImportForStarts
        <4>3. t = u /\ s = r
          BY <4>2
        <4>4. Remembered(t, s)
          BY <2>3, <4>2, <4>3 DEF VainInv, VainIsRemembered
        <4>5. /\ now \in Nat /\ NegativeTtl \in Nat /\ askedAt[t][s] \in Int
              /\ retryAt[t] \in Nat \cup {Nil} /\ unknownUntil[t][s] \in Nat \cup {Nil}
          BY ImportConstants DEF VainInv, VainTypes
        <4>6. /\ retryAt[t] = Nil \/ retryAt[t] <= now
              /\ unknownUntil[t][s] = Nil \/ unknownUntil[t][s] <= now
          BY <3>2, <4>3 DEF MayAsk
        <4> QED
          BY <4>4, <4>5, <4>6 DEF Remembered
      <3> QED
        BY <3>1, <3>2
    <2>4. ASSUME NEW u \in Targets, FetchEnds(u)
          PROVE  FALSE
      <3>1. FetchOver(u)
        BY <2>4 DEF FetchEnds, ImportSucceeds, ImportFails, ImportIsRefused
      <3>2. fetches'[t] <= fetches[t] /\ fetches'[t] \in Int /\ fetches[t] \in Int
        BY <2>0, <3>1, FetchOverShares DEF ImportTypes
      <3> QED
        BY <3>2
    <2>5. ASSUME NEW u \in Startup, RetryTimerFires(u)
          PROVE  FALSE
      <3>1. ImportFor({u}, StartupSymbols[u], "startup") /\ StartupSymbols[u] \in SUBSET Services
        BY <2>5, ImportConstants DEF RetryTimerFires
      <3> QED
        BY <2>2, <3>1
    <2>6. ASSUME NEW u \in Targets, NEW symbols \in Named, Reflect(u, symbols)
          PROVE  FALSE
      <3>1. ImportFor({u}, symbols, "admin") /\ symbols \in SUBSET Services
        BY <2>6, ImportConstants DEF Reflect
      <3> QED
        BY <2>2, <3>1
    <2>7. ASSUME NEW onlyMissing \in BOOLEAN, ReflectAll(onlyMissing)
          PROVE  FALSE
      <3>1. PICK wanted \in SUBSET DOMAIN seen : ImportFor(wanted, {}, "all")
        BY <2>7 DEF ReflectAll
      <3> QED
        BY <2>2, <3>1
    <2> QED
      BY <2>1, <2>3, <2>4, <2>5, <2>6, <2>7
      DEF Next, UploadDescriptor, DeleteDescriptor, ReflectAllReturns, Close, Tick, vars,
          importVars
  <1> QED
    BY <1>1, ShareInvIsKept, VainInvIsKept, PTL DEF Spec, VainQueriesAreSpaced
=============================================================================
