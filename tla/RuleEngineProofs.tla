--------------------------- MODULE RuleEngineProofs ---------------------------
(***************************************************************************)
(* Proofs about the rule store, for any set of rules, clients and requests *)
(* and whatever the bound on the revision, and about the rule engine, for  *)
(* any inputs and admin calls: it implements the rule store, its types are *)
(* right, the consume budget holds, and a request ends with the first rule *)
(* that fits.                                                              *)
(***************************************************************************)
EXTENDS RuleEngine, FiniteSetTheorems, TLAPS

(* The rule store                                                          *)

(* RevisionNamesRuleSet is inductive once the revisions are numbers: without *)
(* their type, revision + 1 need not exceed the revisions already held.      *)
StoreInv == StoreTypeOK /\ RevisionNamesRuleSet

----------------------------------------------------------------------------
(* A payload turned into a rule is well typed, whichever createdAt it gets. *)
LEMMA PayloadRule ==
  ASSUME NEW p \in Payloads, NEW id \in RuleIds, NEW stamp \in Stamps
  PROVE  [id |-> id, def |-> p.def, enabled |-> p.enabled, createdAt |-> stamp] \in Rule
  <1>1. p \in [def : Definitions, enabled : BOOLEAN, createdAt : Stamps]
    BY RuleConstants
  <1> QED
    BY <1>1 DEF Rule

LEMMA PayloadStamp ==
  ASSUME NEW p \in Payloads
  PROVE  p.createdAt \in Stamps
  BY RuleConstants

LEMMA StoreInitInv == StoreInit => StoreInv
  <1> SUFFICES ASSUME StoreInit PROVE StoreInv
    OBVIOUS
  <1>1. IsFiniteSet({id \in RuleIds : Presets[id] # Nil})
    <2>1. {id \in RuleIds : Presets[id] # Nil} \in SUBSET RuleIds
      OBVIOUS
    <2> QED
      BY <2>1, RuleConstants, FS_Subset
  <1>2. revision \in Nat
    BY <1>1, FS_CardinalityType DEF StoreInit
  <1> QED
    BY <1>2, StoreConstants
    DEF StoreInit, StoreInv, StoreTypeOK, RevisionNamesRuleSet

RulesTyped(map) ==
  /\ map \in [RuleIds -> Rule \cup {Nil}]
  /\ \A id \in RuleIds : map[id] # Nil => map[id].id = id

(* The rule set each mutation leaves is well typed. *)
LEMMA MutationTypes ==
  ASSUME StoreTypeOK,
         \/ \E id \in RuleIds, p \in Payloads : Create(id, p)
         \/ \E id \in RuleIds, p \in Payloads : Update(id, p)
         \/ \E id \in RuleIds : Delete(id)
         \/ DisableAll
         \/ \E batch \in Batches, mode \in Modes : Import(batch, mode)
  PROVE  RulesTyped(rules')
  <1>1. CASE \E id \in RuleIds, p \in Payloads : Create(id, p)
    <2> PICK id \in RuleIds, p \in Payloads : Create(id, p)
      BY <1>1
    <2> QED
      BY PayloadRule, PayloadStamp DEF StoreTypeOK, Create, RulesTyped
  <1>2. CASE \E id \in RuleIds, p \in Payloads : Update(id, p)
    <2> PICK id \in RuleIds, p \in Payloads : Update(id, p)
      BY <1>2
    <2>1. rules[id].createdAt \in Stamps
      BY DEF StoreTypeOK, Update, Rule
    <2> QED
      BY <2>1, PayloadRule DEF StoreTypeOK, Update, RulesTyped
  <1>3. CASE \E id \in RuleIds : Delete(id)
    BY <1>3 DEF StoreTypeOK, Delete, RulesTyped
  <1>4. CASE DisableAll
    <2>1. ASSUME NEW id \in RuleIds
          PROVE  /\ Disabled(rules[id]) \in Rule \cup {Nil}
                 /\ Disabled(rules[id]) # Nil => Disabled(rules[id]).id = id
      BY DEF StoreTypeOK, Disabled, Rule
    <2> QED
      BY <1>4, <2>1 DEF DisableAll, RulesTyped
  <1>5. CASE \E batch \in Batches, mode \in Modes : Import(batch, mode)
    <2> PICK batch \in Batches, mode \in Modes : Import(batch, mode)
      BY <1>5
    <2>1. \A id \in DOMAIN batch : batch[id] \in Payloads
      BY StoreConstants
    <2>2. ASSUME NEW id \in RuleIds
          PROVE  /\ Imported(id, batch, mode) \in Rule \cup {Nil}
                 /\ Imported(id, batch, mode) # Nil => Imported(id, batch, mode).id = id
      <3>1. CASE id \in DOMAIN batch
        BY <2>1, <3>1, PayloadRule, PayloadStamp DEF Imported
      <3>2. CASE id \notin DOMAIN batch
        BY <3>2 DEF Imported, StoreTypeOK
      <3> QED
        BY <3>1, <3>2
    <2> QED
      BY <2>2 DEF Import, RulesTyped
  <1> QED
    BY <1>1, <1>2, <1>3, <1>4, <1>5

(* A new revision leaves every snapshot in the past and no cached one. *)
LEMMA BumpPreserves ==
  ASSUME StoreInv, Bump, UNCHANGED held, RulesTyped(rules')
  PROVE  StoreInv'
  <1>1. revision \in Nat /\ revision' = revision + 1 /\ cachedSnapshot' = Nil
    BY DEF StoreInv, StoreTypeOK, Bump
  <1>2. \A r \in Readers : held[r] # Nil =>
          held[r].revision \in Nat /\ held[r].revision <= revision
    BY DEF StoreInv, StoreTypeOK, Snapshot, RevisionNamesRuleSet, NamesCurrent
  <1>3. StoreTypeOK'
    BY <1>1 DEF StoreInv, StoreTypeOK, RulesTyped
  <1>4. \A r \in Readers : held'[r] # Nil => NamesCurrent(held[r])'
    BY <1>1, <1>2 DEF NamesCurrent
  <1> QED
    BY <1>1, <1>3, <1>4 DEF StoreInv, RevisionNamesRuleSet

(* snapshot(), cached or freshly built, is the current rule set. *)
LEMMA SnapshotCurrent ==
  ASSUME StoreInv
  PROVE  /\ CurrentSnapshot \in Snapshot
         /\ CurrentSnapshot.revision = revision
         /\ CurrentSnapshot.rules = Stored
  <1>1. Stored \in SUBSET Rule
    BY DEF StoreInv, StoreTypeOK, Stored
  <1> QED
    BY <1>1 DEF StoreInv, StoreTypeOK, Snapshot, RevisionNamesRuleSet, NamesCurrent,
                CurrentSnapshot

LEMMA ReadPreserves ==
  ASSUME StoreInv, NEW r \in Readers, Read(r)
  PROVE  StoreInv'
  <1>1. UNCHANGED <<rules, revision>> /\ Stored' = Stored
    BY DEF Read, Stored
  <1>2. /\ cachedSnapshot' = CurrentSnapshot
        /\ held' = [held EXCEPT ![r] = CurrentSnapshot]
    BY DEF Read
  <1>3. StoreTypeOK'
    BY <1>1, <1>2, SnapshotCurrent DEF StoreInv, StoreTypeOK
  <1>4. \A q \in Readers : held'[q] = IF q = r THEN CurrentSnapshot ELSE held[q]
    BY <1>2 DEF StoreInv, StoreTypeOK
  <1>5. ASSUME NEW q \in Readers, held'[q] # Nil
        PROVE  /\ held'[q].revision <= revision
               /\ held'[q].revision = revision => held'[q].rules = Stored
    <2>1. CASE q = r
      BY <1>4, <2>1, SnapshotCurrent DEF Snapshot
    <2>2. CASE q # r
      BY <1>4, <1>5, <2>2 DEF StoreInv, RevisionNamesRuleSet, NamesCurrent
    <2> QED
      BY <2>1, <2>2
  <1>6. RevisionNamesRuleSet'
    BY <1>1, <1>2, <1>5, SnapshotCurrent DEF RevisionNamesRuleSet, NamesCurrent, Snapshot
  <1> QED
    BY <1>3, <1>6 DEF StoreInv

(* A mutation bumps the revision and leaves the snapshots that are held. *)
LEMMA MutationPreserves ==
  ASSUME StoreInv,
         \/ \E id \in RuleIds, p \in Payloads : Create(id, p)
         \/ \E id \in RuleIds, p \in Payloads : Update(id, p)
         \/ \E id \in RuleIds : Delete(id)
         \/ DisableAll
         \/ \E batch \in Batches, mode \in Modes : Import(batch, mode)
  PROVE  StoreInv'
  <1>1. RulesTyped(rules')
    BY MutationTypes DEF StoreInv
  <1>2. Bump /\ UNCHANGED held
    BY DEF Create, Update, Delete, DisableAll, Import
  <1> QED
    BY <1>1, <1>2, BumpPreserves

LEMMA StoreStepInv == StoreInv /\ [StoreNext]_storeVars => StoreInv'
  <1> SUFFICES ASSUME StoreInv, [StoreNext]_storeVars PROVE StoreInv'
    OBVIOUS
  <1>1. CASE \E id \in RuleIds, p \in Payloads : Create(id, p)
    BY <1>1, MutationPreserves
  <1>2. CASE \E w \in Clients \cup {Nil} : Write(w)
    BY <1>2, MutationPreserves DEF Write
  <1>3. CASE \E r \in Readers : Read(r)
    BY <1>3, ReadPreserves
  <1>4. CASE UNCHANGED storeVars
    <2>1. UNCHANGED <<rules, revision, cachedSnapshot, held>>
      BY <1>4 DEF storeVars
    <2>2. Stored' = Stored
      BY <2>1 DEF Stored
    <2> QED
      BY <2>1, <2>2 DEF StoreInv, StoreTypeOK, RevisionNamesRuleSet, NamesCurrent
  <1> QED
    BY <1>1, <1>2, <1>3, <1>4 DEF StoreNext

----------------------------------------------------------------------------
(* The store's inductive invariant, for modules that build on the store. *)
THEOREM StoreInvariant == StoreSpec => []StoreInv
  BY StoreInitInv, StoreStepInv, PTL DEF StoreSpec

(* The store's state keeps its types through every method of the class, with *)
(* any number of rules, clients and requests.                                *)
THEOREM StoreTypesCorrect == StoreSpec => []StoreTypeOK
  <1>1. StoreInv => StoreTypeOK
    BY DEF StoreInv
  <1> QED
    BY <1>1, StoreInvariant, PTL

(* Whoever holds a snapshot of the current revision holds the stored rules   *)
(* themselves: snapshot() may be cached per revision, and a                  *)
(* revision is all an admin client needs to name what it saw.                *)
THEOREM RevisionNamesTheRuleSet == StoreSpec => []RevisionNamesRuleSet
  <1>1. StoreInv => RevisionNamesRuleSet
    BY DEF StoreInv
  <1> QED
    BY <1>1, StoreInvariant, PTL

(* A write that carries an expectedRevision is a compare-and-set on the whole *)
(* rule set, in spite of Create, which carries none.                          *)
THEOREM NoUpdateIsLost == StoreSpec => NoLostUpdate
  <1>1. ASSUME StoreInv, NEW c \in Clients, Write(c)
        PROVE  held[c].rules = Stored
    <2>1. c # Nil /\ c \in Readers
      BY StoreConstants DEF Readers
    <2>2. held[c] # Nil /\ held[c].revision = revision
      BY <1>1, <2>1 DEF Write, RevisionAccepted
    <2> QED
      BY <1>1, <2>1, <2>2 DEF StoreInv, RevisionNamesRuleSet, NamesCurrent
  <1>2. StoreInv => [\A c \in Clients : Write(c) => held[c].rules = Stored]_storeVars
    BY <1>1
  <1> QED
    BY <1>2, StoreInvariant, PTL DEF StoreSpec, NoLostUpdate

----------------------------------------------------------------------------
(* The rule engine                                                         *)

(* What ties a counter to the applications of its rule: the counter never    *)
(* exceeds the applications since it was reset, and never falls short of     *)
(* those since the last quiet spell; lastConsumedAt is the last of them.     *)
CountersTrackUses ==
  \A id \in RuleIds :
    LET c == counters[id]  u == uses[id] IN
      /\ c.consumed <= u.total
      /\ u.at <= now
      /\ c.lastConsumedAt # Never => c.lastConsumedAt = u.at
      /\ Unbroken(u.at) => u.run <= c.consumed
      /\ u.run <= u.limit

(* The inductive invariant of the engine proper; StoreInv comes from the     *)
(* refinement below.                                                         *)
EngineTypes ==
  /\ RegistryTypeOK
  /\ request \in [Requests -> Evaluation]
  /\ \A p \in Requests :
       /\ request[p].pc # "idle" => request[p].input \in Inputs /\ held[p] # Nil
       /\ request[p].pc = "matching" => request[p].rule \in Rule
  /\ uses \in [RuleIds -> Use]

EngineInv == EngineTypes /\ CountersTrackUses

----------------------------------------------------------------------------
(* Every step of the engine is a step of the store, or leaves it alone. *)
LEMMA EngineStepIsStoreStep == [Next]_vars => [StoreNext]_storeVars
  <1> SUFFICES ASSUME [Next]_vars PROVE [StoreNext]_storeVars
    OBVIOUS
  <1>1. ASSUME NEW p \in Requests, NEW input \in Inputs, Begin(p, input)
        PROVE  StoreNext
    BY <1>1 DEF Begin, StoreNext, Readers
  <1>2. ASSUME NEW p \in Requests, Evaluate(p)
        PROVE  UNCHANGED storeVars
    BY <1>2 DEF Evaluate, LookAtNext, RulesRunOut, MatcherSaysNo, RuleSpent,
                RuleApplies, RespondTo
  <1>3. CASE Admin
    <2>1. CASE CreateRule
      BY <2>1 DEF CreateRule, StoreNext
    <2>2. ASSUME \/ \E id \in RuleIds, p \in Payloads : Update(id, p)
                 \/ \E id \in RuleIds : Delete(id)
                 \/ DisableAll
                 \/ \E batch \in Batches, mode \in Modes : Import(batch, mode)
          PROVE  StoreNext
      <3>1. RevisionAccepted(Nil)
        BY DEF RevisionAccepted
      <3>2. Write(Nil)
        BY <2>2, <3>1 DEF Write
      <3> QED
        BY <3>2 DEF StoreNext
    <2>3. CASE UpdateRule
      BY <2>2, <2>3 DEF UpdateRule
    <2>4. CASE DeleteRule
      BY <2>2, <2>4 DEF DeleteRule
    <2>5. CASE DisableRules
      BY <2>2, <2>5 DEF DisableRules
    <2>6. CASE ImportRules
      BY <2>2, <2>6 DEF ImportRules
    <2>7. CASE ResetRuleState \/ InspectRule
      BY <2>7 DEF ResetRuleState, InspectRule
    <2> QED
      BY <1>3, <2>1, <2>3, <2>4, <2>5, <2>6, <2>7 DEF Admin
  <1>4. CASE TimePasses
    BY <1>4 DEF TimePasses
  <1>5. CASE UNCHANGED vars
    BY <1>5 DEF vars
  <1> QED
    BY <1>1, <1>2, <1>3, <1>4, <1>5 DEF Next

(* The engine implements the store: what is proved of StoreSpec holds of the  *)
(* store while requests are evaluated and admin calls run side by side.       *)
THEOREM EngineImplementsStore == Spec => StoreSpec
  <1>1. Init => StoreInit
    BY DEF Init
  <1> QED
    BY <1>1, EngineStepIsStoreStep, PTL DEF Spec, StoreSpec

----------------------------------------------------------------------------
(* A counter due for its reset has seen a quiet spell. *)
LEMMA ResetMeansQuiet ==
  ASSUME EngineInv, NEW rule \in Rule, ResetDue(rule)
  PROVE  ~Unbroken(uses[rule.id].at)
  <1>1. rule.id \in RuleIds /\ rule.def \in Definitions
    BY DEF Rule
  <1>2. counters[rule.id].lastConsumedAt = uses[rule.id].at
    BY <1>1 DEF EngineInv, CountersTrackUses, ResetDue
  <1>3. rule.def.resetAfterMs > 0 /\ now - uses[rule.id].at >= rule.def.resetAfterMs
    BY <1>2 DEF ResetDue
  <1>4. rule.def.resetAfterMs \in Nat /\ now \in Nat /\ uses[rule.id].at \in Nat \cup {Never}
    BY <1>1, RuleConstants DEF EngineInv, EngineTypes, RegistryTypeOK, Use
  <1> QED
    BY <1>1, <1>3, <1>4 DEF Unbroken, Never

(* What settling a counter leaves of it. *)
LEMMA SettledCounter ==
  ASSUME EngineInv, NEW rule \in Rule
  PROVE  /\ Settled(rule) \in Counter
         /\ Settled(rule).consumed <= counters[rule.id].consumed
         /\ Settled(rule).lastConsumedAt # Never =>
              Settled(rule).lastConsumedAt = uses[rule.id].at
         /\ Unbroken(uses[rule.id].at) =>
              Settled(rule).consumed = counters[rule.id].consumed
  <1>1. rule.id \in RuleIds /\ counters[rule.id] \in Counter
    BY DEF Rule, EngineInv, EngineTypes, RegistryTypeOK
  <1>2. counters[rule.id].lastConsumedAt # Never =>
          counters[rule.id].lastConsumedAt = uses[rule.id].at
    BY <1>1 DEF EngineInv, CountersTrackUses
  <1>3. CASE ResetDue(rule)
    <2>1. ~Unbroken(uses[rule.id].at)
      BY <1>3, ResetMeansQuiet
    <2>2. Settled(rule) = [hits |-> counters[rule.id].hits, consumed |-> 0,
                           lastConsumedAt |-> Never]
      BY <1>1, <1>3 DEF Settled, Counter
    <2> QED
      BY <1>1, <2>1, <2>2 DEF Counter
  <1>4. CASE ~ResetDue(rule)
    BY <1>1, <1>2, <1>4 DEF Settled, Counter
  <1> QED
    BY <1>3, <1>4

(* Settling a counter keeps it in step with the applications. *)
LEMMA SettleKeeps ==
  ASSUME EngineInv, NEW rule \in Rule, Settle(rule), UNCHANGED uses
  PROVE  RegistryTypeOK' /\ CountersTrackUses'
  <1>1. /\ counters' = [counters EXCEPT ![rule.id] = Settled(rule)]
        /\ UNCHANGED <<now, uses>>
    BY DEF Settle
  <1>2. RegistryTypeOK'
    BY <1>1, SettledCounter DEF EngineInv, EngineTypes, RegistryTypeOK
  <1>3. ASSUME NEW id \in RuleIds
        PROVE  /\ counters'[id].consumed <= uses[id].total
               /\ counters'[id].lastConsumedAt # Never =>
                    counters'[id].lastConsumedAt = uses[id].at
               /\ Unbroken(uses[id].at) => uses[id].run <= counters'[id].consumed
    <2>1. /\ counters[id] \in Counter /\ uses[id] \in Use
          /\ counters \in [RuleIds -> Counter]
      BY DEF EngineInv, EngineTypes, RegistryTypeOK
    <2>2. CASE id = rule.id
      BY <1>1, <2>1, <2>2, SettledCounter DEF EngineInv, CountersTrackUses, Counter, Use
    <2>3. CASE id # rule.id
      BY <1>1, <2>1, <2>3 DEF EngineInv, CountersTrackUses
    <2> QED
      BY <2>2, <2>3
  <1>4. CountersTrackUses'
    BY <1>1, <1>3 DEF EngineInv, CountersTrackUses, Unbroken
  <1> QED
    BY <1>2, <1>4

(* So does counting one more application, of a rule that is not exhausted. *)
LEMMA CountKeeps ==
  ASSUME EngineInv, NEW rule \in Rule, ~Exhausted(rule), Count(rule),
         uses' = [uses EXCEPT ![rule.id] = Used(rule)]
  PROVE  RegistryTypeOK' /\ CountersTrackUses' /\ uses' \in [RuleIds -> Use]
  <1> DEFINE c == Settled(rule)
             u == uses[rule.id]
  <1>1. /\ rule.id \in RuleIds /\ rule.def \in Definitions
        /\ rule.def.times \in Nat /\ now \in Nat
        /\ u \in Use
        /\ counters \in [RuleIds -> Counter] /\ uses \in [RuleIds -> Use]
    BY RuleConstants DEF Rule, EngineInv, EngineTypes, RegistryTypeOK
  <1>2. /\ counters' = [counters EXCEPT ![rule.id] = Counted(rule)]
        /\ now' = now
    BY DEF Count
  <1>3. Counted(rule) \in Counter
    BY <1>1, SettledCounter DEF Counted, Counter
  <1>4. Used(rule) \in Use
    BY <1>1 DEF Used, Use
  <1>5. /\ u.at <= now
        /\ Unbroken(u.at) => u.run <= c.consumed
        /\ c.consumed <= u.total
        /\ u.run <= u.limit
        /\ c.lastConsumedAt # Never => c.lastConsumedAt = u.at
        /\ c \in Counter
    BY <1>1, SettledCounter DEF EngineInv, CountersTrackUses, Counter, Use
  <1>6. /\ Counted(rule).consumed <= Used(rule).total
        /\ Used(rule).at <= now
        /\ Counted(rule).lastConsumedAt # Never =>
             Counted(rule).lastConsumedAt = Used(rule).at
        /\ Unbroken(Used(rule).at) => Used(rule).run <= Counted(rule).consumed
        /\ Used(rule).run <= Used(rule).limit
    <2>1. CASE Consumable(rule)
      <3>1. c.consumed < rule.def.times
        BY <1>1, <1>5, <2>1 DEF Exhausted, Counter
      <3>2. /\ Counted(rule).consumed = c.consumed + 1
            /\ Counted(rule).lastConsumedAt = now
        BY <2>1 DEF Counted
      <3>3. /\ Used(rule).total = u.total + 1
            /\ Used(rule).run = IF Unbroken(u.at) THEN u.run + 1 ELSE 1
            /\ Used(rule).limit = rule.def.times
            /\ Used(rule).at = now
        BY <2>1 DEF Used
      <3>4. c.consumed \in Nat /\ u.total \in Nat /\ u.run \in Nat
        BY <1>1, <1>5 DEF Counter, Use
      <3>5. Used(rule).run <= c.consumed + 1
        BY <1>5, <3>3, <3>4
      <3> QED
        BY <1>1, <1>5, <3>1, <3>2, <3>3, <3>4, <3>5
    <2>2. CASE ~Consumable(rule)
      BY <1>5, <2>2 DEF Counted, Used
    <2> QED
      BY <2>1, <2>2
  <1> HIDE DEF c, u
  <1>7. \A id \in RuleIds :
          /\ counters'[id] = IF id = rule.id THEN Counted(rule) ELSE counters[id]
          /\ uses'[id] = IF id = rule.id THEN Used(rule) ELSE uses[id]
    BY <1>1, <1>2
  <1>8. \A since : Unbroken(since)' <=> Unbroken(since)
    BY <1>2 DEF Unbroken
  <1>9. CountersTrackUses'
    BY <1>2, <1>6, <1>7, <1>8 DEF EngineInv, CountersTrackUses
  <1> QED
    BY <1>1, <1>2, <1>3, <1>4, <1>9 DEF RegistryTypeOK

(* Forgetting a rule clears its counter and its history together. *)
LEMMA ForgetKeeps ==
  ASSUME EngineInv, NEW ids, Forget(ids)
  PROVE  RegistryTypeOK' /\ CountersTrackUses' /\ uses' \in [RuleIds -> Use]
  <1>1. /\ counters' = [id \in RuleIds |-> IF id \in ids THEN Fresh ELSE counters[id]]
        /\ uses' = [id \in RuleIds |-> IF id \in ids THEN NoUse ELSE uses[id]]
        /\ now' = now
    BY DEF Forget, Reset
  <1>2. Fresh \in Counter /\ NoUse \in Use
    BY DEF Fresh, Counter, NoUse, Use
  <1>3. RegistryTypeOK' /\ uses' \in [RuleIds -> Use]
    BY <1>1, <1>2 DEF EngineInv, EngineTypes, RegistryTypeOK
  <1>4. now \in Nat
    BY DEF EngineInv, EngineTypes, RegistryTypeOK
  <1>5. \A since : Unbroken(since)' <=> Unbroken(since)
    BY <1>1 DEF Unbroken
  <1>6. CountersTrackUses'
    BY <1>1, <1>4, <1>5 DEF EngineInv, CountersTrackUses, Fresh, NoUse, Never
  <1> QED
    BY <1>3, <1>6

----------------------------------------------------------------------------
(* A request's step keeps the types when its new record is well typed. *)
LEMMA RequestStep ==
  ASSUME EngineTypes, NEW p \in Requests, NEW e \in Evaluation,
         request' = [request EXCEPT ![p] = e],
         e.pc # "idle" => e.input \in Inputs /\ held'[p] # Nil,
         e.pc = "matching" => e.rule \in Rule,
         \A q \in Requests \ {p} : held[q] # Nil => held'[q] # Nil,
         RegistryTypeOK', uses' \in [RuleIds -> Use]
  PROVE  EngineTypes'
  BY DEF EngineTypes

LEMMA EngineInitInv == Init => EngineInv
  <1> SUFFICES ASSUME Init PROVE EngineInv
    OBVIOUS
  <1>1. EngineTypes
    BY DEF Init, EngineTypes, RegistryInit, RegistryTypeOK, Fresh, Counter, NoUse, Use,
           Idle, Evaluation
  <1>2. CountersTrackUses
    BY DEF Init, RegistryInit, CountersTrackUses, Fresh, NoUse, Never
  <1> QED
    BY <1>1, <1>2 DEF EngineInv

LEMMA BeginKeeps ==
  ASSUME StoreInv, EngineInv, NEW p \in Requests, NEW input \in Inputs, Begin(p, input)
  PROVE  EngineInv'
  <1> DEFINE e == [request[p] EXCEPT !.pc = "evaluating", !.input = input,
                                     !.left = CurrentSnapshot.rules]
  <1>1. CurrentSnapshot \in Snapshot
    BY SnapshotCurrent
  <1>2. request[p] \in Evaluation /\ request \in [Requests -> Evaluation]
    BY DEF EngineInv, EngineTypes
  <1>3. e \in Evaluation /\ e.pc = "evaluating" /\ e.input = input
    BY <1>1, <1>2 DEF Evaluation, Snapshot
  <1>4. request' = [request EXCEPT ![p] = e]
    BY <1>2 DEF Begin
  <1>5. \A q \in Readers : held'[q] = IF q = p THEN CurrentSnapshot ELSE held[q]
    BY DEF Begin, Read, StoreInv, StoreTypeOK, Readers
  <1>6. UNCHANGED <<registryVars, uses>>
    BY DEF Begin
  <1>7. EngineTypes'
    <2>1. CurrentSnapshot # Nil
      BY StoreConstants, <1>1
    <2> HIDE DEF e
    <2> QED
      BY <1>3, <1>4, <1>5, <1>6, <2>1, RequestStep
      DEF EngineInv, EngineTypes, RegistryTypeOK, registryVars, Readers
  <1>8. CountersTrackUses'
    BY <1>6 DEF EngineInv, CountersTrackUses, registryVars, Unbroken
  <1> QED
    BY <1>7, <1>8 DEF EngineInv

LEMMA LookKeeps ==
  ASSUME EngineInv, NEW p \in Requests, LookAtNext(p)
  PROVE  EngineInv'
  <1> PICK rule \in Upcoming(p) :
        /\ Settle(rule)
        /\ request' = [request EXCEPT ![p].pc = "matching", ![p].rule = rule,
                                      ![p].left = @ \ {rule}]
    BY DEF LookAtNext
  <1> DEFINE e == [request[p] EXCEPT !.pc = "matching", !.rule = rule, !.left = @ \ {rule}]
  <1>1. request[p] \in Evaluation /\ request \in [Requests -> Evaluation]
    BY DEF EngineInv, EngineTypes
  <1>2. rule \in Rule
    BY <1>1 DEF Upcoming, Evaluation
  <1>3. e \in Evaluation /\ e.pc = "matching" /\ e.input = request[p].input /\ e.rule = rule
    BY <1>1, <1>2 DEF Evaluation
  <1>4. request' = [request EXCEPT ![p] = e]
    BY <1>1
  <1>5. /\ UNCHANGED <<held, uses>>
        /\ request[p].input \in Inputs /\ held[p] # Nil
    BY DEF LookAtNext, storeVars, EngineInv, EngineTypes
  <1>6. RegistryTypeOK' /\ CountersTrackUses'
    BY <1>2, <1>5, SettleKeeps
  <1>7. EngineTypes'
    <2> HIDE DEF e
    <2> QED
      BY <1>2, <1>3, <1>4, <1>5, <1>6, RequestStep DEF EngineInv, EngineTypes
  <1> QED
    BY <1>6, <1>7 DEF EngineInv

(* A step that leaves the counters, the history and the store alone. *)
LEMMA QuietStepKeeps ==
  ASSUME EngineInv, NEW p \in Requests, NEW e \in Evaluation,
         request' = [request EXCEPT ![p] = e],
         e.pc \notin {"idle", "matching"}, e.input = request[p].input,
         request[p].pc # "idle",
         UNCHANGED <<storeVars, registryVars, uses>>
  PROVE  EngineInv'
  <1>1. UNCHANGED <<held, counters, now, uses>>
    BY DEF storeVars, registryVars
  <1>2. EngineTypes'
    BY <1>1, RequestStep DEF EngineInv, EngineTypes, RegistryTypeOK
  <1>3. CountersTrackUses'
    BY <1>1 DEF EngineInv, CountersTrackUses, Unbroken
  <1> QED
    BY <1>2, <1>3 DEF EngineInv

LEMMA RunOutKeeps ==
  ASSUME EngineInv, NEW p \in Requests, RulesRunOut(p)
  PROVE  EngineInv'
  <1> DEFINE e == [request[p] EXCEPT !.pc = "selected"]
  <1>1. request[p] \in Evaluation /\ request \in [Requests -> Evaluation]
    BY DEF EngineInv, EngineTypes
  <1>2. e \in Evaluation /\ e.pc = "selected" /\ e.input = request[p].input
    BY <1>1 DEF Evaluation
  <1>3. request' = [request EXCEPT ![p] = e]
    BY <1>1 DEF RulesRunOut
  <1>4. request[p].pc # "idle" /\ UNCHANGED <<storeVars, registryVars, uses>>
    BY DEF RulesRunOut
  <1> HIDE DEF e
  <1> QED
    BY <1>2, <1>3, <1>4, QuietStepKeeps

LEMMA SaysNoKeeps ==
  ASSUME EngineInv, NEW p \in Requests, MatcherSaysNo(p)
  PROVE  EngineInv'
  <1> DEFINE rule == request[p].rule
             errors == IF rule.def \in request[p].input.throws
                       THEN request[p].errors \cup {rule.id} ELSE request[p].errors
             e == [request[p] EXCEPT !.pc = "evaluating", !.errors = errors]
  <1>1. request[p] \in Evaluation /\ request \in [Requests -> Evaluation]
    BY DEF EngineInv, EngineTypes
  <1>2. rule.id \in RuleIds
    BY DEF MatcherSaysNo, EngineInv, EngineTypes, Rule
  <1>3. e \in Evaluation /\ e.pc = "evaluating" /\ e.input = request[p].input
    BY <1>1, <1>2 DEF Evaluation
  <1>4. request' = [request EXCEPT ![p] = e]
    BY <1>1 DEF MatcherSaysNo
  <1>5. request[p].pc # "idle" /\ UNCHANGED <<storeVars, registryVars, uses>>
    BY DEF MatcherSaysNo
  <1> HIDE DEF e
  <1> QED
    BY <1>3, <1>4, <1>5, QuietStepKeeps

(* A step that may touch the counters on behalf of a request past its match. *)
LEMMA CounterStepKeeps ==
  ASSUME EngineInv, NEW p \in Requests, NEW e \in Evaluation,
         request' = [request EXCEPT ![p] = e],
         e.pc \notin {"idle", "matching"}, e.input = request[p].input,
         request[p].pc # "idle", UNCHANGED storeVars,
         RegistryTypeOK', CountersTrackUses', uses' \in [RuleIds -> Use]
  PROVE  EngineInv'
  <1>1. EngineTypes'
    BY RequestStep DEF EngineInv, EngineTypes, storeVars
  <1> QED
    BY <1>1 DEF EngineInv

LEMMA SpentKeeps ==
  ASSUME EngineInv, NEW p \in Requests, RuleSpent(p)
  PROVE  EngineInv'
  <1> DEFINE e == [request[p] EXCEPT !.pc = "evaluating"]
  <1>1. request[p] \in Evaluation /\ request \in [Requests -> Evaluation]
    BY DEF EngineInv, EngineTypes
  <1>2. e \in Evaluation /\ e.pc = "evaluating" /\ e.input = request[p].input
    BY <1>1 DEF Evaluation
  <1>3. request' = [request EXCEPT ![p] = e]
    BY <1>1 DEF RuleSpent
  <1>4. /\ request[p].pc = "matching" /\ UNCHANGED <<storeVars, uses>>
        /\ request[p].rule \in Rule /\ Settle(request[p].rule)
        /\ uses \in [RuleIds -> Use]
    BY DEF RuleSpent, EngineInv, EngineTypes
  <1>5. RegistryTypeOK' /\ CountersTrackUses'
    BY <1>4, SettleKeeps
  <1> HIDE DEF e
  <1> QED
    BY <1>2, <1>3, <1>4, <1>5, CounterStepKeeps

LEMMA AppliesKeeps ==
  ASSUME EngineInv, NEW p \in Requests, RuleApplies(p)
  PROVE  EngineInv'
  <1> DEFINE rule == request[p].rule
             captured == [request[p] EXCEPT !.pc = "evaluating", !.captured = @ \cup {rule.id}]
             chosen == [request[p] EXCEPT !.pc = "selected", !.intercept = rule]
             e == IF rule.def.observation THEN captured ELSE chosen
  <1>1. request[p] \in Evaluation /\ request \in [Requests -> Evaluation]
    BY DEF EngineInv, EngineTypes
  <1>2. rule \in Rule /\ rule.id \in RuleIds
    BY DEF RuleApplies, EngineInv, EngineTypes, Rule
  <1>3. /\ captured \in Evaluation /\ captured.pc = "evaluating"
        /\ captured.input = request[p].input
    BY <1>1, <1>2 DEF Evaluation
  <1>4. /\ chosen \in Evaluation /\ chosen.pc = "selected"
        /\ chosen.input = request[p].input
    BY <1>1, <1>2 DEF Evaluation
  <1>5. /\ Capture(p) = [request EXCEPT ![p] = captured]
        /\ Select(p) = [request EXCEPT ![p] = chosen]
    BY <1>1 DEF Capture, Select
  <1>6. /\ request[p].pc = "matching" /\ UNCHANGED storeVars
        /\ ~Exhausted(rule) /\ Count(rule)
        /\ uses' = [uses EXCEPT ![rule.id] = Used(rule)]
        /\ request' = IF rule.def.observation THEN Capture(p) ELSE Select(p)
    BY DEF RuleApplies
  <1>7. RegistryTypeOK' /\ CountersTrackUses' /\ uses' \in [RuleIds -> Use]
    BY <1>2, <1>6, CountKeeps
  <1> HIDE DEF captured, chosen
  <1>8. /\ e \in Evaluation /\ e.pc \notin {"idle", "matching"}
        /\ e.input = request[p].input /\ request' = [request EXCEPT ![p] = e]
    BY <1>3, <1>4, <1>5, <1>6
  <1> HIDE DEF e
  <1> QED
    BY <1>6, <1>7, <1>8, CounterStepKeeps

LEMMA RespondKeeps ==
  ASSUME EngineInv, NEW p \in Requests, RespondTo(p)
  PROVE  EngineInv'
  <1> DEFINE e == [request[p] EXCEPT !.pc = "done"]
  <1>1. request[p] \in Evaluation /\ request \in [Requests -> Evaluation]
    BY DEF EngineInv, EngineTypes
  <1>2. e \in Evaluation /\ e.pc = "done" /\ e.input = request[p].input
    BY <1>1 DEF Evaluation
  <1>3. request' = [request EXCEPT ![p] = e]
    BY <1>1 DEF RespondTo
  <1>4. /\ request[p].pc # "idle" /\ UNCHANGED <<storeVars, uses>>
        /\ uses \in [RuleIds -> Use]
    BY DEF RespondTo, EngineInv, EngineTypes
  <1>5. RegistryTypeOK' /\ CountersTrackUses'
    <2>1. CASE request[p].intercept # Nil /\ request[p].intercept.def.responseMatch
      <3>1. request[p].intercept \in Rule /\ Settle(request[p].intercept)
        BY <1>1, <2>1 DEF RespondTo, Evaluation
      <3> QED
        BY <1>4, <3>1, SettleKeeps
    <2>2. CASE UNCHANGED registryVars
      BY <1>4, <2>2
      DEF EngineInv, EngineTypes, RegistryTypeOK, CountersTrackUses, Unbroken, registryVars
    <2> QED
      BY <2>1, <2>2 DEF RespondTo
  <1> HIDE DEF e
  <1> QED
    BY <1>2, <1>3, <1>4, <1>5, CounterStepKeeps

(* An admin call leaves the snapshots and the evaluations of all requests. *)
LEMMA AdminKeeps ==
  ASSUME StoreInv, EngineInv, Admin
  PROVE  EngineInv'
  <1>1. UNCHANGED <<held, request>>
    BY DEF Admin, CreateRule, UpdateRule, DeleteRule, DisableRules, ImportRules,
           ResetRuleState, InspectRule, Create, Update, Delete, DisableAll, Import, storeVars
  <1>2. RegistryTypeOK' /\ CountersTrackUses' /\ uses' \in [RuleIds -> Use]
    <2>1. CASE UNCHANGED <<registryVars, uses>>
      BY <2>1 DEF EngineInv, EngineTypes, RegistryTypeOK, CountersTrackUses, Unbroken,
                  registryVars
    <2>2. CASE CreateRule \/ DisableRules
      BY <2>1, <2>2 DEF CreateRule, DisableRules
    <2>3. CASE UpdateRule \/ DeleteRule \/ ImportRules \/ ResetRuleState
      <3>1. PICK ids : Forget(ids)
        BY <2>3 DEF UpdateRule, DeleteRule, ImportRules, ResetRuleState
      <3> QED
        BY <3>1, ForgetKeeps
    <2>4. CASE InspectRule
      <3>1. PICK id \in StoredIds : Settle(rules[id])
        BY <2>4 DEF InspectRule
      <3>2. rules[id] \in Rule /\ UNCHANGED uses /\ uses \in [RuleIds -> Use]
        BY <2>4 DEF StoredIds, StoreInv, StoreTypeOK, InspectRule, EngineInv, EngineTypes
      <3> QED
        BY <3>1, <3>2, SettleKeeps
    <2> QED
      BY <2>2, <2>3, <2>4 DEF Admin
  <1>3. EngineTypes'
    BY <1>1, <1>2 DEF EngineInv, EngineTypes
  <1> QED
    BY <1>2, <1>3 DEF EngineInv

LEMMA TickKeeps ==
  ASSUME EngineInv, TimePasses
  PROVE  EngineInv'
  <1>1. /\ Tick /\ now' = now + 1 /\ now \in Nat
        /\ UNCHANGED <<counters, held, request, uses>>
    BY DEF TimePasses, Tick, storeVars, EngineInv, EngineTypes, RegistryTypeOK
  <1>2. EngineTypes'
    BY <1>1 DEF EngineInv, EngineTypes, RegistryTypeOK
  <1>3. ASSUME NEW id \in RuleIds
        PROVE  /\ uses[id].at \in Nat \cup {Never}
               /\ Unbroken(uses[id].at)' => Unbroken(uses[id].at)
    <2>1. uses[id].at \in Nat \cup {Never}
      BY DEF EngineInv, EngineTypes, Use
    <2>2. Unbroken(uses[id].at)' => Unbroken(uses[id].at)
      <3> DEFINE since == uses[id].at
      <3>1. UNCHANGED since
        BY <1>1
      <3>2. \A d \in Definitions : d.resetAfterMs \in Nat
        BY RuleConstants
      <3> HIDE DEF since
      <3>3. Unbroken(since)' => Unbroken(since)
        BY <1>1, <2>1, <3>1, <3>2 DEF Unbroken, Never, since
      <3> QED
        BY <3>3 DEF since
    <2> QED
      BY <2>1, <2>2
  <1>4. CountersTrackUses'
    BY <1>1, <1>3 DEF EngineInv, CountersTrackUses, Never
  <1> QED
    BY <1>2, <1>4 DEF EngineInv

LEMMA EngineStepInv == StoreInv /\ EngineInv /\ [Next]_vars => EngineInv'
  <1> SUFFICES ASSUME StoreInv, EngineInv, [Next]_vars PROVE EngineInv'
    OBVIOUS
  <1>1. ASSUME NEW p \in Requests, NEW input \in Inputs, Begin(p, input)
        PROVE  EngineInv'
    BY <1>1, BeginKeeps
  <1>2. ASSUME NEW p \in Requests, Evaluate(p)
        PROVE  EngineInv'
    BY <1>2, LookKeeps, RunOutKeeps, SaysNoKeeps, SpentKeeps, AppliesKeeps, RespondKeeps
    DEF Evaluate
  <1>3. CASE Admin
    BY <1>3, AdminKeeps
  <1>4. CASE TimePasses
    BY <1>4, TickKeeps
  <1>5. CASE UNCHANGED vars
    <2>1. UNCHANGED <<held, counters, now, request, uses>>
      BY <1>5 DEF vars, storeVars, registryVars
    <2> QED
      BY <2>1 DEF EngineInv, EngineTypes, RegistryTypeOK, CountersTrackUses, Unbroken
  <1> QED
    BY <1>1, <1>2, <1>3, <1>4, <1>5 DEF Next

THEOREM EngineInvariant == Spec => [](StoreInv /\ EngineInv)
  <1>1. Spec => []StoreInv
    BY EngineImplementsStore, StoreInvariant, PTL
  <1> QED
    BY <1>1, EngineInitInv, EngineStepInv, PTL DEF Spec

----------------------------------------------------------------------------
(* The engine's state keeps its types, whatever requests and admin calls do. *)
THEOREM EngineTypesCorrect == Spec => []TypeOK
  <1>1. StoreInv /\ EngineInv => TypeOK
    BY DEF StoreInv, EngineInv, EngineTypes, TypeOK
  <1> QED
    BY <1>1, EngineInvariant, PTL

(* Between quiet spells a rule applies at most `times` times, for any number *)
(* of requests whose matchers are awaited between view() and tryConsume().   *)
THEOREM BudgetHolds == Spec => []BudgetRespected
  <1>1. EngineInv => BudgetRespected
    BY DEF EngineInv, CountersTrackUses, BudgetRespected
  <1> QED
    BY <1>1, EngineInvariant, PTL

(* tryConsume() refuses a rule only after its budget was really spent. *)
THEOREM SpentOnlyByUse == Spec => ExhaustedOnlyWhenSpent
  <1>1. ASSUME EngineInv, NEW p \in Requests, RuleSpent(p)
        PROVE  uses[request[p].rule.id].total >= request[p].rule.def.times
    <2> DEFINE rule == request[p].rule
    <2>1. rule \in Rule /\ rule.id \in RuleIds /\ rule.def.times \in Nat
      BY <1>1, RuleConstants DEF RuleSpent, EngineInv, EngineTypes, Rule
    <2>2. Settled(rule).consumed >= rule.def.times
      BY <1>1 DEF RuleSpent, Exhausted
    <2>3. /\ Settled(rule).consumed <= counters[rule.id].consumed
          /\ counters[rule.id].consumed <= uses[rule.id].total
          /\ Settled(rule).consumed \in Nat /\ counters[rule.id].consumed \in Nat
          /\ uses[rule.id].total \in Nat
      BY <1>1, <2>1, SettledCounter
      DEF EngineInv, EngineTypes, RegistryTypeOK, CountersTrackUses, Counter, Use
    <2> QED
      BY <2>1, <2>2, <2>3
  <1>2. EngineInv =>
          [\A p \in Requests : RuleSpent(p) =>
             uses[request[p].rule.id].total >= request[p].rule.def.times]_vars
    BY <1>1
  <1> QED
    BY <1>2, EngineInvariant, PTL DEF ExhaustedOnlyWhenSpent, Spec

----------------------------------------------------------------------------
(* The walk through a snapshot.  e is the evaluation of a request, all the    *)
(* rules of the snapshot it pinned.                                           *)
Looks(e, rule) == rule.enabled /\ e.input.traffic \in rule.def.traffic

Fits(e, rule) == Looks(e, rule) /\ rule.def \in e.input.accepts

ToCome(e) == {rule \in e.left : Looks(e, rule)}

(* The rule whose matcher is awaited, and later the one that was selected. *)
AtHand(e) == IF e.pc = "matching" THEN e.rule ELSE e.intercept

(* Every rule that was dealt with is ahead of the one at hand, and that is    *)
(* ahead of every rule to come; a match was lost on the way only where a      *)
(* budget was exhausted; the captured rules are those among the matches that  *)
(* are observation rules and were dealt with.                                 *)
Walk(all, e) ==
  /\ \A a, b \in all : a.id = b.id => a = b
  /\ all \subseteq Rule /\ e.left \subseteq all
  /\ e.pc \in {"evaluating", "matching"} => e.intercept = Nil
  /\ AtHand(e) # Nil =>
       /\ AtHand(e) \in all \ e.left /\ Looks(e, AtHand(e))
       /\ \A next \in ToCome(e) : Ahead(AtHand(e), next)
  /\ \A rule \in all \ (e.left \cup {AtHand(e)}) : Looks(e, rule) =>
       /\ \A next \in ToCome(e) : Ahead(rule, next)
       /\ AtHand(e) # Nil => Ahead(rule, AtHand(e))
       /\ Fits(e, rule) /\ ~Consumable(rule) =>
            rule.def.observation /\ rule.id \in e.captured
  /\ \A rule \in all : Fits(e, rule) /\ rule.id \in e.captured =>
       rule \notin e.left /\ rule # AtHand(e) /\ rule.def.observation
  /\ e.pc \in {"selected", "done"} =>
       IF e.intercept = Nil THEN ToCome(e) = {}
       ELSE Fits(e, e.intercept) /\ ~e.intercept.def.observation

WalkInv ==
  \A p \in Requests :
    IF request[p].pc = "idle" THEN request[p] = Idle
    ELSE Walk(held[p].rules, request[p])

(* Evaluation order has no ties between a rule and one behind it. *)
LEMMA AheadAsymmetric ==
  ASSUME NEW a \in Rule, NEW b \in Rule, Ahead(a, b)
  PROVE  ~Ahead(b, a) /\ a # b
  <1>1. /\ a.def.priority \in Int /\ a.createdAt \in Int /\ a.id \in Int
        /\ b.def.priority \in Int /\ b.createdAt \in Int /\ b.id \in Int
    BY RuleConstants DEF Rule
  <1> QED
    BY <1>1 DEF Ahead

(* The walk starts with every rule to come. *)
LEMMA WalkStarts ==
  ASSUME NEW all \in SUBSET Rule, \A a, b \in all : a.id = b.id => a = b,
         NEW e, e.pc = "evaluating", e.left = all, e.intercept = Nil, e.captured = {}
  PROVE  Walk(all, e)
  BY DEF Walk, AtHand

(* It takes up the first of those to come. *)
LEMMA WalkTakesUp ==
  ASSUME NEW all, NEW e, Walk(all, e), e.pc = "evaluating",
         NEW rule \in ToCome(e), \A other \in ToCome(e) \ {rule} : Ahead(rule, other),
         NEW f, f.pc = "matching", f.rule = rule, f.left = e.left \ {rule},
         f.input = e.input, f.intercept = e.intercept, f.captured = e.captured
  PROVE  Walk(all, f)
  <1>1. AtHand(e) = Nil /\ AtHand(f) = rule /\ f.intercept = Nil
    BY DEF AtHand, Walk
  <1>2. /\ \A r : Looks(f, r) <=> Looks(e, r)
        /\ \A r : Fits(f, r) <=> Fits(e, r)
    BY DEF Looks, Fits
  <1>3. ToCome(f) = ToCome(e) \ {rule}
    BY <1>2 DEF ToCome
  <1>4. rule \in e.left /\ rule \in all /\ rule \in Rule /\ Looks(e, rule) /\ rule # Nil
    BY StoreConstants DEF ToCome, Walk
  <1>5. ASSUME NEW r \in all \ (f.left \cup {rule}), Looks(f, r)
        PROVE  /\ \A next \in ToCome(f) : Ahead(r, next)
               /\ Ahead(r, rule)
               /\ Fits(f, r) /\ ~Consumable(r) => r.def.observation /\ r.id \in f.captured
    <2>1. r \in all \ (e.left \cup {AtHand(e)})
      BY <1>1, <1>5, StoreConstants DEF Walk
    <2> QED
      BY <1>2, <1>3, <1>5, <2>1 DEF Walk
  <1>6. \A r \in all : Fits(f, r) /\ r.id \in f.captured =>
          r \notin f.left /\ r # rule /\ r.def.observation
    BY <1>2, <1>4 DEF Walk
  <1> QED
    BY <1>1, <1>2, <1>3, <1>4, <1>5, <1>6 DEF Walk

(* The rule at hand is left behind: it did not match, its budget was           *)
(* exhausted, or it is an observation rule and captures the exchange.          *)
LEMMA WalkGoesOn ==
  ASSUME NEW all, NEW e, Walk(all, e), e.pc = "matching", e.rule \in Rule,
         NEW f, f.pc = "evaluating", f.left = e.left, f.input = e.input,
         f.intercept = e.intercept,
         \/ ~Fits(e, e.rule) /\ f.captured = e.captured
         \/ Consumable(e.rule) /\ f.captured = e.captured
         \/ e.rule.def.observation /\ f.captured = e.captured \cup {e.rule.id}
  PROVE  Walk(all, f)
  <1>1. AtHand(e) = e.rule /\ AtHand(f) = Nil /\ e.rule # Nil /\ f.intercept = Nil
    BY StoreConstants DEF AtHand, Walk
  <1>2. /\ \A r : Looks(f, r) <=> Looks(e, r)
        /\ \A r : Fits(f, r) <=> Fits(e, r)
        /\ ToCome(f) = ToCome(e)
    BY DEF Looks, Fits, ToCome
  <1>3. e.rule \in all \ e.left /\ \A next \in ToCome(e) : Ahead(e.rule, next)
    BY <1>1 DEF Walk
  <1>4. ASSUME NEW r \in all \ f.left, Looks(f, r)
        PROVE  /\ \A next \in ToCome(f) : Ahead(r, next)
               /\ Fits(f, r) /\ ~Consumable(r) => r.def.observation /\ r.id \in f.captured
    <2>1. CASE r = e.rule
      BY <1>2, <1>3, <2>1
    <2>2. CASE r # e.rule
      <3>1. r \in all \ (e.left \cup {AtHand(e)}) /\ Looks(e, r)
        BY <1>1, <1>2, <1>4, <2>2
      <3> QED
        BY <1>2, <3>1 DEF Walk
    <2> QED
      BY <2>1, <2>2
  <1>5. ASSUME NEW r \in all, Fits(f, r), r.id \in f.captured
        PROVE  r \notin f.left /\ r # Nil /\ r.def.observation
    <2>1. r # Nil
      BY StoreConstants DEF Walk
    <2>2. CASE r.id \in e.captured
      BY <1>2, <1>5, <2>1, <2>2 DEF Walk
    <2>3. CASE r.id \notin e.captured
      <3>1. r.id = e.rule.id /\ e.rule.def.observation
        BY <1>5, <2>3
      <3>2. r = e.rule
        BY <1>3, <3>1 DEF Walk
      <3> QED
        BY <1>3, <2>1, <3>1, <3>2
    <2> QED
      BY <2>2, <2>3
  <1> QED
    BY <1>1, <1>4, <1>5 DEF Walk

(* It ends with the rule at hand ... *)
LEMMA WalkSelects ==
  ASSUME NEW all, NEW e, Walk(all, e), e.pc = "matching", e.rule \in Rule,
         Fits(e, e.rule), ~e.rule.def.observation,
         NEW f, f.pc = "selected", f.intercept = e.rule, f.left = e.left,
         f.input = e.input, f.captured = e.captured
  PROVE  Walk(all, f)
  <1>1. AtHand(e) = e.rule /\ AtHand(f) = e.rule /\ e.rule # Nil
    BY StoreConstants DEF AtHand
  <1>2. /\ \A r : Looks(f, r) <=> Looks(e, r)
        /\ \A r : Fits(f, r) <=> Fits(e, r)
        /\ ToCome(f) = ToCome(e)
    BY DEF Looks, Fits, ToCome
  <1>3. /\ e.rule \in all \ e.left /\ Looks(e, e.rule)
        /\ \A next \in ToCome(e) : Ahead(e.rule, next)
    BY <1>1 DEF Walk
  <1>4. \A r \in all \ (f.left \cup {e.rule}) : Looks(f, r) =>
          /\ \A next \in ToCome(f) : Ahead(r, next)
          /\ Ahead(r, e.rule)
          /\ Fits(f, r) /\ ~Consumable(r) => r.def.observation /\ r.id \in f.captured
    BY <1>1, <1>2 DEF Walk
  <1>5. \A r \in all : Fits(f, r) /\ r.id \in f.captured =>
          r \notin f.left /\ r # e.rule /\ r.def.observation
    BY <1>1, <1>2 DEF Walk
  <1> QED
    BY <1>1, <1>2, <1>3, <1>4, <1>5 DEF Walk

(* ... or because no rule is to come. *)
LEMMA WalkRunsOut ==
  ASSUME NEW all, NEW e, Walk(all, e), e.pc = "evaluating", ToCome(e) = {},
         NEW f, f.pc = "selected", f.intercept = e.intercept, f.left = e.left,
         f.input = e.input, f.captured = e.captured
  PROVE  Walk(all, f)
  <1>1. AtHand(e) = Nil /\ AtHand(f) = Nil /\ f.intercept = Nil
    BY DEF AtHand, Walk
  <1>2. /\ \A r : Looks(f, r) <=> Looks(e, r)
        /\ \A r : Fits(f, r) <=> Fits(e, r)
        /\ ToCome(f) = ToCome(e)
    BY DEF Looks, Fits, ToCome
  <1> QED
    BY <1>1, <1>2 DEF Walk

LEMMA WalkIsOver ==
  ASSUME NEW all, NEW e, Walk(all, e), e.pc = "selected",
         NEW f, f.pc = "done", f.intercept = e.intercept, f.left = e.left,
         f.input = e.input, f.captured = e.captured
  PROVE  Walk(all, f)
  <1>1. AtHand(f) = AtHand(e)
    BY DEF AtHand
  <1>2. /\ \A r : Looks(f, r) <=> Looks(e, r)
        /\ \A r : Fits(f, r) <=> Fits(e, r)
        /\ ToCome(f) = ToCome(e)
    BY DEF Looks, Fits, ToCome
  <1> QED
    BY <1>1, <1>2 DEF Walk

(* A step of request p alone, on the snapshot it holds. *)
LEMMA WalkStep ==
  ASSUME EngineInv, WalkInv, NEW p \in Requests, NEW e,
         request' = [request EXCEPT ![p] = e], UNCHANGED held,
         e.pc # "idle", Walk(held[p].rules, e)
  PROVE  WalkInv'
  <1>1. \A q \in Requests : request'[q] = IF q = p THEN e ELSE request[q]
    BY DEF EngineInv, EngineTypes
  <1> QED
    BY <1>1 DEF WalkInv

LEMMA BeginWalks ==
  ASSUME StoreInv, EngineInv, WalkInv, NEW p \in Requests, NEW input \in Inputs,
         Begin(p, input)
  PROVE  WalkInv'
  <1> DEFINE e == [request[p] EXCEPT !.pc = "evaluating", !.input = input,
                                     !.left = CurrentSnapshot.rules]
  <1>1. request[p] = Idle /\ request \in [Requests -> Evaluation]
    BY DEF Begin, WalkInv, EngineInv, EngineTypes
  <1>2. /\ e.pc = "evaluating" /\ e.left = CurrentSnapshot.rules
        /\ e.intercept = Nil /\ e.captured = {}
    BY <1>1 DEF Idle
  <1>3. /\ Stored \in SUBSET Rule
        /\ \A a, b \in Stored : a.id = b.id => a = b
    BY DEF Stored, StoreInv, StoreTypeOK
  <1>4. CurrentSnapshot.rules = Stored
    BY SnapshotCurrent
  <1> HIDE DEF e
  <1>5. Walk(CurrentSnapshot.rules, e)
    BY <1>2, <1>3, <1>4, WalkStarts
  <1>6. /\ \A q \in Requests : held'[q] = IF q = p THEN CurrentSnapshot ELSE held[q]
        /\ \A q \in Requests : request'[q] = IF q = p THEN e ELSE request[q]
    BY <1>1 DEF Begin, Read, StoreInv, StoreTypeOK, Readers, e
  <1>7. ASSUME NEW q \in Requests
        PROVE  IF request'[q].pc = "idle" THEN request'[q] = Idle
               ELSE Walk(held'[q].rules, request'[q])
    <2>1. CASE q = p
      BY <1>2, <1>5, <1>6, <2>1
    <2>2. CASE q # p
      BY <1>6, <2>2 DEF WalkInv
    <2> QED
      BY <2>1, <2>2
  <1> QED
    BY <1>7 DEF WalkInv

LEMMA LookWalks ==
  ASSUME EngineInv, WalkInv, NEW p \in Requests, LookAtNext(p)
  PROVE  WalkInv'
  <1> PICK rule \in Upcoming(p) :
        /\ \A other \in Upcoming(p) \ {rule} : Ahead(rule, other)
        /\ request' = [request EXCEPT ![p].pc = "matching", ![p].rule = rule,
                                      ![p].left = @ \ {rule}]
    BY DEF LookAtNext
  <1>1. Upcoming(p) = ToCome(request[p])
    BY DEF Upcoming, Considered, ToCome, Looks
  <1> DEFINE e == [request[p] EXCEPT !.pc = "matching", !.rule = rule, !.left = @ \ {rule}]
  <1>2. request[p] \in Evaluation /\ request \in [Requests -> Evaluation]
    BY DEF EngineInv, EngineTypes
  <1>3. /\ e.pc = "matching" /\ e.rule = rule /\ e.left = request[p].left \ {rule}
        /\ e.input = request[p].input /\ e.intercept = request[p].intercept
        /\ e.captured = request[p].captured
    BY <1>2 DEF Evaluation
  <1>4. request' = [request EXCEPT ![p] = e]
    BY <1>2
  <1>5. request[p].pc = "evaluating" /\ UNCHANGED held /\ Walk(held[p].rules, request[p])
    BY DEF LookAtNext, storeVars, WalkInv
  <1> HIDE DEF e
  <1>6. Walk(held[p].rules, e)
    BY <1>1, <1>3, <1>5, WalkTakesUp
  <1> QED
    BY <1>3, <1>4, <1>5, <1>6, WalkStep

LEMMA RunOutWalks ==
  ASSUME EngineInv, WalkInv, NEW p \in Requests, RulesRunOut(p)
  PROVE  WalkInv'
  <1> DEFINE e == [request[p] EXCEPT !.pc = "selected"]
  <1>1. request[p] \in Evaluation /\ request \in [Requests -> Evaluation]
    BY DEF EngineInv, EngineTypes
  <1>2. /\ e.pc = "selected" /\ e.left = request[p].left /\ e.input = request[p].input
        /\ e.intercept = request[p].intercept /\ e.captured = request[p].captured
    BY <1>1 DEF Evaluation
  <1>3. request' = [request EXCEPT ![p] = e]
    BY <1>1 DEF RulesRunOut
  <1>4. /\ request[p].pc = "evaluating" /\ UNCHANGED held
        /\ ToCome(request[p]) = {} /\ Walk(held[p].rules, request[p])
    BY DEF RulesRunOut, storeVars, WalkInv, Upcoming, Considered, ToCome, Looks
  <1> HIDE DEF e
  <1>5. Walk(held[p].rules, e)
    BY <1>2, <1>4, WalkRunsOut
  <1> QED
    BY <1>2, <1>3, <1>4, <1>5, WalkStep

LEMMA SaysNoWalks ==
  ASSUME EngineInv, WalkInv, NEW p \in Requests, MatcherSaysNo(p)
  PROVE  WalkInv'
  <1> DEFINE rule == request[p].rule
             errors == IF rule.def \in request[p].input.throws
                       THEN request[p].errors \cup {rule.id} ELSE request[p].errors
             e == [request[p] EXCEPT !.pc = "evaluating", !.errors = errors]
  <1>1. request[p] \in Evaluation /\ request \in [Requests -> Evaluation]
    BY DEF EngineInv, EngineTypes
  <1>2. /\ e.pc = "evaluating" /\ e.left = request[p].left /\ e.input = request[p].input
        /\ e.intercept = request[p].intercept /\ e.captured = request[p].captured
    BY <1>1 DEF Evaluation
  <1>3. request' = [request EXCEPT ![p] = e]
    BY <1>1 DEF MatcherSaysNo
  <1>4. /\ request[p].pc = "matching" /\ UNCHANGED held /\ rule \in Rule
        /\ ~Fits(request[p], rule) /\ Walk(held[p].rules, request[p])
    BY DEF MatcherSaysNo, Matches, storeVars, WalkInv, Fits, EngineInv, EngineTypes
  <1> HIDE DEF e
  <1>5. Walk(held[p].rules, e)
    BY <1>2, <1>4, WalkGoesOn
  <1> QED
    BY <1>2, <1>3, <1>4, <1>5, WalkStep

LEMMA SpentWalks ==
  ASSUME EngineInv, WalkInv, NEW p \in Requests, RuleSpent(p)
  PROVE  WalkInv'
  <1> DEFINE e == [request[p] EXCEPT !.pc = "evaluating"]
  <1>1. request[p] \in Evaluation /\ request \in [Requests -> Evaluation]
    BY DEF EngineInv, EngineTypes
  <1>2. /\ e.pc = "evaluating" /\ e.left = request[p].left /\ e.input = request[p].input
        /\ e.intercept = request[p].intercept /\ e.captured = request[p].captured
    BY <1>1 DEF Evaluation
  <1>3. request' = [request EXCEPT ![p] = e]
    BY <1>1 DEF RuleSpent
  <1>4. /\ request[p].pc = "matching" /\ UNCHANGED held /\ request[p].rule \in Rule
        /\ Consumable(request[p].rule) /\ Walk(held[p].rules, request[p])
    BY DEF RuleSpent, Exhausted, storeVars, WalkInv, EngineInv, EngineTypes
  <1> HIDE DEF e
  <1>5. Walk(held[p].rules, e)
    BY <1>2, <1>4, WalkGoesOn
  <1> QED
    BY <1>2, <1>3, <1>4, <1>5, WalkStep

LEMMA AppliesWalks ==
  ASSUME EngineInv, WalkInv, NEW p \in Requests, RuleApplies(p)
  PROVE  WalkInv'
  <1> DEFINE rule == request[p].rule
             captured == [request[p] EXCEPT !.pc = "evaluating", !.captured = @ \cup {rule.id}]
             chosen == [request[p] EXCEPT !.pc = "selected", !.intercept = rule]
  <1>1. request[p] \in Evaluation /\ request \in [Requests -> Evaluation]
    BY DEF EngineInv, EngineTypes
  <1>2. /\ captured.pc = "evaluating" /\ captured.left = request[p].left
        /\ captured.input = request[p].input
        /\ captured.intercept = request[p].intercept
        /\ captured.captured = request[p].captured \cup {rule.id}
    BY <1>1 DEF Evaluation
  <1>3. /\ chosen.pc = "selected" /\ chosen.left = request[p].left
        /\ chosen.input = request[p].input /\ chosen.intercept = rule
        /\ chosen.captured = request[p].captured
    BY <1>1 DEF Evaluation
  <1>4. /\ Capture(p) = [request EXCEPT ![p] = captured]
        /\ Select(p) = [request EXCEPT ![p] = chosen]
    BY <1>1 DEF Capture, Select
  <1>5. /\ request[p].pc = "matching" /\ UNCHANGED held
        /\ request' = IF rule.def.observation THEN Capture(p) ELSE Select(p)
        /\ rule \in Rule /\ Walk(held[p].rules, request[p])
    BY DEF RuleApplies, storeVars, WalkInv, EngineInv, EngineTypes
  <1>6. Fits(request[p], rule)
    <2>1. AtHand(request[p]) = rule /\ rule # Nil
      BY <1>5, StoreConstants DEF AtHand
    <2>2. Looks(request[p], rule)
      BY <1>5, <2>1 DEF Walk
    <2> QED
      BY <2>2 DEF Fits, RuleApplies, Matches
  <1> HIDE DEF captured, chosen
  <1>7. CASE rule.def.observation
    <2>1. Walk(held[p].rules, captured)
      BY <1>2, <1>5, <1>7, WalkGoesOn
    <2> QED
      BY <1>2, <1>4, <1>5, <1>7, <2>1, WalkStep
  <1>8. CASE ~rule.def.observation
    <2>1. Walk(held[p].rules, chosen)
      BY <1>3, <1>5, <1>6, <1>8, WalkSelects
    <2> QED
      BY <1>3, <1>4, <1>5, <1>8, <2>1, WalkStep
  <1> QED
    BY <1>7, <1>8

LEMMA RespondWalks ==
  ASSUME EngineInv, WalkInv, NEW p \in Requests, RespondTo(p)
  PROVE  WalkInv'
  <1> DEFINE e == [request[p] EXCEPT !.pc = "done"]
  <1>1. request[p] \in Evaluation /\ request \in [Requests -> Evaluation]
    BY DEF EngineInv, EngineTypes
  <1>2. /\ e.pc = "done" /\ e.left = request[p].left /\ e.input = request[p].input
        /\ e.intercept = request[p].intercept /\ e.captured = request[p].captured
    BY <1>1 DEF Evaluation
  <1>3. request' = [request EXCEPT ![p] = e]
    BY <1>1 DEF RespondTo
  <1>4. /\ request[p].pc = "selected" /\ UNCHANGED held
        /\ Walk(held[p].rules, request[p])
    BY DEF RespondTo, storeVars, WalkInv
  <1> HIDE DEF e
  <1>5. Walk(held[p].rules, e)
    BY <1>2, <1>4, WalkIsOver
  <1> QED
    BY <1>2, <1>3, <1>4, <1>5, WalkStep

(* Admin calls and the clock leave the walks alone. *)
LEMMA WalkStepInv == StoreInv /\ EngineInv /\ WalkInv /\ [Next]_vars => WalkInv'
  <1> SUFFICES ASSUME StoreInv, EngineInv, WalkInv, [Next]_vars PROVE WalkInv'
    OBVIOUS
  <1>1. ASSUME NEW p \in Requests, NEW input \in Inputs, Begin(p, input)
        PROVE  WalkInv'
    BY <1>1, BeginWalks
  <1>2. ASSUME NEW p \in Requests, Evaluate(p)
        PROVE  WalkInv'
    BY <1>2, LookWalks, RunOutWalks, SaysNoWalks, SpentWalks, AppliesWalks, RespondWalks
    DEF Evaluate
  <1>3. CASE Admin \/ TimePasses \/ UNCHANGED vars
    <2>1. UNCHANGED <<held, request>>
      BY <1>3 DEF Admin, CreateRule, UpdateRule, DeleteRule, DisableRules, ImportRules,
                  ResetRuleState, InspectRule, Create, Update, Delete, DisableAll, Import,
                  TimePasses, vars, storeVars
    <2> QED
      BY <2>1 DEF WalkInv
  <1> QED
    BY <1>1, <1>2, <1>3 DEF Next

(* The first rule that matches wins, whatever the admin API does to the rules *)
(* and other requests to the counters while its matchers are awaited: no rule *)
(* ahead of the selected one was passed over but for an exhausted budget, and *)
(* the observation rules ahead of it, and only those, captured the exchange.  *)
THEOREM FirstMatchIsChosen == Spec => []FirstMatchWins
  <1>1. Init => WalkInv
    BY DEF Init, WalkInv, Idle
  <1>2. ASSUME EngineInv, WalkInv, NEW p \in Requests,
               request[p].pc \in {"selected", "done"}
        PROVE  LET chosen == request[p].intercept
                   Reached(rule) == chosen # Nil => Ahead(rule, chosen)
               IN /\ chosen # Nil => chosen \in Matching(p) /\ ~chosen.def.observation
                  /\ \A rule \in Matching(p) \ {chosen} :
                       /\ Reached(rule) /\ ~Consumable(rule) =>
                            rule.def.observation /\ rule.id \in request[p].captured
                       /\ rule.id \in request[p].captured =>
                            Reached(rule) /\ rule.def.observation
    <2> DEFINE e == request[p]
               chosen == request[p].intercept
               all == held[p].rules
    <2>1. Walk(all, e) /\ AtHand(e) = chosen
      BY <1>2 DEF WalkInv, AtHand
    <2>2. \A rule : rule \in Matching(p) <=> rule \in all /\ Fits(e, rule)
      BY DEF Matching, Considered, Fits, Looks
    <2>3. chosen # Nil => chosen \in Matching(p) /\ ~chosen.def.observation
      BY <1>2, <2>1, <2>2 DEF Walk
    <2>4. ASSUME NEW rule \in Matching(p) \ {chosen}, chosen # Nil => Ahead(rule, chosen)
          PROVE  rule \notin e.left
      <3>1. SUFFICES ASSUME rule \in e.left PROVE FALSE
        OBVIOUS
      <3>2. rule \in ToCome(e)
        BY <2>2, <2>4, <3>1 DEF ToCome, Fits
      <3>3. chosen # Nil /\ Ahead(chosen, rule)
        BY <1>2, <2>1, <3>2 DEF Walk
      <3>4. rule \in Rule /\ chosen \in Rule
        BY <2>1, <2>2, <2>3, <2>4, <3>3 DEF Walk
      <3> QED
        BY <2>4, <3>3, <3>4, AheadAsymmetric
    <2>5. ASSUME NEW rule \in Matching(p) \ {chosen}, chosen # Nil => Ahead(rule, chosen),
                 ~Consumable(rule)
          PROVE  rule.def.observation /\ rule.id \in e.captured
      <3>1. rule \in all \ (e.left \cup {AtHand(e)}) /\ Looks(e, rule) /\ Fits(e, rule)
        BY <2>1, <2>2, <2>4, <2>5 DEF Fits
      <3> QED
        BY <2>1, <2>5, <3>1 DEF Walk
    <2>6. ASSUME NEW rule \in Matching(p) \ {chosen}, rule.id \in e.captured
          PROVE  (chosen # Nil => Ahead(rule, chosen)) /\ rule.def.observation
      <3>1. /\ rule \in all \ (e.left \cup {AtHand(e)}) /\ Looks(e, rule)
            /\ rule.def.observation
        BY <2>1, <2>2, <2>6 DEF Walk, Fits
      <3> QED
        BY <2>1, <3>1 DEF Walk
    <2> HIDE DEF e, all, chosen
    <2> QED
      BY <2>3, <2>5, <2>6 DEF e, chosen
  <1>3. EngineInv /\ WalkInv => FirstMatchWins
    BY <1>2 DEF FirstMatchWins
  <1> QED
    BY <1>1, <1>3, WalkStepInv, EngineInvariant, PTL DEF Spec

=============================================================================
