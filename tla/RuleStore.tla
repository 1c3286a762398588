------------------------------ MODULE RuleStore ------------------------------
(***************************************************************************)
(* The in-memory rule store (src/src/rules/store.ts): the rule map, the    *)
(* revision and the cached snapshot, with the admin clients and the        *)
(* proxied requests that hold snapshots of it while it changes.            *)
(*                                                                         *)
(* Every method of the store runs to completion on the event loop, so each *)
(* is one action.  A call that throws (revision conflict, duplicate id,    *)
(* unknown id) changes nothing and is a stuttering step.                   *)
(***************************************************************************)
EXTENDS RuleTypes

CONSTANTS
  Clients,      \* admin clients: they load the rule set, then write to it
  Requests,     \* proxied requests: each pins a snapshot for its lifetime
  Batches,      \* the rules:import bodies: a payload for each imported id
  Presets,      \* what main() creates from the config: a rule or Nil per id
  MaxRevision   \* bound on the revision, which the code lets grow

Snapshot == [revision : Nat, rules : SUBSET Rule]

ASSUME StoreConstants ==
  /\ Batches \subseteq UNION {[S -> Payloads] : S \in SUBSET RuleIds}
  /\ Presets \in [RuleIds -> Rule \cup {Nil}]
  /\ \A id \in RuleIds : Presets[id] # Nil => Presets[id].id = id
  /\ MaxRevision \in Nat
  /\ Nil \notin Clients /\ Nil \notin Rule /\ Nil \notin Snapshot

Readers == Clients \cup Requests

VARIABLES
  rules,          \* the map: rules[id] is the stored rule, or Nil
  revision,       \* revisionValue
  cachedSnapshot, \* the snapshot of the current revision, or Nil
  held            \* held[r]: the snapshot reader r last took, or Nil

storeVars == <<rules, revision, cachedSnapshot, held>>

----------------------------------------------------------------------------
(* compareRules: a is evaluated before b.  It orders rules of distinct ids   *)
(* totally, so the sorted array of a snapshot is its set of rules in this    *)
(* order, and a snapshot is modelled by that set.                            *)
Ahead(a, b) ==
  \/ a.def.priority > b.def.priority
  \/ /\ a.def.priority = b.def.priority
     /\ \/ a.createdAt < b.createdAt
        \/ a.createdAt = b.createdAt /\ a.id < b.id

Stored == {rules[id] : id \in {i \in RuleIds : rules[i] # Nil}}

----------------------------------------------------------------------------
(* The store as main() leaves it: each preset was one create(). *)
StoreInit ==
  /\ rules = Presets
  /\ revision = 1 + Cardinality({id \in RuleIds : Presets[id] # Nil})
  /\ cachedSnapshot = Nil
  /\ held = [r \in Readers |-> Nil]

(* bump(): a new revision, and the cached snapshot is stale. *)
Bump ==
  /\ revision < MaxRevision
  /\ revision' = revision + 1
  /\ cachedSnapshot' = Nil

(* checkRevision(): writer w sends the revision it loaded as expectedRevision, *)
(* or none at all (w = Nil).                                                   *)
RevisionUnchecked(w) == w # Nil => held[w] # Nil

RevisionAccepted(w) ==
  w # Nil => held[w] # Nil /\ held[w].revision = revision

(* create(): takes no expectedRevision. *)
Create(id, p) ==
  /\ rules[id] = Nil
  /\ rules' = [rules EXCEPT ![id] =
       [id |-> id, def |-> p.def, enabled |-> p.enabled, createdAt |-> p.createdAt]]
  /\ Bump
  /\ UNCHANGED held

(* update(): the stored createdAt survives, so the rule keeps its place. *)
UpdateDroppingAge(id, p) ==
  /\ rules[id] # Nil
  /\ rules' = [rules EXCEPT ![id] =
       [id |-> id, def |-> p.def, enabled |-> p.enabled, createdAt |-> Nil]]
  /\ Bump
  /\ UNCHANGED held

Update(id, p) ==
  /\ rules[id] # Nil
  /\ rules' = [rules EXCEPT ![id] =
       [id |-> id, def |-> p.def, enabled |-> p.enabled,
        createdAt |-> rules[id].createdAt]]
  /\ Bump
  /\ UNCHANGED held

Delete(id) ==
  /\ rules[id] # Nil
  /\ rules' = [rules EXCEPT ![id] = Nil]
  /\ Bump
  /\ UNCHANGED held

(* disableAll(): one new revision however many rules change, none if no rule *)
(* was enabled.                                                              *)
Disabled(rule) == IF rule = Nil THEN Nil ELSE [rule EXCEPT !.enabled = FALSE]

DisableAllInPlace ==
  /\ \E rule \in Stored : rule.enabled
  /\ rules' = [id \in RuleIds |-> Disabled(rules[id])]
  /\ UNCHANGED <<revision, cachedSnapshot, held>>

DisableAll ==
  /\ \E rule \in Stored : rule.enabled
  /\ rules' = [id \in RuleIds |-> Disabled(rules[id])]
  /\ Bump
  /\ UNCHANGED held

(* importRules(): batch maps each imported id to its payload (an id listed    *)
(* twice is rejected before anything changes).  "replace" drops the rest.     *)
Imported(id, batch, mode) ==
  IF id \in DOMAIN batch
  THEN [id |-> id, def |-> batch[id].def, enabled |-> batch[id].enabled,
        createdAt |-> batch[id].createdAt]
  ELSE IF mode = "replace" THEN Nil ELSE rules[id]

Import(batch, mode) ==
  /\ rules' = [id \in RuleIds |-> Imported(id, batch, mode)]
  /\ Bump
  /\ UNCHANGED held

Modes == {"merge", "replace"}

(* snapshot(): built on first use in a revision, then shared by every reader. *)
CurrentSnapshot ==
  IF cachedSnapshot # Nil
  THEN cachedSnapshot
  ELSE [revision |-> revision, rules |-> Stored]

Read(r) ==
  /\ cachedSnapshot' = CurrentSnapshot
  /\ held' = [held EXCEPT ![r] = CurrentSnapshot]
  /\ UNCHANGED <<rules, revision>>

----------------------------------------------------------------------------
(* The methods that take an expectedRevision check it before anything else. *)
Write(w) ==
  /\ RevisionAccepted(w)
  /\ \/ \E id \in RuleIds, p \in Payloads : Update(id, p)
     \/ \E id \in RuleIds : Delete(id)
     \/ DisableAll
     \/ \E batch \in Batches, mode \in Modes : Import(batch, mode)

StoreNext ==
  \/ \E id \in RuleIds, p \in Payloads : Create(id, p)
  \/ \E w \in Clients \cup {Nil} : Write(w)
  \/ \E r \in Readers : Read(r)

StoreSpec == StoreInit /\ [][StoreNext]_storeVars

----------------------------------------------------------------------------
(* Types of the store's state, and a rule is stored under its own id. *)
StoreTypeOK ==
  /\ rules \in [RuleIds -> Rule \cup {Nil}]
  /\ \A id \in RuleIds : rules[id] # Nil => rules[id].id = id
  /\ revision \in Nat
  /\ cachedSnapshot \in Snapshot \cup {Nil}
  /\ held \in [Readers -> Snapshot \cup {Nil}]

(* A snapshot of the current revision is the current rule set.               *)
NamesCurrent(s) ==
  /\ s.revision <= revision
  /\ s.revision = revision => s.rules = Stored

(* The revision names the rule set: whoever holds a snapshot of the current  *)
(* revision (a request in flight, an admin client, the cache itself) holds   *)
(* exactly the rules that are stored.  Every mutation must therefore bump    *)
(* the revision and drop the cached snapshot.                                *)
RevisionNamesRuleSet ==
  /\ cachedSnapshot # Nil =>
       NamesCurrent(cachedSnapshot) /\ cachedSnapshot.revision = revision
  /\ \A r \in Readers : held[r] # Nil => NamesCurrent(held[r])

(* No lost update: a write sent with the revision a client loaded takes      *)
(* effect only on the very rule set that client saw, so it never overwrites  *)
(* a change made in between (expectedRevision of PUT, DELETE, rules:import   *)
(* and rules:disable-all).                                                   *)
NoLostUpdate ==
  [][\A c \in Clients : Write(c) => held[c].rules = Stored]_storeVars

=============================================================================
