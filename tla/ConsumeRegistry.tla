--------------------------- MODULE ConsumeRegistry ---------------------------
(***************************************************************************)
(* Hit and consume counters per rule id (src/src/rules/consume.ts).  A map *)
(* entry is created on first use; an absent entry and a fresh one are      *)
(* indistinguishable through the class, so counters is a total function.   *)
(* lastMatchedAt, which is only displayed, is left out.                    *)
(*                                                                         *)
(* A rule is the evaluator's own copy (from its snapshot), not necessarily *)
(* the stored one.  times = 0 stands for "no consume spec" and             *)
(* resetAfterMs = 0 for "no resetAfterMs"; the validator admits neither.   *)
(***************************************************************************)
EXTENDS RuleTypes

CONSTANT
  MaxNow        \* bound on the clock, in units of the shortest resetAfterMs

VARIABLES
  counters,     \* states
  now           \* Date.now()

registryVars == <<counters, now>>

Never == -1     \* lastConsumedAt is null

Counter == [hits : Nat, consumed : Nat, lastConsumedAt : Nat \cup {Never}]

Fresh == [hits |-> 0, consumed |-> 0, lastConsumedAt |-> Never]

RegistryInit ==
  /\ counters = [id \in RuleIds |-> Fresh]
  /\ now = 0

----------------------------------------------------------------------------
ResetDue(rule) ==
  LET c == counters[rule.id] IN
    /\ rule.def.resetAfterMs > 0
    /\ c.lastConsumedAt # Never
    /\ now - c.lastConsumedAt >= rule.def.resetAfterMs

(* maybeReset(): the counter as every reader of it first brings it up to date. *)
Settled(rule) ==
  IF ResetDue(rule)
  THEN [counters[rule.id] EXCEPT !.consumed = 0, !.lastConsumedAt = Never]
  ELSE counters[rule.id]

Exhausted(rule) == Consumable(rule) /\ Settled(rule).consumed >= rule.def.times

Remaining(rule) ==
  IF Settled(rule).consumed >= rule.def.times
  THEN 0 ELSE rule.def.times - Settled(rule).consumed

(* view(), remaining(), stateOf(), and a tryConsume() that fails: they only *)
(* settle the counter.                                                      *)
Settle(rule) ==
  /\ counters' = [counters EXCEPT ![rule.id] = Settled(rule)]
  /\ UNCHANGED now

(* tryConsume() that succeeds, then recordHit(). *)
Counted(rule) ==
  LET c == Settled(rule) IN
    [hits           |-> c.hits + 1,
     consumed       |-> IF Consumable(rule) THEN c.consumed + 1 ELSE c.consumed,
     lastConsumedAt |-> IF Consumable(rule) THEN now ELSE c.lastConsumedAt]

Count(rule) ==
  /\ counters' = [counters EXCEPT ![rule.id] = Counted(rule)]
  /\ UNCHANGED now

(* Forgets the hits but keeps the counter that decides exhaustion. *)
ResetHitsOnly(ids) ==
  /\ counters' = [id \in RuleIds |->
       IF id \in ids THEN [counters[id] EXCEPT !.hits = 0] ELSE counters[id]]
  /\ UNCHANGED now

(* reset() of each of ids, as onRuleChanged and state:reset call it. *)
Reset(ids) ==
  /\ counters' = [id \in RuleIds |-> IF id \in ids THEN Fresh ELSE counters[id]]
  /\ UNCHANGED now

Tick ==
  /\ now < MaxNow
  /\ now' = now + 1
  /\ UNCHANGED counters

----------------------------------------------------------------------------
RegistryTypeOK ==
  /\ counters \in [RuleIds -> Counter]
  /\ now \in Nat

=============================================================================
