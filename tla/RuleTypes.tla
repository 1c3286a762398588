------------------------------ MODULE RuleTypes ------------------------------
(* The rule record the store, the registry and the evaluator share          *)
(* (src/src/rules/types.ts), reduced to the fields they act on.             *)
EXTENDS Integers, FiniteSets

CONSTANTS
  RuleIds,      \* ids a rule may have; the code orders them as strings
  Definitions,  \* contents of a rule other than id, enabled and createdAt
  Stamps,       \* createdAt values: the payload's, or the time of the call
  Payloads,     \* the rules an admin client may send, without their id
  Nil           \* "no such value": null, undefined, or an absent map key

(* A definition is a record with                                             *)
(*   priority       evaluated in descending order                            *)
(*   observation    neither request nor response stage (isObservationRule)   *)
(*   responseMatch  the response stage has a match of its own                *)
(*   times          consume.times, 0 without a consume spec                  *)
(*   resetAfterMs   consume.resetAfterMs, 0 without one                      *)
(*   traffic        the kinds of traffic it is considered for: those of its  *)
(*                  protocol, less the streamed ones if its matcher uses the *)
(*                  body                                                     *)
ASSUME RuleConstants ==
  /\ Payloads \subseteq [def : Definitions, enabled : BOOLEAN, createdAt : Stamps]
  /\ RuleIds \subseteq Int
  /\ IsFiniteSet(RuleIds)
  /\ Stamps \subseteq Int
  /\ Nil \notin Stamps
  /\ \A d \in Definitions :
       /\ d.priority \in Int
       /\ d.times \in Nat
       /\ d.resetAfterMs \in Nat
       /\ d.resetAfterMs > 0 => d.times > 0

Rule == [id : RuleIds, def : Definitions, enabled : BOOLEAN, createdAt : Stamps]

Consumable(rule) == rule.def.times > 0

=============================================================================
