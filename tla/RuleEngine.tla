------------------------------ MODULE RuleEngine ------------------------------
(***************************************************************************)
(* Rule evaluation (src/src/rules/evaluate.ts) composed with the rule      *)
(* store and the consume registry it shares with the admin API             *)
(* (src/src/admin/rules-api.ts, wired in src/src/index.ts).                *)
(*                                                                         *)
(* A request pins a snapshot, then walks it.  Before each matcher it reads *)
(* the rule's counter (ctx.ruleState); the matcher is awaited, so other    *)
(* requests and admin calls run before its verdict is acted on.  Steps     *)
(* here are at most one such synchronous stretch of the code.              *)
(***************************************************************************)
EXTENDS RuleStore, ConsumeRegistry

CONSTANT
  Inputs        \* what a request is to the rules; see Input

(* traffic: the protocol, and whether the body is available to matchers.     *)
(* accepts, throws: the definitions whose matcher returns true, or fails.    *)
Input == [traffic : STRING, accepts : SUBSET Definitions, throws : SUBSET Definitions]

ASSUME EngineConstants ==
  /\ \A d \in Definitions : d.observation \in BOOLEAN /\ d.responseMatch \in BOOLEAN
  /\ MaxNow \in Nat
  /\ \A input \in Inputs : input.accepts \cap input.throws = {}

VARIABLES
  request,      \* the evaluation of each proxied request
  uses          \* history: the applications of each rule id, for the properties

vars == <<storeVars, registryVars, request, uses>>

(* left: the rules of its snapshot it has not come to; rule: the one at hand; *)
(* intercept, captured, errors: the EvaluationResult so far.                  *)
Idle == [pc |-> "idle", input |-> Nil, left |-> {}, rule |-> Nil,
         intercept |-> Nil, captured |-> {}, errors |-> {}]

(* total, current: applications counted since the counter was last reset by   *)
(* the admin API, and those among them made under the stored definition.      *)
(* run, limit, at: applications with no quiet spell as long as a resetAfterMs *)
(* between them, the limit the last one was made under, and its time.         *)
NoUse == [total |-> 0, current |-> 0, run |-> 0, limit |-> 0, at |-> Never]

Init ==
  /\ StoreInit
  /\ RegistryInit
  /\ request = [p \in Requests |-> Idle]
  /\ uses = [id \in RuleIds |-> NoUse]

----------------------------------------------------------------------------
(* The evaluation of a request.                                              *)

(* enabled, protocol, and "streaming && matcherUsesBody". *)
Considered(p, rule) == rule.enabled /\ request[p].input.traffic \in rule.def.traffic

Upcoming(p) == {rule \in request[p].left : Considered(p, rule)}

(* The rule set is pinned when the exchange starts, before its body is read. *)
Begin(p, input) ==
  /\ request[p].pc = "idle"
  /\ Read(p)
  /\ request' = [request EXCEPT ![p].pc = "evaluating", ![p].input = input,
                                ![p].left = CurrentSnapshot.rules]
  /\ UNCHANGED <<registryVars, uses>>

(* To the next rule that is not skipped: view(rule), then await evalMatcher. *)
LookAtNext(p) ==
  /\ request[p].pc = "evaluating"
  /\ \E rule \in Upcoming(p) :
       /\ \A other \in Upcoming(p) \ {rule} : Ahead(rule, other)
       /\ Settle(rule)
       /\ request' = [request EXCEPT ![p].pc = "matching", ![p].rule = rule,
                                     ![p].left = @ \ {rule}]
  /\ UNCHANGED <<storeVars, uses>>

RulesRunOut(p) ==
  /\ request[p].pc = "evaluating"
  /\ Upcoming(p) = {}
  /\ request' = [request EXCEPT ![p].pc = "selected"]
  /\ UNCHANGED <<storeVars, registryVars, uses>>

Matches(p) == request[p].rule.def \in request[p].input.accepts

(* The matcher returned false, or failed: both go on to the next rule. *)
MatcherSaysNo(p) ==
  LET rule == request[p].rule IN
  /\ request[p].pc = "matching"
  /\ ~Matches(p)
  /\ request' = [request EXCEPT ![p].pc = "evaluating",
       ![p].errors = IF rule.def \in request[p].input.throws THEN @ \cup {rule.id} ELSE @]
  /\ UNCHANGED <<storeVars, registryVars, uses>>

(* It matched, but tryConsume() finds the rule exhausted. *)
RuleSpent(p) ==
  /\ request[p].pc = "matching"
  /\ Matches(p)
  /\ Exhausted(request[p].rule)
  /\ Settle(request[p].rule)
  /\ request' = [request EXCEPT ![p].pc = "evaluating"]
  /\ UNCHANGED <<storeVars, uses>>

(* History of an application of rule at this moment. *)
Unbroken(since) ==
  since # Never /\ \A d \in Definitions : d.resetAfterMs > 0 => now - since < d.resetAfterMs

Used(rule) ==
  LET u == uses[rule.id] IN
    IF Consumable(rule)
    THEN [total   |-> u.total + 1,
          current |-> IF rules[rule.id] = rule THEN u.current + 1 ELSE u.current,
          run     |-> IF Unbroken(u.at) THEN u.run + 1 ELSE 1,
          limit   |-> rule.def.times,
          at      |-> now]
    ELSE u

(* It matched and applies: an observation rule lets evaluation go on, the    *)
(* first intercept rule ends it.                                             *)
Capture(p) ==
  [request EXCEPT ![p].pc = "evaluating", ![p].captured = @ \cup {request[p].rule.id}]

Select(p) ==
  [request EXCEPT ![p].pc = "selected", ![p].intercept = request[p].rule]

RuleAppliesOnMatch(p) ==
  LET rule == request[p].rule IN
  /\ request[p].pc = "matching"
  /\ Matches(p)
  /\ Count(rule)
  /\ uses' = [uses EXCEPT ![rule.id] = Used(rule)]
  /\ request' = IF rule.def.observation THEN Capture(p) ELSE Select(p)
  /\ UNCHANGED storeVars

RuleAppliesStopping(p) ==
  LET rule == request[p].rule IN
  /\ request[p].pc = "matching"
  /\ Matches(p)
  /\ ~Exhausted(rule)
  /\ Count(rule)
  /\ uses' = [uses EXCEPT ![rule.id] = Used(rule)]
  /\ request' = IF rule.def.observation
                THEN [Capture(p) EXCEPT ![p].pc = "selected"] ELSE Select(p)
  /\ UNCHANGED storeVars

RuleApplies(p) ==
  LET rule == request[p].rule IN
  /\ request[p].pc = "matching"
  /\ Matches(p)
  /\ ~Exhausted(rule)
  /\ Count(rule)
  /\ uses' = [uses EXCEPT ![rule.id] = Used(rule)]
  /\ request' = IF rule.def.observation THEN Capture(p) ELSE Select(p)
  /\ UNCHANGED storeVars

(* evaluateResponseMatch(), once the upstream has answered: it reads the     *)
(* intercept rule's counter again and consumes nothing.  A rule without a    *)
(* response match, or no rule, leaves the counters alone.                    *)
RespondTo(p) ==
  /\ request[p].pc = "selected"
  /\ IF request[p].intercept # Nil /\ request[p].intercept.def.responseMatch
     THEN Settle(request[p].intercept)
     ELSE UNCHANGED registryVars
  /\ request' = [request EXCEPT ![p].pc = "done"]
  /\ UNCHANGED <<storeVars, uses>>

----------------------------------------------------------------------------
(* The admin API.  onRuleChanged resets the counters of the rules a call     *)
(* changes: not of created, and not of disabled ones.                        *)

Forget(ids) ==
  /\ Reset(ids)
  /\ uses' = [id \in RuleIds |-> IF id \in ids THEN NoUse ELSE uses[id]]

StoredIds == {id \in RuleIds : rules[id] # Nil}

CreateRule ==
  \E id \in RuleIds, p \in Payloads : Create(id, p) /\ UNCHANGED <<registryVars, uses>>

UpdateRule ==
  \E id \in RuleIds, p \in Payloads : Update(id, p) /\ Forget({id})

DeleteRule ==
  \E id \in RuleIds : Delete(id) /\ Forget({id})

DisableRules == DisableAll /\ UNCHANGED <<registryVars, uses>>

ImportRules ==
  \E batch \in Batches, mode \in Modes :
    /\ Import(batch, mode)
    /\ Forget(IF mode = "replace" THEN StoredIds ELSE StoredIds \cap DOMAIN batch)

(* state:reset of a stored rule. *)
ResetRuleState ==
  /\ \E id \in StoredIds : Forget({id})
  /\ UNCHANGED storeVars

(* rules and rules/:id/state: stateOf() settles the counter it reports. *)
InspectRule ==
  /\ \E id \in StoredIds : Settle(rules[id])
  /\ UNCHANGED <<storeVars, uses>>

Admin ==
  /\ \/ CreateRule \/ UpdateRule \/ DeleteRule \/ DisableRules \/ ImportRules
     \/ ResetRuleState \/ InspectRule
  /\ UNCHANGED request

TimePasses == Tick /\ UNCHANGED <<storeVars, request, uses>>

Evaluate(p) ==
  \/ LookAtNext(p) \/ RulesRunOut(p)
  \/ MatcherSaysNo(p) \/ RuleSpent(p) \/ RuleApplies(p)
  \/ RespondTo(p)

Next ==
  \/ \E p \in Requests :
       \/ \E input \in Inputs : Begin(p, input)
       \/ Evaluate(p)
  \/ Admin
  \/ TimePasses

Spec == Init /\ [][Next]_vars

----------------------------------------------------------------------------
Evaluation == [pc : {"idle", "evaluating", "matching", "selected", "done"},
               input : Inputs \cup {Nil}, left : SUBSET Rule, rule : Rule \cup {Nil},
               intercept : Rule \cup {Nil},
               captured : SUBSET RuleIds, errors : SUBSET RuleIds]

Use == [total : Nat, current : Nat, run : Nat, limit : Nat, at : Nat \cup {Never}]

(* Types of the engine's state, the store's and the registry's included. *)
TypeOK ==
  /\ StoreTypeOK
  /\ RegistryTypeOK
  /\ request \in [Requests -> Evaluation]
  /\ \A p \in Requests :
       /\ request[p].pc # "idle" => request[p].input \in Inputs /\ held[p] # Nil
       /\ request[p].pc = "matching" => request[p].rule \in Rule
  /\ uses \in [RuleIds -> Use]

(* The consume budget: however many requests evaluate a rule at once, with   *)
(* their matchers awaited between reading its counter and counting against   *)
(* it, and whichever definition of it each of them pinned, the rule applies  *)
(* at most `times` times until it is left unused for a resetAfterMs or its   *)
(* counter is reset (spec 4.6: "only the first N times").                    *)
BudgetRespected == \A id \in RuleIds : uses[id].run <= uses[id].limit

(* A rule is passed over as exhausted only after that many applications have *)
(* really been counted since its counter was last reset: a counter is never  *)
(* incremented for an evaluation that did not apply the rule, and never      *)
(* survives the update, deletion or reset of its rule with a stale value.    *)
ExhaustedOnlyWhenSpent ==
  [][\A p \in Requests :
       RuleSpent(p) =>
         uses[request[p].rule.id].total >= request[p].rule.def.times]_vars

(* spec.md 4.2.5: updating or deleting a rule initialises its counter.  If   *)
(* so, an evaluation of the stored definition finds it exhausted only after  *)
(* `times` applications of that definition.                                  *)
UpdateStartsAfresh ==
  [][\A p \in Requests :
       RuleSpent(p) /\ request[p].rule \in Stored =>
         uses[request[p].rule.id].current >= request[p].rule.def.times]_vars

(* What evaluation promises, said without a walk: among the rules of the     *)
(* pinned snapshot that are considered and match, the selected one is first  *)
(* in evaluation order, save for observation rules, which never stop the     *)
(* evaluation, and consumable ones, which may have been exhausted.  Matching *)
(* observation rules ahead of it are all captured, none behind it is.        *)
Matching(p) == {rule \in held[p].rules :
                  Considered(p, rule) /\ rule.def \in request[p].input.accepts}

FirstMatchWins ==
  \A p \in Requests : request[p].pc \in {"selected", "done"} =>
    LET chosen == request[p].intercept
        Reached(rule) == chosen # Nil => Ahead(rule, chosen)
    IN /\ chosen # Nil => chosen \in Matching(p) /\ ~chosen.def.observation
       /\ \A rule \in Matching(p) \ {chosen} :
            /\ Reached(rule) /\ ~Consumable(rule) =>
                 rule.def.observation /\ rule.id \in request[p].captured
            /\ rule.id \in request[p].captured => Reached(rule) /\ rule.def.observation

=============================================================================
