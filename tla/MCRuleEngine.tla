---------------------------- MODULE MCRuleEngine ----------------------------
(* The rule engine with three concurrent requests on three preset rules and *)
(* one admin mutation (any number of state resets and inspections).         *)
EXTENDS RuleEngine, TLC

AnyTraffic == {"buffered", "streamed"}

(* Applies twice, and again after two ticks of quiet. *)
Twice == [priority |-> 1, observation |-> FALSE, responseMatch |-> TRUE,
          times |-> 2, resetAfterMs |-> 2, traffic |-> AnyTraffic]
(* What it may be replaced by. *)
Once == [Twice EXCEPT !.times = 1]
(* Captures one request, looking at its body. *)
Watch == [priority |-> 1, observation |-> TRUE, responseMatch |-> FALSE,
          times |-> 1, resetAfterMs |-> 0, traffic |-> {"buffered"}]
(* What a request falls back to. *)
Fallback == [priority |-> 0, observation |-> FALSE, responseMatch |-> FALSE,
             times |-> 0, resetAfterMs |-> 0, traffic |-> AnyTraffic]

MCDefinitions == {Twice, Once, Watch, Fallback}

Preset(id, def) == [id |-> id, enabled |-> TRUE, createdAt |-> 1, def |-> def]

MCPresets == <<Preset(1, Twice), Preset(2, Fallback), Nil>>

MCPayloads ==
  {[def |-> Once, enabled |-> TRUE, createdAt |-> 1],
   [def |-> Watch, enabled |-> TRUE, createdAt |-> 1]}

MCBatches == {<<>>, 1 :> [def |-> Once, enabled |-> TRUE, createdAt |-> 1]}

MCInputs ==
  {[traffic |-> "buffered", accepts |-> MCDefinitions, throws |-> {}],
   [traffic |-> "streamed", accepts |-> {Twice, Once}, throws |-> {Fallback}]}

Interchangeable == Permutations(Requests)
=============================================================================
