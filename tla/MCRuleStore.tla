----------------------------- MODULE MCRuleStore -----------------------------
(* The rule store on a small instance: two ids, two priorities, two         *)
(* createdAt values (so that ties on each criterion of compareRules occur), *)
(* one admin client besides writers that send no revision; three mutations.                       *)
EXTENDS RuleStore, TLC

MCDefinitions == [priority : {0, 1}, times : {0}, resetAfterMs : {0}]

MCPresets == [id \in RuleIds |-> Nil]
MCPayloads == [def : MCDefinitions, enabled : BOOLEAN, createdAt : Stamps]

MCBatches == UNION {[S -> Payloads] : S \in SUBSET RuleIds}
=============================================================================
