CONSTANTS
  RuleIds = {1, 2, 3}
  Definitions <- MCDefinitions
  Inputs <- MCInputs
  Stamps = {1}
  Payloads <- MCPayloads
  Batches <- MCBatches
  Presets <- MCPresets
  Clients = {}
  Requests = {p1, p2, p3}
  MaxRevision = 4
  MaxNow = 2
  Nil = Nil
SPECIFICATION Spec
SYMMETRY Interchangeable
INVARIANTS
  BudgetRespected
  FirstMatchWins
PROPERTIES
  ExhaustedOnlyWhenSpent
CHECK_DEADLOCK FALSE
