CONSTANTS
  RuleIds = {1, 2}
  Definitions <- MCDefinitions
  Stamps = {1, 2}
  Payloads <- MCPayloads
  Batches <- MCBatches
  Presets <- MCPresets
  Clients = {c1}
  Requests = {}
  MaxRevision = 4
  Nil = Nil
SPECIFICATION StoreSpec
INVARIANTS
  RevisionNamesRuleSet
PROPERTY
  NoLostUpdate
CHECK_DEADLOCK FALSE
