CONSTANTS
  Nil = Nil
  Rules <- MCRules
SPECIFICATION FairSpec
CHECK_DEADLOCK FALSE
INVARIANTS
  AppliedRuleIsLogged
  LogTellsWhatClientGot
  UnaryChangesAreTraceable
PROPERTIES
  CallEnds
  TraceSpec
