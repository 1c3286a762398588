CONSTANTS
  Nil = Nil
  Rules <- MCRules
SPECIFICATION FairSpec
CHECK_DEADLOCK FALSE
INVARIANTS
  AppliedRuleIsLogged
  LogTellsWhatClientGot
  LogSaysWhy
  ChangesAreTraceable
  NobodyLeftWaiting
  IncompleteNotForwarded
PROPERTIES
  EndsUnlessBodyStalls
  TraceSpec
