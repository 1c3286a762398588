CONSTANTS
  Nil = Nil
  Rules <- MCRules
SPECIFICATION FairSpec
CHECK_DEADLOCK FALSE
INVARIANTS
  UpstreamAnswerIsReturned
  ModifiedIsDelivered
  RuleErrorIsPassedThrough
  AbortIsTheClients
