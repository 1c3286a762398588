CONSTANTS
  Nil = Nil
  Rules <- MCRules
SPECIFICATION FairSpec
CHECK_DEADLOCK FALSE
INVARIANT
  ReplyIsReleased
