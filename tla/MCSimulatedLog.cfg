CONSTANTS
  Nil = Nil
  Malformed = Malformed
  Matchers <- MCMatchers
  Depth <- MCDepth
  MethodOf <- MCMethodOf
  Base64 <- MCBase64
  Framed <- MCFramed
  Drafts <- MCDrafts
  Traffic <- MCTraffic
  InitialRules <- MCInitialRules
  MaxRules = 2
  MaxExchanges = 1
SPECIFICATION Spec
CONSTRAINT GoesOn
INVARIANT LogForetells
CHECK_DEADLOCK FALSE
