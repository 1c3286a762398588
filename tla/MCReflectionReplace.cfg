CONSTANTS
  configured = configured
  other = other
  malformed = malformed
  Targets <- MCTargets
  Services = {s1, s2}
  s1 = s1
  s2 = s2
  Named <- MCNamed
  Upload = Upload
  MaxDescriptors = 3
  Malformed = {malformed}
  Allowed = {configured, other}
  Startup = {configured}
  StartupSymbols <- MCStartupSymbols
  Configured = {configured}
  NegativeTtl = 2
  MaxAttempts = 2
  MaxObserved = 1
  MaxRequests = 2
  MaxNow = 3
  Nil = Nil
SPECIFICATION Spec
PROPERTY FailedImportKeepsDescriptors
CHECK_DEADLOCK FALSE
