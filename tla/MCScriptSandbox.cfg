CONSTANTS
  Calls = {c1, c2}
  MaxCrashes = 2
  Nil = Nil
SPECIFICATION Spec
INVARIANTS
  AnswerIsOwn
PROPERTIES
  KillIsForAWaitingCall
  EveryRunSettles
  WorkerReplaced
  CloseCompletes
CHECK_DEADLOCK FALSE
