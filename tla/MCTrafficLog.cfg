CONSTANTS
  Drafts <- MCDrafts
  Kinds = {"response"}
  MaxEntries = 3
  MaxBytes = 3
  RetentionMs = 1
  PageSize = 1
  Readers = {r1}
  MaxAdds = 4
  MaxNow = 2
  Nil = Nil
SPECIFICATION Spec
INVARIANTS
  CapsHold
  NoBodyOutlivesItsEntry
PROPERTIES
  StoredBodyIsFound
  WalkIsComplete
CHECK_DEADLOCK FALSE
