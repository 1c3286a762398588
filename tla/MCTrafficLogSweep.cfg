CONSTANTS
  Drafts <- MCDrafts
  Kinds = {"response"}
  MaxEntries = 3
  MaxBytes = 3
  RetentionMs = 1
  PageSize = 1
  Readers = {r1}
  MaxAdds = 4
  MaxNow = 2
  Nil = Nil
SPECIFICATION Spec
PROPERTY
  SweepDropsAllExpired
CHECK_DEADLOCK FALSE
