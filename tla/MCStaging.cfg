SPECIFICATION Spec
CONSTANTS
  Visits = {v1, v2}
  Contents = {c1, c2}
  None = None
  MaxKeys = 2
  MaxSessions = 2
  MaxRestarts = 1
INVARIANTS
  RetryMakesNoSecondPhoto
  ReceiptMatchesPhoto
  UploadNeverReplaysDeleted
CHECK_DEADLOCK FALSE
SYMMETRY Symmetry
