SPECIFICATION Spec
CONSTANTS
  MaxBytes = 1
  MaxPixels = 60000
  MaxEdge = 500
  MaxWorkPixels = 40000
  None = None
  Samples <- SampleFiles
INVARIANTS
  GoodPhotosAccepted
  UprightForEveryTag
CHECK_DEADLOCK FALSE
