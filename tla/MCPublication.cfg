SPECIFICATION MCSpec
CONSTANTS
  Ids = {1, 2}
  Contents <- SomeContents
  Skeleton <- Blank
  Clients = {c1, c2}
  CacheSize = 2
  MaxAge = 2
  MaxTime = 3
  Broken = Broken
  None = None
INVARIANTS
  TakedownsAreSeen
  ServedAsReviewed
  FailuresPass
CHECK_DEADLOCK FALSE
SYMMETRY ClientsAreAlike
