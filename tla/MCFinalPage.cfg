SPECIFICATION Spec
CONSTANTS
  PxPerMm = 1
  Ppi = 300
  None = None
  Templates <- Catalogue
  Rechecks <- SomeRechecks
  Browsers <- AbleAndNot
  MaxQuality = 4
  MaxRuns = 3
  MaxAdvice = 1
INVARIANTS
  ChecksAreOfArtifact
  SearchIsExact
  ChecksAgreeWithGuides
CHECK_DEADLOCK FALSE
