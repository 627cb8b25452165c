SPECIFICATION Spec
CONSTANTS
  Routes = {"create", "retrieve", "privacy", "detail"}
  MaxBytes = 1
  MaxPixels = 1
  MaxEdge = 1
  MaxWorkPixels = 1
  None = None
  Templates <- Revisions
  Entry <- Catalogue
  Files = {u1, u2, c1}
  Captures = {c1}
  Content <- Contents
  MaxVisits = 1
  Keys = {k1}
  Resolves = {i1, i2}
  Deletes = {d1}
  Partial = Partial
INVARIANTS
  EditsBelongToSource
  BlankOnlyAfterLateUpload
  NothingElseHeld
  ShownAfterDeleteOnlyIfPending
SYMMETRY Symmetry
CONSTRAINT OneFlow
CHECK_DEADLOCK FALSE
