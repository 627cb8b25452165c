SPECIFICATION Spec
CONSTANTS
  Sizes <- SizeNames
  Need <- MCNeed
  FullTurn = 4
  MaxScale = 3
  None = None
  Templates <- Catalogue
  Fingers = {f1, f2}
  UndoLimit = 2
  TypedScales <- FewScales
  TypedAngles <- Angles
  Pans <- Distances
  MaxEdits = 3
  MaxMoves = 2
INVARIANTS
  LocksHold
PROPERTIES
  EveryChangeCanBeUndone
  SwitchedEditsFit
SYMMETRY Symmetry
