SPECIFICATION Spec
CONSTANTS
  Sizes <- SizeNames
  Need <- MCNeed
  FullTurn = 4
  MaxScale = 3
  None = None
  Templates <- Catalogue
  Fingers = {f1, f2}
  UndoLimit = 2
  TypedScales <- FewScales
  TypedAngles <- Angles
  Pans <- Distances
  MaxEdits = 4
  MaxMoves = 2
INVARIANT FinalTransformValid
SYMMETRY Symmetry
