SPECIFICATION Spec
CONSTANTS
  v1 = v1
  v2 = v2
  v3 = v3
  None = None
  StableMs = 800
  FaceWidthMin = 15
  FaceWidthMax = 60
  FaceOffsetMax = 25
  MaxTurn <- MCMaxTurn
  Exit = 13
  Frames <- MCFrames
  Photos <- MCPhotos
  Picture <- MCPicture
  Gaps <- MCGaps
  MinInterval = 83
  Landmarkers = {v1, v2, v3}
SYMMETRY Symmetry
INVARIANT LandmarkersAccounted
INVARIANT ShootableMeansStable
INVARIANT BackgroundIsOutsideFace
CONSTRAINT FewWhileGuiding
CHECK_DEADLOCK FALSE
