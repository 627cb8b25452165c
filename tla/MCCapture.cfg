SPECIFICATION CaptureSpec
CONSTANTS
  Opens = {o1, o2, o3}
  Shots = {s1, s2}
  Unset = Unset
INVARIANTS
  CameraOffAfterLeaving
  PhotosAccounted
PROPERTIES
  LateShotIsDropped
  CapturingEnds
CHECK_DEADLOCK FALSE
