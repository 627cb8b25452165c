SPECIFICATION CaptureSpec
CONSTANTS
  Opens = {o1, o2}
  Shots = {}
  Unset = Unset
INVARIANT
  IdleMeansCameraOff
CHECK_DEADLOCK FALSE
