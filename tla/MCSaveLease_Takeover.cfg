SPECIFICATION MCSpec
CONSTANTS
  r1 = r1
  r2 = r2
  r3 = r3
  l1 = l1
  l2 = l2
  d1 = d1
  Requests = {r1, r2, r3}
  Keys = {k1}
  Digests = {d1}
  Loops = {l1, l2}
  LoopOf <- TwoLoops
  Lease = 5
  Window = 6
  MaxTime = 1
  MaxMishaps = 1
  NoRec = NoRec
INVARIANT
  NoSecondPhotoInWindow
CHECK_DEADLOCK FALSE
