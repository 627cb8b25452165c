SPECIFICATION MCSpec
CONSTANTS
  r1 = r1
  r2 = r2
  r3 = r3
  l1 = l1
  l2 = l2
  d1 = d1
  Requests = {r1, r2, r3}
  Keys = {k1}
  Digests = {d1, d2}
  Loops = {l1}
  LoopOf <- OneLoop
  Lease = 1
  Window = 1
  MaxTime = 2
  MaxMishaps = 1
  NoRec = NoRec
INVARIANTS
  CommittedPhotoReplayable
  NoSecondPhotoInWindow
  AnswerMatchesContent
  AnsweredSaveLeavesNoOrphan
PROPERTY
  EveryRequestAnswered
CHECK_DEADLOCK FALSE
