SPECIFICATION Spec
CONSTANTS
  Photos = {p1, p2}
  Keys = {k1, k2}
  Deletes = {d1}
  Resolves = {}
  Downloads = {}
  Worker = Worker
  Nobody = Nobody
  Stuck = {}
  MaxFaults = 1
  MaxCrashes = 1
INVARIANTS
  PurgedMeansBytesGone
PROPERTIES
  EventuallyErased
  OrphansSwept
