SPECIFICATION Spec
CONSTANTS
  Photos = {p1, p2}
  Keys = {k1, k2}
  Deletes = {d1}
  Resolves = {}
  Downloads = {}
  Worker = Worker
  Nobody = Nobody
  Stuck = {p1}
  MaxFaults = 1
  MaxCrashes = 0
PROPERTY
  PurgeDueCompletesCleanup
