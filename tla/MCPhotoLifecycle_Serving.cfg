SPECIFICATION Spec
CONSTANTS
  Photos = {p1, p2}
  Keys = {k1}
  Deletes = {d1}
  Resolves = {v1}
  Downloads = {w1, w2}
  Worker = Worker
  Nobody = Nobody
  Stuck = {}
  MaxFaults = 1
  MaxCrashes = 0
INVARIANTS
  SingleUse
  DeleteOkMeansRevoked
  KeyLeadsToItsPhoto
PROPERTIES
  KeepsVault
SYMMETRY Symmetry
