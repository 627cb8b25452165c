SPECIFICATION LimitSpec
CONSTANTS
  Requests = {r1, r2, r3}
  Ips = {i1, i2}
  Codes = {k1, k2}
  Malformed = Malformed
  IpLimit = 1
  FailLimit = 1
  Width = 2
  MaxTime = 2
INVARIANTS
  IpLimitHolds
PROPERTY
  GateCountsFailures
SYMMETRY Symmetry
CHECK_DEADLOCK FALSE
