CONSTANTS
  LoginThreshold = 2
  LoginWindow = 1
  RefusalThreshold = 3
  RefusalWindow = 2
  RequestThreshold = 2
  RateLimitThreshold = 2
  RateWindow = 0
  FaultThreshold = 3
  FaultWindow = 1
  Nobody = nobody
  Requests = {r1, r2}
  Users = {u1, u2}
  Addresses = {i1, i2}
  Consumer = consumer
  MaxTime = 3
SPECIFICATION Spec
CHECK_DEADLOCK FALSE
SYMMETRY StreamSymmetry
INVARIANT TypeOK
INVARIANT BruteForceIsExact
INVARIANT RequestsAreCounted
INVARIANT NoBlindSpot
PROPERTY EvidenceOnlyAdds
