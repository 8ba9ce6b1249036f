CONSTANTS
  LoginThreshold = 1
  LoginWindow = 0
  RefusalThreshold = 3
  RefusalWindow = 1
  RequestThreshold = 2
  RateLimitThreshold = 2
  RateWindow = 1
  FaultThreshold = 2
  FaultWindow = 1
  Nobody = nobody
  Loads = {l1, l2}
  Attempts = {a1, a2}
  Users = {u1, u2}
  Addresses = {i1}
  Services = {s1}
  IncidentWindow = 0
  MaxTime = 1
  MaxIncident = 2
SPECIFICATION Spec
CHECK_DEADLOCK FALSE
SYMMETRY LoaderSymmetry
INVARIANT TypeOK
INVARIANT AlertsAreFindings
INVARIANT CompletedLoadIsThere
INVARIANT GapsHaveAnOwner
