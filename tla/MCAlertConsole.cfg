CONSTANTS
  Runs = {d1, d2}
  Patches = {p1}
  Views = {v1}
  Services = {s1, s2}
  Entries = {e1}
  Threshold = 1
  NoAlert = absent
  NoRun = none
SPECIFICATION Spec
CHECK_DEADLOCK FALSE
SYMMETRY ConsoleSymmetry
INVARIANT TypeOK
INVARIANT EvidenceAsCollected
INVARIANT LastRunStands
PROPERTY TriageHolds
