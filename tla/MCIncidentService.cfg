CONSTANTS
  Requests = {r1, r2, r3}
  Absent = absent
  Severities = {"LOW", "HIGH", "CRITICAL"}
  Statuses = {"OPEN", "RESOLVED"}
  MaxIncidents = 2
SPECIFICATION Spec
CHECK_DEADLOCK FALSE
SYMMETRY RequestSymmetry
INVARIANT TypeOK
INVARIANT EventsMatchWrites
 
PROPERTY WritesStandApart
