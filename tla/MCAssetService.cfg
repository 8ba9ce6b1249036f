SPECIFICATION Spec
CONSTANTS
  Requests = {r1, r2, r3}
  Names = {web, app}
  Null = Null
  Unset = Unset
  MaxAssets = 3
SYMMETRY Symmetry
CHECK_DEADLOCK FALSE
INVARIANT TypeOK
INVARIANT RepliesMatchWrites
INVARIANT CriticalReadsAnnounced
PROPERTY ImplementsUniqueTable
