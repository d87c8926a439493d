SPECIFICATION Spec
CONSTANTS
  Workflows = {w1}
  Clients = {c1, c2}
  NoClient = none
  MaxDetails = 2
SYMMETRY ClientSymmetry
INVARIANTS
  TypeOK
  TrailIsComplete
  StageRowsMatchTrail
  CommitsOnFreshReads
  NoLockAcrossAwait
  SnapshotExplainsItsState
PROPERTY ImplementsLifecycle
