SPECIFICATION ToolsSpec
CONSTANTS
  Workflows = {w1}
  Clients = {c1, c2}
  NoClient = none
  MaxDetails = 1
SYMMETRY ClientSymmetry
INVARIANT SnapshotEndsAtItsState
