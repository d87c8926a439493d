SPECIFICATION RunsSpec
CONSTANTS
  Workflows = {w1}
  Clients = {c1, c2}
  NoClient = none
  MaxDetails = 1
  BareOps = {"start", "failed", "delete", "report_rendered"}
SYMMETRY ClientSymmetry
INVARIANTS
  RunsTypeOK
  StagesRunOnce
  ResultIsValid
