SPECIFICATION ResumptionSpec
CONSTANTS
  Workflows = {w1}
  Clients = {c1, c2}
  NoClient = none
  MaxDetails = 1
  BareOps = {"start"}
PROPERTY RunsComplete
