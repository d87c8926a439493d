--------------------------- MODULE MCWorkflowStore --------------------------
EXTENDS WorkflowStore, TLC

ClientSymmetry == Permutations(Clients)
=============================================================================
