--------------------------- MODULE MCPipelineRuns ---------------------------
EXTENDS PipelineRuns, TLC

ClientSymmetry == Permutations(Clients)
=============================================================================
