------------------------ MODULE MCPipelineResumption ------------------------
EXTENDS PipelineResumption
=============================================================================
