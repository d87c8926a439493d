------------------------- MODULE MCWorkflowStoreTorn -------------------------
(***************************************************************************)
(* Nothing but what the tools call to start a workflow, to move it on and  *)
(* to read it: no failure is recorded, nothing is completed by hand, and   *)
(* nothing is deleted.                                                     *)
(***************************************************************************)
EXTENDS MCWorkflowStore

ToolOps == StageStates \union {"start", "get", "none"}

ToolsNext == Next /\ \A c \in Clients : op'[c] \in ToolOps

ToolsSpec == Init /\ [][ToolsNext]_vars
=============================================================================
