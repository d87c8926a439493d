------------------------- MODULE WorkflowLifecycle --------------------------
(***************************************************************************)
(* What the workflow store promises, with every unit of work a single      *)
(* step: a workflow is started once, walks the declared chain one state at *)
(* a time, keeps the full history of the states it went through, owns the  *)
(* rows of exactly the stages it reached, may fail from any live state and *)
(* may be deleted as a whole.  There are no readers, no connections, no    *)
(* locks and no stale copies here: WorkflowStore is shown to implement     *)
(* this module.                                                            *)
(***************************************************************************)
EXTENDS WorkflowStates

CONSTANT Workflows

VARIABLES
  rows,      \* workflow -> its state and revision
  history,   \* workflow -> the states it went through, oldest first
  artefacts  \* workflow -> the stages whose rows it owns

vars == <<rows, history, artefacts>>

Init ==
  /\ rows = [w \in Workflows |-> NoRow("absent")]
  /\ history = [w \in Workflows |-> <<>>]
  /\ artefacts = [w \in Workflows |-> {}]

Start(w) ==
  /\ rows[w].state = "absent"
  /\ rows' = [rows EXCEPT ![w] = InitialRow]
  /\ history' = [history EXCEPT ![w] = <<"request_received", "request_validated">>]
  /\ UNCHANGED artefacts

Advance(w) ==
  /\ rows[w].state \in LiveStates
  /\ LET target == NextState[rows[w].state]
     IN  /\ rows' = [rows EXCEPT ![w] = Moved(rows[w], target)]
         /\ history' = [history EXCEPT ![w] = Append(history[w], target)]
         /\ artefacts' =
              [artefacts EXCEPT ![w] = artefacts[w] \union ({target} \intersect StageStates)]

Fail(w) ==
  /\ rows[w].state \in LiveStates
  /\ rows' = [rows EXCEPT ![w] = Moved(rows[w], "failed")]
  /\ history' = [history EXCEPT ![w] = Append(history[w], "failed")]
  /\ UNCHANGED artefacts

Delete(w) ==
  /\ Exists(rows[w])
  /\ rows' = [rows EXCEPT ![w] = NoRow("deleted")]
  /\ history' = [history EXCEPT ![w] = <<>>]
  /\ artefacts' = [artefacts EXCEPT ![w] = {}]

Next == \E w \in Workflows : Start(w) \/ Advance(w) \/ Fail(w) \/ Delete(w)

Spec == Init /\ [][Next]_vars
=============================================================================
