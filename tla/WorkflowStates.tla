--------------------------- MODULE WorkflowStates ---------------------------
(***************************************************************************)
(* The states of one shopping decision workflow and the only successor     *)
(* each of them has (domain/workflow.py).  Everything here is constant:    *)
(* the modules that keep workflows extend it.                              *)
(***************************************************************************)
EXTENDS Integers, Sequences

\* NEXT_STATE: the declared chain.  COMPLETED and FAILED have no entry, which
\* is what makes them terminal.
NextState ==
  [s \in {"request_received", "request_validated", "candidates_discovered",
          "offers_collected", "evidence_cross_checked", "data_normalized",
          "candidates_scored", "report_rendered"} |->
     CASE s = "request_received"       -> "request_validated"
       [] s = "request_validated"      -> "candidates_discovered"
       [] s = "candidates_discovered"  -> "offers_collected"
       [] s = "offers_collected"       -> "evidence_cross_checked"
       [] s = "evidence_cross_checked" -> "data_normalized"
       [] s = "data_normalized"        -> "candidates_scored"
       [] s = "candidates_scored"      -> "report_rendered"
       [] s = "report_rendered"        -> "completed"]

\* The states next_state() answers for; the others are terminal.
LiveStates == DOMAIN NextState

WorkflowState == LiveStates \union {"completed", "failed"}

\* The states entered by a unit of work that also writes rows of its own.
StageStates ==
  {"candidates_discovered", "offers_collected", "evidence_cross_checked",
   "data_normalized", "candidates_scored", "report_rendered"}

\* One audit event.  The event that creates a workflow has no prior state.
Event == [sequence : Nat,
          from_state : WorkflowState \union {"none"},
          to_state : WorkflowState]

\* The two events ShoppingWorkflow is created with.
InitialTrail ==
  << [sequence |-> 0, from_state |-> "none", to_state |-> "request_received"],
     [sequence |-> 1, from_state |-> "request_received",
      to_state |-> "request_validated"] >>

-----------------------------------------------------------------------------
\* A workflow row as the store keeps it.  A row that was never inserted is
\* "absent" and one that was deleted is "deleted": identifiers are random, so
\* a deleted identifier is never used again.
NoRow(state) == [state |-> state, revision |-> 0]
InitialRow == [state |-> "request_validated", revision |-> 1]

WorkflowRow == [state : WorkflowState \union {"absent", "deleted"},
                revision : Nat]

Exists(r) == r.state \in WorkflowState

\* WorkflowStateMachine.advance: exactly one declared stage.
MayAdvance(r, target) == r.state \in LiveStates /\ target = NextState[r.state]

\* WorkflowStateMachine.fail: any state that still has a successor.
MayFail(r) == r.state \in LiveStates

Moved(r, target) == [state |-> target, revision |-> r.revision + 1]

MoveEvent(r, target) ==
  [sequence |-> r.revision + 1, from_state |-> r.state, to_state |-> target]
=============================================================================
