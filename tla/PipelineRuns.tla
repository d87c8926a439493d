---------------------------- MODULE PipelineRuns ----------------------------
(***************************************************************************)
(* ShoppingDecisionPipelineService.run (automation/pipeline.py) on top of  *)
(* WorkflowStore.  A run reads the workflow once and then calls one unit   *)
(* of work after the other, deciding from the snapshot the last unit gave  *)
(* it which one is next, until the workflow is completed; an error of any  *)
(* unit ends the run, and a later run takes the workflow up where it is.   *)
(* Clients that do not run the pipeline call units of their own meanwhile. *)
(***************************************************************************)
EXTENDS WorkflowStore

CONSTANT BareOps   \* the units clients also call outside a run
ASSUME BareOpsAssumption == BareOps \subseteq Ops

VARIABLE run       \* client -> its run: the local variables of run()

runVars == <<vars, run>>

\* PIPELINE_STATE_SEQUENCE
Sequence ==
  <<"request_validated", "candidates_discovered", "offers_collected",
    "evidence_cross_checked", "data_normalized", "candidates_scored",
    "report_rendered", "completed">>

\* Mutant: a run only enters a workflow that has just been started.
FreshStates == {"request_validated"}

\* Mutant: a run enters whatever it finds.
AnyState == WorkflowState

\* The states a run may start from.
Resumable == {Sequence[i] : i \in DOMAIN Sequence}

\* Where a run stands between two awaits: in get(), between two units, in a
\* unit, or in advance() after its commit.
NoRun == [at |-> "off", started |-> "none", state |-> "none", executed |-> <<>>,
          rendered |-> FALSE]

Run == [at : {"off", "get", "between", "unit", "reread"},
        started : {Sequence[i] : i \in DOMAIN Sequence} \union {"none"},
        state : {Sequence[i] : i \in DOMAIN Sequence} \union {"none"},
        executed : Seq({Sequence[i] : i \in DOMAIN Sequence}),
        rendered : BOOLEAN]

RunsTypeOK == run \in [Clients -> Run]

RunsInit == Init /\ run = [c \in Clients |-> NoRun]

Stop(c) == run' = [run EXCEPT ![c] = NoRun]

-----------------------------------------------------------------------------
StartRun(c, w) ==
  /\ run[c].at = "off"
  /\ Call(c, "get", w)
  /\ run' = [run EXCEPT ![c].at = "get"]

\* The snapshot of the start decides whether the workflow can be resumed.
Enter(c) ==
  /\ run[c].at = "get"
  /\ Return(c)
  /\ LET state == seenRow[c].state
     IN  IF state \in Resumable
         THEN run' = [run EXCEPT ![c].at = "between", ![c].started = state, ![c].state = state]
         ELSE Stop(c)

\* Mutant: the next stage is looked up in the database again.
NextUnitFromStore(c) ==
  /\ run[c].at = "between"
  /\ row[wf[c]].state \in LiveStates
  /\ row[wf[c]].state = "report_rendered" => run[c].rendered
  /\ Call(c, NextState[row[wf[c]].state], wf[c])
  /\ run' = [run EXCEPT ![c].at = "unit"]

\* The state in memory names the next unit.  Before the workflow is completed
\* the run has its report.
NextUnit(c) ==
  /\ run[c].at = "between"
  /\ run[c].state # "completed"
  /\ run[c].state = "report_rendered" => run[c].rendered
  /\ Call(c, NextState[run[c].state], wf[c])
  /\ run' = [run EXCEPT ![c].at = "unit"]

\* A run that did not render the report itself reads it.
ReadReport(c) ==
  /\ run[c].at = "between"
  /\ run[c].state \in {"report_rendered", "completed"}
  /\ ~run[c].rendered
  /\ IF facts[wf[c]]["report_rendered"] > 0
     THEN run' = [run EXCEPT ![c].rendered = TRUE]
     ELSE Stop(c)
  /\ UNCHANGED vars

\* The unit goes on.
Proceed(c) ==
  /\ run[c].at \in {"get", "unit", "reread"}
  /\ Reads(c) \/ Lock(c) \/ Apply(c)
  /\ UNCHANGED run

\* A stage is done: its result carries the snapshot of its own transition.
StageDone(c) ==
  /\ run[c].at = "unit"
  /\ CommitStage(c)
  /\ run' = [run EXCEPT ![c].at = "between", ![c].state = op[c],
                        ![c].executed = Append(@, op[c]),
                        ![c].rendered = @ \/ op[c] = "report_rendered"]

\* advance() has committed COMPLETED and reads the snapshot it returns.
Completes(c) ==
  /\ run[c].at = "unit"
  /\ CommitMove(c)
  /\ run' = [run EXCEPT ![c].at = "reread"]

Completed(c) ==
  /\ run[c].at = "reread"
  /\ Return(c)
  /\ run' = [run EXCEPT ![c].at = "between", ![c].state = seenRow[c].state,
                        ![c].executed = Append(@, "completed")]

\* ShoppingPipelineResult is built and returned.
HasResult(c) ==
  run[c].at = "between" /\ run[c].state = "completed" /\ run[c].rendered

Finish(c) == HasResult(c) /\ Stop(c) /\ UNCHANGED vars

\* The error of a unit is the error of the run: the workflow is gone, another
\* client moved it or keeps the lock,
GetsInTheWay(c) ==
  /\ run[c].at \in {"get", "unit", "reread"}
  /\ Missing(c) \/ Refused(c) \/ Rejected(c) \/ Busy(c)
  /\ Stop(c)

\* or a page, a provider, the inputs or the disk failed it.
Fails(c) ==
  /\ run[c].at \in {"get", "unit", "reread"}
  /\ GiveUp(c) \/ CommitFails(c)
  /\ Stop(c)

\* The process of the run is killed, in a unit or between two.
Die(c) ==
  /\ run[c].at # "off"
  /\ Crash(c) \/ (pc[c] = "idle" /\ UNCHANGED vars)
  /\ Stop(c)

\* A client that runs no pipeline.
Bare(c) ==
  /\ run[c].at = "off"
  /\ \/ \E o \in BareOps, w \in Workflows : Call(c, o, w)
     \/ Step(c)
     \/ Crash(c)
  /\ UNCHANGED run

-----------------------------------------------------------------------------
RunStep(c) ==
  \/ Enter(c) \/ NextUnit(c) \/ ReadReport(c) \/ Proceed(c) \/ StageDone(c)
  \/ Completes(c) \/ Completed(c) \/ Finish(c)

RunsNext ==
  \E c \in Clients :
    \/ \E w \in Workflows : StartRun(c, w)
    \/ RunStep(c) \/ GetsInTheWay(c) \/ Fails(c) \/ Die(c)
    \/ Bare(c)

RunsSpec == RunsInit /\ [][RunsNext]_runVars

-----------------------------------------------------------------------------
(***************************************************************************)
(* Properties.                                                             *)
(***************************************************************************)
Executed(c) == {run[c].executed[i] : i \in DOMAIN run[c].executed}

\* Two runs on one workflow never execute the same stage, even when one of
\* them fails later: the work of a stage is done once, by one run.
StagesRunOnce ==
  \A c, d \in Clients : c # d /\ wf[c] = wf[d] => Executed(c) \intersect Executed(d) = {}

\* What ShoppingPipelineResult demands, or the run would raise after its
\* workflow was completed: the executed stages are exactly those after the
\* state it started from, whatever other clients did meanwhile.
ResultIsValid ==
  \A c \in Clients :
    HasResult(c) =>
      \E i \in DOMAIN Sequence :
        /\ Sequence[i] = run[c].started
        /\ run[c].executed = SubSeq(Sequence, i + 1, Len(Sequence))

-----------------------------------------------------------------------------
(***************************************************************************)
(* The inductive invariant behind the two safety properties.               *)
(***************************************************************************)
\* What a run has done, its commit of COMPLETED included.
Done(c) == Executed(c) \union (IF run[c].at = "reread" THEN {"completed"} ELSE {})

\* A run that started at the i-th state and is at the j-th: the unit it called
\* is the next one, and once it has committed COMPLETED nobody moves the
\* workflow any more.
Underway(c, i, j) ==
  /\ i <= j
  /\ run[c].started = Sequence[i]
  /\ run[c].state = Sequence[j]
  /\ run[c].executed = SubSeq(Sequence, i + 1, j)
  /\ row[wf[c]].state # "absent"
  /\ \/ run[c].at = "between" /\ pc[c] = "idle"
     \/ run[c].at = "unit" /\ pc[c] # "idle" /\ j < Len(Sequence) /\ op[c] = Sequence[j + 1]
     \/ /\ run[c].at = "reread" /\ pc[c] # "idle" /\ j = Len(Sequence) - 1 /\ op[c] = "get"
        /\ row[wf[c]].state \in {"completed", "deleted"}
        /\ HoldsRow(c) => seenRow[c].state = "completed"

RunIsInOrder(c) ==
  \/ run[c].at = "off" /\ run[c].executed = <<>>
  \/ run[c].at = "get" /\ run[c].executed = <<>> /\ pc[c] # "idle" /\ op[c] = "get"
  \/ \E i, j \in DOMAIN Sequence : Underway(c, i, j)

\* A trail follows the chain position by position; only its end may be a
\* failure.
Chain == <<"request_received">> \o Sequence

FollowsChain(t) ==
  \A i \in DOMAIN t :
    \/ t[i].to_state = "failed"
    \/ i \in DOMAIN Chain /\ t[i].to_state = Chain[i]

TrailFollowsChain == \A w \in Workflows : FollowsChain(trail[w])

\* What a run has done is in the trail as long as the workflow is there.
DoneIsRecorded(c) ==
  \A s \in Done(c) :
    Exists(row[wf[c]]) => \E i \in DOMAIN trail[wf[c]] : trail[wf[c]][i].to_state = s

DoneOnce == \A c, d \in Clients : c # d /\ wf[c] = wf[d] => Done(c) \intersect Done(d) = {}

RunsInv ==
  /\ IInv
  /\ RunsTypeOK
  /\ TrailFollowsChain
  /\ \A c \in Clients : RunIsInOrder(c) /\ DoneIsRecorded(c)
  /\ DoneOnce
=============================================================================
