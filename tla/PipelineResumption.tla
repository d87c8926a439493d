------------------------- MODULE PipelineResumption -------------------------
(***************************************************************************)
(* PipelineRuns where at some time the breakdowns end.  Pages, providers,  *)
(* disk and process may fail a run anywhere and any number of times before *)
(* that; the clients still get into each other's way afterwards.           *)
(***************************************************************************)
EXTENDS PipelineRuns

VARIABLE calm   \* nothing breaks down any more

resumptionVars == <<runVars, calm>>

ResumptionInit == RunsInit /\ calm = FALSE

\* A run goes on, with or against the others.
Runs(c) == (RunStep(c) \/ GetsInTheWay(c)) /\ UNCHANGED calm

\* The user runs the workflow that was started.
RunsAgain(c, w) == Exists(row[w]) /\ StartRun(c, w) /\ UNCHANGED calm

Other(c) == Bare(c) /\ UNCHANGED calm

BreaksDown(c) == ~calm /\ (Fails(c) \/ Die(c)) /\ UNCHANGED calm

CalmsDown == ~calm /\ calm' = TRUE /\ UNCHANGED runVars

ResumptionNext ==
  \/ \E c \in Clients :
       \/ \E w \in Workflows : RunsAgain(c, w)
       \/ Runs(c) \/ Other(c) \/ BreaksDown(c)
  \/ CalmsDown

\* The scheduler runs every process, the user repeats a run that ended, and
\* breakdowns are not for ever.
ResumptionSpec ==
  /\ ResumptionInit /\ [][ResumptionNext]_resumptionVars
  /\ \A c \in Clients :
       /\ \A w \in Workflows : WF_resumptionVars(RunsAgain(c, w))
       /\ WF_resumptionVars(Runs(c))
       /\ WF_resumptionVars(pc[c] # "idle" /\ Other(c))
  /\ WF_resumptionVars(CalmsDown)

\* A workflow that was started is completed when it is run again after every
\* failed run: no failure and no crash, wherever it strikes, leaves a state
\* the pipeline cannot resume from, and runs that race never fail each other
\* for ever.
RunsComplete == \A w \in Workflows : Exists(row[w]) ~> row[w].state = "completed"
=============================================================================
