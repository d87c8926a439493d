---------------------------- MODULE WorkflowStore ---------------------------
(***************************************************************************)
(* The SQLite workflow store and the units of work that move workflows     *)
(* through it: the six stage services, ShoppingWorkflowService (start, get,*)
(* advance to COMPLETED, fail) and the deletion of a workflow.             *)
(*                                                                         *)
(* Several clients (MCP server processes, CLI commands, concurrent tool    *)
(* calls of one server) share one database file.  The driver opens a       *)
(* transaction only before the first INSERT/UPDATE/DELETE, so every SELECT *)
(* a unit makes before it writes sees whatever is committed at that        *)
(* moment: the row, the request, the events and the stage's inputs are     *)
(* separate reads, with awaits of external pages in between.  The writes   *)
(* of a unit are one transaction, made under SQLite's single write lock    *)
(* and guarded by the revision the unit read at its start.                 *)
(***************************************************************************)
EXTENDS WorkflowStates, FiniteSets

CONSTANTS
  Workflows,   \* workflow identifiers that may be used
  Clients,     \* everything that runs a unit of work
  NoClient,    \* the write lock's value when nobody holds it
  MaxDetails   \* bound on the external calls of one unit

ASSUME ClientsAssumption == NoClient \notin Clients
ASSUME MaxDetailsAssumption == MaxDetails \in Nat \ {0}

VARIABLES
  \* The committed database.
  row,       \* shopping_workflows: workflow -> its row (and its request's)
  trail,     \* workflow_events: workflow -> its events by sequence
  facts,     \* workflow -> stage -> batches of that stage's rows committed
  writer,    \* the client whose transaction holds the write lock
  \* What each client holds in memory.
  pc,        \* where its current unit of work stands
  op,        \* which unit: a target state, "start", "get", "delete" or "none"
  wf,        \* the workflow it was called for
  seenRow, seenTrail,  \* the snapshot the unit loaded
  seenFacts, \* every version of the stage rows its input reads returned
  todo       \* reads or external calls still to make

db == <<row, trail, facts>>
seen == <<seenRow, seenTrail, seenFacts>>
vars == <<row, trail, facts, writer, pc, op, wf, seenRow, seenTrail, seenFacts, todo>>

-----------------------------------------------------------------------------
Ops == StageStates \union {"completed", "failed", "start", "get", "delete"}

\* The awaits of a unit: the search page, one product page, the evidence
\* providers.
AwaitPCs == {"discover", "detail", "consult"}

\* Positions at which the unit's transaction is open and holds the lock.
LockedPCs == {"locked", "commit"}

PCs == {"idle", "load_row", "load_request", "load_events", "gather", "write", "got"}
         \union AwaitPCs \union LockedPCs

NoFacts == [s \in StageStates |-> 0]

TypeOK ==
  /\ row \in [Workflows -> WorkflowRow]
  /\ trail \in [Workflows -> Seq(Event)]
  /\ facts \in [Workflows -> [StageStates -> Nat]]
  /\ writer \in Clients \union {NoClient}
  /\ pc \in [Clients -> PCs]
  /\ op \in [Clients -> Ops \union {"none"}]
  /\ wf \in [Clients -> Workflows]
  /\ seenRow \in [Clients -> WorkflowRow]
  /\ seenTrail \in [Clients -> Seq(Event)]
  /\ seenFacts \in [Clients -> SUBSET [StageStates -> Nat]]
  /\ todo \in [Clients -> Nat]

Init ==
  /\ row = [w \in Workflows |-> NoRow("absent")]
  /\ trail = [w \in Workflows |-> <<>>]
  /\ facts = [w \in Workflows |-> NoFacts]
  /\ writer = NoClient
  /\ pc = [c \in Clients |-> "idle"]
  /\ op = [c \in Clients |-> "none"]
  /\ wf \in [Clients -> Workflows]
  /\ seenRow = [c \in Clients |-> NoRow("absent")]
  /\ seenTrail = [c \in Clients |-> <<>>]
  /\ seenFacts = [c \in Clients |-> {}]
  /\ todo = [c \in Clients |-> 0]

-----------------------------------------------------------------------------
(***************************************************************************)
(* Calling a unit and leaving it.                                          *)
(***************************************************************************)
Goto(c, there) == pc' = [pc EXCEPT ![c] = there]

\* The session is closed and nothing of the unit stays in memory.
Forget(c) ==
  /\ pc' = [pc EXCEPT ![c] = "idle"]
  /\ op' = [op EXCEPT ![c] = "none"]
  /\ seenRow' = [seenRow EXCEPT ![c] = NoRow("absent")]
  /\ seenTrail' = [seenTrail EXCEPT ![c] = <<>>]
  /\ seenFacts' = [seenFacts EXCEPT ![c] = {}]
  /\ todo' = [todo EXCEPT ![c] = 0]
  /\ UNCHANGED wf

\* __exit__ of a unit of work, or session_scope: whatever was flushed is
\* rolled back, which gives the lock up if the unit had it.
Rollback(c) ==
  /\ writer' = IF writer = c THEN NoClient ELSE writer
  /\ Forget(c)
  /\ UNCHANGED db

\* initialize() draws a random identifier: one that no row has and no other
\* start is using.  (The identifier of a start that failed was never seen by
\* anybody; it stands for a new one.)
Unused(w) == row[w].state = "absent" /\ \A d \in Clients : op[d] = "start" => wf[d] # w

\* start() makes no read: its workflow is new, so it goes straight to the
\* inserts.  Every other unit begins with get_snapshot.
Call(c, o, w) ==
  /\ pc[c] = "idle"
  /\ o = "start" => Unused(w)
  /\ Goto(c, IF o = "start" THEN "write" ELSE "load_row")
  /\ op' = [op EXCEPT ![c] = o]
  /\ wf' = [wf EXCEPT ![c] = w]
  /\ UNCHANGED <<db, writer, seen, todo>>

-----------------------------------------------------------------------------
(***************************************************************************)
(* load_workflow_snapshot: three SELECTs, each in a transaction of its own.*)
(***************************************************************************)
LoadRow(c) ==
  /\ pc[c] = "load_row"
  /\ Exists(row[wf[c]])
  /\ seenRow' = [seenRow EXCEPT ![c] = row[wf[c]]]
  /\ Goto(c, "load_request")
  /\ UNCHANGED <<db, writer, op, wf, seenTrail, seenFacts, todo>>

\* The request lives and dies with the workflow: it is inserted by the same
\* transaction and its deletion cascades to the workflow.
LoadRequest(c) ==
  /\ pc[c] = "load_request"
  /\ Exists(row[wf[c]])
  /\ Goto(c, "load_events")
  /\ UNCHANGED <<db, writer, op, wf, seen, todo>>

\* What each unit checks of the loaded state before it goes on.
Admits(o, r) ==
  /\ o \in StageStates \union {"completed"} => MayAdvance(r, o)
  /\ o = "failed" => MayFail(r)

AfterSnapshot(o) ==
  CASE o = "candidates_discovered"    -> "discover"
    [] o \in {"completed", "failed"}  -> "write"
    [] o = "get"                      -> "got"
    [] OTHER                          -> "gather"

\* Reads a unit makes after its snapshot: ingestion lists the observations;
\* the others list products (or scores) first and details of each one next.
InputReads(o) ==
  CASE o = "offers_collected" -> 1
    [] o \in {"evidence_cross_checked", "data_normalized", "candidates_scored",
              "report_rendered", "delete"} -> 2
    [] OTHER -> 0

\* Mutant: only the events before the row's revision are selected.
LoadEarlierEvents(c) ==
  /\ pc[c] = "load_events"
  /\ Admits(op[c], seenRow[c])
  /\ seenTrail' = [seenTrail EXCEPT ![c] =
                     SelectSeq(trail[wf[c]], LAMBDA e : e.sequence < seenRow[c].revision)]
  /\ todo' = [todo EXCEPT ![c] = InputReads(op[c])]
  /\ Goto(c, AfterSnapshot(op[c]))
  /\ UNCHANGED <<db, writer, op, wf, seenRow, seenFacts>>

LoadEvents(c) ==
  /\ pc[c] = "load_events"
  /\ Admits(op[c], seenRow[c])
  /\ seenTrail' = [seenTrail EXCEPT ![c] = trail[wf[c]]]
  /\ todo' = [todo EXCEPT ![c] = InputReads(op[c])]
  /\ Goto(c, AfterSnapshot(op[c]))
  /\ UNCHANGED <<db, writer, op, wf, seenRow, seenFacts>>

-----------------------------------------------------------------------------
(***************************************************************************)
(* The stages: what each one reads and awaits between its snapshot and its *)
(* transaction.  Rows are only staged in the session meanwhile: no flush,  *)
(* hence no lock.                                                          *)
(***************************************************************************)
ReadFacts(c) == seenFacts' = [seenFacts EXCEPT ![c] = @ \union {facts[wf[c]]}]

\* Mutant: the search observation is flushed before the details are awaited.
DiscoverAndFlush(c) ==
  /\ pc[c] = "discover"
  /\ writer = NoClient
  /\ writer' = c
  /\ \E n \in 1..MaxDetails : todo' = [todo EXCEPT ![c] = n]
  /\ Goto(c, "detail")
  /\ UNCHANGED <<db, op, wf, seen>>

\* SearchDetailCollectionService.collect: await the search page; no candidate
\* is an error; then one await for each of the first maximum_details.
Discover(c) ==
  /\ pc[c] = "discover"
  /\ \E n \in 1..MaxDetails : todo' = [todo EXCEPT ![c] = n]
  /\ Goto(c, "detail")
  /\ UNCHANGED <<db, writer, op, wf, seen>>

CollectDetail(c) ==
  /\ pc[c] = "detail"
  /\ todo' = [todo EXCEPT ![c] = @ - 1]
  /\ Goto(c, IF todo[c] > 1 THEN "detail" ELSE "write")
  /\ UNCHANGED <<db, writer, op, wf, seen>>

\* A read of a unit that does not await.  The first one lists what the unit
\* works on and must find something.
GatherFrom(c, stage) ==
  /\ pc[c] = "gather"
  /\ todo[c] = InputReads(op[c]) => facts[wf[c]][stage] > 0
  /\ ReadFacts(c)
  /\ todo' = [todo EXCEPT ![c] = @ - 1]
  /\ Goto(c, IF todo[c] > 1 THEN "gather" ELSE "write")
  /\ UNCHANGED <<db, writer, op, wf, seenRow, seenTrail>>

\* OfferIngestionService.ingest converts the stored detail observations.
Ingest(c) ==
  op[c] = "offers_collected" /\ GatherFrom(c, "candidates_discovered")

\* SpecificationNormalizationService.normalize: products and their evidence.
Normalize(c) ==
  op[c] = "data_normalized" /\ GatherFrom(c, "offers_collected")

\* CandidateScoringService.score: products, specifications, evidence, offers.
Score(c) ==
  op[c] = "candidates_scored" /\ GatherFrom(c, "offers_collected")

\* ShoppingReportService.render: the scores and the facts they cite.
Render(c) ==
  op[c] = "report_rendered" /\ GatherFrom(c, "candidates_scored")

\* EvidenceCrossCheckService.cross_check: list the products; then, for each
\* one, read its evidence and await the providers.
ListProducts(c) ==
  /\ op[c] = "evidence_cross_checked"
  /\ pc[c] = "gather" /\ todo[c] = 2
  /\ facts[wf[c]]["offers_collected"] > 0
  /\ ReadFacts(c)
  /\ todo' = [todo EXCEPT ![c] = 1]
  /\ Goto(c, "gather")
  /\ UNCHANGED <<db, writer, op, wf, seenRow, seenTrail>>

CrossCheck(c) ==
  /\ op[c] = "evidence_cross_checked"
  /\ pc[c] = "gather" /\ todo[c] = 1
  /\ ReadFacts(c)
  /\ \E n \in 1..MaxDetails : todo' = [todo EXCEPT ![c] = n]
  /\ Goto(c, "consult")
  /\ UNCHANGED <<db, writer, op, wf, seenRow, seenTrail>>

\* Mutant: one provider call too many.
ConsultOnceMore(c) ==
  /\ pc[c] = "consult"
  /\ ReadFacts(c)
  /\ todo' = [todo EXCEPT ![c] = @ - 1]
  /\ Goto(c, IF todo[c] >= 0 THEN "consult" ELSE "write")
  /\ UNCHANGED <<db, writer, op, wf, seenRow, seenTrail>>

\* The answer for one product; the evidence of the next one is read at once.
Consult(c) ==
  /\ pc[c] = "consult"
  /\ IF todo[c] > 1 THEN ReadFacts(c) ELSE UNCHANGED seenFacts
  /\ todo' = [todo EXCEPT ![c] = @ - 1]
  /\ Goto(c, IF todo[c] > 1 THEN "consult" ELSE "write")
  /\ UNCHANGED <<db, writer, op, wf, seenRow, seenTrail>>

\* prepare_deletion: every row the workflow owns, read for the fingerprint.
PlanDeletion(c) ==
  /\ op[c] = "delete"
  /\ pc[c] = "gather"
  /\ ReadFacts(c)
  /\ todo' = [todo EXCEPT ![c] = @ - 1]
  /\ Goto(c, IF todo[c] > 1 THEN "gather" ELSE "write")
  /\ UNCHANGED <<db, writer, op, wf, seenRow, seenTrail>>

\* Mutant: a transaction that does not wait for the other one.
LockWithoutWaiting(c) ==
  /\ pc[c] = "write"
  /\ writer' = c
  /\ Goto(c, "locked")
  /\ UNCHANGED <<db, op, wf, seen, todo>>

-----------------------------------------------------------------------------
(***************************************************************************)
(* The transaction.                                                        *)
(***************************************************************************)
\* The first flush (BEGIN IMMEDIATE for a deletion) takes the write lock.
Lock(c) ==
  /\ pc[c] = "write"
  /\ writer = NoClient
  /\ writer' = c
  /\ Goto(c, "locked")
  /\ UNCHANGED <<db, op, wf, seen, todo>>

\* Mutant: the UPDATE matches on the identifier alone.
UnmovedById(c) == Exists(row[wf[c]])

\* apply_workflow_transition: UPDATE ... WHERE id AND revision = expected must
\* match one row.  Rows staged by a stage reference the request, so their
\* foreign keys ask for the same row to exist.
Unmoved(c) ==
  /\ Exists(row[wf[c]])
  /\ row[wf[c]].revision = seenRow[c].revision

\* delete(): the plan recomputed under the lock has the expected fingerprint.
PlanStillHolds(c) ==
  /\ trail[wf[c]] = seenTrail[c]
  /\ seenFacts[c] = {facts[wf[c]]}

WriteAccepted(c) ==
  /\ op[c] # "start" => Unmoved(c)
  /\ op[c] = "delete" => PlanStillHolds(c)

Apply(c) ==
  /\ pc[c] = "locked"
  /\ WriteAccepted(c)
  /\ Goto(c, "commit")
  /\ UNCHANGED <<db, writer, op, wf, seen, todo>>

\* One transaction inserts the request, the workflow and its first two events.
CommitStart(c) ==
  /\ pc[c] = "commit"
  /\ op[c] = "start"
  /\ row' = [row EXCEPT ![wf[c]] = InitialRow]
  /\ trail' = [trail EXCEPT ![wf[c]] = InitialTrail]
  /\ writer' = NoClient
  /\ Forget(c)
  /\ UNCHANGED facts

\* The row and the event are those computed from the snapshot in memory.
WriteMove(c) ==
  /\ row' = [row EXCEPT ![wf[c]] = Moved(seenRow[c], op[c])]
  /\ trail' = [trail EXCEPT ![wf[c]] = Append(@, MoveEvent(seenRow[c], op[c]))]
  /\ writer' = NoClient

\* The staged rows of the stage commit with its transition.
CommitStage(c) ==
  /\ pc[c] = "commit"
  /\ op[c] \in StageStates
  /\ WriteMove(c)
  /\ facts' = [facts EXCEPT ![wf[c]][op[c]] = @ + 1]
  /\ Forget(c)

\* ShoppingWorkflowService.advance and fail read the snapshot again after
\* their transaction and return that.
CommitMove(c) ==
  /\ pc[c] = "commit"
  /\ op[c] \in {"completed", "failed"}
  /\ WriteMove(c)
  /\ op' = [op EXCEPT ![c] = "get"]
  /\ seenRow' = [seenRow EXCEPT ![c] = NoRow("absent")]
  /\ seenTrail' = [seenTrail EXCEPT ![c] = <<>>]
  /\ seenFacts' = [seenFacts EXCEPT ![c] = {}]
  /\ Goto(c, "load_row")
  /\ UNCHANGED <<facts, wf, todo>>

\* Mutant: foreign keys are off, so the stage rows outlive their request.
CommitDeleteWithoutCascade(c) ==
  /\ pc[c] = "commit"
  /\ op[c] = "delete"
  /\ row' = [row EXCEPT ![wf[c]] = NoRow("deleted")]
  /\ trail' = [trail EXCEPT ![wf[c]] = <<>>]
  /\ writer' = NoClient
  /\ Forget(c)
  /\ UNCHANGED facts

\* Deleting the request cascades to the workflow, its events and its rows.
CommitDelete(c) ==
  /\ pc[c] = "commit"
  /\ op[c] = "delete"
  /\ row' = [row EXCEPT ![wf[c]] = NoRow("deleted")]
  /\ trail' = [trail EXCEPT ![wf[c]] = <<>>]
  /\ facts' = [facts EXCEPT ![wf[c]] = NoFacts]
  /\ writer' = NoClient
  /\ Forget(c)

\* get_snapshot hands its snapshot to the caller.
Return(c) ==
  /\ pc[c] = "got"
  /\ Forget(c)
  /\ UNCHANGED <<db, writer>>

-----------------------------------------------------------------------------
(***************************************************************************)
(* The ways a unit fails.  Each one rolls back.                            *)
(***************************************************************************)
Missing(c) ==
  pc[c] \in {"load_row", "load_request"} /\ ~Exists(row[wf[c]]) /\ Rollback(c)

Refused(c) ==
  pc[c] = "load_events" /\ ~Admits(op[c], seenRow[c]) /\ Rollback(c)

\* A page or provider that does not answer, an empty result, or inputs a
\* stage cannot work with (NoCandidatesDiscoveredError and its siblings).
GiveUp(c) ==
  pc[c] \in AwaitPCs \union {"gather"} /\ Rollback(c)

\* Mutant: no busy timeout.
BusyForever(c) == FALSE /\ Rollback(c)

\* "database is locked": another transaction outlasted the driver's timeout.
Busy(c) ==
  pc[c] = "write" /\ writer \notin {NoClient, c} /\ Rollback(c)

\* Mutant: the stage's rows were committed before the transition was refused.
RejectedTooLate(c) ==
  /\ pc[c] = "locked"
  /\ ~WriteAccepted(c)
  /\ facts' = IF op[c] \in StageStates THEN [facts EXCEPT ![wf[c]][op[c]] = @ + 1] ELSE facts
  /\ writer' = NoClient
  /\ Forget(c)
  /\ UNCHANGED <<row, trail>>

\* ConcurrentWorkflowUpdateError, a foreign key of a deleted request, or
\* WorkflowDeletionPlanStaleError.
Rejected(c) ==
  pc[c] = "locked" /\ ~WriteAccepted(c) /\ Rollback(c)

CommitFails(c) == pc[c] = "commit" /\ Rollback(c)

\* The process is killed: the journal rolls its transaction back.
Crash(c) == pc[c] # "idle" /\ Rollback(c)

-----------------------------------------------------------------------------
Reads(c) ==
  \/ LoadRow(c) \/ LoadRequest(c) \/ LoadEvents(c)
  \/ Discover(c) \/ CollectDetail(c)
  \/ Ingest(c) \/ ListProducts(c) \/ CrossCheck(c) \/ Consult(c)
  \/ Normalize(c) \/ Score(c) \/ Render(c) \/ PlanDeletion(c)

Commits(c) ==
  CommitStart(c) \/ CommitStage(c) \/ CommitMove(c) \/ CommitDelete(c)

Raises(c) ==
  Missing(c) \/ Refused(c) \/ GiveUp(c) \/ Busy(c) \/ Rejected(c) \/ CommitFails(c)

\* What a client does once it was called, apart from being killed.
Step(c) == Reads(c) \/ Lock(c) \/ Apply(c) \/ Commits(c) \/ Return(c) \/ Raises(c)

Next ==
  \E c \in Clients :
    \/ \E o \in Ops, w \in Workflows : Call(c, o, w)
    \/ Step(c)
    \/ Crash(c)

Spec == Init /\ [][Next]_vars

\* The scheduler runs every process, page loads and provider calls have
\* timeouts, and the driver gives up waiting for the lock: a unit that can
\* take a step takes one.
FairSpec == Spec /\ \A c \in Clients : WF_vars(Step(c))

-----------------------------------------------------------------------------
(***************************************************************************)
(* Properties.                                                             *)
(***************************************************************************)

\* A trail that tells how its workflow came to row r: sequence numbers without
\* gap or repetition, every event starting where the one before ended, only
\* declared successors or a failure, and the last event naming r's state.
TellsHistoryOf(t, r) ==
  /\ Len(t) = r.revision + 1
  /\ t[1].from_state = "none"
  /\ \A i \in 1..Len(t) : t[i].sequence = i - 1
  /\ \A i \in 2..Len(t) :
       /\ t[i].from_state = t[i - 1].to_state
       /\ t[i].from_state \in LiveStates
       /\ t[i].to_state \in {NextState[t[i].from_state], "failed"}
  /\ t[Len(t)].to_state = r.state

\* The audit trail of a workflow is complete and in order however many runners
\* raced, failed or were killed, and it goes when the workflow goes.
TrailIsComplete ==
  \A w \in Workflows :
    IF Exists(row[w]) THEN TellsHistoryOf(trail[w], row[w]) ELSE trail[w] = <<>>

\* The events that record the entry into a state.
Entries(t, s) == {i \in DOMAIN t : t[i].to_state = s}

\* The rows of a stage are there exactly once when the trail says the stage
\* was reached and not at all otherwise: a retry after a failure, a crash
\* between two stages or two runners on one workflow neither lose a stage's
\* rows nor write them twice.
StageRowsMatchTrail ==
  \A w \in Workflows, s \in StageStates :
    facts[w][s] = Cardinality(Entries(trail[w], s))

\* When a unit's transition has matched its row, everything the unit read on
\* the way, in separate transactions and before and after awaits, is what is
\* committed now: the rows it is about to commit were computed from current
\* inputs, and the snapshot it returns (its own trail plus the new event) is
\* the durable one.
CommitsOnFreshReads ==
  \A c \in Clients :
    pc[c] = "commit" /\ op[c] # "start" =>
      /\ seenRow[c] = row[wf[c]]
      /\ seenTrail[c] = trail[wf[c]]
      /\ seenFacts[c] \subseteq {facts[wf[c]]}

\* No unit holds the write lock while it waits for a page or a provider: a
\* slow page never makes the other clients fail with "database is locked".
NoLockAcrossAwait ==
  writer # NoClient => pc[writer] \notin AwaitPCs

\* A trail that has the event of the move to row r.
Records(t, r) == Len(t) > r.revision /\ t[r.revision + 1].to_state = r.state

\* A snapshot handed to a reader always contains the event that led to the
\* state it shows (the trail is read last), unless the workflow was deleted
\* between the reads.
SnapshotExplainsItsState ==
  \A c \in Clients :
    pc[c] = "got" /\ seenTrail[c] # <<>> => Records(seenTrail[c], seenRow[c])

\* What the docstrings of load_workflow_snapshot and WorkflowSnapshot and the
\* ImprovementCase validator take for granted: the trail of a snapshot ends at
\* the state the snapshot shows.
SnapshotEndsAtItsState ==
  \A c \in Clients :
    pc[c] = "got" =>
      /\ seenTrail[c] # <<>>
      /\ seenTrail[c][Len(seenTrail[c])].to_state = seenRow[c].state

\* What WorkflowLifecycle sees of a trail and of the stage rows.
StatesOf(t) == [i \in DOMAIN t |-> t[i].to_state]
StagesIn(f) == {s \in StageStates : f[s] > 0}

Lifecycle ==
  INSTANCE WorkflowLifecycle WITH
    rows <- row,
    history <- [w \in Workflows |-> StatesOf(trail[w])],
    artefacts <- [w \in Workflows |-> StagesIn(facts[w])]

\* Hiding the clients, the store is WorkflowLifecycle: every step of a unit is
\* one legal move of one workflow, made at its commit, or no move at all.
ImplementsLifecycle == Lifecycle!Spec

\* Every unit of work that was called comes to an end, with a result or an
\* error, and with it every lock it took.
EveryUnitEnds == \A c \in Clients : pc[c] # "idle" ~> pc[c] = "idle"

-----------------------------------------------------------------------------
(***************************************************************************)
(* The inductive invariant behind the properties above.  None of them is   *)
(* inductive alone: that a commit appends the right event rests on what    *)
(* its client read long before, and on nobody having moved the row since.  *)
(***************************************************************************)
BeforeRow == {"idle", "load_row"}
BeforeTrail == BeforeRow \union {"load_request", "load_events"}

\* A client holds the write lock exactly while its transaction is open.
LockIsHeld == \A c \in Clients : writer = c <=> pc[c] \in LockedPCs

\* The identifier of a workflow that is being started is its starter's alone.
StartIsFresh(c) ==
  op[c] = "start" =>
    /\ pc[c] \in {"write"} \union LockedPCs
    /\ row[wf[c]].state = "absent"
    /\ \A d \in Clients : op[d] = "start" /\ wf[d] = wf[c] => d = c

HoldsRow(c) == pc[c] \notin BeforeRow /\ op[c] # "start"

\* Whoever loaded a row holds one the workflow really had.  Revisions only
\* grow and deleted identifiers do not come back, so an equal revision means
\* that nothing the unit read has changed.
ReadIsPast(c) ==
  HoldsRow(c) =>
    /\ Exists(seenRow[c])
    /\ row[wf[c]].state # "absent"
    /\ Exists(row[wf[c]]) => seenRow[c].revision <= row[wf[c]].revision
    /\ Unmoved(c) =>
         /\ seenRow[c] = row[wf[c]]
         /\ seenFacts[c] \subseteq {facts[wf[c]]}
         /\ pc[c] \notin BeforeTrail => seenTrail[c] = trail[wf[c]]

\* The audit trail never loses the event of a row somebody has seen.
SeenMoveStays(c) ==
  HoldsRow(c) =>
    /\ Exists(row[wf[c]]) => Records(trail[wf[c]], seenRow[c])
    /\ pc[c] \notin BeforeTrail /\ seenTrail[c] # <<>> => Records(seenTrail[c], seenRow[c])

\* Nothing is carried over from the unit before; a unit that still waits has
\* something to wait for; one past its checks was admitted by them; one about
\* to commit has matched its row.
UnitIsInOrder(c) ==
  /\ pc[c] = "idle" <=> op[c] = "none"
  /\ pc[c] \in {"detail", "consult", "gather"} => todo[c] > 0
  /\ pc[c] \in BeforeRow => seenFacts[c] = {}
  /\ pc[c] \notin BeforeTrail => Admits(op[c], seenRow[c])
  /\ pc[c] = "commit" /\ op[c] # "start" => Unmoved(c)

ClientInv(c) ==
  StartIsFresh(c) /\ ReadIsPast(c) /\ SeenMoveStays(c) /\ UnitIsInOrder(c)

IInv ==
  /\ TypeOK
  /\ TrailIsComplete
  /\ StageRowsMatchTrail
  /\ LockIsHeld
  /\ \A c \in Clients : ClientInv(c)
=============================================================================
