# Verification of the personal shopping agent

TLA+ models, TLC runs and TLAPS proofs for `personal-shopping-agent`
(`src/src/personal_shopping_agent/`). The models are translated from the
Python source; `PROJECT.json` names, for each definition, the lines it stands
for, and for each property the bug that would break it.

Contents

1. The system
2. The modules and how they correspond to the code
3. The runs: what they check, their bounds, the fairness
4. The proofs
5. Disagreements between the code and its documents
6. What is not modelled

---

## 1. The system

One user asks for a purchase decision. A *workflow* takes the request through a
fixed chain of states, each entered by one *unit of work* that reads its inputs,
works (often awaiting web pages) and commits its rows together with the
transition in one SQLite transaction. MCP servers (one process per desktop
client), CLI commands and concurrent tool calls of one server share one database
file; nothing but the database coordinates them.

| Component | State it keeps | Operations | Interacts with |
|---|---|---|---|
| Workflow state machine (`domain/workflow.py`) | none (pure) | initialize, advance, fail | called by every unit |
| Workflow repository, transactions (`infrastructure/storage/workflow_repository.py`, `database.py`) | workflow rows with a revision, append-only events | start, get_snapshot, save_transition | SQLite's single write lock |
| Stage services and units of work (`sourcing/*`, `presentation/ranking.py`, `reporting.py`, `infrastructure/storage/*_unit_of_work.py`) | the rows of each stage | collect, ingest, cross_check, normalize, score, render | repository; pages and providers between the reads |
| Data lifecycle (`automation/data_lifecycle.py`, `storage/data_lifecycle.py`) | deletion plan with a fingerprint | prepare, delete, export | all tables; rows shared between requests |
| Pipeline (`automation/pipeline.py`) | the local variables of `run()` | run | all units, in their order |
| Page access (`sourcing/browser/access.py`) | in-flight table, host locks, start times | open, with retries and pacing | browser manager |
| Browser manager, policy (`sourcing/browser/manager.py`, `policy.py`) | one context, one page, the guard's violation | start, close, open, route guard | Chromium, DNS |
| Cross-check, benchmarks | none | verdict per attribute | providers |
| Scoring, confidence, ranking (`presentation/*`) | none | costs, scores, Pareto fronts, ranks | scoring unit |
| Report, explanation, LLM adapters | none | render, explain with fallback | external model |
| Requirement review, improvement cases | none | checks of one request or snapshot | — |
| Assisted collection (`sourcing/assisted.py`, `browser/saved_pages.py`) | the user's inbox | plan, collect from saved pages | the user, who saves and removes files |
| Local files (archive, benchmark reference, host configuration) | files | exclusive create, replace, backup | other processes |
| Interfaces (MCP server, CLI, composition) | — | tools, commands, lifespan | clients of everything above |

What is hard, and what makes each component correct:

- **Store.** The driver opens a transaction only before the first write, so a
  unit's reads are separate implicit transactions with awaits of minutes in
  between, and only the write phase is one transaction, guarded by the revision
  read at the start. Correct means: the audit trail is gap-free and ends at the
  row's state; a stage's rows exist once exactly when the trail entered the
  stage; nothing is committed from stale reads; no lock is kept over an await;
  every unit ends; the whole is an implementation of a lifecycle in which a unit
  is one step.
- **Pages.** Tasks, locks and a clock: equal URLs share one collection, attempts
  at one host are paced, cancellation may strike at every await, an answer that
  came must reach everybody who waits for it, a refusal must not be retried.
- **Pipeline.** A run decides from its own memory which unit is next while other
  clients move, fail or delete the same workflow: no stage may be run twice, the
  result must be the exact suffix of stages, and repeated runs must get there.
- **Deletion and export.** Products and offers belong to no workflow, evidence
  refers to them without a foreign key, previews may be out of date, an export
  reads ten tables without a transaction. Correct means: a deletion takes exactly
  what was shown and nothing anybody else refers to, leaves nothing of its own
  behind, and an archive has the rows its own trail reports.
- **Browser manager.** Open against start and close, a guard whose verdict
  belongs to the page before, a document that changes between two reads. Correct
  means: a snapshot is its caller's own page, a refusal is never retried as a
  transient error, every call leaves the page to the next.
- **Assisted collection.** The inbox is scanned again for every page while the
  user goes on saving: a plan that says "ready" has to be kept by the collection.
- **Files.** Crashes between two steps, two writers with one temporary name.
- **Pure algorithms.** Four stages derive what they work on from the same rows by
  different groupings and validate each other's output: what one accepts the next
  must not refuse, since a workflow cannot go back. Boundaries: ties, zero costs,
  empty tiers, absent prices, rounding.

The full list, each at its line, is `hazards` in `PROJECT.json`.

---

## 2. The modules

```
WorkflowStates ---- WorkflowLifecycle   (abstract: a unit is one step)
      |                    ^
      |                    | implements: proved in WorkflowStoreProofs, checked by store_safety
WorkflowStore -------------+        WorkflowStoreProofs
      ^
      | extends
PipelineRuns                        PipelineRunsProofs  (and: RunsSpec => Spec)
      ^
      | extends
PipelineResumption                  (liveness only)

PageAccess                          PageAccessProofs
      ^
      | extends
PageVisits                          (a documented promise the code does not keep)

NavigationPolicy <- BrowserManager  BrowserManagerProofs

WorkflowDeletion                    WorkflowDeletionProofs  (the rows, and who refers to them)

Measurements <- ProductFacts <- CandidateDecision <- CandidateRanking <- ShoppingReport <- Appraisal
                                    RankingProofs (from ShoppingReport down), AppraisalProofs

LocalFiles   SavedPages
      ^          ^
      +----------+ LocalCommands    LocalCommandsProofs
```

An arrow points from a module to one it extends. The modules `MC...` give the
constants their values.

### WorkflowStates, WorkflowLifecycle

`WorkflowStates` has the constant part of `domain/workflow.py`: the chain
`NextState` (`NEXT_STATE`), what `advance` and `fail` admit, the event each of
them writes. `WorkflowLifecycle` is the abstract specification: workflows start,
take one declared step with the rows of their stage, fail, or are deleted with
everything they own, each in one atomic step.

### WorkflowStore

The committed database is `row`, `trail`, `facts` (how many batches of rows of a
stage a workflow has); `writer` is SQLite's write lock. A client (server
process, command or concurrent tool call) is a program counter `pc`, the unit it
runs (`op`: a target state, `start`, `get` or `delete`), its workflow and what it
has read.

| Code | Model |
|---|---|
| `load_workflow_snapshot`: three SELECTs | `LoadRow`, `LoadRequest`, `LoadEvents`, one step each |
| search page, product pages, providers | `Discover`, `CollectDetail`, `Consult`: other clients run in between |
| input reads of ingest, normalize, score, render, cross-check, deletion plan | `Ingest`, `Normalize`, `Score`, `Render`, `ListProducts`, `CrossCheck`, `PlanDeletion` |
| first flush / `BEGIN IMMEDIATE` | `Lock` |
| `UPDATE ... WHERE id AND revision`; recomputed fingerprint of a deletion | `Apply`, or `Rejected` |
| `COMMIT` | `CommitStart`, `CommitStage`, `CommitMove`, `CommitDelete` |
| exceptions | `Missing`, `Refused`, `GiveUp`, `Busy`, `Rejected`, `CommitFails`: all roll back |
| process killed | `Crash` |

Rows, names, prices and texts are abstracted: a stage's output is one batch, and
versions of the inputs are told apart by their counts. That suffices for "were
the inputs the current ones", which is what the properties ask. Identifiers are
random in the code and never reused here (`Unused`). `fail` and `advance` to a
stage are operations of the service that no tool calls today; `fail` is
modelled, since it is the service's interface, and stages are entered by their
own services only.

### PipelineRuns, PipelineResumption

`run[c]` holds the local variables of `run()` for client `c`: the state it
started from, its snapshot's state, the executed stages, whether it has a
report. A run is a sequence of calls of units of `WorkflowStore`; each of its
actions is a store action together with what the code does with the outcome.
Errors of a unit end the run (`GetsInTheWay` for those other clients cause,
`Fails` for the rest), `Die` kills the process in a unit or between two, and
`Bare(c)` is everything clients do outside runs (tools that call one unit).
`require_ready` at the first stage is left out: it is the check that already
admitted the same request at its start and depends on nothing else.
`PipelineResumption` adds one observer, `calm`: at some time pages, providers,
disk and processes stop failing.

### PageAccess, PageVisits

One event loop: a step is the code between two awaits. A job is one run of
`_open_bounded`: a shared task of the in-flight table, or a screenshot request
that runs in its caller's own task. Locks are the lines of their waiters (the
head holds the lock), which is what `asyncio.Lock` does. Time is relative and
stops counting at `MinInterval`, after which a start is no longer too early, so
the state space is finite without a bound on the clock. `Start` waits for the
slot and records the attempt, `Validate` is the policy check before the
navigation lock, `Visit` the request of the page, `Refuse`, `Answer`, `Exhaust`,
`BackOff` and `Retry` the loop of attempts, `Settle` the done callback, and both
kinds of cancellation are actions. A caller that joins between a task's end and
its callback returns at once, so joining then changes nothing. `Jobs` bounds how
many collections exist at one time; a name is free again when its job is over
and nobody waits for it. `PageVisits` adds the time of the last request that
left for each host.

### NavigationPolicy, BrowserManager

`NavigationPolicy` is `_validate`: the checks in their order, name resolution
last. A URL is a record of what the policy looks at. Since the resolver may fail
from one moment to the next, a verdict is a member of a set.

`BrowserManager` is one event loop with three kinds of actors.

| Code | Model |
|---|---|
| `start()`, await by await | `Start`, `DriverUp`, `Launched`, `LaunchFails`, `Routed`, `PageUp`, `StartBreaks` |
| `close()` | `Close`, `ContextClosed`, `Stopped`, `CloseBreaks` |
| `open()`: check, lock, goto, settling wait, second check, content, screenshot, title | `Open`, `Checked`, `Navigate`, `GotoFails`, `Settled`, `FinalChecked`, `Content`, `Screenshot`, `Titled` |
| `_navigation_lock` | `line`: the head holds it, as with `asyncio.Lock` |
| `_guard_route` | one element of `guards` for each request that awaits the policy; `GuardBlocks`, `GuardPasses` |
| `_last_violation` | `violation` |
| Chromium, driver | `running`; `doc` and `nav` are the document shown and the navigation under way, `Load` and `LoadFails` their end |
| scripts of a page | `ScriptNavigates`, `ScriptLoads`, at any time after a document is there |

A document and a navigation carry the opener whose call led to them: that is a
history, by which `SnapshotIsOwn` tells one caller's page from another's.
Cancellation of a call is `PageAccess`'s; there it is modelled at every await.

### WorkflowDeletion

`product`, `offer`, `evidence` and `derived` (checks, specifications, scores,
reports) are the rows by what they refer to; `stage` counts the stages of
`WorkflowStore` a workflow has committed. `Begin` reads a stage's inputs, the
stages' own actions commit their rows under their foreign keys. An operator's
command reads its tables by `Select`, one SELECT a step, in the order of
`_load_validated`; `Shown` and `Confirm` build and compare the plan, `Carry` is
the transaction that reads everything again and deletes with the cascades of
`tables.py`. `AddProduct`, `AddOffer` and `AddEvidence` are the repository's
inserts, which programs that use the package may call.
Abstractions: a workflow and its request are one entity; the four tables
`_external_references` reads are one step; official evidence adds no reference,
because its product has evidence already; a workflow that an operator holds a
token for is not exported by the same operator; an export that a deletion
overtakes may have the trail without the rows, which the property excepts.

### Measurements, ProductFacts, CandidateDecision, CandidateRanking, ShoppingReport, Appraisal

The algorithms of the stages as operators, in the order in which they use each
other: units and readings of a measured value; evidence, offers, checks and
facts of a product; criterion scores, costs, risk and confidence; exclusion,
dominance, fronts and ranks; report, recommendation and explanation. `Appraisal`
runs them over the life of one request, from its review to its explained report:
each stage commits everything or raises (`error`) and changes nothing.
Abstractions: sets in place of tuples, an evidence row is its own identifier;
rationals are exact before they are rounded to `Scale` (the code computes with 28
digits) and the quantum is 1/100, not 10^-6, since TLC's integers have 32 bits;
days stand for times and the clock of the stages is monotone, while a saved page
may bear any day, a future one too, as nothing compares it with a clock before
scoring does; three of the six measurement
definitions, magnitudes are integers, spelling variants of a key are folded;
offer evidence and region are left out, so that `conditional_terms` from evidence
cannot arise; reliability and freshness are those the code derives, because no
caller sets them explicitly.

### LocalFiles, SavedPages

`LocalFiles` has a file system (names, inodes, what is synced) below the three
writers, each of them a client that goes through its code one call at a time:
`Create`, `OpenTemporary`, `FirstHalf`, `SecondHalf`, `Replace`, with `Fail`,
`Die` and `LosePower` possible at each step. A document has two halves, so that a
torn file and a mixed one can be told from a whole one; a mixed one is taken not
to parse. The file system is a journalling one: names change atomically and in
order, data survives a power failure once it is synced. Claude Desktop may be
open and save its configuration at any time, during an install too; an install
replaces what it has read without looking again, so such an edit may be lost.
`raced`, `powerLost` and `settled` are histories; `settled` is the number of the
last edit made while no install ran.

`SavedPages` is the inbox against `Plan`, `PlanSearch`, `PlanDetail` and
`Collect`, `CollectDetail`, one scan a step, with `Save` and `Remove` in between.
Every scan checks the permissions of the inbox, which may be taken (`Protect`)
and given away (`Expose`) at any time.
A file is what the code finds in it. Plan and collection do not overlap, as a
client waits for one before the other. `disturbed` is a history: whether, since
the plan began, anything happened that may spoil it.

`LocalCommands` puts the two side by side: they share no file, and a step is one
of either.

---

## 3. The runs

| Run | Question | States | Bounds |
|---|---|---|---|
| `store_safety` | trail, stage rows, fresh reads, no lock over an await, snapshots, and the refinement of `WorkflowLifecycle` | about 313 000 | 1 workflow, 2 clients, 2 details |
| `store_liveness` | every unit of work ends | about 588 000 | 1 workflow, 2 clients, 1 detail |
| `torn_snapshot` | a promise on snapshots the code does not keep | violated | 1 workflow, 2 clients; what the tools call: start, the stages, get |
| `pipeline_safety` | no stage run twice; results are exact suffixes | about 470 000 | 1 workflow, 2 clients; beside runs: start, fail, delete, render |
| `pipeline_liveness` | repeated runs complete | about 560 000 | 1 workflow, 2 clients; beside runs: start |
| `pages_safety` | pacing, sharing, refusals, answers | about 1 620 000 | 2 hosts, 3 URLs, 2 callers, 3 jobs, 3 attempts, interval 2 |
| `pages_liveness` | every `open()` returns | about 113 000 | 2 hosts, 3 URLs, 2 callers, 2 jobs, 2 attempts |
| `visits_not_paced` | a promise on pacing the code does not keep | violated | 1 host, 2 URLs, 1 attempt |
| `browser` | own pages, no error document, refusals stay refusals, nothing runs after close, every `open()` ends | about 212 000 | 2 callers, an allowed and a refused address, a blocked resource, 1 request by a script |
| `deletion` | shared rows, previews, leftovers, archives | about 3 440 000 | 2 workflows (6 and 3 stages, 6 in sum), 1 product with 2 offers, 1 operator, 1 insert through the repository |
| `appraisal` | the stages fit together; scores, fronts, ranks and recommendation against their definitions | about 335 000 | up to 4 products, some pages with a future time, 11 requests, 3 official sets, 3 benchmark references, 2 days |
| `files` | nothing torn, nothing lost; ready plans are kept | about 2 380 000 | 2 commands, 2 backup names, 2 entries with 1 edit and 1 entry with 2 edits, 1 kill or power failure; 10 saved pages, 5 of them seen, 2 product pages |

**Why these bounds are enough to mean something.** Workflows are coupled only by
the write lock, and two clients on one workflow already contend for it, so a
second workflow adds no new interleaving (the proofs hold for any number). Two
clients give every race between two revisions; a third would only repeat one of
them. Two details let a unit await after it has already staged rows. In the page
runs one host has two URLs (two jobs in one line, one of them waiting) and
another has one (so the navigation lock is contended across hosts), three jobs
allow a shared collection, a joining caller and a screenshot request at once,
and with three attempts and a maximal delay equal to the base delay the backoff
is capped within the run. Client symmetry is used in safety runs only.

In `browser` two callers are one that holds the page and one that waits for it;
one request by a script is enough to supersede a goto, to replace a document
between two reads, or to leave a guard behind that answers during the next
call's turn. In `deletion` two workflows share a product by evidence that comes
in through the repository, one of them can run all its stages, and the second
offer keeps a product alive when the first goes; with a single operator the
token and the second preview still race every stage. In `appraisal` the pages
and requests are chosen one by one so that every branch of the algorithms is
taken: conflicts, ties, a zero and an absent price, a foreign currency, a
budget with and without stretch, values on both sides of every bound. Four
candidates give fronts of depth three, and both budget tiers at once. In `files`
two commands make every race on one temporary name, and ten inodes are one more
than names and commands can hold at once; exports, refreshes, installs and the
inbox share no file, so each is a scenario of its own, and installs are two: of
either entry with one edit, and of one entry with two edits (one before the
installs and one during them).

Each passing property has a mutant in `PROJECT.json`: a definition changed the
way a plausible bug would change it, in the modules next to the definition it
replaces (marked `Mutant`). TLC finds each of them to violate its property.

**Fairness.**

- `store_liveness`: weak fairness of each client's own steps. The operating
  system schedules every process, pages and providers have timeouts, SQLite's
  driver gives up waiting for the lock. Calls and crashes need not happen.
  Without the driver's timeout (mutant `BusyForever`) a client may wait for ever
  although the lock is free infinitely often.
- `pages_liveness`: weak fairness of each job, of each caller's wake-up and of
  the clock: the event loop runs what is ready, navigation and DNS have timeouts,
  time passes. The locks are first come, first served, so weak fairness suffices.
- `pipeline_liveness`: the scheduler runs every process; the user repeats a run
  that ended; breakdowns end at some time (`CalmsDown`). The last two are
  assumptions on the environment, not on the code, and the property is about
  what remains: that no failure or crash, at whatever step, leaves a state from
  which runs cannot go on, and that runs racing each other do not fail each
  other for ever. Conflicts between clients are never assumed away.

- `browser`: weak fairness of each call's next step, of the guards and of the
  navigation's end: the policy is bounded by the resolver, `goto` and the
  settling wait by their timeouts, content, screenshot and title by the browser's
  answer or its end. Calls, scripts and the lifespan need not go on.

Deadlock is checked in the store, pipeline, page and appraisal runs. `browser`,
`deletion` and `files` may stop: the manager is down for good once `start()` or
`close()` has failed, both workflows may be deleted, and inserts, kills and edits
are bounded.

---

## 4. The proofs

Checked by TLAPS for every value of the constants. Assumptions:
`NoClient` is no client, `MaxDetails` is a positive number, `BareOps` are
operations of the store; for pages, the ranges `PageAccessSettings` accepts
(positive attempts and delays, every URL has a host, the sentinels are not
elements); for the browser, that its error document is no address a call can ask
for and that scripts navigate a finite number of times (a bound of the model);
for deletion, that products and offers have different identifiers and that the
bounds `LastStage` and `MaxImports` are what their names say; for saved pages
(`PagesAssumption`), finitely many files with names that differ, candidates that
are sequences, limits in the settings' ranges; for local files
(`FilesAssumption`), finitely many commands and names for backups (which are no
other file's), and more inodes than they can use; for the appraisal, what the
records of the domain validate: amounts of money that are not negative
(`models.py:43`), a stretch budget not below the other (`models.py:68`), positive
weights (`models.py:77`), measured numbers without a sign (`measurements.py:12`),
prices of a page (`details.py:52`) and scores of a benchmark (`benchmarks.py:85`)
likewise, finitely many of everything, and that `None` and `NaN` are no numbers.
Bounds of a criterion may be anything; that they are sound is what the review
finds out. `Scale` is any positive multiple of 100, the code's 10^6 among them,
so that the proofs do not depend on the coarse quantum of the run. TLC evaluates
every one of these assumptions.

**Store** (`WorkflowStoreProofs`). No property is
inductive alone: that a commit appends the right event rests on what its client
read long before and on nobody having moved the row since. The invariant is

    IInv == TypeOK /\ TrailIsComplete /\ StageRowsMatchTrail /\ LockIsHeld
            /\ \A c : StartIsFresh(c) /\ ReadIsPast(c) /\ SeenMoveStays(c) /\ UnitIsInOrder(c)

`ReadIsPast` is the heart: whoever loaded a row holds one the workflow really
had, revisions only grow and deleted identifiers do not come back, so *equal
revision* implies *nothing of what was read has changed*. The proof divides
steps into quiet ones, which leave the database alone, and commits, whose effect
(`Begins`, `MovesTo`, `Ends`) is first shown to be what the committed row asks
for. Theorems: `TypeCorrect`, `TrailComplete`, `StageRowsMatch`,
`FreshReadsAtCommit`, `LockFreeAwaits`, `SnapshotsExplained`, and
`StoreImplementsLifecycle`: every commit is one step of `WorkflowLifecycle` and
every other step is a stutter.

**Pipeline** (`PipelineRunsProofs`). `RunsAreUnits` shows that a behaviour with
runs is a behaviour of the store, so the theorems above apply to it. `RunsInv`
adds that a run stands where its executed stages say and called the unit that
follows (`RunIsInOrder`), that trails follow the chain position by position
(`TrailFollowsChain`), and that what a run has done is in the trail while the
workflow is there (`DoneIsRecorded`). Hence a stage that is about to be
committed has been done by nobody: the trail would name it at an earlier place.
Results: `StagesOnce`, `ResultsValid`, `RunsTypeCorrect`.

**Pages** (`PageAccessProofs`). `IInv` says of the lines that only the head goes
on and nobody stands in one twice (`HostLines`, `PageLine`), that a job sleeps
at least the rest of the interval (`SleepsAreLongEnough`), and where each job
may be (`JobsAreInOrder`, `ScreenshotsAreOwn`); one lemma per action. Results:
`PagesTypeCorrect`, `InflightCurrent`, `RefusalsFinal`, `AnswersSurvive`, and
the action property `StartsArePaced`.

**Browser** (`BrowserManagerProofs`). The lock gives the page one caller at a
time, but documents, scripts, the route guard's late answers and `close()` act on
the page without it. `PageIsReaders` is what the lock does secure: from the end
of its `goto` to its return, the page shows what its reader's navigation led to,
and what navigates it comes from there too; `ContentIsReaders` carries that over
the awaits between `page.content()` and `page.title()`, `ErrorPageStays` and
`NavigationIsToPage` say why an error document read as content is still there
when the address is checked once more. Page steps, ends of calls and reads each
share a lemma. Results: `BrowserTypeCorrect`, `SnapshotsAreOwn`,
`ErrorPagesStay`, `BlockedAreRefused`, `NothingIsLeftRunning`.

**Deletion** (`WorkflowDeletionProofs`). A command reads table after table while
stages commit, and deletes in a transaction of its own. Every step grows the
database, leaves it alone or is a `Carry`, whose plan is built from reads of its
own transaction. The invariant says what a row implies: a committed stage has
rows (`TrailHasRows`), so has every later read of an earlier stage's table
(`ArchiveFollowsTrail`), and a row about an offer comes with one of the same
workflow about its product (`OffersComeWithProducts`). The last is the heart:
a foreign row about an offer of a product comes with a foreign row about the
product, which keeps both. So the cascades from a product that goes touch no
foreign row. Results: `DeletionTypeCorrect`, `NothingIsLeft`, `ArchivesAreCovered`,
`SharedRowsAreKept`, `ShownIsDeleted`.

**Saved pages** (`LocalCommandsProofs`, `PlansInductive`). A plan is several scans of a changing
directory. The invariant says, as long as nothing spoils it, that what a plan has
still to look up is the tail of what the search page leads to *now*, with the
products before it saved (`PlanIsOnItsWay`); that after a ready plan all of them
are (`PlanIsKept`); and the same of what a collection has left
(`CollectionFollows`). `SavedStay` is the step that matters: within the limit a
file more changes what is found for its own key only, and there only for
something newer. Result: `PlansAreKept`.

**Local files** (`LocalCommandsProofs`, `FilesInductive`). What a command relies on is a link that
others may move or truncate under it, so the invariant is about who can. An inode
that is open bears the name it was opened with, or the destination if another
command's `os.replace` moved it there (`OpenIsOwn`); only the configuration's
temporary file, which is opened without `O_EXCL`, is ever open twice, and only
once two installs have raced. What has been written to any other file is known
half by half (`ContentIsWritten`), so that what is about to be moved is whole and
synced (`TemporariesAreReady`) and what was moved stays so (`DestinationsAreWhole`).
The user's servers need more (`ConfigIsKept`): unless the power has failed, a
backup holds them as soon as an install is past its own backup, and until then
the configuration does and every install has read them from it. *Them* are the
servers configured last while no install ran, or later ones: of an edit during
an install nothing is promised, since the code keeps none. The
lemmas in between give one proof for each kind of step (begin, open, write,
finish, replace, remove a name, stop), and each action is shown to be one. Results:
`CommandsTypeCorrect` (of both), `FilesNothingIsTorn`, `FilesKeepWhatWasThere`.

**Ranking** (`RankingProofs`), about the operators of `CandidateRanking` and
`ShoppingReport` alone, for any finite set of drafts. A sorted list exists and is
the only one, since the last component of every key is a product
(`OrderedIsUnique`); the peeling of fronts ends, because a strict order on a
finite set that is not empty has a greatest element (`SomeUndominated`,
`NobodyRemains`); the front of a candidate is its depth (`FrontIsDepth`). From
that, no front number is missing in a tier (`FrontsHaveNoGap`) nor in both tiers
joined, so that no batch refuses itself (`BatchesAreConsistent`); and the order
the report builder makes of the rows, which come in none, is the one the engine
gave them (`StableScoresAreTheRanking`).

**Appraisal** (`AppraisalProofs`). The state of a request is all derived data, and
the invariant says from what: facts are `FactsOf` a day, scores the ranking of
the candidates of a day, the report that of the scores, each of a day that has
passed and of the offers and evidence that are stored *now* (`FactsInv`,
`ScoresInv`, `ReportInv`); evidence and checks are about collected products, and
nothing but evidence of a page is from the future (`RowsInv`); a request that is not new has passed the review
(`RequestInv`). The properties need all of it at once: a recommendation stands in
a report, which is of scores, which are of facts, which are of rows, and each
stage has to find what the stage before it saw. That rendering cannot raise, and
scoring only for a page that bears a later time, is therefore part of the
invariant's proof (`ScoreIs`, `RenderKeepsInv`).
Below it are lemmas about the algorithms, which do not mention the state:

- weighted means of shares are shares (`MeanBetween`), by an induction over the
  indices that `SumFunction` takes away one by one (`ChosenInduction`);
- grouping by canonical key and regrouping by folded key lose no row
  (`ReachingFacts`), and a criterion is scored exactly when they agree
  (`ReadingDecides`);
- the score of a value grows towards the preferred one, within the bounds, beyond
  them and across them (`NearerIsNoLess`): rounding is monotone (`HalfUpGrows`,
  `HalfUpShrinks`), and both formulas meet at one half;
- if any linked row, check or fact is from the future of a stage, evidence of a
  page is (`OnlyRowsAreAhead`).

Results: `AppraisalTypeCorrect`, `AppraisalOneReadingDecides`,
`AppraisalNearerScoresNoLess`, `AppraisalNothingRefused`,
`AppraisalFrontsAreDepth`, `AppraisalBetterRanksFirst`, `AppraisalIsDefensible`.
TLC finds the inductive invariant to hold on the instance of the run `appraisal`.

**Model-checked only.** Liveness (`EveryUnitEnds`, `EveryCallReturns`,
`RunsComplete`, `EveryOpenEnds`): it rests on fairness and `ENABLED`, which the
prover does not handle. Every safety property of a passing run is proved.

---

## 5. Disagreements between the code and its documents

- `torn_snapshot`. `load_workflow_snapshot` reads row, request and events in
  three implicit transactions, though its docstring speaks of "a complete
  workflow snapshot in an existing transaction". A commit between the reads gives
  a reader a trail that goes beyond the state shown. What does hold, and is
  proved, is `SnapshotExplainsItsState`: the trail contains the event that led
  to the state shown. In TLC's trace a reader (`get`) loads the row in
  `request_validated`, a runner's first stage commits `candidates_discovered`,
  and the reader then loads a trail one event longer than its row; the run admits
  only operations that the tools call. Units that go on to write are not affected
  (`CommitsOnFreshReads`); readers that demand a consistent snapshot, such as the
  improvement case, are refused by their validator now and then.
- `visits_not_paced`. The interval between two visits of a host is measured
  between the starts of two attempts, before the policy's DNS lookup and the wait
  for the page; the requests that leave the browser may be closer together than
  the quick start says. In TLC's trace two collections of one attempt each follow
  each other: the first waits a full interval for a slow policy and then visits,
  the second starts at once, an interval after the first one's start, and visits
  within the same second. The starts themselves are paced, which is proved.

Five more were met while modelling and are not runs, because what they
contradict is prose about a single step rather than a behaviour TLC would have
to find:

- A request's query may have 2,000 characters, a search 200 with white space
  folded (`jd.py:202`). A query in between passes the review and its workflow can
  never be collected. The model has it (`Collect` raises `query_rejected`).
- The request for an explanation is built outside the handler of the provider's
  failures (`explanation.py:563`), so that a query of more than 1,000 characters,
  which has few with white space folded, raises where `DESIGN.md:449` promises
  the deterministic report unchanged. The model has it (`explanation_request`).
- The backup of Claude Desktop's configuration is written without `fsync`, though
  `DESIGN.md:564` has a complete backup made before the replacement;
  `KeepsWhatWasThere` names the one combination (a race and a power failure) in
  which that matters.
- An install reads the configuration, backs up what it has read and replaces the
  file without looking at it again (`host_config.py:124-173`), though its
  docstring promises to "keep everything else, and back up before any change"
  (`host_config.py:118`). What Claude Desktop saves in between, and `cli.py:322`
  and `install-windows.cmd:46` expect it to be open, is then neither in the
  configuration nor in a backup. The model has it (`Edit` during an install), and
  `KeepsWhatWasThere` excepts it.
- A saved page bears the time of its `Date:` header (a header in -0000 is read as
  local time) or of the file (`saved_pages.py:86-91`, `182-187`). Collection,
  ingestion, cross-check and normalization accept a time in the future; only
  scoring refuses it (`confidence.py:183`), and the request cannot be scored
  before that time has come. The model has it (`Score` raises
  `evidence_timeline`), and `WhatWasAcceptedIsNotRefused` excepts it.

---

## 6. What is not modelled

All modules of the plan are written. What is left out, and why:

- **HTML parsers and page adapters**: text in, records out, no state. The models
  take their records as given and choose them so that later stages meet every
  case.
- **LLM adapters**: a configuration, one call and a mapping of errors.
  `ShoppingReport` has what may be answered.
- **Rendering** (Markdown, HTML, views of the tools), **argument parsing** of the
  CLI and health output: wording and layout.
- **Schema migrations**: Alembic runs them forward before any server starts.
- **Settings and most domain records**: validated once, immutable. Where a
  validator may refuse what a stage computed, it is modelled with the stage.
- **The connection pool**: the store lets every client have a session,
  though sixteen collections of one server would have to share fifteen.
- **Reads of the catalog** and inserts of observations outside the pipeline.
- **Permissions and directories** in `LocalFiles`: a refused one is an I/O error,
  which is possible at every step anyway.
