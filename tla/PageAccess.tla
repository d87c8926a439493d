----------------------------- MODULE PageAccess -----------------------------
(***************************************************************************)
(* ControlledPageCollector (sourcing/browser/access.py) in front of the    *)
(* one page of BrowserManager (sourcing/browser/manager.py).  Concurrent   *)
(* tool calls open pages.  Equal URLs share one collection; collections of *)
(* one host take turns, keep their starts an interval apart and retry      *)
(* transient answers; the collections of all hosts take turns at the       *)
(* browser's single page.                                                  *)
(*                                                                         *)
(* Everything runs in one event loop: a step is what runs between two      *)
(* awaits.  Time is in seconds.                                            *)
(***************************************************************************)
EXTENDS Integers, Sequences

CONSTANTS
  Hosts, Urls, NoUrl,
  HostOf,       \* the host of each URL
  Callers,      \* concurrent tool calls, each with at most one open()
  Jobs, NoJob,  \* executions of _open_bounded; their names are reused
  MinInterval, MaxAttempts, BaseDelay, MaxDelay   \* PageAccessSettings

ASSUME HostOfAssumption == HostOf \in [Urls -> Hosts]
ASSUME NoUrlAssumption == NoUrl \notin Urls
ASSUME NoJobAssumption == NoJob \notin Jobs
\* PageAccessSettings.__post_init__
ASSUME SettingsAssumption ==
  /\ MinInterval \in Nat
  /\ MaxAttempts \in 1..3
  /\ BaseDelay \in Nat
  /\ MaxDelay \in Nat /\ MaxDelay >= BaseDelay

VARIABLES
  idle,      \* host -> time since its last start (_last_started_at), at most MinInterval
  line,      \* host -> its lock (_host_locks): the holder, then those that wait, in order
  inflight,  \* URL -> the job that collects it (_inflight)
  browser,   \* the navigation lock of BrowserManager, as a line too
  job,       \* job -> where it stands
  waits      \* caller -> the job it awaits

vars == <<idle, line, inflight, browser, job, waits>>

\* What the latest attempt of a job was answered: a page, a transient failure
\* or status, an access restriction, any other failure.
Statuses == {"none", "page", "transient", "restricted", "error"}

\* Positions of a job that holds its host's lock.
Active == {"pacing", "opening", "turn", "loading", "backoff"}

Job == [phase : {"settled", "queued", "done"} \union Active,
        url : Urls \union {NoUrl}, shot : BOOLEAN,
        attempt : 0..3, left : Nat, status : Statuses]

\* A job that is over, of which only the answer is left.
Settled(status) ==
  [phase |-> "settled", url |-> NoUrl, shot |-> FALSE, attempt |-> 0, left |-> 0,
   status |-> status]

TypeOK ==
  /\ idle \in [Hosts -> 0..MinInterval]
  /\ line \in [Hosts -> Seq(Jobs)]
  /\ inflight \in [Urls -> Jobs \union {NoJob}]
  /\ browser \in Seq(Jobs)
  /\ job \in [Jobs -> Job]
  /\ waits \in [Callers -> Jobs \union {NoJob}]

Init ==
  /\ idle = [h \in Hosts |-> MinInterval]
  /\ line = [h \in Hosts |-> <<>>]
  /\ inflight = [u \in Urls |-> NoJob]
  /\ browser = <<>>
  /\ job = [j \in Jobs |-> Settled("none")]
  /\ waits = [c \in Callers |-> NoJob]

-----------------------------------------------------------------------------
Phase(j) == job[j].phase
Host(j) == HostOf[job[j].url]
Goto(j, there) == job' = [job EXCEPT ![j].phase = there]

\* asyncio.Lock wakes its waiters in order, and a cancelled waiter steps out.
Holds(j, q) == q # <<>> /\ q[1] = j
Member(j, q) == \E i \in DOMAIN q : q[i] = j
Leave(q, j) ==
  IF Member(j, q)
  THEN LET at == CHOOSE i \in DOMAIN q : q[i] = j
       IN  [i \in 1..(Len(q) - 1) |-> IF i < at THEN q[i] ELSE q[i + 1]]
  ELSE q

\* A screenshot request makes one attempt.
AttemptsOf(j) == IF job[j].shot THEN 1 ELSE MaxAttempts

\* _wait_for_host_slot: what is left of the interval since the last start.
SlotWait(h) == MinInterval - idle[h]

\* _wait_before_retry: the base delay doubles with each attempt, up to a cap.
Delay(n) ==
  LET doubled == BaseDelay * <<1, 2, 4>>[n]
  IN  IF doubled < MaxDelay THEN doubled ELSE MaxDelay

-----------------------------------------------------------------------------
(***************************************************************************)
(* The callers.                                                            *)
(***************************************************************************)
\* An equal URL is being collected: await the same task.  (Between the end of
\* the task and its done callback the call returns the task's result at once.)
Share(c, u) ==
  /\ waits[c] = NoJob
  /\ inflight[u] # NoJob
  /\ Phase(inflight[u]) # "done"
  /\ waits' = [waits EXCEPT ![c] = inflight[u]]
  /\ UNCHANGED <<idle, line, inflight, browser, job>>

Reusable(j) == Phase(j) = "settled" /\ \A c \in Callers : waits[c] # j

\* A task of its own for a URL nobody collects; a screenshot request runs in
\* the caller and is neither shared nor registered.
OpenNew(c, u, shot, j) ==
  /\ waits[c] = NoJob
  /\ shot \/ inflight[u] = NoJob
  /\ Reusable(j)
  /\ job' = [job EXCEPT ![j] = [phase |-> "queued", url |-> u, shot |-> shot,
                                attempt |-> 1, left |-> 0, status |-> "none"]]
  /\ line' = [line EXCEPT ![HostOf[u]] = Append(@, j)]
  /\ inflight' = IF shot THEN inflight ELSE [inflight EXCEPT ![u] = j]
  /\ waits' = [waits EXCEPT ![c] = j]
  /\ UNCHANGED <<idle, browser>>

Receive(c) ==
  /\ waits[c] # NoJob
  /\ Phase(waits[c]) = "settled"
  /\ waits' = [waits EXCEPT ![c] = NoJob]
  /\ UNCHANGED <<idle, line, inflight, browser, job>>

\* Mutant: the caller that gives up takes the entry of its URL with it.
CancelSharedEntry(c) ==
  /\ waits[c] # NoJob
  /\ ~job[waits[c]].shot
  /\ Phase(waits[c]) # "settled"
  /\ inflight' = [inflight EXCEPT ![job[waits[c]].url] = NoJob]
  /\ waits' = [waits EXCEPT ![c] = NoJob]
  /\ UNCHANGED <<idle, line, browser, job>>

\* Mutant: no shield, so the task is cancelled with the first caller.
CancelSharedTask(c) ==
  /\ waits[c] # NoJob
  /\ LET j == waits[c]
     IN  /\ ~job[j].shot
         /\ Phase(j) # "settled"
         /\ line' = [line EXCEPT ![Host(j)] = Leave(@, j)]
         /\ browser' = Leave(browser, j)
         /\ inflight' = [inflight EXCEPT ![job[j].url] = NoJob]
         /\ job' = [job EXCEPT ![j] = Settled(job[j].status)]
  /\ waits' = [waits EXCEPT ![c] = NoJob]
  /\ UNCHANGED <<idle>>

\* The tool call is cancelled: the shared task is shielded and goes on.
CancelShared(c) ==
  /\ waits[c] # NoJob
  /\ ~job[waits[c]].shot
  /\ waits' = [waits EXCEPT ![c] = NoJob]
  /\ UNCHANGED <<idle, line, inflight, browser, job>>

\* A screenshot request is cancelled where it stands and gives its locks up.
CancelScreenshot(c) ==
  /\ waits[c] # NoJob
  /\ LET j == waits[c]
     IN  /\ job[j].shot
         /\ line' = [line EXCEPT ![Host(j)] = Leave(@, j)]
         /\ browser' = Leave(browser, j)
         /\ job' = [job EXCEPT ![j] = Settled(job[j].status)]
  /\ waits' = [waits EXCEPT ![c] = NoJob]
  /\ UNCHANGED <<idle, inflight>>

-----------------------------------------------------------------------------
(***************************************************************************)
(* The collections.                                                        *)
(***************************************************************************)
\* The host's lock is taken and the slot of the first attempt waited for.
Acquire(j) ==
  /\ Phase(j) = "queued"
  /\ Holds(j, line[Host(j)])
  /\ job' = [job EXCEPT ![j].phase = "pacing", ![j].left = SlotWait(Host(j))]
  /\ UNCHANGED <<idle, line, inflight, browser, waits>>

\* The start is recorded and collector.open() called.
Start(j) ==
  /\ Phase(j) = "pacing"
  /\ job[j].left = 0
  /\ idle' = [idle EXCEPT ![Host(j)] = 0]
  /\ job' = [job EXCEPT ![j].phase = "opening", ![j].status = "none"]
  /\ UNCHANGED <<line, inflight, browser, waits>>

\* BrowserManager.open awaits the policy (a DNS query), then the page.
Validate(j) ==
  /\ Phase(j) = "opening"
  /\ browser' = Append(browser, j)
  /\ Goto(j, "turn")
  /\ UNCHANGED <<idle, line, inflight, waits>>

\* page.goto
Visit(j) ==
  /\ Phase(j) = "turn"
  /\ Holds(j, browser)
  /\ Goto(j, "loading")
  /\ UNCHANGED <<idle, line, inflight, browser, waits>>

\* Mutant: only a page releases the host.
FinishOnPage(j, status) ==
  /\ line' = IF status = "page" THEN [line EXCEPT ![Host(j)] = Leave(@, j)] ELSE line
  /\ job' = [job EXCEPT ![j].phase = "done", ![j].status = status]

\* The job ends with an answer and releases its host.
Finish(j, status) ==
  /\ line' = [line EXCEPT ![Host(j)] = Leave(@, j)]
  /\ job' = [job EXCEPT ![j].phase = "done", ![j].status = status]

\* The page was not started, or the policy refuses the URL.
Refuse(j) ==
  /\ Phase(j) = "opening"
  /\ Finish(j, "error")
  /\ UNCHANGED <<idle, inflight, browser, waits>>

\* Answers that end the job: a page, 401/403/429, another status from 400 on,
\* a policy violation on the way or a page too large.
Answer(j) ==
  /\ Phase(j) = "loading"
  /\ browser' = Leave(browser, j)
  /\ \E status \in {"page", "restricted", "error"} : Finish(j, status)
  /\ UNCHANGED <<idle, inflight, waits>>

\* Mutant: a refused access is retried like an overloaded server.
RetryableRefusal == {"transient", "restricted"}

\* Statuses and errors that are retried.
Retryable == {"transient"}

\* retry_exhausted
Exhaust(j) ==
  /\ Phase(j) = "loading"
  /\ job[j].attempt = AttemptsOf(j)
  /\ browser' = Leave(browser, j)
  /\ \E status \in Retryable : Finish(j, status)
  /\ UNCHANGED <<idle, inflight, waits>>

\* Mutant: the attempts are counted from zero.
BackOffOnceMore(j) ==
  /\ Phase(j) = "loading"
  /\ job[j].attempt <= AttemptsOf(j)
  /\ browser' = Leave(browser, j)
  /\ \E status \in Retryable :
       job' = [job EXCEPT ![j].phase = "backoff", ![j].status = status,
                          ![j].left = Delay(job[j].attempt)]
  /\ UNCHANGED <<idle, line, inflight, waits>>

BackOff(j) ==
  /\ Phase(j) = "loading"
  /\ job[j].attempt < AttemptsOf(j)
  /\ browser' = Leave(browser, j)
  /\ \E status \in Retryable :
       job' = [job EXCEPT ![j].phase = "backoff", ![j].status = status,
                          ![j].left = Delay(job[j].attempt)]
  /\ UNCHANGED <<idle, line, inflight, waits>>

\* Mutant: the backoff is taken for the interval.
RetryAtOnce(j) ==
  /\ Phase(j) = "backoff"
  /\ job[j].left = 0
  /\ job' = [job EXCEPT ![j].phase = "pacing", ![j].attempt = @ + 1, ![j].left = 0]
  /\ UNCHANGED <<idle, line, inflight, browser, waits>>

\* The next attempt waits for its slot like the first.
Retry(j) ==
  /\ Phase(j) = "backoff"
  /\ job[j].left = 0
  /\ job' = [job EXCEPT ![j].phase = "pacing", ![j].attempt = @ + 1,
                        ![j].left = SlotWait(Host(j))]
  /\ UNCHANGED <<idle, line, inflight, browser, waits>>

\* The done callback _drop_inflight, then the wake-up of whoever awaits.
Settle(j) ==
  /\ Phase(j) = "done"
  /\ inflight' = IF job[j].shot THEN inflight ELSE [inflight EXCEPT ![job[j].url] = NoJob]
  /\ job' = [job EXCEPT ![j] = Settled(job[j].status)]
  /\ UNCHANGED <<idle, line, browser, waits>>

\* A second passes; sleeps are over when nothing of them is left.
Older(age) == IF age < MinInterval THEN age + 1 ELSE age
Sleeping(j) == Phase(j) \in {"pacing", "backoff"} /\ job[j].left > 0

Tick ==
  /\ idle' = [h \in Hosts |-> Older(idle[h])]
  /\ job' = [j \in Jobs |->
               IF Sleeping(j) THEN [job[j] EXCEPT !.left = @ - 1] ELSE job[j]]
  /\ UNCHANGED <<line, inflight, browser, waits>>

-----------------------------------------------------------------------------
JobStep(j) ==
  \/ Acquire(j) \/ Start(j) \/ Validate(j) \/ Visit(j) \/ Refuse(j)
  \/ Answer(j) \/ Exhaust(j) \/ BackOff(j) \/ Retry(j) \/ Settle(j)

CallerStep(c) ==
  \/ \E u \in Urls :
       \/ Share(c, u)
       \/ \E shot \in BOOLEAN, j \in Jobs : OpenNew(c, u, shot, j)
  \/ Receive(c) \/ CancelShared(c) \/ CancelScreenshot(c)

Next ==
  \/ \E c \in Callers : CallerStep(c)
  \/ \E j \in Jobs : JobStep(j)
  \/ Tick

Spec == Init /\ [][Next]_vars

\* The event loop runs every ready task and time passes; DNS, navigation and
\* settling have timeouts, so an attempt is always answered.
FairSpec ==
  /\ Spec
  /\ \A j \in Jobs : WF_vars(JobStep(j))
  /\ \A c \in Callers : WF_vars(Receive(c))
  /\ WF_vars(Tick)

-----------------------------------------------------------------------------
(***************************************************************************)
(* Properties.                                                             *)
(***************************************************************************)

\* Attempts at one host start at least the interval apart, whoever makes them:
\* retries, other URLs of the host, screenshot requests, callers that were
\* cancelled meanwhile.
PacedStarts ==
  [][\A j \in Jobs :
       Phase(j) = "pacing" /\ Phase(j)' = "opening" => idle[Host(j)] >= MinInterval]_vars

\* An entry of _inflight is a shared collection of that URL still under way,
\* and every such collection has its entry: a URL is never collected twice at
\* once, nobody awaits a task that is long over, and no callback drops the
\* entry of another task.
InflightIsCurrent ==
  /\ \A u \in Urls :
       inflight[u] # NoJob =>
         /\ job[inflight[u]].url = u
         /\ ~job[inflight[u]].shot
         /\ Phase(inflight[u]) # "settled"
  /\ \A j \in Jobs :
       Phase(j) # "settled" /\ ~job[j].shot => inflight[job[j].url] = j

\* A site that refused or throttled an attempt, or answered with a permanent
\* error, is not asked again by that collection.
RefusalIsFinal ==
  \A j \in Jobs : job[j].status \in {"restricted", "error"} => Phase(j) \in {"done", "settled"}

\* A caller that is about to be served finds an answer: that another caller of
\* the same URL was cancelled never takes it away.
AnswersSurviveCancellation ==
  \A c \in Callers :
    waits[c] # NoJob /\ Phase(waits[c]) = "settled" => job[waits[c]].status # "none"

\* Every open() returns or raises, however the other hosts and callers behave:
\* the two locks are always taken in the same order and always given up.
EveryCallReturns == \A c \in Callers : waits[c] # NoJob ~> waits[c] = NoJob

-----------------------------------------------------------------------------
(***************************************************************************)
(* The inductive invariant.                                                *)
(***************************************************************************)
OncePerLine(q) == \A i, k \in DOMAIN q : q[i] = q[k] => i = k

\* Who stands in which host's line, and that only its head goes on.
HostLines ==
  /\ \A h \in Hosts :
       /\ OncePerLine(line[h])
       /\ \A i \in DOMAIN line[h] :
            Phase(line[h][i]) \in Active \union {"queued"} /\ Host(line[h][i]) = h
  /\ \A j \in Jobs :
       /\ Phase(j) = "queued" => Member(j, line[Host(j)])
       /\ Phase(j) \in Active => Holds(j, line[Host(j)])

\* The same for the page.
PageLine ==
  /\ OncePerLine(browser)
  /\ \A i \in DOMAIN browser : Phase(browser[i]) \in {"turn", "loading"}
  /\ \A j \in Jobs :
       /\ Phase(j) = "turn" => Member(j, browser)
       /\ Phase(j) = "loading" => Holds(j, browser)

\* A sleep before a start lasts until the interval is over.
SleepsAreLongEnough ==
  \A j \in Jobs : Phase(j) = "pacing" => idle[Host(j)] + job[j].left >= MinInterval

\* A job that is not over has a URL and attempts left to make; one that
\* backs off has another attempt; one that is done has its answer.
JobsAreInOrder ==
  \A j \in Jobs :
    /\ IF Phase(j) = "settled"
       THEN job[j] = Settled(job[j].status)
       ELSE job[j].url \in Urls /\ job[j].attempt \in 1..AttemptsOf(j)
    /\ Phase(j) = "backoff" => job[j].attempt < AttemptsOf(j)
    /\ Phase(j) = "done" => job[j].status # "none"

\* A screenshot request is awaited by the caller that made it alone.
ScreenshotsAreOwn ==
  \A c, d \in Callers :
    waits[c] # NoJob /\ waits[c] = waits[d] /\ job[waits[c]].shot => c = d

IInv ==
  /\ TypeOK
  /\ HostLines
  /\ PageLine
  /\ SleepsAreLongEnough
  /\ JobsAreInOrder
  /\ ScreenshotsAreOwn
  /\ InflightIsCurrent
  /\ RefusalIsFinal
  /\ AnswersSurviveCancellation
=============================================================================
