--------------------------- MODULE BrowserManager ---------------------------
(***************************************************************************)
(* BrowserManager (sourcing/browser/manager.py): one Chromium page shared  *)
(* by concurrent open() calls, next to a lifespan that starts and closes   *)
(* it and to a page that goes its own way.  A document's script may send   *)
(* the page elsewhere at any time; every request waits in the route guard  *)
(* for the policy, which asks the resolver, so guards answer late and in   *)
(* any order.  A server's redirect is not guarded again.                   *)
(***************************************************************************)
EXTENDS NavigationPolicy

CONSTANTS
  Openers,     \* callers of open()
  URLs,        \* the addresses they and the documents go to
  Resources,   \* the addresses documents load
  ErrorPage,   \* the address of the browser's own error document
  Parts,       \* address -> what the policy sees of it
  NoOne,
  MaxScripts   \* bound on the requests documents make by themselves

ASSUME NoOneAssumption == NoOne \notin Openers
ASSUME ErrorPageAssumption == ErrorPage \notin URLs /\ Parts[ErrorPage].scheme # "https"
ASSUME MaxScriptsAssumption == MaxScripts \in Nat

VARIABLES
  lifespan,   \* the lifespan or "async with" around the manager
  context,    \* _context and _page are set
  playwright, \* _playwright is set
  running,    \* what runs outside the program: {"driver", "chromium"}
  violation,  \* _last_violation
  line,       \* _navigation_lock: its holder and those waiting
  at,         \* opener -> where its call stands
  call,       \* opener -> its local variables
  result,     \* opener -> what its last call returned or raised
  doc,        \* the document the page shows and whose navigation led to it
  nav,        \* the page's navigation under way
  guards,     \* requests whose guard awaits the policy
  scripts     \* requests documents made so far

manager == <<context, playwright, violation, line>>
page == <<doc, nav, guards, scripts>>
vars == <<lifespan, running, manager, at, call, result, page>>

-----------------------------------------------------------------------------
Addressed == URLs \union {ErrorPage}

NoNav == [url |-> ErrorPage, by |-> NoOne, goto |-> FALSE, passed |-> FALSE]
BlankDoc == [url |-> ErrorPage, by |-> NoOne]
NoCall == [url |-> ErrorPage, failed |-> FALSE, blocked |-> FALSE, seen |-> ErrorPage,
           html |-> BlankDoc]
NoResult == [kind |-> "none", html |-> BlankDoc, blocked |-> FALSE]

Shown == [url : Addressed, by : Openers \union {NoOne}]

\* Mutant: open() does not take the lock.
AnyTurn(o) == \E i \in DOMAIN line : line[i] = o

\* _navigation_lock wakes those waiting in their order.
Holds(o) == line # <<>> /\ Head(line) = o

\* Where a call stands: in the policy's check, in line for the page, in goto,
\* in the settling wait, in the second check, in content(), in the screenshot
\* or in title().
Positions == {"out", "check", "line", "goto", "settle", "final", "content", "shot", "title"}
OnPage == {"goto", "settle", "final", "content", "shot", "title"}

Lifespans ==
  {"off", "driver", "launch", "route", "page", "up", "closing", "stopping", "down", "failed"}

Call == [url : Addressed, failed : BOOLEAN, blocked : BOOLEAN, seen : Addressed, html : Shown]
Results == {"none", "snapshot", "refused", "transient", "error"}
Result == [kind : Results, html : Shown, blocked : BOOLEAN]
Nav == [url : Addressed, by : Openers \union {NoOne}, goto : BOOLEAN, passed : BOOLEAN]
Requested == [url : URLs \union Resources, main : BOOLEAN, live : BOOLEAN]

InLine(o) == o \in {line[i] : i \in DOMAIN line}

\* A call is in the line from its check to its end, on the page only at its
\* head; a goto's navigation is awaited by its call; at most one request is
\* the page's own navigation.
TypeOK ==
  /\ lifespan \in Lifespans
  /\ context \in BOOLEAN /\ playwright \in BOOLEAN
  /\ running \subseteq {"driver", "chromium"} /\ ("chromium" \in running => "driver" \in running)
  /\ violation \in Refusals \union {"none"}
  /\ line \in Seq(Openers)
  /\ \A i, j \in DOMAIN line : line[i] = line[j] => i = j
  /\ at \in [Openers -> Positions] /\ call \in [Openers -> Call] /\ result \in [Openers -> Result]
  /\ \A o \in Openers :
       /\ at[o] \in OnPage => Holds(o)
       /\ InLine(o) <=> at[o] \in OnPage \union {"line"}
  /\ doc \in Shown /\ nav \in Nav
  /\ nav.goto => nav.by \in Openers /\ at[nav.by] = "goto" /\ ~call[nav.by].failed
  /\ guards \subseteq Requested
  /\ \A g \in guards : g.live => g.main /\ nav.url = g.url /\ ~nav.passed
  /\ \A g, h \in guards : g.live /\ h.live => g = h
  /\ scripts \in 0 .. MaxScripts

Init ==
  /\ lifespan = "off" /\ context = FALSE /\ playwright = FALSE /\ running = {}
  /\ violation = "none" /\ line = <<>>
  /\ at = [o \in Openers |-> "out"]
  /\ call = [o \in Openers |-> NoCall]
  /\ result = [o \in Openers |-> NoResult]
  /\ doc = BlankDoc /\ nav = NoNav /\ guards = {} /\ scripts = 0

-----------------------------------------------------------------------------
(***************************************************************************)
(* The lifespan: start(), the server's life, close().                      *)
(***************************************************************************)
Hosted(from, to) ==
  /\ lifespan = from /\ lifespan' = to
  /\ UNCHANGED <<violation, line, at, call, result, page>>

\* start() refuses a manager that is started and a profile that is not
\* private; then it awaits the driver, Chromium, the route and a page.
Start ==
  /\ \E from \in {"off", "down"} : Hosted(from, "driver")
  /\ ~context
  /\ UNCHANGED <<context, playwright, running>>

DriverUp ==
  /\ Hosted("driver", "launch") /\ running' = {"driver"} /\ UNCHANGED <<context, playwright>>

Launched ==
  /\ Hosted("launch", "route") /\ running' = {"driver", "chromium"}
  /\ UNCHANGED <<context, playwright>>

\* Chromium cannot start: the driver is stopped again.
LaunchFails ==
  /\ Hosted("launch", "failed") /\ running' = {} /\ UNCHANGED <<context, playwright>>

Routed ==
  /\ Hosted("route", "page") /\ context' = TRUE /\ playwright' = TRUE /\ UNCHANGED running

PageUp == Hosted("page", "up") /\ UNCHANGED <<context, playwright, running>>

\* An error after the launch leaves start() as it is; nobody calls close().
StartBreaks ==
  /\ \E from \in {"driver", "route", "page"} : Hosted(from, "failed")
  /\ UNCHANGED <<context, playwright, running>>

\* Mutant: the fields are cleared before they are used.
CloseForgetful ==
  /\ Hosted("up", "closing") /\ context' = FALSE /\ playwright' = FALSE /\ UNCHANGED running

\* The navigation under way ends without a document of its own: a goto that
\* was waiting for it fails.
FailGoto(blocked) ==
  call' = IF nav.goto
          THEN [call EXCEPT ![nav.by].failed = TRUE, ![nav.by].blocked = blocked]
          ELSE call

\* The guards of requests nothing waits for any more still answer.
Superseded == {[g EXCEPT !.live = FALSE] : g \in guards}

\* close() takes the fields, clears them, and closes what it took.
Close ==
  /\ Hosted("up", "closing") /\ context' = FALSE /\ UNCHANGED <<playwright, running>>

ContextClosed ==
  /\ lifespan = "closing" /\ lifespan' = "stopping"
  /\ running' = running \ {"chromium"}
  /\ nav' = NoNav /\ FailGoto(FALSE)
  /\ guards' = Superseded
  /\ UNCHANGED <<manager, at, result, doc, scripts>>

Stopped ==
  /\ Hosted("stopping", "down")
  /\ running' = IF playwright THEN {} ELSE running
  /\ playwright' = FALSE /\ UNCHANGED context

\* The context's close raises: the driver is not stopped.
CloseBreaks == Hosted("closing", "failed") /\ UNCHANGED <<context, playwright, running>>

-----------------------------------------------------------------------------
(***************************************************************************)
(* open().                                                                 *)
(***************************************************************************)
Goto(o, there) == at' = [at EXCEPT ![o] = there]

\* Mutant: a refusal after the page has settled leaves the lock taken.
ReturnWithLock(o, kind, html) ==
  /\ at' = [at EXCEPT ![o] = "out"]
  /\ call' = [call EXCEPT ![o] = NoCall]
  /\ result' = [result EXCEPT ![o] = [kind |-> kind, html |-> html,
                                            blocked |-> call[o].blocked]]
  /\ line' = IF Holds(o) /\ kind # "refused" THEN Tail(line) ELSE line

\* The call ends; if it held the lock, that goes to the next in line.
Return(o, kind, html) ==
  /\ at' = [at EXCEPT ![o] = "out"]
  /\ call' = [call EXCEPT ![o] = NoCall]
  /\ result' = [result EXCEPT ![o] = [kind |-> kind, html |-> html,
                                            blocked |-> call[o].blocked]]
  /\ line' = IF Holds(o) THEN Tail(line) ELSE line

Raise(o, kind) == Return(o, kind, BlankDoc) /\ UNCHANGED <<context, playwright, violation>>

\* The page is taken before the first await; a manager without one refuses.
Open(o, u) ==
  /\ at[o] = "out" /\ lifespan = "up"
  /\ Goto(o, "check")
  /\ call' = [call EXCEPT ![o].url = u]
  /\ result' = [result EXCEPT ![o] = NoResult]
  /\ UNCHANGED <<lifespan, running, manager, page>>

Checked(o) ==
  /\ at[o] = "check"
  /\ \E v \in PageVerdicts(Parts[call[o].url]) :
       IF v = "ok"
       THEN Goto(o, "line") /\ line' = Append(line, o)
            /\ UNCHANGED <<context, playwright, violation, call, result>>
       ELSE Raise(o, "refused")
  /\ UNCHANGED <<lifespan, running, page>>

\* A new navigation of the page goes to the guard.
Request(u) == Superseded \union {[url |-> u, main |-> TRUE, live |-> TRUE]}

\* Any Playwright call fails once Chromium is gone.
Alive == "chromium" \in running

\* goto supersedes what the page was doing, and what it shows is of an earlier
\* navigation from now on.
Navigate(o) ==
  /\ at[o] = "line" /\ Holds(o)
  /\ violation' = "none"
  /\ Goto(o, "goto")
  /\ IF Alive
     THEN /\ nav' = [url |-> call[o].url, by |-> o, goto |-> TRUE, passed |-> FALSE]
          /\ guards' = Request(call[o].url)
          /\ UNCHANGED call
     ELSE call' = [call EXCEPT ![o].failed = TRUE] /\ UNCHANGED <<nav, guards>>
  /\ doc' = [doc EXCEPT !.by = NoOne]
  /\ UNCHANGED <<lifespan, running, context, playwright, line, result, scripts>>

\* goto raises PlaywrightError: a recorded violation tells why.
GotoFails(o) ==
  /\ at[o] = "goto" /\ call[o].failed
  /\ Return(o, IF violation = "none" THEN "transient" ELSE "refused", BlankDoc)
  /\ UNCHANGED <<lifespan, running, context, playwright, violation, page>>

\* The settling wait is over, at the latest at its timeout.
Settled(o) ==
  /\ at[o] = "settle"
  /\ IF violation = "none"
     THEN /\ Goto(o, "final")
          /\ call' = [call EXCEPT ![o].seen = doc.url]
          /\ UNCHANGED <<manager, result>>
     ELSE Raise(o, "refused")
  /\ UNCHANGED <<lifespan, running, page>>

FinalChecked(o) ==
  /\ at[o] = "final"
  /\ \E v \in PageVerdicts(Parts[call[o].seen]) :
       IF v = "ok"
       THEN Goto(o, "content") /\ UNCHANGED <<manager, call, result>>
       ELSE Raise(o, "refused")
  /\ UNCHANGED <<lifespan, running, page>>

\* The document of the moment is serialised; too large a one is refused, and a
\* screenshot is taken if it was asked for and the status is a success.
Content(o) ==
  /\ at[o] = "content"
  /\ \/ /\ Alive
        /\ \E next \in {"shot", "title"} : Goto(o, next)
        /\ call' = [call EXCEPT ![o].html = doc, ![o].seen = doc.url]
        /\ UNCHANGED <<manager, result>>
     \/ Raise(o, "error")
  /\ UNCHANGED <<lifespan, running, page>>

\* A failed capture removes its file and ends the call.
Screenshot(o) ==
  /\ at[o] = "shot"
  /\ \/ /\ Alive
        /\ Goto(o, "title")
        /\ UNCHANGED <<manager, call, result>>
     \/ Raise(o, "error")
  /\ UNCHANGED <<lifespan, running, page>>

\* Mutant: final_url is the address that was checked.
TitledAsChecked(o) ==
  /\ at[o] = "title"
  /\ IF Alive THEN Return(o, "snapshot", call[o].html) ELSE Return(o, "error", BlankDoc)
  /\ UNCHANGED <<lifespan, running, context, playwright, violation, page>>

\* page.url is read again and the title awaited; a snapshot's final_url is an
\* http address, which the error document's is not.
Titled(o) ==
  /\ at[o] = "title"
  /\ IF Alive /\ doc.url # ErrorPage
     THEN Return(o, "snapshot", call[o].html)
     ELSE Return(o, "error", BlankDoc)
  /\ UNCHANGED <<lifespan, running, context, playwright, violation, page>>

-----------------------------------------------------------------------------
(***************************************************************************)
(* The page and the guard of its requests.                                 *)
(***************************************************************************)
\* Mutant: a goto's own violation is recorded when its request has been
\* aborted, which its caller has noticed by then.
RecordLate(g, verdict) == IF g.live THEN UNCHANGED violation ELSE violation' = verdict

\* _guard_route: a blocked top-level navigation is recorded, before it is
\* aborted.
Record(g, verdict) == IF g.main THEN violation' = verdict ELSE UNCHANGED violation

GuardBlocks(g) ==
  /\ \E v \in (IF g.main THEN PageVerdicts(Parts[g.url]) ELSE ResourceVerdicts(Parts[g.url])) \ {"ok"} :
       Record(g, v)
  /\ guards' = guards \ {g}
  /\ IF g.live
     THEN doc' = [url |-> ErrorPage, by |-> nav.by] /\ nav' = NoNav /\ FailGoto(TRUE)
     ELSE UNCHANGED <<doc, nav, call>>
  /\ UNCHANGED <<lifespan, running, context, playwright, line, at, result, scripts>>

GuardPasses(g) ==
  /\ "ok" \in IF g.main THEN PageVerdicts(Parts[g.url]) ELSE ResourceVerdicts(Parts[g.url])
  /\ guards' = guards \ {g}
  /\ nav' = IF g.live THEN [nav EXCEPT !.passed = TRUE] ELSE nav
  /\ UNCHANGED <<lifespan, running, manager, at, call, result, doc, scripts>>

\* The response arrives, after redirects the guard does not see.
Load ==
  /\ nav.passed
  /\ \E u \in {nav.url} \union (URLs \ {nav.url}) :
       doc' = [url |-> u, by |-> nav.by]
  /\ nav' = NoNav
  /\ at' = IF nav.goto THEN [at EXCEPT ![nav.by] = "settle"] ELSE at
  /\ UNCHANGED <<lifespan, running, manager, call, result, guards, scripts>>

\* The network fails or the timeout strikes.
LoadFails ==
  /\ nav # NoNav
  /\ doc' = [url |-> ErrorPage, by |-> nav.by]
  /\ nav' = NoNav /\ FailGoto(FALSE)
  /\ guards' = Superseded
  /\ UNCHANGED <<lifespan, running, manager, at, result, scripts>>

ByScript ==
  /\ doc.url # ErrorPage /\ Alive /\ scripts < MaxScripts
  /\ scripts' = scripts + 1

\* The document sends the page elsewhere; a goto on its way is interrupted.
ScriptNavigates(u) ==
  /\ ByScript
  /\ nav' = [url |-> u, by |-> doc.by, goto |-> FALSE, passed |-> FALSE]
  /\ FailGoto(FALSE)
  /\ guards' = Request(u)
  /\ UNCHANGED <<lifespan, running, manager, at, result, doc>>

\* The document loads something.
ScriptLoads(u) ==
  /\ ByScript
  /\ guards' = guards \union {[url |-> u, main |-> FALSE, live |-> FALSE]}
  /\ UNCHANGED <<lifespan, running, manager, at, call, result, doc, nav>>

-----------------------------------------------------------------------------
Lifespan ==
  \/ Start \/ DriverUp \/ Launched \/ LaunchFails \/ Routed \/ PageUp \/ StartBreaks
  \/ Close \/ ContextClosed \/ Stopped \/ CloseBreaks

Continue(o) ==
  \/ Checked(o) \/ Navigate(o) \/ GotoFails(o) \/ Settled(o) \/ FinalChecked(o)
  \/ Content(o) \/ Screenshot(o) \/ Titled(o)

Guard == \E g \in guards : GuardBlocks(g) \/ GuardPasses(g)

Script == (\E u \in URLs : ScriptNavigates(u)) \/ \E u \in Resources : ScriptLoads(u)

Next ==
  \/ Lifespan
  \/ \E o \in Openers : (\E u \in URLs : Open(o, u)) \/ Continue(o)
  \/ Guard \/ Load \/ LoadFails \/ Script

\* Every await is bounded: the policy's by the resolver, goto and the settling
\* wait by their timeouts, the rest by the browser's answer or its end.
Fairness ==
  /\ \A o \in Openers : WF_vars(Continue(o))
  /\ WF_vars(Guard) /\ WF_vars(Load \/ LoadFails)

Spec == Init /\ [][Next]_vars /\ Fairness

-----------------------------------------------------------------------------
\* The document of a snapshot is one this call's own navigation brought to the
\* page, or one it led to: two callers of the shared page never get each
\* other's page, whatever their documents do (open(), under its lock).
SnapshotIsOwn ==
  \A o \in Openers : result[o].kind = "snapshot" => result[o].html.by = o

\* No snapshot is made of the browser's error document, although a navigation
\* may be blocked, or fail, between the check of page.url and content(): the
\* address is read again after the content, and no error document turns into a
\* page (open(), BrowserSnapshot.final_url).
ErrorPageNeverReturned ==
  \A o \in Openers : result[o].kind = "snapshot" => result[o].html.url # ErrorPage

\* A goto that failed because the guard had blocked its navigation is reported
\* as that refusal and never as a transient error, which the collector would
\* send to the site again (open(), _guard_route).
BlockedIsNotTransient ==
  \A o \in Openers : result[o].kind = "transient" => ~result[o].blocked

\* A manager that came up and was closed leaves neither Chromium nor the
\* driver behind, whatever calls were under way (start(), close()).
NothingRunsAfterClose == lifespan = "down" => running = {}

\* Every call returns or raises, and leaves the page to the next: with guards
\* answering late, with documents that navigate, with the browser closed under
\* it (open()).
EveryOpenEnds == \A o \in Openers : at[o] # "out" ~> at[o] = "out"
=============================================================================
