------------------------ MODULE BrowserManagerProofs ------------------------
(***************************************************************************)
(* Proofs that the snapshots, refusals and the end of the browser are what *)
(* BrowserManager says for any callers, addresses and policy, and however  *)
(* often documents navigate by themselves.                                 *)
(***************************************************************************)
EXTENDS BrowserManager, TLAPS

-----------------------------------------------------------------------------
(***************************************************************************)
(* The invariant.                                                          *)
(***************************************************************************)

\* A call reads the page from the end of its goto on.
Reading == {"settle", "final", "content", "shot", "title"}

\* A call before its goto is as it was made; only a goto that failed has been
\* blocked, and then the violation that tells why is still there.
CallsAreInOrder ==
  \A o \in Openers :
    /\ at[o] \in {"check", "line"} => call[o].url \in URLs
    /\ at[o] \in {"out", "check", "line"} => ~call[o].failed
    /\ call[o].blocked => at[o] = "goto" /\ call[o].failed /\ violation # "none"

\* What the page shows while a call reads it comes from that call's navigation,
\* and so does what it navigates to.
PageIsReaders ==
  \A o \in Openers : at[o] \in Reading => doc.by = o /\ (nav = NoNav \/ nav.by = o)

\* So does the content taken; if that was the error document, it is still there.
ContentIsReaders ==
  \A o \in Openers :
    at[o] \in {"shot", "title"} =>
      call[o].html.by = o /\ (call[o].html.url = ErrorPage => doc.url = ErrorPage)

\* Only a goto leads away from the error document.
ErrorPageStays == doc.url = ErrorPage => nav = NoNav \/ nav.goto

\* The page's own navigation is to a page, not to the error document.
NavigationIsToPage == \A g \in guards : g.live => g.url \in URLs

LifespanIsInOrder ==
  /\ lifespan \in {"page", "up", "closing", "stopping"} => playwright
  /\ NothingRunsAfterClose

ResultsAreGood == SnapshotIsOwn /\ ErrorPageNeverReturned /\ BlockedIsNotTransient

IInv ==
  /\ TypeOK /\ CallsAreInOrder /\ PageIsReaders /\ ContentIsReaders
  /\ ErrorPageStays /\ NavigationIsToPage /\ LifespanIsInOrder /\ ResultsAreGood

-----------------------------------------------------------------------------
(***************************************************************************)
(* The line of the lock.                                                   *)
(***************************************************************************)

\* Everybody in the line stands there once.
Once(q) == \A i, j \in DOMAIN q : q[i] = q[j] => i = j

\* Who joins is last.
LEMMA JoinLine ==
  ASSUME NEW S, NEW q \in Seq(S), NEW o \in S, Once(q), o \notin {q[i] : i \in DOMAIN q}
  PROVE  /\ Append(q, o) \in Seq(S)
         /\ Once(Append(q, o))
         /\ {Append(q, o)[i] : i \in DOMAIN Append(q, o)} = {q[i] : i \in DOMAIN q} \union {o}
         /\ q # <<>> => Append(q, o) # <<>> /\ Head(Append(q, o)) = Head(q)
<1> DEFINE r == Append(q, o)
<1>1. /\ r \in Seq(S)
      /\ DOMAIN r = 1 .. (Len(q) + 1) /\ DOMAIN q = 1 .. Len(q) /\ Len(q) \in Nat
      /\ r[Len(q) + 1] = o
      /\ \A i \in 1 .. Len(q) : r[i] = q[i]
      /\ q # <<>> => r # <<>> /\ Head(r) = Head(q)
  OBVIOUS
<1> HIDE DEF r
<1>2. Once(r)
  BY <1>1 DEF Once
<1>3. {r[i] : i \in DOMAIN r} = {q[i] : i \in DOMAIN q} \union {o}
  BY <1>1
<1> QED BY <1>1, <1>2, <1>3 DEF r

\* When the head leaves, nobody else does.
LEMMA LeaveLine ==
  ASSUME NEW S, NEW q \in Seq(S), Once(q), q # <<>>
  PROVE  /\ Tail(q) \in Seq(S)
         /\ Once(Tail(q))
         /\ {Tail(q)[i] : i \in DOMAIN Tail(q)} = {q[i] : i \in DOMAIN q} \ {Head(q)}
<1> DEFINE r == Tail(q)
<1>1. /\ r \in Seq(S)
      /\ DOMAIN r = 1 .. (Len(q) - 1) /\ DOMAIN q = 1 .. Len(q) /\ Len(q) \in Nat \ {0}
      /\ Head(q) = q[1]
      /\ \A i \in 1 .. (Len(q) - 1) : r[i] = q[i + 1]
  OBVIOUS
<1> HIDE DEF r
<1>2. Once(r)
  BY <1>1 DEF Once
<1>3. ASSUME NEW k \in DOMAIN r
      PROVE  r[k] \in {q[i] : i \in DOMAIN q} \ {Head(q)}
  <2>1. k + 1 \in DOMAIN q /\ 1 \in DOMAIN q /\ k + 1 # 1 /\ r[k] = q[k + 1]
    BY <1>1
  <2> QED BY <1>1, <2>1 DEF Once
<1>4. ASSUME NEW i \in DOMAIN q, q[i] # Head(q)
      PROVE  q[i] \in {r[k] : k \in DOMAIN r}
  <2>1. i - 1 \in DOMAIN r /\ r[i - 1] = q[i]
    BY <1>1, <1>4
  <2> QED BY <2>1
<1> QED BY <1>1, <1>2, <1>3, <1>4 DEF r

\* The page has one user.
LEMMA OneUser ==
  ASSUME TypeOK, NEW o \in Openers, NEW p \in Openers, at[o] \in OnPage,
         at[p] \in OnPage \/ Holds(p)
  PROVE  o = p
BY DEF TypeOK, Holds

-----------------------------------------------------------------------------
(***************************************************************************)
(* The policy's verdicts.                                                  *)
(***************************************************************************)

\* A verdict is "ok" or one of the refusals.
LEMMA VerdictsAreKnown ==
  ASSUME NEW url
  PROVE  /\ PageVerdicts(url) \subseteq Refusals \union {"ok"}
         /\ ResourceVerdicts(url) \subseteq Refusals \union {"ok"}
<1>1. \A host : Resolution(host) \subseteq Refusals \union {"ok"}
  BY DEF Resolution, Refusals
<1>2. ASSUME NEW verdict \in {"ok", "sign_in_required", "host_not_allowed"}
      PROVE  Verdicts(url, verdict) \subseteq Refusals \union {"ok"}
  BY <1>1 DEF Verdicts, Refusals
<1>3. /\ PageHost(url.host) \in {"ok", "sign_in_required", "host_not_allowed"}
      /\ ResourceHost(url.host) \in {"ok", "sign_in_required", "host_not_allowed"}
  BY DEF PageHost, ResourceHost
<1> QED BY <1>2, <1>3 DEF PageVerdicts, ResourceVerdicts

LEMMA NoneIsNoRefusal == "none" \notin Refusals /\ "ok" \notin Refusals
BY DEF Refusals

-----------------------------------------------------------------------------
(***************************************************************************)
(* The calls.                                                              *)
(***************************************************************************)

\* A call that ends leaves the line to the next and its own result, which has
\* to be a good one.
LEMMA ReturnKeepsIInv ==
  ASSUME IInv, NEW o \in Openers, at[o] \notin {"out", "line"},
         at[o] = "goto" => call[o].failed,
         NEW kind \in Results, NEW html \in Shown, Return(o, kind, html),
         kind = "snapshot" => html.by = o /\ html.url # ErrorPage,
         kind = "transient" => ~call[o].blocked,
         UNCHANGED <<lifespan, running, context, playwright, violation, page>>
  PROVE  IInv'
<1> USE DEF IInv, page
<1>1. /\ at' = [at EXCEPT ![o] = "out"]
      /\ call' = [call EXCEPT ![o] = NoCall]
      /\ result' = [result EXCEPT ![o] = [kind |-> kind, html |-> html,
                                                blocked |-> call[o].blocked]]
  BY DEF Return
<1>2. /\ line' \in Seq(Openers) /\ Once(line')
      /\ \A p \in Openers : InLine(p)' <=> InLine(p) /\ p # o
  <2>1. line \in Seq(Openers) /\ Once(line)
    BY DEF TypeOK, Once
  <2>2. CASE Holds(o)
    <3>1. line # <<>> /\ Head(line) = o /\ line' = Tail(line)
      BY <2>2 DEF Return, Holds
    <3>2. /\ line' \in Seq(Openers) /\ Once(line')
          /\ {line'[i] : i \in DOMAIN line'} = {line[i] : i \in DOMAIN line} \ {o}
      BY <2>1, <3>1, LeaveLine
    <3> QED BY <3>2 DEF InLine
  <2>3. CASE ~Holds(o)
    BY <2>1, <2>3 DEF Return, InLine, TypeOK, Positions, OnPage
  <2> QED BY <2>2, <2>3
<1>3. /\ NoCall \in Call /\ ~NoCall.failed /\ ~NoCall.blocked
      /\ result'[o] \in Result
  BY <1>1 DEF NoCall, Call, Addressed, BlankDoc, Shown, Result, TypeOK
<1>4. \A p \in Openers : at'[p] \in OnPage => p # o /\ at[p] \in OnPage /\ Holds(p)'
  <2> SUFFICES ASSUME NEW p \in Openers, at'[p] \in OnPage
               PROVE  p # o /\ at[p] \in OnPage /\ Holds(p)'
    OBVIOUS
  <2>1. p # o /\ at[p] = at'[p] /\ Holds(p)
    BY <1>1 DEF TypeOK, OnPage
  <2>2. ~Holds(o)
    BY <2>1, OneUser
  <2> QED BY <2>1, <2>2 DEF Return, Holds
<1>5. TypeOK'
  <2>1. nav'.goto => nav'.by \in Openers /\ at'[nav'.by] = "goto" /\ ~call'[nav'.by].failed
    BY <1>1 DEF TypeOK
  <2>2. \A p \in Openers : InLine(p)' <=> at'[p] \in OnPage \union {"line"}
    BY <1>1, <1>2 DEF TypeOK, OnPage
  <2>3. /\ at' \in [Openers -> Positions] /\ call' \in [Openers -> Call]
        /\ result' \in [Openers -> Result]
    BY <1>1, <1>3 DEF TypeOK, Positions
  <2>4. UNCHANGED <<lifespan, running, context, playwright, violation, doc, nav, guards, scripts>>
    OBVIOUS
  <2> QED BY <1>2, <1>4, <2>1, <2>2, <2>3, <2>4 DEF TypeOK, Once
<1>6. CallsAreInOrder'
  BY <1>1, <1>3 DEF CallsAreInOrder, TypeOK
<1>7. PageIsReaders' /\ ContentIsReaders'
  BY <1>1 DEF PageIsReaders, ContentIsReaders, Reading, TypeOK
<1>8. ErrorPageStays' /\ NavigationIsToPage' /\ LifespanIsInOrder'
  BY DEF ErrorPageStays, NavigationIsToPage, LifespanIsInOrder, NothingRunsAfterClose
<1>9. ResultsAreGood'
  BY <1>1 DEF ResultsAreGood, SnapshotIsOwn, ErrorPageNeverReturned, BlockedIsNotTransient, TypeOK
<1> QED BY <1>5, <1>6, <1>7, <1>8, <1>9

\* A call goes on with the page it has.
LEMMA GoOnKeepsIInv ==
  ASSUME IInv, NEW o \in Openers, at[o] \in Reading,
         NEW there \in Reading, Goto(o, there),
         NEW c \in Call, call' = [call EXCEPT ![o] = c],
         c.failed = call[o].failed, c.blocked = call[o].blocked,
         there \in {"shot", "title"} =>
           c.html.by = o /\ (c.html.url = ErrorPage => doc.url = ErrorPage),
         UNCHANGED <<lifespan, running, manager, result, page>>
  PROVE  IInv'
<1> USE DEF IInv, page, manager
<1>1. at' = [at EXCEPT ![o] = there] /\ at \in [Openers -> Positions] /\ call \in [Openers -> Call]
  BY DEF Goto, TypeOK
<1>2. /\ there \in OnPage /\ there \in Positions /\ at[o] \in OnPage
      /\ there \notin {"goto", "out", "check", "line"} /\ at[o] # "goto"
  BY DEF Reading, OnPage, Positions
<1>3. TypeOK'
  <2>1. nav'.goto => nav'.by \in Openers /\ at'[nav'.by] = "goto" /\ ~call'[nav'.by].failed
    BY <1>1, <1>2 DEF TypeOK
  <2>2. \A p \in Openers : /\ at'[p] \in OnPage => Holds(p)'
                           /\ InLine(p)' <=> at'[p] \in OnPage \union {"line"}
    BY <1>1, <1>2 DEF TypeOK, Holds, InLine
  <2>3. at' \in [Openers -> Positions] /\ call' \in [Openers -> Call]
    BY <1>1, <1>2
  <2> QED BY <2>1, <2>2, <2>3 DEF TypeOK
<1>4. CallsAreInOrder'
  BY <1>1, <1>2 DEF CallsAreInOrder
<1>5. PageIsReaders'
  BY <1>1 DEF PageIsReaders
<1>6. ContentIsReaders'
  BY <1>1 DEF ContentIsReaders
<1>7. ErrorPageStays' /\ NavigationIsToPage' /\ LifespanIsInOrder' /\ ResultsAreGood'
  BY DEF ErrorPageStays, NavigationIsToPage, LifespanIsInOrder, NothingRunsAfterClose,
         ResultsAreGood, SnapshotIsOwn, ErrorPageNeverReturned, BlockedIsNotTransient
<1> QED BY <1>3, <1>4, <1>5, <1>6, <1>7

\* open() is called: nothing but the call changes.
LEMMA OpenKeepsIInv == ASSUME IInv, NEW o \in Openers, NEW u \in URLs, Open(o, u) PROVE IInv'
<1> USE DEF IInv, page, manager
<1>1. /\ at' = [at EXCEPT ![o] = "check"] /\ at[o] = "out"
      /\ call' = [call EXCEPT ![o].url = u]
      /\ result' = [result EXCEPT ![o] = NoResult]
      /\ UNCHANGED <<lifespan, running, context, playwright, violation, line, doc, nav, guards,
                     scripts>>
  BY DEF Open, Goto
<1>2. /\ at \in [Openers -> Positions] /\ call \in [Openers -> Call]
      /\ result \in [Openers -> Result]
  BY DEF TypeOK
<1>3. call'[o] \in Call /\ call'[o].url = u /\ call'[o].failed = call[o].failed
      /\ call'[o].blocked = call[o].blocked
  BY <1>1, <1>2 DEF Call, Addressed
<1>4. \A p \in Openers : p # o => call'[p] = call[p] /\ at'[p] = at[p] /\ result'[p] = result[p]
  BY <1>1, <1>2
<1>5. NoResult \in Result /\ result'[o] = NoResult /\ at'[o] = "check"
  BY <1>1, <1>2 DEF NoResult, Result, Results, Shown, BlankDoc, Addressed
<1>6. TypeOK'
  <2>1. nav'.goto => nav'.by \in Openers /\ at'[nav'.by] = "goto" /\ ~call'[nav'.by].failed
    BY <1>1, <1>4 DEF TypeOK
  <2>2. \A p \in Openers : /\ at'[p] \in OnPage => Holds(p)'
                           /\ InLine(p)' <=> at'[p] \in OnPage \union {"line"}
    BY <1>1, <1>4, <1>5 DEF TypeOK, Holds, InLine, OnPage
  <2>3. /\ at' \in [Openers -> Positions] /\ call' \in [Openers -> Call]
        /\ result' \in [Openers -> Result]
    BY <1>1, <1>2, <1>3, <1>5 DEF Positions
  <2> QED BY <1>1, <2>1, <2>2, <2>3 DEF TypeOK
<1>7. CallsAreInOrder'
  BY <1>1, <1>3, <1>4, <1>5 DEF CallsAreInOrder
<1>8. PageIsReaders' /\ ContentIsReaders'
  BY <1>1, <1>4, <1>5 DEF PageIsReaders, ContentIsReaders, Reading
<1>9. ErrorPageStays' /\ NavigationIsToPage' /\ LifespanIsInOrder'
  BY <1>1 DEF ErrorPageStays, NavigationIsToPage, LifespanIsInOrder, NothingRunsAfterClose
<1>10. ResultsAreGood'
  BY <1>4, <1>5 DEF ResultsAreGood, SnapshotIsOwn, ErrorPageNeverReturned,
                    BlockedIsNotTransient, NoResult
<1> QED BY <1>6, <1>7, <1>8, <1>9, <1>10

\* The check lets the call into the line, or refuses it.
LEMMA CheckedKeepsIInv == ASSUME IInv, NEW o \in Openers, Checked(o) PROVE IInv'
<1>1. CASE Raise(o, "refused")
  <2>1. BlankDoc \in Shown /\ "refused" \in Results
    BY DEF BlankDoc, Shown, Addressed, Results
  <2> QED BY <1>1, <2>1, ReturnKeepsIInv DEF Checked, Raise
<1>2. CASE /\ Goto(o, "line") /\ line' = Append(line, o)
           /\ UNCHANGED <<context, playwright, violation, call, result>>
  <2> USE DEF IInv
  <2>1. /\ at' = [at EXCEPT ![o] = "line"] /\ at[o] = "check"
        /\ UNCHANGED <<lifespan, running, context, playwright, violation, call, result, doc, nav,
                       guards, scripts>>
    BY <1>2 DEF Checked, Goto, page
  <2>2. at \in [Openers -> Positions] /\ line \in Seq(Openers) /\ Once(line) /\ ~InLine(o)
    BY <2>1 DEF TypeOK, Once, OnPage
  <2>3. \A p \in Openers : p # o => at'[p] = at[p]
    BY <2>1, <2>2
  <2>4. at'[o] = "line"
    BY <2>1, <2>2
  <2>5. /\ line' \in Seq(Openers) /\ Once(line')
        /\ {line'[i] : i \in DOMAIN line'} = {line[i] : i \in DOMAIN line} \union {o}
        /\ line # <<>> => line' # <<>> /\ Head(line') = Head(line)
    BY <1>2, <2>2, JoinLine DEF InLine
  <2>6. TypeOK'
    <3>1. nav'.goto => nav'.by \in Openers /\ at'[nav'.by] = "goto" /\ ~call'[nav'.by].failed
      BY <2>1, <2>3 DEF TypeOK
    <3>2. \A p \in Openers : InLine(p)' <=> InLine(p) \/ p = o
      BY <2>5 DEF InLine
    <3>3. \A p \in Openers : /\ at'[p] \in OnPage => Holds(p)'
                             /\ InLine(p)' <=> at'[p] \in OnPage \union {"line"}
      BY <2>3, <2>4, <2>5, <3>2 DEF TypeOK, Holds, OnPage
    <3>4. at' \in [Openers -> Positions]
      BY <2>1, <2>2 DEF Positions
    <3> QED BY <2>1, <2>5, <3>1, <3>3, <3>4 DEF TypeOK, Once
  <2>7. CallsAreInOrder'
    BY <2>1, <2>3, <2>4 DEF CallsAreInOrder
  <2>8. PageIsReaders' /\ ContentIsReaders'
    BY <2>1, <2>3, <2>4 DEF PageIsReaders, ContentIsReaders, Reading
  <2>9. ErrorPageStays' /\ NavigationIsToPage' /\ LifespanIsInOrder' /\ ResultsAreGood'
    BY <2>1 DEF ErrorPageStays, NavigationIsToPage, LifespanIsInOrder, NothingRunsAfterClose,
                ResultsAreGood, SnapshotIsOwn, ErrorPageNeverReturned, BlockedIsNotTransient
  <2> QED BY <2>6, <2>7, <2>8, <2>9
<1> QED BY <1>1, <1>2 DEF Checked

\* Nobody reads the page or waits for a goto when the head of the line begins.
LEMMA PageIsFree ==
  ASSUME IInv, NEW o \in Openers, at[o] = "line", Holds(o)
  PROVE  /\ \A p \in Openers : at[p] \notin OnPage
         /\ ~nav.goto /\ \A p \in Openers : ~call[p].blocked
<1>1. ASSUME NEW p \in Openers, at[p] \in OnPage PROVE FALSE
  <2>1. p = o
    BY <1>1, OneUser DEF IInv
  <2> QED BY <1>1, <2>1 DEF OnPage
<1> QED BY <1>1 DEF IInv, TypeOK, CallsAreInOrder, OnPage

\* The guards of an earlier navigation and a new one's.
LEMMA RequestsAreGuards ==
  ASSUME guards \subseteq Requested
  PROVE  /\ Superseded \subseteq Requested /\ \A g \in Superseded : ~g.live
         /\ \A u \in URLs : /\ Request(u) \subseteq Requested
                            /\ \A g \in Request(u) :
                                 g.live => g = [url |-> u, main |-> TRUE, live |-> TRUE]
<1>1. ASSUME NEW g \in guards
      PROVE  [g EXCEPT !.live = FALSE] \in Requested /\ ~[g EXCEPT !.live = FALSE].live
  BY <1>1 DEF Requested
<1>2. Superseded \subseteq Requested /\ \A g \in Superseded : ~g.live
  BY <1>1 DEF Superseded
<1>3. ASSUME NEW u \in URLs
      PROVE  /\ Request(u) \subseteq Requested
             /\ \A g \in Request(u) : g.live => g = [url |-> u, main |-> TRUE, live |-> TRUE]
  <2> DEFINE new == [url |-> u, main |-> TRUE, live |-> TRUE]
  <2>1. new \in Requested
    BY DEF Requested
  <2>2. Request(u) = Superseded \union {new}
    BY DEF Request
  <2> HIDE DEF new
  <2>3. /\ Request(u) \subseteq Requested
        /\ \A g \in Request(u) : g.live => g = new
    BY <1>2, <2>1, <2>2
  <2> QED BY <2>3 DEF new
<1> QED BY <1>2, <1>3

\* A goto begins, or fails at once because Chromium is gone.
LEMMA NavigateKeepsIInv == ASSUME IInv, NEW o \in Openers, Navigate(o) PROVE IInv'
<1> USE DEF IInv
<1>1. /\ at' = [at EXCEPT ![o] = "goto"] /\ at[o] = "line" /\ Holds(o)
      /\ violation' = "none" /\ doc' = [doc EXCEPT !.by = NoOne]
      /\ UNCHANGED <<lifespan, running, context, playwright, line, result, scripts>>
  BY DEF Navigate, Goto
<1>2. /\ at \in [Openers -> Positions] /\ call \in [Openers -> Call] /\ guards \subseteq Requested
      /\ doc' \in Shown /\ doc'.url = doc.url /\ call[o].url \in URLs
  BY <1>1 DEF TypeOK, CallsAreInOrder, Shown
<1>3. /\ \A p \in Openers : at[p] \notin OnPage
      /\ ~nav.goto /\ \A p \in Openers : ~call[p].blocked
  BY <1>1, PageIsFree
<1>4. at'[o] = "goto" /\ \A p \in Openers : p # o => at'[p] = at[p]
  BY <1>1, <1>2
<1>5. /\ call' \in [Openers -> Call] /\ nav' \in Nav /\ guards' \subseteq Requested
      /\ \A p \in Openers : p # o => call'[p] = call[p]
      /\ \A p \in Openers : ~call'[p].blocked
      /\ nav'.goto => nav'.by = o /\ ~call'[o].failed
      /\ nav' = nav \/ nav'.goto
      /\ \A g \in guards' : /\ g.live => g.main /\ nav'.url = g.url /\ ~nav'.passed
                            /\ g.live => g.url \in URLs
      /\ \A g, h \in guards' : g.live /\ h.live => g = h
  <2>1. CASE Alive
    <3>1. /\ nav' = [url |-> call[o].url, by |-> o, goto |-> TRUE, passed |-> FALSE]
          /\ guards' = Request(call[o].url) /\ call' = call
      BY <2>1 DEF Navigate
    <3>2. nav' \in Nav /\ nav'.url = call[o].url /\ nav'.goto /\ nav'.by = o /\ ~nav'.passed
      BY <1>2, <3>1 DEF Nav, Addressed
    <3>3. ~call[o].failed
      BY <1>1 DEF CallsAreInOrder
    <3>4. /\ guards' \subseteq Requested
          /\ \A g \in guards' :
               g.live => g = [url |-> call[o].url, main |-> TRUE, live |-> TRUE]
      BY <1>2, <3>1, RequestsAreGuards
    <3>5. \A g \in guards' : g.live => g.main /\ g.url = call[o].url
      BY <3>4
    <3>6. \A g, h \in guards' : g.live /\ h.live => g = h
      BY <3>4
    <3> QED BY <1>2, <1>3, <3>1, <3>2, <3>3, <3>4, <3>5, <3>6
  <2>2. CASE ~Alive
    <3>1. call' = [call EXCEPT ![o].failed = TRUE] /\ UNCHANGED <<nav, guards>>
      BY <2>2 DEF Navigate
    <3>2. call'[o] \in Call /\ call'[o].blocked = call[o].blocked
      BY <1>2, <3>1 DEF Call
    <3>3. call' \in [Openers -> Call] /\ \A p \in Openers : p # o => call'[p] = call[p]
      BY <1>2, <3>1, <3>2
    <3> QED BY <1>2, <1>3, <3>1, <3>2, <3>3 DEF TypeOK, NavigationIsToPage
  <2> QED BY <2>1, <2>2
<1>6. TypeOK'
  <2>1. nav'.goto => nav'.by \in Openers /\ at'[nav'.by] = "goto" /\ ~call'[nav'.by].failed
    BY <1>4, <1>5
  <2>2. \A p \in Openers : /\ at'[p] \in OnPage => Holds(p)'
                           /\ InLine(p)' <=> at'[p] \in OnPage \union {"line"}
    BY <1>1, <1>3, <1>4 DEF TypeOK, Holds, InLine, OnPage
  <2>3. at' \in [Openers -> Positions]
    BY <1>1, <1>2 DEF Positions
  <2> QED BY <1>1, <1>2, <1>5, <2>1, <2>2, <2>3 DEF TypeOK
<1>7. CallsAreInOrder'
  BY <1>4, <1>5 DEF CallsAreInOrder
<1>8. PageIsReaders' /\ ContentIsReaders'
  BY <1>3, <1>4 DEF PageIsReaders, ContentIsReaders, Reading, OnPage
<1>9. ErrorPageStays' /\ NavigationIsToPage' /\ LifespanIsInOrder' /\ ResultsAreGood'
  BY <1>1, <1>2, <1>5 DEF ErrorPageStays, NavigationIsToPage, LifespanIsInOrder,
     NothingRunsAfterClose, ResultsAreGood, SnapshotIsOwn, ErrorPageNeverReturned,
     BlockedIsNotTransient
<1> QED BY <1>6, <1>7, <1>8, <1>9

\* A goto that was blocked still finds the violation.
LEMMA GotoFailsKeepsIInv == ASSUME IInv, NEW o \in Openers, GotoFails(o) PROVE IInv'
<1> DEFINE kind == IF violation = "none" THEN "transient" ELSE "refused"
<1>1. BlankDoc \in Shown /\ kind \in Results
  BY DEF BlankDoc, Shown, Addressed, Results
<1>2. kind = "transient" => ~call[o].blocked
  BY DEF IInv, CallsAreInOrder
<1>3. /\ at[o] = "goto" /\ call[o].failed /\ Return(o, kind, BlankDoc)
      /\ UNCHANGED <<lifespan, running, context, playwright, violation, page>>
  BY DEF GotoFails
<1> HIDE DEF kind
<1>4. kind # "snapshot"
  BY DEF kind
<1> QED BY <1>1, <1>2, <1>3, <1>4, ReturnKeepsIInv

\* A refusal or an error while the page is read ends the call.
LEMMA RaiseKeepsIInv ==
  ASSUME IInv, NEW o \in Openers, at[o] \in Reading, NEW kind \in {"refused", "error"},
         Raise(o, kind), UNCHANGED <<lifespan, running, page>>
  PROVE  IInv'
<1>1. BlankDoc \in Shown /\ kind \in Results /\ kind \notin {"snapshot", "transient"}
  BY DEF BlankDoc, Shown, Addressed, Results
<1>2. at[o] \notin {"out", "line", "goto"}
  BY DEF Reading
<1> QED BY <1>1, <1>2, ReturnKeepsIInv DEF Raise

\* The reads of the page, up to the title.
LEMMA ReadsKeepIInv ==
  ASSUME IInv, NEW o \in Openers,
         Settled(o) \/ FinalChecked(o) \/ Content(o) \/ Screenshot(o)
  PROVE  IInv'
<1>1. call \in [Openers -> Call] /\ doc \in Shown /\ call[o] \in Call
  BY DEF IInv, TypeOK
<1>2. CASE Settled(o)
  <2>1. CASE Raise(o, "refused")
    BY <1>2, <2>1, RaiseKeepsIInv DEF Settled, Reading
  <2>2. CASE /\ Goto(o, "final") /\ call' = [call EXCEPT ![o].seen = doc.url]
             /\ UNCHANGED <<manager, result>>
    <3> DEFINE c == [call[o] EXCEPT !.seen = doc.url]
    <3>1. c \in Call /\ c.failed = call[o].failed /\ c.blocked = call[o].blocked
      BY <1>1 DEF Call, Shown
    <3>2. call' = [call EXCEPT ![o] = c]
      BY <1>1, <2>2
    <3> HIDE DEF c
    <3> QED BY <1>2, <2>2, <3>1, <3>2, GoOnKeepsIInv DEF Settled, Reading
  <2> QED BY <1>2, <2>1, <2>2 DEF Settled
<1>3. CASE FinalChecked(o)
  <2>1. CASE Raise(o, "refused")
    BY <1>3, <2>1, RaiseKeepsIInv DEF FinalChecked, Reading
  <2>2. CASE Goto(o, "content") /\ UNCHANGED <<manager, call, result>>
    <3>1. call' = [call EXCEPT ![o] = call[o]]
      BY <1>1, <2>2
    <3> QED BY <1>1, <1>3, <2>2, <3>1, GoOnKeepsIInv DEF FinalChecked, Reading
  <2> QED BY <1>3, <2>1, <2>2 DEF FinalChecked
<1>4. CASE Content(o)
  <2>1. CASE Raise(o, "error")
    BY <1>4, <2>1, RaiseKeepsIInv DEF Content, Reading
  <2>2. ASSUME NEW there \in {"shot", "title"}, Goto(o, there),
               call' = [call EXCEPT ![o].html = doc, ![o].seen = doc.url],
               UNCHANGED <<manager, result>>
        PROVE  IInv'
    <3> DEFINE c == [call[o] EXCEPT !.html = doc, !.seen = doc.url]
    <3>1. /\ c \in Call /\ c.failed = call[o].failed /\ c.blocked = call[o].blocked
          /\ c.html = doc
      BY <1>1 DEF Call, Shown
    <3>2. call' = [call EXCEPT ![o] = c]
      BY <1>1, <2>2
    <3>3. at[o] \in Reading /\ doc.by = o /\ UNCHANGED <<lifespan, running, page>>
      BY <1>4 DEF Content, Reading, IInv, PageIsReaders
    <3>4. there \in Reading
      BY DEF Reading
    <3> HIDE DEF c
    <3> QED BY <2>2, <3>1, <3>2, <3>3, <3>4, GoOnKeepsIInv
  <2> QED BY <1>4, <2>1, <2>2 DEF Content
<1>5. CASE Screenshot(o)
  <2>1. CASE Raise(o, "error")
    BY <1>5, <2>1, RaiseKeepsIInv DEF Screenshot, Reading
  <2>2. CASE Goto(o, "title") /\ UNCHANGED <<manager, call, result>>
    <3>1. call' = [call EXCEPT ![o] = call[o]]
      BY <1>1, <2>2
    <3>2. call[o].html.by = o /\ (call[o].html.url = ErrorPage => doc.url = ErrorPage)
      BY <1>5 DEF Screenshot, IInv, ContentIsReaders
    <3> QED BY <1>1, <1>5, <2>2, <3>1, <3>2, GoOnKeepsIInv DEF Screenshot, Reading
  <2> QED BY <1>5, <2>1, <2>2 DEF Screenshot
<1> QED BY <1>2, <1>3, <1>4, <1>5

\* The address is read after the content: the content is no error document.
LEMMA TitledKeepsIInv == ASSUME IInv, NEW o \in Openers, Titled(o) PROVE IInv'
<1>1. /\ at[o] = "title"
      /\ UNCHANGED <<lifespan, running, context, playwright, violation, page>>
  BY DEF Titled
<1>2. CASE Return(o, "error", BlankDoc)
  <2>1. BlankDoc \in Shown /\ "error" \in Results
    BY DEF BlankDoc, Shown, Addressed, Results
  <2> QED BY <1>1, <1>2, <2>1, ReturnKeepsIInv
<1>3. CASE doc.url # ErrorPage /\ Return(o, "snapshot", call[o].html)
  <2>1. call[o].html \in Shown /\ "snapshot" \in Results
    BY DEF IInv, TypeOK, Call, Results
  <2>2. call[o].html.by = o /\ call[o].html.url # ErrorPage
    BY <1>1, <1>3 DEF IInv, ContentIsReaders
  <2> QED BY <1>1, <1>3, <2>1, <2>2, ReturnKeepsIInv
<1> QED BY <1>2, <1>3 DEF Titled

-----------------------------------------------------------------------------
(***************************************************************************)
(* The page.                                                               *)
(***************************************************************************)

\* A page that does not let a goto finish leaves the calls where they are.
LEMMA PageStepKeepsIInv ==
  ASSUME IInv, UNCHANGED <<context, playwright, line, at, result>>,
         lifespan' \in Lifespans, running' \subseteq {"driver", "chromium"},
         "chromium" \in running' => "driver" \in running', LifespanIsInOrder',
         violation' \in Refusals \union {"none"},
         call' \in [Openers -> Call],
         \A o \in Openers :
           /\ call'[o].url = call[o].url /\ call'[o].html = call[o].html
           /\ call'[o].failed => call[o].failed \/ at[o] = "goto"
           /\ call'[o].blocked => at[o] = "goto" /\ call'[o].failed /\ violation' # "none",
         nav' \in Nav, nav'.goto => nav.goto /\ nav'.by = nav.by /\ call' = call,
         doc' \in Shown, doc.url = ErrorPage => doc'.url = ErrorPage, ErrorPageStays',
         PageIsReaders', scripts' \in 0 .. MaxScripts,
         guards' \subseteq Requested,
         \A g \in guards' :
           g.live => g.main /\ nav'.url = g.url /\ ~nav'.passed /\ g.url \in URLs,
         \A g, h \in guards' : g.live /\ h.live => g = h
  PROVE  IInv'
<1> USE DEF IInv
<1>1. TypeOK'
  <2>1. nav'.goto => nav'.by \in Openers /\ at'[nav'.by] = "goto" /\ ~call'[nav'.by].failed
    BY DEF TypeOK
  <2>2. \A o \in Openers : /\ at'[o] \in OnPage => Holds(o)'
                           /\ InLine(o)' <=> at'[o] \in OnPage \union {"line"}
    BY DEF TypeOK, Holds, InLine
  <2> QED BY <2>1, <2>2 DEF TypeOK
<1>2. CallsAreInOrder'
  BY DEF CallsAreInOrder
<1>3. ContentIsReaders'
  BY DEF ContentIsReaders
<1>4. NavigationIsToPage'
  BY DEF NavigationIsToPage
<1>5. ResultsAreGood'
  BY DEF ResultsAreGood, SnapshotIsOwn, ErrorPageNeverReturned, BlockedIsNotTransient
<1> QED BY <1>1, <1>2, <1>3, <1>4, <1>5

\* Only the call that waits for a goto learns that it failed.
LEMMA FailGotoFacts ==
  ASSUME IInv, NEW b \in BOOLEAN, FailGoto(b), b => violation' # "none",
         violation' = violation \/ violation' # "none"
  PROVE  /\ call' \in [Openers -> Call]
         /\ \A o \in Openers :
              /\ call'[o].url = call[o].url /\ call'[o].html = call[o].html
              /\ call'[o].failed => call[o].failed \/ at[o] = "goto"
              /\ call'[o].blocked => at[o] = "goto" /\ call'[o].failed /\ violation' # "none"
<1>1. CASE ~nav.goto
  BY <1>1 DEF FailGoto, IInv, TypeOK, CallsAreInOrder
<1>2. CASE nav.goto
  <2> DEFINE o == nav.by
             c == [call[o] EXCEPT !.failed = TRUE, !.blocked = b]
  <2>1. o \in Openers /\ at[o] = "goto" /\ call \in [Openers -> Call]
    BY <1>2 DEF IInv, TypeOK
  <2>2. c \in Call /\ c.url = call[o].url /\ c.html = call[o].html /\ c.failed /\ c.blocked = b
    BY <2>1 DEF Call
  <2>3. call' = [call EXCEPT ![o] = c]
    BY <1>2, <2>1 DEF FailGoto
  <2> HIDE DEF c, o
  <2>4. call' \in [Openers -> Call] /\ call'[o] = c
        /\ \A p \in Openers : p # o => call'[p] = call[p]
    BY <2>1, <2>2, <2>3
  <2> QED BY <2>1, <2>2, <2>4 DEF IInv, CallsAreInOrder
<1> QED BY <1>1, <1>2

LEMMA NoNavFacts == NoNav \in Nav /\ ~NoNav.goto /\ ~NoNav.passed /\ NoNav.url = ErrorPage
BY DEF NoNav, Nav, Addressed

\* Chromium is closed under the page.
LEMMA ContextClosedKeepsIInv == ASSUME IInv, ContextClosed PROVE IInv'
<1>0. /\ lifespan = "closing" /\ lifespan' = "stopping" /\ running' = running \ {"chromium"}
      /\ nav' = NoNav /\ guards' = Superseded /\ FailGoto(FALSE)
      /\ UNCHANGED <<context, playwright, violation, line, at, result, doc, scripts>>
  BY DEF ContextClosed, manager
<1>1. guards' \subseteq Requested /\ \A g \in guards' : ~g.live
  BY <1>0, RequestsAreGuards DEF IInv, TypeOK
<1>2. PageIsReaders'
  BY <1>0 DEF IInv, PageIsReaders
<1>3. LifespanIsInOrder' /\ ErrorPageStays'
  BY <1>0 DEF IInv, LifespanIsInOrder, NothingRunsAfterClose, ErrorPageStays
<1>4. /\ call' \in [Openers -> Call]
      /\ \A o \in Openers :
           /\ call'[o].url = call[o].url /\ call'[o].html = call[o].html
           /\ call'[o].failed => call[o].failed \/ at[o] = "goto"
           /\ call'[o].blocked => at[o] = "goto" /\ call'[o].failed /\ violation' # "none"
  BY <1>0, FailGotoFacts
<1>5. /\ lifespan' \in Lifespans /\ running' \subseteq {"driver", "chromium"}
      /\ "chromium" \notin running' /\ doc' \in Shown
      /\ scripts' \in 0 .. MaxScripts /\ violation' \in Refusals \union {"none"}
  BY <1>0 DEF IInv, TypeOK, Lifespans
<1> QED BY <1>0, <1>1, <1>2, <1>3, <1>4, <1>5, NoNavFacts, PageStepKeepsIInv

\* The navigation fails: the error document comes of it.
LEMMA LoadFailsKeepsIInv == ASSUME IInv, LoadFails PROVE IInv'
<1>0. /\ nav # NoNav /\ doc' = [url |-> ErrorPage, by |-> nav.by]
      /\ nav' = NoNav /\ guards' = Superseded /\ FailGoto(FALSE)
      /\ UNCHANGED <<lifespan, running, context, playwright, violation, line, at, result, scripts>>
  BY DEF LoadFails, manager
<1>1. guards' \subseteq Requested /\ \A g \in guards' : ~g.live
  BY <1>0, RequestsAreGuards DEF IInv, TypeOK
<1>2. doc' \in Shown /\ doc'.url = ErrorPage /\ doc'.by = nav.by
  BY <1>0 DEF IInv, TypeOK, Nav, Shown, Addressed
<1>3. PageIsReaders'
  BY <1>0, <1>2 DEF IInv, PageIsReaders
<1>4. LifespanIsInOrder' /\ ErrorPageStays'
  BY <1>0 DEF IInv, LifespanIsInOrder, NothingRunsAfterClose, ErrorPageStays
<1>5. /\ call' \in [Openers -> Call]
      /\ \A o \in Openers :
           /\ call'[o].url = call[o].url /\ call'[o].html = call[o].html
           /\ call'[o].failed => call[o].failed \/ at[o] = "goto"
           /\ call'[o].blocked => at[o] = "goto" /\ call'[o].failed /\ violation' # "none"
  BY <1>0, FailGotoFacts
<1>6. /\ lifespan' \in Lifespans /\ running' \subseteq {"driver", "chromium"}
      /\ ("chromium" \in running' => "driver" \in running')
      /\ scripts' \in 0 .. MaxScripts /\ violation' \in Refusals \union {"none"}
  BY <1>0 DEF IInv, TypeOK
<1> QED BY <1>0, <1>1, <1>2, <1>3, <1>4, <1>5, <1>6, NoNavFacts, PageStepKeepsIInv

\* A document sends the page elsewhere.
LEMMA ScriptNavigatesKeepsIInv ==
  ASSUME IInv, NEW u \in URLs, ScriptNavigates(u) PROVE IInv'
<1>0. /\ doc.url # ErrorPage /\ scripts < MaxScripts /\ scripts' = scripts + 1
      /\ nav' = [url |-> u, by |-> doc.by, goto |-> FALSE, passed |-> FALSE]
      /\ guards' = Request(u) /\ FailGoto(FALSE)
      /\ UNCHANGED <<lifespan, running, context, playwright, violation, line, at, result, doc>>
  BY DEF ScriptNavigates, ByScript, manager
<1>1. /\ nav' \in Nav /\ nav'.url = u /\ nav'.by = doc.by /\ ~nav'.goto /\ ~nav'.passed
      /\ doc' \in Shown
  BY <1>0 DEF IInv, TypeOK, Nav, Shown, Addressed
<1>2. /\ guards' \subseteq Requested
      /\ \A g \in guards' : g.live => g = [url |-> u, main |-> TRUE, live |-> TRUE]
  BY <1>0, RequestsAreGuards DEF IInv, TypeOK
<1>3. PageIsReaders'
  BY <1>0, <1>1 DEF IInv, PageIsReaders
<1>4. LifespanIsInOrder' /\ ErrorPageStays'
  BY <1>0 DEF IInv, LifespanIsInOrder, NothingRunsAfterClose, ErrorPageStays
<1>5. /\ call' \in [Openers -> Call]
      /\ \A o \in Openers :
           /\ call'[o].url = call[o].url /\ call'[o].html = call[o].html
           /\ call'[o].failed => call[o].failed \/ at[o] = "goto"
           /\ call'[o].blocked => at[o] = "goto" /\ call'[o].failed /\ violation' # "none"
  BY <1>0, FailGotoFacts
<1>6. /\ lifespan' \in Lifespans /\ running' \subseteq {"driver", "chromium"}
      /\ ("chromium" \in running' => "driver" \in running')
      /\ violation' \in Refusals \union {"none"}
  BY <1>0 DEF IInv, TypeOK
<1>7. scripts' \in 0 .. MaxScripts
  BY <1>0, MaxScriptsAssumption DEF IInv, TypeOK
<1>8. /\ \A g \in guards' :
           g.live => g.main /\ nav'.url = g.url /\ ~nav'.passed /\ g.url \in URLs
      /\ \A g, h \in guards' : g.live /\ h.live => g = h
  <2>1. \A g \in guards' : g.live => g.main /\ g.url = u
    BY <1>2
  <2> QED BY <1>1, <1>2, <2>1
<1> QED BY <1>0, <1>1, <1>2, <1>3, <1>4, <1>5, <1>6, <1>7, <1>8, PageStepKeepsIInv

\* A document loads something.
LEMMA ScriptLoadsKeepsIInv ==
  ASSUME IInv, NEW u \in Resources, ScriptLoads(u) PROVE IInv'
<1>0. /\ scripts < MaxScripts /\ scripts' = scripts + 1
      /\ guards' = guards \union {[url |-> u, main |-> FALSE, live |-> FALSE]}
      /\ UNCHANGED <<lifespan, running, context, playwright, violation, line, at, call, result,
                     doc, nav>>
  BY DEF ScriptLoads, ByScript, manager
<1>1. [url |-> u, main |-> FALSE, live |-> FALSE] \in Requested
  BY <1>0 DEF Requested
<1>2. /\ guards \subseteq Requested /\ guards' \subseteq Requested
      /\ \A g \in guards' : g.live => g \in guards
  <2> DEFINE new == [url |-> u, main |-> FALSE, live |-> FALSE]
  <2>1. new \in Requested /\ ~new.live /\ guards' = guards \union {new}
    BY <1>0, <1>1
  <2> HIDE DEF new
  <2> QED BY <2>1 DEF IInv, TypeOK
<1>3. scripts' \in 0 .. MaxScripts
  BY <1>0, MaxScriptsAssumption DEF IInv, TypeOK
<1>4. PageIsReaders' /\ LifespanIsInOrder' /\ ErrorPageStays'
  BY <1>0 DEF IInv, PageIsReaders, LifespanIsInOrder, NothingRunsAfterClose, ErrorPageStays
<1>5. /\ \A g \in guards' :
           g.live => g.main /\ nav'.url = g.url /\ ~nav'.passed /\ g.url \in URLs
      /\ \A g, h \in guards' : g.live /\ h.live => g = h
  BY <1>0, <1>2 DEF IInv, TypeOK, NavigationIsToPage
<1>6. /\ lifespan' \in Lifespans /\ running' \subseteq {"driver", "chromium"}
      /\ ("chromium" \in running' => "driver" \in running')
      /\ violation' \in Refusals \union {"none"} /\ call' \in [Openers -> Call]
      /\ nav' \in Nav /\ doc' \in Shown
  BY <1>0 DEF IInv, TypeOK
<1>7. \A o \in Openers : call'[o].blocked => at[o] = "goto" /\ call'[o].failed /\ violation' # "none"
  BY <1>0 DEF IInv, CallsAreInOrder
<1> QED BY <1>0, <1>2, <1>3, <1>4, <1>5, <1>6, <1>7, PageStepKeepsIInv

\* A guard that blocks the page's own navigation ends it, after it has told why;
\* any other only records its verdict or does nothing.
LEMMA GuardBlocksKeepsIInv ==
  ASSUME IInv, NEW g \in guards, GuardBlocks(g) PROVE IInv'
<1>1. /\ guards' = guards \ {g}
      /\ UNCHANGED <<lifespan, running, context, playwright, line, at, result, scripts>>
  BY DEF GuardBlocks
<1>2. /\ violation' \in Refusals \union {"none"}
      /\ violation' = violation \/ violation' # "none"
      /\ g.main => violation' # "none"
  <2>1. PICK v \in Refusals : Record(g, v)
    BY VerdictsAreKnown DEF GuardBlocks
  <2>2. violation \in Refusals \union {"none"}
    BY DEF IInv, TypeOK
  <2> QED BY <2>1, <2>2, NoneIsNoRefusal DEF Record
<1>3. /\ lifespan' \in Lifespans /\ running' \subseteq {"driver", "chromium"}
      /\ ("chromium" \in running' => "driver" \in running')
      /\ scripts' \in 0 .. MaxScripts /\ guards' \subseteq Requested
      /\ LifespanIsInOrder'
  BY <1>1 DEF IInv, TypeOK, LifespanIsInOrder, NothingRunsAfterClose
<1>4. CASE g.live
  <2>1. /\ doc' = [url |-> ErrorPage, by |-> nav.by] /\ nav' = NoNav /\ FailGoto(TRUE)
    BY <1>4 DEF GuardBlocks
  <2>2. /\ g.main /\ nav.url = g.url /\ g.url \in URLs
        /\ \A h \in guards' : ~h.live
    BY <1>1, <1>4 DEF IInv, TypeOK, NavigationIsToPage
  <2>3. nav # NoNav
    BY <2>2, NoNavFacts, ErrorPageAssumption
  <2>4. doc' \in Shown /\ doc'.url = ErrorPage /\ doc'.by = nav.by
    BY <2>1 DEF IInv, TypeOK, Nav, Shown, Addressed
  <2>5. PageIsReaders' /\ ErrorPageStays'
    BY <1>1, <2>1, <2>3, <2>4 DEF IInv, PageIsReaders, ErrorPageStays
  <2>6. /\ call' \in [Openers -> Call]
        /\ \A o \in Openers :
             /\ call'[o].url = call[o].url /\ call'[o].html = call[o].html
             /\ call'[o].failed => call[o].failed \/ at[o] = "goto"
             /\ call'[o].blocked => at[o] = "goto" /\ call'[o].failed /\ violation' # "none"
    BY <1>2, <2>1, <2>2, FailGotoFacts
  <2> QED BY <1>1, <1>2, <1>3, <2>1, <2>2, <2>4, <2>5, <2>6, NoNavFacts, PageStepKeepsIInv
<1>5. CASE ~g.live
  <2>1. UNCHANGED <<doc, nav, call>>
    BY <1>5 DEF GuardBlocks
  <2>2. /\ \A h \in guards' :
             h.live => h.main /\ nav'.url = h.url /\ ~nav'.passed /\ h.url \in URLs
        /\ \A h, k \in guards' : h.live /\ k.live => h = k
    BY <1>1, <2>1 DEF IInv, TypeOK, NavigationIsToPage
  <2>3. call' \in [Openers -> Call] /\ nav' \in Nav /\ doc' \in Shown
    BY <2>1 DEF IInv, TypeOK
  <2>4. \A o \in Openers :
          call'[o].blocked => at[o] = "goto" /\ call'[o].failed /\ violation' # "none"
    BY <1>2, <2>1 DEF IInv, CallsAreInOrder
  <2>5. PageIsReaders' /\ ErrorPageStays'
    BY <1>1, <2>1 DEF IInv, PageIsReaders, ErrorPageStays
  <2> QED BY <1>1, <1>2, <1>3, <2>1, <2>2, <2>3, <2>4, <2>5, PageStepKeepsIInv
<1> QED BY <1>4, <1>5

\* A guard that lets its request pass.
LEMMA GuardPassesKeepsIInv ==
  ASSUME IInv, NEW g \in guards, GuardPasses(g) PROVE IInv'
<1>1. /\ guards' = guards \ {g}
      /\ nav' = IF g.live THEN [nav EXCEPT !.passed = TRUE] ELSE nav
      /\ UNCHANGED <<lifespan, running, context, playwright, violation, line, at, call, result,
                     doc, scripts>>
  BY DEF GuardPasses, manager
<1>2. nav' \in Nav /\ nav'.url = nav.url /\ nav'.by = nav.by /\ nav'.goto = nav.goto
  BY <1>1 DEF IInv, TypeOK, Nav
<1>3. nav = NoNav => nav' = NoNav
  <2>1. g.live => nav # NoNav
    BY NoNavFacts, ErrorPageAssumption DEF IInv, TypeOK, NavigationIsToPage
  <2> QED BY <1>1, <2>1
<1>4. /\ \A h \in guards' :
           h.live => h.main /\ nav'.url = h.url /\ ~nav'.passed /\ h.url \in URLs
      /\ \A h, k \in guards' : h.live /\ k.live => h = k
  <2>1. CASE g.live
    BY <1>1, <2>1 DEF IInv, TypeOK
  <2>2. CASE ~g.live
    BY <1>1, <2>2 DEF IInv, TypeOK, NavigationIsToPage
  <2> QED BY <2>1, <2>2
<1>5. PageIsReaders' /\ ErrorPageStays' /\ LifespanIsInOrder'
  BY <1>1, <1>2, <1>3 DEF IInv, PageIsReaders, ErrorPageStays, LifespanIsInOrder,
                          NothingRunsAfterClose
<1>6. /\ lifespan' \in Lifespans /\ running' \subseteq {"driver", "chromium"}
      /\ ("chromium" \in running' => "driver" \in running')
      /\ scripts' \in 0 .. MaxScripts /\ guards' \subseteq Requested
      /\ violation' \in Refusals \union {"none"}
      /\ call' \in [Openers -> Call] /\ doc' \in Shown
  BY <1>1 DEF IInv, TypeOK
<1>7. \A o \in Openers :
        call'[o].blocked => at[o] = "goto" /\ call'[o].failed /\ violation' # "none"
  BY <1>1 DEF IInv, CallsAreInOrder
<1> QED BY <1>1, <1>2, <1>4, <1>5, <1>6, <1>7, PageStepKeepsIInv

\* The document a call waits for arrives: the page is the call's own.
LEMMA LoadKeepsIInv == ASSUME IInv, Load PROVE IInv'
<1> USE DEF IInv
<1>1. /\ nav.passed /\ nav' = NoNav
      /\ UNCHANGED <<lifespan, running, context, playwright, violation, line, call, result,
                     guards, scripts>>
  BY DEF Load, manager
<1>2. doc' \in Shown /\ doc'.by = nav.by
  <2>1. PICK u \in {nav.url} \union (URLs \ {nav.url}) : doc' = [url |-> u, by |-> nav.by]
    BY DEF Load
  <2> QED BY <2>1 DEF TypeOK, Nav, Shown, Addressed
<1>3. nav # NoNav /\ \A g \in guards : ~g.live
  BY <1>1, NoNavFacts DEF TypeOK
<1>4. CASE ~nav.goto
  <2>1. UNCHANGED at
    BY <1>4 DEF Load
  <2>2. doc.url # ErrorPage
    BY <1>3, <1>4 DEF ErrorPageStays
  <2>3. PageIsReaders' /\ ErrorPageStays' /\ LifespanIsInOrder'
    BY <1>1, <1>2, <1>3, <2>1 DEF PageIsReaders, ErrorPageStays, LifespanIsInOrder,
                                  NothingRunsAfterClose
  <2>4. /\ lifespan' \in Lifespans /\ running' \subseteq {"driver", "chromium"}
        /\ ("chromium" \in running' => "driver" \in running')
        /\ scripts' \in 0 .. MaxScripts /\ guards' \subseteq Requested
        /\ violation' \in Refusals \union {"none"} /\ call' \in [Openers -> Call]
    BY <1>1 DEF TypeOK
  <2>5. \A o \in Openers :
          call'[o].blocked => at[o] = "goto" /\ call'[o].failed /\ violation' # "none"
    BY <1>1 DEF CallsAreInOrder
  <2>6. \A g \in guards' : ~g.live
    BY <1>1, <1>3
  <2> HIDE DEF IInv
  <2> QED BY <1>1, <1>2, <2>1, <2>2, <2>3, <2>4, <2>5, <2>6, NoNavFacts, PageStepKeepsIInv
<1>5. CASE nav.goto
  <2> DEFINE o == nav.by
  <2>1. /\ o \in Openers /\ at[o] = "goto" /\ ~call[o].failed
        /\ at \in [Openers -> Positions] /\ at' = [at EXCEPT ![o] = "settle"]
    BY <1>5 DEF Load, TypeOK
  <2> HIDE DEF o
  <2>2. at'[o] = "settle" /\ \A p \in Openers : p # o => at'[p] = at[p]
    BY <2>1
  <2>3. \A p \in Openers : p # o => at[p] \notin OnPage
    BY <2>1, OneUser DEF OnPage
  <2>4. TypeOK'
    <3>1. \A p \in Openers : /\ at'[p] \in OnPage => Holds(p)'
                             /\ InLine(p)' <=> at'[p] \in OnPage \union {"line"}
      BY <1>1, <2>1, <2>2 DEF TypeOK, Holds, InLine, OnPage
    <3>2. at' \in [Openers -> Positions]
      BY <2>1 DEF Positions
    <3>3. \A g \in guards' : ~g.live
      BY <1>1, <1>3
    <3> QED BY <1>1, <1>2, <3>1, <3>2, <3>3, NoNavFacts DEF TypeOK
  <2>5. CallsAreInOrder'
    BY <1>1, <2>1, <2>2 DEF CallsAreInOrder
  <2>6. PageIsReaders'
    BY <1>1, <1>2, <2>2, <2>3 DEF PageIsReaders, Reading, OnPage, o
  <2>7. ContentIsReaders'
    BY <2>2, <2>3 DEF ContentIsReaders, OnPage
  <2>8. ErrorPageStays' /\ NavigationIsToPage' /\ LifespanIsInOrder' /\ ResultsAreGood'
    BY <1>1 DEF ErrorPageStays, NavigationIsToPage, LifespanIsInOrder, NothingRunsAfterClose,
                ResultsAreGood, SnapshotIsOwn, ErrorPageNeverReturned, BlockedIsNotTransient
  <2> QED BY <2>4, <2>5, <2>6, <2>7, <2>8
<1> QED BY <1>4, <1>5

-----------------------------------------------------------------------------
(***************************************************************************)
(* The lifespan, and the theorems.                                         *)
(***************************************************************************)

\* The lifespan leaves calls and page alone.
LEMMA HostedKeepsIInv ==
  ASSUME IInv, NEW from, NEW to \in Lifespans, Hosted(from, to),
         context' \in BOOLEAN, playwright' \in BOOLEAN,
         running' \subseteq {"driver", "chromium"},
         "chromium" \in running' => "driver" \in running', LifespanIsInOrder'
  PROVE  IInv'
<1> USE DEF IInv
<1>1. /\ lifespan' = to
      /\ UNCHANGED <<violation, line, at, call, result, doc, nav, guards, scripts>>
  BY DEF Hosted, page
<1>2. TypeOK'
  <2>1. \A o \in Openers : /\ at'[o] \in OnPage => Holds(o)'
                           /\ InLine(o)' <=> at'[o] \in OnPage \union {"line"}
    BY <1>1 DEF TypeOK, Holds, InLine
  <2> QED BY <1>1, <2>1 DEF TypeOK
<1>3. CallsAreInOrder' /\ PageIsReaders' /\ ContentIsReaders'
  BY <1>1 DEF CallsAreInOrder, PageIsReaders, ContentIsReaders
<1>4. ErrorPageStays' /\ NavigationIsToPage' /\ ResultsAreGood'
  BY <1>1 DEF ErrorPageStays, NavigationIsToPage,
              ResultsAreGood, SnapshotIsOwn, ErrorPageNeverReturned, BlockedIsNotTransient
<1> QED BY <1>2, <1>3, <1>4

LEMMA LifespanKeepsIInv == ASSUME IInv, Lifespan PROVE IInv'
<1>1. PICK from, to \in Lifespans : Hosted(from, to) \/ ContextClosed
  BY DEF Lifespan, Start, DriverUp, Launched, LaunchFails, Routed, PageUp, StartBreaks,
         Close, Stopped, CloseBreaks, Lifespans
<1>2. CASE ContextClosed
  BY <1>2, ContextClosedKeepsIInv
<1>3. CASE ~ContextClosed
  <2>1. /\ context' \in BOOLEAN /\ playwright' \in BOOLEAN
        /\ running' \subseteq {"driver", "chromium"}
        /\ "chromium" \in running' => "driver" \in running'
        /\ LifespanIsInOrder'
    BY <1>3 DEF Lifespan, Start, DriverUp, Launched, LaunchFails, Routed, PageUp, StartBreaks,
         Close, Stopped, CloseBreaks, Hosted, IInv, TypeOK, LifespanIsInOrder,
         NothingRunsAfterClose
  <2> QED BY <1>1, <1>3, <2>1, HostedKeepsIInv
<1> QED BY <1>2, <1>3

LEMMA InitIInv == Init => IInv
<1> SUFFICES ASSUME Init PROVE IInv
  OBVIOUS
<1>1. /\ NoCall \in Call /\ ~NoCall.failed /\ ~NoCall.blocked
      /\ NoResult \in Result /\ NoResult.kind = "none" /\ BlankDoc \in Shown
  BY DEF NoCall, Call, Addressed, BlankDoc, Shown, NoResult, Result, Results
<1>2. TypeOK
  <2>1. /\ at \in [Openers -> Positions] /\ call \in [Openers -> Call]
        /\ result \in [Openers -> Result]
    BY <1>1 DEF Init, Positions
  <2>2. line \in Seq(Openers) /\ \A i, j \in DOMAIN line : line[i] = line[j] => i = j
    BY DEF Init
  <2>3. \A o \in Openers : at[o] \in OnPage => Holds(o)
    BY DEF Init, OnPage
  <2>4. \A o \in Openers : InLine(o) <=> at[o] \in OnPage \union {"line"}
    BY DEF Init, OnPage, InLine
  <2>5. doc \in Shown /\ nav \in Nav /\ ~nav.goto /\ guards = {} /\ scripts \in 0 .. MaxScripts
    BY <1>1, NoNavFacts, MaxScriptsAssumption DEF Init
  <2>6. /\ guards \subseteq Requested
        /\ \A g \in guards : g.live => g.main /\ nav.url = g.url /\ ~nav.passed
    BY <2>5
  <2>7. \A g, h \in guards : g.live /\ h.live => g = h
    BY <2>5
  <2>8. nav.goto => nav.by \in Openers /\ at[nav.by] = "goto" /\ ~call[nav.by].failed
    BY <2>5
  <2>9. /\ lifespan \in Lifespans /\ context \in BOOLEAN /\ playwright \in BOOLEAN
        /\ running = {} /\ violation \in Refusals \union {"none"}
    BY DEF Init, Lifespans
  <2>10. running \subseteq {"driver", "chromium"} /\ ("chromium" \in running => "driver" \in running)
    BY <2>9
  <2> QED BY <2>1, <2>2, <2>3, <2>4, <2>5, <2>6, <2>7, <2>8, <2>9, <2>10 DEF TypeOK
<1>3. CallsAreInOrder /\ PageIsReaders /\ ContentIsReaders
  BY <1>1 DEF Init, CallsAreInOrder, PageIsReaders, ContentIsReaders, Reading
<1>4. ErrorPageStays /\ NavigationIsToPage /\ LifespanIsInOrder
  BY DEF Init, ErrorPageStays, NavigationIsToPage, LifespanIsInOrder, NothingRunsAfterClose
<1>5. ResultsAreGood
  BY <1>1 DEF Init, ResultsAreGood, SnapshotIsOwn, ErrorPageNeverReturned, BlockedIsNotTransient
<1> QED BY <1>2, <1>3, <1>4, <1>5 DEF IInv

LEMMA NextKeepsIInv == IInv /\ [Next]_vars => IInv'
<1> SUFFICES ASSUME IInv, [Next]_vars PROVE IInv'
  OBVIOUS
<1>1. CASE Lifespan
  BY <1>1, LifespanKeepsIInv
<1>2. ASSUME NEW o \in Openers, NEW u \in URLs, Open(o, u) PROVE IInv'
  BY <1>2, OpenKeepsIInv
<1>3. ASSUME NEW o \in Openers, Continue(o) PROVE IInv'
  BY <1>3, CheckedKeepsIInv, NavigateKeepsIInv, GotoFailsKeepsIInv, ReadsKeepIInv,
     TitledKeepsIInv
  DEF Continue
<1>4. CASE Guard
  BY <1>4, GuardBlocksKeepsIInv, GuardPassesKeepsIInv DEF Guard
<1>5. CASE Load \/ LoadFails
  BY <1>5, LoadKeepsIInv, LoadFailsKeepsIInv
<1>6. CASE Script
  BY <1>6, ScriptNavigatesKeepsIInv, ScriptLoadsKeepsIInv DEF Script
<1>7. CASE UNCHANGED vars
  <2>1. UNCHANGED <<lifespan, running, context, playwright, violation, line, at, call, result,
                    doc, nav, guards, scripts>>
    BY <1>7 DEF vars, manager, page
  <2> QED BY <2>1 DEF IInv, TypeOK, Holds, InLine, CallsAreInOrder, PageIsReaders,
          ContentIsReaders, ErrorPageStays, NavigationIsToPage, LifespanIsInOrder,
          ResultsAreGood, SnapshotIsOwn, ErrorPageNeverReturned, BlockedIsNotTransient,
          NothingRunsAfterClose
<1> QED BY <1>1, <1>2, <1>3, <1>4, <1>5, <1>6, <1>7 DEF Next

\* The invariant is one (manager.py).
THEOREM BrowserInductive == Spec => []IInv
<1> QED BY InitIInv, NextKeepsIInv, PTL DEF Spec

\* The state keeps its type: the line of the lock, the one call on the page, at
\* most one request that is the page's own navigation (open(), _guard_route).
THEOREM BrowserTypeCorrect == Spec => []TypeOK
<1>1. IInv => TypeOK
  BY DEF IInv
<1> QED BY <1>1, BrowserInductive, PTL

\* A snapshot shows what its own call's navigation led to (open()).
THEOREM SnapshotsAreOwn == Spec => []SnapshotIsOwn
<1>1. IInv => SnapshotIsOwn
  BY DEF IInv, ResultsAreGood
<1> QED BY <1>1, BrowserInductive, PTL

\* No snapshot shows the browser's error document (open()).
THEOREM ErrorPagesStay == Spec => []ErrorPageNeverReturned
<1>1. IInv => ErrorPageNeverReturned
  BY DEF IInv, ResultsAreGood
<1> QED BY <1>1, BrowserInductive, PTL

\* A blocked navigation is reported as refused (open(), _guard_route).
THEOREM BlockedAreRefused == Spec => []BlockedIsNotTransient
<1>1. IInv => BlockedIsNotTransient
  BY DEF IInv, ResultsAreGood
<1> QED BY <1>1, BrowserInductive, PTL

\* A closed manager leaves no process behind (close()).
THEOREM NothingIsLeftRunning == Spec => []NothingRunsAfterClose
<1>1. IInv => NothingRunsAfterClose
  BY DEF IInv, LifespanIsInOrder
<1> QED BY <1>1, BrowserInductive, PTL
=============================================================================
