-------------------------- MODULE PageAccessProofs --------------------------
(***************************************************************************)
(* Proofs that the pacing, the sharing and the finality of refusals in     *)
(* PageAccess hold for any hosts, URLs, callers and jobs and for every     *)
(* setting PageAccessSettings accepts.                                     *)
(***************************************************************************)
EXTENDS PageAccess, TLAPS

-----------------------------------------------------------------------------
(***************************************************************************)
(* Lines: what joining and leaving a lock does to it.                      *)
(***************************************************************************)

\* Leaving a line gives a line.
LEMMA LeaveIsLine ==
  ASSUME NEW S, NEW q \in Seq(S), NEW j
  PROVE  Leave(q, j) \in Seq(S)
<1>1. CASE ~Member(j, q)
  BY <1>1 DEF Leave
<1>2. CASE Member(j, q)
  <2> DEFINE at == CHOOSE i \in DOMAIN q : q[i] = j
  <2>1. at \in 1..Len(q)
    BY <1>2 DEF Member
  <2>2. Leave(q, j) = [i \in 1..(Len(q) - 1) |-> IF i < at THEN q[i] ELSE q[i + 1]]
    BY <1>2 DEF Leave
  <2>3. Len(q) - 1 \in Nat
    BY <2>1
  <2>4. \A i \in 1..(Len(q) - 1) : (IF i < at THEN q[i] ELSE q[i + 1]) \in S
    BY <2>1
  <2> QED BY <2>2, <2>3, <2>4
<1> QED BY <1>1, <1>2

\* Who leaves is gone, nobody else is, and the others keep their order.
LEMMA LeaveRemoves ==
  ASSUME NEW S, NEW q \in Seq(S), NEW j, OncePerLine(q)
  PROVE  /\ OncePerLine(Leave(q, j))
         /\ \A i \in DOMAIN Leave(q, j) : Leave(q, j)[i] # j /\ Member(Leave(q, j)[i], q)
         /\ \A k : k # j /\ Member(k, q) => Member(k, Leave(q, j))
         /\ \A k : k # j /\ Holds(k, q) => Holds(k, Leave(q, j))
<1>1. CASE ~Member(j, q)
  <2>1. Leave(q, j) = q
    BY <1>1 DEF Leave
  <2> QED BY <1>1, <2>1 DEF Member
<1>2. CASE Member(j, q)
  <2> DEFINE at == CHOOSE i \in DOMAIN q : q[i] = j
             r == Leave(q, j)
  <2>1. at \in 1..Len(q) /\ q[at] = j
    BY <1>2 DEF Member
  <2>2. r = [i \in 1..(Len(q) - 1) |-> IF i < at THEN q[i] ELSE q[i + 1]]
    BY <1>2 DEF Leave
  <2>3. r \in Seq(S) /\ Len(r) = Len(q) - 1 /\ DOMAIN r = 1..(Len(q) - 1)
    BY <2>1, <2>2, LeaveIsLine
  <2> HIDE DEF at, r
  <2>4. \A i \in 1..(Len(q) - 1) : i < at => r[i] = q[i]
    BY <2>2
  <2>5. \A i \in 1..(Len(q) - 1) : i >= at => r[i] = q[i + 1]
    BY <2>1, <2>2
  <2>6. OncePerLine(r)
    <3> SUFFICES ASSUME NEW i \in 1..(Len(q) - 1), NEW k \in 1..(Len(q) - 1), r[i] = r[k]
                 PROVE  i = k
      BY <2>3 DEF OncePerLine
    <3>1. i \in 1..Len(q) /\ i + 1 \in 1..Len(q) /\ k \in 1..Len(q) /\ k + 1 \in 1..Len(q)
      OBVIOUS
    <3>2. CASE i < at /\ k < at
      BY <2>4, <3>1, <3>2 DEF OncePerLine
    <3>3. CASE i < at /\ k >= at
      BY <2>1, <2>4, <2>5, <3>1, <3>3 DEF OncePerLine
    <3>4. CASE i >= at /\ k < at
      BY <2>1, <2>4, <2>5, <3>1, <3>4 DEF OncePerLine
    <3>5. CASE i >= at /\ k >= at
      BY <2>1, <2>5, <3>1, <3>5 DEF OncePerLine
    <3> QED BY <2>1, <3>2, <3>3, <3>4, <3>5
  <2>7. \A i \in DOMAIN r : r[i] # j /\ Member(r[i], q)
    BY <2>1, <2>3, <2>4, <2>5 DEF OncePerLine, Member
  <2>8. ASSUME NEW k, k # j, Member(k, q)
        PROVE  Member(k, r)
    <3>1. PICK i \in 1..Len(q) : q[i] = k
      BY <2>8 DEF Member
    <3>2. i # at
      BY <2>1, <2>8, <3>1
    <3>3. CASE i < at
      BY <2>1, <2>3, <2>4, <3>1, <3>3 DEF Member
    <3>4. CASE i > at
      <4>1. i - 1 \in 1..(Len(q) - 1) /\ i - 1 >= at /\ (i - 1) + 1 = i
        BY <2>1, <3>4
      <4>2. r[i - 1] = k
        BY <2>5, <3>1, <4>1
      <4> QED BY <2>3, <4>1, <4>2 DEF Member
    <3> QED BY <2>1, <3>2, <3>3, <3>4
  <2>9. ASSUME NEW k, k # j, Holds(k, q)
        PROVE  Holds(k, r)
    BY <2>1, <2>3, <2>4, <2>9 DEF Holds
  <2> QED BY <2>6, <2>7, <2>8, <2>9 DEF r
<1> QED BY <1>1, <1>2

\* Who joins is last.
LEMMA JoinAppends ==
  ASSUME NEW S, NEW q \in Seq(S), NEW j \in S, OncePerLine(q), ~Member(j, q)
  PROVE  /\ Append(q, j) \in Seq(S)
         /\ OncePerLine(Append(q, j))
         /\ Member(j, Append(q, j))
         /\ \A i \in DOMAIN Append(q, j) : Append(q, j)[i] = j \/ Member(Append(q, j)[i], q)
         /\ \A k : Member(k, q) => Member(k, Append(q, j))
         /\ \A k : Holds(k, q) => Holds(k, Append(q, j))
<1> DEFINE r == Append(q, j)
<1>1. /\ r \in Seq(S)
      /\ DOMAIN r = 1..(Len(q) + 1)
      /\ r[Len(q) + 1] = j
      /\ \A i \in 1..Len(q) : r[i] = q[i]
  OBVIOUS
<1> HIDE DEF r
<1>2. OncePerLine(r)
  BY <1>1 DEF OncePerLine, Member
<1>3. Member(j, r)
  BY <1>1 DEF Member
<1>4. \A i \in DOMAIN r : r[i] = j \/ Member(r[i], q)
  BY <1>1 DEF Member
<1>5. \A k : Member(k, q) => Member(k, r)
  BY <1>1 DEF Member
<1>6. \A k : Holds(k, q) => Holds(k, r)
  BY <1>1 DEF Holds
<1> QED BY <1>1, <1>2, <1>3, <1>4, <1>5, <1>6 DEF r

-----------------------------------------------------------------------------
(***************************************************************************)
(* What a step of one job does to the two kinds of line.                   *)
(***************************************************************************)
InLine(j) == Phase(j) \in Active \union {"queued"}
OnPage(j) == Phase(j) \in {"turn", "loading"}

\* Only job j changes.
Alone(j) == /\ job' \in [Jobs -> Job]
            /\ \A k \in Jobs : k # j => job'[k] = job[k]

\* The hosts' lines stay: j goes on at their head, or was and is in none.
LEMMA HostLinesStay ==
  ASSUME TypeOK, HostLines, JobsAreInOrder, line' = line, NEW j \in Jobs, Alone(j),
         \/ /\ Holds(j, line[Host(j)])
            /\ InLine(j)
            /\ Phase(j)' \in Active /\ job'[j].url = job[j].url
         \/ ~InLine(j) /\ ~InLine(j)'
  PROVE  HostLines'
<1>1. ASSUME NEW h \in Hosts
      PROVE  /\ OncePerLine(line'[h])
             /\ \A i \in DOMAIN line'[h] :
                  /\ job'[line'[h][i]].phase \in Active \union {"queued"}
                  /\ HostOf[job'[line'[h][i]].url] = h
  <2>1. OncePerLine(line'[h])
    BY DEF HostLines
  <2>2. ASSUME NEW i \in DOMAIN line[h]
        PROVE  /\ job'[line[h][i]].phase \in Active \union {"queued"}
               /\ HostOf[job'[line[h][i]].url] = h
    <3>1. line[h][i] \in Jobs
      BY DEF TypeOK
    <3>2. InLine(line[h][i]) /\ Host(line[h][i]) = h
      BY DEF HostLines, InLine
    <3> QED BY <3>1, <3>2 DEF Alone, InLine, Phase, Host
  <2> QED BY <2>1, <2>2
<1>2. ASSUME NEW k \in Jobs
      PROVE  /\ job'[k].phase = "queued" => Member(k, line'[HostOf[job'[k].url]])
             /\ job'[k].phase \in Active => Holds(k, line'[HostOf[job'[k].url]])
  <2>1. CASE k # j
    BY <2>1 DEF HostLines, Alone, Phase, Host
  <2>2. CASE k = j
    BY <2>2 DEF InLine, Phase, Host, Active
  <2> QED BY <2>1, <2>2
<1> QED BY <1>1, <1>2 DEF HostLines, Phase, Host

\* Job j leaves its host's line.
LEMMA HostLineLeft ==
  ASSUME TypeOK, HostLines, JobsAreInOrder, NEW j \in Jobs, Alone(j),
         Phase(j) # "settled",
         line' = [line EXCEPT ![Host(j)] = Leave(@, j)],
         ~InLine(j)'
  PROVE  HostLines' /\ line' \in [Hosts -> Seq(Jobs)]
<1>1. Host(j) \in Hosts
  BY HostOfAssumption DEF JobsAreInOrder, Host
<1>2. /\ line' \in [Hosts -> Seq(Jobs)]
      /\ \A h \in Hosts : line'[h] = IF h = Host(j) THEN Leave(line[h], j) ELSE line[h]
  BY <1>1, LeaveIsLine DEF TypeOK
<1>3. ASSUME NEW h \in Hosts
      PROVE  /\ OncePerLine(line'[h])
             /\ \A i \in DOMAIN line'[h] : line'[h][i] # j /\ Member(line'[h][i], line[h])
             /\ \A k : k # j /\ Member(k, line[h]) => Member(k, line'[h])
             /\ \A k : k # j /\ Holds(k, line[h]) => Holds(k, line'[h])
  <2>1. line[h] \in Seq(Jobs) /\ OncePerLine(line[h])
    BY DEF TypeOK, HostLines
  <2>2. CASE h = Host(j)
    BY <1>2, <2>1, <2>2, LeaveRemoves
  <2>3. CASE h # Host(j)
    <3>1. line'[h] = line[h]
      BY <1>2, <2>3
    <3>2. \A i \in DOMAIN line[h] : line[h][i] # j
      BY <2>3 DEF HostLines
    <3> QED BY <2>1, <3>1, <3>2 DEF Member
  <2> QED BY <2>2, <2>3
<1>4. ASSUME NEW h \in Hosts, NEW i \in DOMAIN line'[h]
      PROVE  /\ job'[line'[h][i]].phase \in Active \union {"queued"}
             /\ HostOf[job'[line'[h][i]].url] = h
  <2> DEFINE k == line'[h][i]
  <2>1. k # j /\ Member(k, line[h])
    BY <1>3, <1>4
  <2>2. PICK n \in DOMAIN line[h] : line[h][n] = k
    BY <2>1 DEF Member
  <2>3. k \in Jobs
    BY <2>2 DEF TypeOK
  <2>4. Phase(k) \in Active \union {"queued"} /\ Host(k) = h
    BY <2>2 DEF HostLines
  <2> QED BY <2>1, <2>3, <2>4 DEF Alone, Phase, Host
<1>5. ASSUME NEW k \in Jobs
      PROVE  /\ job'[k].phase = "queued" => Member(k, line'[HostOf[job'[k].url]])
             /\ job'[k].phase \in Active => Holds(k, line'[HostOf[job'[k].url]])
  <2>1. CASE k # j
    <3>1. job'[k] = job[k]
      BY <2>1 DEF Alone
    <3>2. InLine(k) => Host(k) \in Hosts
      BY HostOfAssumption DEF JobsAreInOrder, Host, InLine, Active, Phase
    <3>3. /\ Phase(k) = "queued" => Member(k, line[Host(k)])
          /\ Phase(k) \in Active => Holds(k, line[Host(k)])
      BY DEF HostLines
    <3> QED BY <1>3, <2>1, <3>1, <3>2, <3>3 DEF InLine, Phase, Host
  <2>2. CASE k = j
    BY <2>2 DEF InLine, Phase
  <2> QED BY <2>1, <2>2
<1> QED BY <1>2, <1>3, <1>4, <1>5 DEF HostLines, Phase, Host

\* A new job joins its host's line.
LEMMA HostLineJoined ==
  ASSUME TypeOK, HostLines, JobsAreInOrder, NEW j \in Jobs, Alone(j),
         Phase(j) = "settled", Phase(j)' = "queued", job'[j].url \in Urls,
         line' = [line EXCEPT ![Host(j)'] = Append(@, j)]
  PROVE  HostLines' /\ line' \in [Hosts -> Seq(Jobs)]
<1> DEFINE g == Host(j)'
<1>1. g \in Hosts
  BY HostOfAssumption DEF Host
<1>2. /\ line' \in [Hosts -> Seq(Jobs)]
      /\ \A h \in Hosts : line'[h] = IF h = g THEN Append(line[h], j) ELSE line[h]
  BY <1>1 DEF TypeOK
<1> HIDE DEF g
<1>3. ASSUME NEW h \in Hosts
      PROVE  /\ OncePerLine(line'[h])
             /\ \A i \in DOMAIN line'[h] :
                  \/ h = g /\ line'[h][i] = j
                  \/ line'[h][i] # j /\ Member(line'[h][i], line[h])
             /\ \A k : Member(k, line[h]) => Member(k, line'[h])
             /\ \A k : Holds(k, line[h]) => Holds(k, line'[h])
             /\ h = g => Member(j, line'[h])
  <2>1. line[h] \in Seq(Jobs) /\ OncePerLine(line[h])
    BY DEF TypeOK, HostLines
  <2>2. ~Member(j, line[h])
    BY DEF HostLines, Member, Active
  <2>3. CASE h = g
    <3>1. line'[h] = Append(line[h], j)
      BY <1>2, <2>3
    <3>2. /\ OncePerLine(Append(line[h], j))
          /\ Member(j, Append(line[h], j))
          /\ \A i \in DOMAIN Append(line[h], j) :
               Append(line[h], j)[i] = j \/ Member(Append(line[h], j)[i], line[h])
          /\ \A k : Member(k, line[h]) => Member(k, Append(line[h], j))
          /\ \A k : Holds(k, line[h]) => Holds(k, Append(line[h], j))
      BY <2>1, <2>2, JoinAppends
    <3> HIDE DEF g
    <3> QED BY <2>2, <2>3, <3>1, <3>2
  <2>4. CASE h # g
    <3>1. line'[h] = line[h]
      BY <1>2, <2>4
    <3>2. \A i \in DOMAIN line[h] : Member(line[h][i], line[h])
      BY DEF Member
    <3> QED BY <2>1, <2>2, <2>4, <3>1, <3>2
  <2> QED BY <2>3, <2>4
<1>4. ASSUME NEW h \in Hosts, NEW i \in DOMAIN line'[h]
      PROVE  /\ job'[line'[h][i]].phase \in Active \union {"queued"}
             /\ HostOf[job'[line'[h][i]].url] = h
  <2> DEFINE k == line'[h][i]
  <2>1. CASE h = g /\ k = j
    BY <2>1 DEF g, Phase, Host
  <2>2. CASE k # j /\ Member(k, line[h])
    <3>1. PICK n \in DOMAIN line[h] : line[h][n] = k
      BY <2>2 DEF Member
    <3>2. k \in Jobs
      BY <3>1 DEF TypeOK
    <3>3. Phase(k) \in Active \union {"queued"} /\ Host(k) = h
      BY <3>1 DEF HostLines
    <3> QED BY <2>2, <3>2, <3>3 DEF Alone, Phase, Host
  <2> QED BY <1>3, <1>4, <2>1, <2>2
<1>5. ASSUME NEW k \in Jobs
      PROVE  /\ job'[k].phase = "queued" => Member(k, line'[HostOf[job'[k].url]])
             /\ job'[k].phase \in Active => Holds(k, line'[HostOf[job'[k].url]])
  <2>1. CASE k # j
    <3>1. job'[k] = job[k]
      BY <2>1 DEF Alone
    <3>2. InLine(k) => Host(k) \in Hosts
      BY HostOfAssumption DEF JobsAreInOrder, Host, InLine, Active, Phase
    <3>3. /\ Phase(k) = "queued" => Member(k, line[Host(k)])
          /\ Phase(k) \in Active => Holds(k, line[Host(k)])
      BY DEF HostLines
    <3> QED BY <1>3, <3>1, <3>2, <3>3 DEF InLine, Phase, Host
  <2>2. CASE k = j
    BY <1>1, <1>3, <2>2 DEF g, Active, Phase, Host
  <2> QED BY <2>1, <2>2
<1> QED BY <1>2, <1>3, <1>4, <1>5 DEF HostLines, Phase, Host

\* The page's line stays: j goes on at its head, or was and is not in it.
LEMMA PageLineStays ==
  ASSUME TypeOK, PageLine, browser' = browser, NEW j \in Jobs, Alone(j),
         \/ Holds(j, browser) /\ OnPage(j) /\ OnPage(j)'
         \/ ~OnPage(j) /\ ~OnPage(j)'
  PROVE  PageLine'
<1>1. \A i \in DOMAIN browser : job'[browser[i]].phase \in {"turn", "loading"}
  <2> SUFFICES ASSUME NEW i \in DOMAIN browser
               PROVE  job'[browser[i]].phase \in {"turn", "loading"}
    OBVIOUS
  <2>1. browser[i] \in Jobs
    BY DEF TypeOK
  <2> QED BY <2>1 DEF PageLine, Alone, OnPage, Phase
<1>2. ASSUME NEW k \in Jobs
      PROVE  /\ job'[k].phase = "turn" => Member(k, browser)
             /\ job'[k].phase = "loading" => Holds(k, browser)
  <2>1. CASE k # j
    BY <2>1 DEF PageLine, Alone, Phase
  <2>2. CASE k = j
    <3>1. Holds(j, browser) => Member(j, browser)
      BY DEF TypeOK, Holds, Member
    <3> QED BY <2>2, <3>1 DEF OnPage, Phase
  <2> QED BY <2>1, <2>2
<1> QED BY <1>1, <1>2 DEF PageLine, Phase

\* Job j leaves the page, if it was there.
LEMMA PageLineLeft ==
  ASSUME TypeOK, PageLine, NEW j \in Jobs, Alone(j), browser' = Leave(browser, j), ~OnPage(j)'
  PROVE  PageLine' /\ browser' \in Seq(Jobs)
<1>1. /\ browser' \in Seq(Jobs)
      /\ OncePerLine(browser')
      /\ \A i \in DOMAIN browser' : browser'[i] # j /\ Member(browser'[i], browser)
      /\ \A k : k # j /\ Member(k, browser) => Member(k, browser')
      /\ \A k : k # j /\ Holds(k, browser) => Holds(k, browser')
  <2>1. browser \in Seq(Jobs) /\ OncePerLine(browser)
    BY DEF TypeOK, PageLine
  <2> QED BY <2>1, LeaveIsLine, LeaveRemoves
<1>2. ASSUME NEW i \in DOMAIN browser'
      PROVE  job'[browser'[i]].phase \in {"turn", "loading"}
  <2>1. browser'[i] # j /\ Member(browser'[i], browser)
    BY <1>1
  <2>2. PICK n \in DOMAIN browser : browser[n] = browser'[i]
    BY <2>1 DEF Member
  <2>3. browser'[i] \in Jobs
    BY <2>2 DEF TypeOK
  <2> QED BY <2>1, <2>2, <2>3 DEF PageLine, Alone, Phase
<1>3. ASSUME NEW k \in Jobs
      PROVE  /\ job'[k].phase = "turn" => Member(k, browser')
             /\ job'[k].phase = "loading" => Holds(k, browser')
  <2>1. CASE k # j
    BY <1>1, <2>1 DEF PageLine, Alone, Phase
  <2>2. CASE k = j
    BY <2>2 DEF OnPage, Phase
  <2> QED BY <2>1, <2>2
<1> QED BY <1>1, <1>2, <1>3 DEF PageLine, Phase

\* Job j joins the page's line.
LEMMA PageLineJoined ==
  ASSUME TypeOK, PageLine, NEW j \in Jobs, Alone(j), browser' = Append(browser, j),
         ~OnPage(j), Phase(j)' = "turn"
  PROVE  PageLine' /\ browser' \in Seq(Jobs)
<1>1. browser \in Seq(Jobs) /\ OncePerLine(browser) /\ ~Member(j, browser)
  BY DEF TypeOK, PageLine, Member, OnPage
<1>2. /\ browser' \in Seq(Jobs)
      /\ OncePerLine(browser')
      /\ Member(j, browser')
      /\ \A i \in DOMAIN browser' : browser'[i] = j \/ Member(browser'[i], browser)
      /\ \A k : Member(k, browser) => Member(k, browser')
      /\ \A k : Holds(k, browser) => Holds(k, browser')
  BY <1>1, JoinAppends
<1>3. ASSUME NEW i \in DOMAIN browser'
      PROVE  job'[browser'[i]].phase \in {"turn", "loading"}
  <2>1. CASE browser'[i] = j
    BY <2>1 DEF Phase
  <2>2. CASE browser'[i] # j
    <3>1. PICK n \in DOMAIN browser : browser[n] = browser'[i]
      BY <1>2, <2>2 DEF Member
    <3>2. browser'[i] \in Jobs
      BY <3>1 DEF TypeOK
    <3> QED BY <2>2, <3>1, <3>2 DEF PageLine, Alone, Phase
  <2> QED BY <2>1, <2>2
<1>4. ASSUME NEW k \in Jobs
      PROVE  /\ job'[k].phase = "turn" => Member(k, browser')
             /\ job'[k].phase = "loading" => Holds(k, browser')
  <2>1. CASE k # j
    BY <1>2, <2>1 DEF PageLine, Alone, Phase
  <2>2. CASE k = j
    BY <1>2, <2>2 DEF Phase
  <2> QED BY <2>1, <2>2
<1> QED BY <1>2, <1>3, <1>4 DEF PageLine, Phase

-----------------------------------------------------------------------------
(***************************************************************************)
(* What a step of one job does to the rest of the invariant.               *)
(***************************************************************************)

\* The settings allow between one and three attempts.
LEMMA AttemptsBound == \A j : AttemptsOf(j) \in 1..3
  BY SettingsAssumption DEF AttemptsOf

\* Sleeps and waits are natural numbers.
LEMMA WaitsAreNatural ==
  /\ TypeOK => \A h \in Hosts : SlotWait(h) \in Nat /\ idle[h] + SlotWait(h) = MinInterval
  /\ \A n \in 1..3 : Delay(n) \in Nat
<1>1. TypeOK => \A h \in Hosts : SlotWait(h) \in Nat /\ idle[h] + SlotWait(h) = MinInterval
  BY SettingsAssumption DEF TypeOK, SlotWait
<1>2. ASSUME NEW n \in 1..3
      PROVE  Delay(n) \in Nat
  <2>1. <<1, 2, 4>>[n] \in Nat
    <3>1. n = 1 \/ n = 2 \/ n = 3
      OBVIOUS
    <3> QED BY <3>1
  <2> QED BY <2>1, SettingsAssumption DEF Delay
<1> QED BY <1>1, <1>2

\* Jobs, callers and _inflight agree.
Agreement ==
  JobsAreInOrder /\ ScreenshotsAreOwn /\ InflightIsCurrent /\ RefusalIsFinal
    /\ AnswersSurviveCancellation

\* A collection under way goes on: the same URL, the same kind, no attempt too
\* many, an answer if it is done and no refusal unless it is done.
LEMMA AgreementKept ==
  ASSUME TypeOK, Agreement, NEW j \in Jobs, Alone(j), waits' = waits, inflight' = inflight,
         Phase(j) # "settled", Phase(j)' # "settled",
         job'[j].url = job[j].url, job'[j].shot = job[j].shot,
         job'[j].attempt \in 1..AttemptsOf(j),
         Phase(j)' = "backoff" => job'[j].attempt < AttemptsOf(j),
         Phase(j)' = "done" => job'[j].status # "none",
         job'[j].status \in {"restricted", "error"} => Phase(j)' = "done"
  PROVE  Agreement'
<1>1. ASSUME NEW k \in Jobs
      PROVE  /\ job'[k].url = job[k].url /\ job'[k].shot = job[k].shot
             /\ job'[k].phase = "settled" <=> job[k].phase = "settled"
             /\ k # j => job'[k] = job[k]
  BY DEF Alone, Phase
<1>2. ASSUME NEW c \in Callers, waits[c] # NoJob
      PROVE  waits[c] \in Jobs
  BY <1>2 DEF TypeOK
<1>3. JobsAreInOrder'
  <2> SUFFICES ASSUME NEW k \in Jobs
               PROVE  /\ IF job'[k].phase = "settled"
                         THEN job'[k] = Settled(job'[k].status)
                         ELSE /\ job'[k].url \in Urls
                              /\ job'[k].attempt \in 1..(IF job'[k].shot THEN 1 ELSE MaxAttempts)
                      /\ job'[k].phase = "backoff" =>
                           job'[k].attempt < (IF job'[k].shot THEN 1 ELSE MaxAttempts)
                      /\ job'[k].phase = "done" => job'[k].status # "none"
    BY DEF JobsAreInOrder, AttemptsOf, Phase, Settled
  <2>1. CASE k # j
    BY <1>1, <2>1 DEF Agreement, JobsAreInOrder, AttemptsOf, Phase
  <2>2. CASE k = j
    BY <2>2 DEF Agreement, JobsAreInOrder, AttemptsOf, Phase
  <2> QED BY <2>1, <2>2
<1>4. ScreenshotsAreOwn'
  BY <1>1, <1>2 DEF Agreement, ScreenshotsAreOwn
<1>5. InflightIsCurrent'
  <2>1. \A u \in Urls : inflight[u] # NoJob => inflight[u] \in Jobs
    BY DEF TypeOK
  <2> QED BY <1>1, <2>1 DEF Agreement, InflightIsCurrent, Phase
<1>6. RefusalIsFinal'
  <2> SUFFICES ASSUME NEW k \in Jobs, job'[k].status \in {"restricted", "error"}
               PROVE  job'[k].phase \in {"done", "settled"}
    BY DEF RefusalIsFinal, Phase
  <2>1. CASE k # j
    BY <1>1, <2>1 DEF Agreement, RefusalIsFinal, Phase
  <2>2. CASE k = j
    BY <2>2 DEF Phase
  <2> QED BY <2>1, <2>2
<1>7. AnswersSurviveCancellation'
  <2> SUFFICES ASSUME NEW c \in Callers, waits[c] # NoJob, job'[waits[c]].phase = "settled"
               PROVE  job'[waits[c]].status # "none"
    BY DEF AnswersSurviveCancellation, Phase
  <2>1. waits[c] \in Jobs /\ waits[c] # j
    BY <1>2 DEF Phase
  <2> QED BY <1>1, <2>1 DEF Agreement, AnswersSurviveCancellation, Phase
<1> QED BY <1>3, <1>4, <1>5, <1>6, <1>7 DEF Agreement

\* No start is recorded, and j sleeps long enough if it paces.
LEMMA SleepsKept ==
  ASSUME SleepsAreLongEnough, NEW j \in Jobs, Alone(j), idle' = idle,
         Phase(j)' = "pacing" => idle[HostOf[job'[j].url]] + job'[j].left >= MinInterval
  PROVE  SleepsAreLongEnough'
<1> SUFFICES ASSUME NEW k \in Jobs, job'[k].phase = "pacing"
             PROVE  idle[HostOf[job'[k].url]] + job'[k].left >= MinInterval
  BY DEF SleepsAreLongEnough, Phase, Host
<1>1. CASE k # j
  BY <1>1 DEF SleepsAreLongEnough, Alone, Phase, Host
<1>2. CASE k = j
  BY <1>2 DEF Phase
<1> QED BY <1>1, <1>2

\* The invariant, in the parts the lemmas are about.
LEMMA Parts ==
  IInv <=> TypeOK /\ HostLines /\ PageLine /\ SleepsAreLongEnough /\ Agreement
  BY DEF IInv, Agreement

-----------------------------------------------------------------------------
(***************************************************************************)
(* The steps of a collection.                                              *)
(***************************************************************************)

\* A job under way has a URL, a host and attempts within the bounds.
LEMMA JobFacts ==
  ASSUME TypeOK, JobsAreInOrder, NEW j \in Jobs
  PROVE  /\ job[j] \in Job
         /\ Phase(j) # "settled" =>
              /\ job[j].url \in Urls
              /\ Host(j) \in Hosts
              /\ job[j].attempt \in 1..AttemptsOf(j)
              /\ job[j].attempt \in 1..3
<1>1. job[j] \in Job
  BY DEF TypeOK
<1>2. Phase(j) # "settled" =>
        job[j].url \in Urls /\ job[j].attempt \in 1..AttemptsOf(j)
  BY DEF JobsAreInOrder
<1> QED BY <1>1, <1>2, HostOfAssumption, AttemptsBound DEF Host

\* The sleep before a first attempt lasts what is left of the interval.
LEMMA AcquireKeepsIInv ==
  ASSUME IInv, NEW j \in Jobs, Acquire(j)
  PROVE  IInv'
<1>1. /\ Phase(j) = "queued" /\ Holds(j, line[Host(j)])
      /\ job' = [job EXCEPT ![j].phase = "pacing", ![j].left = SlotWait(Host(j))]
      /\ UNCHANGED <<idle, line, inflight, browser, waits>>
  BY DEF Acquire
<1>2. TypeOK /\ HostLines /\ PageLine /\ SleepsAreLongEnough /\ Agreement /\ JobsAreInOrder
  BY DEF IInv, Agreement
<1>3. /\ job[j] \in Job /\ Host(j) \in Hosts
      /\ job[j].attempt \in 1..AttemptsOf(j) /\ job[j].attempt \in 1..3
  BY <1>1, <1>2, JobFacts
<1>4. SlotWait(Host(j)) \in Nat /\ idle[Host(j)] + SlotWait(Host(j)) = MinInterval
  BY <1>2, <1>3, WaitsAreNatural
<1>5. Alone(j) /\ job'[j] = [job[j] EXCEPT !.phase = "pacing", !.left = SlotWait(Host(j))]
  <2>1. [job[j] EXCEPT !.phase = "pacing", !.left = SlotWait(Host(j))] \in Job
    BY <1>1, <1>3, <1>4 DEF Job, Active, Statuses
  <2> QED BY <1>1, <1>2, <2>1 DEF Alone, TypeOK
<1>6. /\ job'[j].phase = "pacing" /\ job'[j].left = SlotWait(Host(j))
      /\ job'[j].url = job[j].url /\ job'[j].shot = job[j].shot
      /\ job'[j].attempt = job[j].attempt /\ job'[j].status = job[j].status
  BY <1>3, <1>5 DEF Job
<1>7. TypeOK'
  BY <1>1, <1>2, <1>3, <1>5, SettingsAssumption DEF TypeOK, Alone
<1>8. HostLines'
  BY <1>1, <1>2, <1>5, <1>6, HostLinesStay DEF InLine, Active, Phase
<1>9. PageLine'
  BY <1>1, <1>2, <1>5, <1>6, PageLineStays DEF OnPage, Phase
<1>10. SleepsAreLongEnough'
  <2>1. idle[HostOf[job'[j].url]] + job'[j].left >= MinInterval
    BY <1>4, <1>6, SettingsAssumption DEF Host
  <2> QED BY <1>1, <1>2, <1>5, <2>1, SleepsKept
<1>11. Agreement'
  <2>1. ~(job[j].status \in {"restricted", "error"})
    BY <1>1, <1>2 DEF Agreement, RefusalIsFinal
  <2> QED BY <1>1, <1>2, <1>3, <1>5, <1>6, <2>1, AgreementKept DEF Phase
<1> QED BY <1>7, <1>8, <1>9, <1>10, <1>11 DEF IInv, Agreement

\* A start is recorded by the one job that holds the lock of its host.
LEMMA StartKeepsIInv ==
  ASSUME IInv, NEW j \in Jobs, Start(j)
  PROVE  IInv'
<1>1. /\ Phase(j) = "pacing" /\ job[j].left = 0
      /\ job' = [job EXCEPT ![j].phase = "opening", ![j].status = "none"]
      /\ idle' = [idle EXCEPT ![Host(j)] = 0]
      /\ UNCHANGED <<line, inflight, browser, waits>>
  BY DEF Start
<1>2. TypeOK /\ HostLines /\ PageLine /\ SleepsAreLongEnough /\ Agreement /\ JobsAreInOrder
  BY DEF IInv, Agreement
<1>3. /\ job[j] \in Job /\ Host(j) \in Hosts
      /\ job[j].attempt \in 1..AttemptsOf(j) /\ job[j].attempt \in 1..3
  BY <1>1, <1>2, JobFacts
<1>4. Holds(j, line[Host(j)])
  BY <1>1, <1>2 DEF HostLines, Active
<1>5. Alone(j) /\ job'[j] = [job[j] EXCEPT !.phase = "opening", !.status = "none"]
  <2>1. [job[j] EXCEPT !.phase = "opening", !.status = "none"] \in Job
    BY <1>1, <1>3, <1>4 DEF Job, Active, Statuses
  <2> QED BY <1>1, <1>2, <2>1 DEF Alone, TypeOK
<1>6. /\ job'[j].phase = "opening" /\ job'[j].status = "none"
      /\ job'[j].url = job[j].url /\ job'[j].shot = job[j].shot
      /\ job'[j].attempt = job[j].attempt
  BY <1>3, <1>5 DEF Job
<1>7. TypeOK'
  BY <1>1, <1>2, <1>3, <1>5, SettingsAssumption DEF TypeOK, Alone
<1>8. HostLines'
  <2>1. Holds(j, line[Host(j)])
    BY <1>1, <1>2 DEF HostLines, Active
  <2> QED BY <1>1, <1>2, <1>5, <1>6, <2>1, HostLinesStay DEF InLine, Active, Phase
<1>9. PageLine'
  BY <1>1, <1>2, <1>5, <1>6, PageLineStays DEF OnPage, Phase
<1>10. SleepsAreLongEnough'
  <2> SUFFICES ASSUME NEW k \in Jobs, job'[k].phase = "pacing"
               PROVE  idle'[HostOf[job'[k].url]] + job'[k].left >= MinInterval
    BY DEF SleepsAreLongEnough, Phase, Host
  <2>1. k # j /\ job'[k] = job[k]
    BY <1>5, <1>6 DEF Alone
  <2>2. Holds(k, line[Host(k)])
    BY <1>2, <2>1 DEF HostLines, Active, Phase
  <2>3. Host(k) # Host(j)
    BY <1>4, <2>1, <2>2 DEF Holds
  <2>4. idle[Host(k)] + job[k].left >= MinInterval
    BY <1>2, <2>1 DEF SleepsAreLongEnough, Phase
  <2> QED BY <1>1, <1>2, <2>1, <2>3, <2>4 DEF TypeOK, Host
<1>11. Agreement'
  <2>1. ~(job[j].status \in {"restricted", "error"})
    BY <1>1, <1>2 DEF Agreement, RefusalIsFinal
  <2> QED BY <1>1, <1>2, <1>3, <1>5, <1>6, <2>1, AgreementKept DEF Phase
<1> QED BY <1>7, <1>8, <1>9, <1>10, <1>11 DEF IInv, Agreement

\* A validated job joins the line of the page.
LEMMA ValidateKeepsIInv ==
  ASSUME IInv, NEW j \in Jobs, Validate(j)
  PROVE  IInv'
<1>1. /\ Phase(j) = "opening"
      /\ job' = [job EXCEPT ![j].phase = "turn"]
      /\ browser' = Append(browser, j)
      /\ UNCHANGED <<idle, line, inflight, waits>>
  BY DEF Validate, Goto
<1>2. TypeOK /\ HostLines /\ PageLine /\ SleepsAreLongEnough /\ Agreement /\ JobsAreInOrder
  BY DEF IInv, Agreement
<1>3. /\ job[j] \in Job /\ Host(j) \in Hosts
      /\ job[j].attempt \in 1..AttemptsOf(j) /\ job[j].attempt \in 1..3
  BY <1>1, <1>2, JobFacts
<1>4. Append(browser, j) \in Seq(Jobs)
  BY <1>2 DEF TypeOK
<1>5. Alone(j) /\ job'[j] = [job[j] EXCEPT !.phase = "turn"]
  <2>1. [job[j] EXCEPT !.phase = "turn"] \in Job
    BY <1>1, <1>3, <1>4 DEF Job, Active, Statuses
  <2> QED BY <1>1, <1>2, <2>1 DEF Alone, TypeOK
<1>6. /\ job'[j].phase = "turn"
      /\ job'[j].url = job[j].url /\ job'[j].shot = job[j].shot
      /\ job'[j].attempt = job[j].attempt /\ job'[j].status = job[j].status
  BY <1>3, <1>5 DEF Job
<1>7. TypeOK'
  BY <1>1, <1>2, <1>3, <1>5, <1>4, SettingsAssumption DEF TypeOK, Alone
<1>8. HostLines'
  <2>1. Holds(j, line[Host(j)])
    BY <1>1, <1>2 DEF HostLines, Active
  <2> QED BY <1>1, <1>2, <1>5, <1>6, <2>1, HostLinesStay DEF InLine, Active, Phase
<1>9. PageLine'
  BY <1>1, <1>2, <1>5, <1>6, PageLineJoined DEF OnPage, Phase
<1>10. SleepsAreLongEnough'
  BY <1>1, <1>2, <1>5, <1>6, SleepsKept DEF Phase
<1>11. Agreement'
  <2>1. ~(job[j].status \in {"restricted", "error"})
    BY <1>1, <1>2 DEF Agreement, RefusalIsFinal
  <2> QED BY <1>1, <1>2, <1>3, <1>5, <1>6, <2>1, AgreementKept DEF Phase
<1> QED BY <1>7, <1>8, <1>9, <1>10, <1>11 DEF IInv, Agreement

\* The head of the page's line visits.
LEMMA VisitKeepsIInv ==
  ASSUME IInv, NEW j \in Jobs, Visit(j)
  PROVE  IInv'
<1>1. /\ Phase(j) = "turn" /\ Holds(j, browser)
      /\ job' = [job EXCEPT ![j].phase = "loading"]
      /\ UNCHANGED <<idle, line, inflight, browser, waits>>
  BY DEF Visit, Goto
<1>2. TypeOK /\ HostLines /\ PageLine /\ SleepsAreLongEnough /\ Agreement /\ JobsAreInOrder
  BY DEF IInv, Agreement
<1>3. /\ job[j] \in Job /\ Host(j) \in Hosts
      /\ job[j].attempt \in 1..AttemptsOf(j) /\ job[j].attempt \in 1..3
  BY <1>1, <1>2, JobFacts
<1>4. Phase(j) \in Active
  BY <1>1 DEF Active
<1>5. Alone(j) /\ job'[j] = [job[j] EXCEPT !.phase = "loading"]
  <2>1. [job[j] EXCEPT !.phase = "loading"] \in Job
    BY <1>1, <1>3, <1>4 DEF Job, Active, Statuses
  <2> QED BY <1>1, <1>2, <2>1 DEF Alone, TypeOK
<1>6. /\ job'[j].phase = "loading"
      /\ job'[j].url = job[j].url /\ job'[j].shot = job[j].shot
      /\ job'[j].attempt = job[j].attempt /\ job'[j].status = job[j].status
  BY <1>3, <1>5 DEF Job
<1>7. TypeOK'
  BY <1>1, <1>2, <1>3, <1>5, SettingsAssumption DEF TypeOK, Alone
<1>8. HostLines'
  <2>1. Holds(j, line[Host(j)])
    BY <1>1, <1>2 DEF HostLines, Active
  <2> QED BY <1>1, <1>2, <1>5, <1>6, <2>1, HostLinesStay DEF InLine, Active, Phase
<1>9. PageLine'
  BY <1>1, <1>2, <1>5, <1>6, PageLineStays DEF OnPage, Phase
<1>10. SleepsAreLongEnough'
  BY <1>1, <1>2, <1>5, <1>6, SleepsKept DEF Phase
<1>11. Agreement'
  <2>1. ~(job[j].status \in {"restricted", "error"})
    BY <1>1, <1>2 DEF Agreement, RefusalIsFinal
  <2> QED BY <1>1, <1>2, <1>3, <1>5, <1>6, <2>1, AgreementKept DEF Phase
<1> QED BY <1>7, <1>8, <1>9, <1>10, <1>11 DEF IInv, Agreement

\* A job that is done leaves the line of its host, and the page if it was there.
LEMMA FinishKeepsIInv ==
  ASSUME IInv, NEW j \in Jobs, NEW status \in Statuses \ {"none"},
         Phase(j) \in {"opening", "loading"},
         \/ Phase(j) = "opening" /\ browser' = browser
         \/ browser' = Leave(browser, j),
         UNCHANGED <<idle, inflight, waits>>, Finish(j, status)
  PROVE  IInv'
<1>1. /\ Phase(j) \in {"opening", "loading"}
      /\ job' = [job EXCEPT ![j].phase = "done", ![j].status = status]
      /\ line' = [line EXCEPT ![Host(j)] = Leave(@, j)]
  BY DEF Finish
<1>2. TypeOK /\ HostLines /\ PageLine /\ SleepsAreLongEnough /\ Agreement /\ JobsAreInOrder
  BY DEF IInv, Agreement
<1>3. /\ job[j] \in Job /\ Host(j) \in Hosts
      /\ job[j].attempt \in 1..AttemptsOf(j) /\ job[j].attempt \in 1..3
  BY <1>1, <1>2, JobFacts
<1>4. Phase(j) # "settled"
  BY <1>1
<1>5. Alone(j) /\ job'[j] = [job[j] EXCEPT !.phase = "done", !.status = status]
  <2>1. [job[j] EXCEPT !.phase = "done", !.status = status] \in Job
    BY <1>1, <1>3, <1>4 DEF Job, Active, Statuses
  <2> QED BY <1>1, <1>2, <2>1 DEF Alone, TypeOK
<1>6. /\ job'[j].phase = "done" /\ job'[j].status = status
      /\ job'[j].url = job[j].url /\ job'[j].shot = job[j].shot
      /\ job'[j].attempt = job[j].attempt
  BY <1>3, <1>5 DEF Job
<1>7. TypeOK'
  <2>1. ~InLine(j)'
    BY <1>6 DEF InLine, Active, Phase
  <2>2. line' \in [Hosts -> Seq(Jobs)]
    BY <1>1, <1>2, <1>5, <2>1, HostLineLeft
  <2>3. browser' \in Seq(Jobs)
    BY <1>1, <1>2, LeaveIsLine DEF TypeOK
  <2> QED BY <1>1, <1>2, <1>5, <2>2, <2>3 DEF TypeOK, Alone
<1>8. HostLines'
  <2>1. ~InLine(j)'
    BY <1>6 DEF InLine, Active, Phase
  <2> QED BY <1>1, <1>2, <1>5, <2>1, HostLineLeft
<1>9. PageLine'
  <2>1. ~OnPage(j)'
    BY <1>6 DEF OnPage, Phase
  <2>2. CASE browser' = Leave(browser, j)
    BY <1>2, <1>5, <2>1, <2>2, PageLineLeft
  <2>3. CASE Phase(j) = "opening" /\ browser' = browser
    BY <1>2, <1>5, <2>1, <2>3, PageLineStays DEF OnPage
  <2> QED BY <2>2, <2>3
<1>10. SleepsAreLongEnough'
  BY <1>1, <1>2, <1>5, <1>6, SleepsKept DEF Phase
<1>11. Agreement'
  BY <1>1, <1>2, <1>3, <1>5, <1>6, AgreementKept DEF Phase
<1> QED BY <1>7, <1>8, <1>9, <1>10, <1>11 DEF IInv, Agreement

\* Every way to be done keeps the invariant.
LEMMA EndsKeepIInv ==
  ASSUME IInv, NEW j \in Jobs, Refuse(j) \/ Answer(j) \/ Exhaust(j)
  PROVE  IInv'
<1>1. CASE Refuse(j)
  <2>1. "error" \in Statuses \ {"none"}
    BY DEF Statuses
  <2> QED BY <1>1, <2>1, FinishKeepsIInv DEF Refuse
<1>2. CASE Answer(j)
  <2>1. PICK status \in {"page", "restricted", "error"} : Finish(j, status)
    BY <1>2 DEF Answer
  <2>2. status \in Statuses \ {"none"}
    BY DEF Statuses
  <2> QED BY <1>2, <2>1, <2>2, FinishKeepsIInv DEF Answer
<1>3. CASE Exhaust(j)
  <2>1. PICK status \in Retryable : Finish(j, status)
    BY <1>3 DEF Exhaust
  <2>2. status \in Statuses \ {"none"}
    BY DEF Statuses, Retryable
  <2> QED BY <1>3, <2>1, <2>2, FinishKeepsIInv DEF Exhaust
<1> QED BY <1>1, <1>2, <1>3

\* A job that backs off keeps its host, not the page.
LEMMA BackOffKeepsIInv ==
  ASSUME IInv, NEW j \in Jobs, BackOff(j)
  PROVE  IInv'
<1>1. /\ Phase(j) = "loading" /\ job[j].attempt < AttemptsOf(j)
      /\ job' = [job EXCEPT ![j].phase = "backoff", ![j].status = "transient",
                            ![j].left = Delay(job[j].attempt)]
      /\ browser' = Leave(browser, j)
      /\ UNCHANGED <<idle, line, inflight, waits>>
  BY DEF BackOff, Retryable
<1>2. TypeOK /\ HostLines /\ PageLine /\ SleepsAreLongEnough /\ Agreement /\ JobsAreInOrder
  BY DEF IInv, Agreement
<1>3. /\ job[j] \in Job /\ Host(j) \in Hosts
      /\ job[j].attempt \in 1..AttemptsOf(j) /\ job[j].attempt \in 1..3
  BY <1>1, <1>2, JobFacts
<1>4. Delay(job[j].attempt) \in Nat /\ browser' \in Seq(Jobs)
  BY <1>1, <1>2, <1>3, WaitsAreNatural, LeaveIsLine DEF TypeOK
<1>5. Alone(j) /\ job'[j] = [job[j] EXCEPT !.phase = "backoff", !.status = "transient",
                                           !.left = Delay(job[j].attempt)]
  <2>1. [job[j] EXCEPT !.phase = "backoff", !.status = "transient",
                                           !.left = Delay(job[j].attempt)] \in Job
    BY <1>1, <1>3, <1>4 DEF Job, Active, Statuses
  <2> QED BY <1>1, <1>2, <2>1 DEF Alone, TypeOK
<1>6. /\ job'[j].phase = "backoff" /\ job'[j].status = "transient"
      /\ job'[j].url = job[j].url /\ job'[j].shot = job[j].shot
      /\ job'[j].attempt = job[j].attempt
  BY <1>3, <1>5 DEF Job
<1>7. TypeOK'
  BY <1>1, <1>2, <1>3, <1>5, <1>4, SettingsAssumption DEF TypeOK, Alone
<1>8. HostLines'
  <2>1. Holds(j, line[Host(j)])
    BY <1>1, <1>2 DEF HostLines, Active
  <2> QED BY <1>1, <1>2, <1>5, <1>6, <2>1, HostLinesStay DEF InLine, Active, Phase
<1>9. PageLine'
  BY <1>1, <1>2, <1>5, <1>6, PageLineLeft DEF OnPage, Phase
<1>10. SleepsAreLongEnough'
  BY <1>1, <1>2, <1>5, <1>6, SleepsKept DEF Phase
<1>11. Agreement'
  BY <1>1, <1>2, <1>3, <1>5, <1>6, AgreementKept DEF Phase
<1> QED BY <1>7, <1>8, <1>9, <1>10, <1>11 DEF IInv, Agreement

\* The sleep before another attempt lasts what is left of the interval.
LEMMA RetryKeepsIInv ==
  ASSUME IInv, NEW j \in Jobs, Retry(j)
  PROVE  IInv'
<1>1. /\ Phase(j) = "backoff"
      /\ job' = [job EXCEPT ![j].phase = "pacing", ![j].attempt = @ + 1,
                            ![j].left = SlotWait(Host(j))]
      /\ UNCHANGED <<idle, line, inflight, browser, waits>>
  BY DEF Retry
<1>2. TypeOK /\ HostLines /\ PageLine /\ SleepsAreLongEnough /\ Agreement /\ JobsAreInOrder
  BY DEF IInv, Agreement
<1>3. /\ job[j] \in Job /\ Host(j) \in Hosts
      /\ job[j].attempt \in 1..AttemptsOf(j) /\ job[j].attempt \in 1..3
  BY <1>1, <1>2, JobFacts
<1>4. /\ SlotWait(Host(j)) \in Nat /\ idle[Host(j)] + SlotWait(Host(j)) = MinInterval
      /\ job[j].attempt + 1 \in 1..AttemptsOf(j) /\ job[j].attempt + 1 \in 0..3
  <2>1. job[j].attempt < AttemptsOf(j)
    BY <1>1, <1>2 DEF JobsAreInOrder
  <2> QED BY <1>2, <1>3, <2>1, WaitsAreNatural, AttemptsBound
<1>5. Alone(j) /\ job'[j] = [job[j] EXCEPT !.phase = "pacing", !.attempt = @ + 1,
                                           !.left = SlotWait(Host(j))]
  <2>1. [job[j] EXCEPT !.phase = "pacing", !.attempt = @ + 1,
                                           !.left = SlotWait(Host(j))] \in Job
    BY <1>1, <1>3, <1>4 DEF Job, Active, Statuses
  <2> QED BY <1>1, <1>2, <2>1 DEF Alone, TypeOK
<1>6. /\ job'[j].phase = "pacing" /\ job'[j].left = SlotWait(Host(j))
      /\ job'[j].url = job[j].url /\ job'[j].shot = job[j].shot
      /\ job'[j].attempt = job[j].attempt + 1 /\ job'[j].status = job[j].status
  BY <1>3, <1>5 DEF Job
<1>7. TypeOK'
  BY <1>1, <1>2, <1>3, <1>5, SettingsAssumption DEF TypeOK, Alone
<1>8. HostLines'
  <2>1. Holds(j, line[Host(j)])
    BY <1>1, <1>2 DEF HostLines, Active
  <2> QED BY <1>1, <1>2, <1>5, <1>6, <2>1, HostLinesStay DEF InLine, Active, Phase
<1>9. PageLine'
  BY <1>1, <1>2, <1>5, <1>6, PageLineStays DEF OnPage, Phase
<1>10. SleepsAreLongEnough'
  <2>1. idle[HostOf[job'[j].url]] + job'[j].left >= MinInterval
    BY <1>4, <1>6, SettingsAssumption DEF Host
  <2> QED BY <1>1, <1>2, <1>5, <2>1, SleepsKept
<1>11. Agreement'
  <2>1. ~(job[j].status \in {"restricted", "error"})
    BY <1>1, <1>2 DEF Agreement, RefusalIsFinal
  <2> QED BY <1>1, <1>2, <1>3, <1>4, <1>5, <1>6, <2>1, AgreementKept DEF Phase
<1> QED BY <1>7, <1>8, <1>9, <1>10, <1>11 DEF IInv, Agreement

\* A job that is over takes its own entry with it and nothing else.
LEMMA SettleKeepsIInv == ASSUME IInv, NEW j \in Jobs, Settle(j) PROVE IInv'
<1>1. /\ Phase(j) = "done"
      /\ inflight' = IF job[j].shot THEN inflight ELSE [inflight EXCEPT ![job[j].url] = NoJob]
      /\ job' = [job EXCEPT ![j] = Settled(job[j].status)]
      /\ UNCHANGED <<idle, line, browser, waits>>
  BY DEF Settle
<1>2. TypeOK /\ HostLines /\ PageLine /\ SleepsAreLongEnough /\ Agreement /\ JobsAreInOrder
  BY DEF IInv, Agreement
<1>3. job[j] \in Job /\ job[j].url \in Urls /\ job[j].status # "none"
  BY <1>1, <1>2, JobFacts DEF JobsAreInOrder
<1>4. Alone(j) /\ job'[j] = Settled(job[j].status)
  <2>1. Settled(job[j].status) \in Job
    BY <1>3 DEF Job, Settled
  <2> QED BY <1>1, <1>2, <2>1 DEF Alone, TypeOK
<1>5. /\ job'[j].phase = "settled" /\ ~job'[j].shot /\ job'[j].status = job[j].status
      /\ job'[j] = Settled(job'[j].status)
  BY <1>4 DEF Settled
<1>6. /\ inflight' \in [Urls -> Jobs \union {NoJob}]
      /\ \A u \in Urls : inflight'[u] = IF ~job[j].shot /\ u = job[j].url
                                        THEN NoJob ELSE inflight[u]
  BY <1>1, <1>2, <1>3 DEF TypeOK
<1>7. TypeOK'
  BY <1>1, <1>2, <1>4, <1>6 DEF TypeOK, Alone
<1>8. HostLines'
  BY <1>1, <1>2, <1>4, <1>5, HostLinesStay DEF InLine, Active, Phase
<1>9. PageLine'
  BY <1>1, <1>2, <1>4, <1>5, PageLineStays DEF OnPage, Phase
<1>10. SleepsAreLongEnough'
  BY <1>1, <1>2, <1>4, <1>5, SleepsKept DEF Phase
<1>11. JobsAreInOrder'
  <2> SUFFICES ASSUME NEW k \in Jobs
               PROVE  /\ IF job'[k].phase = "settled"
                         THEN job'[k] = Settled(job'[k].status)
                         ELSE /\ job'[k].url \in Urls
                              /\ job'[k].attempt \in 1..(IF job'[k].shot THEN 1 ELSE MaxAttempts)
                      /\ job'[k].phase = "backoff" =>
                           job'[k].attempt < (IF job'[k].shot THEN 1 ELSE MaxAttempts)
                      /\ job'[k].phase = "done" => job'[k].status # "none"
    BY DEF JobsAreInOrder, AttemptsOf, Phase, Settled
  <2>1. CASE k # j
    BY <1>2, <1>4, <2>1 DEF Alone, JobsAreInOrder, AttemptsOf, Phase
  <2>2. CASE k = j
    BY <1>5, <2>2
  <2> QED BY <2>1, <2>2
<1>12. ScreenshotsAreOwn'
  BY <1>1, <1>2, <1>4, <1>5 DEF TypeOK, Agreement, ScreenshotsAreOwn, Alone
<1>13. InflightIsCurrent'
  <2>1. ASSUME NEW u \in Urls, inflight'[u] # NoJob
        PROVE  /\ job'[inflight'[u]].url = u
               /\ ~job'[inflight'[u]].shot
               /\ job'[inflight'[u]].phase # "settled"
    <3>1. /\ inflight'[u] = inflight[u] /\ inflight[u] \in Jobs
          /\ job[inflight[u]].url = u /\ ~job[inflight[u]].shot
          /\ job[inflight[u]].phase # "settled"
      BY <1>2, <1>6, <2>1 DEF TypeOK, Agreement, InflightIsCurrent, Phase
    <3>2. inflight[u] # j
      BY <1>6, <2>1, <3>1
    <3> QED BY <1>4, <3>1, <3>2 DEF Alone
  <2>2. ASSUME NEW k \in Jobs, job'[k].phase # "settled", ~job'[k].shot
        PROVE  inflight'[job'[k].url] = k
    <3>1. k # j /\ job'[k] = job[k]
      BY <1>4, <1>5, <2>2 DEF Alone
    <3>2. job[k].url \in Urls /\ inflight[job[k].url] = k
      BY <1>2, <2>2, <3>1 DEF Agreement, InflightIsCurrent, JobsAreInOrder, Phase
    <3>3. ~job[j].shot => inflight[job[j].url] = j
      BY <1>1, <1>2 DEF Agreement, InflightIsCurrent
    <3> QED BY <1>6, <3>1, <3>2, <3>3
  <2> QED BY <2>1, <2>2 DEF InflightIsCurrent, Phase
<1>14. RefusalIsFinal'
  BY <1>2, <1>4, <1>5 DEF Agreement, RefusalIsFinal, Alone, Phase
<1>15. AnswersSurviveCancellation'
  BY <1>1, <1>2, <1>3, <1>4, <1>5 DEF TypeOK, Agreement, AnswersSurviveCancellation, Alone, Phase
<1> QED BY <1>7, <1>8, <1>9, <1>10, <1>11, <1>12, <1>13, <1>14, <1>15 DEF IInv

-----------------------------------------------------------------------------
(***************************************************************************)
(* The steps of the callers and of the clock.                              *)
(***************************************************************************)

\* Nobody starts to wait for anything but a shared collection under way.
LEMMA WaitingKeepsIInv ==
  ASSUME IInv, UNCHANGED <<idle, line, inflight, browser, job>>,
         waits' \in [Callers -> Jobs \union {NoJob}],
         \A c \in Callers :
           \/ waits'[c] \in {NoJob, waits[c]}
           \/ waits'[c] \in Jobs /\ ~job[waits'[c]].shot /\ Phase(waits'[c]) # "settled"
  PROVE  IInv'
<1>1. TypeOK'
  BY DEF IInv, TypeOK
<1>2. HostLines' /\ PageLine'
  BY DEF IInv, HostLines, PageLine, Phase, Host
<1>3. SleepsAreLongEnough' /\ JobsAreInOrder'
  BY DEF IInv, SleepsAreLongEnough, JobsAreInOrder, Phase, Host, AttemptsOf
<1>4. ScreenshotsAreOwn'
  BY DEF IInv, ScreenshotsAreOwn
<1>5. InflightIsCurrent' /\ RefusalIsFinal'
  BY DEF IInv, InflightIsCurrent, RefusalIsFinal, Phase
<1>6. AnswersSurviveCancellation'
  BY DEF IInv, AnswersSurviveCancellation, Phase
<1> QED BY <1>1, <1>2, <1>3, <1>4, <1>5, <1>6 DEF IInv

\* Sharing, receiving and giving up a shared collection only change who waits.
LEMMA CallersKeepIInv ==
  ASSUME IInv, NEW c \in Callers,
         (\E u \in Urls : Share(c, u)) \/ Receive(c) \/ CancelShared(c)
  PROVE  IInv'
<1>1. CASE \E u \in Urls : Share(c, u)
  <2>1. PICK u \in Urls : Share(c, u)
    BY <1>1
  <2>2. inflight[u] \in Jobs /\ ~job[inflight[u]].shot /\ Phase(inflight[u]) # "settled"
    BY <2>1 DEF IInv, TypeOK, InflightIsCurrent, Share
  <2>3. /\ waits' \in [Callers -> Jobs \union {NoJob}]
        /\ \A d \in Callers : waits'[d] = IF d = c THEN inflight[u] ELSE waits[d]
    BY <2>1, <2>2 DEF Share, IInv, TypeOK
  <2>4. UNCHANGED <<idle, line, inflight, browser, job>>
    BY <2>1 DEF Share
  <2> QED BY <2>2, <2>3, <2>4, WaitingKeepsIInv
<1>2. CASE Receive(c) \/ CancelShared(c)
  <2>1. /\ waits' \in [Callers -> Jobs \union {NoJob}]
        /\ \A d \in Callers : waits'[d] = IF d = c THEN NoJob ELSE waits[d]
    BY <1>2 DEF Receive, CancelShared, IInv, TypeOK
  <2>2. UNCHANGED <<idle, line, inflight, browser, job>>
    BY <1>2 DEF Receive, CancelShared
  <2> QED BY <2>1, <2>2, WaitingKeepsIInv
<1> QED BY <1>1, <1>2

\* A new collection takes a name nobody uses or awaits, and the entry of its
\* URL unless it is a screenshot request.
LEMMA OpenNewKeepsIInv ==
  ASSUME IInv, NEW c \in Callers, NEW u \in Urls, NEW shot \in BOOLEAN, NEW j \in Jobs,
         OpenNew(c, u, shot, j)
  PROVE  IInv'
<1> DEFINE new == [phase |-> "queued", url |-> u, shot |-> shot, attempt |-> 1,
                   left |-> 0, status |-> "none"]
<1>1. /\ waits[c] = NoJob
      /\ shot \/ inflight[u] = NoJob
      /\ Phase(j) = "settled" /\ \A d \in Callers : waits[d] # j
      /\ job' = [job EXCEPT ![j] = new]
      /\ line' = [line EXCEPT ![HostOf[u]] = Append(@, j)]
      /\ inflight' = IF shot THEN inflight ELSE [inflight EXCEPT ![u] = j]
      /\ waits' = [waits EXCEPT ![c] = j]
      /\ UNCHANGED <<idle, browser>>
  BY DEF OpenNew, Reusable
<1>2. TypeOK /\ HostLines /\ PageLine /\ SleepsAreLongEnough /\ Agreement /\ JobsAreInOrder
  BY DEF IInv, Agreement
<1>3. Alone(j) /\ job'[j] = new
  <2>1. new \in Job
    BY DEF Job, Statuses
  <2> QED BY <1>1, <1>2, <2>1 DEF Alone, TypeOK
<1>4. /\ job'[j].phase = "queued" /\ job'[j].url = u /\ job'[j].shot = shot
      /\ job'[j].attempt = 1 /\ job'[j].status = "none"
  BY <1>3
<1> HIDE DEF new
<1>5. /\ inflight' \in [Urls -> Jobs \union {NoJob}]
      /\ \A v \in Urls : inflight'[v] = IF ~shot /\ v = u THEN j ELSE inflight[v]
  BY <1>1, <1>2 DEF TypeOK
<1>6. /\ waits' \in [Callers -> Jobs \union {NoJob}]
      /\ \A d \in Callers : waits'[d] = IF d = c THEN j ELSE waits[d]
  BY <1>1, <1>2 DEF TypeOK
<1>7. HostLines' /\ line' \in [Hosts -> Seq(Jobs)]
  <2>1. line' = [line EXCEPT ![HostOf[job'[j].url]] = Append(@, j)]
    BY <1>1, <1>4
  <2> QED BY <1>1, <1>2, <1>3, <1>4, <2>1, HostLineJoined DEF Phase, Host
<1>8. TypeOK'
  BY <1>1, <1>2, <1>3, <1>5, <1>6, <1>7 DEF TypeOK, Alone
<1>9. PageLine'
  BY <1>1, <1>2, <1>3, <1>4, PageLineStays DEF OnPage, Phase
<1>10. SleepsAreLongEnough'
  BY <1>1, <1>2, <1>3, <1>4, SleepsKept DEF Phase
<1>11. JobsAreInOrder'
  <2> SUFFICES ASSUME NEW k \in Jobs
               PROVE  /\ IF job'[k].phase = "settled"
                         THEN job'[k] = Settled(job'[k].status)
                         ELSE /\ job'[k].url \in Urls
                              /\ job'[k].attempt \in 1..(IF job'[k].shot THEN 1 ELSE MaxAttempts)
                      /\ job'[k].phase = "backoff" =>
                           job'[k].attempt < (IF job'[k].shot THEN 1 ELSE MaxAttempts)
                      /\ job'[k].phase = "done" => job'[k].status # "none"
    BY DEF JobsAreInOrder, AttemptsOf, Phase, Settled
  <2>1. CASE k # j
    BY <1>2, <1>3, <2>1 DEF Alone, JobsAreInOrder, AttemptsOf, Phase
  <2>2. CASE k = j
    BY <1>4, <2>2, SettingsAssumption
  <2> QED BY <2>1, <2>2
<1>12. ScreenshotsAreOwn'
  <2> SUFFICES ASSUME NEW a \in Callers, NEW b \in Callers,
                      waits'[a] # NoJob, waits'[a] = waits'[b], job'[waits'[a]].shot
               PROVE  a = b
    BY DEF ScreenshotsAreOwn
  <2>1. CASE waits'[a] = j
    BY <1>1, <1>6, <2>1
  <2>2. CASE waits'[a] # j
    <3>1. waits'[a] = waits[a] /\ waits'[b] = waits[b] /\ waits[a] \in Jobs
      BY <1>2, <1>6, <2>2 DEF TypeOK
    <3> QED BY <1>2, <1>3, <2>2, <3>1 DEF Agreement, ScreenshotsAreOwn, Alone
  <2> QED BY <2>1, <2>2
<1>13. InflightIsCurrent'
  <2>1. ASSUME NEW v \in Urls, inflight'[v] # NoJob
        PROVE  /\ job'[inflight'[v]].url = v
               /\ ~job'[inflight'[v]].shot
               /\ job'[inflight'[v]].phase # "settled"
    <3>1. CASE ~shot /\ v = u
      BY <1>4, <1>5, <3>1
    <3>2. CASE shot \/ v # u
      <4>1. /\ inflight'[v] = inflight[v] /\ inflight[v] \in Jobs
            /\ job[inflight[v]].url = v /\ ~job[inflight[v]].shot
            /\ job[inflight[v]].phase # "settled"
        BY <1>2, <1>5, <2>1, <3>2 DEF TypeOK, Agreement, InflightIsCurrent, Phase
      <4>2. inflight[v] # j
        BY <1>1, <4>1 DEF Phase
      <4> QED BY <1>3, <4>1, <4>2 DEF Alone
    <3> QED BY <3>1, <3>2
  <2>2. ASSUME NEW k \in Jobs, job'[k].phase # "settled", ~job'[k].shot
        PROVE  inflight'[job'[k].url] = k
    <3>1. CASE k = j
      BY <1>4, <1>5, <2>2, <3>1
    <3>2. CASE k # j
      <4>1. job'[k] = job[k]
        BY <1>3, <3>2 DEF Alone
      <4>2. job[k].url \in Urls /\ inflight[job[k].url] = k
        BY <1>2, <2>2, <4>1 DEF Agreement, InflightIsCurrent, JobsAreInOrder, Phase
      <4>3. k # NoJob
        BY NoJobAssumption
      <4> QED BY <1>1, <1>5, <4>1, <4>2, <4>3
    <3> QED BY <3>1, <3>2
  <2> QED BY <2>1, <2>2 DEF InflightIsCurrent, Phase
<1>14. RefusalIsFinal'
  BY <1>2, <1>3, <1>4 DEF Agreement, RefusalIsFinal, Alone, Phase
<1>15. AnswersSurviveCancellation'
  <2> SUFFICES ASSUME NEW d \in Callers, waits'[d] # NoJob, job'[waits'[d]].phase = "settled"
               PROVE  job'[waits'[d]].status # "none"
    BY DEF AnswersSurviveCancellation, Phase
  <2>1. waits'[d] # j /\ waits'[d] = waits[d] /\ waits[d] \in Jobs
    BY <1>2, <1>4, <1>6 DEF TypeOK
  <2> QED BY <1>2, <1>3, <2>1 DEF Agreement, AnswersSurviveCancellation, Alone, Phase
<1> QED BY <1>7, <1>8, <1>9, <1>10, <1>11, <1>12, <1>13, <1>14, <1>15 DEF IInv

\* A cancelled screenshot request leaves both lines wherever it stood.
LEMMA CancelScreenshotKeepsIInv ==
  ASSUME IInv, NEW c \in Callers, CancelScreenshot(c)
  PROVE  IInv'
<1>1. PICK j \in Jobs :
        /\ j = waits[c] /\ j # NoJob /\ job[j].shot
        /\ line' = [line EXCEPT ![Host(j)] = Leave(@, j)]
        /\ browser' = Leave(browser, j)
        /\ job' = [job EXCEPT ![j] = Settled(job[j].status)]
        /\ waits' = [waits EXCEPT ![c] = NoJob]
        /\ UNCHANGED <<idle, inflight>>
  BY DEF CancelScreenshot, IInv, TypeOK
<1>2. TypeOK /\ HostLines /\ PageLine /\ SleepsAreLongEnough /\ Agreement /\ JobsAreInOrder
  BY DEF IInv, Agreement
<1>3. j \in Jobs
  OBVIOUS
<1>4. Phase(j) # "settled" /\ job[j] \in Job
  BY <1>1, <1>2, JobFacts DEF JobsAreInOrder, Settled
<1>5. Alone(j) /\ job'[j] = Settled(job[j].status)
  <2>1. Settled(job[j].status) \in Job
    BY <1>4 DEF Job, Settled
  <2> QED BY <1>1, <1>2, <1>3, <2>1 DEF Alone, TypeOK
<1>6. /\ job'[j].phase = "settled" /\ ~job'[j].shot /\ job'[j].status = job[j].status
      /\ job'[j] = Settled(job'[j].status)
  BY <1>5 DEF Settled
<1>7. /\ waits' \in [Callers -> Jobs \union {NoJob}]
      /\ \A d \in Callers : waits'[d] = IF d = c THEN NoJob ELSE waits[d]
  BY <1>1, <1>2 DEF TypeOK
<1>8. HostLines' /\ line' \in [Hosts -> Seq(Jobs)]
  <2>1. ~InLine(j)'
    BY <1>6 DEF InLine, Active, Phase
  <2> QED BY <1>1, <1>2, <1>3, <1>4, <1>5, <2>1, HostLineLeft
<1>9. PageLine' /\ browser' \in Seq(Jobs)
  <2>1. ~OnPage(j)'
    BY <1>6 DEF OnPage, Phase
  <2> QED BY <1>1, <1>2, <1>3, <1>5, <2>1, PageLineLeft
<1>10. TypeOK'
  BY <1>1, <1>2, <1>5, <1>7, <1>8, <1>9 DEF TypeOK, Alone
<1>11. SleepsAreLongEnough'
  BY <1>1, <1>2, <1>3, <1>5, <1>6, SleepsKept DEF Phase
<1>12. JobsAreInOrder'
  <2> SUFFICES ASSUME NEW k \in Jobs
               PROVE  /\ IF job'[k].phase = "settled"
                         THEN job'[k] = Settled(job'[k].status)
                         ELSE /\ job'[k].url \in Urls
                              /\ job'[k].attempt \in 1..(IF job'[k].shot THEN 1 ELSE MaxAttempts)
                      /\ job'[k].phase = "backoff" =>
                           job'[k].attempt < (IF job'[k].shot THEN 1 ELSE MaxAttempts)
                      /\ job'[k].phase = "done" => job'[k].status # "none"
    BY DEF JobsAreInOrder, AttemptsOf, Phase, Settled
  <2>1. CASE k # j
    BY <1>2, <1>5, <2>1 DEF Alone, JobsAreInOrder, AttemptsOf, Phase
  <2>2. CASE k = j
    BY <1>6, <2>2
  <2> QED BY <2>1, <2>2
<1>13. ScreenshotsAreOwn'
  <2> SUFFICES ASSUME NEW a \in Callers, NEW b \in Callers,
                      waits'[a] # NoJob, waits'[a] = waits'[b], job'[waits'[a]].shot
               PROVE  a = b
    BY DEF ScreenshotsAreOwn
  <2>1. waits'[a] = waits[a] /\ waits'[b] = waits[b] /\ waits[a] \in Jobs
    BY <1>2, <1>7 DEF TypeOK
  <2>2. waits[a] # j
    BY <1>6, <2>1
  <2> QED BY <1>2, <1>5, <2>1, <2>2 DEF Agreement, ScreenshotsAreOwn, Alone
<1>14. InflightIsCurrent'
  <2>1. ASSUME NEW u \in Urls, inflight[u] # NoJob
        PROVE  /\ inflight[u] \in Jobs /\ inflight[u] # j
    BY <1>1, <1>2, <2>1 DEF TypeOK, Agreement, InflightIsCurrent
  <2>2. \A k \in Jobs : job'[k].phase # "settled" => k # j
    BY <1>6
  <2> QED BY <1>1, <1>2, <1>5, <2>1, <2>2
          DEF Agreement, InflightIsCurrent, Alone, Phase
<1>15. RefusalIsFinal'
  BY <1>2, <1>5, <1>6 DEF Agreement, RefusalIsFinal, Alone, Phase
<1>16. AnswersSurviveCancellation'
  <2> SUFFICES ASSUME NEW d \in Callers, waits'[d] # NoJob, job'[waits'[d]].phase = "settled"
               PROVE  job'[waits'[d]].status # "none"
    BY DEF AnswersSurviveCancellation, Phase
  <2>1. d # c /\ waits'[d] = waits[d] /\ waits[d] \in Jobs
    BY <1>2, <1>7 DEF TypeOK
  <2>2. waits[d] # j
    BY <1>1, <1>2, <2>1 DEF Agreement, ScreenshotsAreOwn
  <2> QED BY <1>2, <1>5, <2>1, <2>2 DEF Agreement, AnswersSurviveCancellation, Alone, Phase
<1> QED BY <1>8, <1>9, <1>10, <1>11, <1>12, <1>13, <1>14, <1>15, <1>16 DEF IInv

\* As a second passes, what is left of a sleep shrinks no faster than the time
\* since the last start of the host grows.
LEMMA TickKeepsIInv == ASSUME IInv, Tick PROVE IInv'
<1>1. /\ idle' = [h \in Hosts |-> Older(idle[h])]
      /\ \A k \in Jobs : job'[k] = IF Sleeping(k) THEN [job[k] EXCEPT !.left = @ - 1] ELSE job[k]
      /\ DOMAIN job' = Jobs /\ job' = [k \in Jobs |-> job'[k]]
      /\ UNCHANGED <<line, inflight, browser, waits>>
  BY DEF Tick
<1>2. TypeOK /\ HostLines /\ PageLine /\ SleepsAreLongEnough /\ Agreement /\ JobsAreInOrder
  BY DEF IInv, Agreement
<1>3. \A h \in Hosts : idle'[h] \in 0..MinInterval
                       /\ (idle'[h] = idle[h] + 1 \/ idle'[h] = MinInterval)
  BY <1>1, <1>2, SettingsAssumption DEF TypeOK, Older
<1>4. ASSUME NEW k \in Jobs
      PROVE  /\ job'[k] \in Job
             /\ job'[k].phase = job[k].phase /\ job'[k].url = job[k].url
             /\ job'[k].shot = job[k].shot /\ job'[k].attempt = job[k].attempt
             /\ job'[k].status = job[k].status
             /\ job'[k].left = job[k].left \/ (job[k].left > 0 /\ job'[k].left = job[k].left - 1)
             /\ job[k].left \in Nat
             /\ Phase(k) = "settled" => job'[k] = job[k]
  <2>1. job[k] \in Job
    BY <1>2 DEF TypeOK
  <2>2. CASE Sleeping(k)
    <3>1. job'[k] = [job[k] EXCEPT !.left = @ - 1]
      BY <1>1, <2>2
    <3>2. job[k].left \in Nat /\ job[k].left > 0 /\ Phase(k) # "settled"
      BY <2>1, <2>2 DEF Job, Sleeping
    <3> QED BY <2>1, <3>1, <3>2 DEF Job
  <2>3. CASE ~Sleeping(k)
    BY <1>1, <2>1, <2>3 DEF Job
  <2> QED BY <2>2, <2>3
<1>5. TypeOK'
  <2>1. idle' \in [Hosts -> 0..MinInterval]
    BY <1>1, <1>3
  <2>2. job' \in [Jobs -> Job]
    BY <1>1, <1>4
  <2> QED BY <1>1, <1>2, <2>1, <2>2 DEF TypeOK
<1>6. HostLines'
  <2>1. \A h \in Hosts : \A i \in DOMAIN line[h] : line[h][i] \in Jobs
    BY <1>2 DEF TypeOK
  <2> QED BY <1>1, <1>2, <1>4, <2>1 DEF HostLines, Phase, Host
<1>7. PageLine'
  <2>1. \A i \in DOMAIN browser : browser[i] \in Jobs
    BY <1>2 DEF TypeOK
  <2> QED BY <1>1, <1>2, <1>4, <2>1 DEF PageLine, Phase
<1>8. SleepsAreLongEnough'
  <2> SUFFICES ASSUME NEW k \in Jobs, job'[k].phase = "pacing"
               PROVE  idle'[HostOf[job'[k].url]] + job'[k].left >= MinInterval
    BY DEF SleepsAreLongEnough, Phase, Host
  <2>1. /\ idle[Host(k)] + job[k].left >= MinInterval
        /\ Host(k) \in Hosts /\ Host(k) = HostOf[job'[k].url]
    <3>1. Phase(k) = "pacing"
      BY <1>4 DEF Phase
    <3> QED BY <1>2, <1>4, <3>1, JobFacts DEF SleepsAreLongEnough, Host
  <2>2. idle[Host(k)] \in Nat /\ job[k].left \in Nat /\ job'[k].left \in Nat
    BY <1>2, <1>4, <2>1, SettingsAssumption DEF TypeOK, Job
  <2> QED BY <1>3, <1>4, <2>1, <2>2, SettingsAssumption
<1>9. JobsAreInOrder'
  BY <1>2, <1>4 DEF JobsAreInOrder, AttemptsOf, Phase, Settled
<1>10. ScreenshotsAreOwn'
  BY <1>1, <1>2, <1>4 DEF TypeOK, Agreement, ScreenshotsAreOwn
<1>11. InflightIsCurrent'
  <2>1. \A u \in Urls : inflight[u] # NoJob => inflight[u] \in Jobs
    BY <1>2 DEF TypeOK
  <2> QED BY <1>1, <1>2, <1>4, <2>1 DEF Agreement, InflightIsCurrent, Phase
<1>12. RefusalIsFinal'
  BY <1>2, <1>4 DEF Agreement, RefusalIsFinal, Phase
<1>13. AnswersSurviveCancellation'
  BY <1>1, <1>2, <1>4 DEF TypeOK, Agreement, AnswersSurviveCancellation, Phase
<1> QED BY <1>5, <1>6, <1>7, <1>8, <1>9, <1>10, <1>11, <1>12, <1>13 DEF IInv

-----------------------------------------------------------------------------
\* The invariant holds at the start.
LEMMA InitIInv == Init => IInv
<1> SUFFICES ASSUME Init PROVE IInv
  OBVIOUS
<1>1. \A j \in Jobs : job[j] = Settled("none") /\ job[j].phase = "settled"
                      /\ job[j].status = "none" /\ ~job[j].shot
  BY DEF Init, Settled
<1>2. Settled("none") \in Job
  BY DEF Settled, Job, Statuses
<1>3. TypeOK
  <2>1. idle \in [Hosts -> 0..MinInterval]
    BY SettingsAssumption DEF Init
  <2>2. line \in [Hosts -> Seq(Jobs)] /\ browser \in Seq(Jobs)
    BY DEF Init
  <2> QED BY <1>2, <2>1, <2>2 DEF Init, TypeOK
<1>4. HostLines /\ PageLine
  BY <1>1 DEF Init, HostLines, PageLine, OncePerLine, Phase, Active
<1>5. SleepsAreLongEnough /\ JobsAreInOrder
  BY <1>1 DEF SleepsAreLongEnough, JobsAreInOrder, Phase
<1>6. ScreenshotsAreOwn /\ InflightIsCurrent /\ RefusalIsFinal /\ AnswersSurviveCancellation
  BY <1>1 DEF Init, ScreenshotsAreOwn, InflightIsCurrent, RefusalIsFinal,
              AnswersSurviveCancellation, Phase
<1> QED BY <1>3, <1>4, <1>5, <1>6 DEF IInv

\* Every step keeps it.
LEMMA NextKeepsIInv == IInv /\ [Next]_vars => IInv'
<1> SUFFICES ASSUME IInv, [Next]_vars PROVE IInv'
  OBVIOUS
<1>1. ASSUME NEW c \in Callers, CallerStep(c)
      PROVE  IInv'
  BY <1>1, CallersKeepIInv, OpenNewKeepsIInv, CancelScreenshotKeepsIInv DEF CallerStep
<1>2. ASSUME NEW j \in Jobs, JobStep(j)
      PROVE  IInv'
  BY <1>2, AcquireKeepsIInv, StartKeepsIInv, ValidateKeepsIInv, VisitKeepsIInv, EndsKeepIInv,
     BackOffKeepsIInv, RetryKeepsIInv, SettleKeepsIInv DEF JobStep
<1>3. CASE UNCHANGED vars
  BY <1>3 DEF vars, IInv, TypeOK, HostLines, PageLine, SleepsAreLongEnough, JobsAreInOrder,
              ScreenshotsAreOwn, InflightIsCurrent, RefusalIsFinal,
              AnswersSurviveCancellation, Phase, Host, AttemptsOf
<1> QED BY <1>1, <1>2, <1>3, TickKeepsIInv DEF Next

\* The inductive invariant of the page's collections.
THEOREM PagesInductive == Spec => []IInv
<1> QED BY InitIInv, NextKeepsIInv, PTL DEF Spec

\* Every variable of the collector keeps its type.
THEOREM PagesTypeCorrect == Spec => []TypeOK
<1>1. IInv => TypeOK
  BY DEF IInv
<1> QED BY PagesInductive, <1>1, PTL

\* An entry of _inflight is the collection of its URL under way, and every
\* shared collection has its entry.
THEOREM InflightCurrent == Spec => []InflightIsCurrent
<1>1. IInv => InflightIsCurrent
  BY DEF IInv
<1> QED BY PagesInductive, <1>1, PTL

\* A refused collection does not go on.
THEOREM RefusalsFinal == Spec => []RefusalIsFinal
<1>1. IInv => RefusalIsFinal
  BY DEF IInv
<1> QED BY PagesInductive, <1>1, PTL

\* Whoever awaits a collection that is over finds its answer.
THEOREM AnswersSurvive == Spec => []AnswersSurviveCancellation
<1>1. IInv => AnswersSurviveCancellation
  BY DEF IInv
<1> QED BY PagesInductive, <1>1, PTL

\* Starts at one host are at least the interval apart, for any number of hosts,
\* callers and collections and any settings.
THEOREM StartsArePaced == Spec => PacedStarts
<1>1. IInv /\ [Next]_vars =>
        [\A j \in Jobs :
           Phase(j) = "pacing" /\ Phase(j)' = "opening" => idle[Host(j)] >= MinInterval]_vars
  <2> SUFFICES ASSUME IInv, [Next]_vars, NEW j \in Jobs,
                      job[j].phase = "pacing", job'[j].phase = "opening"
               PROVE  idle[Host(j)] >= MinInterval
    BY DEF Phase
  <2>1. Start(j)
    <3>1. job'[j] # job[j] /\ j \in Jobs
      OBVIOUS
    <3>2. ASSUME NEW c \in Callers, CallerStep(c) PROVE FALSE
      BY <3>1, <3>2 DEF CallerStep, Share, OpenNew, Receive, CancelShared, CancelScreenshot,
                        Settled, IInv, TypeOK
    <3>3. ~Tick
      BY <3>1 DEF Tick, IInv, TypeOK, Job
    <3>4. ~UNCHANGED vars
      BY <3>1 DEF vars
    <3>5. PICK k \in Jobs : JobStep(k)
      BY <3>2, <3>3, <3>4 DEF Next
    <3>6. ASSUME ~Start(k)
          PROVE  job'[j] = job[j] \/ job'[j].phase # "opening"
      BY <3>5, <3>6 DEF JobStep, Acquire, Validate, Visit, Refuse, Answer, Exhaust, BackOff,
                        Retry, Settle, Goto, Finish, Settled, Retryable, IInv, TypeOK, Job
    <3>7. k = j
      BY <3>1, <3>6 DEF Start, IInv, TypeOK
    <3> QED BY <3>6, <3>7
  <2>2. Phase(j) = "pacing" /\ job[j].left = 0
    BY <2>1 DEF Start
  <2>3. idle[Host(j)] \in Int
    <3>1. Host(j) \in Hosts
      BY <2>2, JobFacts DEF IInv
    <3> QED BY <3>1, SettingsAssumption DEF IInv, TypeOK
  <2> QED BY <2>2, <2>3 DEF IInv, SleepsAreLongEnough
<1> QED BY PagesInductive, <1>1, PTL DEF Spec, PacedStarts


=============================================================================
