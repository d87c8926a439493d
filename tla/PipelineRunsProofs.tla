------------------------- MODULE PipelineRunsProofs -------------------------
(***************************************************************************)
(* Proofs that runs of the pipeline are behaviours of the store, that no   *)
(* two runs execute one stage and that a run's result is what its          *)
(* validator demands, for any clients and workflows.                       *)
(***************************************************************************)
EXTENDS PipelineRuns, WorkflowStoreProofs, SequenceTheorems

-----------------------------------------------------------------------------
(***************************************************************************)
(* The order of the stages.                                                *)
(***************************************************************************)

\* The sequence is the chain of NEXT_STATE from the validated request on.
LEMMA SequenceFacts ==
  /\ Len(Sequence) = 8 /\ DOMAIN Sequence = 1..8
  /\ \A j \in 1..7 : /\ Sequence[j] \in LiveStates
                     /\ NextState[Sequence[j]] = Sequence[j + 1]
                     /\ Sequence[j] # "completed"
  /\ Sequence[1] = "request_validated" /\ Sequence[7] = "report_rendered"
  /\ Sequence[8] = "completed"
  /\ \A j \in 2..7 : Sequence[j] \in StageStates
  /\ \A i, j \in 1..8 : Sequence[i] = Sequence[j] => i = j
  /\ \A j \in 1..8 : Sequence[j] \notin {"none", "failed", "request_received", "start", "get", "delete"}
  /\ Sequence \in Seq({Sequence[i] : i \in DOMAIN Sequence})
<1>1. Len(Sequence) = 8 /\ DOMAIN Sequence = 1..8
  BY DEF Sequence
<1>2. ASSUME NEW j \in 1..7
      PROVE  /\ Sequence[j] \in LiveStates
             /\ NextState[Sequence[j]] = Sequence[j + 1]
             /\ Sequence[j] # "completed"
  <2>1. j = 1 \/ j = 2 \/ j = 3 \/ j = 4 \/ j = 5 \/ j = 6 \/ j = 7
    OBVIOUS
  <2> QED BY <2>1 DEF Sequence, LiveStates, NextState
<1>3. /\ Sequence[1] = "request_validated" /\ Sequence[7] = "report_rendered"
      /\ Sequence[8] = "completed"
  BY DEF Sequence
<1>4. ASSUME NEW j \in 2..7
      PROVE  Sequence[j] \in StageStates
  <2>1. j = 2 \/ j = 3 \/ j = 4 \/ j = 5 \/ j = 6 \/ j = 7
    OBVIOUS
  <2> QED BY <2>1 DEF Sequence, StageStates
<1>5. ASSUME NEW i \in 1..8, NEW j \in 1..8, Sequence[i] = Sequence[j]
      PROVE  i = j
  <2>1. i = 1 \/ i = 2 \/ i = 3 \/ i = 4 \/ i = 5 \/ i = 6 \/ i = 7 \/ i = 8
    OBVIOUS
  <2>2. j = 1 \/ j = 2 \/ j = 3 \/ j = 4 \/ j = 5 \/ j = 6 \/ j = 7 \/ j = 8
    OBVIOUS
  <2> QED BY <1>5, <2>1, <2>2 DEF Sequence
<1>6. ASSUME NEW j \in 1..8
      PROVE  Sequence[j] \notin {"none", "failed", "request_received", "start", "get", "delete"}
  <2>1. j = 1 \/ j = 2 \/ j = 3 \/ j = 4 \/ j = 5 \/ j = 6 \/ j = 7 \/ j = 8
    OBVIOUS
  <2> QED BY <2>1 DEF Sequence
<1>7. Sequence \in Seq({Sequence[i] : i \in DOMAIN Sequence})
  BY <1>1 DEF Sequence
<1> QED BY <1>1, <1>2, <1>3, <1>4, <1>5, <1>6, <1>7

\* The stages after the i-th up to the j-th.
LEMMA SuffixElements ==
  ASSUME NEW i \in 1..8, NEW j \in 1..8, i <= j
  PROVE  /\ SubSeq(Sequence, i + 1, j) \in Seq({Sequence[k] : k \in DOMAIN Sequence})
         /\ Len(SubSeq(Sequence, i + 1, j)) = j - i
         /\ \A k \in 1..(j - i) : SubSeq(Sequence, i + 1, j)[k] = Sequence[i + k]
<1> DEFINE S == {Sequence[k] : k \in DOMAIN Sequence}
           m == i + 1
           a == SubSeq(Sequence, m, j)
<1>1. m \in Int /\ j \in Int
  OBVIOUS
<1>2. \A k \in m..j : Sequence[k] \in S
  BY SequenceFacts
<1>3. /\ j - m + 1 = j - i /\ (m <= j \/ j - i = 0)
      /\ \A k \in 1..(j - i) : m + k - 1 = i + k
  OBVIOUS
<1> HIDE DEF S, m
<1>4. /\ SubSeq(Sequence, m, j) \in Seq(S)
      /\ Len(SubSeq(Sequence, m, j)) = IF m <= j THEN j - m + 1 ELSE 0
      /\ \A k \in 1..(j - m + 1) : SubSeq(Sequence, m, j)[k] = Sequence[m + k - 1]
  BY <1>1, <1>2, SubSeqProperties
<1>5. a \in Seq(S) /\ Len(a) = j - i /\ \A k \in 1..(j - i) : a[k] = Sequence[i + k]
  <2> HIDE DEF a
  <2>1. /\ a \in Seq(S) /\ Len(a) = IF m <= j THEN j - m + 1 ELSE 0
        /\ \A k \in 1..(j - m + 1) : a[k] = Sequence[m + k - 1]
    BY <1>4 DEF a
  <2> QED
    BY <1>3, <2>1
<1> QED
  BY <1>5 DEF a, m, S

\* The executed stages and the next one.
LEMMA SuffixGrows ==
  ASSUME NEW i \in 1..8, NEW j \in 1..7, i <= j
  PROVE  Append(SubSeq(Sequence, i + 1, j), Sequence[j + 1]) = SubSeq(Sequence, i + 1, j + 1)
<1> DEFINE S == {Sequence[k] : k \in DOMAIN Sequence}
           a == SubSeq(Sequence, i + 1, j)
           b == SubSeq(Sequence, i + 1, j + 1)
<1>1. a \in Seq(S) /\ Len(a) = j - i /\ \A k \in 1..(j - i) : a[k] = Sequence[i + k]
  BY SuffixElements
<1>2. b \in Seq(S) /\ Len(b) = j - i + 1 /\ \A k \in 1..(j - i + 1) : b[k] = Sequence[i + k]
  <2>1. j + 1 \in 1..8 /\ i <= j + 1 /\ (j + 1) - i = j - i + 1
    OBVIOUS
  <2> QED
    BY <2>1, SuffixElements
<1>3. Sequence[j + 1] \in S
  BY SequenceFacts
<1> HIDE DEF S, a, b
<1>4. /\ Append(a, Sequence[j + 1]) \in Seq(S)
      /\ Len(Append(a, Sequence[j + 1])) = j - i + 1
      /\ \A k \in 1..(j - i + 1) : Append(a, Sequence[j + 1])[k] = Sequence[i + k]
  BY <1>1, <1>3
<1>5. Append(a, Sequence[j + 1]) = b
  BY <1>2, <1>4
<1> QED
  BY <1>5 DEF a, b

\* A run that has just entered has executed nothing.
LEMMA SuffixStarts ==
  ASSUME NEW i \in 1..8
  PROVE  SubSeq(Sequence, i + 1, i) = <<>>
<1>1. i + 1 \in Int /\ i \in Int /\ i < i + 1
  OBVIOUS
<1> QED
  BY <1>1, SubSeqEmpty

-----------------------------------------------------------------------------
(***************************************************************************)
(* What a step of a unit does to the rows and the trails.                  *)
(***************************************************************************)

\* A step of a unit of client c, or one that leaves the store alone.
UnitStep(c) == Quiet(c) \/ Commits(c) \/ UNCHANGED vars

\* A workflow that was there never becomes one that was not, and a workflow
\* that is completed or deleted stays so.
LEMMA RowsAge ==
  ASSUME IInv, NEW c \in Clients, UnitStep(c), NEW w \in Workflows
  PROVE  /\ row[w].state # "absent" => row'[w].state # "absent"
         /\ row[w].state \in {"completed", "deleted"} => row'[w].state \in {"completed", "deleted"}
         /\ row[w].state # "absent" /\ Exists(row'[w]) => Exists(row[w])
<1>1. CASE Quiet(c) \/ UNCHANGED vars
  BY <1>1, QuietLeavesDb DEF db, vars, Exists
<1>2. CASE Commits(c)
  <2>1. row \in [Workflows -> WorkflowRow] /\ wf[c] \in Workflows
    BY DEF IInv, TypeOK
  <2>2. CASE Begins(c)
    BY <2>1, <2>2 DEF Begins
  <2>3. ASSUME NEW target \in WorkflowState, MovesTo(c, target)
        PROVE  /\ row[w].state # "absent" => row'[w].state # "absent"
               /\ row[w].state \in {"completed", "deleted"} =>
                    row'[w].state \in {"completed", "deleted"}
               /\ row[w].state # "absent" /\ Exists(row'[w]) => Exists(row[w])
    <3>1. CASE w # wf[c]
      BY <2>1, <2>3, <3>1 DEF MovesTo
    <3>2. CASE w = wf[c]
      <4>1. row[w].state \in LiveStates /\ row'[w].state = target
        BY <2>1, <2>3, <3>2 DEF MovesTo, Moved
      <4> QED
        BY <4>1, ChainFacts DEF Exists
    <3> QED
      BY <3>1, <3>2
  <2>4. CASE Ends(c)
    BY <2>1, <2>4, ChainFacts DEF Ends, NoRow, Exists
  <2> QED
    BY <1>2, <2>2, <2>3, <2>4, CommitEffect
<1> QED
  BY <1>1, <1>2 DEF UnitStep

\* The events of a workflow that was there stay where they are until it goes.
LEMMA EventsStay ==
  ASSUME IInv, NEW c \in Clients, UnitStep(c), NEW w \in Workflows,
         Exists(row[w]), Exists(row'[w])
  PROVE  \A i \in DOMAIN trail[w] : i \in DOMAIN trail'[w] /\ trail'[w][i] = trail[w][i]
<1>1. CASE Quiet(c) \/ UNCHANGED vars
  BY <1>1, QuietLeavesDb DEF db, vars
<1>2. CASE Commits(c)
  <2>1. row \in [Workflows -> WorkflowRow] /\ wf[c] \in Workflows /\ trail \in [Workflows -> Seq(Event)]
    BY DEF IInv, TypeOK
  <2>2. ~Begins(c) \/ w # wf[c]
    BY ChainFacts DEF Begins, Exists
  <2>3. ~Ends(c) \/ w # wf[c]
    BY <2>1, ChainFacts DEF Ends, NoRow, Exists
  <2>4. ASSUME NEW target \in WorkflowState, MovesTo(c, target), w = wf[c]
        PROVE  \A i \in DOMAIN trail[w] : i \in DOMAIN trail'[w] /\ trail'[w][i] = trail[w][i]
    <3>1. trail'[w] = Append(trail[w], MoveEvent(row[w], target)) /\ trail[w] \in Seq(Event)
      BY <2>1, <2>4 DEF MovesTo
    <3>2. MoveEvent(row[w], target) \in Event
      BY <2>1, ChainFacts, <2>4 DEF MoveEvent, Event, MovesTo, WorkflowRow
    <3> QED
      BY <3>1, <3>2
  <2>5. CASE w # wf[c]
    <3>1. trail'[w] = trail[w]
      BY <1>2, <2>1, <2>5, CommitEffect DEF Begins, MovesTo, Ends
    <3> QED
      BY <3>1
  <2> QED
    BY <1>2, <2>2, <2>3, <2>4, <2>5, CommitEffect
<1> QED
  BY <1>1, <1>2 DEF UnitStep

-----------------------------------------------------------------------------
(***************************************************************************)
(* The trail and the chain.                                                *)
(***************************************************************************)
\* The chain of all states, each at its own place.
LEMMA ChainIs ==
  /\ Len(Chain) = 9 /\ DOMAIN Chain = 1..9
  /\ Chain[1] = "request_received" /\ \A i \in 2..9 : Chain[i] = Sequence[i - 1]
  /\ \A i \in 1..9 : Chain[i] # "failed"
  /\ \A i, j \in 1..9 : Chain[i] = Chain[j] => i = j
  /\ \A i \in 1..9 : Chain[i] \in LiveStates => i < 9 /\ NextState[Chain[i]] = Chain[i + 1]
<1> DEFINE S == {Sequence[k] : k \in DOMAIN Sequence} \union {"request_received"}
           first == <<"request_received">>
<1>1. first \in Seq(S) /\ Len(first) = 1 /\ first[1] = "request_received"
  OBVIOUS
<1>2. Sequence \in Seq(S) /\ Len(Sequence) = 8
  BY SequenceFacts
<1> HIDE DEF S, first
<1>3. /\ Chain[1] = "request_received" /\ Len(Chain) = 9 /\ DOMAIN Chain = 1..9
      /\ \A i \in 2..9 : Chain[i] = Sequence[i - 1]
  <2>1. Chain = first \o Sequence
    BY DEF Chain, first
  <2>2. /\ first \o Sequence \in Seq(S)
        /\ Len(first \o Sequence) = Len(first) + Len(Sequence)
        /\ \A i \in 1..(Len(first) + Len(Sequence)) :
             (first \o Sequence)[i] = IF i <= Len(first) THEN first[i] ELSE Sequence[i - Len(first)]
    BY <1>1, <1>2, ConcatProperties
  <2>3. /\ Chain \in Seq(S) /\ Len(Chain) = 9
        /\ \A i \in 1..9 : Chain[i] = IF i <= 1 THEN first[i] ELSE Sequence[i - 1]
    <3> DEFINE both == first \o Sequence
    <3>1. Len(first) = 1 /\ Len(Sequence) = 8
      BY <1>1, <1>2
    <3>2. /\ both \in Seq(S) /\ Len(both) = 9
          /\ \A i \in 1..9 : both[i] = IF i <= 1 THEN first[i] ELSE Sequence[i - 1]
      <4> HIDE DEF both
      <4>1. /\ both \in Seq(S) /\ Len(both) = Len(first) + Len(Sequence)
            /\ \A i \in 1..(Len(first) + Len(Sequence)) :
                 both[i] = IF i <= Len(first) THEN first[i] ELSE Sequence[i - Len(first)]
        BY <2>2 DEF both
      <4> QED
        BY <3>1, <4>1
    <3> HIDE DEF both
    <3>3. Chain = both
      BY <2>1 DEF both
    <3> QED
      BY <3>2, <3>3
  <2> QED
    BY <1>1, <2>3
<1>4. \A i \in 2..9 : i - 1 \in 1..8
  OBVIOUS
<1>5. \A i \in 1..9 : Chain[i] # "failed"
  BY <1>3, <1>4, SequenceFacts
<1>6. ASSUME NEW i \in 1..9, NEW j \in 1..9, Chain[i] = Chain[j]
      PROVE  i = j
  <2>1. i = 1 \/ i \in 2..9
    OBVIOUS
  <2>2. j = 1 \/ j \in 2..9
    OBVIOUS
  <2>3. CASE i \in 2..9 /\ j \in 2..9
    <3>1. i - 1 = j - 1
      BY <1>3, <1>4, <1>6, <2>3, SequenceFacts
    <3> QED
      BY <3>1
  <2> QED
    BY <1>3, <1>4, <1>6, <2>1, <2>2, <2>3, SequenceFacts
<1>7. ASSUME NEW i \in 1..9, Chain[i] \in LiveStates
      PROVE  i < 9 /\ NextState[Chain[i]] = Chain[i + 1]
  <2>1. CASE i = 1
    BY <1>3, <2>1 DEF NextState, Sequence
  <2>2. CASE i \in 2..8
    <3>1. i - 1 \in 1..7 /\ i + 1 \in 2..9 /\ (i - 1) + 1 = (i + 1) - 1
      BY <2>2
    <3> QED
      BY <1>3, <2>2, <3>1, SequenceFacts
  <2>3. CASE i = 9
    BY <1>3, <1>7, <2>3, SequenceFacts, ChainFacts
  <2> QED
    BY <2>1, <2>2, <2>3
<1> QED
  BY <1>3, <1>5, <1>6, <1>7

\* The last event of a workflow that can still move is the only one that
\* names its state, and none names its successor.
LEMMA NextIsNew ==
  ASSUME IInv, TrailFollowsChain, NEW w \in Workflows, row[w].state \in LiveStates
  PROVE  /\ Len(trail[w]) \in 1..8 /\ Chain[Len(trail[w])] = row[w].state
         /\ NextState[row[w].state] = Chain[Len(trail[w]) + 1]
         /\ \A i \in DOMAIN trail[w] : trail[w][i].to_state # NextState[row[w].state]
<1>1. /\ trail[w] \in Seq(Event) /\ row[w].revision \in Nat
      /\ TellsHistoryOf(trail[w], row[w])
  BY ChainFacts DEF IInv, TypeOK, WorkflowRow, TrailIsComplete, Exists
<1> DEFINE n == Len(trail[w])
<1>2. n \in DOMAIN trail[w] /\ trail[w][n].to_state = row[w].state
  BY <1>1 DEF TellsHistoryOf
<1>3. FollowsChain(trail[w])
  BY DEF TrailFollowsChain
<1>4. n \in 1..9 /\ Chain[n] = row[w].state
  BY <1>2, <1>3, ChainFacts, ChainIs DEF FollowsChain
<1>5. n < 9 /\ NextState[row[w].state] = Chain[n + 1]
  BY <1>4, ChainIs
<1>6. n + 1 \in 1..9 /\ \A i \in DOMAIN trail[w] : i # n + 1
  BY <1>1, <1>4, <1>5
<1>7. \A i \in DOMAIN trail[w] : trail[w][i].to_state # Chain[n + 1]
  BY <1>3, <1>6, ChainIs DEF FollowsChain
<1>8. n \in 1..8
  <2> HIDE DEF n
  <2> QED
    BY <1>4, <1>5
<1> QED
  BY <1>4, <1>5, <1>7, <1>8

\* A commit appends the next state of the chain or a failure.
LEMMA CommitKeepsChain ==
  ASSUME IInv, TrailFollowsChain, NEW c \in Clients, Commits(c)
  PROVE  TrailFollowsChain'
<1>1. \A w \in Workflows : FollowsChain(trail[w])
  BY DEF TrailFollowsChain
<1>2. trail \in [Workflows -> Seq(Event)] /\ wf[c] \in Workflows
  BY DEF IInv, TypeOK
<1>3. ASSUME NEW w \in Workflows
      PROVE  FollowsChain(trail'[w])
  <2>1. CASE w # wf[c]
    <3>1. trail'[w] = trail[w]
      BY <1>2, <2>1, CommitEffect DEF Begins, MovesTo, Ends
    <3> QED
      BY <1>1, <3>1
  <2>2. CASE w = wf[c] /\ Begins(c)
    <3>1. trail'[w] = InitialTrail
      BY <1>2, <2>2 DEF Begins
    <3>2. DOMAIN InitialTrail = 1..2 /\ \A i \in 1..2 : InitialTrail[i].to_state = Chain[i]
      <4>1. /\ Chain[1] = "request_received" /\ Chain[2] = Sequence[1]
            /\ Sequence[1] = "request_validated"
        BY ChainIs, SequenceFacts
      <4> QED
        BY <4>1 DEF InitialTrail
    <3> QED
      BY <3>1, <3>2, ChainIs DEF FollowsChain
  <2>3. ASSUME NEW target \in WorkflowState, MovesTo(c, target), w = wf[c]
        PROVE  FollowsChain(trail'[w])
    <3> DEFINE t == trail[w]
               n == Len(t)
               e == MoveEvent(row[w], target)
    <3>1. /\ t \in Seq(Event) /\ trail'[w] = Append(t, e) /\ e.to_state = target
          /\ row[w].state \in LiveStates /\ target \in {NextState[row[w].state], "failed"}
      BY <1>2, <2>3 DEF MovesTo, MoveEvent
    <3>2. n \in 1..8 /\ NextState[row[w].state] = Chain[n + 1]
      BY <3>1, NextIsNew
    <3>3. FollowsChain(t)
      BY <1>1
    <3> HIDE DEF t, e
    <3>4. \A i \in DOMAIN trail'[w] : \/ i \in DOMAIN t /\ trail'[w][i] = t[i]
                                      \/ i = n + 1 /\ trail'[w][i] = e
      BY <3>1
    <3>5. n + 1 \in 1..9
      <4> HIDE DEF n
      <4> QED
        BY <3>2
    <3> HIDE DEF n
    <3> SUFFICES ASSUME NEW i \in DOMAIN trail'[w]
                 PROVE  \/ trail'[w][i].to_state = "failed"
                        \/ i \in DOMAIN Chain /\ trail'[w][i].to_state = Chain[i]
      BY DEF FollowsChain
    <3>6. CASE i \in DOMAIN t /\ trail'[w][i] = t[i]
      BY <3>3, <3>6 DEF FollowsChain
    <3>7. CASE i = n + 1 /\ trail'[w][i] = e
      BY <3>1, <3>2, <3>5, <3>7, ChainIs
    <3> QED
      BY <3>4, <3>6, <3>7
  <2>4. CASE w = wf[c] /\ Ends(c)
    <3>1. trail'[w] = <<>>
      BY <1>2, <2>4 DEF Ends
    <3> QED
      BY <3>1 DEF FollowsChain
  <2> QED
    BY <2>1, <2>2, <2>3, <2>4, CommitEffect
<1> QED
  BY <1>3 DEF TrailFollowsChain

-----------------------------------------------------------------------------
(***************************************************************************)
(* A step of one client, seen by the runs.                                 *)
(***************************************************************************)

\* A client without a run has the variables of a run that has done nothing.
LEMMA NoRunIsRun ==
  NoRun \in Run /\ NoRun.at = "off" /\ NoRun.executed = <<>>
<1> DEFINE S == {Sequence[i] : i \in DOMAIN Sequence}
<1>1. <<>> \in Seq(S)
  OBVIOUS
<1>2. Run = [at : {"off", "get", "between", "unit", "reread"}, started : S \union {"none"},
             state : S \union {"none"}, executed : Seq(S), rendered : BOOLEAN]
  BY DEF Run
<1> HIDE DEF S
<1> QED
  BY <1>1, <1>2 DEF NoRun

\* A run that has executed nothing has done nothing.
LEMMA NothingDone ==
  ASSUME NEW c \in Clients, run[c].executed = <<>>, run[c].at # "reread"
  PROVE  Done(c) = {}
BY DEF Done, Executed

\* Runs of other clients are where they were: nothing of their own changed,
\* their workflows and what they left in the trails are still there.
LEMMA OthersInOrder ==
  ASSUME RunsInv, NEW c \in Clients, UnitStep(c), NEW d \in Clients, d # c,
         run'[d] = run[d]
  PROVE  RunIsInOrder(d)' /\ DoneIsRecorded(d)' /\ Done(d)' = Done(d) /\ wf'[d] = wf[d]
<1>1. Local(d)' = Local(d)
  BY OthersUntouched DEF RunsInv, IInv, UnitStep, vars, Local
<1>2. IInv /\ RunIsInOrder(d) /\ DoneIsRecorded(d) /\ wf[d] \in Workflows
  BY DEF RunsInv, IInv, TypeOK
<1>3. /\ pc'[d] = pc[d] /\ op'[d] = op[d] /\ wf'[d] = wf[d] /\ seenRow'[d] = seenRow[d]
  BY <1>1 DEF Local
<1>4. /\ row[wf[d]].state # "absent" => row'[wf[d]].state # "absent"
      /\ row[wf[d]].state \in {"completed", "deleted"} =>
           row'[wf[d]].state \in {"completed", "deleted"}
      /\ row[wf[d]].state # "absent" /\ Exists(row'[wf[d]]) => Exists(row[wf[d]])
  BY <1>2, RowsAge
<1>5. Done(d)' = Done(d)
  BY DEF Done, Executed
<1>6. RunIsInOrder(d)'
  <2>1. ASSUME NEW i \in DOMAIN Sequence, NEW j \in DOMAIN Sequence, Underway(d, i, j)
        PROVE  Underway(d, i, j)'
    BY <1>3, <1>4, <2>1 DEF Underway, HoldsRow
  <2> QED
    BY <1>2, <1>3, <2>1 DEF RunIsInOrder
<1>7. DoneIsRecorded(d)'
  <2> SUFFICES ASSUME NEW s \in Done(d), Exists(row'[wf[d]])
               PROVE  \E i \in DOMAIN trail'[wf[d]] : trail'[wf[d]][i].to_state = s
    BY <1>3, <1>5 DEF DoneIsRecorded
  <2>1. run[d].executed # <<>> \/ run[d].at = "reread"
    BY NothingDone
  <2>2. row[wf[d]].state # "absent"
    BY <1>2, <2>1 DEF RunIsInOrder, Underway
  <2>3. Exists(row[wf[d]])
    BY <1>4, <2>2
  <2>4. PICK i \in DOMAIN trail[wf[d]] : trail[wf[d]][i].to_state = s
    BY <1>2, <2>3 DEF DoneIsRecorded
  <2> QED
    BY <1>2, <2>3, <2>4, EventsStay
<1> QED
  BY <1>3, <1>5, <1>6, <1>7

\* What a step of client c has to keep of the runs' invariant, given that it
\* is a step of the store and touches no other run.
LEMMA StepKeepsRunsInv ==
  ASSUME RunsInv, NEW c \in Clients, UnitStep(c),
         NEW r \in Run, run' = [run EXCEPT ![c] = r],
         RunIsInOrder(c)', DoneIsRecorded(c)',
         \/ Done(c)' = {}
         \/ /\ wf'[c] = wf[c]
            /\ \A d \in Clients \ {c} : wf[d] = wf[c] => Done(c)' \intersect Done(d) = {}
  PROVE  RunsInv'
<1>1. IInv'
  <2>1. CASE UNCHANGED vars
    BY <2>1, NextKeepsIInv DEF RunsInv
  <2> QED
    BY <2>1, QuietKeepsIInv, CommitKeepsIInv DEF RunsInv, UnitStep
<1>2. run \in [Clients -> Run] /\ run' \in [Clients -> Run]
  BY DEF RunsInv, RunsTypeOK
<1>3. \A d \in Clients \ {c} : run'[d] = run[d]
  BY <1>2
<1>4. \A d \in Clients \ {c} : /\ RunIsInOrder(d)' /\ DoneIsRecorded(d)'
                               /\ Done(d)' = Done(d) /\ wf'[d] = wf[d]
  BY <1>3, OthersInOrder
<1>5. TrailFollowsChain'
  <2>1. CASE Quiet(c) \/ UNCHANGED vars
    BY <2>1, QuietLeavesDb DEF RunsInv, TrailFollowsChain, db, vars
  <2>2. CASE Commits(c)
    BY <2>2, CommitKeepsChain DEF RunsInv
  <2> QED
    BY <2>1, <2>2 DEF UnitStep
<1>6. DoneOnce'
  <2> SUFFICES ASSUME NEW d \in Clients, NEW e \in Clients, d # e, wf'[d] = wf'[e]
               PROVE  Done(d)' \intersect Done(e)' = {}
    BY DEF DoneOnce
  <2>1. CASE d # c /\ e # c
    BY <1>4, <2>1 DEF RunsInv, DoneOnce
  <2>2. CASE d = c
    BY <1>4, <2>2
  <2>3. CASE e = c
    BY <1>4, <2>3
  <2> QED
    BY <2>1, <2>2, <2>3
<1> QED
  BY <1>1, <1>2, <1>4, <1>5, <1>6 DEF RunsInv, RunsTypeOK

-----------------------------------------------------------------------------
(***************************************************************************)
(* The kinds of step a client can make.                                    *)
(***************************************************************************)

\* A client whose run is off afterwards, or has only just called get().
LEMMA NothingDoneStep ==
  ASSUME RunsInv, NEW c \in Clients, UnitStep(c),
         NEW r \in Run, run' = [run EXCEPT ![c] = r], r.executed = <<>>,
         \/ r.at = "off"
         \/ r.at = "get" /\ pc'[c] # "idle" /\ op'[c] = "get"
  PROVE  RunsInv'
<1>1. run'[c] = r
  BY DEF RunsInv, RunsTypeOK
<1>2. Done(c)' = {}
  BY <1>1 DEF Done, Executed
<1>3. RunIsInOrder(c)' /\ DoneIsRecorded(c)'
  BY <1>1, <1>2 DEF RunIsInOrder, DoneIsRecorded
<1> QED
  BY <1>2, <1>3, StepKeepsRunsInv

\* A run stops: with its result, an error, or its process.
LEMMA StopKeepsRunsInv ==
  ASSUME RunsInv, NEW c \in Clients, UnitStep(c), Stop(c)
  PROVE  RunsInv'
BY NoRunIsRun, NothingDoneStep DEF Stop

\* A step that commits nothing and after which the run has done what it had
\* done before.
LEMMA QuietRunStep ==
  ASSUME RunsInv, NEW c \in Clients, Quiet(c) \/ UNCHANGED vars, wf'[c] = wf[c],
         NEW r \in Run, run' = [run EXCEPT ![c] = r],
         Done(c)' = Done(c), RunIsInOrder(c)'
  PROVE  RunsInv'
<1>1. UNCHANGED db
  BY QuietLeavesDb DEF RunsInv, db, vars
<1>2. DoneIsRecorded(c)'
  BY <1>1 DEF RunsInv, DoneIsRecorded, db
<1>3. \A d \in Clients \ {c} : wf[d] = wf[c] => Done(c)' \intersect Done(d) = {}
  BY DEF RunsInv, DoneOnce
<1> QED
  BY <1>2, <1>3, StepKeepsRunsInv DEF UnitStep

\* A step within a stage or between two.
LEMMA SameDoneStep ==
  ASSUME RunsInv, NEW c \in Clients, Quiet(c) \/ UNCHANGED vars, wf'[c] = wf[c],
         NEW r \in Run, run' = [run EXCEPT ![c] = r],
         r.executed = run[c].executed, r.at = "reread" <=> run[c].at = "reread",
         RunIsInOrder(c)'
  PROVE  RunsInv'
<1>1. run'[c] = r
  BY DEF RunsInv, RunsTypeOK
<1>2. Done(c)' = Done(c)
  BY <1>1 DEF Done, Executed
<1> QED
  BY <1>2, QuietRunStep

\* Committing a transition: nobody else on the workflow has done its target,
\* because the trail never had it, and the trail has it now.
LEMMA MoveStep ==
  ASSUME RunsInv, NEW c \in Clients,
         CommitStage(c) \/ (CommitMove(c) /\ op[c] = "completed"),
         NEW r \in Run, run' = [run EXCEPT ![c] = r],
         Done(c)' \subseteq Done(c) \union {op[c]}, RunIsInOrder(c)'
  PROVE  RunsInv'
<1> DEFINE w == wf[c]
<1>1. /\ IInv /\ TypeOK /\ TrailFollowsChain /\ w \in Workflows
      /\ pc[c] = "commit" /\ op[c] \in StageStates \union {"completed"} /\ op[c] # "start"
      /\ Commits(c) /\ UnitStep(c) /\ wf' = wf
  BY ChainFacts, CommitLeaves DEF CommitStage, CommitMove, Commits, UnitStep, RunsInv, IInv, TypeOK
<1>2. seenRow[c] = row[w] /\ Exists(row[w]) /\ Admits(op[c], seenRow[c])
  BY <1>1 DEF IInv, ClientInv, ReadIsPast, UnitIsInOrder, HoldsRow, BeforeRow, BeforeTrail
<1>3. row[w].state \in LiveStates /\ op[c] = NextState[row[w].state]
  BY <1>1, <1>2 DEF Admits, MayAdvance
<1>4. \A i \in DOMAIN trail[w] : trail[w][i].to_state # op[c]
  BY <1>1, <1>3, NextIsNew
<1>5. \A d \in Clients : wf[d] = w => op[c] \notin Done(d)
  BY <1>2, <1>4 DEF RunsInv, DoneIsRecorded
<1>6. \A d \in Clients \ {c} : wf[d] = w => Done(c)' \intersect Done(d) = {}
  BY <1>5 DEF RunsInv, DoneOnce
<1>7. DoneIsRecorded(c)'
  <2> SUFFICES ASSUME NEW s \in Done(c)', Exists(row'[w])
               PROVE  \E i \in DOMAIN trail'[w] : trail'[w][i].to_state = s
    BY <1>1 DEF DoneIsRecorded
  <2>1. CASE s \in Done(c)
    <3>1. PICK i \in DOMAIN trail[w] : trail[w][i].to_state = s
      BY <1>2, <2>1 DEF RunsInv, DoneIsRecorded
    <3> QED
      BY <1>1, <1>2, <3>1, EventsStay
  <2>2. CASE s = op[c]
    <3>1. trail'[w] = Append(trail[w], MoveEvent(seenRow[c], op[c])) /\ trail[w] \in Seq(Event)
      BY <1>1 DEF CommitStage, CommitMove, WriteMove, TypeOK
    <3>2. MoveEvent(seenRow[c], op[c]).to_state = s
      BY <2>2 DEF MoveEvent
    <3>3. Len(trail[w]) + 1 \in DOMAIN trail'[w]
          /\ trail'[w][Len(trail[w]) + 1] = MoveEvent(seenRow[c], op[c])
      BY <3>1
    <3> QED
      BY <3>2, <3>3
  <2> QED
    BY <2>1, <2>2
<1> QED
  BY <1>1, <1>6, <1>7, StepKeepsRunsInv

-----------------------------------------------------------------------------
(***************************************************************************)
(* One lemma per action.                                                   *)
(***************************************************************************)

\* Clients that run nothing change no run.
LEMMA BareKeepsRunsInv ==
  ASSUME RunsInv, NEW c \in Clients, Bare(c)
  PROVE  RunsInv'
<1>1. run' = run /\ run[c].at = "off" /\ run[c] \in Run
  BY DEF Bare, RunsInv, RunsTypeOK
<1>2. run[c].executed = <<>>
  BY <1>1 DEF RunsInv, RunIsInOrder, Underway
<1>3. UnitStep(c)
  BY BareOpsAssumption DEF Bare, UnitStep, Quiet, Step
<1>4. run' = [run EXCEPT ![c] = run[c]]
  BY <1>1 DEF RunsInv, RunsTypeOK
<1> QED
  BY <1>1, <1>2, <1>3, <1>4, NothingDoneStep

\* A run begins with get().
LEMMA StartKeepsRunsInv ==
  ASSUME RunsInv, NEW c \in Clients, NEW w \in Workflows, StartRun(c, w)
  PROVE  RunsInv'
<1> DEFINE r == [run[c] EXCEPT !.at = "get"]
<1>1. run[c].at = "off" /\ run[c] \in Run /\ run' = [run EXCEPT ![c] = r]
  BY DEF StartRun, RunsInv, RunsTypeOK
<1>2. run[c].executed = <<>>
  BY <1>1 DEF RunsInv, RunIsInOrder, Underway
<1>3. r \in Run /\ r.at = "get" /\ r.executed = <<>>
  BY <1>1, <1>2 DEF Run
<1>4. UnitStep(c)
  BY DEF StartRun, UnitStep, Quiet, Ops
<1>5. pc'[c] # "idle" /\ op'[c] = "get"
  BY DEF StartRun, Call, Goto, RunsInv, IInv, TypeOK
<1> HIDE DEF r
<1> QED
  BY <1>1, <1>3, <1>4, <1>5, NothingDoneStep

\* The snapshot of get() tells where to go on.
LEMMA EnterKeepsRunsInv ==
  ASSUME RunsInv, NEW c \in Clients, Enter(c)
  PROVE  RunsInv'
<1>1. run[c].at = "get" /\ Return(c) /\ Quiet(c) /\ run[c] \in Run
  BY DEF Enter, Quiet, RunsInv, RunsTypeOK
<1>2. CASE seenRow[c].state \notin Resumable
  BY <1>1, <1>2, StopKeepsRunsInv DEF Enter, UnitStep
<1>3. CASE seenRow[c].state \in Resumable
  <2>1. PICK i \in DOMAIN Sequence : seenRow[c].state = Sequence[i]
    BY <1>3 DEF Resumable
  <2> DEFINE r == [run[c] EXCEPT !.at = "between", !.started = Sequence[i], !.state = Sequence[i]]
  <2>2. run' = [run EXCEPT ![c] = r]
    BY <1>1, <1>3, <2>1 DEF Enter, RunsInv, RunsTypeOK
  <2>3. r \in Run /\ r.at = "between" /\ r.started = Sequence[i] /\ r.state = Sequence[i]
        /\ r.executed = run[c].executed
    BY <1>1, <2>1 DEF Run
  <2> HIDE DEF r
  <2>4. run[c].executed = <<>> /\ op[c] = "get"
    BY <1>1 DEF RunsInv, RunIsInOrder, Underway
  <2>5. row'[wf[c]].state # "absent" /\ wf' = wf /\ pc'[c] = "idle"
    BY <1>1, <2>4 DEF Return, Forget, db, RunsInv, IInv, TypeOK, ClientInv, ReadIsPast,
                      HoldsRow, BeforeRow
  <2>6. Underway(c, i, i)'
    <3>1. run'[c] = r
      BY <2>2 DEF RunsInv, RunsTypeOK
    <3>2. SubSeq(Sequence, i + 1, i) = <<>>
      BY SuffixStarts, SequenceFacts
    <3>3. i <= i
      BY SequenceFacts
    <3> QED
      BY <2>3, <2>4, <2>5, <3>1, <3>2, <3>3 DEF Underway
  <2>7. RunIsInOrder(c)'
    BY <2>6 DEF RunIsInOrder
  <2> QED
    BY <1>1, <2>2, <2>3, <2>5, <2>7, SameDoneStep
<1> QED
  BY <1>2, <1>3

\* The next unit is called.
LEMMA NextUnitKeepsRunsInv ==
  ASSUME RunsInv, NEW c \in Clients, NextUnit(c)
  PROVE  RunsInv' /\ Quiet(c)
<1> DEFINE r == [run[c] EXCEPT !.at = "unit"]
           o == NextState[run[c].state]
<1>1. /\ run[c].at = "between" /\ run[c].state # "completed" /\ Call(c, o, wf[c])
      /\ run[c] \in Run /\ run' = [run EXCEPT ![c] = r] /\ wf[c] \in Workflows
  BY DEF NextUnit, RunsInv, RunsTypeOK, IInv, TypeOK
<1>2. PICK i, j \in DOMAIN Sequence : Underway(c, i, j)
  BY <1>1 DEF RunsInv, RunIsInOrder
<1>3. i \in 1..8 /\ j \in 1..7 /\ run[c].state = Sequence[j] /\ o = Sequence[j + 1]
  BY <1>1, <1>2, SequenceFacts DEF Underway
<1>4. o \in Ops
  <2>1. j + 1 \in 2..7 \/ j + 1 = 8
    BY <1>3
  <2> QED
    BY <1>3, <2>1, SequenceFacts DEF Ops
<1>5. Quiet(c)
  BY <1>1, <1>4 DEF Quiet
<1>6. /\ r \in Run /\ r.at = "unit" /\ r.started = run[c].started /\ r.state = run[c].state
      /\ r.executed = run[c].executed
  BY <1>1 DEF Run
<1> HIDE DEF r, o
<1>7. pc'[c] # "idle" /\ op'[c] = o /\ wf'[c] = wf[c] /\ row' = row
  BY <1>1 DEF Call, Goto, db, RunsInv, IInv, TypeOK
<1>8. Underway(c, i, j)'
  <2>1. run'[c] = r
    BY <1>1 DEF RunsInv, RunsTypeOK
  <2>2. j < Len(Sequence)
    BY <1>3, SequenceFacts
  <2> QED
    BY <1>2, <1>3, <1>6, <1>7, <2>1, <2>2 DEF Underway
<1>9. RunIsInOrder(c)'
  BY <1>8 DEF RunIsInOrder
<1> QED
  BY <1>1, <1>5, <1>6, <1>7, <1>9, SameDoneStep

\* A run that did not render the report reads it.
LEMMA ReportKeepsRunsInv ==
  ASSUME RunsInv, NEW c \in Clients, ReadReport(c)
  PROVE  RunsInv'
<1> DEFINE r == [run[c] EXCEPT !.rendered = TRUE]
<1>1. run[c].at = "between" /\ run[c] \in Run /\ UNCHANGED vars
  BY DEF ReadReport, RunsInv, RunsTypeOK
<1>2. CASE Stop(c)
  BY <1>1, <1>2, StopKeepsRunsInv DEF UnitStep
<1>3. CASE run' = [run EXCEPT ![c] = r]
  <2>1. /\ r \in Run /\ r.at = "between" /\ r.started = run[c].started /\ r.state = run[c].state
        /\ r.executed = run[c].executed
    BY <1>1 DEF Run
  <2> HIDE DEF r
  <2>2. PICK i, j \in DOMAIN Sequence : Underway(c, i, j)
    BY <1>1 DEF RunsInv, RunIsInOrder
  <2>3. run'[c] = r /\ wf'[c] = wf[c] /\ row' = row /\ pc' = pc
    BY <1>1, <1>3 DEF RunsInv, RunsTypeOK, vars
  <2>4. Underway(c, i, j)'
    BY <1>1, <2>1, <2>2, <2>3 DEF Underway
  <2>5. RunIsInOrder(c)'
    BY <2>4 DEF RunIsInOrder
  <2> QED
    BY <1>1, <1>3, <2>1, <2>3, <2>5, SameDoneStep
<1> QED
  BY <1>2, <1>3 DEF ReadReport, RunsInv, RunsTypeOK

\* The unit goes on.  If it is the one that reads the completed workflow, it
\* finds it completed.
LEMMA ProceedKeepsRunsInv ==
  ASSUME RunsInv, NEW c \in Clients, Proceed(c)
  PROVE  RunsInv'
<1>1. /\ run[c].at \in {"get", "unit", "reread"} /\ run' = run /\ run[c] \in Run
      /\ run' = [run EXCEPT ![c] = run[c]]
  BY DEF Proceed, RunsInv, RunsTypeOK
<1>2. Quiet(c) /\ UNCHANGED <<db, op, wf>>
  BY ReadsKeepIInv, LockKeepsIInv DEF Proceed, Quiet, RunsInv
<1>3. op[c] # "none"
  BY <1>1, SequenceFacts DEF RunsInv, RunIsInOrder, Underway, IInv, ClientInv, UnitIsInOrder
<1>4. pc'[c] # "idle"
  <2>1. UnitIsInOrder(c)'
    BY <1>2, QuietKeepsIInv DEF RunsInv, IInv, ClientInv
  <2> QED
    BY <1>2, <1>3, <2>1 DEF UnitIsInOrder
<1>5. HoldsRow(c)' => \/ seenRow'[c] = row[wf[c]] /\ Exists(row[wf[c]])
                      \/ seenRow'[c] = seenRow[c] /\ HoldsRow(c)
  <2>1. CASE LoadRow(c)
    BY <2>1 DEF LoadRow, RunsInv, IInv, TypeOK
  <2>2. CASE ~LoadRow(c)
    <3>1. seenRow' = seenRow /\ pc[c] \notin BeforeRow
      BY <2>2 DEF Proceed, Reads, Lock, Apply, LoadRequest, LoadEvents, Discover, CollectDetail,
                  Ingest, ListProducts, CrossCheck, Consult, Normalize, Score, Render,
                  PlanDeletion, GatherFrom, seen, BeforeRow
    <3> QED
      BY <1>2, <3>1 DEF HoldsRow
  <2> QED
    BY <2>1, <2>2
<1>6. RunIsInOrder(c)'
  <2>1. CASE run[c].at = "get"
    BY <1>1, <1>2, <1>4, <2>1 DEF RunsInv, RunIsInOrder, Underway
  <2>2. CASE run[c].at \in {"unit", "reread"}
    <3>1. PICK i, j \in DOMAIN Sequence : Underway(c, i, j)
      BY <2>2 DEF RunsInv, RunIsInOrder
    <3>2. run[c].at = "reread" => (HoldsRow(c)' => seenRow'[c].state = "completed")
      BY <1>5, <3>1, ChainFacts DEF Underway, Exists
    <3>3. Underway(c, i, j)'
      BY <1>1, <1>2, <1>4, <2>2, <3>1, <3>2 DEF Underway, db
    <3> QED
      BY <3>3 DEF RunIsInOrder
  <2> QED
    BY <1>1, <2>1, <2>2
<1> QED
  BY <1>1, <1>2, <1>6, SameDoneStep

\* A stage commits and the run goes on to the next.
LEMMA StageDoneKeepsRunsInv ==
  ASSUME RunsInv, NEW c \in Clients, StageDone(c)
  PROVE  RunsInv'
<1> DEFINE S == {Sequence[k] : k \in DOMAIN Sequence}
           r == [run[c] EXCEPT !.at = "between", !.state = op[c],
                               !.executed = Append(run[c].executed, op[c]),
                               !.rendered = run[c].rendered \/ op[c] = "report_rendered"]
<1>1. /\ run[c].at = "unit" /\ CommitStage(c) /\ op[c] \in StageStates
      /\ run[c] \in Run /\ run' = [run EXCEPT ![c] = r]
  BY DEF StageDone, CommitStage, RunsInv, RunsTypeOK
<1>2. PICK i, j \in DOMAIN Sequence : Underway(c, i, j)
  BY <1>1 DEF RunsInv, RunIsInOrder
<1>3. /\ i \in 1..8 /\ j \in 1..7 /\ i <= j /\ op[c] = Sequence[j + 1] /\ j + 1 \in DOMAIN Sequence
      /\ run[c].executed = SubSeq(Sequence, i + 1, j) /\ run[c].started = Sequence[i]
  BY <1>1, <1>2, SequenceFacts DEF Underway
<1>4. /\ r \in Run /\ r.at = "between" /\ r.started = Sequence[i] /\ r.state = op[c]
      /\ r.executed = Append(run[c].executed, op[c])
  <2>1. op[c] \in S /\ run[c].executed \in Seq(S) /\ run[c].rendered \in BOOLEAN
    BY <1>1, <1>3 DEF Run
  <2>2. Append(run[c].executed, op[c]) \in Seq(S)
    <3> HIDE DEF S
    <3> QED
      BY <2>1
  <2>3. (run[c].rendered \/ op[c] = "report_rendered") \in BOOLEAN
    OBVIOUS
  <2> QED
    BY <1>1, <1>3, <2>1, <2>2, <2>3 DEF Run
<1> HIDE DEF r
<1>5. run'[c] = r
  BY <1>1 DEF RunsInv, RunsTypeOK
<1>6. Done(c)' \subseteq Done(c) \union {op[c]}
  <2>1. run[c].executed \in Seq(S)
    BY <1>1 DEF Run
  <2> HIDE DEF S
  <2>2. \A k \in DOMAIN r.executed :
          \/ k \in DOMAIN run[c].executed /\ r.executed[k] = run[c].executed[k]
          \/ r.executed[k] = op[c]
    BY <1>4, <2>1
  <2> QED
    BY <1>4, <1>5, <2>2 DEF Done, Executed
<1>7. row'[wf[c]].state = op[c] /\ wf' = wf /\ pc'[c] = "idle"
  BY <1>1 DEF CommitStage, WriteMove, Moved, Forget, RunsInv, IInv, TypeOK
<1>8. Underway(c, i, j + 1)'
  <2>1. i <= j + 1 /\ op[c] # "absent"
    BY <1>1, <1>3 DEF StageStates
  <2>2. r.executed = SubSeq(Sequence, i + 1, j + 1)
    BY <1>3, <1>4, SuffixGrows
  <2> QED
    BY <1>3, <1>4, <1>5, <1>7, <2>1, <2>2 DEF Underway
<1>9. RunIsInOrder(c)'
  BY <1>3, <1>8 DEF RunIsInOrder
<1> QED
  BY <1>1, <1>4, <1>6, <1>9, MoveStep

\* advance() commits COMPLETED; its re-read is still to come.
LEMMA CompletesKeepsRunsInv ==
  ASSUME RunsInv, NEW c \in Clients, Completes(c)
  PROVE  RunsInv'
<1> DEFINE r == [run[c] EXCEPT !.at = "reread"]
<1>1. /\ run[c].at = "unit" /\ CommitMove(c) /\ op[c] \in {"completed", "failed"}
      /\ run[c] \in Run /\ run' = [run EXCEPT ![c] = r]
  BY DEF Completes, CommitMove, RunsInv, RunsTypeOK
<1>2. PICK i, j \in DOMAIN Sequence : Underway(c, i, j)
  BY <1>1 DEF RunsInv, RunIsInOrder
<1>3. /\ i \in 1..8 /\ j \in 1..7 /\ op[c] = Sequence[j + 1] /\ j + 1 \in 1..8 /\ Len(Sequence) = 8
  BY <1>1, <1>2, SequenceFacts DEF Underway
<1>4. op[c] = "completed" /\ j = Len(Sequence) - 1
  <2>1. op[c] # "failed"
    BY <1>3, SequenceFacts
  <2>2. Sequence[j + 1] = Sequence[8]
    BY <1>1, <1>3, <2>1, SequenceFacts
  <2>3. j + 1 = 8
    BY <1>3, <2>2, SequenceFacts
  <2> QED
    BY <1>1, <1>3, <2>1, <2>3
<1>5. /\ r \in Run /\ r.at = "reread" /\ r.started = run[c].started /\ r.state = run[c].state
      /\ r.executed = run[c].executed
  BY <1>1 DEF Run
<1> HIDE DEF r
<1>6. run'[c] = r
  BY <1>1 DEF RunsInv, RunsTypeOK
<1>7. Done(c)' \subseteq Done(c) \union {op[c]}
  BY <1>4, <1>5, <1>6 DEF Done, Executed
<1>8. /\ row'[wf[c]].state = "completed" /\ wf' = wf
      /\ pc'[c] = "load_row" /\ op'[c] = "get"
  BY <1>1, <1>4 DEF CommitMove, WriteMove, Moved, Goto, RunsInv, IInv, TypeOK
<1>9. Underway(c, i, j)'
  <2>1. ~HoldsRow(c)'
    BY <1>8 DEF HoldsRow, BeforeRow
  <2> QED
    BY <1>2, <1>4, <1>5, <1>6, <1>8, <2>1 DEF Underway
<1>10. RunIsInOrder(c)'
  BY <1>9 DEF RunIsInOrder
<1> QED
  BY <1>1, <1>4, <1>5, <1>7, <1>10, MoveStep

\* The snapshot that advance() returns is the completed workflow's.
LEMMA CompletedKeepsRunsInv ==
  ASSUME RunsInv, NEW c \in Clients, Completed(c)
  PROVE  RunsInv'
<1> DEFINE S == {Sequence[k] : k \in DOMAIN Sequence}
           r == [run[c] EXCEPT !.at = "between", !.state = seenRow[c].state,
                               !.executed = Append(run[c].executed, "completed")]
<1>1. /\ run[c].at = "reread" /\ Return(c) /\ pc[c] = "got" /\ Quiet(c)
      /\ run[c] \in Run /\ run' = [run EXCEPT ![c] = r]
  BY DEF Completed, Return, Quiet, RunsInv, RunsTypeOK
<1>2. PICK i, j \in DOMAIN Sequence : Underway(c, i, j)
  BY <1>1 DEF RunsInv, RunIsInOrder
<1>3. /\ i \in 1..8 /\ j = 7 /\ i <= j /\ op[c] = "get"
      /\ run[c].executed = SubSeq(Sequence, i + 1, j) /\ run[c].started = Sequence[i]
      /\ row[wf[c]].state # "absent" /\ (HoldsRow(c) => seenRow[c].state = "completed")
  BY <1>1, <1>2, SequenceFacts DEF Underway
<1>4. seenRow[c].state = Sequence[8] /\ Sequence[8] = "completed" /\ 8 \in DOMAIN Sequence
  BY <1>1, <1>3, SequenceFacts DEF HoldsRow, BeforeRow
<1>5. /\ r \in Run /\ r.at = "between" /\ r.started = Sequence[i] /\ r.state = Sequence[8]
      /\ r.executed = Append(run[c].executed, "completed")
  <2>1. Sequence[8] \in S /\ run[c].executed \in Seq(S)
    BY <1>1, <1>4 DEF Run
  <2>2. Append(run[c].executed, "completed") \in Seq(S)
    <3> HIDE DEF S
    <3> QED
      BY <1>4, <2>1
  <2> QED
    BY <1>1, <1>3, <1>4, <2>1, <2>2 DEF Run
<1> HIDE DEF r
<1>6. run'[c] = r
  BY <1>1 DEF RunsInv, RunsTypeOK
<1>7. Done(c)' = Done(c)
  <2>1. run[c].executed \in Seq(S)
    BY <1>1 DEF Run
  <2> HIDE DEF S
  <2>2. {r.executed[k] : k \in DOMAIN r.executed} =
          {run[c].executed[k] : k \in DOMAIN run[c].executed} \union {"completed"}
    BY <1>5, <2>1
  <2> QED
    BY <1>1, <1>5, <1>6, <2>2 DEF Done, Executed
<1>8. row' = row /\ wf' = wf /\ pc'[c] = "idle"
  BY <1>1 DEF Return, Forget, db, RunsInv, IInv, TypeOK
<1>9. Underway(c, i, 8)'
  <2>1. r.executed = SubSeq(Sequence, i + 1, 8)
    <3>1. 7 \in 1..7 /\ i <= 7 /\ 7 + 1 = 8
      BY <1>3
    <3>2. Append(SubSeq(Sequence, i + 1, 7), Sequence[8]) = SubSeq(Sequence, i + 1, 8)
      BY <1>3, <3>1, SuffixGrows
    <3> QED
      BY <1>3, <1>4, <1>5, <3>2
  <2> QED
    BY <1>3, <1>5, <1>6, <1>8, <2>1 DEF Underway
<1>10. RunIsInOrder(c)'
  BY <1>3, <1>4, <1>9, SequenceFacts DEF RunIsInOrder
<1> QED
  BY <1>1, <1>5, <1>7, <1>8, <1>10, QuietRunStep

-----------------------------------------------------------------------------
(***************************************************************************)
(* The results.                                                            *)
(***************************************************************************)

\* No run, no trail: nothing to remember.
LEMMA RunsInitInv == RunsInit => RunsInv
<1> SUFFICES ASSUME RunsInit PROVE RunsInv
  OBVIOUS
<1>1. IInv
  BY InitIInv DEF RunsInit
<1>2. /\ RunsTypeOK
      /\ \A c \in Clients : run[c].at = "off" /\ run[c].executed = <<>>
  BY NoRunIsRun DEF RunsInit, RunsTypeOK
<1>3. \A c \in Clients : Done(c) = {}
  BY <1>2, NothingDone
<1>4. TrailFollowsChain
  BY DEF RunsInit, Init, TrailFollowsChain, FollowsChain
<1> QED
  BY <1>1, <1>2, <1>3, <1>4 DEF RunsInv, RunIsInOrder, DoneIsRecorded, DoneOnce

\* Every step keeps the invariant.
LEMMA RunsNextKeepsRunsInv == RunsInv /\ [RunsNext]_runVars => RunsInv'
<1> SUFFICES ASSUME RunsInv, [RunsNext]_runVars PROVE RunsInv'
  OBVIOUS
<1>1. CASE RunsNext
  <2>1. PICK c \in Clients :
          \/ \E w \in Workflows : StartRun(c, w)
          \/ RunStep(c) \/ GetsInTheWay(c) \/ Fails(c) \/ Die(c)
          \/ Bare(c)
    BY <1>1 DEF RunsNext
  <2>2. CASE Bare(c) \/ \E w \in Workflows : StartRun(c, w)
    BY <2>2, BareKeepsRunsInv, StartKeepsRunsInv
  <2>3. CASE RunStep(c)
    <3>1. CASE Finish(c)
      BY <3>1, StopKeepsRunsInv DEF Finish, UnitStep
    <3> QED
      BY <2>3, <3>1, EnterKeepsRunsInv, NextUnitKeepsRunsInv, ReportKeepsRunsInv,
         ProceedKeepsRunsInv, StageDoneKeepsRunsInv, CompletesKeepsRunsInv,
         CompletedKeepsRunsInv DEF RunStep
  <2>4. CASE GetsInTheWay(c) \/ Fails(c)
    BY <2>4, StopKeepsRunsInv DEF GetsInTheWay, Fails, UnitStep, Quiet, Raises
  <2>5. CASE Die(c)
    BY <2>5, StopKeepsRunsInv DEF Die, UnitStep, Quiet
  <2> QED
    BY <2>1, <2>2, <2>3, <2>4, <2>5
<1>2. CASE UNCHANGED runVars
  <2>1. IInv' /\ UNCHANGED vars /\ run' = run
    BY <1>2, NextKeepsIInv DEF runVars, RunsInv
  <2>2. \A c \in Clients : Done(c)' = Done(c)
    BY <2>1 DEF Done, Executed
  <2>3. \A c \in Clients : RunIsInOrder(c)' /\ DoneIsRecorded(c)'
    BY <2>1, <2>2 DEF vars, RunsInv, RunIsInOrder, Underway, DoneIsRecorded, HoldsRow
  <2>4. TrailFollowsChain' /\ RunsTypeOK' /\ DoneOnce'
    BY <2>1, <2>2 DEF vars, RunsInv, TrailFollowsChain, RunsTypeOK, DoneOnce
  <2> QED
    BY <2>1, <2>3, <2>4 DEF RunsInv
<1> QED
  BY <1>1, <1>2

\* The invariant of the runs holds in every reachable state.
THEOREM RunsInductive == RunsSpec => []RunsInv
BY RunsInitInv, RunsNextKeepsRunsInv, PTL DEF RunsSpec

\* The local variables of run() keep their types.
THEOREM RunsTypeCorrect == RunsSpec => []RunsTypeOK
<1>1. RunsInv => RunsTypeOK
  BY DEF RunsInv
<1> QED
  BY RunsInductive, <1>1, PTL

\* The pipeline only calls units of work: to the database a run is one more
\* client, so whatever holds of the store holds under any number of runs.
THEOREM RunsAreUnits == RunsSpec => Spec
<1>1. RunsInit => Init
  BY DEF RunsInit
<1>2. RunsInv /\ [RunsNext]_runVars => [Next]_vars
  <2> SUFFICES ASSUME RunsInv, [RunsNext]_runVars PROVE [Next]_vars
    OBVIOUS
  <2>1. ASSUME NEW c \in Clients, UnitStep(c)
        PROVE  [Next]_vars
    BY <2>1 DEF UnitStep, Quiet, Next, Step
  <2>2. ASSUME NEW c \in Clients,
               \/ \E w \in Workflows : StartRun(c, w)
               \/ RunStep(c) \/ GetsInTheWay(c) \/ Fails(c) \/ Die(c)
               \/ Bare(c)
        PROVE  UnitStep(c)
    <3>1. CASE Bare(c)
      BY <3>1, BareOpsAssumption DEF Bare, UnitStep, Quiet, Step
    <3>2. CASE \E w \in Workflows : StartRun(c, w)
      BY <3>2 DEF StartRun, UnitStep, Quiet, Ops
    <3>3. CASE GetsInTheWay(c) \/ Fails(c) \/ Die(c)
      BY <3>3 DEF GetsInTheWay, Fails, Die, UnitStep, Quiet, Raises
    <3>4. CASE NextUnit(c)
      BY <3>4, NextUnitKeepsRunsInv DEF UnitStep
    <3>5. CASE RunStep(c) /\ ~NextUnit(c)
      BY <3>5 DEF RunStep, Enter, ReadReport, Proceed, StageDone, Completes, Completed, Finish,
                  UnitStep, Quiet, Commits
    <3> QED
      BY <2>2, <3>1, <3>2, <3>3, <3>4, <3>5
  <2> QED
    BY <2>1, <2>2 DEF RunsNext, runVars, vars
<1> QED
  BY <1>1, <1>2, RunsInductive, PTL DEF RunsSpec, Spec

\* Two runs on one workflow never execute the same stage, even when one of
\* them fails later.
THEOREM StagesOnce == RunsSpec => []StagesRunOnce
<1>1. RunsInv => StagesRunOnce
  BY DEF RunsInv, DoneOnce, Done, StagesRunOnce
<1> QED
  BY RunsInductive, <1>1, PTL

\* A run that reaches its result executed exactly the stages after the state
\* it started from: ShoppingPipelineResult never refuses a completed run.
THEOREM ResultsValid == RunsSpec => []ResultIsValid
<1>1. RunsInv => ResultIsValid
  <2> SUFFICES ASSUME RunsInv, NEW c \in Clients, HasResult(c)
               PROVE  \E i \in DOMAIN Sequence :
                        /\ Sequence[i] = run[c].started
                        /\ run[c].executed = SubSeq(Sequence, i + 1, Len(Sequence))
    BY DEF ResultIsValid
  <2>1. PICK i, j \in DOMAIN Sequence : Underway(c, i, j)
    BY DEF HasResult, RunsInv, RunIsInOrder
  <2>2. Sequence[j] = "completed" /\ j \in 1..8
    BY <2>1, SequenceFacts DEF HasResult, Underway
  <2>3. j = Len(Sequence)
    BY <2>2, SequenceFacts
  <2> QED
    BY <2>1, <2>3 DEF Underway
<1> QED
  BY RunsInductive, <1>1, PTL
=============================================================================
