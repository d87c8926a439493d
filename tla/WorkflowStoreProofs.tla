------------------------ MODULE WorkflowStoreProofs -------------------------
(***************************************************************************)
(* The invariants of WorkflowStore, proved for every number of clients and *)
(* workflows, and that it implements WorkflowLifecycle.                    *)
(***************************************************************************)
EXTENDS WorkflowStore, FiniteSetTheorems, SequenceTheorems, TLAPS

\* The initial states satisfy the inductive invariant.
LEMMA InitIInv == Init => IInv
  <1> SUFFICES ASSUME Init PROVE IInv
    OBVIOUS
  <1> USE ClientsAssumption DEF Init, NoRow, NoFacts
  <1>1. TypeOK
    BY DEF TypeOK, WorkflowRow, PCs
  <1>2. TrailIsComplete
    BY DEF TrailIsComplete, Exists, WorkflowState, LiveStates, NextState
  <1>3. StageRowsMatchTrail
    <2> SUFFICES ASSUME NEW w \in Workflows, NEW s \in StageStates
                 PROVE  facts[w][s] = Cardinality(Entries(trail[w], s))
      BY DEF StageRowsMatchTrail
    <2>1. Entries(trail[w], s) = {}
      BY DEF Entries
    <2> QED
      BY <2>1, FS_EmptySet
  <1>4. LockIsHeld
    BY DEF LockIsHeld, LockedPCs
  <1>5. ASSUME NEW c \in Clients PROVE ClientInv(c)
    BY DEF ClientInv, StartIsFresh, ReadIsPast, SeenMoveStays, UnitIsInOrder,
           HoldsRow, BeforeTrail, BeforeRow
  <1> QED
    BY <1>1, <1>2, <1>3, <1>4, <1>5 DEF IInv

-----------------------------------------------------------------------------
\* The declared chain stays inside the workflow's states and leaves neither
\* terminal state, and the deletion marks are no states at all.
LEMMA ChainFacts ==
  /\ LiveStates \subseteq WorkflowState
  /\ \A s \in LiveStates : NextState[s] \in WorkflowState
  /\ {"completed", "failed"} \subseteq WorkflowState \ LiveStates
  /\ {"absent", "deleted", "none"} \intersect WorkflowState = {}
  /\ StageStates \subseteq WorkflowState
  /\ StageStates \intersect {"start", "get", "delete", "none", "completed", "failed"} = {}
  <1>1. /\ LiveStates = {"request_received", "request_validated", "candidates_discovered",
                         "offers_collected", "evidence_cross_checked", "data_normalized",
                         "candidates_scored", "report_rendered"}
        /\ \A s \in LiveStates : NextState[s] \in
             {"request_validated", "candidates_discovered", "offers_collected",
              "evidence_cross_checked", "data_normalized", "candidates_scored",
              "report_rendered", "completed"}
    BY DEF LiveStates, NextState
  <1> QED
    BY <1>1 DEF WorkflowState, StageStates

\* What one client holds in memory.
Local(c) == <<pc[c], op[c], wf[c], seenRow[c], seenTrail[c], seenFacts[c], todo[c]>>

\* Every step but a commit: the database stays as it is.
Quiet(c) ==
  \/ \E o \in Ops, w \in Workflows : Call(c, o, w)
  \/ Reads(c) \/ Lock(c) \/ Apply(c) \/ Return(c) \/ Raises(c) \/ Crash(c)

\* Nobody touches what another client holds in memory.
LEMMA OthersUntouched ==
  ASSUME TypeOK, LockIsHeld, NEW c \in Clients, Quiet(c) \/ Commits(c),
         NEW d \in Clients, d # c
  PROVE  /\ Local(d)' = Local(d)
         /\ (writer = d) <=> (writer' = d)
  <1> USE DEF TypeOK, Local, Goto, Forget, db, seen
  <1>1. ASSUME NEW o \in Ops, NEW w \in Workflows, Call(c, o, w)
        PROVE  Local(d)' = Local(d) /\ writer' = writer
    BY <1>1 DEF Call
  <1>2. CASE Reads(c)
    BY <1>2 DEF Reads, LoadRow, LoadRequest, LoadEvents, Discover, CollectDetail, Ingest, ListProducts,
                CrossCheck, Consult, Normalize, Score, Render, PlanDeletion, GatherFrom, ReadFacts
  <1>3. CASE Lock(c) \/ Apply(c) \/ Return(c)
    BY <1>3, ClientsAssumption DEF Lock, Apply, Return
  <1>4. CASE Raises(c) \/ Crash(c)
    BY <1>4, ClientsAssumption
       DEF Raises, Missing, Refused, GiveUp, Busy, Rejected, CommitFails, Crash, Rollback
  <1>5. CASE Commits(c)
    BY <1>5, ClientsAssumption
       DEF Commits, CommitStart, CommitStage, CommitMove, CommitDelete, WriteMove,
           LockIsHeld, LockedPCs
  <1> QED
    BY <1>1, <1>2, <1>3, <1>4, <1>5 DEF Quiet

-----------------------------------------------------------------------------
\* A unit that gives up, is refused or is killed leaves nothing behind.
LEMMA RollbackKeepsIInv ==
  ASSUME IInv, NEW c \in Clients, Rollback(c)
  PROVE  /\ TypeOK'
         /\ LockIsHeld'
         /\ ClientInv(c)'
         /\ UNCHANGED db
         /\ op'[c] # "start"
  <1> USE DEF Rollback, Forget
  <1>1. TypeOK'
    BY DEF IInv, TypeOK, db, NoRow, WorkflowRow, PCs, Ops
  <1>2. LockIsHeld'
    <2> SUFFICES ASSUME NEW d \in Clients PROVE (writer = d <=> pc[d] \in LockedPCs)'
      BY DEF LockIsHeld
    <2> QED
      BY ClientsAssumption DEF IInv, TypeOK, LockIsHeld, LockedPCs
  <1>3. ClientInv(c)'
    BY DEF IInv, TypeOK, ClientInv, StartIsFresh, ReadIsPast, SeenMoveStays, UnitIsInOrder,
           HoldsRow, BeforeRow, BeforeTrail, db
  <1> QED
    BY <1>1, <1>2, <1>3 DEF db, IInv, TypeOK

\* A call begins a unit with nothing read; a start also takes an identifier
\* that nobody else has.
LEMMA CallKeepsIInv ==
  ASSUME IInv, NEW c \in Clients, NEW o \in Ops, NEW w \in Workflows, Call(c, o, w)
  PROVE  /\ TypeOK'
         /\ LockIsHeld'
         /\ ClientInv(c)'
         /\ UNCHANGED db
         /\ \A d \in Clients \ {c} : op[d] = "start" /\ op'[c] = "start" => wf[d] # wf'[c]
  <1> USE DEF Call, Goto, db, seen
  <1>1. TypeOK'
    BY DEF IInv, TypeOK, PCs, Ops
  <1>2. LockIsHeld'
    BY DEF IInv, TypeOK, LockIsHeld, LockedPCs
  <1>3. \A d \in Clients \ {c} : op[d] = "start" /\ op'[c] = "start" => wf[d] # wf'[c]
    BY DEF IInv, TypeOK, Unused
  <1>4. StartIsFresh(c)'
    <2> SUFFICES ASSUME o = "start" PROVE StartIsFresh(c)'
      BY DEF StartIsFresh, IInv, TypeOK
    <2>1. row[w].state = "absent" /\ \A d \in Clients : op[d] = "start" => wf[d] # w
      BY DEF Unused
    <2> QED
      BY <2>1 DEF StartIsFresh, IInv, TypeOK
  <1>5. ReadIsPast(c)' /\ SeenMoveStays(c)'
    BY DEF IInv, TypeOK, ReadIsPast, SeenMoveStays, HoldsRow, BeforeRow
  <1>6. UnitIsInOrder(c)'
    BY ChainFacts DEF IInv, TypeOK, ClientInv, UnitIsInOrder, BeforeRow, BeforeTrail, Admits, Ops
  <1> QED
    BY <1>1, <1>2, <1>3, <1>4, <1>5, <1>6 DEF ClientInv

-----------------------------------------------------------------------------
\* What a unit reads is current when it is read.
LEMMA ReadsKeepIInv ==
  ASSUME IInv, NEW c \in Clients, Reads(c)
  PROVE  /\ TypeOK'
         /\ LockIsHeld'
         /\ ClientInv(c)'
         /\ UNCHANGED <<db, op, wf>>
  <1> USE DEF Goto, db, seen
  <1>1. UNCHANGED <<db, writer, op, wf>>
    BY DEF Reads, LoadRow, LoadRequest, LoadEvents, Discover, CollectDetail, Ingest, ListProducts,
           CrossCheck, Consult, Normalize, Score, Render, PlanDeletion, GatherFrom
  <1>2. CASE LoadRow(c)
    <2>1. TypeOK'
      BY <1>2 DEF LoadRow, IInv, TypeOK, PCs
    <2>2. /\ pc'[c] = "load_request" /\ op[c] # "none"
          /\ seenRow'[c] = row[wf[c]] /\ seenFacts'[c] = {}
      BY <1>2 DEF LoadRow, IInv, TypeOK, ClientInv, UnitIsInOrder, BeforeRow
    <2>3. Exists(row[wf[c]]) /\ pc[c] = "load_row" /\ op[c] # "start"
      BY <1>2 DEF LoadRow, IInv, ClientInv, StartIsFresh, LockedPCs
    <2>4. row[wf[c]].state # "absent" /\ row[wf[c]].revision \in Nat
      BY <2>3, ChainFacts DEF Exists, IInv, TypeOK, WorkflowRow
    <2>5. Records(trail[wf[c]], row[wf[c]])
      BY <2>3, <2>4 DEF Records, IInv, TypeOK, TrailIsComplete, TellsHistoryOf
    <2>6. StartIsFresh(c)' /\ ReadIsPast(c)'
      BY <1>1, <2>2, <2>3, <2>4 DEF StartIsFresh, ReadIsPast, HoldsRow, BeforeTrail, BeforeRow
    <2>7. SeenMoveStays(c)' /\ UnitIsInOrder(c)'
      BY <1>1, <2>2, <2>3, <2>5
         DEF SeenMoveStays, UnitIsInOrder, HoldsRow, Records, BeforeTrail, BeforeRow
    <2>8. LockIsHeld'
      BY <1>1, <1>2 DEF LoadRow, IInv, TypeOK, LockIsHeld, LockedPCs
    <2> QED
      BY <1>1, <2>1, <2>6, <2>7, <2>8 DEF ClientInv
  <1>3. CASE LoadRequest(c)
    BY <1>1, <1>3 DEF LoadRequest, IInv, TypeOK, PCs, LockIsHeld, LockedPCs, ClientInv,
          StartIsFresh, ReadIsPast, SeenMoveStays, UnitIsInOrder, HoldsRow, BeforeTrail, BeforeRow,
          Unmoved
  <1>4. CASE LoadEvents(c)
    <2>1. AfterSnapshot(op[c]) \in {"discover", "write", "got", "gather"} /\ InputReads(op[c]) \in Nat
      BY DEF AfterSnapshot, InputReads
    <2>2. TypeOK'
      BY <1>4, <2>1 DEF LoadEvents, IInv, TypeOK, PCs, AwaitPCs
    <2>3. LockIsHeld'
      BY <1>1, <1>4, <2>1 DEF LoadEvents, IInv, TypeOK, LockIsHeld, LockedPCs
    <2>4. /\ pc[c] = "load_events" /\ op[c] # "start" /\ Admits(op[c], seenRow[c])
          /\ pc'[c] \in {"discover", "write", "got", "gather"}
          /\ seenTrail'[c] = trail[wf[c]]
          /\ UNCHANGED <<seenRow, seenFacts>>
      BY <1>4, <2>1 DEF LoadEvents, IInv, TypeOK, ClientInv, StartIsFresh, LockedPCs
    <2>5. StartIsFresh(c)' /\ ReadIsPast(c)'
      BY <1>1, <2>4 DEF IInv, ClientInv, StartIsFresh, ReadIsPast, HoldsRow,
                        BeforeTrail, BeforeRow, Unmoved
    <2>6. pc'[c] = "gather" => todo'[c] > 0
      <3> SUFFICES ASSUME pc'[c] = "gather" PROVE InputReads(op[c]) > 0
        BY <1>4 DEF LoadEvents, IInv, TypeOK
      <3>1. AfterSnapshot(op[c]) = "gather" /\ op[c] \in Ops
        BY <1>4, <2>4 DEF LoadEvents, IInv, TypeOK, ClientInv, UnitIsInOrder
      <3> QED
        BY <3>1, <2>4 DEF AfterSnapshot, InputReads, Ops, StageStates
    <2>7. UnitIsInOrder(c)'
      BY <1>1, <2>4, <2>6 DEF IInv, ClientInv, UnitIsInOrder, BeforeTrail, BeforeRow
    <2>8. trail[wf[c]] # <<>> => Exists(row[wf[c]])
      BY DEF IInv, TypeOK, TrailIsComplete
    <2>9. SeenMoveStays(c)'
      BY <1>1, <2>4, <2>8 DEF IInv, ClientInv, SeenMoveStays, HoldsRow, BeforeTrail, BeforeRow
    <2> QED
      BY <1>1, <2>2, <2>3, <2>5, <2>9, <2>7 DEF ClientInv
  <1>5. ASSUME ~LoadRow(c), ~LoadRequest(c), ~LoadEvents(c)
        PROVE  TypeOK' /\ LockIsHeld' /\ ClientInv(c)'
    <2>1. /\ TypeOK
          /\ pc[c] \in {"detail", "consult", "gather"} => todo[c] > 0
      BY DEF IInv, ClientInv, UnitIsInOrder
    <2>2. \/ Discover(c) \/ CollectDetail(c) \/ ListProducts(c) \/ CrossCheck(c) \/ Consult(c)
          \/ PlanDeletion(c) \/ \E stage \in StageStates : GatherFrom(c, stage)
      BY <1>5 DEF Reads, Ingest, Normalize, Score, Render, StageStates
    <2>3. /\ pc[c] \in {"discover", "detail", "gather", "consult"}
          /\ \E there \in {"detail", "gather", "consult", "write"} :
               \E n \in Nat :
                 /\ pc' = [pc EXCEPT ![c] = there]
                 /\ todo' = [todo EXCEPT ![c] = n]
                 /\ there # "write" => n > 0
      <3> USE <2>1, MaxDetailsAssumption DEF TypeOK
      <3>1. CASE Discover(c) \/ CrossCheck(c)
        <4>1. PICK n \in 1..MaxDetails : todo' = [todo EXCEPT ![c] = n]
          BY <3>1 DEF Discover, CrossCheck
        <4>2. n \in Nat /\ n > 0
          BY <4>1
        <4>3. /\ pc[c] \in {"discover", "gather"}
              /\ \/ pc' = [pc EXCEPT ![c] = "detail"]
                 \/ pc' = [pc EXCEPT ![c] = "consult"]
          BY <3>1 DEF Discover, CrossCheck
        <4> QED
          BY <4>1, <4>2, <4>3
      <3>2. CASE ListProducts(c)
        <4>1. /\ pc[c] = "gather" /\ pc' = [pc EXCEPT ![c] = "gather"]
              /\ todo' = [todo EXCEPT ![c] = 1]
          BY <3>2 DEF ListProducts
        <4>2. \E n \in Nat : n > 0 /\ todo' = [todo EXCEPT ![c] = n]
          BY <4>1, 1 \in Nat, 1 > 0
        <4> QED
          BY <4>1, <4>2
      <3>3. CASE todo[c] > 1
        <4>1. todo[c] - 1 \in Nat /\ todo[c] - 1 > 0
          BY <3>3
        <4>2. CASE CollectDetail(c) \/ Consult(c)
          BY <3>3, <4>1, <4>2 DEF CollectDetail, Consult
        <4>3. CASE PlanDeletion(c) \/ \E stage \in StageStates : GatherFrom(c, stage)
          BY <3>3, <4>1, <4>3 DEF PlanDeletion, GatherFrom
        <4> QED
          BY <2>2, <3>1, <3>2, <4>2, <4>3
      <3>4. CASE ~(todo[c] > 1)
        <4>1. pc[c] \in {"detail", "consult", "gather"} => todo[c] - 1 \in Nat
          BY <3>4
        <4>2. CASE CollectDetail(c) \/ Consult(c)
          BY <3>4, <4>1, <4>2 DEF CollectDetail, Consult
        <4>3. CASE PlanDeletion(c) \/ \E stage \in StageStates : GatherFrom(c, stage)
          BY <3>4, <4>1, <4>3 DEF PlanDeletion, GatherFrom
        <4> QED
          BY <2>2, <3>1, <3>2, <4>2, <4>3
      <3> QED
        BY <3>3, <3>4
    <2>4. /\ UNCHANGED <<seenRow, seenTrail>>
          /\ \/ UNCHANGED seenFacts
             \/ seenFacts' = [seenFacts EXCEPT ![c] = seenFacts[c] \union {facts[wf[c]]}]
      BY <2>2 DEF Discover, CollectDetail, ListProducts, CrossCheck, Consult, PlanDeletion, GatherFrom,
                   ReadFacts
    <2>5. /\ pc'[c] \in {"detail", "gather", "consult", "write"}
          /\ pc'[c] # "write" => todo'[c] > 0
      BY <2>1, <2>3 DEF TypeOK
    <2>6. TypeOK'
      <3>1. pc' \in [Clients -> PCs] /\ todo' \in [Clients -> Nat]
        BY <2>1, <2>3 DEF TypeOK, PCs, AwaitPCs
      <3>2. facts[wf[c]] \in [StageStates -> Nat]
        BY <2>1 DEF TypeOK
      <3>3. seenFacts' \in [Clients -> SUBSET [StageStates -> Nat]]
        <4> DEFINE Versions == [StageStates -> Nat]
        <4>1. seenFacts \in [Clients -> SUBSET Versions] /\ facts[wf[c]] \in Versions
          BY <2>1, <3>2 DEF TypeOK
        <4> HIDE DEF Versions
        <4>2. seenFacts[c] \union {facts[wf[c]]} \in SUBSET Versions
          BY <4>1
        <4>3. seenFacts' \in [Clients -> SUBSET Versions]
          BY <2>4, <4>1, <4>2
        <4> QED
          BY <4>3 DEF Versions
      <3> QED
        BY <1>1, <2>1, <2>4, <3>1, <3>3 DEF TypeOK
    <2>7. LockIsHeld'
      BY <1>1, <2>1, <2>3 DEF IInv, TypeOK, LockIsHeld, LockedPCs
    <2>8. op[c] # "start"
      BY <2>3 DEF IInv, ClientInv, StartIsFresh, LockedPCs
    <2>9. seenFacts'[c] \subseteq seenFacts[c] \union {facts[wf[c]]}
      BY <2>1, <2>4 DEF TypeOK
    <2>10. ReadIsPast(c)'
      BY <1>1, <2>3, <2>4, <2>8, <2>9
         DEF IInv, ClientInv, ReadIsPast, HoldsRow, BeforeTrail, BeforeRow, Unmoved
    <2>11. StartIsFresh(c)' /\ SeenMoveStays(c)' /\ UnitIsInOrder(c)'
      BY <1>1, <2>3, <2>4, <2>5, <2>8
         DEF IInv, ClientInv, StartIsFresh, SeenMoveStays, UnitIsInOrder,
             HoldsRow, BeforeTrail, BeforeRow
    <2> QED
      BY <2>6, <2>7, <2>10, <2>11 DEF ClientInv
  <1> QED
    BY <1>1, <1>2, <1>3, <1>4, <1>5

-----------------------------------------------------------------------------
\* Taking the lock and matching the row.
LEMMA LockKeepsIInv ==
  ASSUME IInv, NEW c \in Clients, Lock(c) \/ Apply(c)
  PROVE  TypeOK' /\ LockIsHeld' /\ ClientInv(c)' /\ UNCHANGED <<db, op, wf>>
  <1> USE DEF Goto, db, seen
  <1>1. TypeOK'
    BY DEF Lock, Apply, IInv, TypeOK, PCs, LockedPCs
  <1>2. LockIsHeld'
    <2> SUFFICES ASSUME NEW d \in Clients PROVE (writer = d <=> pc[d] \in LockedPCs)'
      BY DEF LockIsHeld
    <2>1. CASE Lock(c)
      BY <2>1, ClientsAssumption DEF Lock, IInv, TypeOK, LockIsHeld, LockedPCs
    <2>2. CASE Apply(c)
      BY <2>2 DEF Apply, IInv, TypeOK, LockIsHeld, LockedPCs
    <2> QED
      BY <2>1, <2>2
  <1>3. Apply(c) /\ op[c] # "start" => Unmoved(c)
    BY DEF Apply, WriteAccepted, PlanStillHolds
  <1>4. /\ pc[c] \in {"write", "locked"}
        /\ \/ pc'[c] = "locked"
           \/ pc'[c] = "commit" /\ Apply(c)
        /\ UNCHANGED <<row, trail, facts, op, wf, seenRow, seenTrail, seenFacts, todo>>
    BY DEF Lock, Apply, IInv, TypeOK
  <1>5. ClientInv(c)
    BY DEF IInv
  <1>6. StartIsFresh(c)' /\ ReadIsPast(c)' /\ SeenMoveStays(c)'
    BY <1>4, <1>5 DEF ClientInv, StartIsFresh, ReadIsPast, SeenMoveStays, HoldsRow,
                      BeforeRow, BeforeTrail, LockedPCs, Unmoved
  <1>7. UnitIsInOrder(c)'
    BY <1>3, <1>4, <1>5 DEF ClientInv, UnitIsInOrder, BeforeRow, BeforeTrail, Unmoved
  <1> QED
    BY <1>1, <1>2, <1>4, <1>6, <1>7 DEF ClientInv

\* A snapshot handed to its caller is forgotten, as by a rollback.
LEMMA ReturnIsRollback ==
  ASSUME IInv, NEW c \in Clients, Return(c)
  PROVE  Rollback(c)
  <1>1. writer # c
    BY DEF Return, IInv, LockIsHeld, LockedPCs
  <1> QED
    BY <1>1 DEF Return, Rollback

\* The other clients' part of the invariant survives a step that leaves the
\* database alone.
LEMMA QuietKeepsOthers ==
  ASSUME IInv, NEW c \in Clients, NEW d \in Clients, d # c,
         Local(d)' = Local(d), UNCHANGED db,
         \A e \in Clients \ {c} : Local(e)' = Local(e),
         op[d] = "start" /\ op'[c] = "start" => wf[d] # wf'[c]
  PROVE  ClientInv(d)'
  <1>1. ClientInv(d)
    BY DEF IInv
  <1>2. StartIsFresh(d)'
    <2> SUFFICES ASSUME op[d] = "start" PROVE StartIsFresh(d)'
      BY DEF StartIsFresh, Local
    <2>1. /\ pc[d] \in {"write"} \union LockedPCs
          /\ row[wf[d]].state = "absent"
          /\ \A e \in Clients : op[e] = "start" /\ wf[e] = wf[d] => e = d
      BY <1>1 DEF ClientInv, StartIsFresh
    <2>2. ASSUME NEW e \in Clients, op'[e] = "start", wf'[e] = wf'[d] PROVE e = d
      <3>1. e # c
        BY <2>2 DEF Local
      <3>2. op[e] = "start" /\ wf[e] = wf[d]
        BY <2>2, <3>1 DEF Local
      <3> QED
        BY <2>1, <3>2
    <2> QED
      BY <2>1, <2>2 DEF StartIsFresh, Local, db
  <1>3. ReadIsPast(d)' /\ SeenMoveStays(d)'
    BY <1>1 DEF ClientInv, ReadIsPast, SeenMoveStays, HoldsRow, Unmoved, Local, db
  <1>4. UnitIsInOrder(d)'
    BY <1>1 DEF ClientInv, UnitIsInOrder, Unmoved, Local, db
  <1> QED
    BY <1>2, <1>3, <1>4 DEF ClientInv

\* No step but a commit changes the database.
LEMMA QuietLeavesDb ==
  ASSUME IInv, NEW c \in Clients, Quiet(c)
  PROVE  UNCHANGED db
  <1>1. CASE \E o \in Ops, w \in Workflows : Call(c, o, w)
    BY <1>1 DEF Call
  <1>2. CASE Reads(c) \/ Lock(c) \/ Apply(c)
    BY <1>2, ReadsKeepIInv, LockKeepsIInv
  <1>3. CASE Return(c) \/ Raises(c) \/ Crash(c)
    BY <1>3 DEF Return, Raises, Missing, Refused, GiveUp, Busy, Rejected, CommitFails, Crash, Rollback
  <1> QED
    BY <1>1, <1>2, <1>3 DEF Quiet

\* Every step but a commit keeps the invariant.
LEMMA QuietKeepsIInv ==
  ASSUME IInv, NEW c \in Clients, Quiet(c)
  PROVE  IInv'
  <1>1. /\ TypeOK' /\ LockIsHeld' /\ ClientInv(c)' /\ UNCHANGED db
        /\ \A d \in Clients \ {c} : op[d] = "start" /\ op'[c] = "start" => wf[d] # wf'[c]
    <2>1. CASE \E o \in Ops, w \in Workflows : Call(c, o, w)
      BY <2>1, CallKeepsIInv
    <2>2. CASE Reads(c) \/ Lock(c) \/ Apply(c)
      <3>1. TypeOK' /\ LockIsHeld' /\ ClientInv(c)' /\ UNCHANGED <<db, op, wf>>
        BY <2>2, ReadsKeepIInv, LockKeepsIInv
      <3>2. \A d \in Clients \ {c} : op[d] = "start" /\ op'[c] = "start" => wf[d] # wf'[c]
        BY <3>1 DEF IInv, ClientInv, StartIsFresh
      <3> QED
        BY <3>1, <3>2
    <2>3. CASE Return(c) \/ Raises(c) \/ Crash(c)
      <3>1. Rollback(c)
        BY <2>3, ReturnIsRollback
           DEF Raises, Missing, Refused, GiveUp, Busy, Rejected, CommitFails, Crash
      <3> QED
        BY <3>1, RollbackKeepsIInv
    <2> QED
      BY <2>1, <2>2, <2>3 DEF Quiet
  <1>2. TrailIsComplete' /\ StageRowsMatchTrail'
    BY <1>1 DEF IInv, TrailIsComplete, StageRowsMatchTrail, db
  <1>3. \A d \in Clients \ {c} : Local(d)' = Local(d)
    BY OthersUntouched DEF IInv
  <1>4. ASSUME NEW d \in Clients PROVE ClientInv(d)'
    <2>1. CASE d = c
      BY <1>1, <2>1
    <2>2. CASE d # c
      BY <1>1, <1>3, <2>2, QuietKeepsOthers
    <2> QED
      BY <2>1, <2>2
  <1> QED
    BY <1>1, <1>2, <1>4 DEF IInv

-----------------------------------------------------------------------------
\* The trail of a new workflow tells its history.
LEMMA InitialTrailTells ==
  InitialTrail \in Seq(Event) /\ TellsHistoryOf(InitialTrail, InitialRow)
  <1>1. InitialTrail \in Seq(Event)
    BY ChainFacts DEF InitialTrail, Event, WorkflowState, LiveStates, NextState
  <1>2. NextState["request_received"] = "request_validated" /\ "request_received" \in LiveStates
    BY DEF NextState, LiveStates
  <1> QED
    BY <1>1, <1>2 DEF TellsHistoryOf, InitialTrail, InitialRow

\* One more declared move, or a failure, extends a history to a history and
\* keeps every event that was there.
LEMMA MoveExtendsHistory ==
  ASSUME NEW r \in WorkflowRow, NEW t \in Seq(Event), TellsHistoryOf(t, r),
         NEW target, r.state \in LiveStates, target \in {NextState[r.state], "failed"}
  PROVE  LET t2 == Append(t, MoveEvent(r, target))
         IN  /\ t2 \in Seq(Event)
             /\ TellsHistoryOf(t2, Moved(r, target))
             /\ Moved(r, target) \in WorkflowRow
             /\ Exists(Moved(r, target))
  <1> DEFINE e == MoveEvent(r, target)
             t2 == Append(t, e)
  <1>1. target \in WorkflowState /\ r.state \in WorkflowState /\ r.revision \in Nat
    BY ChainFacts DEF WorkflowRow
  <1>2. e \in Event /\ e.sequence = r.revision + 1 /\ e.from_state = r.state /\ e.to_state = target
    BY <1>1 DEF MoveEvent, Event
  <1>3. /\ Moved(r, target) \in WorkflowRow /\ Exists(Moved(r, target))
        /\ Moved(r, target).revision = r.revision + 1 /\ Moved(r, target).state = target
    BY <1>1 DEF Moved, WorkflowRow, Exists
  <1> HIDE DEF e
  <1>4. /\ t2 \in Seq(Event) /\ Len(t2) = Len(t) + 1 /\ t2[Len(t) + 1] = e
        /\ \A i \in 1..Len(t) : t2[i] = t[i]
        /\ Len(t) = r.revision + 1 /\ t[Len(t)].to_state = r.state
    BY <1>1, <1>2 DEF TellsHistoryOf
  <1> HIDE DEF t2
  <1>5. ASSUME NEW i \in 1..Len(t2) PROVE t2[i].sequence = i - 1
    <2>0. Len(t) \in Nat
      OBVIOUS
    <2>1. CASE i = Len(t) + 1
      BY <1>2, <1>4, <2>0, <2>1
    <2>2. CASE i # Len(t) + 1
      <3>1. i \in 1..Len(t)
        BY <1>4, <2>0, <2>2
      <3> QED
        BY <1>4, <3>1 DEF TellsHistoryOf
    <2> QED
      BY <2>1, <2>2
  <1>6. ASSUME NEW i \in 2..Len(t2)
        PROVE  /\ t2[i].from_state = t2[i - 1].to_state
               /\ t2[i].from_state \in LiveStates
               /\ t2[i].to_state \in {NextState[t2[i].from_state], "failed"}
    <2>1. CASE i = Len(t) + 1
      <3>1. t2[i] = e /\ t2[i - 1] = t[Len(t)]
        BY <1>1, <1>4, <2>1
      <3> QED
        BY <1>2, <1>4, <3>1
    <2>2. CASE i # Len(t) + 1
      <3>0. Len(t) \in Nat
        OBVIOUS
      <3>1. i \in 2..Len(t) /\ i \in 1..Len(t) /\ i - 1 \in 1..Len(t)
        BY <1>4, <2>2, <3>0
      <3>2. t2[i] = t[i] /\ t2[i - 1] = t[i - 1]
        BY <1>4, <3>1
      <3> QED
        BY <3>1, <3>2 DEF TellsHistoryOf
    <2> QED
      BY <2>1, <2>2
  <1>7. TellsHistoryOf(t2, Moved(r, target))
    <2>1. t2[1].from_state = "none"
      <3>1. 1 \in 1..Len(t)
        BY <1>1, <1>4
      <3>2. t2[1] = t[1]
        BY <1>4, <3>1
      <3> QED
        BY <3>2 DEF TellsHistoryOf
    <2> QED
      BY <1>1, <1>2, <1>3, <1>4, <1>5, <1>6, <2>1 DEF TellsHistoryOf
  <1> QED
    BY <1>3, <1>4, <1>7 DEF t2, e

-----------------------------------------------------------------------------
\* Each event counts once, for the state it enters.
LEMMA AppendCounts ==
  ASSUME NEW t \in Seq(Event), NEW e \in Event, NEW s
  PROVE  Cardinality(Entries(Append(t, e), s)) =
           Cardinality(Entries(t, s)) + (IF e.to_state = s THEN 1 ELSE 0)
  <1> DEFINE n == Len(t) + 1
  <1>1. n \in Nat /\ n \notin Entries(t, s)
    BY DEF Entries
  <1>2. IsFiniteSet(Entries(t, s)) /\ Cardinality(Entries(t, s)) \in Nat
    <2>1. Entries(t, s) \in SUBSET (1..Len(t))
      BY DEF Entries
    <2>2. IsFiniteSet(1..Len(t))
      BY FS_Interval
    <2> QED
      BY <2>1, <2>2, FS_Subset, FS_CardinalityType
  <1>3. Entries(Append(t, e), s) = IF e.to_state = s THEN Entries(t, s) \union {n} ELSE Entries(t, s)
    <2>1. /\ DOMAIN Append(t, e) = (1..Len(t)) \union {n} /\ DOMAIN t = 1..Len(t)
          /\ Append(t, e)[n] = e
          /\ \A i \in 1..Len(t) : Append(t, e)[i] = t[i]
      OBVIOUS
    <2> QED
      BY <2>1 DEF Entries
  <1>4. Cardinality(Entries(t, s) \union {n}) = Cardinality(Entries(t, s)) + 1
    BY <1>1, <1>2, FS_AddElement
  <1> QED
    BY <1>2, <1>3, <1>4

\* Stage rows still match when the rows of a stage are committed with the
\* event of its transition, or a move to COMPLETED or FAILED with no rows.
LEMMA MoveCounts ==
  ASSUME NEW t \in Seq(Event), NEW e \in Event, NEW f \in [StageStates -> Nat], NEW g,
         \A s \in StageStates : f[s] = Cardinality(Entries(t, s)),
         \A s \in StageStates : g[s] = f[s] + (IF e.to_state = s THEN 1 ELSE 0)
  PROVE  \A s \in StageStates : g[s] = Cardinality(Entries(Append(t, e), s))
  BY AppendCounts

\* A new trail has entered no stage.
LEMMA InitialCounts ==
  \A s \in StageStates : Cardinality(Entries(InitialTrail, s)) = 0
  <1> SUFFICES ASSUME NEW s \in StageStates PROVE Entries(InitialTrail, s) = {}
    BY FS_EmptySet
  <1> QED
    BY DEF Entries, InitialTrail, StageStates

-----------------------------------------------------------------------------
\* The three things a commit can do to the database of workflow wf[c].
Begins(c) ==
  /\ op[c] = "start"
  /\ row[wf[c]].state = "absent"
  /\ row' = [row EXCEPT ![wf[c]] = InitialRow]
  /\ trail' = [trail EXCEPT ![wf[c]] = InitialTrail]
  /\ UNCHANGED facts

MovesTo(c, target) ==
  /\ op[c] # "start"
  /\ row[wf[c]].state \in LiveStates
  /\ target \in {NextState[row[wf[c]].state], "failed"}
  /\ row' = [row EXCEPT ![wf[c]] = Moved(row[wf[c]], target)]
  /\ trail' = [trail EXCEPT ![wf[c]] = Append(trail[wf[c]], MoveEvent(row[wf[c]], target))]
  /\ \/ /\ target \in StageStates
        /\ facts' = [facts EXCEPT ![wf[c]][target] = @ + 1]
     \/ target \notin StageStates /\ UNCHANGED facts

Ends(c) ==
  /\ op[c] # "start"
  /\ Exists(row[wf[c]])
  /\ row' = [row EXCEPT ![wf[c]] = NoRow("deleted")]
  /\ trail' = [trail EXCEPT ![wf[c]] = <<>>]
  /\ facts' = [facts EXCEPT ![wf[c]] = NoFacts]

\* The row and event a commit writes, computed from the client's own copy, are
\* the ones the committed row asks for.
LEMMA CommitEffect ==
  ASSUME IInv, NEW c \in Clients, Commits(c)
  PROVE  /\ pc[c] = "commit" /\ writer = c /\ wf[c] \in Workflows
         /\ \/ Begins(c)
            \/ \E target \in WorkflowState : MovesTo(c, target)
            \/ Ends(c)
  <1>1. pc[c] = "commit"
    BY DEF Commits, CommitStart, CommitStage, CommitMove, CommitDelete
  <1>2. writer = c /\ wf[c] \in Workflows
    BY <1>1 DEF IInv, TypeOK, LockIsHeld, LockedPCs
  <1>3. CASE CommitStart(c)
    <2>1. StartIsFresh(c) /\ op[c] = "start"
      BY <1>3 DEF CommitStart, IInv, ClientInv
    <2> QED
      BY <1>1, <1>2, <1>3, <2>1 DEF CommitStart, StartIsFresh, Begins
  <1>4. ASSUME op[c] # "start"
        PROVE  /\ Exists(seenRow[c]) /\ seenRow[c] = row[wf[c]]
               /\ Admits(op[c], seenRow[c])
    BY <1>1, <1>4 DEF IInv, ClientInv, ReadIsPast, UnitIsInOrder, HoldsRow, BeforeTrail, BeforeRow
  <1>5. CASE CommitStage(c)
    <2>1. op[c] \in StageStates /\ op[c] # "start" /\ op[c] \in WorkflowState
      BY <1>5, ChainFacts DEF CommitStage
    <2>2. MayAdvance(row[wf[c]], op[c])
      BY <1>4, <2>1 DEF Admits
    <2>3. MovesTo(c, op[c])
      BY <1>4, <1>5, <2>1, <2>2 DEF CommitStage, WriteMove, MovesTo, MayAdvance
    <2> QED
      BY <1>1, <1>2, <2>1, <2>3
  <1>6. CASE CommitMove(c)
    <2>1. op[c] \in {"completed", "failed"} /\ op[c] \notin StageStates /\ op[c] \in WorkflowState
      BY <1>6, ChainFacts DEF CommitMove
    <2>2. row[wf[c]].state \in LiveStates /\ op[c] \in {NextState[row[wf[c]].state], "failed"}
      BY <1>4, <2>1 DEF Admits, MayAdvance, MayFail
    <2>3. MovesTo(c, op[c])
      BY <1>4, <1>6, <2>1, <2>2 DEF CommitMove, WriteMove, MovesTo
    <2> QED
      BY <1>1, <1>2, <2>1, <2>3
  <1>7. CASE CommitDelete(c)
    <2>1. op[c] # "start" /\ Exists(row[wf[c]])
      BY <1>4, <1>7 DEF CommitDelete
    <2> QED
      BY <1>1, <1>2, <1>7, <2>1 DEF CommitDelete, Ends
  <1> QED
    BY <1>1, <1>2, <1>3, <1>5, <1>6, <1>7 DEF Commits

\* After its commit a client is done, or about to read the snapshot again.
LEMMA CommitLeaves ==
  ASSUME IInv, NEW c \in Clients, Commits(c)
  PROVE  /\ writer' = NoClient
         /\ pc' \in [Clients -> PCs] /\ op' \in [Clients -> Ops \union {"none"}]
         /\ wf' = wf
         /\ seenRow' \in [Clients -> WorkflowRow] /\ seenTrail' \in [Clients -> Seq(Event)]
         /\ seenFacts' = [seenFacts EXCEPT ![c] = {}]
         /\ todo' \in [Clients -> Nat]
         /\ \/ pc'[c] = "idle" /\ op'[c] = "none"
            \/ pc'[c] = "load_row" /\ op'[c] = "get"
  <1> USE DEF Forget, Goto, WriteMove
  <1>1. TypeOK
    BY DEF IInv
  <1>2. NoRow("absent") \in WorkflowRow /\ <<>> \in Seq(Event)
    BY DEF NoRow, WorkflowRow
  <1>3. CASE CommitStart(c) \/ CommitStage(c) \/ CommitDelete(c)
    <2>1. Forget(c) /\ writer' = NoClient
      BY <1>3 DEF CommitStart, CommitStage, CommitDelete
    <2> QED
      BY <1>1, <1>2, <2>1 DEF TypeOK, PCs
  <1>4. CASE CommitMove(c)
    BY <1>1, <1>2, <1>4 DEF CommitMove, TypeOK, PCs, Ops
  <1> QED
    BY <1>3, <1>4 DEF Commits

\* A commit leaves the tables consistent with each other.
LEMMA CommitKeepsTables ==
  ASSUME IInv, NEW c \in Clients, Commits(c)
  PROVE  /\ row' \in [Workflows -> WorkflowRow]
         /\ trail' \in [Workflows -> Seq(Event)]
         /\ facts' \in [Workflows -> [StageStates -> Nat]]
         /\ TrailIsComplete' /\ StageRowsMatchTrail'
  <1> DEFINE w == wf[c]
  <1>1. w \in Workflows
    BY CommitEffect
  <1>2. /\ row \in [Workflows -> WorkflowRow]
        /\ trail \in [Workflows -> Seq(Event)]
        /\ facts \in [Workflows -> [StageStates -> Nat]]
    BY DEF IInv, TypeOK
  <1>3. ASSUME NEW v \in Workflows
        PROVE  /\ IF Exists(row[v]) THEN TellsHistoryOf(trail[v], row[v]) ELSE trail[v] = <<>>
               /\ \A s \in StageStates : facts[v][s] = Cardinality(Entries(trail[v], s))
    BY DEF IInv, TrailIsComplete, StageRowsMatchTrail
  <1>4. ASSUME NEW r \in WorkflowRow, NEW t \in Seq(Event), NEW f \in [StageStates -> Nat],
               row' = [row EXCEPT ![w] = r], trail' = [trail EXCEPT ![w] = t],
               facts' = [facts EXCEPT ![w] = f],
               IF Exists(r) THEN TellsHistoryOf(t, r) ELSE t = <<>>,
               \A s \in StageStates : f[s] = Cardinality(Entries(t, s))
        PROVE  /\ row' \in [Workflows -> WorkflowRow]
               /\ trail' \in [Workflows -> Seq(Event)]
               /\ facts' \in [Workflows -> [StageStates -> Nat]]
               /\ TrailIsComplete' /\ StageRowsMatchTrail'
    <2>1. /\ row' \in [Workflows -> WorkflowRow]
          /\ trail' \in [Workflows -> Seq(Event)]
          /\ facts' \in [Workflows -> [StageStates -> Nat]]
      BY <1>1, <1>2, <1>4
    <2>2. ASSUME NEW v \in Workflows
          PROVE  /\ IF Exists(row'[v]) THEN TellsHistoryOf(trail'[v], row'[v]) ELSE trail'[v] = <<>>
                 /\ \A s \in StageStates : facts'[v][s] = Cardinality(Entries(trail'[v], s))
      <3>1. CASE v = w
        <4>1. row'[v] = r /\ trail'[v] = t /\ facts'[v] = f
          BY <1>1, <1>2, <1>4, <3>1
        <4> QED
          BY <1>4, <4>1
      <3>2. CASE v # w
        <4>1. row'[v] = row[v] /\ trail'[v] = trail[v] /\ facts'[v] = facts[v]
          BY <1>1, <1>2, <1>4, <3>2
        <4> QED
          BY <1>3, <4>1
      <3> QED
        BY <3>1, <3>2
    <2> QED
      BY <2>1, <2>2 DEF TrailIsComplete, StageRowsMatchTrail
  <1>5. CASE Begins(c)
    <2>1. InitialRow \in WorkflowRow /\ Exists(InitialRow)
      BY ChainFacts DEF InitialRow, WorkflowRow, Exists, WorkflowState, LiveStates, NextState
    <2>2. facts[w] \in [StageStates -> Nat] /\ facts' = [facts EXCEPT ![w] = facts[w]]
      BY <1>1, <1>2, <1>5 DEF Begins
    <2>3. \A s \in StageStates : facts[w][s] = 0
      <3>1. trail[w] = <<>>
        BY <1>1, <1>3, <1>5, ChainFacts DEF Begins, Exists
      <3>2. \A s \in StageStates : Entries(trail[w], s) = {}
        BY <3>1 DEF Entries
      <3> QED
        BY <1>1, <1>3, <3>2, FS_EmptySet
    <2>4. \A s \in StageStates : facts[w][s] = Cardinality(Entries(InitialTrail, s))
      BY <2>3, InitialCounts
    <2> QED
      BY <1>4, <1>5, <2>1, <2>2, <2>4, InitialTrailTells DEF Begins
  <1>6. ASSUME NEW target \in WorkflowState, MovesTo(c, target)
        PROVE  /\ row' \in [Workflows -> WorkflowRow]
               /\ trail' \in [Workflows -> Seq(Event)]
               /\ facts' \in [Workflows -> [StageStates -> Nat]]
               /\ TrailIsComplete' /\ StageRowsMatchTrail'
    <2> DEFINE e == MoveEvent(row[w], target)
               t == Append(trail[w], e)
               r == Moved(row[w], target)
               f == IF target \in StageStates THEN [facts[w] EXCEPT ![target] = @ + 1] ELSE facts[w]
    <2>1. /\ row[w] \in WorkflowRow /\ trail[w] \in Seq(Event) /\ facts[w] \in [StageStates -> Nat]
          /\ TellsHistoryOf(trail[w], row[w])
      BY <1>1, <1>2, <1>3, <1>6, ChainFacts DEF MovesTo, Exists
    <2>2. t \in Seq(Event) /\ TellsHistoryOf(t, r) /\ r \in WorkflowRow /\ Exists(r)
      BY <1>6, <2>1, MoveExtendsHistory DEF MovesTo
    <2>3. e \in Event /\ e.to_state = target
      BY <2>1, ChainFacts, <1>6 DEF MoveEvent, Event, WorkflowRow, MovesTo
    <2>4. f \in [StageStates -> Nat] /\ facts' = [facts EXCEPT ![w] = f]
      BY <1>1, <1>2, <1>6, <2>1 DEF MovesTo
    <2>5. \A s \in StageStates : f[s] = Cardinality(Entries(t, s))
      <3>1. \A s \in StageStates : facts[w][s] = Cardinality(Entries(trail[w], s))
        BY <1>1, <1>3
      <3>2. \A s \in StageStates : f[s] = facts[w][s] + (IF e.to_state = s THEN 1 ELSE 0)
        BY <2>1, <2>3
      <3> HIDE DEF e, f
      <3> QED
        BY <2>1, <2>3, <3>1, <3>2, MoveCounts
    <2>6. row' = [row EXCEPT ![w] = r] /\ trail' = [trail EXCEPT ![w] = t]
      BY <1>6 DEF MovesTo
    <2> HIDE DEF r, t, f, e
    <2> QED
      BY <1>4, <2>2, <2>4, <2>5, <2>6
  <1>7. CASE Ends(c)
    <2>1. NoRow("deleted") \in WorkflowRow /\ ~Exists(NoRow("deleted")) /\ <<>> \in Seq(Event)
      BY ChainFacts DEF NoRow, WorkflowRow, Exists
    <2>2. NoFacts \in [StageStates -> Nat] /\ \A s \in StageStates : NoFacts[s] = 0
      BY DEF NoFacts
    <2>3. \A s \in StageStates : Cardinality(Entries(<<>>, s)) = 0
      <3>1. \A s \in StageStates : Entries(<<>>, s) = {}
        BY DEF Entries
      <3> QED
        BY <3>1, FS_EmptySet
    <2> QED
      BY <1>4, <1>7, <2>1, <2>2, <2>3 DEF Ends
  <1> QED
    BY <1>5, <1>6, <1>7, CommitEffect

\* What the other clients hold stays a past of the workflow when it commits:
\* its revision grows, or it goes for good.
LEMMA CommitKeepsOthers ==
  ASSUME IInv, NEW c \in Clients, Commits(c), NEW d \in Clients, d # c
  PROVE  ClientInv(d)'
  <1>1. /\ pc[c] = "commit" /\ writer = c /\ wf[c] \in Workflows
        /\ \/ Begins(c)
           \/ \E target \in WorkflowState : MovesTo(c, target)
           \/ Ends(c)
    BY CommitEffect
  <1>2. \A e \in Clients \ {c} : Local(e)' = Local(e)
    BY OthersUntouched DEF IInv
  <1>3. op'[c] # "start" /\ wf' = wf
    BY CommitLeaves
  <1>4. pc[d] \notin LockedPCs
    BY <1>1 DEF IInv, LockIsHeld
  <1>5. ClientInv(d) /\ ClientInv(c) /\ TypeOK
    BY DEF IInv
  <1>6. CASE wf[d] # wf[c]
    <2>1. row'[wf[d]] = row[wf[d]] /\ trail'[wf[d]] = trail[wf[d]] /\ facts'[wf[d]] = facts[wf[d]]
      BY <1>1, <1>5, <1>6 DEF TypeOK, Begins, MovesTo, Ends
    <2>2. StartIsFresh(d)'
      BY <1>2, <1>3, <1>5, <2>1 DEF ClientInv, StartIsFresh, Local
    <2>3. ReadIsPast(d)' /\ SeenMoveStays(d)' /\ UnitIsInOrder(d)'
      BY <1>2, <1>5, <2>1 DEF ClientInv, ReadIsPast, SeenMoveStays, UnitIsInOrder,
                              HoldsRow, Unmoved, Local
    <2> QED
      BY <2>2, <2>3 DEF ClientInv
  <1>7. CASE wf[d] = wf[c]
    <2> DEFINE w == wf[c]
    <2>1. op[d] # "start"
      <3> SUFFICES ASSUME op[d] = "start" PROVE FALSE
        OBVIOUS
      <3>1. row[w].state = "absent" /\ op[c] # "start"
        BY <1>5, <1>7 DEF ClientInv, StartIsFresh
      <3> QED
        BY <1>1, <3>1, ChainFacts DEF Begins, MovesTo, Ends, Exists
    <2>2. StartIsFresh(d)'
      BY <1>2, <2>1 DEF StartIsFresh, Local
    <2>3. UnitIsInOrder(d)'
      BY <1>2, <1>4, <1>5 DEF ClientInv, UnitIsInOrder, Local, LockedPCs
    <2>4. SUFFICES ASSUME HoldsRow(d)
                   PROVE  ReadIsPast(d)' /\ SeenMoveStays(d)'
      BY <1>2, <2>2, <2>3 DEF ClientInv, ReadIsPast, SeenMoveStays, HoldsRow, Local
    <2>5. /\ Exists(seenRow[d]) /\ row[w].state # "absent"
          /\ Exists(row[w]) => /\ seenRow[d].revision <= row[w].revision
                               /\ Records(trail[w], seenRow[d])
          /\ pc[d] \notin BeforeTrail /\ seenTrail[d] # <<>> => Records(seenTrail[d], seenRow[d])
      BY <1>5, <1>7, <2>4 DEF ClientInv, ReadIsPast, SeenMoveStays
    <2>6. seenRow[d].revision \in Nat /\ row[w].revision \in Nat /\ trail[w] \in Seq(Event)
      BY <1>1, <1>5 DEF TypeOK, WorkflowRow
    <2>7. CASE Ends(c)
      <3>1. ~Exists(row'[w]) /\ row'[w].state # "absent"
        BY <1>1, <1>5, <2>7, ChainFacts DEF TypeOK, Ends, NoRow, Exists
      <3> QED
        BY <1>2, <1>7, <2>5, <3>1 DEF ReadIsPast, SeenMoveStays, Unmoved, Local
    <2>8. ASSUME NEW target \in WorkflowState, MovesTo(c, target)
          PROVE  ReadIsPast(d)' /\ SeenMoveStays(d)'
      <3>1. row[w].state \in LiveStates /\ Exists(row[w])
        BY <2>8, ChainFacts DEF MovesTo, Exists
      <3>2. /\ row'[w].revision = row[w].revision + 1 /\ row'[w].state = target
            /\ trail'[w] = Append(trail[w], MoveEvent(row[w], target))
        BY <1>1, <1>5, <2>8 DEF TypeOK, MovesTo, Moved
      <3>3. row'[w].state # "absent" /\ seenRow[d].revision < row'[w].revision
        BY <2>5, <2>6, <3>1, <3>2, ChainFacts
      <3>4. MoveEvent(row[w], target) \in Event
        BY <2>6, <2>8, <3>1, ChainFacts DEF MoveEvent, Event
      <3>5. Records(trail'[w], seenRow[d])
        <4>1. Len(trail[w]) > seenRow[d].revision
              /\ trail[w][seenRow[d].revision + 1].to_state = seenRow[d].state
          BY <2>5, <3>1 DEF Records
        <4>2. seenRow[d].revision + 1 \in 1..Len(trail[w])
          BY <2>6, <4>1
        <4> QED
          BY <2>6, <3>2, <3>4, <4>1, <4>2 DEF Records
      <3>6. ReadIsPast(d)'
        BY <1>2, <1>7, <2>5, <2>6, <3>2, <3>3 DEF ReadIsPast, Unmoved, Local
      <3>7. SeenMoveStays(d)'
        BY <1>2, <1>7, <2>5, <3>5 DEF SeenMoveStays, Local
      <3> QED
        BY <3>6, <3>7
    <2>9. ~Begins(c)
      BY <2>5 DEF Begins
    <2> QED
      BY <1>1, <2>7, <2>8, <2>9
  <1> QED
    BY <1>6, <1>7

\* A commit keeps the invariant.
LEMMA CommitKeepsIInv ==
  ASSUME IInv, NEW c \in Clients, Commits(c)
  PROVE  IInv'
  <1>1. TypeOK'
    <2>1. seenFacts' \in [Clients -> SUBSET [StageStates -> Nat]]
      BY CommitLeaves DEF IInv, TypeOK
    <2> QED
      BY <2>1, CommitLeaves, CommitKeepsTables DEF IInv, TypeOK
  <1>2. LockIsHeld'
    <2> SUFFICES ASSUME NEW d \in Clients PROVE (writer = d <=> pc[d] \in LockedPCs)'
      BY DEF LockIsHeld
    <2>1. writer' # d
      BY CommitLeaves, ClientsAssumption
    <2>2. d # c => pc'[d] = pc[d] /\ pc[d] \notin LockedPCs
      BY OthersUntouched, CommitEffect DEF IInv, LockIsHeld, Local
    <2>3. pc'[c] \notin LockedPCs
      BY CommitLeaves DEF LockedPCs
    <2> QED
      BY <2>1, <2>2, <2>3
  <1>3. ClientInv(c)'
    <2>1. pc'[c] \in BeforeRow /\ op'[c] # "start" /\ seenFacts'[c] = {}
          /\ (pc'[c] = "idle" <=> op'[c] = "none")
          /\ pc'[c] \notin {"detail", "consult", "gather", "commit"}
      BY CommitLeaves DEF BeforeRow, IInv, TypeOK
    <2> QED
      BY <2>1 DEF ClientInv, StartIsFresh, ReadIsPast, SeenMoveStays, UnitIsInOrder,
                  HoldsRow, BeforeTrail
  <1>4. \A d \in Clients : ClientInv(d)'
    BY <1>3, CommitKeepsOthers
  <1> QED
    BY <1>1, <1>2, <1>4, CommitKeepsTables DEF IInv

-----------------------------------------------------------------------------
\* Every step keeps the invariant.
LEMMA NextKeepsIInv == IInv /\ [Next]_vars => IInv'
  <1> SUFFICES ASSUME IInv, [Next]_vars PROVE IInv'
    OBVIOUS
  <1>1. CASE Next
    <2>1. PICK c \in Clients : Quiet(c) \/ Commits(c)
      BY <1>1 DEF Next, Step, Quiet
    <2> QED
      BY <2>1, QuietKeepsIInv, CommitKeepsIInv
  <1>2. CASE UNCHANGED vars
    BY <1>2 DEF vars, IInv, TypeOK, TrailIsComplete, StageRowsMatchTrail, LockIsHeld,
                ClientInv, StartIsFresh, ReadIsPast, SeenMoveStays, UnitIsInOrder,
                HoldsRow, Unmoved
  <1> QED
    BY <1>1, <1>2

\* The inductive invariant holds in every reachable state.
THEOREM InductiveInvariant == Spec => []IInv
  <1> QED
    BY InitIInv, NextKeepsIInv, PTL DEF Spec

\* Every variable of the store keeps its type.
THEOREM TypeCorrect == Spec => []TypeOK
  <1>1. IInv => TypeOK
    BY DEF IInv
  <1> QED
    BY InductiveInvariant, <1>1, PTL

\* The audit trail of every workflow is complete and in order in every
\* reachable state, whoever raced, failed or was killed.
THEOREM TrailComplete == Spec => []TrailIsComplete
  <1>1. IInv => TrailIsComplete
    BY DEF IInv
  <1> QED
    BY InductiveInvariant, <1>1, PTL

\* A stage's rows are committed exactly as often as the trail says the stage
\* was entered.
THEOREM StageRowsMatch == Spec => []StageRowsMatchTrail
  <1>1. IInv => StageRowsMatchTrail
    BY DEF IInv
  <1> QED
    BY InductiveInvariant, <1>1, PTL

\* Whatever a unit read before its transaction, awaits included, is current
\* when it commits: checking the revision alone is enough.
THEOREM FreshReadsAtCommit == Spec => []CommitsOnFreshReads
  <1>1. IInv => CommitsOnFreshReads
    <2> SUFFICES ASSUME IInv, NEW c \in Clients, pc[c] = "commit", op[c] # "start"
                 PROVE  /\ seenRow[c] = row[wf[c]]
                        /\ seenTrail[c] = trail[wf[c]]
                        /\ seenFacts[c] \subseteq {facts[wf[c]]}
      BY DEF CommitsOnFreshReads
    <2> QED
      BY DEF IInv, ClientInv, ReadIsPast, UnitIsInOrder, HoldsRow, BeforeRow, BeforeTrail
  <1> QED
    BY InductiveInvariant, <1>1, PTL

\* No client waits for a page or a provider with the write lock in its hand.
THEOREM LockFreeAwaits == Spec => []NoLockAcrossAwait
  <1>1. IInv => NoLockAcrossAwait
    BY DEF IInv, TypeOK, NoLockAcrossAwait, LockIsHeld, LockedPCs, AwaitPCs
  <1> QED
    BY InductiveInvariant, <1>1, PTL

\* A snapshot put together from separate reads still has the event that led to
\* the state it shows, unless the workflow is gone.
THEOREM SnapshotsExplained == Spec => []SnapshotExplainsItsState
  <1>1. IInv => SnapshotExplainsItsState
    <2> SUFFICES ASSUME IInv, NEW c \in Clients, pc[c] = "got", seenTrail[c] # <<>>
                 PROVE  Records(seenTrail[c], seenRow[c])
      BY DEF SnapshotExplainsItsState
    <2>1. op[c] # "start"
      BY DEF IInv, ClientInv, StartIsFresh, LockedPCs
    <2> QED
      BY <2>1 DEF IInv, ClientInv, SeenMoveStays, HoldsRow, BeforeRow, BeforeTrail
  <1> QED
    BY InductiveInvariant, <1>1, PTL

-----------------------------------------------------------------------------
(***************************************************************************)
(* WorkflowStore implements WorkflowLifecycle: a commit is one move of one *)
(* workflow, and every other step is no move.                              *)
(***************************************************************************)

\* The history of a trail is a sequence as long as the trail.
LEMMA StatesOfIsSeq ==
  ASSUME NEW t \in Seq(Event)
  PROVE  /\ StatesOf(t) \in Seq(WorkflowState)
         /\ Len(StatesOf(t)) = Len(t)
         /\ \A i \in 1..Len(t) : StatesOf(t)[i] = t[i].to_state
  <1>1. t \in [1..Len(t) -> Event] /\ Len(t) \in Nat /\ DOMAIN t = 1..Len(t)
    BY LenProperties
  <1>2. StatesOf(t) \in [1..Len(t) -> WorkflowState]
    BY <1>1 DEF StatesOf, Event
  <1>3. StatesOf(t) \in Seq(WorkflowState)
    BY <1>1, <1>2, SeqDef
  <1>4. Len(StatesOf(t)) \in Nat /\ 1..Len(StatesOf(t)) = 1..Len(t)
    BY <1>2, <1>3, LenProperties
  <1>5. Len(StatesOf(t)) = Len(t)
    BY <1>1, <1>4
  <1> QED
    BY <1>1, <1>3, <1>5 DEF StatesOf

\* The history of an extended trail is the extended history.
LEMMA StatesOfAppend ==
  ASSUME NEW t \in Seq(Event), NEW e \in Event
  PROVE  StatesOf(Append(t, e)) = Append(StatesOf(t), e.to_state)
  <1>1. Append(t, e) \in Seq(Event) /\ Len(Append(t, e)) = Len(t) + 1 /\ e.to_state \in WorkflowState
    BY DEF Event
  <1> DEFINE a == StatesOf(Append(t, e))
             b == Append(StatesOf(t), e.to_state)
  <1>2. a \in Seq(WorkflowState) /\ Len(a) = Len(t) + 1
    BY <1>1, StatesOfIsSeq
  <1>3. b \in Seq(WorkflowState) /\ Len(b) = Len(t) + 1
    BY <1>1, StatesOfIsSeq
  <1>4. ASSUME NEW i \in 1..(Len(t) + 1) PROVE a[i] = b[i]
    <2>1. a[i] = Append(t, e)[i].to_state
      BY <1>1, StatesOfIsSeq
    <2>2. CASE i = Len(t) + 1
      BY <2>1, <2>2, StatesOfIsSeq
    <2>3. CASE i # Len(t) + 1
      <3>1. i \in 1..Len(t)
        BY <2>3
      <3>2. Append(t, e)[i] = t[i] /\ b[i] = StatesOf(t)[i]
        BY <1>1, <3>1, StatesOfIsSeq
      <3> QED
        BY <2>1, <3>1, <3>2, StatesOfIsSeq
    <2> QED
      BY <2>2, <2>3
  <1> HIDE DEF a, b
  <1>5. a = b
    BY <1>2, <1>3, <1>4, SeqEqual
  <1> QED
    BY <1>5 DEF a, b

\* No trail, no history; a new trail starts the chain.
LEMMA StatesOfFirst ==
  /\ StatesOf(<<>>) = <<>>
  /\ StatesOf(InitialTrail) = <<"request_received", "request_validated">>
  <1>1. StatesOf(<<>>) = <<>>
    <2>1. <<>> \in Seq(Event) /\ Len(<<>>) = 0
      BY EmptySeq
    <2>2. StatesOf(<<>>) \in Seq(WorkflowState) /\ Len(StatesOf(<<>>)) = 0
      BY <2>1, StatesOfIsSeq
    <2> QED
      BY <2>2, EmptySeq
  <1>2. StatesOf(InitialTrail) = <<"request_received", "request_validated">>
    <2> DEFINE h == <<"request_received", "request_validated">>
    <2>1. h \in Seq(WorkflowState) /\ Len(h) = 2
      BY ChainFacts DEF WorkflowState, LiveStates, NextState
    <2>2. StatesOf(InitialTrail) \in Seq(WorkflowState) /\ Len(StatesOf(InitialTrail)) = 2
          /\ \A i \in 1..2 : StatesOf(InitialTrail)[i] = InitialTrail[i].to_state
      <3>1. Len(InitialTrail) = 2
        BY DEF InitialTrail
      <3> QED
        BY <3>1, InitialTrailTells, StatesOfIsSeq
    <2>3. \A i \in 1..2 : InitialTrail[i].to_state = h[i]
      BY DEF InitialTrail
    <2>4. \A i \in 1..2 : StatesOf(InitialTrail)[i] = h[i]
      BY <2>2, <2>3
    <2> HIDE DEF h
    <2>5. StatesOf(InitialTrail) = h
      BY <2>1, <2>2, <2>4, SeqEqual
    <2> QED
      BY <2>5 DEF h
  <1> QED
    BY <1>1, <1>2

-----------------------------------------------------------------------------
\* The abstract module's copies of the shared operators are the store's.
LEMMA SameOperators ==
  /\ Lifecycle!InitialRow = InitialRow
  /\ Lifecycle!LiveStates = LiveStates
  /\ Lifecycle!StageStates = StageStates
  /\ Lifecycle!NextState = NextState
  /\ \A state : Lifecycle!NoRow(state) = NoRow(state)
  /\ \A r : Lifecycle!Exists(r) <=> Exists(r)
  /\ \A r, target : Lifecycle!Moved(r, target) = Moved(r, target)
  <1>1. Lifecycle!NextState = NextState
    BY DEF NextState, Lifecycle!NextState
  <1>2. Lifecycle!LiveStates = LiveStates
    BY <1>1 DEF LiveStates, Lifecycle!LiveStates
  <1>3. Lifecycle!WorkflowState = WorkflowState
    BY <1>2 DEF WorkflowState, Lifecycle!WorkflowState
  <1> QED
    BY <1>1, <1>2, <1>3
       DEF InitialRow, Lifecycle!InitialRow, StageStates, Lifecycle!StageStates, NoRow,
           Lifecycle!NoRow, Exists, Lifecycle!Exists, Moved, Lifecycle!Moved

\* Hiding who does what and when, the store is WorkflowLifecycle: every commit
\* is one of its moves and every other step changes nothing it speaks of.
THEOREM StoreImplementsLifecycle == Spec => ImplementsLifecycle
  <1> DEFINE histories == [v \in Workflows |-> StatesOf(trail[v])]
             reached == [v \in Workflows |-> StagesIn(facts[v])]
  <1>1. Init => Lifecycle!Init
    <2> SUFFICES ASSUME Init PROVE Lifecycle!Init
      OBVIOUS
    <2>1. \A w \in Workflows : StatesOf(trail[w]) = <<>> /\ StagesIn(facts[w]) = {}
      BY StatesOfFirst DEF Init, StagesIn, NoFacts
    <2> QED
      BY <2>1, SameOperators DEF Init, Lifecycle!Init
  <1>2. IInv /\ [Next]_vars => [Lifecycle!Next]_(Lifecycle!vars)
    <2> SUFFICES ASSUME IInv, [Next]_vars
                 PROVE  Lifecycle!Next \/ UNCHANGED Lifecycle!vars
      OBVIOUS
    <2>1. CASE UNCHANGED db
      BY <2>1 DEF db, Lifecycle!vars
    <2>2. ASSUME NEW c \in Clients, Commits(c)
          PROVE  Lifecycle!Next
      <3> DEFINE w == wf[c]
      <3>1. /\ w \in Workflows
            /\ Begins(c) \/ (\E target \in WorkflowState : MovesTo(c, target)) \/ Ends(c)
        BY <2>2, CommitEffect
      <3>2. TypeOK /\ row[w] \in WorkflowRow /\ trail[w] \in Seq(Event)
            /\ facts[w] \in [StageStates -> Nat]
        BY <3>1 DEF IInv, TypeOK
      <3>3. CASE Begins(c)
        <4>2. histories' = [histories EXCEPT ![w] = <<"request_received", "request_validated">>]
          BY <3>1, <3>2, <3>3, StatesOfFirst DEF Begins, TypeOK
        <4>3. reached' = reached
          BY <3>3 DEF Begins
        <4>4. Lifecycle!Start(w)
          BY <3>3, <4>2, <4>3, SameOperators DEF Begins, Lifecycle!Start
        <4> QED
          BY <3>1, <4>4 DEF Lifecycle!Next
      <3>4. ASSUME NEW target \in WorkflowState, MovesTo(c, target)
            PROVE  Lifecycle!Next
        <4> DEFINE e == MoveEvent(row[w], target)
                   f == IF target \in StageStates THEN [facts[w] EXCEPT ![target] = @ + 1]
                        ELSE facts[w]
        <4>1. e \in Event /\ e.to_state = target
          BY <3>2, <3>4, ChainFacts DEF MovesTo, MoveEvent, Event, WorkflowRow
        <4>2. facts' = [facts EXCEPT ![w] = f] /\ trail' = [trail EXCEPT ![w] = Append(trail[w], e)]
          BY <3>1, <3>2, <3>4 DEF MovesTo, TypeOK
        <4>3. StagesIn(f) = StagesIn(facts[w]) \union ({target} \intersect StageStates)
          BY <3>2 DEF StagesIn
        <4>4. StatesOf(Append(trail[w], e)) = Append(StatesOf(trail[w]), target)
          BY <3>2, <4>1, StatesOfAppend
        <4> HIDE DEF e, f
        <4>5. /\ histories' = [histories EXCEPT ![w] = Append(histories[w], target)]
              /\ reached' = [reached EXCEPT ![w] = reached[w] \union ({target} \intersect StageStates)]
          BY <3>1, <3>2, <4>2, <4>3, <4>4 DEF TypeOK
        <4>6. CASE target = NextState[row[w].state]
          BY <3>1, <3>4, <4>5, <4>6, SameOperators DEF MovesTo, Lifecycle!Next, Lifecycle!Advance
        <4>7. CASE target = "failed"
          <5>1. reached' = reached
            BY <3>4, <4>7, ChainFacts DEF MovesTo
          <5> QED
            BY <3>1, <3>4, <4>5, <4>7, <5>1, SameOperators DEF MovesTo, Lifecycle!Next, Lifecycle!Fail
        <4> QED
          BY <3>4, <4>6, <4>7 DEF MovesTo
      <3>5. CASE Ends(c)
        <4>1. Exists(row[w])
          BY <3>5 DEF Ends
        <4>2. StagesIn(NoFacts) = {}
          BY DEF StagesIn, NoFacts
        <4>3. /\ histories' = [histories EXCEPT ![w] = <<>>]
              /\ reached' = [reached EXCEPT ![w] = {}]
          BY <3>1, <3>2, <3>5, <4>2, StatesOfFirst DEF Ends, TypeOK
        <4> QED
          BY <3>1, <3>5, <4>1, <4>3, SameOperators DEF Ends, Lifecycle!Next, Lifecycle!Delete
      <3> QED
        BY <3>1, <3>3, <3>4, <3>5
    <2>3. CASE UNCHANGED vars
      BY <2>1, <2>3 DEF vars, db
    <2>4. CASE Next
      <3>1. PICK c \in Clients : Quiet(c) \/ Commits(c)
        BY <2>4 DEF Next, Step, Quiet
      <3> QED
        BY <2>1, <2>2, <3>1, QuietLeavesDb
    <2> QED
      BY <2>3, <2>4
  <1> QED
    BY <1>1, <1>2, InductiveInvariant, PTL
       DEF Spec, ImplementsLifecycle, Lifecycle!Spec
=============================================================================
