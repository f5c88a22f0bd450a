---------------------- MODULE StrongConsistency_proofs ----------------------
(***************************************************************************)
(* Proofs about StrongConsistency, for every value of its constants that   *)
(* its assumptions admit.                                                  *)
(***************************************************************************)
EXTENDS StrongConsistency, FiniteSetTheorems, TLAPS

USE NodesAssumption, MsgIdsAssumption, SourceAssumption, ConsensusAssumption,
    CapacityAssumption, SwitchesAssumption, BoundsAssumption

(***************************************************************************)
(* The inductive invariant behind ConfirmationsAreReal.  A task that has   *)
(* counted a peer's confirmation leaves "unseen" and "apply" for good, so  *)
(* the count of an entry cannot exceed the tasks that did, plus its own    *)
(* confirmation; and each such task stands for a node with the data.       *)
(***************************************************************************)
Applied(n, m) == {p \in Nodes : task[n][m][p] \in {"move", "done"}}

TasksConfirmed ==
  \A n \in Nodes : \A m \in MsgIds : \A p \in Nodes :
    task[n][m][p] # "unseen" => p \in confirmed[m] /\ p # n

ConfirmedReceived ==
  \A m \in MsgIds : \A p \in confirmed[m] : m \in received[p]

TempReceived ==
  \A n \in Nodes : \A m \in MsgIds : temp[n][m] > 0 => m \in received[n]

CountBounded ==
  \A n \in Nodes : \A m \in MsgIds : temp[n][m] <= 1 + Cardinality(Applied(n, m))

QueueReal ==
  \A n \in Nodes : \A e \in queue[n] : e.confirmations <= Cardinality(Receivers(e.id))

RealInv ==
  /\ TypeOK
  /\ TasksConfirmed
  /\ ConfirmedReceived
  /\ TempReceived
  /\ CountBounded
  /\ QueueReal

-----------------------------------------------------------------------------
(* Facts about the operators the actions are built from *)

LEMMA NodeSets ==
  ASSUME NEW S \in SUBSET Nodes
  PROVE  /\ IsFiniteSet(S)
         /\ Cardinality(S) \in Nat
BY FS_Subset, FS_CardinalityType

LEMMA NodeSetsMonotone ==
  ASSUME NEW S \in SUBSET Nodes, NEW T \in SUBSET Nodes, S \subseteq T
  PROVE  Cardinality(S) <= Cardinality(T)
BY NodeSets, FS_Subset

\* A replica with the data, and the peers whose confirmation it has counted.
LEMMA AppliedAreReceivers ==
  ASSUME TypeOK, TasksConfirmed, ConfirmedReceived,
         NEW n \in Nodes, NEW m \in MsgIds, m \in received[n]
  PROVE  1 + Cardinality(Applied(n, m)) <= Cardinality(Receivers(m))
<1>1. Applied(n, m) \in SUBSET Nodes /\ n \notin Applied(n, m)
  BY DEF Applied, TasksConfirmed
<1>2. Applied(n, m) \cup {n} \subseteq Receivers(m)
  BY DEF Applied, TasksConfirmed, ConfirmedReceived, Receivers, TypeOK
<1>3. Cardinality(Applied(n, m) \cup {n}) = Cardinality(Applied(n, m)) + 1
  BY <1>1, NodeSets, FS_AddElement
<1>4. Cardinality(Applied(n, m) \cup {n}) <= Cardinality(Receivers(m))
  BY <1>1, <1>2, NodeSetsMonotone DEF Receivers
<1> QED
  BY <1>1, <1>3, <1>4, NodeSets DEF Receivers

LEMMA InsertSubset ==
  ASSUME NEW q \in SUBSET Entry, NEW e \in Entry
  PROVE  /\ Insert(q, e) \subseteq q \cup {e}
         /\ Insert(q, e) \in SUBSET Entry
BY DEF Insert

LEMMA CleanupSubset ==
  ASSUME NEW q \in SUBSET Entry
  PROVE  Cleanup(q) \subseteq q
BY DEF Cleanup, Unexpired

LEMMA MovedSubset ==
  ASSUME NEW q \in SUBSET Entry, NEW m \in MsgIds, NEW count \in Nat
  PROVE  /\ Moved(q, m, count) \in SUBSET Entry
         /\ \A e \in Moved(q, m, count) :
              e \in q \/ (count > 0 /\ e = [id |-> m, confirmations |-> count])
<1>1. Cleanup(q) \subseteq q
  BY CleanupSubset
<1>2. [id |-> m, confirmations |-> count] \in Entry
  BY DEF Entry
<1> QED
  BY <1>1, <1>2, InsertSubset DEF Moved

LEMMA KeptSubset ==
  ASSUME NEW n \in Nodes
  PROVE  KeptInTemp(n) \subseteq TempIds(n)
BY DEF KeptInTemp

-----------------------------------------------------------------------------
(* Type correctness *)

LEMMA TypeStep == TypeOK /\ [Next]_vars => TypeOK'
<1> SUFFICES ASSUME TypeOK, [Next]_vars PROVE TypeOK'
  OBVIOUS
<1> USE DEF TypeOK, buffers, tasks, network
<1>1. ASSUME NEW n \in Nodes, NEW m \in MsgIds, Replicate(n, m) PROVE TypeOK'
  BY <1>1 DEF Replicate
<1>2. ASSUME NEW n \in Nodes, NEW m \in MsgIds, HandleIncomingReplData(n, m) PROVE TypeOK'
  <2> DEFINE e == [id |-> m, confirmations |-> InitialConfirmations]
  <2>1. e \in Entry
    BY DEF Entry, InitialConfirmations
  <2>2. Insert(queue[n], e) \in SUBSET Entry
    <3> HIDE DEF e
    <3> QED
      BY <2>1, InsertSubset
  <2>3. received' \in [Nodes -> SUBSET MsgIds] /\ lamport' \in [Nodes -> Nat]
    BY <1>2 DEF HandleIncomingReplData, Larger
  <2>4. PICK count \in ReplicaPeers(n) : PushDirect(n, m, count) \/ PushTemporary(n, m, count)
    BY <1>2 DEF HandleIncomingReplData
  <2>5. CASE PushDirect(n, m, count)
    <3>1. temp' \in [Nodes -> [MsgIds -> Nat]]
      BY <2>5 DEF PushDirect
    <3>2. queue' \in [Nodes -> SUBSET Entry] /\ confirmed' = confirmed
      BY <2>2, <2>5 DEF PushDirect
    <3> QED
      BY <1>2, <2>3, <3>1, <3>2 DEF HandleIncomingReplData
  <2>6. CASE PushTemporary(n, m, count)
    <3>1. temp' \in [Nodes -> [MsgIds -> Nat]]
      BY <2>6 DEF PushTemporary, InitialConfirmations
    <3>2. confirmed' \in [MsgIds -> SUBSET Nodes]
      <4>1. confirmed' = confirmed \/ confirmed' = [confirmed EXCEPT ![m] = @ \cup {n}]
        BY <2>6 DEF PushTemporary
      <4>2. confirmed[m] \cup {n} \in SUBSET Nodes
        OBVIOUS
      <4> QED
        BY <4>1, <4>2
    <3>3. queue' = queue
      BY <2>6 DEF PushTemporary
    <3> QED
      BY <1>2, <2>3, <3>1, <3>2, <3>3 DEF HandleIncomingReplData
  <2> QED
    BY <2>4, <2>5, <2>6
<1>3. ASSUME NEW n \in Nodes, NEW m \in MsgIds, NEW p \in Nodes, HandleDataConfirmation(n, m, p)
      PROVE  TypeOK'
  <2>1. PeersCount(n) \subseteq Nat
    <3>1. Cardinality(peers[n]) \in Nat
      BY NodeSets
    <3> QED
      BY <3>1 DEF PeersCount, ReplicaPeers
  <2>2. required' \in [Nodes -> [MsgIds -> [Nodes -> Nat]]]
    BY <1>3, <2>1 DEF HandleDataConfirmation
  <2>3. task' \in [Nodes -> [MsgIds -> [Nodes -> Phases]]]
    BY <1>3 DEF HandleDataConfirmation, Phases
  <2> QED
    BY <1>3, <2>2, <2>3 DEF HandleDataConfirmation
<1>4. ASSUME NEW n \in Nodes, NEW m \in MsgIds, NEW p \in Nodes, UpdateConfirmation(n, m, p)
      PROVE  TypeOK'
  <2>1. temp' \in [Nodes -> [MsgIds -> Nat]]
    BY <1>4 DEF UpdateConfirmation, Counted
  <2>2. task' \in [Nodes -> [MsgIds -> [Nodes -> Phases]]]
    BY <1>4 DEF UpdateConfirmation, Phases
  <2> QED
    BY <1>4, <2>1, <2>2 DEF UpdateConfirmation
<1>5. ASSUME NEW n \in Nodes, NEW m \in MsgIds, NEW p \in Nodes, MoveToPublicQueue(n, m, p)
      PROVE  TypeOK'
  <2>1. Moved(queue[n], m, temp[n][m]) \in SUBSET Entry
    BY MovedSubset
  <2>2. queue' \in [Nodes -> SUBSET Entry]
    BY <1>5, <2>1 DEF MoveToPublicQueue
  <2>3. temp' \in [Nodes -> [MsgIds -> Nat]]
    BY <1>5 DEF MoveToPublicQueue
  <2>4. task' \in [Nodes -> [MsgIds -> [Nodes -> Phases]]]
    BY <1>5 DEF MoveToPublicQueue, Phases
  <2> QED
    BY <1>5, <2>2, <2>3, <2>4 DEF MoveToPublicQueue
<1>6. ASSUME NEW n \in Nodes, PopFront(n) PROVE TypeOK'
  BY <1>6 DEF PopFront, Entry
<1>7. ASSUME NEW n \in Nodes, NEW p \in Nodes, ReplicateBuffer(n, p) PROVE TypeOK'
  <2>1. \A i \in QueueIds(p) : [id |-> i, confirmations |-> 0] \in Entry
    BY DEF QueueIds, Entry
  <2> QED
    BY <1>7, <2>1 DEF ReplicateBuffer
<1>8. ASSUME NEW n \in Nodes, JoinReplNetwork(n) PROVE TypeOK'
  BY <1>8 DEF JoinReplNetwork
<1>9. ASSUME NEW n \in Nodes, LeaveReplNetwork(n) PROVE TypeOK'
  BY <1>9 DEF LeaveReplNetwork
<1>10. ASSUME NEW n \in Nodes, NEW p \in Nodes, PeerSubscribed(n, p) PROVE TypeOK'
  BY <1>10 DEF PeerSubscribed
<1>11. ASSUME NEW n \in Nodes, NEW p \in Nodes, PeerUnsubscribed(n, p) PROVE TypeOK'
  BY <1>11 DEF PeerUnsubscribed
<1>12. ASSUME NEW m \in MsgIds, Expire(m) PROVE TypeOK'
  BY <1>12 DEF Expire
<1>13. CASE UNCHANGED vars
  BY <1>13 DEF vars
<1> QED
  BY <1>1, <1>2, <1>3, <1>4, <1>5, <1>6, <1>7, <1>8, <1>9, <1>10, <1>11, <1>12, <1>13
     DEF Next, Deliver, Application, Gossip

(***************************************************************************)
(* Every reachable state is type correct: in particular no count or clock  *)
(* of replication.rs, all unsigned, underflows.                            *)
(***************************************************************************)
THEOREM TypeCorrect == Spec => []TypeOK
<1>1. Init => TypeOK
  BY DEF Init, TypeOK, Phases
<1> QED
  BY <1>1, TypeStep, PTL DEF Spec

-----------------------------------------------------------------------------
(* Confirmations are real *)

LEMMA ReceiversGrow ==
  ASSUME \A n \in Nodes : received[n] \subseteq received'[n], NEW m \in MsgIds
  PROVE  /\ Cardinality(Receivers(m)) <= Cardinality(Receivers(m)')
         /\ Cardinality(Receivers(m)) \in Nat
         /\ Cardinality(Receivers(m)') \in Nat
<1>1. Receivers(m) \in SUBSET Nodes /\ Receivers(m)' \in SUBSET Nodes
  BY DEF Receivers
<1>2. Receivers(m) \subseteq Receivers(m)'
  BY DEF Receivers
<1> QED
  BY <1>1, <1>2, NodeSets, NodeSetsMonotone

LEMMA CountedIsReal ==
  ASSUME RealInv, NEW n \in Nodes, NEW m \in MsgIds, temp[n][m] > 0
  PROVE  temp[n][m] <= Cardinality(Receivers(m))
<1>1. m \in received[n] /\ temp[n][m] <= 1 + Cardinality(Applied(n, m))
  BY DEF RealInv, TempReceived, CountBounded
<1>2. 1 + Cardinality(Applied(n, m)) <= Cardinality(Receivers(m))
  BY <1>1, AppliedAreReceivers DEF RealInv
<1>3. Cardinality(Applied(n, m)) \in Nat /\ Cardinality(Receivers(m)) \in Nat
  BY NodeSets DEF Applied, Receivers
<1> QED
  BY <1>1, <1>2, <1>3 DEF RealInv, TypeOK

\* An action that leaves the data and the tasks alone, and adds to no buffer
\* anything but unconfirmed entries.
LEMMA RealFrame ==
  ASSUME RealInv, TypeOK',
         UNCHANGED <<task, confirmed, received>>,
         \A n \in Nodes : \A m \in MsgIds : temp'[n][m] \in {0, temp[n][m]},
         \A n \in Nodes : \A e \in queue'[n] : e \in queue[n] \/ e.confirmations = 0
  PROVE  RealInv'
<1>1. TasksConfirmed' /\ ConfirmedReceived' /\ TempReceived'
  BY DEF RealInv, TasksConfirmed, ConfirmedReceived, TempReceived
<1>2. CountBounded'
  <2> SUFFICES ASSUME NEW n \in Nodes, NEW m \in MsgIds
               PROVE  temp'[n][m] <= 1 + Cardinality(Applied(n, m)')
    BY DEF CountBounded
  <2>1. Applied(n, m)' = Applied(n, m) /\ Cardinality(Applied(n, m)) \in Nat
    BY NodeSets DEF Applied
  <2> QED
    BY <2>1 DEF RealInv, CountBounded
<1>3. QueueReal'
  <2> SUFFICES ASSUME NEW n \in Nodes, NEW e \in queue'[n]
               PROVE  e.confirmations <= Cardinality(Receivers(e.id)')
    BY DEF QueueReal
  <2>1. e.id \in MsgIds
    BY DEF TypeOK, Entry
  <2>2. Receivers(e.id)' = Receivers(e.id) /\ Cardinality(Receivers(e.id)) \in Nat
    BY <2>1, NodeSets DEF Receivers
  <2> QED
    BY <2>2 DEF RealInv, QueueReal
<1> QED
  BY <1>1, <1>2, <1>3 DEF RealInv

LEMMA RealStep == RealInv /\ [Next]_vars => RealInv'
<1> SUFFICES ASSUME RealInv, [Next]_vars PROVE RealInv'
  OBVIOUS
<1> USE DEF buffers, tasks, network
<1>1. TypeOK /\ TypeOK'
  BY TypeStep DEF RealInv
<1>2. ASSUME NEW n \in Nodes, NEW m \in MsgIds, Replicate(n, m) PROVE RealInv'
  BY <1>1, <1>2, RealFrame DEF Replicate, TypeOK
<1>3. ASSUME NEW n \in Nodes, NEW m \in MsgIds, HandleIncomingReplData(n, m) PROVE RealInv'
  <2>1. UNCHANGED task /\ received' = [received EXCEPT ![n] = @ \cup {m}]
    BY <1>3 DEF HandleIncomingReplData
  <2>2. \A i \in Nodes : received[i] \subseteq received'[i]
    BY <1>1, <2>1 DEF TypeOK
  <2>3. PICK count \in ReplicaPeers(n) : PushDirect(n, m, count) \/ PushTemporary(n, m, count)
    BY <1>3 DEF HandleIncomingReplData
  <2>4. /\ \A i \in Nodes \ {n} : temp'[i] = temp[i] /\ queue'[i] = queue[i]
        /\ \A k \in MsgIds : temp'[n][k] \in {0, temp[n][k]} \/ (k = m /\ temp'[n][k] = 1)
    BY <1>1, <2>3 DEF PushDirect, PushTemporary, InitialConfirmations, TypeOK
  <2>5. confirmed' = confirmed \/ confirmed' = [confirmed EXCEPT ![m] = @ \cup {n}]
    BY <2>3 DEF PushDirect, PushTemporary
  <2>6. \A k \in MsgIds : confirmed[k] \subseteq confirmed'[k]
    <3>1. confirmed \in [MsgIds -> SUBSET Nodes]
      BY <1>1 DEF TypeOK
    <3> QED BY <2>5, <3>1
  <2>7. TasksConfirmed'
    BY <2>1, <2>6 DEF RealInv, TasksConfirmed
  <2>8. ConfirmedReceived'
    <3>1. \A k \in MsgIds : \A p \in confirmed'[k] : p \in confirmed[k] \/ (p = n /\ k = m)
      BY <1>1, <2>5 DEF TypeOK
    <3>2. m \in received'[n]
      BY <1>1, <2>1 DEF TypeOK
    <3> QED
      BY <1>1, <2>2, <3>1, <3>2 DEF RealInv, ConfirmedReceived, TypeOK
  <2>9. TempReceived'
    <3>1. m \in received'[n]
      BY <1>1, <2>1 DEF TypeOK
    <3> QED
      BY <2>2, <2>4, <3>1 DEF RealInv, TempReceived
  <2>10. CountBounded'
    <3> SUFFICES ASSUME NEW i \in Nodes, NEW k \in MsgIds
                 PROVE  temp'[i][k] <= 1 + Cardinality(Applied(i, k)')
      BY DEF CountBounded
    <3>1. Applied(i, k)' = Applied(i, k) /\ Cardinality(Applied(i, k)) \in Nat
      BY <2>1, NodeSets DEF Applied
    <3>2. temp'[i][k] \in {0, 1, temp[i][k]}
      BY <2>4
    <3>3. temp[i][k] <= 1 + Cardinality(Applied(i, k))
      BY DEF RealInv, CountBounded
    <3> QED
      BY <3>1, <3>2, <3>3
  <2>11. QueueReal'
    <3> SUFFICES ASSUME NEW i \in Nodes, NEW e \in queue'[i]
                 PROVE  e.confirmations <= Cardinality(Receivers(e.id)')
      BY DEF QueueReal
    <3>1. e \in Entry /\ e.id \in MsgIds /\ e.confirmations \in Nat
      BY <1>1 DEF TypeOK, Entry
    <3>2. e \in queue[i] \/ (e.id = m /\ e.confirmations = 1)
      <4>1. CASE queue' = queue
        BY <4>1
      <4>2. CASE queue' # queue
        <5> DEFINE x == [id |-> m, confirmations |-> InitialConfirmations]
        <5>1. queue' = [queue EXCEPT ![n] = Insert(@, x)]
          BY <2>3, <4>2 DEF PushDirect, PushTemporary
        <5>2. x \in Entry /\ x.id = m /\ x.confirmations = 1
          BY DEF Entry, InitialConfirmations
        <5> HIDE DEF x
        <5>3. Insert(queue[n], x) \subseteq queue[n] \cup {x}
          BY <1>1, <5>2, InsertSubset DEF TypeOK
        <5> QED
          BY <1>1, <5>1, <5>2, <5>3 DEF TypeOK
      <4> QED
        BY <4>1, <4>2
    <3>3. /\ Cardinality(Receivers(e.id)) <= Cardinality(Receivers(e.id)')
          /\ Cardinality(Receivers(e.id)) \in Nat
          /\ Cardinality(Receivers(e.id)') \in Nat
      BY <2>2, <3>1, ReceiversGrow
    <3>4. CASE e \in queue[i]
      BY <3>1, <3>3, <3>4 DEF RealInv, QueueReal
    <3>5. CASE e.id = m /\ e.confirmations = 1
      <4>1. n \in Receivers(m)'
        BY <1>1, <2>1 DEF Receivers, TypeOK
      <4>2. /\ {n} \subseteq Receivers(m)'
            /\ {n} \in SUBSET Nodes /\ Receivers(m)' \in SUBSET Nodes
        BY <4>1 DEF Receivers
      <4>3. Cardinality({n}) <= Cardinality(Receivers(m)')
        BY <4>2, NodeSetsMonotone
      <4>4. Cardinality({n}) = 1
        BY FS_Singleton
      <4> QED
        BY <3>5, <4>3, <4>4
    <3> QED
      BY <3>2, <3>4, <3>5
  <2> QED
    BY <1>1, <2>7, <2>8, <2>9, <2>10, <2>11 DEF RealInv
<1>4. ASSUME NEW n \in Nodes, NEW m \in MsgIds, NEW p \in Nodes, HandleDataConfirmation(n, m, p)
      PROVE  RealInv'
  <2>1. /\ UNCHANGED <<confirmed, received, temp, queue>>
        /\ n # p /\ p \in confirmed[m] /\ task[n][m][p] = "unseen"
        /\ task' = [task EXCEPT ![n][m][p] = "apply"]
    BY <1>4 DEF HandleDataConfirmation
  <2>2. \A i \in Nodes : \A k \in MsgIds : \A j \in Nodes :
          task'[i][k][j] = task[i][k][j]
            \/ (i = n /\ k = m /\ j = p /\ task'[i][k][j] = "apply")
    BY <1>1, <2>1 DEF TypeOK
  <2>3. TasksConfirmed'
    BY <2>1, <2>2 DEF RealInv, TasksConfirmed
  <2>4. ConfirmedReceived' /\ TempReceived'
    BY <2>1 DEF RealInv, ConfirmedReceived, TempReceived
  <2>5. CountBounded'
    <3> SUFFICES ASSUME NEW i \in Nodes, NEW k \in MsgIds
                 PROVE  temp'[i][k] <= 1 + Cardinality(Applied(i, k)')
      BY DEF CountBounded
    <3>1. Applied(i, k)' = Applied(i, k)
      BY <2>1, <2>2 DEF Applied
    <3> QED
      BY <2>1, <3>1 DEF RealInv, CountBounded
  <2>6. QueueReal'
    BY <2>1 DEF RealInv, QueueReal, Receivers
  <2> QED
    BY <1>1, <2>3, <2>4, <2>5, <2>6 DEF RealInv
<1>5. ASSUME NEW n \in Nodes, NEW m \in MsgIds, NEW p \in Nodes, UpdateConfirmation(n, m, p)
      PROVE  RealInv'
  <2>1. /\ UNCHANGED <<confirmed, received, queue>>
        /\ task[n][m][p] = "apply"
    BY <1>5 DEF UpdateConfirmation
  <2>2. PICK s \in {"move", "done"} : task' = [task EXCEPT ![n][m][p] = s]
    BY <1>5 DEF UpdateConfirmation
  <2>3. /\ temp' = [temp EXCEPT ![n][m] = temp'[n][m]]
        /\ temp'[n][m] = temp[n][m] \/ (temp[n][m] > 0 /\ temp'[n][m] = temp[n][m] + 1)
    BY <1>1, <1>5 DEF UpdateConfirmation, Counted, TypeOK
  <2>4. \A i \in Nodes : \A k \in MsgIds : \A j \in Nodes :
          task'[i][k][j] = IF i = n /\ k = m /\ j = p THEN s ELSE task[i][k][j]
    BY <1>1, <2>2 DEF TypeOK
  <2>5. TasksConfirmed'
    BY <2>1, <2>4 DEF RealInv, TasksConfirmed
  <2>6. \A i \in Nodes : \A k \in MsgIds :
          temp'[i][k] = temp[i][k] \/ (i = n /\ k = m)
    BY <1>1, <2>3 DEF TypeOK
  <2>7. ConfirmedReceived' /\ TempReceived'
    BY <2>1, <2>3, <2>6 DEF RealInv, ConfirmedReceived, TempReceived
  <2>8. CountBounded'
    <3> SUFFICES ASSUME NEW i \in Nodes, NEW k \in MsgIds
                 PROVE  temp'[i][k] <= 1 + Cardinality(Applied(i, k)')
      BY DEF CountBounded
    <3>1. CASE i = n /\ k = m
      <4>1. p \notin Applied(n, m) /\ Applied(n, m) \in SUBSET Nodes
        BY <2>1 DEF Applied
      <4>2. Applied(n, m)' = Applied(n, m) \cup {p}
        BY <2>4 DEF Applied
      <4>3. /\ Cardinality(Applied(n, m)') = Cardinality(Applied(n, m)) + 1
            /\ Cardinality(Applied(n, m)) \in Nat
        BY <4>1, <4>2, NodeSets, FS_AddElement
      <4>4. temp[n][m] <= 1 + Cardinality(Applied(n, m)) /\ temp[n][m] \in Nat
        BY <1>1 DEF RealInv, CountBounded, TypeOK
      <4> QED
        BY <2>3, <3>1, <4>3, <4>4
    <3>2. CASE ~(i = n /\ k = m)
      <4>1. Applied(i, k)' = Applied(i, k)
        BY <2>4, <3>2 DEF Applied
      <4> QED
        BY <2>6, <3>2, <4>1 DEF RealInv, CountBounded
    <3> QED
      BY <3>1, <3>2
  <2>9. QueueReal'
    BY <2>1 DEF RealInv, QueueReal, Receivers
  <2> QED
    BY <1>1, <2>5, <2>7, <2>8, <2>9 DEF RealInv
<1>6. ASSUME NEW n \in Nodes, NEW m \in MsgIds, NEW p \in Nodes, MoveToPublicQueue(n, m, p)
      PROVE  RealInv'
  <2>1. /\ UNCHANGED <<confirmed, received>>
        /\ task[n][m][p] = "move"
        /\ task' = [task EXCEPT ![n][m][p] = "done"]
        /\ temp' = [temp EXCEPT ![n][m] = 0]
        /\ queue' = [queue EXCEPT ![n] = Moved(@, m, temp[n][m])]
    BY <1>6 DEF MoveToPublicQueue
  <2>2. \A i \in Nodes : \A k \in MsgIds : \A j \in Nodes :
          task'[i][k][j] = IF i = n /\ k = m /\ j = p THEN "done" ELSE task[i][k][j]
    BY <1>1, <2>1 DEF TypeOK
  <2>3. \A i \in Nodes : \A k \in MsgIds : temp'[i][k] \in {0, temp[i][k]}
    BY <1>1, <2>1 DEF TypeOK
  <2>4. TasksConfirmed'
    BY <2>1, <2>2 DEF RealInv, TasksConfirmed
  <2>5. ConfirmedReceived' /\ TempReceived'
    BY <2>1, <2>3 DEF RealInv, ConfirmedReceived, TempReceived
  <2>6. CountBounded'
    <3> SUFFICES ASSUME NEW i \in Nodes, NEW k \in MsgIds
                 PROVE  temp'[i][k] <= 1 + Cardinality(Applied(i, k)')
      BY DEF CountBounded
    <3>1. Applied(i, k)' = Applied(i, k) /\ Cardinality(Applied(i, k)) \in Nat
      BY <2>1, <2>2, NodeSets DEF Applied
    <3> QED
      BY <2>3, <3>1 DEF RealInv, CountBounded
  <2>7. QueueReal'
    <3> SUFFICES ASSUME NEW i \in Nodes, NEW e \in queue'[i]
                 PROVE  e.confirmations <= Cardinality(Receivers(e.id)')
      BY DEF QueueReal
    <3>1. Receivers(e.id)' = Receivers(e.id)
      BY <2>1 DEF Receivers
    <3>2. /\ \A x \in Moved(queue[n], m, temp[n][m]) :
               x \in queue[n] \/ (temp[n][m] > 0 /\ x = [id |-> m, confirmations |-> temp[n][m]])
          /\ temp[n][m] \in Nat
      BY <1>1, MovedSubset DEF TypeOK
    <3>3. \/ e \in queue[i]
          \/ temp[n][m] > 0 /\ e = [id |-> m, confirmations |-> temp[n][m]]
      BY <1>1, <2>1, <3>2 DEF TypeOK
    <3>4. CASE e \in queue[i]
      BY <3>1, <3>4 DEF RealInv, QueueReal
    <3>5. CASE temp[n][m] > 0 /\ e = [id |-> m, confirmations |-> temp[n][m]]
      BY <3>1, <3>5, CountedIsReal
    <3> QED
      BY <3>3, <3>4, <3>5
  <2> QED
    BY <1>1, <2>4, <2>5, <2>6, <2>7 DEF RealInv
<1>7. ASSUME NEW n \in Nodes, PopFront(n) PROVE RealInv'
  <2>1. \A i \in Nodes : queue'[i] \subseteq queue[i]
    BY <1>1, <1>7 DEF PopFront, TypeOK
  <2> QED
    BY <1>1, <1>7, <2>1, RealFrame DEF PopFront
<1>8. ASSUME NEW n \in Nodes, NEW p \in Nodes, ReplicateBuffer(n, p) PROVE RealInv'
  <2>1. \A i \in Nodes : \A e \in queue'[i] : e \in queue[i] \/ e.confirmations = 0
    BY <1>1, <1>8 DEF ReplicateBuffer, TypeOK
  <2> QED
    BY <1>1, <1>8, <2>1, RealFrame DEF ReplicateBuffer
<1>9. ASSUME NEW n \in Nodes, JoinReplNetwork(n) PROVE RealInv'
  <2>1. /\ \A i \in Nodes : queue'[i] \subseteq queue[i]
        /\ \A i \in Nodes : \A k \in MsgIds : temp'[i][k] \in {0, temp[i][k]}
    BY <1>1, <1>9 DEF JoinReplNetwork, TypeOK
  <2> QED
    BY <1>1, <1>9, <2>1, RealFrame DEF JoinReplNetwork
<1>10. ASSUME NEW n \in Nodes, LeaveReplNetwork(n) PROVE RealInv'
  BY <1>1, <1>10, RealFrame DEF LeaveReplNetwork
<1>11. ASSUME NEW n \in Nodes, NEW p \in Nodes, PeerSubscribed(n, p) PROVE RealInv'
  BY <1>1, <1>11, RealFrame DEF PeerSubscribed
<1>12. ASSUME NEW n \in Nodes, NEW p \in Nodes, PeerUnsubscribed(n, p) PROVE RealInv'
  BY <1>1, <1>12, RealFrame DEF PeerUnsubscribed
<1>13. ASSUME NEW m \in MsgIds, Expire(m) PROVE RealInv'
  BY <1>1, <1>13, RealFrame DEF Expire
<1>14. CASE UNCHANGED vars
  BY <1>1, <1>14, RealFrame DEF vars
<1> QED
  BY <1>2, <1>3, <1>4, <1>5, <1>6, <1>7, <1>8, <1>9, <1>10, <1>11, <1>12, <1>13, <1>14
     DEF Next, Deliver, Application, Gossip

LEMMA RealInit == Init => RealInv
<1> SUFFICES ASSUME Init PROVE RealInv
  OBVIOUS
<1>1. TypeOK
  BY DEF Init, TypeOK, Phases
<1>2. TasksConfirmed /\ ConfirmedReceived /\ TempReceived /\ QueueReal
  BY DEF Init, TasksConfirmed, ConfirmedReceived, TempReceived, QueueReal
<1>3. CountBounded
  <2> SUFFICES ASSUME NEW n \in Nodes, NEW m \in MsgIds
               PROVE  temp[n][m] <= 1 + Cardinality(Applied(n, m))
    BY DEF CountBounded
  <2>1. temp[n][m] = 0 /\ Cardinality(Applied(n, m)) \in Nat
    BY NodeSets DEF Init, Applied
  <2> QED
    BY <2>1
<1> QED
  BY <1>1, <1>2, <1>3 DEF RealInv

LEMMA RealInvImplies == RealInv => ConfirmationsAreReal
<1> SUFFICES ASSUME RealInv PROVE ConfirmationsAreReal
  OBVIOUS
<1>1. ASSUME NEW n \in Nodes, NEW m \in MsgIds
      PROVE  temp[n][m] <= Cardinality(Receivers(m))
  <2>1. temp[n][m] \in Nat /\ Cardinality(Receivers(m)) \in Nat
    BY NodeSets DEF RealInv, TypeOK, Receivers
  <2>2. CASE temp[n][m] = 0
    BY <2>1, <2>2
  <2>3. CASE temp[n][m] > 0
    BY <2>3, CountedIsReal
  <2> QED
    BY <2>1, <2>2, <2>3
<1> QED
  BY <1>1 DEF ConfirmationsAreReal, RealInv, QueueReal

(***************************************************************************)
(* However nodes join, leave, clone buffers and lose entries, a            *)
(* confirmation count never exceeds the number of nodes with the data      *)
(* (push, handle_data_confirmation).                                       *)
(***************************************************************************)
THEOREM ConfirmationsReal == Spec => []ConfirmationsAreReal
BY RealInit, RealStep, RealInvImplies, PTL DEF Spec

-----------------------------------------------------------------------------
(* The quorum, while membership does not change *)

FullView ==
  /\ churn = 0
  /\ subscribed = Nodes
  /\ \A n \in Nodes : peers[n] = Nodes \ {n}

GoalIsQuorum ==
  \A n \in Nodes : \A m \in MsgIds : \A p \in Nodes :
    required[n][m][p] # 0 => required[n][m][p] >= Quorum

MoveBacked ==
  \A n \in Nodes : \A m \in MsgIds : \A p \in Nodes :
    task[n][m][p] = "move" => Cardinality(Receivers(m)) >= Quorum

(***************************************************************************)
(* QuorumHolds is not inductive: a task in "move" may release an entry, so *)
(* what it has found must persist (MoveBacked); it has found it by         *)
(* comparing a count that is real (RealInv) with a goal that is the quorum *)
(* or that a failed query has made 0 (GoalIsQuorum, from FullView).        *)
(***************************************************************************)
QuorumInv ==
  /\ RealInv
  /\ FullView
  /\ GoalIsQuorum
  /\ MoveBacked
  /\ QuorumHolds

LEMMA QuorumType == Quorum \in Nat /\ Cardinality(Nodes) \in Nat
BY FS_CardinalityType DEF Quorum

LEMMA FullViewSize ==
  ASSUME FullView, NEW n \in Nodes
  PROVE  Cardinality(peers[n]) = Cardinality(Nodes) - 1
BY FS_RemoveElement DEF FullView

\* Gossip and the application do not change what tasks know, nor release.
LEMMA QuorumFrame ==
  ASSUME QuorumInv, RealInv', FullView',
         UNCHANGED <<task, required, received>>,
         \A n \in Nodes : Released(n)' \subseteq UNION {Released(i) : i \in Nodes}
  PROVE  QuorumInv'
<1>1. \A m \in MsgIds : Receivers(m)' = Receivers(m)
  BY DEF Receivers
<1>2. GoalIsQuorum'
  BY DEF QuorumInv, GoalIsQuorum, Quorum
<1>3. MoveBacked'
  BY <1>1 DEF QuorumInv, MoveBacked, Quorum
<1>4. QuorumHolds'
  <2> SUFFICES ASSUME NEW n \in Nodes, NEW m \in Released(n)'
               PROVE  Cardinality(Receivers(m)') >= Quorum
    BY DEF QuorumHolds, Quorum
  <2>1. PICK i \in Nodes : m \in Released(i)
    OBVIOUS
  <2>2. m \in MsgIds
    BY <2>1 DEF QuorumInv, RealInv, TypeOK, Released, QueueIds, Entry
  <2> QED
    BY <1>1, <2>1, <2>2 DEF QuorumInv, QuorumHolds
<1> QED
  BY <1>2, <1>3, <1>4 DEF QuorumInv

LEMMA QuorumStep ==
  ASSUME MaxChurn = 0
  PROVE  QuorumInv /\ [Next]_vars => QuorumInv'
<1> SUFFICES ASSUME QuorumInv, [Next]_vars PROVE QuorumInv'
  OBVIOUS
<1> USE DEF buffers, tasks, network
<1>1. RealInv /\ RealInv' /\ TypeOK /\ TypeOK'
  BY RealStep DEF QuorumInv, RealInv
<1>2. FullView'
  <2>1. UNCHANGED <<churn, subscribed, peers>>
    BY DEF QuorumInv, FullView, Next, Deliver, Application, Gossip, vars, Replicate,
           HandleIncomingReplData, HandleDataConfirmation, UpdateConfirmation,
           MoveToPublicQueue, PopFront, ReplicateBuffer, JoinReplNetwork,
           LeaveReplNetwork, PeerSubscribed, PeerUnsubscribed, Expire
  <2> QED
    BY <2>1 DEF QuorumInv, FullView
<1>3. ASSUME NEW n \in Nodes, NEW m \in MsgIds, Replicate(n, m) PROVE QuorumInv'
  BY <1>1, <1>2, <1>3, QuorumFrame DEF Replicate, Released, QueueIds
<1>4. ASSUME NEW n \in Nodes, NEW m \in MsgIds, HandleIncomingReplData(n, m) PROVE QuorumInv'
  <2>1. UNCHANGED <<task, required, consumed>> /\ received' = [received EXCEPT ![n] = @ \cup {m}]
    BY <1>4 DEF HandleIncomingReplData
  <2>2. \A i \in Nodes : received[i] \subseteq received'[i]
    BY <1>1, <2>1 DEF TypeOK
  <2>3. \A k \in MsgIds :
          Cardinality(Receivers(k)) >= Quorum => Cardinality(Receivers(k)') >= Quorum
    BY <2>2, ReceiversGrow, QuorumType
  <2>4. GoalIsQuorum'
    BY <2>1 DEF QuorumInv, GoalIsQuorum, Quorum
  <2>5. MoveBacked'
    BY <2>1, <2>3 DEF QuorumInv, MoveBacked, Quorum
  <2>6. QuorumHolds'
    <3> SUFFICES ASSUME NEW i \in Nodes, NEW k \in Released(i)'
                 PROVE  Cardinality(Receivers(k)') >= Quorum
      BY DEF QuorumHolds, Quorum
    <3>1. k \in MsgIds
      BY <1>1 DEF TypeOK, Released, QueueIds, Entry
    <3>2. CASE k \in Released(i)
      BY <2>3, <3>1, <3>2 DEF QuorumInv, QuorumHolds
    <3>3. CASE k \notin Released(i)
      <4> DEFINE x == [id |-> m, confirmations |-> InitialConfirmations]
      <4>1. PICK count \in ReplicaPeers(n) : PushDirect(n, m, count) \/ PushTemporary(n, m, count)
        BY <1>4 DEF HandleIncomingReplData
      <4>2. queue' # queue
        BY <2>1, <3>3 DEF Released, QueueIds
      <4>3. /\ count = 1 \/ (~ConsensusAll /\ MinPeers = 1)
            /\ queue' = [queue EXCEPT ![n] = Insert(@, x)]
        BY <4>1, <4>2 DEF PushDirect, PushTemporary
      <4>4. count \in {0, Cardinality(Nodes) - 1}
        BY <4>1, FullViewSize DEF ReplicaPeers, QuorumInv
      <4>5. Quorum <= 1
        BY <4>3, <4>4, QuorumType DEF Quorum
      <4>6. k = m
        <5>1. x \in Entry /\ x.id = m
          BY DEF Entry, InitialConfirmations
        <5> HIDE DEF x
        <5>2. Insert(queue[n], x) \subseteq queue[n] \cup {x}
          BY <1>1, <5>1, InsertSubset DEF TypeOK
        <5>3. queue'[i] \subseteq queue[i] \cup {x}
          BY <1>1, <4>3, <5>2 DEF TypeOK
        <5>4. PICK e \in queue'[i] : e.id = k
          BY <2>1, <3>3 DEF Released, QueueIds
        <5>5. e \notin queue[i]
          BY <3>3, <5>4 DEF Released, QueueIds
        <5> QED
          BY <5>1, <5>3, <5>4, <5>5
      <4>7. {n} \subseteq Receivers(m)' /\ {n} \in SUBSET Nodes /\ Receivers(m)' \in SUBSET Nodes
        BY <1>1, <2>1 DEF Receivers, TypeOK
      <4>8. Cardinality({n}) <= Cardinality(Receivers(m)') /\ Cardinality({n}) = 1
        BY <4>7, NodeSetsMonotone, FS_Singleton
      <4>9. Cardinality(Receivers(m)') \in Nat
        BY <4>7, NodeSets
      <4> QED
        BY <4>5, <4>6, <4>8, <4>9, QuorumType
    <3> QED
      BY <3>2, <3>3
  <2> QED
    BY <1>1, <1>2, <2>4, <2>5, <2>6 DEF QuorumInv
<1>5. ASSUME NEW n \in Nodes, NEW m \in MsgIds, NEW p \in Nodes, HandleDataConfirmation(n, m, p)
      PROVE  QuorumInv'
  <2>1. /\ UNCHANGED <<received, queue, consumed>>
        /\ task' = [task EXCEPT ![n][m][p] = "apply"]
    BY <1>5 DEF HandleDataConfirmation
  <2>2. PICK count \in PeersCount(n) : required' = [required EXCEPT ![n][m][p] = count]
    BY <1>5 DEF HandleDataConfirmation
  <2>3. count # 0 => count >= Quorum
    <3>1. Cardinality(peers[n]) = Cardinality(Nodes) - 1
      BY FullViewSize DEF QuorumInv
    <3>2. CASE ConsensusAll
      BY <2>2, <3>1, <3>2, QuorumType DEF PeersCount, ReplicaPeers, Quorum
    <3>3. CASE ~ConsensusAll
      BY <2>2, <3>3, QuorumType DEF PeersCount, Quorum
    <3> QED
      BY <3>2, <3>3
  <2>4. GoalIsQuorum'
    <3>1. \A i \in Nodes : \A k \in MsgIds : \A j \in Nodes :
            required'[i][k][j] \in {count, required[i][k][j]}
      BY <1>1, <2>2 DEF TypeOK
    <3> QED
      BY <2>3, <3>1 DEF QuorumInv, GoalIsQuorum, Quorum
  <2>5. \A i \in Nodes : \A k \in MsgIds : \A j \in Nodes :
          task'[i][k][j] \in {"apply", task[i][k][j]}
    BY <1>1, <2>1 DEF TypeOK
  <2>6. MoveBacked'
    BY <2>1, <2>5 DEF QuorumInv, MoveBacked, Receivers, Quorum
  <2>7. QuorumHolds'
    BY <2>1 DEF QuorumInv, QuorumHolds, Receivers, Quorum, Released, QueueIds
  <2> QED
    BY <1>1, <1>2, <2>4, <2>6, <2>7 DEF QuorumInv
<1>6. ASSUME NEW n \in Nodes, NEW m \in MsgIds, NEW p \in Nodes, UpdateConfirmation(n, m, p)
      PROVE  QuorumInv'
  <2> DEFINE goal == required[n][m][p]
  <2>1. UNCHANGED <<received, queue, consumed, required>>
    BY <1>6 DEF UpdateConfirmation
  <2>2. \A k \in MsgIds : Receivers(k)' = Receivers(k) /\ Cardinality(Receivers(k)) \in Nat
    BY <2>1, NodeSets DEF Receivers
  <2>3. GoalIsQuorum'
    BY <2>1 DEF QuorumInv, GoalIsQuorum, Quorum
  <2>4. QuorumHolds'
    BY <2>1 DEF QuorumInv, QuorumHolds, Receivers, Quorum, Released, QueueIds
  <2> DEFINE count == Counted(temp[n][m], goal)
             s == IF FullyConfirmed(count, goal) THEN "move" ELSE "done"
  <2>5. /\ task' = [task EXCEPT ![n][m][p] = s]
        /\ temp'[n][m] = count
        /\ goal \in Nat /\ count \in Nat
    BY <1>1, <1>6 DEF UpdateConfirmation, TypeOK, Counted
  <2>6. ASSUME s = "move" PROVE Cardinality(Receivers(m)') >= Quorum
    <3>1. temp'[n][m] > 0 /\ temp'[n][m] = goal /\ goal # 0
      BY <2>5, <2>6 DEF FullyConfirmed
    <3>2. temp'[n][m] <= Cardinality(Receivers(m)')
      <4>1. (RealInv => ConfirmationsAreReal)'
        BY RealInvImplies, PTL
      <4> QED
        BY <1>1, <4>1 DEF ConfirmationsAreReal
    <3>3. goal >= Quorum
      BY <3>1 DEF QuorumInv, GoalIsQuorum
    <3> QED
      BY <2>2, <2>5, <3>1, <3>2, <3>3, QuorumType
  <2>7. MoveBacked'
    <3>1. \A i \in Nodes : \A k \in MsgIds : \A j \in Nodes :
            task'[i][k][j] = IF i = n /\ k = m /\ j = p THEN s ELSE task[i][k][j]
      BY <1>1, <2>5 DEF TypeOK
    <3> SUFFICES ASSUME NEW i \in Nodes, NEW k \in MsgIds, NEW j \in Nodes,
                        task'[i][k][j] = "move"
                 PROVE  Cardinality(Receivers(k)') >= Quorum
      BY DEF MoveBacked, Quorum
    <3> HIDE DEF s
    <3>2. CASE i = n /\ k = m /\ j = p
      BY <2>6, <3>1, <3>2
    <3>3. CASE ~(i = n /\ k = m /\ j = p)
      <4>1. task[i][k][j] = "move"
        BY <3>1, <3>3
      <4>2. Cardinality(Receivers(k)) >= Quorum
        BY <4>1 DEF QuorumInv, MoveBacked
      <4>3. Receivers(k)' = Receivers(k)
        BY <2>2
      <4> QED
        BY <4>2, <4>3
    <3> QED
      BY <3>2, <3>3
  <2> QED
    BY <1>1, <1>2, <2>3, <2>4, <2>7 DEF QuorumInv
<1>7. ASSUME NEW n \in Nodes, NEW m \in MsgIds, NEW p \in Nodes, MoveToPublicQueue(n, m, p)
      PROVE  QuorumInv'
  <2>1. /\ UNCHANGED <<received, consumed, required>>
        /\ task[n][m][p] = "move"
        /\ task' = [task EXCEPT ![n][m][p] = "done"]
        /\ queue' = [queue EXCEPT ![n] = Moved(@, m, temp[n][m])]
    BY <1>7 DEF MoveToPublicQueue
  <2>2. \A k \in MsgIds : Receivers(k)' = Receivers(k)
    BY <2>1 DEF Receivers
  <2>3. GoalIsQuorum'
    BY <2>1 DEF QuorumInv, GoalIsQuorum, Quorum
  <2>4. MoveBacked'
    <3>1. \A i \in Nodes : \A k \in MsgIds : \A j \in Nodes :
            task'[i][k][j] \in {"done", task[i][k][j]}
      BY <1>1, <2>1 DEF TypeOK
    <3> SUFFICES ASSUME NEW i \in Nodes, NEW k \in MsgIds, NEW j \in Nodes,
                        task'[i][k][j] = "move"
                 PROVE  Cardinality(Receivers(k)') >= Quorum
      BY DEF MoveBacked, Quorum
    <3>2. task[i][k][j] = "move"
      BY <3>1
    <3>3. Cardinality(Receivers(k)) >= Quorum
      BY <3>2 DEF QuorumInv, MoveBacked
    <3>4. Receivers(k)' = Receivers(k)
      BY <2>2
    <3> QED
      BY <3>3, <3>4
  <2>5. QuorumHolds'
    <3> SUFFICES ASSUME NEW i \in Nodes, NEW k \in Released(i)'
                 PROVE  Cardinality(Receivers(k)') >= Quorum
      BY DEF QuorumHolds, Quorum
    <3>1. k \in MsgIds
      BY <1>1 DEF TypeOK, Released, QueueIds, Entry
    <3>2. CASE k \in Released(i)
      BY <2>2, <3>1, <3>2 DEF QuorumInv, QuorumHolds
    <3>3. CASE k \notin Released(i)
      <4>1. PICK e \in queue'[i] : e.id = k
        BY <2>1, <3>3 DEF Released, QueueIds
      <4>2. e \notin queue[i]
        BY <3>3, <4>1 DEF Released, QueueIds
      <4>3. \A x \in Moved(queue[n], m, temp[n][m]) : x \in queue[n] \/ x.id = m
        BY <1>1, MovedSubset DEF TypeOK
      <4>4. k = m
        BY <1>1, <2>1, <4>1, <4>2, <4>3 DEF TypeOK
      <4> QED
        BY <2>1, <2>2, <4>4 DEF QuorumInv, MoveBacked
    <3> QED
      BY <3>2, <3>3
  <2> QED
    BY <1>1, <1>2, <2>3, <2>4, <2>5 DEF QuorumInv
<1>8. ASSUME NEW n \in Nodes, PopFront(n) PROVE QuorumInv'
  <2>1. PICK e \in queue[n] : /\ queue' = [queue EXCEPT ![n] = @ \ {e}]
                              /\ consumed' = [consumed EXCEPT ![n] = @ \cup {e.id}]
    BY <1>8 DEF PopFront
  <2>2. \A i \in Nodes : Released(i)' \subseteq Released(i)
    BY <1>1, <2>1 DEF Released, QueueIds, TypeOK
  <2> QED
    BY <1>1, <1>2, <1>8, <2>2, QuorumFrame DEF PopFront
<1>9. ASSUME NEW n \in Nodes, NEW p \in Nodes, ReplicateBuffer(n, p) PROVE QuorumInv'
  <2>1. \A i \in Nodes : QueueIds(i)' \subseteq QueueIds(i) \cup QueueIds(p)
    BY <1>1, <1>9 DEF ReplicateBuffer, QueueIds, TypeOK
  <2>2. UNCHANGED <<task, required, received, consumed>>
    BY <1>9 DEF ReplicateBuffer
  <2>3. \A i \in Nodes : Released(i)' \subseteq UNION {Released(j) : j \in Nodes}
    BY <2>1, <2>2 DEF Released
  <2> QED
    BY <1>1, <1>2, <2>2, <2>3, QuorumFrame
<1>10. ASSUME NEW n \in Nodes, JoinReplNetwork(n) PROVE QuorumInv'
  BY <1>10 DEF JoinReplNetwork, QuorumInv, FullView
<1>11. ASSUME NEW n \in Nodes, LeaveReplNetwork(n) PROVE QuorumInv'
  BY <1>11 DEF LeaveReplNetwork, QuorumInv, FullView
<1>12. ASSUME NEW n \in Nodes, NEW p \in Nodes, PeerSubscribed(n, p) PROVE QuorumInv'
  BY <1>12 DEF PeerSubscribed, QuorumInv, FullView
<1>13. ASSUME NEW n \in Nodes, NEW p \in Nodes, PeerUnsubscribed(n, p) PROVE QuorumInv'
  BY <1>13 DEF PeerUnsubscribed, QuorumInv, FullView
<1>14. ASSUME NEW m \in MsgIds, Expire(m) PROVE QuorumInv'
  BY <1>1, <1>2, <1>14, QuorumFrame DEF Expire, Released, QueueIds
<1>15. CASE UNCHANGED vars
  BY <1>1, <1>2, <1>15, QuorumFrame DEF vars, Released, QueueIds
<1> QED
  BY <1>3, <1>4, <1>5, <1>6, <1>7, <1>8, <1>9, <1>10, <1>11, <1>12, <1>13, <1>14, <1>15
     DEF Next, Deliver, Application, Gossip

LEMMA QuorumInit == Init => QuorumInv
<1> SUFFICES ASSUME Init PROVE QuorumInv
  OBVIOUS
<1>1. FullView
  BY DEF Init, FullView
<1>2. GoalIsQuorum
  BY DEF Init, GoalIsQuorum
<1>3. MoveBacked
  BY DEF Init, MoveBacked
<1>4. QuorumHolds
  BY DEF Init, QuorumHolds, Released, QueueIds
<1> QED
  BY <1>1, <1>2, <1>3, <1>4, RealInit DEF QuorumInv

(***************************************************************************)
(* While no node joins or leaves, data is released to an application only  *)
(* when the quorum of the consensus model holds it, whatever queries fail  *)
(* and however tasks, evictions and clones interleave (push,               *)
(* handle_data_confirmation, replicate_buffer).                            *)
(***************************************************************************)
THEOREM QuorumTheorem ==
  ASSUME MaxChurn = 0
  PROVE  Spec => []QuorumHolds
<1>1. QuorumInv => QuorumHolds
  BY DEF QuorumInv
<1>2. QuorumInv /\ [Next]_vars => QuorumInv'
  BY QuorumStep
<1> QED
  BY <1>1, <1>2, QuorumInit, PTL DEF Spec

=============================================================================
