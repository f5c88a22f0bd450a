---------------------- MODULE StrongReplication_proofs ----------------------
(***************************************************************************)
(* StrongConsistency implements StrongReplication while no node joins,     *)
(* leaves or clones a buffer.                                              *)
(***************************************************************************)
EXTENDS StrongConsistency_proofs

(***************************************************************************)
(* What the refinement mapping needs besides the quorum: a message is in   *)
(* at most one place of a node, and it is nowhere before it has been       *)
(* received.                                                               *)
(***************************************************************************)
OnePlace ==
  \A n \in Nodes : \A m \in MsgIds :
    /\ m \in QueueIds(n) => m \in received[n] /\ temp[n][m] = 0
    /\ m \in consumed[n] => m \in received[n] /\ temp[n][m] = 0 /\ m \notin QueueIds(n)

UniqueEntries ==
  \A n \in Nodes : \A e \in queue[n] : \A x \in queue[n] : e.id = x.id => e = x

PlaceInv ==
  /\ QuorumInv
  /\ OnePlace
  /\ UniqueEntries

\* Inserting a new id into a buffer, or some of it, keeps ids unique.
LEMMA InsertUnique ==
  ASSUME NEW q \in SUBSET Entry, NEW r \in SUBSET q, NEW x \in Entry,
         \A e \in q : \A f \in q : e.id = f.id => e = f
  PROVE  /\ \A e \in Insert(r, x) : \A f \in Insert(r, x) : e.id = f.id => e = f
         /\ \E e \in Insert(r, x) : e.id = x.id
         /\ Insert(r, x) \subseteq r \cup {x}
         /\ r \subseteq Insert(r, x)
BY DEF Insert

LEMMA PlaceInit == Init => PlaceInv
BY QuorumInit DEF Init, PlaceInv, OnePlace, UniqueEntries, QueueIds

\* An action that brings no data and moves none into a buffer.
LEMMA PlaceFrame ==
  ASSUME PlaceInv, QuorumInv',
         UNCHANGED <<received, consumed>>,
         \A n \in Nodes : \A m \in MsgIds : temp[n][m] = 0 => temp'[n][m] = 0,
         \A n \in Nodes : queue'[n] \subseteq queue[n]
  PROVE  PlaceInv'
<1>1. \A n \in Nodes : QueueIds(n)' \subseteq QueueIds(n)
  BY DEF QueueIds
<1>2. OnePlace'
  BY <1>1 DEF PlaceInv, OnePlace
<1>3. UniqueEntries'
  BY DEF PlaceInv, UniqueEntries
<1> QED
  BY <1>2, <1>3 DEF PlaceInv

\* What push() does to the buffers of the node, and only there.
LEMMA ReceiveEffect ==
  ASSUME PlaceInv, NEW n \in Nodes, NEW m \in MsgIds, HandleIncomingReplData(n, m)
  PROVE  /\ m \notin QueueIds(n) /\ temp[n][m] = 0 /\ m \notin received[n]
         /\ m \notin consumed[n]
         /\ UNCHANGED consumed
         /\ received' = [received EXCEPT ![n] = @ \cup {m}]
         /\ \A i \in Nodes \ {n} : temp'[i] = temp[i] /\ queue'[i] = queue[i]
         /\ \A k \in MsgIds \ {m} : temp'[n][k] \in {0, temp[n][k]}
         /\ \/ /\ queue'[n] = queue[n] /\ temp'[n][m] = 1
            \/ /\ queue'[n] = Insert(queue[n], [id |-> m, confirmations |-> 1])
               /\ temp'[n][m] = 0
<1>1. TypeOK
  BY DEF PlaceInv, QuorumInv, RealInv
<1>2. m \notin received[n] /\ received' = [received EXCEPT ![n] = @ \cup {m}]
  BY DEF HandleIncomingReplData
<1>3. m \notin QueueIds(n) /\ m \notin consumed[n]
  BY <1>2 DEF PlaceInv, OnePlace
<1>4. temp[n][m] = 0
  BY <1>1, <1>2 DEF PlaceInv, QuorumInv, RealInv, TempReceived, TypeOK
<1>5. UNCHANGED consumed
  BY DEF HandleIncomingReplData
<1>6. PICK count \in ReplicaPeers(n) : PushDirect(n, m, count) \/ PushTemporary(n, m, count)
  BY DEF HandleIncomingReplData
<1>7. CASE PushDirect(n, m, count)
  BY <1>1, <1>2, <1>3, <1>4, <1>5, <1>7 DEF PushDirect, InitialConfirmations, TypeOK
<1>8. CASE PushTemporary(n, m, count)
  BY <1>1, <1>2, <1>3, <1>4, <1>5, <1>8 DEF PushTemporary, InitialConfirmations, TypeOK
<1> QED
  BY <1>6, <1>7, <1>8

LEMMA PlaceStep ==
  ASSUME MaxChurn = 0, ~Cloning
  PROVE  PlaceInv /\ [Next]_vars => PlaceInv'
<1> SUFFICES ASSUME PlaceInv, [Next]_vars PROVE PlaceInv'
  OBVIOUS
<1> USE DEF buffers, tasks, network
<1>1. QuorumInv /\ QuorumInv' /\ TypeOK /\ TypeOK'
  BY QuorumStep DEF PlaceInv, QuorumInv, RealInv
<1>2. ASSUME NEW n \in Nodes, NEW m \in MsgIds, Replicate(n, m) PROVE PlaceInv'
  BY <1>1, <1>2, PlaceFrame DEF Replicate
<1>3. ASSUME NEW n \in Nodes, NEW m \in MsgIds, HandleIncomingReplData(n, m) PROVE PlaceInv'
  <2> DEFINE x == [id |-> m, confirmations |-> 1]
  <2>1. x \in Entry /\ x.id = m
    BY DEF Entry
  <2> HIDE DEF x
  <2>2. /\ m \notin QueueIds(n) /\ temp[n][m] = 0 /\ m \notin received[n]
        /\ m \notin consumed[n]
        /\ UNCHANGED consumed
        /\ received' = [received EXCEPT ![n] = @ \cup {m}]
        /\ \A i \in Nodes \ {n} : temp'[i] = temp[i] /\ queue'[i] = queue[i]
        /\ \A k \in MsgIds \ {m} : temp'[n][k] \in {0, temp[n][k]}
        /\ \/ /\ queue'[n] = queue[n] /\ temp'[n][m] = 1
           \/ /\ queue'[n] = Insert(queue[n], x)
              /\ temp'[n][m] = 0
    BY <1>3, ReceiveEffect DEF x
  <2>3. queue[n] \in SUBSET Entry
    BY <1>1 DEF TypeOK
  <2>4. /\ \A e \in Insert(queue[n], x) : \A f \in Insert(queue[n], x) : e.id = f.id => e = f
        /\ Insert(queue[n], x) \subseteq queue[n] \cup {x}
    BY <2>1, <2>3, InsertUnique DEF PlaceInv, UniqueEntries
  <2>5. UniqueEntries'
    BY <2>2, <2>4 DEF PlaceInv, UniqueEntries
  <2>6. \A i \in Nodes : \A k \in MsgIds \ {m} :
          /\ k \in QueueIds(i)' => k \in QueueIds(i)
          /\ temp[i][k] = 0 => temp'[i][k] = 0
          /\ k \in received[i] => k \in received'[i]
    BY <1>1, <2>1, <2>2, <2>4 DEF QueueIds, TypeOK
  <2>7. \A i \in Nodes \ {n} :
          QueueIds(i)' = QueueIds(i) /\ temp'[i] = temp[i] /\ received'[i] = received[i]
    BY <1>1, <2>2 DEF QueueIds, TypeOK
  <2>8. m \in received'[n] /\ (m \in QueueIds(n)' => temp'[n][m] = 0)
    BY <1>1, <2>2 DEF QueueIds, TypeOK
  <2>9. OnePlace'
    BY <2>2, <2>6, <2>7, <2>8 DEF PlaceInv, OnePlace
  <2> QED
    BY <1>1, <2>5, <2>9 DEF PlaceInv
<1>4. ASSUME NEW n \in Nodes, NEW m \in MsgIds, NEW p \in Nodes, HandleDataConfirmation(n, m, p)
      PROVE  PlaceInv'
  BY <1>1, <1>4, PlaceFrame DEF HandleDataConfirmation
<1>5. ASSUME NEW n \in Nodes, NEW m \in MsgIds, NEW p \in Nodes, UpdateConfirmation(n, m, p)
      PROVE  PlaceInv'
  <2>1. \A i \in Nodes : \A k \in MsgIds : temp[i][k] = 0 => temp'[i][k] = 0
    <3> DEFINE c == Counted(temp[n][m], required[n][m][p])
    <3>1. temp' = [temp EXCEPT ![n][m] = c]
      BY <1>5 DEF UpdateConfirmation
    <3>2. temp[n][m] = 0 => c = 0
      BY <1>1 DEF Counted, TypeOK
    <3> HIDE DEF c
    <3>3. \A i \in Nodes : \A k \in MsgIds :
            temp'[i][k] = IF i = n /\ k = m THEN c ELSE temp[i][k]
      BY <1>1, <3>1 DEF TypeOK
    <3> QED
      BY <3>2, <3>3
  <2>2. UNCHANGED <<received, consumed, queue>>
    BY <1>5 DEF UpdateConfirmation
  <2> QED
    BY <1>1, <2>1, <2>2, PlaceFrame
<1>6. ASSUME NEW n \in Nodes, NEW m \in MsgIds, NEW p \in Nodes, MoveToPublicQueue(n, m, p)
      PROVE  PlaceInv'
  <2>1. /\ UNCHANGED <<received, consumed>>
        /\ temp' = [temp EXCEPT ![n][m] = 0]
        /\ queue' = [queue EXCEPT ![n] = Moved(@, m, temp[n][m])]
    BY <1>6 DEF MoveToPublicQueue
  <2>2. /\ \A i \in Nodes : \A k \in MsgIds : temp[i][k] = 0 => temp'[i][k] = 0
        /\ temp'[n][m] = 0
    BY <1>1, <2>1 DEF TypeOK
  <2>3. Cleanup(queue[n]) \subseteq queue[n]
    <3>1. queue[n] \in SUBSET Entry
      BY <1>1 DEF TypeOK
    <3> QED
      BY <3>1, CleanupSubset
  <2>4. CASE temp[n][m] = 0
    <3>1. queue' = [queue EXCEPT ![n] = Cleanup(@)]
      BY <2>1, <2>4 DEF Moved
    <3>2. \A i \in Nodes : queue'[i] = IF i = n THEN Cleanup(queue[n]) ELSE queue[i]
      BY <1>1, <3>1 DEF TypeOK
    <3>3. \A i \in Nodes : queue'[i] \subseteq queue[i]
      BY <2>3, <3>2
    <3> QED
      BY <1>1, <2>1, <2>2, <3>3, PlaceFrame
  <2>5. CASE temp[n][m] > 0
    <3> DEFINE x == [id |-> m, confirmations |-> temp[n][m]]
    <3>1. x \in Entry /\ x.id = m
      BY <1>1 DEF Entry, TypeOK
    <3>2. queue' = [queue EXCEPT ![n] = Insert(Cleanup(@), x)]
      BY <2>1, <2>5 DEF Moved
    <3> HIDE DEF x
    <3>3. m \notin QueueIds(n) /\ m \in received[n] /\ m \notin consumed[n]
      BY <2>5 DEF PlaceInv, OnePlace, QuorumInv, RealInv, TempReceived
    <3>4. queue[n] \in SUBSET Entry
      BY <1>1 DEF TypeOK
    <3>5. /\ \A e \in queue'[n] : \A f \in queue'[n] : e.id = f.id => e = f
          /\ queue'[n] \subseteq queue[n] \cup {x}
          /\ \A i \in Nodes \ {n} : queue'[i] = queue[i]
      <4> DEFINE r == Cleanup(queue[n])
      <4>1. r \in SUBSET queue[n]
        BY <2>3
      <4>2. queue'[n] = Insert(r, x) /\ \A i \in Nodes \ {n} : queue'[i] = queue[i]
        BY <1>1, <3>2 DEF TypeOK
      <4>3. \A e \in queue[n] : \A f \in queue[n] : e.id = f.id => e = f
        BY DEF PlaceInv, UniqueEntries
      <4> HIDE DEF r
      <4>4. /\ \A e \in Insert(r, x) : \A f \in Insert(r, x) : e.id = f.id => e = f
            /\ Insert(r, x) \subseteq r \cup {x}
        BY <3>1, <3>4, <4>1, <4>3, InsertUnique
      <4> QED
        BY <4>1, <4>2, <4>4
    <3>6. UniqueEntries'
      BY <3>5 DEF PlaceInv, UniqueEntries
    <3>7. \A i \in Nodes : \A k \in MsgIds :
            k \in QueueIds(i)' => k \in QueueIds(i) \/ (i = n /\ k = m)
      BY <3>1, <3>5 DEF QueueIds
    <3>8. OnePlace'
      BY <2>1, <2>2, <3>3, <3>7 DEF PlaceInv, OnePlace
    <3> QED
      BY <1>1, <3>6, <3>8 DEF PlaceInv
  <2> QED
    BY <1>1, <2>4, <2>5 DEF TypeOK
<1>7. ASSUME NEW n \in Nodes, PopFront(n) PROVE PlaceInv'
  <2>1. UNCHANGED <<received, temp>>
    BY <1>7 DEF PopFront
  <2>2. PICK e \in queue[n] : /\ queue' = [queue EXCEPT ![n] = @ \ {e}]
                              /\ consumed' = [consumed EXCEPT ![n] = @ \cup {e.id}]
    BY <1>7 DEF PopFront
  <2>3. /\ \A i \in Nodes : queue'[i] \subseteq queue[i]
        /\ \A i \in Nodes : \A k \in consumed'[i] : k \in consumed[i] \/ (i = n /\ k = e.id)
        /\ queue'[n] = queue[n] \ {e}
    BY <1>1, <2>2 DEF TypeOK
  <2>4. UniqueEntries'
    BY <2>3 DEF PlaceInv, UniqueEntries
  <2>5. \A i \in Nodes : QueueIds(i)' \subseteq QueueIds(i)
    BY <2>3 DEF QueueIds
  <2>6. e.id \notin QueueIds(n)' /\ e.id \in QueueIds(n)
    BY <2>3 DEF QueueIds, PlaceInv, UniqueEntries
  <2>7. OnePlace'
    BY <2>1, <2>3, <2>5, <2>6 DEF PlaceInv, OnePlace
  <2> QED
    BY <1>1, <2>4, <2>7 DEF PlaceInv
<1>8. ASSUME NEW n \in Nodes, NEW p \in Nodes, ReplicateBuffer(n, p) PROVE PlaceInv'
  BY <1>8 DEF ReplicateBuffer
<1>9. ASSUME NEW n \in Nodes, JoinReplNetwork(n) PROVE PlaceInv'
  BY <1>1, <1>9 DEF JoinReplNetwork, TypeOK
<1>10. ASSUME NEW n \in Nodes, LeaveReplNetwork(n) PROVE PlaceInv'
  BY <1>1, <1>10, PlaceFrame DEF LeaveReplNetwork
<1>11. ASSUME NEW n \in Nodes, NEW p \in Nodes, PeerSubscribed(n, p) PROVE PlaceInv'
  BY <1>1, <1>11, PlaceFrame DEF PeerSubscribed
<1>12. ASSUME NEW n \in Nodes, NEW p \in Nodes, PeerUnsubscribed(n, p) PROVE PlaceInv'
  BY <1>1, <1>12, PlaceFrame DEF PeerUnsubscribed
<1>13. ASSUME NEW m \in MsgIds, Expire(m) PROVE PlaceInv'
  BY <1>1, <1>13, PlaceFrame DEF Expire
<1>14. CASE UNCHANGED vars
  BY <1>1, <1>14, PlaceFrame DEF vars
<1> QED
  BY <1>2, <1>3, <1>4, <1>5, <1>6, <1>7, <1>8, <1>9, <1>10, <1>11, <1>12, <1>13, <1>14
     DEF Next, Deliver, Application, Gossip

(***************************************************************************)
(* With membership fixed and no buffer cloned, what an application has     *)
(* popped is in neither buffer of its node again (pop_front,               *)
(* handle_data_confirmation).                                              *)
(***************************************************************************)
THEOREM DeliveredOnceTheorem ==
  ASSUME MaxChurn = 0, ~Cloning
  PROVE  Spec => []DeliveredOnce
<1>1. PlaceInv => DeliveredOnce
  BY DEF PlaceInv, OnePlace, DeliveredOnce, QuorumInv, RealInv, TypeOK
<1>2. PlaceInv /\ [Next]_vars => PlaceInv'
  BY PlaceStep
<1> QED
  BY <1>1, <1>2, PlaceInit, PTL DEF Spec

-----------------------------------------------------------------------------
(* The refinement *)

LEMMA StatusValues ==
  ASSUME NEW n, NEW m
  PROVE  /\ Status(n, m) = "released" <=> m \in QueueIds(n)
         /\ Status(n, m) = "held" <=> m \notin QueueIds(n) /\ temp[n][m] > 0
         /\ Status(n, m) \in {"absent", "held", "released", "gone"}
BY DEF Status

\* A step of node n in which m gets status s and others are at most given up.
LEMMA NodeStep ==
  ASSUME NEW n \in Nodes, NEW m \in MsgIds, NEW s,
         \A i \in Nodes \ {n} : \A k \in MsgIds : Status(i, k)' = Status(i, k),
         Status(n, m)' = s,
         \A k \in MsgIds \ {m} :
           \/ Status(n, k)' = Status(n, k)
           \/ Status(n, k) \in {"held", "released"} /\ Status(n, k)' = "gone"
  PROVE  \E given \in SUBSET Promise!Present(n) : Promise!Become(n, m, s, given)
<1> DEFINE given == {k \in MsgIds \ {m} : Status(n, k) \in {"held", "released"}
                                           /\ Status(n, k)' = "gone"}
           new(k) == IF k = m THEN s ELSE IF k \in given THEN "gone" ELSE Status(n, k)
<1>1. given \in SUBSET Promise!Present(n)
  BY DEF Promise!Present, StatusMap
<1>2. \A k \in MsgIds : Status(n, k)' = new(k)
  OBVIOUS
<1>3. Promise!Become(n, m, s, given)
  <2> HIDE DEF given
  <2>1. StatusMap' = [i \in Nodes |-> IF i = n THEN [k \in MsgIds |-> new(k)] ELSE StatusMap[i]]
    BY <1>2 DEF StatusMap
  <2>2. StatusMap[n] = [k \in MsgIds |-> Status(n, k)]
    BY DEF StatusMap
  <2>3. [k \in MsgIds |-> new(k)] =
          [k \in MsgIds |-> IF k = m THEN s ELSE IF k \in given THEN "gone" ELSE StatusMap[n][k]]
    BY <2>2
  <2>4. StatusMap = [i \in Nodes |-> StatusMap[i]]
    BY DEF StatusMap
  <2> QED
    BY <2>1, <2>3, <2>4 DEF Promise!Become
<1> QED
  BY <1>1, <1>3

LEMMA ReachedReceivers ==
  ASSUME PlaceInv, NEW m \in MsgIds
  PROVE  Promise!Reached(m) = Receivers(m)
<1>1. \A n \in Nodes : Status(n, m) # "absent" <=> m \in received[n]
  BY DEF Status, PlaceInv, OnePlace, QuorumInv, RealInv, TempReceived, TypeOK
<1> QED
  BY <1>1 DEF Promise!Reached, Receivers, StatusMap

\* A step that only takes messages out of the buffers of n.
LEMMA DiscardStep ==
  ASSUME PlaceInv, PlaceInv', NEW n \in Nodes,
         UNCHANGED received,
         \A i \in Nodes \ {n} : queue'[i] = queue[i] /\ temp'[i] = temp[i],
         QueueIds(n)' \subseteq QueueIds(n),
         \A m \in MsgIds : temp'[n][m] > 0 <=> temp[n][m] > 0
  PROVE  Promise!Next \/ UNCHANGED StatusMap
<1>1. \A i \in Nodes \ {n} : \A k \in MsgIds : Status(i, k)' = Status(i, k)
  BY DEF Status, QueueIds
<1>2. \A k \in MsgIds : temp[n][k] \in Nat /\ temp'[n][k] \in Nat
  BY DEF PlaceInv, QuorumInv, RealInv, TypeOK
<1>3. \A k \in MsgIds :
        \/ Status(n, k)' = Status(n, k)
        \/ Status(n, k) \in {"held", "released"} /\ Status(n, k)' = "gone"
  BY <1>2 DEF Status, PlaceInv, OnePlace
<1>4. CASE \A k \in MsgIds : Status(n, k)' = Status(n, k)
  BY <1>1, <1>4 DEF StatusMap
<1>5. ASSUME NEW m \in MsgIds, Status(n, m)' # Status(n, m)
      PROVE  Promise!Next
  <2>1. Status(n, m) \in {"held", "released"} /\ Status(n, m)' = "gone"
    BY <1>3, <1>5
  <2>2. \E given \in SUBSET Promise!Present(n) : Promise!Become(n, m, "gone", given)
    BY <1>1, <1>3, <2>1, NodeStep
  <2>3. Promise!GiveUp(n, m)
    BY <2>1, <2>2 DEF Promise!GiveUp, StatusMap
  <2> QED
    BY <2>3 DEF Promise!Next
<1> QED
  BY <1>4, <1>5

LEMMA PromiseInit == Init => Promise!Init
<1> SUFFICES ASSUME Init PROVE Promise!Init
  OBVIOUS
<1>1. \A n \in Nodes : \A m \in MsgIds : Status(n, m) = "absent"
  BY DEF Init, Status, QueueIds
<1> QED
  BY <1>1 DEF Promise!Init, StatusMap

LEMMA PromiseStep ==
  ASSUME MaxChurn = 0, ~Cloning, PlaceInv, PlaceInv', [Next]_vars
  PROVE  Promise!Next \/ UNCHANGED StatusMap
<1> USE DEF buffers, tasks, network
<1>1. TypeOK /\ TypeOK'
  BY DEF PlaceInv, QuorumInv, RealInv
<1>2. CASE UNCHANGED <<queue, temp, received>>
  BY <1>2 DEF StatusMap, Status, QueueIds
<1>3. ASSUME NEW n \in Nodes, NEW m \in MsgIds, HandleIncomingReplData(n, m)
      PROVE  Promise!Next
  <2> DEFINE x == [id |-> m, confirmations |-> 1]
  <2>1. x \in Entry /\ x.id = m
    BY DEF Entry
  <2> HIDE DEF x
  <2>2. /\ m \notin QueueIds(n) /\ temp[n][m] = 0 /\ m \notin received[n]
        /\ received' = [received EXCEPT ![n] = @ \cup {m}]
        /\ \A i \in Nodes \ {n} : temp'[i] = temp[i] /\ queue'[i] = queue[i]
        /\ \A k \in MsgIds \ {m} : temp'[n][k] \in {0, temp[n][k]}
        /\ \/ /\ queue'[n] = queue[n] /\ temp'[n][m] = 1
           \/ /\ queue'[n] = Insert(queue[n], x)
              /\ temp'[n][m] = 0
    BY <1>3, ReceiveEffect DEF x
  <2>3. Insert(queue[n], x) = queue[n] \cup {x}
    BY <2>1, <2>2 DEF Insert, QueueIds
  <2>4. \A i \in Nodes \ {n} : \A k \in MsgIds : Status(i, k)' = Status(i, k)
    BY <1>1, <2>2 DEF Status, QueueIds, TypeOK
  <2>5. \A k \in MsgIds \ {m} : (k \in QueueIds(n)' <=> k \in QueueIds(n))
                                 /\ (k \in received'[n] <=> k \in received[n])
    BY <1>1, <2>1, <2>2, <2>3 DEF QueueIds, TypeOK
  <2>6. \A k \in MsgIds \ {m} :
          \/ Status(n, k)' = Status(n, k)
          \/ Status(n, k) \in {"held", "released"} /\ Status(n, k)' = "gone"
    <3> SUFFICES ASSUME NEW k \in MsgIds \ {m}
                 PROVE  \/ Status(n, k)' = Status(n, k)
                        \/ Status(n, k) \in {"held", "released"} /\ Status(n, k)' = "gone"
      OBVIOUS
    <3>1. temp[n][k] \in Nat /\ temp'[n][k] \in {0, temp[n][k]}
      BY <1>1, <2>2 DEF TypeOK
    <3>2. temp[n][k] > 0 => k \in received[n]
      BY DEF PlaceInv, QuorumInv, RealInv, TempReceived
    <3> QED
      BY <2>5, <3>1, <3>2 DEF Status
  <2>7. Status(n, m) = "absent"
    BY <2>2 DEF Status
  <2>8. CASE queue'[n] = queue[n] /\ temp'[n][m] = 1
    <3>1. Status(n, m)' = "held"
      BY <2>2, <2>8 DEF Status, QueueIds
    <3>2. \E given \in SUBSET Promise!Present(n) : Promise!Become(n, m, "held", given)
      BY <2>4, <2>6, <3>1, NodeStep
    <3>3. Promise!Receive(n, m)
      BY <2>7, <3>2 DEF Promise!Receive, StatusMap
    <3> QED
      BY <3>3 DEF Promise!Next
  <2>9. CASE queue'[n] = Insert(queue[n], x) /\ temp'[n][m] = 0
    <3>1. m \in QueueIds(n)'
      BY <2>1, <2>3, <2>9 DEF QueueIds
    <3>2. Status(n, m)' = "released"
      BY <3>1 DEF Status
    <3>3. \E given \in SUBSET Promise!Present(n) : Promise!Become(n, m, "released", given)
      BY <2>4, <2>6, <3>2, NodeStep
    <3>4. Promise!Reached(m) \cup {n} = Receivers(m)'
      <4>1. Promise!Reached(m) = Receivers(m)
        BY ReachedReceivers
      <4>2. Receivers(m)' = Receivers(m) \cup {n}
        BY <1>1, <2>2 DEF Receivers, TypeOK
      <4> QED
        BY <4>1, <4>2
    <3>5. Cardinality(Receivers(m)') >= Quorum
      <4>1. QuorumHolds'
        BY DEF PlaceInv, QuorumInv
      <4> QED
        BY <3>1, <4>1 DEF QuorumHolds, Released, Quorum
    <3>6. Promise!ReceiveAndRelease(n, m)
      <4>1. StatusMap[n][m] = "absent"
        BY <2>7 DEF StatusMap
      <4>2. Promise!Reached(m) \cup {n} \in Quorums
        BY <3>4, <3>5 DEF Quorums, Receivers
      <4> QED
        BY <3>3, <4>1, <4>2 DEF Promise!ReceiveAndRelease
    <3> QED
      BY <3>6 DEF Promise!Next
  <2> QED
    BY <2>2, <2>8, <2>9
<1>4. ASSUME NEW n \in Nodes, NEW m \in MsgIds, NEW p \in Nodes, UpdateConfirmation(n, m, p)
      PROVE  Promise!Next \/ UNCHANGED StatusMap
  <2> DEFINE c == Counted(temp[n][m], required[n][m][p])
  <2>1. temp' = [temp EXCEPT ![n][m] = c] /\ UNCHANGED <<queue, received>>
    BY <1>4 DEF UpdateConfirmation
  <2>2. c > 0 <=> temp[n][m] > 0
    BY <1>1 DEF Counted, TypeOK
  <2> HIDE DEF c
  <2>3. \A k \in MsgIds : temp'[n][k] = IF k = m THEN c ELSE temp[n][k]
    BY <1>1, <2>1 DEF TypeOK
  <2>4. \A i \in Nodes \ {n} : queue'[i] = queue[i] /\ temp'[i] = temp[i]
    BY <1>1, <2>1 DEF TypeOK
  <2>5. QueueIds(n)' \subseteq QueueIds(n)
    BY <2>1 DEF QueueIds
  <2> QED
    BY <2>1, <2>2, <2>3, <2>4, <2>5, DiscardStep
<1>5. ASSUME NEW n \in Nodes, NEW m \in MsgIds, NEW p \in Nodes, MoveToPublicQueue(n, m, p)
      PROVE  Promise!Next \/ UNCHANGED StatusMap
  <2>1. /\ UNCHANGED received
        /\ task[n][m][p] = "move"
        /\ temp' = [temp EXCEPT ![n][m] = 0]
        /\ queue' = [queue EXCEPT ![n] = Moved(@, m, temp[n][m])]
    BY <1>5 DEF MoveToPublicQueue
  <2>2. /\ \A k \in MsgIds : temp'[n][k] = IF k = m THEN 0 ELSE temp[n][k]
        /\ \A i \in Nodes \ {n} : queue'[i] = queue[i] /\ temp'[i] = temp[i]
        /\ queue'[n] = Moved(queue[n], m, temp[n][m])
    BY <1>1, <2>1 DEF TypeOK
  <2>3. Cleanup(queue[n]) \subseteq queue[n]
    <3>1. queue[n] \in SUBSET Entry
      BY <1>1 DEF TypeOK
    <3> QED
      BY <3>1, CleanupSubset
  <2>4. CASE temp[n][m] = 0
    <3>1. queue'[n] \subseteq queue[n]
      BY <2>2, <2>3, <2>4 DEF Moved
    <3>2. QueueIds(n)' \subseteq QueueIds(n)
      BY <3>1 DEF QueueIds
    <3>3. \A k \in MsgIds : temp'[n][k] > 0 <=> temp[n][k] > 0
      BY <2>2, <2>4
    <3> QED
      BY <2>1, <2>2, <3>2, <3>3, DiscardStep
  <2>5. CASE temp[n][m] > 0
    <3> DEFINE x == [id |-> m, confirmations |-> temp[n][m]]
    <3>1. x.id = m /\ queue'[n] = Insert(Cleanup(queue[n]), x)
      BY <2>2, <2>5 DEF Moved
    <3> HIDE DEF x
    <3>2. m \notin QueueIds(n) /\ m \in received[n]
      BY <2>5 DEF PlaceInv, OnePlace, QuorumInv, RealInv, TempReceived
    <3>3. queue'[n] = Cleanup(queue[n]) \cup {x}
      BY <2>3, <3>1, <3>2 DEF Insert, QueueIds
    <3>4. m \in QueueIds(n)' /\ \A k \in MsgIds \ {m} : k \in QueueIds(n)' => k \in QueueIds(n)
      BY <2>3, <3>1, <3>3 DEF QueueIds
    <3>5. Status(n, m) = "held" /\ Status(n, m)' = "released"
      BY <2>5, <3>2, <3>4 DEF Status
    <3>6. \A i \in Nodes \ {n} : \A k \in MsgIds : Status(i, k)' = Status(i, k)
      BY <2>1, <2>2 DEF Status, QueueIds
    <3>7. \A k \in MsgIds \ {m} :
            \/ Status(n, k)' = Status(n, k)
            \/ Status(n, k) \in {"held", "released"} /\ Status(n, k)' = "gone"
      <4> SUFFICES ASSUME NEW k \in MsgIds \ {m}
                   PROVE  \/ Status(n, k)' = Status(n, k)
                          \/ Status(n, k) \in {"held", "released"} /\ Status(n, k)' = "gone"
        OBVIOUS
      <4>1. temp[n][k] \in Nat /\ temp'[n][k] = temp[n][k]
        BY <1>1, <2>2 DEF TypeOK
      <4>2. k \in QueueIds(n) => k \in received[n] /\ temp[n][k] = 0
        BY DEF PlaceInv, OnePlace
      <4> QED
        BY <2>1, <3>4, <4>1, <4>2 DEF Status
    <3>8. \E given \in SUBSET Promise!Present(n) : Promise!Become(n, m, "released", given)
      BY <3>5, <3>6, <3>7, NodeStep
    <3>9. Promise!Reached(m) \in Quorums
      <4>1. Promise!Reached(m) = Receivers(m)
        BY ReachedReceivers
      <4>2. Cardinality(Receivers(m)) >= Quorum
        BY <2>1 DEF PlaceInv, QuorumInv, MoveBacked
      <4> QED
        BY <4>1, <4>2 DEF Quorums, Receivers
    <3>10. Promise!Release(n, m)
      <4>1. StatusMap[n][m] = "held"
        BY <3>5 DEF StatusMap
      <4> QED
        BY <3>8, <3>9, <4>1 DEF Promise!Release
    <3> QED
      BY <3>10 DEF Promise!Next
  <2> QED
    BY <1>1, <2>4, <2>5 DEF TypeOK
<1>6. ASSUME NEW n \in Nodes, PopFront(n) PROVE Promise!Next \/ UNCHANGED StatusMap
  <2>1. UNCHANGED <<received, temp>>
    BY <1>6 DEF PopFront
  <2>2. \A i \in Nodes \ {n} : queue'[i] = queue[i]
    BY <1>1, <1>6 DEF PopFront, TypeOK
  <2>3. queue'[n] \subseteq queue[n]
    BY <1>1, <1>6 DEF PopFront, TypeOK
  <2>4. QueueIds(n)' \subseteq QueueIds(n)
    BY <2>3 DEF QueueIds
  <2> QED
    BY <2>1, <2>2, <2>4, DiscardStep
<1> QED
  <2>1. CASE \E n \in Nodes : \E m \in MsgIds : HandleIncomingReplData(n, m)
    BY <1>3, <2>1
  <2>2. CASE \E n \in Nodes : \E m \in MsgIds : \E p \in Nodes : UpdateConfirmation(n, m, p)
    BY <1>4, <2>2
  <2>3. CASE \E n \in Nodes : \E m \in MsgIds : \E p \in Nodes : MoveToPublicQueue(n, m, p)
    BY <1>5, <2>3
  <2>4. CASE \E n \in Nodes : PopFront(n)
    BY <1>6, <2>4
  <2>5. CASE \E n \in Nodes : JoinReplNetwork(n)
    BY <1>1, <2>5 DEF JoinReplNetwork, TypeOK
  <2>6. CASE \/ \E n \in Nodes : \/ \E m \in MsgIds : Replicate(n, m)
                                 \/ LeaveReplNetwork(n)
                                 \/ Gossip(n)
             \/ \E n \in Nodes : \E p \in Nodes : ReplicateBuffer(n, p)
             \/ \E n \in Nodes : \E m \in MsgIds : \E p \in Nodes :
                  HandleDataConfirmation(n, m, p)
             \/ \E m \in MsgIds : Expire(m)
             \/ UNCHANGED vars
    <3>1. UNCHANGED <<queue, temp, received>>
      BY <2>6 DEF Replicate, LeaveReplNetwork, Gossip, PeerSubscribed, PeerUnsubscribed,
                  ReplicateBuffer, HandleDataConfirmation, Expire, vars
    <3> QED
      BY <1>2, <3>1
  <2> QED
    BY <2>1, <2>2, <2>3, <2>4, <2>5, <2>6 DEF Next, Deliver, Application

(***************************************************************************)
(* With membership fixed and no buffer cloned, the buffers and the tasks   *)
(* of replication.rs implement StrongReplication.                          *)
(***************************************************************************)
THEOREM PromiseTheorem ==
  ASSUME MaxChurn = 0, ~Cloning
  PROVE  Spec => PromiseSpec
<1>1. PlaceInv /\ [Next]_vars => PlaceInv'
  BY PlaceStep
<1>2. PlaceInv /\ PlaceInv' /\ [Next]_vars
        => [Promise!Next]_StatusMap
  BY PromiseStep
<1> QED
  BY <1>1, <1>2, PlaceInit, PromiseInit, PTL DEF Spec, PromiseSpec, Promise!Spec

-----------------------------------------------------------------------------
(* The bound of the public buffer *)

USE NodesAssumption, MsgIdsAssumption, SourceAssumption, ConsensusAssumption,
    CapacityAssumption, SwitchesAssumption, BoundsAssumption

\* The entries of u that pop_front() would take after e.
After(u, e) == {x \in u : Before(e.id, x.id)}

\* Of two entries of a buffer, one is popped first and has more after it.
LEMMA FewerAfter ==
  ASSUME TypeOK, NEW u \in SUBSET Entry, IsFiniteSet(u),
         NEW e \in u, NEW f \in u, Before(e.id, f.id)
  PROVE  Cardinality(After(u, f)) < Cardinality(After(u, e))
<1>1. /\ After(u, f) \subseteq After(u, e)
      /\ f \in After(u, e) /\ f \notin After(u, f)
  <2>1. \A x \in u : x.id \in Nat /\ clock[x.id] \in Nat
    BY DEF Entry, TypeOK
  <2> QED
    BY <2>1 DEF After, Before
<1>2. IsFiniteSet(After(u, e)) /\ IsFiniteSet(After(u, f))
  BY FS_Subset DEF After
<1>3. /\ Cardinality(After(u, f)) <= Cardinality(After(u, e))
      /\ Cardinality(After(u, f)) # Cardinality(After(u, e))
  BY <1>1, <1>2, FS_Subset
<1> QED
  BY <1>2, <1>3, FS_CardinalityType

\* The loop that makes room leaves fewer than queue_length entries.
LEMMA CleanupBound ==
  ASSUME TypeOK, NEW q \in SUBSET Entry, IsFiniteSet(q),
         \A e \in q : \A f \in q : e.id = f.id => e = f
  PROVE  /\ IsFiniteSet(Cleanup(q))
         /\ Cardinality(Cleanup(q)) <= QueueLength - 1
<1> DEFINE u == Unexpired(q)
           kept == Cleanup(q)
           rank == [e \in kept |-> Cardinality(After(u, e))]
           ranks == 0 .. (QueueLength - 2)
<1>1. u \subseteq q
  BY DEF Unexpired
<1>2. kept = {e \in u : Cardinality(After(u, e)) < QueueLength - 1}
  BY DEF Cleanup, After
<1>3. IsFiniteSet(u) /\ IsFiniteSet(kept)
  <2> HIDE DEF u, kept
  <2> QED
    BY <1>1, <1>2, FS_Subset
<1> HIDE DEF u, kept
<1>4. ASSUME NEW e \in kept PROVE Cardinality(After(u, e)) \in ranks
  <2>1. IsFiniteSet(After(u, e))
    BY <1>3, FS_Subset DEF After
  <2>2. Cardinality(After(u, e)) \in Nat /\ Cardinality(After(u, e)) < QueueLength - 1
    BY <1>2, <1>4, <2>1, FS_CardinalityType
  <2> QED
    BY <2>2
<1>5. rank \in [kept -> ranks]
  BY <1>4
<1>6. ASSUME NEW e \in kept, NEW f \in kept, rank[e] = rank[f] PROVE e = f
  <2>1. e \in u /\ f \in u /\ u \in SUBSET Entry
    BY <1>1, <1>2
  <2>2. Cardinality(After(u, e)) = Cardinality(After(u, f)) /\ Cardinality(After(u, e)) \in Int
    BY <1>4, <1>6
  <2>3. ~Before(e.id, f.id) /\ ~Before(f.id, e.id)
    BY <1>3, <1>4, <2>1, <2>2, FewerAfter
  <2>4. e.id \in Nat /\ f.id \in Nat /\ clock[e.id] \in Nat /\ clock[f.id] \in Nat
    BY <2>1 DEF Entry, TypeOK
  <2>5. e.id = f.id
    BY <2>3, <2>4 DEF Before
  <2> QED
    BY <1>1, <2>1, <2>5
<1>7. rank \in Injection(kept, ranks)
  BY <1>5, <1>6 DEF Injection, IsInjective
<1>8. IsFiniteSet(ranks) /\ Cardinality(ranks) = QueueLength - 1
  <2>1. 0 \in Int /\ QueueLength - 2 \in Int /\ QueueLength >= 1
    OBVIOUS
  <2>2. Cardinality(ranks) = IF 0 > QueueLength - 2 THEN 0 ELSE (QueueLength - 2) - 0 + 1
    BY <2>1, FS_Interval
  <2> QED
    BY <2>1, <2>2, FS_Interval
<1>9. Cardinality(kept) <= Cardinality(ranks)
  <2> HIDE DEF rank, ranks
  <2> QED
    BY <1>7, <1>8, FS_Injection
<1> QED
  BY <1>3, <1>8, <1>9 DEF kept

\* An entry more fills the room that has been made.
LEMMA MovedBound ==
  ASSUME TypeOK, NEW q \in SUBSET Entry, IsFiniteSet(q),
         \A e \in q : \A f \in q : e.id = f.id => e = f,
         NEW m \in MsgIds, NEW count \in Nat
  PROVE  /\ IsFiniteSet(Moved(q, m, count))
         /\ Cardinality(Moved(q, m, count)) <= QueueLength
<1> DEFINE kept == Cleanup(q)
           x == [id |-> m, confirmations |-> count]
<1>1. IsFiniteSet(kept) /\ Cardinality(kept) <= QueueLength - 1 /\ Cardinality(kept) \in Nat
  BY CleanupBound, FS_CardinalityType
<1>2. Moved(q, m, count) \in {kept, kept \cup {x}}
  BY DEF Moved, Insert
<1> HIDE DEF kept, x
<1>3. /\ IsFiniteSet(kept \cup {x})
      /\ Cardinality(kept \cup {x}) <= Cardinality(kept) + 1
  <2>1. /\ IsFiniteSet(kept \cup {x})
        /\ Cardinality(kept \cup {x}) =
             IF x \in kept THEN Cardinality(kept) ELSE Cardinality(kept) + 1
    BY <1>1, FS_AddElement
  <2> QED
    BY <1>1, <2>1
<1>4. Cardinality(kept \cup {x}) \in Nat
  BY <1>3, FS_CardinalityType
<1> QED
  BY <1>1, <1>2, <1>3, <1>4

(***************************************************************************)
(* No receiver releases data on arrival: in a network of three and more    *)
(* whose members all know each other push() inserts into the public buffer *)
(* only under MinPeers(1), and then without making room for it.            *)
(***************************************************************************)
ReceiversWait == Cardinality(Nodes) >= 3 /\ (ConsensusAll \/ MinPeers # 1)

BoundInv ==
  /\ PlaceInv
  /\ \A n \in Nodes : IsFiniteSet(queue[n]) /\ Cardinality(queue[n]) <= QueueLength

LEMMA NoDirectPush ==
  ASSUME QuorumInv, ReceiversWait,
         NEW n \in Nodes, NEW m \in MsgIds, HandleIncomingReplData(n, m)
  PROVE  /\ UNCHANGED queue
         /\ \A i \in Nodes \ {n} : temp'[i] = temp[i]
         /\ \A k \in MsgIds \ {m} : temp'[n][k] \in {0, temp[n][k]}
         /\ temp'[n][m] = 1
<1>1. PICK count \in ReplicaPeers(n) : PushDirect(n, m, count) \/ PushTemporary(n, m, count)
  BY DEF HandleIncomingReplData
<1>2. count \in {0, Cardinality(Nodes) - 1}
  BY <1>1, FullViewSize DEF ReplicaPeers, QuorumInv
<1>3. Cardinality(Nodes) \in Nat
  BY FS_CardinalityType
<1>4. PushTemporary(n, m, count)
  BY <1>1, <1>2, <1>3 DEF PushDirect, ReceiversWait
<1> QED
  BY <1>4 DEF PushTemporary, InitialConfirmations, QuorumInv, RealInv, TypeOK

LEMMA BoundStep ==
  ASSUME MaxChurn = 0, ~Cloning, ReceiversWait
  PROVE  BoundInv /\ [Next]_vars => BoundInv'
<1> SUFFICES ASSUME BoundInv, [Next]_vars PROVE BoundInv'
  OBVIOUS
<1> USE DEF buffers, tasks, network
<1>1. PlaceInv /\ PlaceInv' /\ TypeOK
  BY PlaceStep DEF BoundInv, PlaceInv, QuorumInv, RealInv
<1>2. CASE UNCHANGED queue
  BY <1>1, <1>2 DEF BoundInv
<1>3. ASSUME NEW n \in Nodes, NEW m \in MsgIds, HandleIncomingReplData(n, m) PROVE UNCHANGED queue
  BY <1>1, <1>3, NoDirectPush DEF PlaceInv
<1>4. ASSUME NEW n \in Nodes, NEW m \in MsgIds, NEW p \in Nodes, MoveToPublicQueue(n, m, p)
      PROVE  BoundInv'
  <2>1. \A i \in Nodes : queue'[i] = IF i = n THEN Moved(queue[n], m, temp[n][m]) ELSE queue[i]
    BY <1>1, <1>4 DEF MoveToPublicQueue, TypeOK
  <2>2. /\ queue[n] \in SUBSET Entry /\ IsFiniteSet(queue[n]) /\ temp[n][m] \in Nat
        /\ \A e \in queue[n] : \A f \in queue[n] : e.id = f.id => e = f
    BY <1>1 DEF BoundInv, PlaceInv, UniqueEntries, TypeOK
  <2>3. /\ IsFiniteSet(Moved(queue[n], m, temp[n][m]))
        /\ Cardinality(Moved(queue[n], m, temp[n][m])) <= QueueLength
    BY <1>1, <2>2, MovedBound
  <2> QED
    BY <1>1, <2>1, <2>3 DEF BoundInv
<1>5. ASSUME NEW n \in Nodes, PopFront(n) PROVE BoundInv'
  <2>1. \A i \in Nodes : queue'[i] \subseteq queue[i]
    BY <1>1, <1>5 DEF PopFront, TypeOK
  <2>2. ASSUME NEW i \in Nodes PROVE IsFiniteSet(queue'[i]) /\ Cardinality(queue'[i]) <= QueueLength
    <3> DEFINE q == queue[i]
               r == queue'[i]
    <3>1. IsFiniteSet(q) /\ Cardinality(q) <= QueueLength /\ r \in SUBSET q
      BY <2>1 DEF BoundInv
    <3> HIDE DEF q, r
    <3>2. IsFiniteSet(r) /\ Cardinality(r) <= Cardinality(q)
      BY <3>1, FS_Subset
    <3>3. Cardinality(r) \in Nat /\ Cardinality(q) \in Nat
      BY <3>1, <3>2, FS_CardinalityType
    <3> QED
      BY <3>1, <3>2, <3>3 DEF r
  <2> QED
    BY <1>1, <2>2 DEF BoundInv
<1> QED
  <2>1. CASE \E n \in Nodes : \E m \in MsgIds : HandleIncomingReplData(n, m)
    BY <1>2, <1>3, <2>1
  <2>2. CASE \E n \in Nodes : \E m \in MsgIds : \E p \in Nodes : MoveToPublicQueue(n, m, p)
    BY <1>4, <2>2
  <2>3. CASE \E n \in Nodes : PopFront(n)
    BY <1>5, <2>3
  <2>4. CASE \/ \E n \in Nodes : \/ \E m \in MsgIds : Replicate(n, m)
                                 \/ JoinReplNetwork(n)
                                 \/ LeaveReplNetwork(n)
                                 \/ Gossip(n)
             \/ \E n \in Nodes : \E p \in Nodes : ReplicateBuffer(n, p)
             \/ \E n \in Nodes : \E m \in MsgIds : \E p \in Nodes :
                  HandleDataConfirmation(n, m, p) \/ UpdateConfirmation(n, m, p)
             \/ \E m \in MsgIds : Expire(m)
             \/ UNCHANGED vars
    <3>1. UNCHANGED queue
      BY <1>1, <2>4 DEF Replicate, JoinReplNetwork, LeaveReplNetwork, Gossip, PeerSubscribed,
         PeerUnsubscribed, ReplicateBuffer, HandleDataConfirmation, UpdateConfirmation, Expire,
         vars, TypeOK
    <3> QED
      BY <1>2, <3>1
  <2> QED
    BY <2>1, <2>2, <2>3, <2>4 DEF Next, Deliver, Application

(***************************************************************************)
(* With membership fixed and no buffer cloned, where receivers wait for    *)
(* confirmations the public buffer never grows beyond queue_length,        *)
(* whichever tasks find the same entry confirmed, and whatever expires     *)
(* (handle_data_confirmation, the removal of expired and of the oldest     *)
(* entries).                                                               *)
(***************************************************************************)
THEOREM QueueBoundedTheorem ==
  ASSUME MaxChurn = 0, ~Cloning, ReceiversWait
  PROVE  Spec => []QueueBounded
<1>1. Init => BoundInv
  BY PlaceInit, FS_EmptySet DEF Init, BoundInv
<1>2. BoundInv /\ [Next]_vars => BoundInv'
  BY BoundStep
<1>3. BoundInv => QueueBounded
  BY DEF BoundInv, QueueBounded
<1> QED
  BY <1>1, <1>2, <1>3, PTL DEF Spec

-----------------------------------------------------------------------------
(* What may leave the public buffer *)

\* Every replica but the publisher must have confirmed.
AllConfirm ==
  Cardinality(Nodes) >= 3 /\ (ConsensusAll \/ MinPeers >= Cardinality(Nodes) - 1)

\* The temporary buffer has room for data that is still under way.
RoomForData ==
  \A n \in Nodes : \A m \in MsgIds :
    (clock[m] # 0 /\ n # Source[m] /\ m \notin received[n])
      => Cardinality(TempIds(n)) < MaxCapacity

(***************************************************************************)
(* A task that is about to move an entry makes room for it first.  It does *)
(* not do so in vain because the entry is still there, and that because    *)
(* every other confirmation that n will ever count for it has been         *)
(* counted, by a task that has ended.                                      *)
(***************************************************************************)
NeverSource == \A m \in MsgIds : m \notin received[Source[m]]

MoveAlone ==
  \A n \in Nodes : \A m \in MsgIds : \A p \in Nodes :
    task[n][m][p] = "move" =>
      /\ temp[n][m] > 0
      /\ \A i \in Nodes \ {n, Source[m], p} : task[n][m][i] = "done"

AloneInv ==
  /\ PlaceInv
  /\ NeverSource
  /\ MoveAlone

\* The peers whose confirmation of m may be counted at n.
Confirmers(n, m) == Nodes \ {n, Source[m]}

LEMMA ConfirmersSize ==
  ASSUME NEW n \in Nodes, NEW m \in MsgIds, n # Source[m]
  PROVE  Cardinality(Confirmers(n, m)) = Cardinality(Nodes) - 2
<1>1. Source[m] \in Nodes /\ Confirmers(n, m) = (Nodes \ {n}) \ {Source[m]}
  BY DEF Confirmers
<1>2. IsFiniteSet(Nodes \ {n}) /\ Cardinality(Nodes \ {n}) = Cardinality(Nodes) - 1
  BY FS_RemoveElement
<1>3. Cardinality((Nodes \ {n}) \ {Source[m]}) = Cardinality(Nodes \ {n}) - 1
  BY <1>1, <1>2, FS_RemoveElement
<1> QED
  BY <1>1, <1>2, <1>3, QuorumType

LEMMA AppliedAreConfirmers ==
  ASSUME TasksConfirmed, ConfirmedReceived, NeverSource,
         NEW n \in Nodes, NEW m \in MsgIds
  PROVE  /\ \A p \in Nodes : task[n][m][p] # "unseen" => p \in Confirmers(n, m)
         /\ Applied(n, m) \subseteq Confirmers(n, m)
BY DEF TasksConfirmed, ConfirmedReceived, NeverSource, Applied, Confirmers

\* An entry that has all the confirmations the model asks for has everybody's.
LEMMA AllApplied ==
  ASSUME AllConfirm, RealInv, NeverSource,
         NEW n \in Nodes, NEW m \in MsgIds, temp[n][m] >= Quorum, temp[n][m] > 0
  PROVE  Applied(n, m) = Confirmers(n, m)
<1>1. temp[n][m] <= 1 + Cardinality(Applied(n, m)) /\ temp[n][m] \in Nat
  BY DEF RealInv, CountBounded, TypeOK
<1>2. n # Source[m]
  BY DEF RealInv, TempReceived, NeverSource
<1>3. Cardinality(Confirmers(n, m)) = Cardinality(Nodes) - 2
  BY <1>2, ConfirmersSize
<1>4. Quorum >= Cardinality(Nodes) - 1
  BY QuorumType DEF AllConfirm, Quorum
<1>5. Applied(n, m) \in SUBSET Confirmers(n, m)
  BY AppliedAreConfirmers DEF RealInv
<1>6. IsFiniteSet(Confirmers(n, m))
  BY NodeSets DEF Confirmers
<1>7. Cardinality(Applied(n, m)) \in Nat
  BY NodeSets DEF Applied
<1>8. Cardinality(Applied(n, m)) <= Cardinality(Confirmers(n, m))
  BY <1>5, <1>6, FS_Subset
<1>9. Cardinality(Confirmers(n, m)) = Cardinality(Applied(n, m))
  BY <1>1, <1>3, <1>4, <1>7, <1>8, QuorumType
<1> QED
  BY <1>5, <1>6, <1>9, FS_Subset

\* An action after which no task is in "move" that was not, and every entry
\* such a task has found is still there.
LEMMA AloneFrame ==
  ASSUME AloneInv, PlaceInv', UNCHANGED received,
         \A n \in Nodes : \A m \in MsgIds : \A p \in Nodes :
           \/ task'[n][m][p] = task[n][m][p]
           \/ task[n][m][p] # "done" /\ task'[n][m][p] # "move",
         \A n \in Nodes : \A m \in MsgIds : \A p \in Nodes :
           task'[n][m][p] = "move" => temp'[n][m] > 0
  PROVE  AloneInv'
<1>1. NeverSource'
  BY DEF AloneInv, NeverSource
<1>2. MoveAlone'
  BY DEF AloneInv, MoveAlone
<1> QED
  BY <1>1, <1>2 DEF AloneInv

LEMMA AloneStep ==
  ASSUME MaxChurn = 0, ~Cloning, AllConfirm
  PROVE  AloneInv /\ RoomForData /\ [Next]_vars => AloneInv'
<1> SUFFICES ASSUME AloneInv, RoomForData, [Next]_vars PROVE AloneInv'
  OBVIOUS
<1> USE DEF buffers, tasks, network
<1>1. /\ PlaceInv /\ PlaceInv' /\ TypeOK /\ TypeOK'
      /\ NeverSource /\ MoveAlone
      /\ QuorumInv /\ QuorumInv' /\ RealInv /\ RealInv'
  BY PlaceStep DEF AloneInv, PlaceInv, QuorumInv, RealInv
<1>2. \A n \in Nodes : \A m \in MsgIds : \A p \in Nodes :
        task[n][m][p] # "unseen" => p # n /\ p # Source[m]
  BY <1>1, AppliedAreConfirmers DEF RealInv, Confirmers
<1>3. CASE UNCHANGED <<received, task, temp>>
  BY <1>1, <1>3, AloneFrame DEF MoveAlone
<1>4. ASSUME NEW n \in Nodes, NEW m \in MsgIds, HandleIncomingReplData(n, m) PROVE AloneInv'
  <2>1. /\ UNCHANGED task /\ n # Source[m]
        /\ received' = [received EXCEPT ![n] = @ \cup {m}]
        /\ Cardinality(TempIds(n)) < MaxCapacity
    BY <1>4 DEF HandleIncomingReplData, RoomForData
  <2>2. KeptInTemp(n) = TempIds(n)
    <3>1. Cardinality(TempIds(n)) \in Nat
      BY FS_Subset, FS_CardinalityType DEF TempIds
    <3> QED
      BY <2>1, <3>1 DEF KeptInTemp
  <2>3. ReceiversWait
    BY QuorumType DEF AllConfirm, ReceiversWait
  <2>4. \A i \in Nodes \ {n} : temp'[i] = temp[i]
    BY <1>1, <1>4, <2>3, NoDirectPush
  <2>5. \A k \in MsgIds : temp[n][k] > 0 => temp'[n][k] > 0
    <3>1. PICK count \in ReplicaPeers(n) : PushDirect(n, m, count) \/ PushTemporary(n, m, count)
      BY <1>4 DEF HandleIncomingReplData
    <3> QED
      BY <1>1, <2>2, <3>1 DEF PushDirect, PushTemporary, TempIds, InitialConfirmations, TypeOK
  <2>6. MoveAlone'
    BY <1>1, <2>1, <2>4, <2>5 DEF MoveAlone
  <2>7. NeverSource'
    BY <1>1, <2>1 DEF NeverSource, TypeOK
  <2> QED
    BY <1>1, <2>6, <2>7 DEF AloneInv
<1>5. ASSUME NEW n \in Nodes, NEW m \in MsgIds, NEW p \in Nodes, HandleDataConfirmation(n, m, p)
      PROVE  AloneInv'
  <2>1. /\ UNCHANGED <<received, temp>> /\ task[n][m][p] = "unseen"
        /\ task' = [task EXCEPT ![n][m][p] = "apply"]
    BY <1>5 DEF HandleDataConfirmation
  <2>2. \A i \in Nodes : \A k \in MsgIds : \A j \in Nodes :
          task'[i][k][j] = IF i = n /\ k = m /\ j = p THEN "apply" ELSE task[i][k][j]
    BY <1>1, <2>1 DEF TypeOK
  <2> QED
    BY <1>1, <2>1, <2>2, AloneFrame DEF MoveAlone
<1>6. ASSUME NEW n \in Nodes, NEW m \in MsgIds, NEW p \in Nodes, UpdateConfirmation(n, m, p)
      PROVE  AloneInv'
  <2> DEFINE goal == required[n][m][p]
             count == Counted(temp[n][m], goal)
             s == IF FullyConfirmed(count, goal) THEN "move" ELSE "done"
  <2>1. /\ UNCHANGED <<received, required>> /\ task[n][m][p] = "apply"
        /\ temp' = [temp EXCEPT ![n][m] = count]
        /\ task' = [task EXCEPT ![n][m][p] = s]
    BY <1>6 DEF UpdateConfirmation
  <2>2. goal \in Nat /\ count \in Nat /\ (temp[n][m] > 0 => count > 0)
    BY <1>1 DEF TypeOK, Counted
  <2>3. s \in {"move", "done"} /\ (s = "move" => count > 0 /\ goal # 0 /\ count = goal)
    BY DEF FullyConfirmed
  <2>4. goal # 0 => goal >= Quorum
    BY <1>1 DEF QuorumInv, GoalIsQuorum
  <2> HIDE DEF goal, count, s
  <2>5. \A i \in Nodes : \A k \in MsgIds :
          temp'[i][k] = IF i = n /\ k = m THEN count ELSE temp[i][k]
    BY <1>1, <2>1 DEF TypeOK
  <2>6. \A i \in Nodes : \A k \in MsgIds : \A j \in Nodes :
          task'[i][k][j] = IF i = n /\ k = m /\ j = p THEN s ELSE task[i][k][j]
    BY <1>1, <2>1 DEF TypeOK
  <2>7. p # n /\ p # Source[m] /\ \A j \in Nodes : task[n][m][j] # "move"
    BY <1>1, <1>2, <2>1 DEF MoveAlone
  <2>8. NeverSource'
    BY <1>1, <2>1 DEF NeverSource
  <2>9. ASSUME s = "move" PROVE \A i \in Nodes \ {n, Source[m], p} : task[n][m][i] = "done"
    <3>1. temp'[n][m] >= Quorum /\ temp'[n][m] > 0
      BY <2>2, <2>3, <2>4, <2>5, <2>9
    <3>2. (AllConfirm /\ RealInv /\ NeverSource /\ temp[n][m] >= Quorum /\ temp[n][m] > 0
             => Applied(n, m) = Confirmers(n, m))'
      BY AllApplied, PTL
    <3>3. AllConfirm' /\ Quorum' = Quorum
      BY DEF AllConfirm, Quorum
    <3>4. Applied(n, m)' = Confirmers(n, m)'
      BY <1>1, <2>8, <3>1, <3>2, <3>3
    <3> QED
      BY <2>6, <2>7, <3>4 DEF Applied, Confirmers
  <2>10. MoveAlone'
    <3> SUFFICES ASSUME NEW i \in Nodes, NEW k \in MsgIds, NEW j \in Nodes,
                        task'[i][k][j] = "move"
                 PROVE  /\ temp'[i][k] > 0
                        /\ \A l \in Nodes \ {i, Source[k], j} : task'[i][k][l] = "done"
      BY DEF MoveAlone
    <3>1. CASE i = n /\ k = m
      BY <2>3, <2>5, <2>6, <2>7, <2>9, <3>1
    <3>2. CASE ~(i = n /\ k = m)
      BY <1>1, <2>5, <2>6, <3>2 DEF MoveAlone
    <3> QED
      BY <3>1, <3>2
  <2> QED
    BY <1>1, <2>8, <2>10 DEF AloneInv
<1>7. ASSUME NEW n \in Nodes, NEW m \in MsgIds, NEW p \in Nodes, MoveToPublicQueue(n, m, p)
      PROVE  AloneInv'
  <2>1. /\ UNCHANGED received /\ task[n][m][p] = "move"
        /\ temp' = [temp EXCEPT ![n][m] = 0]
        /\ task' = [task EXCEPT ![n][m][p] = "done"]
    BY <1>7 DEF MoveToPublicQueue
  <2>2. \A i \in Nodes : \A k \in MsgIds :
          temp'[i][k] = IF i = n /\ k = m THEN 0 ELSE temp[i][k]
    BY <1>1, <2>1 DEF TypeOK
  <2>3. \A i \in Nodes : \A k \in MsgIds : \A j \in Nodes :
          task'[i][k][j] = IF i = n /\ k = m /\ j = p THEN "done" ELSE task[i][k][j]
    BY <1>1, <2>1 DEF TypeOK
  <2>4. \A j \in Nodes : task'[n][m][j] # "move"
    BY <1>1, <1>2, <2>1, <2>3 DEF MoveAlone
  <2> QED
    BY <1>1, <2>1, <2>2, <2>3, <2>4, AloneFrame DEF MoveAlone
<1> QED
  <2>1. CASE \E n \in Nodes : \E m \in MsgIds : HandleIncomingReplData(n, m)
    BY <1>4, <2>1
  <2>2. CASE \E n \in Nodes : \E m \in MsgIds : \E p \in Nodes :
               \/ HandleDataConfirmation(n, m, p)
               \/ UpdateConfirmation(n, m, p)
               \/ MoveToPublicQueue(n, m, p)
    BY <1>5, <1>6, <1>7, <2>2
  <2>3. CASE \/ \E n \in Nodes : \/ \E m \in MsgIds : Replicate(n, m)
                                 \/ PopFront(n)
                                 \/ JoinReplNetwork(n)
                                 \/ LeaveReplNetwork(n)
                                 \/ Gossip(n)
             \/ \E n \in Nodes : \E p \in Nodes : ReplicateBuffer(n, p)
             \/ \E m \in MsgIds : Expire(m)
             \/ UNCHANGED vars
    <3>1. UNCHANGED <<received, task, temp>>
      BY <1>1, <2>3 DEF Replicate, PopFront, JoinReplNetwork, LeaveReplNetwork, Gossip,
         PeerSubscribed, PeerUnsubscribed, ReplicateBuffer, Expire, vars, TypeOK
    <3> QED
      BY <1>3, <3>1
  <2> QED
    BY <2>1, <2>2, <2>3 DEF Next, Deliver, Application

\* Unread data that leaves the public buffer of a node in one step.
Evicted(n) == QueueIds(n) \ (QueueIds(n)' \cup consumed'[n])

LEMMA EvictionStep ==
  ASSUME MaxChurn = 0, ~Cloning, AllConfirm, AloneInv, [Next]_vars,
         NEW i \in Nodes, Evicted(i) # {}
  PROVE  QueueIds(i)' \ QueueIds(i) # {}
<1> USE DEF buffers, tasks, network
<1>1. PlaceInv /\ MoveAlone /\ QuorumInv /\ TypeOK
  BY DEF AloneInv, PlaceInv, QuorumInv, RealInv
<1>2. queue'[i] # queue[i]
  BY DEF Evicted, QueueIds
<1>3. ASSUME NEW n \in Nodes, NEW m \in MsgIds, HandleIncomingReplData(n, m) PROVE FALSE
  <2>1. ReceiversWait
    BY QuorumType DEF AllConfirm, ReceiversWait
  <2> QED
    BY <1>1, <1>2, <1>3, <2>1, NoDirectPush
<1>4. ASSUME NEW n \in Nodes, NEW m \in MsgIds, NEW p \in Nodes, MoveToPublicQueue(n, m, p)
      PROVE  QueueIds(i)' \ QueueIds(i) # {}
  <2> DEFINE x == [id |-> m, confirmations |-> temp[n][m]]
             kept == Cleanup(queue[n])
  <2>1. task[n][m][p] = "move" /\ queue' = [queue EXCEPT ![n] = Moved(@, m, temp[n][m])]
    BY <1>4 DEF MoveToPublicQueue
  <2>2. temp[n][m] > 0 /\ m \notin QueueIds(n)
    <3>1. temp[n][m] > 0
      BY <1>1, <2>1 DEF MoveAlone
    <3>2. m \in QueueIds(n) => temp[n][m] = 0
      BY <1>1 DEF PlaceInv, OnePlace
    <3> QED BY <3>1, <3>2
  <2>3. i = n /\ queue'[n] = Insert(kept, x)
    <3>1. \A j \in Nodes :
            queue'[j] = IF j = n THEN Moved(queue[n], m, temp[n][m]) ELSE queue[j]
      BY <1>1, <2>1 DEF TypeOK
    <3>2. i = n
      BY <1>2, <3>1
    <3>3. Moved(queue[n], m, temp[n][m]) = Insert(kept, x)
      BY <2>2 DEF Moved
    <3> QED BY <3>1, <3>2, <3>3
  <2>4. kept \subseteq queue[n]
    <3>1. queue[n] \subseteq Entry
      BY <1>1 DEF TypeOK
    <3> QED BY <3>1, CleanupSubset
  <2>5. x.id = m
    OBVIOUS
  <2> HIDE DEF x, kept
  <2>6. x \in queue'[n]
    BY <2>2, <2>3, <2>4, <2>5 DEF Insert, QueueIds
  <2>7. m \in QueueIds(n)'
    BY <2>5, <2>6 DEF QueueIds
  <2> QED
    BY <2>2, <2>3, <2>7
<1>5. ASSUME NEW n \in Nodes, PopFront(n) PROVE FALSE
  <2>1. PICK e \in queue[n] : /\ queue' = [queue EXCEPT ![n] = @ \ {e}]
                              /\ consumed' = [consumed EXCEPT ![n] = @ \cup {e.id}]
    BY <1>5 DEF PopFront
  <2>2. i = n /\ queue'[n] = queue[n] \ {e} /\ e.id \in consumed'[n]
    BY <1>1, <1>2, <2>1 DEF TypeOK
  <2> QED
    BY <2>2 DEF Evicted, QueueIds
<1> QED
  <2>1. CASE \E n \in Nodes : \E m \in MsgIds : HandleIncomingReplData(n, m)
    BY <1>3, <2>1
  <2>2. CASE \E n \in Nodes : \E m \in MsgIds : \E p \in Nodes : MoveToPublicQueue(n, m, p)
    BY <1>4, <2>2
  <2>3. CASE \E n \in Nodes : PopFront(n)
    BY <1>5, <2>3
  <2>4. CASE \/ \E n \in Nodes : \/ \E m \in MsgIds : Replicate(n, m)
                                 \/ JoinReplNetwork(n)
                                 \/ LeaveReplNetwork(n)
                                 \/ Gossip(n)
             \/ \E n \in Nodes : \E p \in Nodes : ReplicateBuffer(n, p)
             \/ \E n \in Nodes : \E m \in MsgIds : \E p \in Nodes :
                  HandleDataConfirmation(n, m, p) \/ UpdateConfirmation(n, m, p)
             \/ \E m \in MsgIds : Expire(m)
             \/ UNCHANGED vars
    <3>1. UNCHANGED queue
      BY <1>1, <2>4 DEF Replicate, JoinReplNetwork, LeaveReplNetwork, Gossip, PeerSubscribed,
         PeerUnsubscribed, ReplicateBuffer, HandleDataConfirmation, UpdateConfirmation, Expire,
         vars, TypeOK
    <3> QED
      BY <1>2, <3>1
  <2> QED
    BY <2>1, <2>2, <2>3, <2>4 DEF Next, Deliver, Application

(***************************************************************************)
(* With membership fixed and no buffer cloned, where every replica must    *)
(* confirm and the temporary buffer does not overflow, unread data leaves  *)
(* the public buffer only as new data enters it: no task makes room there  *)
(* and then finds its entry gone (handle_data_confirmation).               *)
(***************************************************************************)
THEOREM EvictionTheorem ==
  ASSUME MaxChurn = 0, ~Cloning, AllConfirm
  PROVE  Spec /\ []RoomForData => EvictionMakesRoom
<1>1. Init => AloneInv
  BY PlaceInit DEF Init, AloneInv, NeverSource, MoveAlone
<1>2. AloneInv /\ RoomForData /\ [Next]_vars => AloneInv'
  BY AloneStep
<1>3. AloneInv /\ [Next]_vars =>
        [\A n \in Nodes :
           (QueueIds(n) \ (QueueIds(n)' \cup consumed'[n]) # {})
             => (QueueIds(n)' \ QueueIds(n) # {})]_vars
  BY EvictionStep DEF Evicted
<1> QED
  BY <1>1, <1>2, <1>3, PTL DEF Spec, EvictionMakesRoom

(***************************************************************************)
(* In particular when the temporary buffer can hold all the data of the    *)
(* network, as in a network that has replicated at most MAX_CAPACITY       *)
(* messages.                                                               *)
(***************************************************************************)
THEOREM EvictionWithinCapacity ==
  ASSUME MaxChurn = 0, ~Cloning, AllConfirm, Cardinality(MsgIds) <= MaxCapacity
  PROVE  Spec => EvictionMakesRoom
<1>1. RealInv => RoomForData
  <2> SUFFICES ASSUME RealInv, NEW n \in Nodes, NEW m \in MsgIds, m \notin received[n]
               PROVE  Cardinality(TempIds(n)) < MaxCapacity
    BY DEF RoomForData
  <2>1. TempIds(n) \in SUBSET (MsgIds \ {m})
    BY DEF RealInv, TempReceived, TempIds
  <2>2. /\ IsFiniteSet(MsgIds \ {m})
        /\ Cardinality(MsgIds \ {m}) = Cardinality(MsgIds) - 1
    BY FS_RemoveElement
  <2>3. IsFiniteSet(TempIds(n)) /\ Cardinality(TempIds(n)) <= Cardinality(MsgIds \ {m})
    BY <2>1, <2>2, FS_Subset
  <2>4. Cardinality(TempIds(n)) \in Nat /\ Cardinality(MsgIds) \in Nat
    BY <2>3, FS_CardinalityType
  <2> QED
    BY <2>2, <2>3, <2>4
<1>2. Spec => []RealInv
  BY RealInit, RealStep, PTL DEF Spec
<1> QED
  BY <1>1, <1>2, EvictionTheorem, PTL

=============================================================================
