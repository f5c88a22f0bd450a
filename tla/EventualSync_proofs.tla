------------------------ MODULE EventualSync_proofs ------------------------
(***************************************************************************)
(* Theorems about EventualSync, for any number of replicas and messages,   *)
(* any length of the buffer and any number of consumed entries and failed  *)
(* RPCs.  They hold under Spec, and so under FairSpec as well.             *)
(***************************************************************************)
EXTENDS EventualSync, TLAPS

USE SourceAssumption, MsgIdsAssumption, BoundsAssumption

-----------------------------------------------------------------------------
(* Operators *)

\* The clock a node has after it received data is a clock, later than its
\* own and than that of the data.
LEMMA ClockAdvances ==
  ASSUME NEW mine \in Nat, NEW theirs \in Nat
  PROVE  /\ ClockOnReceipt(mine, theirs) \in Nat
         /\ ClockOnReceipt(mine, theirs) > mine
         /\ ClockOnReceipt(mine, theirs) > theirs
BY DEF ClockOnReceipt

\* A push only ever takes entries away to make room.
LEMMA RoomShrinks ==
  ASSUME NEW q, NEW old
  PROVE  Room(q, old) \subseteq q
BY DEF Room

-----------------------------------------------------------------------------
(* Type correctness *)

\* Every variable keeps its type, whatever the constants.
THEOREM TypeCorrect == Spec => []TypeOK
<1>1. Init => TypeOK
  BY DEF Init, TypeOK, Task, Idle
<1>2. TypeOK /\ [Next]_vars => TypeOK'
  <2> SUFFICES ASSUME TypeOK, [Next]_vars
               PROVE  TypeOK'
    OBVIOUS
  <2> USE DEF TypeOK
  <2>1. ASSUME NEW m \in MsgIds, Replicate(m)
        PROVE  TypeOK'
    BY <2>1 DEF Replicate, buffer
  <2>2. ASSUME NEW n \in Nodes, PopFront(n)
        PROVE  TypeOK'
    <3>1. pops' \in 0 .. MaxPops
      BY <2>2 DEF PopFront
    <3>2. PICK m \in queue[n] :
            /\ queue' = [queue EXCEPT ![n] = @ \ {m}]
            /\ aged' = [aged EXCEPT ![n] = @ \ {m}]
            /\ consumed' = [consumed EXCEPT ![n] = @ \cup {m}]
            /\ lastClock' = [lastClock EXCEPT ![n] = clock[m]]
      BY <2>2 DEF PopFront
    <3>3. m \in MsgIds
      BY <3>2
    <3> QED
      BY <2>2, <3>1, <3>2, <3>3 DEF PopFront
  <2>3. ASSUME NEW n \in Nodes, NEW m \in MsgIds, HandleIncomingReplData(n, m)
        PROVE  TypeOK'
    <3>1. PICK old \in Expirable(queue[n]) :
            /\ queue' = [queue EXCEPT ![n] = Room(@, old) \cup {m}]
            /\ aged' = [aged EXCEPT ![n] = @ \cap Room(queue[n], old)]
      BY <2>3 DEF HandleIncomingReplData
    <3>2. Room(queue[n], old) \subseteq queue[n]
      BY RoomShrinks
    <3>3. ClockOnReceipt(lamport[n], clock[m]) \in Nat
      BY ClockAdvances
    <3> QED
      BY <2>3, <3>1, <3>2, <3>3 DEF HandleIncomingReplData
  <2>4. ASSUME NEW n \in Nodes, NEW m \in MsgIds, Age(n, m)
        PROVE  TypeOK'
    BY <2>4 DEF Age, clocks
  <2>5. ASSUME NEW n \in Nodes, NEW p \in Nodes, SyncBufferImage(n, p)
        PROVE  TypeOK'
    <3>1. Missing(n, aged[p]) \in SUBSET MsgIds
      BY DEF Missing
    <3> QED
      BY <2>5, <3>1 DEF SyncBufferImage, clocks, buffer, Task
  <2>6. ASSUME NEW n \in Nodes, NEW p \in Nodes, PullMissingData(n, p)
        PROVE  TypeOK'
    BY <2>6 DEF PullMissingData, clocks, buffer, Task
  <2>7. ASSUME NEW n \in Nodes, NEW p \in Nodes, PullFails(n, p)
        PROVE  TypeOK'
    BY <2>7 DEF PullFails, clocks, buffer, Task, Idle
  <2>8. ASSUME NEW n \in Nodes, NEW p \in Nodes, InsertPulled(n, p)
        PROVE  TypeOK'
    <3>1. sync[n][p].ids \in SUBSET MsgIds
      BY DEF Task
    <3> QED
      BY <2>8, <3>1 DEF InsertPulled, clocks, Task, Idle
  <2>9. CASE UNCHANGED vars
    BY <2>9 DEF vars, clocks, buffer
  <2> QED
    BY <2>1, <2>2, <2>3, <2>4, <2>5, <2>6, <2>7, <2>8, <2>9 DEF Next
<1> QED
  BY <1>1, <1>2, PTL DEF Spec

-----------------------------------------------------------------------------
(* Causality of the clocks *)

(***************************************************************************)
(* CausalClocks is not inductive: it says nothing of the lamport clock     *)
(* that the next publication takes its clock from.  That clock is not      *)
(* behind any data gossip has delivered to the node, and only published    *)
(* data is delivered.                                                      *)
(***************************************************************************)
ClocksCover ==
  \A n \in Nodes : \A k \in received[n] : clock[k] # 0 /\ clock[k] <= lamport[n]

BeforePublished ==
  \A m \in MsgIds : clock[m] # 0 => \A k \in before[m] : clock[k] # 0

CausalInv == TypeOK /\ ClocksCover /\ BeforePublished /\ CausalClocks

\* What a publisher had been given by gossip has a smaller clock than what it
\* publishes, in every instance (replicate, handle_incoming_repl_data).
THEOREM CausalClocksTheorem == Spec => []CausalClocks
<1>1. Init => ClocksCover /\ BeforePublished /\ CausalClocks
  BY DEF Init, ClocksCover, BeforePublished, CausalClocks
<1>2. TypeOK /\ TypeOK' /\ CausalInv /\ [Next]_vars
        => (ClocksCover /\ BeforePublished /\ CausalClocks)'
  <2> SUFFICES ASSUME TypeOK, TypeOK', ClocksCover, BeforePublished, CausalClocks,
                      [Next]_vars
               PROVE  (ClocksCover /\ BeforePublished /\ CausalClocks)'
    BY DEF CausalInv
  <2>1. ASSUME NEW m \in MsgIds, Replicate(m)
        PROVE  (ClocksCover /\ BeforePublished /\ CausalClocks)'
    <3> DEFINE n == Source[m]
    <3>1. /\ n \in Nodes
          /\ clock[m] = 0
          /\ lamport' = [lamport EXCEPT ![n] = @ + 1]
          /\ clock' = [clock EXCEPT ![m] = lamport[n] + 1]
          /\ before' = [before EXCEPT ![m] = received[n]]
          /\ received' = received
      BY <2>1 DEF Replicate
    <3> HIDE DEF n
    <3>2. \A k \in MsgIds : clock[k] # 0 => k # m /\ clock'[k] = clock[k]
      BY <3>1 DEF TypeOK
    <3>3. \A q \in Nodes : lamport[q] <= lamport'[q]
      BY <3>1 DEF TypeOK
    <3>4. ClocksCover'
      BY <3>1, <3>2, <3>3 DEF ClocksCover, TypeOK
    <3>5. \A k \in received[n] : clock'[k] # 0 /\ clock'[k] <= lamport[n]
      BY <3>1, <3>2 DEF ClocksCover, TypeOK
    <3>6. clock'[m] = lamport[n] + 1 /\ before'[m] = received[n]
      BY <3>1 DEF TypeOK
    <3>7. \A j \in MsgIds \ {m} : clock'[j] = clock[j] /\ before'[j] = before[j]
      BY <3>1 DEF TypeOK
    <3>8. BeforePublished'
      BY <3>2, <3>5, <3>6, <3>7 DEF BeforePublished, TypeOK
    <3>9. CausalClocks'
      <4> SUFFICES ASSUME NEW j \in MsgIds, clock'[j] # 0, NEW k \in before'[j]
                   PROVE  clock'[k] < clock'[j]
        BY DEF CausalClocks
      <4>1. CASE j = m
        BY <4>1, <3>1, <3>5, <3>6 DEF TypeOK
      <4>2. CASE j # m
        BY <4>2, <3>2, <3>7 DEF BeforePublished, CausalClocks, TypeOK
      <4> QED
        BY <4>1, <4>2
    <3> QED
      BY <3>4, <3>8, <3>9
  <2>2. ASSUME NEW n \in Nodes, NEW m \in MsgIds, HandleIncomingReplData(n, m)
        PROVE  (ClocksCover /\ BeforePublished /\ CausalClocks)'
    <3>1. /\ clock[m] # 0 /\ clock' = clock /\ before' = before
          /\ received' = [received EXCEPT ![n] = @ \cup {m}]
          /\ lamport' = [lamport EXCEPT ![n] = ClockOnReceipt(@, clock[m])]
      BY <2>2 DEF HandleIncomingReplData
    <3>2. /\ lamport'[n] \in Nat
          /\ lamport'[n] > lamport[n]
          /\ lamport'[n] > clock[m]
      BY <3>1, ClockAdvances DEF TypeOK
    <3>3. \A q \in Nodes \ {n} : lamport'[q] = lamport[q] /\ received'[q] = received[q]
      BY <3>1 DEF TypeOK
    <3>4. received'[n] = received[n] \cup {m}
      BY <3>1 DEF TypeOK
    <3>5. ClocksCover'
      <4> SUFFICES ASSUME NEW q \in Nodes, NEW k \in received'[q]
                   PROVE  clock[k] # 0 /\ clock[k] <= lamport'[q]
        BY <3>1 DEF ClocksCover
      <4>1. CASE q # n
        BY <4>1, <3>3 DEF ClocksCover
      <4>2. CASE q = n /\ k = m
        BY <4>2, <3>1, <3>2 DEF TypeOK
      <4>3. CASE q = n /\ k \in received[n]
        <5>1. clock[k] # 0 /\ clock[k] <= lamport[n]
          BY <4>3 DEF ClocksCover
        <5>2. clock[k] \in Nat /\ lamport[n] \in Nat
          BY <4>3 DEF TypeOK
        <5> QED
          BY <4>3, <5>1, <5>2, <3>2
      <4> QED
        BY <4>1, <4>2, <4>3, <3>4
    <3> QED
      BY <3>1, <3>5 DEF BeforePublished, CausalClocks
  <2>3. CASE UNCHANGED <<lamport, clock, before, received>>
    BY <2>3 DEF ClocksCover, BeforePublished, CausalClocks
  <2>4. ASSUME NEW n \in Nodes, PopFront(n)
        PROVE  UNCHANGED <<lamport, clock, before, received>>
    BY <2>4 DEF PopFront
  <2>5. ASSUME NEW n \in Nodes, NEW m \in MsgIds, Age(n, m)
        PROVE  UNCHANGED <<lamport, clock, before, received>>
    BY <2>5 DEF Age, clocks
  <2>6. ASSUME NEW n \in Nodes, NEW p \in Nodes,
               \/ SyncBufferImage(n, p) \/ PullMissingData(n, p)
               \/ PullFails(n, p) \/ InsertPulled(n, p)
        PROVE  UNCHANGED <<lamport, clock, before, received>>
    BY <2>6 DEF SyncBufferImage, PullMissingData, PullFails, InsertPulled, clocks
  <2>7. CASE UNCHANGED vars
    BY <2>7, <2>3 DEF vars, clocks
  <2> QED
    BY <2>1, <2>2, <2>3, <2>4, <2>5, <2>6, <2>7 DEF Next
<1> QED
  BY <1>1, <1>2, TypeCorrect, PTL DEF Spec, CausalInv

-----------------------------------------------------------------------------
(* A node's own data *)

(***************************************************************************)
(* OwnDataStaysOut is not inductive: a pull in progress could bring a node *)
(* its own data, so what a task has asked for is covered as well.          *)
(***************************************************************************)
OwnDataNotAsked ==
  \A n, p \in Nodes : \A m \in sync[n][p].ids : Source[m] # n

OwnDataInv == OwnDataNotAsked /\ OwnDataStaysOut

\* A node never gets its own data back, in every instance (sync_buffer_image).
THEOREM OwnDataTheorem == Spec => []OwnDataStaysOut
<1>1. Init => OwnDataInv
  BY DEF Init, OwnDataInv, OwnDataNotAsked, OwnDataStaysOut, Idle
<1>2. TypeOK /\ OwnDataInv /\ [Next]_vars => OwnDataInv'
  <2> SUFFICES ASSUME TypeOK, OwnDataNotAsked, OwnDataStaysOut, [Next]_vars
               PROVE  OwnDataNotAsked' /\ OwnDataStaysOut'
    BY DEF OwnDataInv
  <2>1. ASSUME NEW m \in MsgIds, Replicate(m)
        PROVE  OwnDataNotAsked' /\ OwnDataStaysOut'
    BY <2>1 DEF Replicate, buffer, OwnDataNotAsked, OwnDataStaysOut
  <2>2. ASSUME NEW n \in Nodes, PopFront(n)
        PROVE  OwnDataNotAsked' /\ OwnDataStaysOut'
    BY <2>2 DEF PopFront, OwnDataNotAsked, OwnDataStaysOut, TypeOK
  <2>3. ASSUME NEW n \in Nodes, NEW m \in MsgIds, HandleIncomingReplData(n, m)
        PROVE  OwnDataNotAsked' /\ OwnDataStaysOut'
    <3>1. PICK old : queue' = [queue EXCEPT ![n] = Room(@, old) \cup {m}]
      BY <2>3 DEF HandleIncomingReplData
    <3>2. /\ queue'[n] \subseteq queue[n] \cup {m}
          /\ \A q \in Nodes \ {n} : queue'[q] = queue[q]
      BY <3>1, RoomShrinks DEF TypeOK
    <3>3. Source[m] # n /\ sync' = sync
      BY <2>3 DEF HandleIncomingReplData
    <3> QED
      BY <3>2, <3>3 DEF OwnDataNotAsked, OwnDataStaysOut
  <2>4. ASSUME NEW n \in Nodes, NEW m \in MsgIds, Age(n, m)
        PROVE  OwnDataNotAsked' /\ OwnDataStaysOut'
    BY <2>4 DEF Age, OwnDataNotAsked, OwnDataStaysOut
  <2>5. ASSUME NEW n \in Nodes, NEW p \in Nodes, SyncBufferImage(n, p)
        PROVE  OwnDataNotAsked' /\ OwnDataStaysOut'
    <3>1. \A m \in Missing(n, aged[p]) : Source[m] # n
      BY DEF Missing
    <3> QED
      BY <2>5, <3>1 DEF SyncBufferImage, buffer, OwnDataNotAsked, OwnDataStaysOut, TypeOK
  <2>6. ASSUME NEW n \in Nodes, NEW p \in Nodes, PullMissingData(n, p)
        PROVE  OwnDataNotAsked' /\ OwnDataStaysOut'
    BY <2>6 DEF PullMissingData, buffer, OwnDataNotAsked, OwnDataStaysOut, TypeOK
  <2>7. ASSUME NEW n \in Nodes, NEW p \in Nodes, PullFails(n, p)
        PROVE  OwnDataNotAsked' /\ OwnDataStaysOut'
    BY <2>7 DEF PullFails, Idle, buffer, OwnDataNotAsked, OwnDataStaysOut, TypeOK
  <2>8. ASSUME NEW n \in Nodes, NEW p \in Nodes, InsertPulled(n, p)
        PROVE  OwnDataNotAsked' /\ OwnDataStaysOut'
    BY <2>8 DEF InsertPulled, Idle, OwnDataNotAsked, OwnDataStaysOut, TypeOK
  <2>9. CASE UNCHANGED vars
    BY <2>9 DEF vars, buffer, OwnDataNotAsked, OwnDataStaysOut
  <2> QED
    BY <2>1, <2>2, <2>3, <2>4, <2>5, <2>6, <2>7, <2>8, <2>9 DEF Next
<1> QED
  BY <1>1, <1>2, TypeCorrect, PTL DEF Spec, OwnDataInv
=============================================================================
