----------------------- MODULE ShardMembership_proofs -----------------------
(***************************************************************************)
(* Proofs about ShardMembership, for every set of nodes and of shards, and *)
(* any number of calls.                                                    *)
(***************************************************************************)
EXTENDS ShardMembership, TLAPS

(***************************************************************************)
(* The parts of the inductive invariant, while exits are apart.            *)
(***************************************************************************)

\* What n has yet to broadcast, to hear or to finish is about nodes in shards,
\* unless it is an exit; it broadcasts only what is about itself.
JoinsInv ==
  \A n \in Nodes :
    /\ \A a \in call[n] : a.peer = n
    /\ \A a, b \in handling[n] : a = b
    /\ \A a \in handling[n] : a.join
    /\ \A a \in call[n] \cup gossip[n] \cup handling[n] :
         a.join => a.peer \in member[a.shard]

\* An exit is alone: whatever else is under way is the same exit.
ExitInv ==
  \A n \in Nodes : \A a \in call[n] \cup gossip[n] : ~a.join =>
    /\ publishing = {} /\ images = {}
    /\ \A m \in Nodes : handling[m] = {} /\ \A b \in call[m] \cup gossip[m] : b = a
    /\ a.peer \notin member[a.shard]

\* Nodes in shards are online; a node that is not hears nothing and knows
\* nothing, so an exit that it does not hear of is no loss.
OnlineInv ==
  /\ \A s \in Shards : member[s] \subseteq online
  /\ \A n \in Nodes \ online :
       gossip[n] = {} /\ handling[n] = {} /\ \A s \in Shards : view[n][s] = {}

\* Images go to nodes online and name nobody that is not in the shard.
ImagesInv ==
  /\ \A t \in publishing : t[2] \in online
  /\ \A i \in images :
       i.to \in online /\ \A s \in Shards : i.state[s] \subseteq member[s]

\* A node knows of itself.
OwnInv == \A n \in Nodes : \A s \in Shards : n \in view[n][s] <=> n \in member[s]

SoundInv ==
  TypeOK /\ JoinsInv /\ ExitInv /\ OnlineInv /\ ImagesInv /\ OwnInv /\ ViewsSound

\* n, a node of some shard, knows that p is in s, or is to hear it from p, or
\* has yet to ask p by its own join, or has an image of p's on its way.
Told(n, p, s) ==
  \/ p \in view[n][s]
  \/ \E a \in call[p] \cup gossip[n] \cup handling[n] : a.join /\ a.peer = p /\ a.shard = s
  \/ \E a \in call[n] \cup gossip[p] : a.join /\ a.peer = n
  \/ \E t \in publishing : t[1] = p /\ t[2] = n
  \/ \E i \in images : i.to = n /\ p \in i.state[s]

ToldInv ==
  \A n, p \in Nodes : \A s, t \in Shards :
    n \in member[t] /\ p \in member[s] => Told(n, p, s)

-----------------------------------------------------------------------------
(* The steps *)

\* Next and stuttering, one action at a time.
LEMMA StepCases ==
  ASSUME [Next]_vars
  PROVE  \/ \E n \in Nodes : InitSharding(n)
         \/ \E n \in Nodes, s \in Shards : JoinNetwork(n, s)
         \/ \E n \in Nodes, s \in Shards : ExitNetwork(n, s)
         \/ \E n \in Nodes : Broadcast(n)
         \/ \E n \in Nodes : \E a \in gossip[n] : HandleJoin(n, a)
         \/ \E n \in Nodes : \E a \in gossip[n] : HandleExit(n, a)
         \/ \E n \in Nodes : \E a \in handling[n] : FinishJoin(n, a)
         \/ \E t \in publishing : PublishShardState(t[1], t[2], t[3])
         \/ \E i \in images : SyncImage(i)
         \/ UNCHANGED vars
  BY DEF Next

LEMMA TypeInit == Init => TypeOK
  BY DEF Init, TypeOK, Views

\* Every step keeps the types of the state.
LEMMA TypeStep ==
  ASSUME TypeOK, [Next]_vars
  PROVE  TypeOK'
<1> USE DEF TypeOK
<1>1. ASSUME NEW n \in Nodes, InitSharding(n) PROVE TypeOK'
  BY <1>1 DEF InitSharding
<1>a. ASSUME NEW n \in Nodes, NEW s \in Shards, NEW j \in BOOLEAN, Begins(n, s, j)
      PROVE  call' \in [Nodes -> SUBSET Announcement] /\ calls' \in [Nodes -> Nat]
  BY <1>a DEF Begins, Announcement
<1>2. ASSUME NEW n \in Nodes, NEW s \in Shards, JoinNetwork(n, s) PROVE TypeOK'
  <2>1. /\ Begins(n, s, TRUE) /\ online' = online \cup {n}
        /\ view' = [view EXCEPT ![n][s] = @ \cup {n}]
        /\ member' = [member EXCEPT ![s] = @ \cup {n}]
        /\ gossip' = gossip /\ handling' = handling
        /\ publishing' = publishing /\ images' = images
    BY <1>2 DEF JoinNetwork
  <2>2. call' \in [Nodes -> SUBSET Announcement] /\ calls' \in [Nodes -> Nat]
    BY <1>a, <2>1
  <2>3. view' \in [Nodes -> Views] /\ member' \in Views
    BY <2>1 DEF Views
  <2>4. online' \subseteq Nodes
    BY <2>1
  <2> QED BY <2>1, <2>2, <2>3, <2>4
<1>3. ASSUME NEW n \in Nodes, NEW s \in Shards, ExitNetwork(n, s) PROVE TypeOK'
  BY <1>3, <1>a DEF ExitNetwork, Views
<1>4. ASSUME NEW n \in Nodes, Broadcast(n) PROVE TypeOK'
  BY <1>4 DEF Broadcast
<1>b. ASSUME NEW n \in Nodes, NEW a \in Announcement
      PROVE  [view EXCEPT ![n] = UpdateShardState(@, a)] \in [Nodes -> Views]
  BY DEF UpdateShardState, Announcement, Views
<1>5. ASSUME NEW n \in Nodes, NEW a \in gossip[n], HandleJoin(n, a) PROVE TypeOK'
  <2>1. a \in Announcement /\ a.peer \in Nodes /\ a.no \in Nat
    BY DEF Announcement
  <2>2. publishing' \subseteq Nodes \X Nodes \X Nat
    BY <1>5, <2>1 DEF HandleJoin
  <2> QED BY <1>5, <2>1, <2>2 DEF HandleJoin
<1>6. ASSUME NEW n \in Nodes, NEW a \in gossip[n], HandleExit(n, a) PROVE TypeOK'
  <2>1. a \in Announcement
    OBVIOUS
  <2>2. view' \in [Nodes -> Views]
    BY <1>6, <1>b, <2>1 DEF HandleExit
  <2> QED BY <1>6, <2>2 DEF HandleExit
<1>7. ASSUME NEW n \in Nodes, NEW a \in handling[n], FinishJoin(n, a) PROVE TypeOK'
  <2>1. a \in Announcement
    OBVIOUS
  <2>2. view' \in [Nodes -> Views]
    BY <1>7, <1>b, <2>1 DEF FinishJoin
  <2> QED BY <1>7, <2>2 DEF FinishJoin
<1>8. ASSUME NEW t \in publishing, PublishShardState(t[1], t[2], t[3]) PROVE TypeOK'
  <2>1. t[1] \in Nodes /\ t[2] \in Nodes /\ t[3] \in Nat
    OBVIOUS
  <2>2. [from |-> t[1], to |-> t[2], no |-> t[3], state |-> view[t[1]]] \in Image
    BY <2>1 DEF Image
  <2> QED BY <1>8, <2>2 DEF PublishShardState
<1>9. ASSUME NEW i \in images, SyncImage(i) PROVE TypeOK'
  <2>1. i.to \in Nodes /\ i.state \in Views
    BY DEF Image
  <2>2. MergeShardStates(view[i.to], i.state) \in Views
    BY <2>1 DEF MergeShardStates, Views
  <2>3. view' \in [Nodes -> Views]
    BY <1>9, <2>1, <2>2 DEF SyncImage
  <2> QED BY <1>9, <2>3 DEF SyncImage
<1>10. ASSUME UNCHANGED vars PROVE TypeOK'
  BY <1>10 DEF vars
<1> QED
  BY StepCases, <1>1, <1>2, <1>3, <1>4, <1>5, <1>6, <1>7, <1>8, <1>9, <1>10

\* What the guards of join and exit say of the announcements under way.
LEMMA NoExits ==
  ASSUME TypeOK, Exits = {}
  PROVE  \A n \in Nodes : \A a \in call[n] \cup gossip[n] : a.join
<1> SUFFICES ASSUME NEW n \in Nodes, NEW a \in call[n] \cup gossip[n], ~a.join
             PROVE  FALSE
  OBVIOUS
<1>1. a \in Ahead(n)
  BY DEF Ahead
<1>2. a \in UNION {Ahead(m) : m \in Nodes}
  BY <1>1
<1> QED BY <1>2 DEF Exits

\* What a call of join has to broadcast.
LEMMA JoinCall ==
  ASSUME TypeOK, NEW n \in Nodes, NEW s \in Shards, JoinNetwork(n, s)
  PROVE  \E a \in Announcement :
           /\ a.join /\ a.peer = n /\ a.shard = s
           /\ call[n] = {} /\ call'[n] = {a}
           /\ \A m \in Nodes \ {n} : call'[m] = call[m]
<1> DEFINE a == [join |-> TRUE, peer |-> n, shard |-> s, no |-> calls[n] + 1]
<1>1. a \in Announcement /\ a.join /\ a.peer = n /\ a.shard = s
  BY DEF TypeOK, Announcement
<1>2. call[n] = {} /\ call' = [call EXCEPT ![n] = {a}]
  BY DEF JoinNetwork, Begins
<1> HIDE DEF a
<1>3. call'[n] = {a} /\ \A m \in Nodes \ {n} : call'[m] = call[m]
  BY <1>2 DEF TypeOK
<1> QED BY <1>1, <1>2, <1>3

\* What a call of exit has to broadcast.
LEMMA ExitCall ==
  ASSUME TypeOK, NEW n \in Nodes, NEW s \in Shards, ExitNetwork(n, s)
  PROVE  \E a \in Announcement :
           /\ ~a.join /\ a.peer = n /\ a.shard = s
           /\ call[n] = {} /\ call'[n] = {a}
           /\ \A m \in Nodes \ {n} : call'[m] = call[m]
<1> DEFINE a == [join |-> FALSE, peer |-> n, shard |-> s, no |-> calls[n] + 1]
<1>1. a \in Announcement /\ ~a.join /\ a.peer = n /\ a.shard = s
  BY DEF TypeOK, Announcement
<1>2. call[n] = {} /\ call' = [call EXCEPT ![n] = {a}]
  BY DEF ExitNetwork, Begins
<1> HIDE DEF a
<1>3. call'[n] = {a} /\ \A m \in Nodes \ {n} : call'[m] = call[m]
  BY <1>2 DEF TypeOK
<1> QED BY <1>1, <1>2, <1>3

LEMMA JoinsStep ==
  ASSUME ExitsApart, SoundInv, [Next]_vars
  PROVE  JoinsInv'
<1>0. TypeOK /\ JoinsInv
  BY DEF SoundInv
<1> USE <1>0
<1>1. ASSUME NEW n \in Nodes, InitSharding(n) PROVE JoinsInv'
  BY <1>1 DEF InitSharding, JoinsInv
<1>2. ASSUME NEW n \in Nodes, NEW s \in Shards, JoinNetwork(n, s) PROVE JoinsInv'
  <2>1. PICK a \in Announcement : /\ a.join /\ a.peer = n /\ a.shard = s
                                 /\ call'[n] = {a}
                                 /\ \A m \in Nodes \ {n} : call'[m] = call[m]
    BY <1>2, JoinCall
  <2>2. \A t \in Shards : member[t] \subseteq member'[t]
    BY <1>2 DEF JoinNetwork, TypeOK, Views
  <2>3. n \in member'[s]
    BY <1>2 DEF JoinNetwork, TypeOK, Views
  <2>4. gossip' = gossip /\ handling' = handling
    BY <1>2 DEF JoinNetwork
  <2>5. \A m \in Nodes : \A b \in call[m] \cup gossip[m] \cup handling[m] :
          b.join => b.shard \in Shards /\ b.peer \in member'[b.shard]
    BY <2>2 DEF JoinsInv, TypeOK, Announcement
  <2> QED BY <2>1, <2>3, <2>4, <2>5 DEF JoinsInv
<1>3. ASSUME NEW n \in Nodes, NEW s \in Shards, ExitNetwork(n, s) PROVE JoinsInv'
  <2>1. PICK a \in Announcement : /\ ~a.join /\ a.peer = n /\ a.shard = s
                                 /\ call'[n] = {a}
                                 /\ \A m \in Nodes \ {n} : call'[m] = call[m]
    BY <1>3, ExitCall
  <2>2. \A m \in Nodes : call[m] = {} /\ gossip'[m] = {} /\ handling'[m] = {}
    BY <1>3 DEF ExitNetwork, Quiet
  <2> QED BY <2>1, <2>2 DEF JoinsInv
<1>4. ASSUME NEW n \in Nodes, Broadcast(n) PROVE JoinsInv'
  <2>1. \A m \in Nodes : gossip'[m] \subseteq gossip[m] \cup call[n]
    BY <1>4 DEF Broadcast
  <2>2. \A m \in Nodes : call'[m] \subseteq call[m]
    BY <1>4 DEF Broadcast, TypeOK
  <2> QED BY <1>4, <2>1, <2>2 DEF Broadcast, JoinsInv
<1>5. ASSUME NEW n \in Nodes, NEW a \in gossip[n], HandleJoin(n, a) PROVE JoinsInv'
  <2>1. \A m \in Nodes : gossip'[m] \subseteq gossip[m]
    BY <1>5 DEF HandleJoin, TypeOK
  <2>2. handling'[n] = {a} /\ \A m \in Nodes \ {n} : handling'[m] = handling[m]
    BY <1>5 DEF HandleJoin, TypeOK
  <2>3. a.join
    BY <1>5 DEF HandleJoin
  <2>4. call' = call /\ member' = member
    BY <1>5 DEF HandleJoin
  <2> QED BY <2>1, <2>2, <2>3, <2>4 DEF JoinsInv
<1>6. ASSUME NEW n \in Nodes, NEW a \in gossip[n], HandleExit(n, a) PROVE JoinsInv'
  <2>1. \A m \in Nodes : gossip'[m] \subseteq gossip[m]
    BY <1>6 DEF HandleExit, TypeOK
  <2> QED BY <1>6, <2>1 DEF HandleExit, JoinsInv
<1>7. ASSUME NEW n \in Nodes, NEW a \in handling[n], FinishJoin(n, a) PROVE JoinsInv'
  <2>1. \A m \in Nodes : handling'[m] \subseteq handling[m]
    BY <1>7 DEF FinishJoin, TypeOK
  <2> QED BY <1>7, <2>1 DEF FinishJoin, JoinsInv
<1>8. ASSUME NEW t \in publishing, PublishShardState(t[1], t[2], t[3]) PROVE JoinsInv'
  BY <1>8 DEF PublishShardState, JoinsInv
<1>9. ASSUME NEW i \in images, SyncImage(i) PROVE JoinsInv'
  BY <1>9 DEF SyncImage, JoinsInv
<1>10. ASSUME UNCHANGED vars PROVE JoinsInv'
  BY <1>10 DEF vars, JoinsInv
<1> QED
  BY StepCases, <1>1, <1>2, <1>3, <1>4, <1>5, <1>6, <1>7, <1>8, <1>9, <1>10

LEMMA ExitStep ==
  ASSUME ExitsApart, SoundInv, [Next]_vars
  PROVE  ExitInv'
<1>0. TypeOK /\ JoinsInv /\ ExitInv
  BY DEF SoundInv
<1> USE <1>0
<1>1. ASSUME NEW n \in Nodes, InitSharding(n) PROVE ExitInv'
  BY <1>1 DEF InitSharding, ExitInv
<1>2. ASSUME NEW n \in Nodes, NEW s \in Shards, JoinNetwork(n, s) PROVE ExitInv'
  <2>1. PICK a \in Announcement : /\ a.join /\ a.peer = n /\ a.shard = s
                                 /\ call'[n] = {a}
                                 /\ \A m \in Nodes \ {n} : call'[m] = call[m]
    BY <1>2, JoinCall
  <2>2. \A m \in Nodes : \A b \in call[m] \cup gossip[m] : b.join
    BY <1>2, NoExits DEF JoinNetwork
  <2>3. \A m \in Nodes : \A b \in call'[m] \cup gossip'[m] : b.join
    BY <1>2, <2>1, <2>2 DEF JoinNetwork
  <2> QED BY <2>3 DEF ExitInv
<1>3. ASSUME NEW n \in Nodes, NEW s \in Shards, ExitNetwork(n, s) PROVE ExitInv'
  <2>1. PICK a \in Announcement : /\ ~a.join /\ a.peer = n /\ a.shard = s
                                 /\ call'[n] = {a}
                                 /\ \A m \in Nodes \ {n} : call'[m] = call[m]
    BY <1>3, ExitCall
  <2>2. \A m \in Nodes : call[m] = {} /\ gossip'[m] = {} /\ handling'[m] = {}
    BY <1>3 DEF ExitNetwork, Quiet
  <2>3. publishing' = {} /\ images' = {}
    BY <1>3 DEF ExitNetwork, Quiet
  <2>4. n \notin member'[s]
    BY <1>3 DEF ExitNetwork, TypeOK, Views
  <2>5. \A m \in Nodes : \A b \in call'[m] \cup gossip'[m] : b = a
    BY <2>1, <2>2
  <2> QED BY <2>1, <2>2, <2>3, <2>4, <2>5 DEF ExitInv
<1>4. ASSUME NEW n \in Nodes, Broadcast(n) PROVE ExitInv'
  <2>1. \A m \in Nodes : gossip'[m] \subseteq gossip[m] \cup call[n]
    BY <1>4 DEF Broadcast
  <2>2. \A m \in Nodes : call'[m] \subseteq call[m]
    BY <1>4 DEF Broadcast, TypeOK
  <2>3. publishing' = publishing /\ images' = images /\ handling' = handling /\ member' = member
    BY <1>4 DEF Broadcast
  <2>4. ASSUME NEW m \in Nodes, NEW a \in call'[m] \cup gossip'[m], ~a.join
        PROVE  /\ publishing' = {} /\ images' = {}
               /\ \A q \in Nodes : handling'[q] = {} /\ \A b \in call'[q] \cup gossip'[q] : b = a
               /\ a.peer \notin member'[a.shard]
    <3>1. PICK q \in Nodes : a \in call[q] \cup gossip[q]
      BY <2>1, <2>2, <2>4
    <3>2. /\ publishing = {} /\ images = {}
          /\ \A r \in Nodes : handling[r] = {} /\ \A b \in call[r] \cup gossip[r] : b = a
          /\ a.peer \notin member[a.shard]
      BY <3>1, <2>4 DEF ExitInv
    <3> QED BY <3>2, <2>1, <2>2, <2>3
  <2> QED BY <2>4 DEF ExitInv
<1>5. ASSUME NEW n \in Nodes, NEW a \in gossip[n], HandleJoin(n, a) PROVE ExitInv'
  <2>1. \A m \in Nodes : gossip'[m] \subseteq gossip[m]
    BY <1>5 DEF HandleJoin, TypeOK
  <2>2. a.join /\ a \in gossip[n]
    BY <1>5 DEF HandleJoin
  <2>3. \A m \in Nodes : \A b \in call[m] \cup gossip[m] : b.join
    BY <2>2 DEF ExitInv
  <2>4. call' = call
    BY <1>5 DEF HandleJoin
  <2> QED BY <2>1, <2>3, <2>4 DEF ExitInv
<1>6. ASSUME NEW n \in Nodes, NEW a \in gossip[n], HandleExit(n, a) PROVE ExitInv'
  <2>1. \A m \in Nodes : gossip'[m] \subseteq gossip[m]
    BY <1>6 DEF HandleExit, TypeOK
  <2> QED BY <1>6, <2>1 DEF HandleExit, ExitInv
<1>a. ASSUME NEW n \in Nodes, handling[n] # {}
      PROVE  \A m \in Nodes : \A b \in call[m] \cup gossip[m] : b.join
  BY <1>a DEF ExitInv
<1>7. ASSUME NEW n \in Nodes, NEW a \in handling[n], FinishJoin(n, a) PROVE ExitInv'
  <2>1. \A m \in Nodes : \A b \in call[m] \cup gossip[m] : b.join
    BY <1>a
  <2> QED BY <1>7, <2>1 DEF FinishJoin, ExitInv
<1>b. ASSUME publishing # {} \/ images # {}
      PROVE  \A m \in Nodes : \A b \in call[m] \cup gossip[m] : b.join
  BY <1>b DEF ExitInv
<1>8. ASSUME NEW t \in publishing, PublishShardState(t[1], t[2], t[3]) PROVE ExitInv'
  <2>1. \A m \in Nodes : \A b \in call[m] \cup gossip[m] : b.join
    BY <1>b
  <2> QED BY <1>8, <2>1 DEF PublishShardState, ExitInv
<1>9. ASSUME NEW i \in images, SyncImage(i) PROVE ExitInv'
  <2>1. \A m \in Nodes : \A b \in call[m] \cup gossip[m] : b.join
    BY <1>b
  <2> QED BY <1>9, <2>1 DEF SyncImage, ExitInv
<1>10. ASSUME UNCHANGED vars PROVE ExitInv'
  BY <1>10 DEF vars, ExitInv
<1> QED
  BY StepCases, <1>1, <1>2, <1>3, <1>4, <1>5, <1>6, <1>7, <1>8, <1>9, <1>10

LEMMA OnlineStep ==
  ASSUME SoundInv, [Next]_vars
  PROVE  OnlineInv'
<1>0. TypeOK /\ JoinsInv /\ ImagesInv /\ OnlineInv
  BY DEF SoundInv
<1> USE <1>0
<1>1. ASSUME NEW n \in Nodes, InitSharding(n) PROVE OnlineInv'
  BY <1>1 DEF InitSharding, OnlineInv
<1>2. ASSUME NEW n \in Nodes, NEW s \in Shards, JoinNetwork(n, s) PROVE OnlineInv'
  <2>1. \A t \in Shards : member'[t] \subseteq member[t] \cup {n}
    BY <1>2 DEF JoinNetwork, TypeOK, Views
  <2>2. \A m \in Nodes \ {n} : view'[m] = view[m]
    BY <1>2 DEF JoinNetwork, TypeOK
  <2> QED BY <1>2, <2>1, <2>2 DEF JoinNetwork, OnlineInv
<1>3. ASSUME NEW n \in Nodes, NEW s \in Shards, ExitNetwork(n, s) PROVE OnlineInv'
  <2>1. \A t \in Shards : member'[t] \subseteq member[t]
    BY <1>3 DEF ExitNetwork, TypeOK, Views
  <2>2. \A m \in Nodes : \A t \in Shards : view'[m][t] \subseteq view[m][t]
    BY <1>3 DEF ExitNetwork, TypeOK, Views
  <2> QED BY <1>3, <2>1, <2>2 DEF ExitNetwork, OnlineInv
<1>4. ASSUME NEW n \in Nodes, Broadcast(n) PROVE OnlineInv'
  <2>1. \A m \in Nodes \ online : gossip'[m] = gossip[m]
    BY <1>4 DEF Broadcast
  <2> QED BY <1>4, <2>1 DEF Broadcast, OnlineInv
<1>5. ASSUME NEW n \in Nodes, NEW a \in gossip[n], HandleJoin(n, a) PROVE OnlineInv'
  <2>1. n \in online
    BY DEF OnlineInv
  <2>2. \A m \in Nodes \ {n} : gossip'[m] = gossip[m] /\ handling'[m] = handling[m]
    BY <1>5 DEF HandleJoin, TypeOK
  <2> QED BY <1>5, <2>1, <2>2 DEF HandleJoin, OnlineInv
<1>6. ASSUME NEW n \in Nodes, NEW a \in gossip[n], HandleExit(n, a) PROVE OnlineInv'
  <2>1. n \in online
    BY DEF OnlineInv
  <2>2. \A m \in Nodes \ {n} : gossip'[m] = gossip[m] /\ view'[m] = view[m]
    BY <1>6 DEF HandleExit, TypeOK
  <2> QED BY <1>6, <2>1, <2>2 DEF HandleExit, OnlineInv
<1>7. ASSUME NEW n \in Nodes, NEW a \in handling[n], FinishJoin(n, a) PROVE OnlineInv'
  <2>1. n \in online
    BY DEF OnlineInv
  <2>2. \A m \in Nodes \ {n} : handling'[m] = handling[m] /\ view'[m] = view[m]
    BY <1>7 DEF FinishJoin, TypeOK
  <2> QED BY <1>7, <2>1, <2>2 DEF FinishJoin, OnlineInv
<1>8. ASSUME NEW t \in publishing, PublishShardState(t[1], t[2], t[3]) PROVE OnlineInv'
  BY <1>8 DEF PublishShardState, OnlineInv
<1>9. ASSUME NEW i \in images, SyncImage(i) PROVE OnlineInv'
  <2>1. i.to \in online
    BY DEF ImagesInv
  <2>2. \A m \in Nodes \ {i.to} : view'[m] = view[m]
    BY <1>9 DEF SyncImage, TypeOK
  <2> QED BY <1>9, <2>1, <2>2 DEF SyncImage, OnlineInv
<1>10. ASSUME UNCHANGED vars PROVE OnlineInv'
  BY <1>10 DEF vars, OnlineInv
<1> QED
  BY StepCases, <1>1, <1>2, <1>3, <1>4, <1>5, <1>6, <1>7, <1>8, <1>9, <1>10

\* While anything but an exit is under way, views name only nodes in the shard.
LEMMA NoLeaving ==
  ASSUME TypeOK, ViewsSound, \A m \in Nodes : \A b \in call[m] \cup gossip[m] : b.join,
         NEW n \in Nodes, NEW s \in Shards
  PROVE  view[n][s] \subseteq member[s]
<1>1. Leaving(n, s) = {}
  BY DEF Leaving, Ahead
<1> QED BY <1>1 DEF ViewsSound

LEMMA ImagesStep ==
  ASSUME ExitsApart, SoundInv, [Next]_vars
  PROVE  ImagesInv'
<1>0. TypeOK /\ JoinsInv /\ ExitInv /\ ImagesInv /\ OnlineInv /\ ViewsSound
  BY DEF SoundInv
<1> USE <1>0
<1>1. ASSUME NEW n \in Nodes, InitSharding(n) PROVE ImagesInv'
  BY <1>1 DEF InitSharding, ImagesInv
<1>2. ASSUME NEW n \in Nodes, NEW s \in Shards, JoinNetwork(n, s) PROVE ImagesInv'
  <2>1. \A t \in Shards : member[t] \subseteq member'[t]
    BY <1>2 DEF JoinNetwork, TypeOK, Views
  <2> QED BY <1>2, <2>1 DEF JoinNetwork, ImagesInv
<1>3. ASSUME NEW n \in Nodes, NEW s \in Shards, ExitNetwork(n, s) PROVE ImagesInv'
  BY <1>3 DEF ExitNetwork, Quiet, ImagesInv
<1>4. ASSUME NEW n \in Nodes, Broadcast(n) PROVE ImagesInv'
  BY <1>4 DEF Broadcast, ImagesInv
<1>5. ASSUME NEW n \in Nodes, NEW a \in gossip[n], HandleJoin(n, a) PROVE ImagesInv'
  <2>1. a.peer \in member[a.shard] /\ a.shard \in Shards
    BY <1>5 DEF HandleJoin, JoinsInv, TypeOK, Announcement
  <2>2. a.peer \in online
    BY <2>1 DEF OnlineInv
  <2> QED BY <1>5, <2>2 DEF HandleJoin, ImagesInv
<1>6. ASSUME NEW n \in Nodes, NEW a \in gossip[n], HandleExit(n, a) PROVE ImagesInv'
  BY <1>6 DEF HandleExit, ImagesInv
<1>7. ASSUME NEW n \in Nodes, NEW a \in handling[n], FinishJoin(n, a) PROVE ImagesInv'
  BY <1>7 DEF FinishJoin, ImagesInv
<1>8. ASSUME NEW t \in publishing, PublishShardState(t[1], t[2], t[3]) PROVE ImagesInv'
  <2>1. \A m \in Nodes : \A b \in call[m] \cup gossip[m] : b.join
    BY DEF ExitInv
  <2>2. \A s \in Shards : view[t[1]][s] \subseteq member[s]
    BY <2>1, NoLeaving DEF TypeOK
  <2>3. t[2] \in online
    BY DEF ImagesInv
  <2> QED BY <1>8, <2>2, <2>3 DEF PublishShardState, ImagesInv
<1>9. ASSUME NEW i \in images, SyncImage(i) PROVE ImagesInv'
  BY <1>9 DEF SyncImage, ImagesInv
<1>10. ASSUME UNCHANGED vars PROVE ImagesInv'
  BY <1>10 DEF vars, ImagesInv
<1> QED
  BY StepCases, <1>1, <1>2, <1>3, <1>4, <1>5, <1>6, <1>7, <1>8, <1>9, <1>10

\* What the handlers do to the entry of p in the view of s.
LEMMA ViewChanges ==
  ASSUME TypeOK, NEW m \in Nodes, NEW s \in Shards, NEW p
  PROVE  /\ \A n \in Nodes : \A a \in Announcement :
              view' = [view EXCEPT ![n] = UpdateShardState(@, a)] =>
                (p \in view'[m][s] <=>
                   IF m = n /\ s = a.shard /\ p = a.peer THEN a.join ELSE p \in view[m][s])
         /\ \A i \in Image : view' = [view EXCEPT ![i.to] = MergeShardStates(@, i.state)] =>
                (p \in view'[m][s] <=> p \in view[m][s] \/ (m = i.to /\ p \in i.state[s]))
<1>1. ASSUME NEW n \in Nodes, NEW a \in Announcement,
             view' = [view EXCEPT ![n] = UpdateShardState(@, a)]
      PROVE  p \in view'[m][s] <=>
               IF m = n /\ s = a.shard /\ p = a.peer THEN a.join ELSE p \in view[m][s]
  BY <1>1 DEF UpdateShardState, TypeOK, Views, Announcement
<1>2. ASSUME NEW i \in Image, view' = [view EXCEPT ![i.to] = MergeShardStates(@, i.state)]
      PROVE  p \in view'[m][s] <=> p \in view[m][s] \/ (m = i.to /\ p \in i.state[s])
  BY <1>2 DEF MergeShardStates, TypeOK, Views, Image
<1> QED BY <1>1, <1>2

\* What a call does to the entry of p in the view of t, and to the members of t.
LEMMA CallChanges ==
  ASSUME TypeOK, NEW m \in Nodes, NEW n \in Nodes, NEW s \in Shards, NEW t \in Shards, NEW p
  PROVE  /\ JoinNetwork(n, s) =>
              /\ p \in view'[m][t] <=> p \in view[m][t] \/ (m = n /\ t = s /\ p = n)
              /\ p \in member'[t] <=> p \in member[t] \/ (t = s /\ p = n)
         /\ ExitNetwork(n, s) =>
              /\ p \in view'[m][t] <=> p \in view[m][t] /\ ~(m = n /\ t = s /\ p = n)
              /\ p \in member'[t] <=> p \in member[t] /\ ~(t = s /\ p = n)
<1>1. ASSUME JoinNetwork(n, s)
      PROVE  /\ p \in view'[m][t] <=> p \in view[m][t] \/ (m = n /\ t = s /\ p = n)
             /\ p \in member'[t] <=> p \in member[t] \/ (t = s /\ p = n)
  BY <1>1 DEF JoinNetwork, TypeOK, Views
<1>2. ASSUME ExitNetwork(n, s)
      PROVE  /\ p \in view'[m][t] <=> p \in view[m][t] /\ ~(m = n /\ t = s /\ p = n)
             /\ p \in member'[t] <=> p \in member[t] /\ ~(t = s /\ p = n)
  BY <1>2 DEF ExitNetwork, TypeOK, Views
<1> QED BY <1>1, <1>2

LEMMA OwnStep ==
  ASSUME ExitsApart, SoundInv, [Next]_vars
  PROVE  OwnInv'
<1>0. TypeOK /\ JoinsInv /\ ExitInv /\ ImagesInv /\ OwnInv
  BY DEF SoundInv
<1> SUFFICES ASSUME NEW m \in Nodes, NEW t \in Shards
             PROVE  m \in view'[m][t] <=> m \in member'[t]
  BY DEF OwnInv
<1> USE <1>0
<1>a. m \in view[m][t] <=> m \in member[t]
  BY DEF OwnInv
<1>1. ASSUME NEW n \in Nodes, NEW s \in Shards, JoinNetwork(n, s)
      PROVE  m \in view'[m][t] <=> m \in member'[t]
  BY <1>1, <1>a, CallChanges
<1>2. ASSUME NEW n \in Nodes, NEW s \in Shards, ExitNetwork(n, s)
      PROVE  m \in view'[m][t] <=> m \in member'[t]
  BY <1>2, <1>a, CallChanges
<1>3. ASSUME NEW n \in Nodes, NEW a \in gossip[n], HandleExit(n, a)
      PROVE  m \in view'[m][t] <=> m \in member'[t]
  <2>1. a \in Announcement /\ ~a.join /\ a.peer \notin member[a.shard]
    BY <1>3 DEF HandleExit, ExitInv, TypeOK
  <2>2. view' = [view EXCEPT ![n] = UpdateShardState(@, a)] /\ member' = member
    BY <1>3 DEF HandleExit
  <2>3. m \in view'[m][t] <=> IF m = n /\ t = a.shard /\ m = a.peer THEN a.join ELSE m \in view[m][t]
    BY <2>1, <2>2, ViewChanges
  <2> QED BY <2>1, <2>2, <2>3, <1>a
<1>4. ASSUME NEW n \in Nodes, NEW a \in handling[n], FinishJoin(n, a)
      PROVE  m \in view'[m][t] <=> m \in member'[t]
  <2>1. a \in Announcement /\ a.join /\ a.peer \in member[a.shard]
    BY DEF JoinsInv, TypeOK
  <2>2. view' = [view EXCEPT ![n] = UpdateShardState(@, a)] /\ member' = member
    BY <1>4 DEF FinishJoin
  <2>3. m \in view'[m][t] <=> IF m = n /\ t = a.shard /\ m = a.peer THEN a.join ELSE m \in view[m][t]
    BY <2>1, <2>2, ViewChanges
  <2> QED BY <2>1, <2>2, <2>3, <1>a
<1>5. ASSUME NEW i \in images, SyncImage(i)
      PROVE  m \in view'[m][t] <=> m \in member'[t]
  <2>1. i \in Image /\ i.state[t] \subseteq member[t]
    BY DEF ImagesInv, TypeOK
  <2>2. view' = [view EXCEPT ![i.to] = MergeShardStates(@, i.state)] /\ member' = member
    BY <1>5 DEF SyncImage
  <2> QED BY <2>1, <2>2, <1>a, ViewChanges
<1>6. UNCHANGED <<view, member>> => (m \in view'[m][t] <=> m \in member'[t])
  BY <1>a
<1> QED
  BY StepCases, <1>1, <1>2, <1>3, <1>4, <1>5, <1>6
     DEF InitSharding, Broadcast, HandleJoin, PublishShardState, vars

\* Leaving without its comprehensions.
LEMMA LeavingIs ==
  ASSUME NEW m \in Nodes, NEW t \in Shards, NEW p
  PROVE  p \in Leaving(m, t) <=>
           \/ \E a \in gossip[m] : ~a.join /\ a.shard = t /\ a.peer = p
           \/ \E q \in Nodes : \E a \in call[q] : ~a.join /\ a.shard = t /\ a.peer = p
  BY DEF Leaving, Ahead

LEMMA SoundStep ==
  ASSUME ExitsApart, SoundInv, [Next]_vars
  PROVE  ViewsSound'
<1>0. TypeOK /\ JoinsInv /\ ExitInv /\ OnlineInv /\ ImagesInv /\ OwnInv /\ ViewsSound
  BY DEF SoundInv
<1> SUFFICES ASSUME NEW m \in Nodes, NEW t \in Shards, NEW p \in view'[m][t]
             PROVE  p \in member'[t] \cup Leaving(m, t)'
  BY DEF ViewsSound
<1> USE <1>0
<1> DEFINE Exit(a) == ~a.join /\ a.shard = t /\ a.peer = p
           Before == (\E a \in gossip[m] : Exit(a)) \/ \E q \in Nodes : \E a \in call[q] : Exit(a)
           After == (\E a \in gossip'[m] : Exit(a)) \/ \E q \in Nodes : \E a \in call'[q] : Exit(a)
<1>a. After => p \in Leaving(m, t)'
  BY DEF Leaving, Ahead
<1>b. p \in view[m][t] => p \in member[t] \/ Before
  BY LeavingIs DEF ViewsSound
<1> SUFFICES p \in member'[t] \/ After
  BY <1>a
<1>1. ASSUME NEW n \in Nodes, NEW s \in Shards, JoinNetwork(n, s) PROVE p \in member'[t] \/ After
  <2>1. call[n] = {} /\ gossip' = gossip /\ \A q \in Nodes \ {n} : call'[q] = call[q]
    BY <1>1, JoinCall DEF JoinNetwork
  <2>2. p \in view[m][t] \/ (t = s /\ p = n)
    BY <1>1, CallChanges
  <2>3. (t = s /\ p = n) \/ p \in member[t] => p \in member'[t]
    BY <1>1, CallChanges
  <2>4. Before => After
    BY <2>1
  <2> QED BY <2>2, <2>3, <2>4, <1>b
<1>2. ASSUME NEW n \in Nodes, NEW s \in Shards, ExitNetwork(n, s) PROVE p \in member'[t] \/ After
  <2>1. PICK a \in Announcement : ~a.join /\ a.peer = n /\ a.shard = s /\ call'[n] = {a}
    BY <1>2, ExitCall
  <2>2. ~Before
    BY <1>2 DEF ExitNetwork, Quiet
  <2>3. p \in view[m][t]
    BY <1>2, CallChanges
  <2>4. p \in member[t] => p \in member'[t] \/ (t = s /\ p = n)
    BY <1>2, CallChanges
  <2>5. t = s /\ p = n => After
    BY <2>1
  <2> QED BY <2>2, <2>3, <2>4, <2>5, <1>b
<1>3. ASSUME NEW n \in Nodes, Broadcast(n) PROVE p \in member'[t] \/ After
  <2>1. view' = view /\ member' = member
    BY <1>3 DEF Broadcast
  <2>2. m \in online
    BY <2>1 DEF OnlineInv
  <2>3. m = n /\ p = n => p \in member[t]
    BY <2>1 DEF OwnInv
  <2>4. \A a \in call[n] : a.peer = n
    BY DEF JoinsInv
  <2>5. m # n => gossip'[m] = gossip[m] \cup call[n]
    BY <1>3, <2>2 DEF Broadcast
  <2>6. gossip[m] \subseteq gossip'[m] /\ \A q \in Nodes \ {n} : call'[q] = call[q]
    BY <1>3 DEF Broadcast, TypeOK
  <2>7. ASSUME Before PROVE p \in member[t] \/ After
    BY <2>7, <2>3, <2>4, <2>5, <2>6
  <2> QED BY <2>1, <2>7, <1>b
<1>4. ASSUME NEW n \in Nodes, NEW a \in gossip[n], HandleJoin(n, a) PROVE p \in member'[t] \/ After
  <2>1. a.join /\ call' = call /\ gossip[m] \subseteq gossip'[m] \cup {a} /\ view' = view /\ member' = member
    BY <1>4 DEF HandleJoin, TypeOK
  <2>2. Before => After
    BY <2>1
  <2> QED BY <2>1, <2>2, <1>b
<1>5. ASSUME NEW n \in Nodes, NEW a \in gossip[n], HandleExit(n, a) PROVE p \in member'[t] \/ After
  <2>1. a \in Announcement /\ ~a.join
    BY <1>5 DEF HandleExit, TypeOK
  <2>2. view' = [view EXCEPT ![n] = UpdateShardState(@, a)] /\ member' = member /\ call' = call
    BY <1>5 DEF HandleExit
  <2>3. p \in view'[m][t] <=> IF m = n /\ t = a.shard /\ p = a.peer THEN a.join ELSE p \in view[m][t]
    BY <2>1, <2>2, ViewChanges
  <2>4. p \in view[m][t] /\ ~(m = n /\ t = a.shard /\ p = a.peer)
    BY <2>1, <2>3
  <2>5. IF m = n THEN gossip[m] \subseteq gossip'[m] \cup {a} ELSE gossip'[m] = gossip[m]
    BY <1>5 DEF HandleExit, TypeOK
  <2>6. Before => After
    BY <2>2, <2>4, <2>5
  <2> QED BY <2>2, <2>4, <2>6, <1>b
<1>6. ASSUME NEW n \in Nodes, NEW a \in handling[n], FinishJoin(n, a) PROVE p \in member'[t] \/ After
  <2>1. a \in Announcement /\ a.join /\ a.peer \in member[a.shard]
    BY DEF JoinsInv, TypeOK
  <2>2. /\ view' = [view EXCEPT ![n] = UpdateShardState(@, a)] /\ member' = member
        /\ call' = call /\ gossip' = gossip
    BY <1>6 DEF FinishJoin
  <2>3. p \in view'[m][t] <=> IF m = n /\ t = a.shard /\ p = a.peer THEN a.join ELSE p \in view[m][t]
    BY <2>1, <2>2, ViewChanges
  <2> QED BY <2>1, <2>2, <2>3, <1>b
<1>7. ASSUME NEW i \in images, SyncImage(i) PROVE p \in member'[t] \/ After
  <2>1. i \in Image /\ i.state[t] \subseteq member[t]
    BY DEF ImagesInv, TypeOK
  <2>2. /\ view' = [view EXCEPT ![i.to] = MergeShardStates(@, i.state)] /\ member' = member
        /\ call' = call /\ gossip' = gossip
    BY <1>7 DEF SyncImage
  <2>3. p \in view'[m][t] <=> p \in view[m][t] \/ (m = i.to /\ p \in i.state[t])
    BY <2>1, <2>2, ViewChanges
  <2> QED BY <2>1, <2>2, <2>3, <1>b
<1>8. UNCHANGED <<view, member, call, gossip>> => p \in member'[t] \/ After
  BY <1>b
<1> QED
  BY StepCases, <1>1, <1>2, <1>3, <1>4, <1>5, <1>6, <1>7, <1>8
     DEF InitSharding, PublishShardState, vars

LEMMA SoundInvStep ==
  ASSUME ExitsApart, SoundInv, [Next]_vars
  PROVE  SoundInv'
BY TypeStep, JoinsStep, ExitStep, OnlineStep, ImagesStep, OwnStep, SoundStep DEF SoundInv

LEMMA SoundInvInit == Init => SoundInv
<1> SUFFICES ASSUME Init PROVE SoundInv
  OBVIOUS
<1>1. TypeOK
  BY TypeInit
<1>2. JoinsInv /\ ExitInv /\ OnlineInv /\ ImagesInv /\ OwnInv /\ ViewsSound
  BY DEF Init, JoinsInv, ExitInv, OnlineInv, ImagesInv, OwnInv, ViewsSound
<1> QED BY <1>1, <1>2 DEF SoundInv

-----------------------------------------------------------------------------
(* Theorems: types, and views without nodes that have left *)

(***************************************************************************)
(* The state stays within its types, whatever the order of joins, exits,   *)
(* messages and images.                                                    *)
(***************************************************************************)
THEOREM TypeCorrect == Spec => []TypeOK
<1>1. TypeOK /\ [Next]_vars => TypeOK'
  BY TypeStep
<1> QED BY TypeInit, <1>1, PTL DEF Spec

(***************************************************************************)
(* While exits are apart from other calls, no view holds a node that is    *)
(* not in the shard, but for exits yet to be heard of: update_shard_state  *)
(* and merge_shard_states bring nobody back.                               *)
(***************************************************************************)
THEOREM ViewsSoundTheorem ==
  ASSUME ExitsApart
  PROVE  Spec => []ViewsSound
<1>1. SoundInv /\ [Next]_vars => SoundInv'
  BY SoundInvStep
<1>2. SoundInv => ViewsSound
  BY DEF SoundInv
<1> QED BY SoundInvInit, <1>1, <1>2, PTL DEF Spec

-----------------------------------------------------------------------------
(* Views agree once all is handled *)

LEMMA ToldStep ==
  ASSUME ExitsApart, SoundInv, ToldInv, [Next]_vars
  PROVE  ToldInv'
<1>0. TypeOK /\ JoinsInv /\ ExitInv /\ OnlineInv /\ ImagesInv /\ OwnInv
  BY DEF SoundInv
<1> SUFFICES ASSUME NEW m \in Nodes, NEW p \in Nodes, NEW s \in Shards, NEW t \in Shards,
                    m \in member'[t], p \in member'[s]
             PROVE  Told(m, p, s)'
  BY DEF ToldInv
<1> USE <1>0
<1> DEFINE
      Tells(a) == a.join /\ a.peer = p /\ a.shard = s
      Asks(a) == a.join /\ a.peer = m
      Bears(i) == i.to = m /\ p \in i.state[s]
<1>a. m \in member[t] /\ p \in member[s] => Told(m, p, s)
  BY DEF ToldInv
<1>1. ASSUME NEW n \in Nodes, InitSharding(n) PROVE Told(m, p, s)'
  BY <1>1, <1>a DEF InitSharding, Told
<1>2. ASSUME NEW n \in Nodes, NEW r \in Shards, JoinNetwork(n, r) PROVE Told(m, p, s)'
  <2>1. PICK a \in Announcement : /\ a.join /\ a.peer = n /\ a.shard = r
                                 /\ call[n] = {} /\ call'[n] = {a}
                                 /\ \A q \in Nodes \ {n} : call'[q] = call[q]
    BY <1>2, JoinCall
  <2>2. (m \in member[t] \/ (t = r /\ m = n)) /\ (p \in member[s] \/ (s = r /\ p = n))
    BY <1>2, CallChanges
  <2>3. CASE m = n \/ (s = r /\ p = n)
    BY <2>1, <2>3 DEF Told
  <2>4. CASE Told(m, p, s)
    <3>1. p \in view[m][s] => p \in view'[m][s]
      BY <1>2, CallChanges
    <3>2. \A q \in Nodes : call[q] \subseteq call'[q]
      BY <2>1
    <3> QED BY <1>2, <2>4, <3>1, <3>2 DEF JoinNetwork, Told
  <2> QED BY <2>2, <2>3, <2>4, <1>a
<1>3. ASSUME NEW n \in Nodes, NEW r \in Shards, ExitNetwork(n, r) PROVE Told(m, p, s)'
  <2>1. m \in member[t] /\ p \in member[s] /\ ~(s = r /\ p = n)
    BY <1>3, CallChanges
  <2>2. p \in view[m][s]
    BY <1>3, <2>1, <1>a DEF ExitNetwork, Quiet, Told
  <2>3. p \in view'[m][s]
    BY <1>3, <2>1, <2>2, CallChanges
  <2> QED BY <2>3 DEF Told
<1>4. ASSUME NEW n \in Nodes, Broadcast(n) PROVE Told(m, p, s)'
  <2>1. /\ view' = view /\ member' = member /\ handling' = handling
        /\ publishing' = publishing /\ images' = images
    BY <1>4 DEF Broadcast
  <2>2. m \in online /\ p \in online
    BY <2>1 DEF OnlineInv
  <2>3. \A q \in Nodes : gossip[q] \subseteq gossip'[q] /\ (q # n => call'[q] = call[q])
    BY <1>4 DEF Broadcast, TypeOK
  <2>4. \A q \in online \ {n} : call[n] \subseteq gossip'[q]
    BY <1>4 DEF Broadcast, TypeOK
  <2>5. CASE m = p
    BY <2>1, <2>5 DEF OwnInv, Told
  <2>6. CASE m # p
    <3>1. Told(m, p, s)
      BY <2>1, <1>a
    <3>2. ASSUME NEW a \in call[p] \cup gossip[m] \cup handling[m], Tells(a)
          PROVE  a \in call'[p] \cup gossip'[m] \cup handling'[m]
      BY <2>1, <2>2, <2>3, <2>4, <2>6
    <3>3. ASSUME NEW a \in call[m] \cup gossip[p], Asks(a)
          PROVE  a \in call'[m] \cup gossip'[p]
      BY <2>2, <2>3, <2>4, <2>6
    <3> QED BY <2>1, <3>1, <3>2, <3>3 DEF Told
  <2> QED BY <2>5, <2>6
<1>5. ASSUME NEW n \in Nodes, NEW a \in gossip[n], HandleJoin(n, a) PROVE Told(m, p, s)'
  <2>1. view' = view /\ member' = member /\ call' = call /\ images' = images /\ Told(m, p, s)
    BY <1>5, <1>a DEF HandleJoin
  <2>2. publishing \subseteq publishing' /\ <<n, a.peer, a.no>> \in publishing'
    BY <1>5 DEF HandleJoin
  <2>3. \A q \in Nodes : gossip[q] \subseteq gossip'[q] \/ (q = n /\ gossip[q] \subseteq gossip'[q] \cup {a})
    BY <1>5 DEF HandleJoin, TypeOK
  <2>4. handling[n] = {} /\ handling'[n] = {a} /\ \A q \in Nodes \ {n} : handling'[q] = handling[q]
    BY <1>5 DEF HandleJoin, TypeOK
  <2>5. ASSUME NEW b \in call[p] \cup gossip[m] \cup handling[m], Tells(b)
        PROVE  b \in call'[p] \cup gossip'[m] \cup handling'[m]
    BY <2>1, <2>3, <2>4
  <2>6. ASSUME NEW b \in call[m] \cup gossip[p], Asks(b)
        PROVE  \/ b \in call'[m] \cup gossip'[p]
               \/ \E u \in publishing' : u[1] = p /\ u[2] = m
    <3>1. CASE b = a /\ p = n
      <4>1. <<n, a.peer, a.no>>[1] = p /\ <<n, a.peer, a.no>>[2] = m
        BY <2>6, <3>1
      <4> QED BY <2>2, <4>1
    <3>2. CASE ~(b = a /\ p = n)
      BY <2>1, <2>3, <3>2
    <3> QED BY <3>1, <3>2
  <2> QED BY <2>1, <2>2, <2>5, <2>6 DEF Told
<1>6. ASSUME NEW n \in Nodes, NEW a \in gossip[n], HandleExit(n, a) PROVE Told(m, p, s)'
  <2>1. /\ member' = member /\ call' = call /\ images' = images /\ handling' = handling
        /\ publishing' = publishing /\ Told(m, p, s)
    BY <1>6, <1>a DEF HandleExit
  <2>2. a \in Announcement /\ ~a.join /\ a.peer \notin member[a.shard]
    BY <1>6 DEF HandleExit, ExitInv, TypeOK
  <2>3. view' = [view EXCEPT ![n] = UpdateShardState(@, a)]
    BY <1>6 DEF HandleExit
  <2>4. p \in view'[m][s] <=> IF m = n /\ s = a.shard /\ p = a.peer THEN a.join ELSE p \in view[m][s]
    BY <2>2, <2>3, ViewChanges
  <2>5. p \in view[m][s] => p \in view'[m][s]
    BY <2>1, <2>2, <2>4
  <2>6. \A q \in Nodes : gossip[q] \subseteq gossip'[q] \cup {a}
    BY <1>6 DEF HandleExit, TypeOK
  <2> QED BY <2>1, <2>2, <2>5, <2>6 DEF Told
<1>7. ASSUME NEW n \in Nodes, NEW a \in handling[n], FinishJoin(n, a) PROVE Told(m, p, s)'
  <2>1. /\ member' = member /\ call' = call /\ images' = images /\ gossip' = gossip
        /\ publishing' = publishing /\ Told(m, p, s)
    BY <1>7, <1>a DEF FinishJoin
  <2>2. a \in Announcement /\ a.join /\ handling[n] = {a}
    BY DEF JoinsInv, TypeOK
  <2>3. view' = [view EXCEPT ![n] = UpdateShardState(@, a)]
    BY <1>7 DEF FinishJoin
  <2>4. p \in view'[m][s] <=> IF m = n /\ s = a.shard /\ p = a.peer THEN a.join ELSE p \in view[m][s]
    BY <2>2, <2>3, ViewChanges
  <2>5. \A q \in Nodes \ {n} : handling'[q] = handling[q]
    BY <1>7 DEF FinishJoin, TypeOK
  <2>6. ASSUME NEW b \in call[p] \cup gossip[m] \cup handling[m], Tells(b)
        PROVE  b \in call'[p] \cup gossip'[m] \cup handling'[m] \/ p \in view'[m][s]
    BY <2>1, <2>2, <2>4, <2>5, <2>6
  <2> QED BY <2>1, <2>2, <2>4, <2>6 DEF Told
<1>8. ASSUME NEW u \in publishing, PublishShardState(u[1], u[2], u[3]) PROVE Told(m, p, s)'
  <2>1. /\ member' = member /\ call' = call /\ gossip' = gossip /\ view' = view
        /\ handling' = handling /\ Told(m, p, s)
    BY <1>8, <1>a DEF PublishShardState
  <2>2. u = <<u[1], u[2], u[3]>>
    BY DEF TypeOK
  <2>3. publishing' = publishing \ {u} /\ images \subseteq images'
    BY <1>8, <2>2 DEF PublishShardState
  <2>4. \E i \in images' : i.to = u[2] /\ i.state = view[u[1]]
    <3> DEFINE i == [from |-> u[1], to |-> u[2], no |-> u[3], state |-> view[u[1]]]
    <3>1. i \in images'
      BY <1>8 DEF PublishShardState
    <3>2. i.to = u[2] /\ i.state = view[u[1]]
      OBVIOUS
    <3> QED BY <3>1, <3>2
  <2>5. p \in view[p][s]
    BY <2>1 DEF OwnInv
  <2>6. u[1] = p /\ u[2] = m => \E i \in images' : Bears(i)
    BY <2>4, <2>5
  <2> QED BY <2>1, <2>3, <2>6 DEF Told
<1>9. ASSUME NEW i \in images, SyncImage(i) PROVE Told(m, p, s)'
  <2>1. /\ member' = member /\ call' = call /\ gossip' = gossip /\ publishing' = publishing
        /\ handling' = handling /\ Told(m, p, s) /\ images' = images \ {i}
    BY <1>9, <1>a DEF SyncImage
  <2>2. i \in Image /\ view' = [view EXCEPT ![i.to] = MergeShardStates(@, i.state)]
    BY <1>9 DEF SyncImage, TypeOK
  <2>3. p \in view'[m][s] <=> p \in view[m][s] \/ Bears(i)
    BY <2>2, ViewChanges
  <2> QED BY <2>1, <2>3 DEF Told
<1>10. ASSUME UNCHANGED vars PROVE Told(m, p, s)'
  BY <1>10, <1>a DEF vars, Told
<1> QED
  BY StepCases, <1>1, <1>2, <1>3, <1>4, <1>5, <1>6, <1>7, <1>8, <1>9, <1>10

\* At rest every node of a shard has been told of all, and of nobody else.
LEMMA ToldAgree ==
  ASSUME SoundInv, ToldInv
  PROVE  QuietViewsAgree
<1> SUFFICES ASSUME Quiet, NEW n \in UNION {member[s] : s \in Shards}
             PROVE  view[n] = member
  BY DEF QuietViewsAgree
<1>1. TypeOK /\ ViewsSound
  BY DEF SoundInv
<1>2. PICK t \in Shards : n \in member[t]
  OBVIOUS
<1>3. n \in Nodes /\ view[n] \in Views /\ member \in Views
  BY <1>1, <1>2 DEF TypeOK, Views
<1>4. \A m \in Nodes : \A b \in call[m] \cup gossip[m] : b.join
  BY DEF Quiet
<1>5. ASSUME NEW s \in Shards PROVE view[n][s] = member[s]
  <2>1. view[n][s] \subseteq member[s]
    BY <1>1, <1>3, <1>4, NoLeaving
  <2>2. ASSUME NEW p \in member[s] PROVE p \in view[n][s]
    <3>1. p \in Nodes
      BY <1>1 DEF TypeOK, Views
    <3>2. Told(n, p, s)
      BY <1>2, <1>3, <3>1 DEF ToldInv
    <3> QED BY <1>3, <3>1, <3>2 DEF Told, Quiet
  <2> QED BY <2>1, <2>2
<1> QED BY <1>3, <1>5 DEF Views

(***************************************************************************)
(* While exits are apart from other calls, all nodes of shards have the    *)
(* same view of all shards once every announcement and image is handled,   *)
(* and it is right (join_network, the SHARD_GOSSIP_JOIN_FLAG handler,      *)
(* publish_shard_state and merge_shard_states together).                   *)
(***************************************************************************)
THEOREM QuietViewsAgreeTheorem ==
  ASSUME ExitsApart
  PROVE  Spec => []QuietViewsAgree
<1>1. Init => SoundInv /\ ToldInv
  BY SoundInvInit DEF Init, ToldInv
<1>2. (SoundInv /\ ToldInv) /\ [Next]_vars => (SoundInv /\ ToldInv)'
  BY SoundInvStep, ToldStep
<1>3. SoundInv /\ ToldInv => QuietViewsAgree
  BY ToldAgree
<1> QED BY <1>1, <1>2, <1>3, PTL DEF Spec

=============================================================================
