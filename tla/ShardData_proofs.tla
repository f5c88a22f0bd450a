-------------------------- MODULE ShardData_proofs --------------------------
(***************************************************************************)
(* Proofs about ShardData, for all sets of nodes, shards and data.         *)
(***************************************************************************)
EXTENDS ShardData, ShardMembership_proofs, FiniteSetTheorems, FunctionTheorems, SequenceTheorems

-----------------------------------------------------------------------------
(* The parts of the inductive invariants *)

Call == [op : Ops, d : Data, left : SUBSET Nodes, to : SUBSET Nodes]
Rpc == [op : Ops, from : Nodes, to : Nodes, d : Data, answered : BOOLEAN, found : BOOLEAN]
Event == [forwarded : BOOLEAN, d : Data]
Outcome == {"none", "not_found", "no_nodes", "local", "pending", "done", "empty", "failed"}

CallTypes ==
  /\ ask \in [Nodes -> SUBSET Call]
  /\ rpcs \subseteq Rpc /\ IsFiniteSet(rpcs)
  /\ lost \in Nat
  /\ result \in [Ops -> [Data -> Outcome]]
  /\ taken \in [Data -> SUBSET Nodes]

CopyTypes ==
  /\ replicas \in [Shards -> SUBSET Nodes]
  /\ accepted \subseteq Nodes \X Data
  /\ news \in [Nodes -> SUBSET (Nodes \X Data)]
  /\ pushing \in [Nodes -> SUBSET (Nodes \X Data)]
  /\ repl \in [Nodes -> SUBSET (Nodes \X Data)]
  /\ events \in [Nodes -> Seq(Event)]
  /\ storage \in [Nodes -> [Data -> Nat]]

\* One call for each operation and datum, to one node at a time, and none twice.
CallsInv ==
  /\ \A n, m \in Nodes : \A c \in ask[n], e \in ask[m] :
       c.op = e.op /\ c.d = e.d => n = m /\ c = e
  /\ \A n \in Nodes : \A c, e \in ask[n] : c = e
  /\ \A n \in Nodes : \A c \in ask[n] : result[c.op][c.d] = "pending"
  /\ \A r \in rpcs : result[r.op][r.d] # "none"
  /\ \A d \in Data : taken[d] # {} => result["shard"][d] # "none"

\* The call of shard() for d may send its next RPC.
MaySend(d) == \E n \in Nodes : \E c \in ask[n] : c.op = "shard" /\ c.d = d /\ c.to = {}

\* RPCs of shard() for d that have yet to be served.
Unserved(d) == {r \in rpcs : r.op = "shard" /\ r.d = d /\ ~r.answered}

\* The nodes that have taken d and those that may yet: one for each RPC that
\* is waited for, or will be, and one for each given up.
CountInv ==
  \A d \in Data :
    Cardinality(taken[d]) + Cardinality(Unserved(d)) + (IF MaySend(d) THEN 1 ELSE 0) <= 1 + lost

RetriesInv == TypeOK /\ CallTypes /\ CopyTypes /\ CallsInv /\ CountInv

\* Once data is sharded nothing of membership is under way, nor will be.
ApartInv == (\E op \in Ops : \E d \in Data : result[op][d] # "none") => Quiet

\* Whoever is asked is in the shard, and so is whoever has taken the data.
AskedInv ==
  /\ \A n \in Nodes : \A c \in ask[n] : c.left \cup c.to \subseteq Keepers(c.d)
  /\ \A r \in rpcs : r.to \in Keepers(r.d)
  /\ \A d \in Data : taken[d] \subseteq Keepers(d)

PlacedInv == RetriesInv /\ ApartInv /\ AskedInv

\* No node is asked twice to take the same data, nor has it when it is asked.
FreshInv ==
  /\ \A n \in Nodes : \A c \in ask[n] : c.op = "shard" =>
       \A p \in c.left :
         p \notin taken[c.d] /\ \A r \in rpcs : ~(r.op = "shard" /\ r.d = c.d /\ r.to = p)
  /\ \A r \in rpcs : r.op = "shard" =>
       /\ r.answered <=> r.to \in taken[r.d]
       /\ \A q \in rpcs : q.op = "shard" /\ q.d = r.d /\ q.to = r.to => q = r

\* In a queue of events: one of forwarded data d, and none twice.
ForwardedIn(q, d) == \E k \in 1 .. Len(q) : q[k].forwarded /\ q[k].d = d
OnceEach(q) ==
  \A k, l \in 1 .. Len(q) : q[k].forwarded /\ q[l].forwarded /\ q[k].d = q[l].d => k = l

Forwarded(p, d) == ForwardedIn(events[p], d)

\* A replica is of data that its publisher took, and is at one place on its way;
\* its own data a node has by one event.
ReplicasInv == \A s \in Shards : member[s] \subseteq replicas[s]
ReplicaPlaces ==
  \A p \in Nodes :
    /\ \A x \in news[p] \cup pushing[p] \cup repl[p] :
         x[1] # p /\ x[1] \in taken[x[2]] /\ x \notin accepted
    /\ news[p] \cap pushing[p] = {}
    /\ (news[p] \cup pushing[p]) \cap repl[p] = {}
ForwardedPlaces ==
  /\ \A x \in accepted : x[1] \in taken[x[2]] /\ ~Forwarded(x[1], x[2])
  /\ \A p \in Nodes : OnceEach(events[p])
  /\ \A p \in Nodes : \A d \in Data : Forwarded(p, d) => p \in taken[d]
PlacesInv == ReplicasInv /\ ReplicaPlaces /\ ForwardedPlaces

\* The copy of d that q took has not come to the storage of p yet.
OnItsWay(p, q, d) ==
  \/ <<q, d>> \in accepted
  \/ IF p = q THEN Forwarded(p, d) ELSE <<q, d>> \in news[p] \cup pushing[p] \cup repl[p]

\* The copies of d that have come to the storage of p.
Settled(p, d) == {q \in taken[d] : ~OnItsWay(p, q, d)}

NoneStored == \A p \in Nodes : \A d \in Data : taken[d] = {} => storage[p][d] = 0
AllStored ==
  \A d \in OneWord : \A p \in Keepers(d) : storage[p][d] = Cardinality(Settled(p, d))
StoredInv == NoneStored /\ AllStored

KeptInv == PlacedInv /\ FreshInv /\ PlacesInv /\ StoredInv

\* p has a copy of d.
Holds(p, d) == storage[p][d] > 0 \/ \E x \in repl[p] : x[2] = d

\* shard() has placed d, at a node that answered.
Placed(d) == result["shard"][d] \in {"local", "done"}

\* shard() is over for d; if it has placed d, then all of S have a copy.
HeldBy(d, S) ==
  /\ result["shard"][d] \notin {"none", "pending"}
  /\ d \in OneWord /\ Placed(d) => \A p \in S : Holds(p, d)

\* What shard() has placed is at every node that fetch() asks or is to ask.
AskedHoldInv ==
  /\ \A n \in Nodes : \A c \in ask[n] : c.op = "fetch" => HeldBy(c.d, c.left \cup c.to)
  /\ \A r \in rpcs : r.op = "fetch" => HeldBy(r.d, {r.to})

\* A call of shard() is pending only while it asks, and is done only by an
\* answer of a node that took the data.
PendingInv ==
  \A d \in Data : result["shard"][d] = "pending" =>
    \E n \in Nodes : \E c \in ask[n] : c.op = "shard" /\ c.d = d
PlacedTakenInv ==
  /\ \A r \in rpcs : r.op = "shard" /\ r.answered => r.found
  /\ \A d \in Data : Placed(d) => taken[d] # {}

HoldersInv == AskedHoldInv /\ PendingInv /\ PlacedTakenInv

-----------------------------------------------------------------------------
(* The steps *)

\* NetworkNext and stuttering, one action at a time.
LEMMA NetworkCases ==
  ASSUME [NetworkNext]_networkVars
  PROVE  \/ /\ UNCHANGED dataVars /\ [Next]_vars
            /\ Quiet => NoDataYet \/ UNCHANGED vars
            /\ UNCHANGED member \/ \E n \in Nodes, s \in Shards : ExitNetwork(n, s)
         \/ \E n \in Nodes, s \in Shards : JoinShard(n, s)
         \/ \E n \in Nodes, op \in Ops, d \in Data : NobodyToAsk(n, op, d)
         \/ \E n \in Nodes, d \in Data : ShardLocally(n, d)
         \/ \E n \in Nodes, d \in Data : FetchLocally(n, d)
         \/ \E n \in Nodes, op \in Ops, d \in Data : AskOthers(n, op, d)
         \/ \E n \in Nodes : \E c \in ask[n] : \E p \in c.left : SendRpc(n, c, p)
         \/ \E n \in Nodes : \E c \in ask[n] : \E r \in rpcs : AnswerArrives(n, c, r)
         \/ \E n \in Nodes : \E c \in ask[n] : \E r \in rpcs : RpcFails(n, c, r)
         \/ \E n \in Nodes : \E c \in ask[n] : AllFailed(n, c)
         \/ \E r \in rpcs : TakeForwarded(r)
         \/ \E r \in rpcs : ServeFetch(r)
         \/ \E x \in accepted : HandleIncomingShardData(x[1], x[2])
         \/ \E p \in Nodes : \E x \in news[p] : AnnounceReplica(p, x)
         \/ \E p \in Nodes : \E x \in pushing[p] : PushReplica(p, x)
         \/ \E p \in Nodes : StoreForwarded(p)
         \/ \E p \in Nodes : StoreReplica(p)
<1>1. ASSUME MembershipStep
      PROVE  UNCHANGED dataVars /\ Next /\ ~Quiet /\ UNCHANGED member
  <2>1. UNCHANGED dataVars /\ Next
    BY <1>1 DEF MembershipStep, Next
  <2>2. ~Quiet
    BY <1>1 DEF MembershipStep, Quiet, Broadcast
  <2>3. UNCHANGED member
    BY <1>1 DEF MembershipStep, Broadcast, HandleJoin, HandleExit, FinishJoin,
                PublishShardState, SyncImage
  <2> QED BY <2>1, <2>2, <2>3
<1>2. ASSUME NEW n \in Nodes, StartNode(n)
      PROVE  UNCHANGED dataVars /\ Next /\ NoDataYet /\ UNCHANGED member
  BY <1>2 DEF StartNode, Next, InitSharding
<1>3. ASSUME NEW n \in Nodes, NEW s \in Shards, ExitShard(n, s)
      PROVE  UNCHANGED dataVars /\ Next /\ NoDataYet /\ ExitNetwork(n, s)
  BY <1>3 DEF ExitShard, Next
<1>4. UNCHANGED networkVars => UNCHANGED dataVars /\ UNCHANGED vars /\ UNCHANGED member
  BY DEF networkVars, vars
<1>5. "shard" \in Ops /\ "fetch" \in Ops
  BY DEF Ops
<1>6. ASSUME CallStep
      PROVE  \/ \E n \in Nodes, op \in Ops, d \in Data : NobodyToAsk(n, op, d)
             \/ \E n \in Nodes, d \in Data : ShardLocally(n, d)
             \/ \E n \in Nodes, d \in Data : FetchLocally(n, d)
             \/ \E n \in Nodes, op \in Ops, d \in Data : AskOthers(n, op, d)
             \/ \E n \in Nodes : \E c \in ask[n] : \E p \in c.left : SendRpc(n, c, p)
             \/ \E n \in Nodes : \E c \in ask[n] : \E r \in rpcs : AnswerArrives(n, c, r)
             \/ \E n \in Nodes : \E c \in ask[n] : \E r \in rpcs : RpcFails(n, c, r)
             \/ \E n \in Nodes : \E c \in ask[n] : AllFailed(n, c)
  BY <1>5, <1>6 DEF CallStep, UserShards, UserFetches
<1> QED
  BY <1>1, <1>2, <1>3, <1>4, <1>6 DEF NetworkNext, MemberStep

\* The data layer leaves the views to the membership layer.
LEMMA MembershipPart ==
  ASSUME [NetworkNext]_networkVars
  PROVE  [Next]_vars
<1>1. ASSUME NEW n \in Nodes, NEW s \in Shards, JoinShard(n, s) PROVE Next
  BY <1>1 DEF JoinShard, Next
<1> QED
  BY NetworkCases, <1>1
     DEF NobodyToAsk, ShardLocally, FetchLocally, AskOthers, SendRpc, AnswerArrives, RpcFails,
         AllFailed, TakeForwarded, ServeFetch, HandleIncomingShardData, AnnounceReplica,
         PushReplica, StoreForwarded, StoreReplica

LEMMA CallTypesInit == NetworkInit => CallTypes /\ CallsInv
<1> SUFFICES ASSUME NetworkInit PROVE CallTypes /\ CallsInv
  OBVIOUS
<1>1. IsFiniteSet(rpcs)
  BY FS_EmptySet DEF NetworkInit, DataInit
<1> QED BY <1>1 DEF NetworkInit, DataInit, CallTypes, CallsInv, Ops, Outcome

\* The RPC that goes out, and what remains of one that is served.
LEMMA RpcsStay ==
  ASSUME CallTypes
  PROVE  /\ \A n \in Nodes : \A c \in ask[n] : \A p \in c.left : SendRpc(n, c, p) =>
              rpcs' \subseteq Rpc /\ IsFiniteSet(rpcs')
         /\ \A r \in rpcs : \A f \in BOOLEAN : SetsOut(r, f) =>
              rpcs' \subseteq Rpc /\ IsFiniteSet(rpcs')
         /\ \A r \in rpcs : rpcs \ {r} \subseteq Rpc /\ IsFiniteSet(rpcs \ {r})
<1> USE DEF CallTypes
<1>1. ASSUME NEW n \in Nodes, NEW c \in ask[n], NEW p \in c.left, SendRpc(n, c, p)
      PROVE  rpcs' \subseteq Rpc /\ IsFiniteSet(rpcs')
  <2> DEFINE r == [op |-> c.op, from |-> n, to |-> p, d |-> c.d, answered |-> FALSE, found |-> FALSE]
  <2>1. c \in Call
    OBVIOUS
  <2>2. r \in Rpc
    BY <2>1 DEF Call, Rpc
  <2>3. rpcs' = rpcs \cup {r}
    BY <1>1 DEF SendRpc
  <2> HIDE DEF r
  <2>4. IsFiniteSet(rpcs \cup {r})
    BY FS_AddElement
  <2> QED BY <2>2, <2>3, <2>4
<1>2. ASSUME NEW r \in rpcs, NEW f \in BOOLEAN, SetsOut(r, f)
      PROVE  rpcs' \subseteq Rpc /\ IsFiniteSet(rpcs')
  <2> DEFINE a == [r EXCEPT !.answered = TRUE, !.found = f]
  <2>1. a \in Rpc
    BY DEF Rpc
  <2>2. rpcs' = (rpcs \ {r}) \cup {a} \/ rpcs' = rpcs \ {r}
    BY <1>2 DEF SetsOut
  <2> HIDE DEF a
  <2>3. IsFiniteSet(rpcs \ {r})
    BY FS_RemoveElement
  <2>4. IsFiniteSet((rpcs \ {r}) \cup {a})
    BY <2>3, FS_AddElement
  <2> QED BY <2>1, <2>2, <2>3, <2>4
<1>3. ASSUME NEW r \in rpcs PROVE rpcs \ {r} \subseteq Rpc /\ IsFiniteSet(rpcs \ {r})
  BY FS_RemoveElement
<1> QED BY <1>1, <1>2, <1>3

\* A call after it has sent an RPC.
LEMMA CallGoesOn ==
  ASSUME NEW c \in Call, NEW q \in SUBSET Nodes, NEW l \in SUBSET Nodes
  PROVE  [c EXCEPT !.to = q, !.left = l] \in Call
BY DEF Call

LEMMA CallTypesStep ==
  ASSUME CallTypes, CopyTypes, TypeOK, [NetworkNext]_networkVars
  PROVE  CallTypes'
<1> USE DEF CallTypes
<1> USE DEF calling, placing, dataVars
<1>a. "shard" \in Ops /\ "fetch" \in Ops
  BY DEF Ops
<1>b. \A n \in Nodes : \A c \in ask[n] : c \in Call /\ c.op \in Ops /\ c.d \in Data
  BY DEF Call
<1>c. \A r \in rpcs : r \in Rpc /\ r.op \in Ops /\ r.d \in Data /\ r.to \in Nodes /\ r.from \in Nodes
  BY DEF Rpc
<1>d. {"not_found", "no_nodes", "local", "pending", "done", "empty", "failed"} \subseteq Outcome
  BY DEF Outcome
<1>1. UNCHANGED dataVars => CallTypes'
  OBVIOUS
<1>2. ASSUME NEW n \in Nodes, NEW s \in Shards, JoinShard(n, s) PROVE CallTypes'
  BY <1>2 DEF JoinShard
<1>3. ASSUME NEW n \in Nodes, NEW op \in Ops, NEW d \in Data, NobodyToAsk(n, op, d)
      PROVE  CallTypes'
  BY <1>3, <1>d DEF NobodyToAsk, Returns
<1>4. ASSUME NEW n \in Nodes, NEW d \in Data, ShardLocally(n, d) PROVE CallTypes'
  BY <1>4, <1>a, <1>d DEF ShardLocally, Returns
<1>5. ASSUME NEW n \in Nodes, NEW d \in Data, FetchLocally(n, d) PROVE CallTypes'
  BY <1>5, <1>a, <1>d DEF FetchLocally, Returns
<1>6. ASSUME NEW n \in Nodes, NEW op \in Ops, NEW d \in Data, AskOthers(n, op, d)
      PROVE  CallTypes'
  <2>1. PICK s : ask' = [ask EXCEPT ![n] = {[op |-> op, d |-> d, left |-> Known(n, s), to |-> {}]}]
    BY <1>6 DEF AskOthers
  <2>2. Known(n, s) \subseteq Nodes
    BY DEF Known, TypeOK, Views
  <2>3. [op |-> op, d |-> d, left |-> Known(n, s), to |-> {}] \in Call
    BY <2>2 DEF Call
  <2>4. ask' \in [Nodes -> SUBSET Call]
    BY <2>1, <2>3
  <2> QED BY <1>6, <2>4, <1>d DEF AskOthers, Returns
<1>7. ASSUME NEW n \in Nodes, NEW c \in ask[n], NEW p \in c.left, SendRpc(n, c, p)
      PROVE  CallTypes'
  <2>1. rpcs' \subseteq Rpc /\ IsFiniteSet(rpcs')
    BY <1>7, RpcsStay
  <2>2. p \in Nodes
    BY <1>b DEF Call
  <2>3. [c EXCEPT !.to = {p}, !.left = @ \ {p}] \in Call
    <3>1. c \in Call /\ {p} \in SUBSET Nodes /\ c.left \ {p} \in SUBSET Nodes
      BY <1>b, <2>2 DEF Call
    <3> QED BY <3>1, CallGoesOn
  <2>4. ask' \in [Nodes -> SUBSET Call]
    BY <1>7, <2>3 DEF SendRpc
  <2> QED BY <1>7, <2>1, <2>4 DEF SendRpc
<1>8. ASSUME NEW n \in Nodes, NEW c \in ask[n], NEW r \in rpcs, AnswerArrives(n, c, r)
      PROVE  CallTypes'
  <2>1. rpcs' \subseteq Rpc /\ IsFiniteSet(rpcs')
    BY <1>8, RpcsStay DEF AnswerArrives
  <2>2. ask' \in [Nodes -> SUBSET Call]
    BY <1>8 DEF AnswerArrives, AnswerEndsCall
  <2>3. result' \in [Ops -> [Data -> Outcome]]
    BY <1>8, <1>b, <1>d DEF AnswerArrives, Returns
  <2> QED BY <1>8, <2>1, <2>2, <2>3 DEF AnswerArrives
<1>9. ASSUME NEW n \in Nodes, NEW c \in ask[n], NEW r \in rpcs, RpcFails(n, c, r)
      PROVE  CallTypes'
  <2>1. rpcs' \subseteq Rpc /\ IsFiniteSet(rpcs')
    BY <1>9, RpcsStay DEF RpcFails
  <2>2. [c EXCEPT !.to = {}] \in Call
    BY <1>b DEF Call
  <2>3. ask' \in [Nodes -> SUBSET Call]
    BY <1>9, <2>2 DEF RpcFails
  <2>4. lost' \in Nat
    BY <1>9 DEF RpcFails
  <2> QED BY <1>9, <2>1, <2>3, <2>4 DEF RpcFails
<1>10. ASSUME NEW n \in Nodes, NEW c \in ask[n], AllFailed(n, c) PROVE CallTypes'
  BY <1>10, <1>b, <1>d DEF AllFailed, Returns
<1>11. ASSUME NEW r \in rpcs, TakeForwarded(r) PROVE CallTypes'
  <2>1. rpcs' \subseteq Rpc /\ IsFiniteSet(rpcs')
    BY <1>11, RpcsStay DEF TakeForwarded
  <2>2. taken' \in [Data -> SUBSET Nodes]
    BY <1>11, <1>c DEF TakeForwarded
  <2> QED BY <1>11, <2>1, <2>2 DEF TakeForwarded
<1>12. ASSUME NEW r \in rpcs, ServeFetch(r) PROVE CallTypes'
  <2>1. (storage[r.to][r.d] > 0) \in BOOLEAN
    OBVIOUS
  <2>2. rpcs' \subseteq Rpc /\ IsFiniteSet(rpcs')
    BY <1>12, <2>1, RpcsStay DEF ServeFetch
  <2> QED BY <1>12, <2>2 DEF ServeFetch
<1>13. ASSUME NEW p \in Nodes, NEW d \in Data, HandleIncomingShardData(p, d) PROVE CallTypes'
  BY <1>13 DEF HandleIncomingShardData
<1>14. ASSUME NEW p \in Nodes, \/ \E x \in news[p] : AnnounceReplica(p, x)
                               \/ \E x \in pushing[p] : PushReplica(p, x)
                               \/ StoreForwarded(p) \/ StoreReplica(p)
       PROVE  CallTypes'
  BY <1>14 DEF AnnounceReplica, PushReplica, StoreForwarded, StoreReplica
<1>15. \A x \in accepted : x[1] \in Nodes /\ x[2] \in Data
  BY DEF CopyTypes
<1> QED
  BY NetworkCases, <1>1, <1>2, <1>3, <1>4, <1>5, <1>6, <1>7, <1>8, <1>9, <1>10, <1>11,
     <1>12, <1>13, <1>14, <1>15

\* Results change only for the datum of the call that begins or ends.
LEMMA ReturnsFacts ==
  ASSUME CallTypes, NEW op \in Ops, NEW d \in Data, NEW o \in Outcome, Returns(op, d, o)
  PROVE  \A k \in Ops : \A e \in Data :
           result'[k][e] = IF k = op /\ e = d THEN o ELSE result[k][e]
  BY DEF CallTypes, Returns

LEMMA CallsStep ==
  ASSUME CallTypes, CopyTypes, TypeOK, CallsInv, [NetworkNext]_networkVars
  PROVE  CallsInv'
<1> USE DEF calling, placing, dataVars
<1>a. "shard" \in Ops /\ "fetch" \in Ops
  BY DEF Ops
<1>b. \A n \in Nodes : \A c \in ask[n] : c \in Call /\ c.op \in Ops /\ c.d \in Data
  BY DEF Call, CallTypes
<1>c. \A r \in rpcs : r \in Rpc /\ r.op \in Ops /\ r.d \in Data /\ r.to \in Nodes /\ r.from \in Nodes
  BY DEF Rpc, CallTypes
<1>d. /\ {"not_found", "no_nodes", "local", "pending", "done", "empty", "failed"} \subseteq Outcome
      /\ \A o \in {"not_found", "no_nodes", "local", "done", "empty", "failed"} :
           o # "none" /\ o # "pending"
      /\ "pending" # "none"
  BY DEF Outcome
<1>1. UNCHANGED dataVars => CallsInv'
  BY DEF CallsInv
<1>2. ASSUME NEW n \in Nodes, NEW s \in Shards, JoinShard(n, s) PROVE CallsInv'
  BY <1>2 DEF JoinShard, CallsInv
\* A call that begins and ends at once.
<1>e. ASSUME NEW n \in Nodes, NEW op \in Ops, NEW d \in Data, result[op][d] = "none",
             NEW o \in {"not_found", "no_nodes", "local"}, Returns(op, d, o),
             UNCHANGED <<ask, rpcs>>, taken' = taken \/ (op = "shard" /\ \A e \in Data \ {d} : taken'[e] = taken[e])
      PROVE  CallsInv'
  <2>1. \A k \in Ops : \A e \in Data : result'[k][e] = IF k = op /\ e = d THEN o ELSE result[k][e]
    BY <1>e, <1>d, ReturnsFacts
  <2>2. \A m \in Nodes : \A c \in ask[m] : ~(c.op = op /\ c.d = d)
    BY <1>e, <1>d DEF CallsInv
  <2>3. \A m \in Nodes : \A c \in ask'[m] : result'[c.op][c.d] = "pending"
    BY <1>e, <1>b, <2>1, <2>2 DEF CallsInv
  <2>4. \A r \in rpcs' : result'[r.op][r.d] # "none"
    BY <1>e, <1>c, <1>d, <2>1 DEF CallsInv
  <2>5. \A e \in Data : taken'[e] # {} => result'["shard"][e] # "none"
    BY <1>a, <1>e, <1>d, <2>1 DEF CallsInv
  <2> QED BY <1>e, <2>3, <2>4, <2>5 DEF CallsInv
<1>3. ASSUME NEW n \in Nodes, NEW op \in Ops, NEW d \in Data, NobodyToAsk(n, op, d)
      PROVE  CallsInv'
  BY <1>3, <1>e DEF NobodyToAsk, Starts
<1>4. ASSUME NEW n \in Nodes, NEW d \in Data, ShardLocally(n, d) PROVE CallsInv'
  <2>1. \A e \in Data \ {d} : taken'[e] = taken[e]
    BY <1>4 DEF ShardLocally, CallTypes
  <2> QED BY <1>4, <1>a, <1>e, <2>1 DEF ShardLocally, Starts
<1>5. ASSUME NEW n \in Nodes, NEW d \in Data, FetchLocally(n, d) PROVE CallsInv'
  BY <1>5, <1>a, <1>e DEF FetchLocally, Starts
<1>6. ASSUME NEW n \in Nodes, NEW op \in Ops, NEW d \in Data, AskOthers(n, op, d)
      PROVE  CallsInv'
  <2>1. PICK e : /\ ask' = [ask EXCEPT ![n] = {e}] /\ e.op = op /\ e.d = d
    <3>1. PICK s : ask' = [ask EXCEPT ![n] = {[op |-> op, d |-> d, left |-> Known(n, s), to |-> {}]}]
      BY <1>6 DEF AskOthers
    <3> DEFINE e == [op |-> op, d |-> d, left |-> Known(n, s), to |-> {}]
    <3>2. e.op = op /\ e.d = d /\ ask' = [ask EXCEPT ![n] = {e}]
      BY <3>1
    <3> HIDE DEF e
    <3> QED BY <3>2
  <2>2. ask'[n] = {e} /\ \A m \in Nodes \ {n} : ask'[m] = ask[m]
    BY <2>1 DEF CallTypes
  <2>3. \A k \in Ops : \A f \in Data :
          result'[k][f] = IF k = op /\ f = d THEN "pending" ELSE result[k][f]
    BY <1>6, <1>d, ReturnsFacts DEF AskOthers
  <2>4. result[op][d] = "none" /\ rpcs' = rpcs /\ taken' = taken
    BY <1>6 DEF AskOthers, Starts
  <2>5. \A m \in Nodes : \A c \in ask[m] : ~(c.op = op /\ c.d = d)
    BY <2>4, <1>d DEF CallsInv
  <2>6. \A m \in Nodes : \A c \in ask'[m] : result'[c.op][c.d] = "pending"
    BY <1>b, <2>1, <2>2, <2>3 DEF CallsInv
  <2>7. \A r \in rpcs' : result'[r.op][r.d] # "none"
    BY <1>c, <1>d, <2>3, <2>4 DEF CallsInv
  <2>8. \A f \in Data : taken'[f] # {} => result'["shard"][f] # "none"
    BY <1>a, <1>d, <2>3, <2>4 DEF CallsInv
  <2>9. \A m, q \in Nodes : \A c \in ask'[m], f \in ask'[q] :
          c.op = f.op /\ c.d = f.d => m = q /\ c = f
    BY <2>1, <2>2, <2>5 DEF CallsInv
  <2>10. \A m \in Nodes : \A c, f \in ask'[m] : c = f
    BY <2>2 DEF CallsInv
  <2> QED BY <2>6, <2>7, <2>8, <2>9, <2>10 DEF CallsInv
\* A call that goes on, the same but for whom it has asked.
<1>f. ASSUME NEW n \in Nodes, NEW c \in ask[n], NEW e, e.op = c.op, e.d = c.d,
             ask' = [ask EXCEPT ![n] = {e}], UNCHANGED <<result, taken>>,
             \A r \in rpcs' : \/ \E q \in rpcs : q.op = r.op /\ q.d = r.d
                              \/ r.op = c.op /\ r.d = c.d
      PROVE  CallsInv'
  <2>1. ask'[n] = {e} /\ \A m \in Nodes \ {n} : ask'[m] = ask[m]
    BY <1>f DEF CallTypes
  <2>2. \A m \in Nodes : \A g \in ask'[m] : \E f \in ask[m] : f.op = g.op /\ f.d = g.d /\ (m # n => f = g)
    BY <1>f, <2>1
  <2>3. \A m \in Nodes : \A g \in ask'[m] : result'[g.op][g.d] = "pending"
    BY <1>f, <2>2 DEF CallsInv
  <2>4. \A m, q \in Nodes : \A g \in ask'[m], f \in ask'[q] :
          g.op = f.op /\ g.d = f.d => m = q /\ g = f
    BY <2>1, <2>2 DEF CallsInv
  <2>5. \A r \in rpcs' : result'[r.op][r.d] # "none"
    BY <1>f, <1>d DEF CallsInv
  <2>6. \A m \in Nodes : \A g, f \in ask'[m] : g = f
    BY <2>1 DEF CallsInv
  <2> QED BY <1>f, <2>3, <2>4, <2>5, <2>6 DEF CallsInv
<1>7. ASSUME NEW n \in Nodes, NEW c \in ask[n], NEW p \in c.left, SendRpc(n, c, p)
      PROVE  CallsInv'
  <2> DEFINE e == [c EXCEPT !.to = {p}, !.left = @ \ {p}]
  <2>1. e.op = c.op /\ e.d = c.d
    BY <1>b DEF Call
  <2>2. ask' = [ask EXCEPT ![n] = {e}] /\ UNCHANGED <<result, taken>>
    BY <1>7 DEF SendRpc
  <2>3. \A r \in rpcs' : r \in rpcs \/ (r.op = c.op /\ r.d = c.d)
    BY <1>7 DEF SendRpc
  <2> HIDE DEF e
  <2> QED BY <2>1, <2>2, <2>3, <1>f
<1>8. ASSUME NEW n \in Nodes, NEW c \in ask[n], NEW o \in {"done", "empty", "failed"},
             ask' = [ask EXCEPT ![n] = {}], Returns(c.op, c.d, o),
             rpcs' \subseteq rpcs, taken' = taken
      PROVE  CallsInv'
  <2>1. ask'[n] = {} /\ \A m \in Nodes \ {n} : ask'[m] = ask[m]
    BY <1>8 DEF CallTypes
  <2>2. \A k \in Ops : \A f \in Data :
          result'[k][f] = IF k = c.op /\ f = c.d THEN o ELSE result[k][f]
    BY <1>8, <1>b, <1>d, ReturnsFacts
  <2>3. \A m \in Nodes : \A g \in ask'[m] : g \in ask[m] /\ ~(g.op = c.op /\ g.d = c.d)
    BY <2>1 DEF CallsInv
  <2>4. \A m \in Nodes : \A g \in ask'[m] : result'[g.op][g.d] = "pending"
    BY <1>b, <2>2, <2>3 DEF CallsInv
  <2>5. \A r \in rpcs' : result'[r.op][r.d] # "none"
    BY <1>8, <1>c, <1>d, <2>2 DEF CallsInv
  <2>6. \A f \in Data : taken'[f] # {} => result'["shard"][f] # "none"
    BY <1>8, <1>a, <1>d, <2>2 DEF CallsInv
  <2> QED BY <2>3, <2>4, <2>5, <2>6 DEF CallsInv
<1>9. ASSUME NEW n \in Nodes, NEW c \in ask[n], NEW r \in rpcs, AnswerArrives(n, c, r)
      PROVE  CallsInv'
  <2> DEFINE o == IF r.found THEN "done" ELSE "empty"
  <2>1. o \in {"done", "empty", "failed"} /\ Returns(c.op, c.d, o)
    BY <1>9 DEF AnswerArrives
  <2>2. ask' = [ask EXCEPT ![n] = {}] /\ rpcs' \subseteq rpcs /\ taken' = taken
    BY <1>9 DEF AnswerArrives, AnswerEndsCall
  <2> QED BY <2>1, <2>2, <1>8
<1>10. ASSUME NEW n \in Nodes, NEW c \in ask[n], NEW r \in rpcs, RpcFails(n, c, r)
       PROVE  CallsInv'
  <2> DEFINE e == [c EXCEPT !.to = {}]
  <2>1. e.op = c.op /\ e.d = c.d
    BY <1>b DEF Call
  <2>2. ask' = [ask EXCEPT ![n] = {e}] /\ UNCHANGED <<result, taken>> /\ rpcs' \subseteq rpcs
    BY <1>10 DEF RpcFails
  <2> HIDE DEF e
  <2> QED BY <2>1, <2>2, <1>f
<1>11. ASSUME NEW n \in Nodes, NEW c \in ask[n], AllFailed(n, c) PROVE CallsInv'
  BY <1>11, <1>8 DEF AllFailed
\* An RPC that is served.
<1>g. ASSUME NEW r \in rpcs, NEW f \in BOOLEAN, SetsOut(r, f), UNCHANGED <<ask, result>>,
             taken' = taken \/ (r.op = "shard" /\ \A d \in Data \ {r.d} : taken'[d] = taken[d])
      PROVE  CallsInv'
  <2>1. \A q \in rpcs' : \E k \in rpcs : k.op = q.op /\ k.d = q.d
    BY <1>g, <1>c DEF SetsOut, Rpc
  <2> QED BY <1>g, <2>1 DEF CallsInv
<1>12. ASSUME NEW r \in rpcs, TakeForwarded(r) PROVE CallsInv'
  <2>1. \A d \in Data \ {r.d} : taken'[d] = taken[d]
    BY <1>12 DEF TakeForwarded, CallTypes
  <2> QED BY <1>12, <1>g, <2>1 DEF TakeForwarded
<1>13. ASSUME NEW r \in rpcs, ServeFetch(r) PROVE CallsInv'
  <2>1. (storage[r.to][r.d] > 0) \in BOOLEAN
    OBVIOUS
  <2> QED BY <1>13, <1>g, <2>1 DEF ServeFetch
<1>14. ASSUME NEW p \in Nodes, NEW d \in Data, HandleIncomingShardData(p, d) PROVE CallsInv'
  BY <1>14 DEF HandleIncomingShardData, CallsInv
<1>15. ASSUME NEW p \in Nodes, \/ \E x \in news[p] : AnnounceReplica(p, x)
                               \/ \E x \in pushing[p] : PushReplica(p, x)
                               \/ StoreForwarded(p) \/ StoreReplica(p)
       PROVE  CallsInv'
  BY <1>15 DEF AnnounceReplica, PushReplica, StoreForwarded, StoreReplica, CallsInv
<1>16. \A x \in accepted : x[1] \in Nodes /\ x[2] \in Data
  BY DEF CopyTypes
<1> QED
  BY NetworkCases, <1>1, <1>2, <1>3, <1>4, <1>5, <1>6, <1>7, <1>9, <1>10, <1>11, <1>12,
     <1>13, <1>14, <1>15, <1>16

LEMMA CopyTypesInit == NetworkInit => CopyTypes
  BY DEF NetworkInit, DataInit, CopyTypes, Event

LEMMA GossipedType ==
  ASSUME CopyTypes, NEW n \in Nodes, NEW s, NEW d \in Data
  PROVE  Gossiped(n, s, d) \in [Nodes -> SUBSET (Nodes \X Data)]
BY DEF Gossiped, CopyTypes

LEMMA CopyTypesStep ==
  ASSUME CallTypes, CopyTypes, [NetworkNext]_networkVars
  PROVE  CopyTypes'
<1> USE DEF CopyTypes, placing, replication, application, dataVars
<1>1. UNCHANGED dataVars => CopyTypes'
  OBVIOUS
<1>2. ASSUME NEW n \in Nodes, NEW s \in Shards, JoinShard(n, s) PROVE CopyTypes'
  BY <1>2 DEF JoinShard
<1>3. ASSUME NEW n \in Nodes, NEW op \in Ops, NEW d \in Data, \/ NobodyToAsk(n, op, d)
                                                             \/ FetchLocally(n, d)
                                                             \/ AskOthers(n, op, d)
      PROVE  CopyTypes'
  BY <1>3 DEF NobodyToAsk, FetchLocally, AskOthers
<1>4. ASSUME NEW n \in Nodes, NEW d \in Data, ShardLocally(n, d) PROVE CopyTypes'
  <2>1. news' \in [Nodes -> SUBSET (Nodes \X Data)]
    BY <1>4, GossipedType DEF ShardLocally
  <2>2. storage' \in [Nodes -> [Data -> Nat]]
    BY <1>4 DEF ShardLocally
  <2> QED BY <1>4, <2>1, <2>2 DEF ShardLocally
<1>5. ASSUME NEW n \in Nodes, NEW c \in ask[n], \/ \E p \in c.left : SendRpc(n, c, p)
                                                \/ \E r \in rpcs : AnswerArrives(n, c, r)
                                                \/ \E r \in rpcs : RpcFails(n, c, r)
                                                \/ AllFailed(n, c)
      PROVE  CopyTypes'
  BY <1>5 DEF SendRpc, AnswerArrives, RpcFails, AllFailed
<1>6. ASSUME NEW r \in rpcs, TakeForwarded(r) PROVE CopyTypes'
  <2>1. r.to \in Nodes /\ r.d \in Data
    BY DEF CallTypes, Rpc
  <2> QED BY <1>6, <2>1 DEF TakeForwarded
<1>7. ASSUME NEW r \in rpcs, ServeFetch(r) PROVE CopyTypes'
  BY <1>7 DEF ServeFetch
<1>8. ASSUME NEW x \in accepted, HandleIncomingShardData(x[1], x[2]) PROVE CopyTypes'
  <2>1. x[1] \in Nodes /\ x[2] \in Data
    OBVIOUS
  <2>2. news' \in [Nodes -> SUBSET (Nodes \X Data)]
    BY <1>8, <2>1, GossipedType DEF HandleIncomingShardData
  <2>3. [forwarded |-> TRUE, d |-> x[2]] \in Event
    BY <2>1 DEF Event
  <2>4. events' \in [Nodes -> Seq(Event)]
    BY <1>8, <2>1, <2>3 DEF HandleIncomingShardData
  <2> QED BY <1>8, <2>2, <2>4 DEF HandleIncomingShardData
<1>9. ASSUME NEW p \in Nodes, NEW x \in news[p], AnnounceReplica(p, x) PROVE CopyTypes'
  <2>1. x \in Nodes \X Data /\ x[2] \in Data
    OBVIOUS
  <2>2. [forwarded |-> FALSE, d |-> x[2]] \in Event
    BY <2>1 DEF Event
  <2>3. events' \in [Nodes -> Seq(Event)]
    BY <1>9, <2>2 DEF AnnounceReplica
  <2> QED BY <1>9, <2>1, <2>3 DEF AnnounceReplica
<1>10. ASSUME NEW p \in Nodes, NEW x \in pushing[p], PushReplica(p, x) PROVE CopyTypes'
  BY <1>10 DEF PushReplica
<1>a. ASSUME NEW p \in Nodes, events[p] # <<>>
      PROVE  Head(events[p]).d \in Data /\ Tail(events[p]) \in Seq(Event)
  <2> DEFINE s == events[p]
  <2>1. s \in Seq(Event) /\ s # <<>>
    BY <1>a
  <2> HIDE DEF s
  <2>2. Head(s) \in Event /\ Tail(s) \in Seq(Event)
    BY <2>1
  <2> QED BY <2>2 DEF s, Event
<1>b. ASSUME NEW p \in Nodes, NEW d \in Data
      PROVE  Stored(p, d) \in [Nodes -> [Data -> Nat]]
  BY DEF Stored
<1>11. ASSUME NEW p \in Nodes, StoreForwarded(p) PROVE CopyTypes'
  <2>1. storage' \in [Nodes -> [Data -> Nat]]
    BY <1>11, <1>a, <1>b DEF StoreForwarded
  <2>2. events' \in [Nodes -> Seq(Event)]
    BY <1>11, <1>a DEF StoreForwarded
  <2> QED BY <1>11, <2>1, <2>2 DEF StoreForwarded
<1>12. ASSUME NEW p \in Nodes, StoreReplica(p) PROVE CopyTypes'
  <2>1. events' \in [Nodes -> Seq(Event)]
    BY <1>12, <1>a DEF StoreReplica
  <2>2. repl' \in [Nodes -> SUBSET (Nodes \X Data)]
    <3>1. repl' = repl \/ \E x \in repl[p] : repl' = [repl EXCEPT ![p] = @ \ {x}]
      BY <1>12 DEF StoreReplica, ReplicaToStore
    <3>2. CASE repl' = repl
      BY <3>2
    <3>3. ASSUME NEW x \in repl[p], repl' = [repl EXCEPT ![p] = @ \ {x}]
          PROVE  repl' \in [Nodes -> SUBSET (Nodes \X Data)]
      BY <3>3
    <3> QED BY <3>1, <3>2, <3>3
  <2>3. storage' = storage \/ \E x \in repl[p] : storage' = Stored(p, x[2])
    BY <1>12 DEF StoreReplica, ReplicaToStore
  <2>4. storage' \in [Nodes -> [Data -> Nat]]
    BY <2>3, <1>b
  <2> QED BY <1>12, <2>1, <2>2, <2>4 DEF StoreReplica
<1>13. "fetch" \in Ops
  BY DEF Ops
<1> HIDE DEF CopyTypes, placing, replication, application, dataVars
<1> QED
  BY NetworkCases, <1>13, <1>1, <1>2, <1>3, <1>4, <1>5, <1>6, <1>7, <1>8, <1>9, <1>10, <1>11, <1>12

-----------------------------------------------------------------------------
(* Counting who has taken the data *)

LEMMA CountInit == NetworkInit => CountInv
<1> SUFFICES ASSUME NetworkInit, NEW d \in Data
             PROVE  Cardinality(taken[d]) + Cardinality(Unserved(d))
                      + (IF MaySend(d) THEN 1 ELSE 0) <= 1 + lost
  BY DEF CountInv
<1>1. taken[d] = {} /\ Unserved(d) = {} /\ ~MaySend(d) /\ lost = 0
  BY DEF NetworkInit, DataInit, Unserved, MaySend
<1> QED BY <1>1, FS_EmptySet

\* One element more or less.
LEMMA OneMore ==
  ASSUME NEW S, NEW T, NEW x, IsFiniteSet(S)
  PROVE  /\ T = S \cup {x} => IsFiniteSet(T) /\ Cardinality(T) <= Cardinality(S) + 1
         /\ T = S \ {x} /\ x \in S => IsFiniteSet(T) /\ Cardinality(T) = Cardinality(S) - 1
         /\ T \subseteq S => IsFiniteSet(T) /\ Cardinality(T) <= Cardinality(S)
         /\ Cardinality(S) \in Nat
BY FS_AddElement, FS_RemoveElement, FS_Subset, FS_CardinalityType

LEMMA CountStep ==
  ASSUME RetriesInv, [NetworkNext]_networkVars
  PROVE  CountInv'
<1>0. CallTypes /\ CopyTypes /\ CallsInv /\ CountInv /\ CallTypes'
  BY CallTypesStep DEF RetriesInv
<1> SUFFICES ASSUME NEW d \in Data
             PROVE  Cardinality(taken'[d]) + Cardinality(Unserved(d)')
                      + (IF MaySend(d)' THEN 1 ELSE 0) <= 1 + lost'
  BY DEF CountInv
<1> DEFINE T == Cardinality(taken[d])
           U == Cardinality(Unserved(d))
           U1 == Cardinality(Unserved(d)')
           T1 == Cardinality(taken'[d])
           Goal == T1 + U1 + (IF MaySend(d)' THEN 1 ELSE 0) <= 1 + lost'
<1>a. /\ IsFiniteSet(taken[d]) /\ IsFiniteSet(Unserved(d))
      /\ IsFiniteSet(taken'[d]) /\ IsFiniteSet(Unserved(d)')
  <2>1. IsFiniteSet(Nodes) /\ taken[d] \subseteq Nodes /\ taken'[d] \subseteq Nodes
    BY <1>0, NodesAssumption DEF CallTypes
  <2>2. IsFiniteSet(rpcs) /\ IsFiniteSet(rpcs')
    BY <1>0 DEF CallTypes
  <2>3. Unserved(d) \subseteq rpcs /\ Unserved(d)' \subseteq rpcs'
    BY DEF Unserved
  <2> QED BY <2>1, <2>2, <2>3, FS_Subset
<1>b. T \in Nat /\ U \in Nat /\ T1 \in Nat /\ U1 \in Nat /\ lost \in Nat /\ lost' \in Nat
  BY <1>0, <1>a, FS_CardinalityType DEF CallTypes
<1>c. T + U + (IF MaySend(d) THEN 1 ELSE 0) <= 1 + lost
  BY <1>0 DEF CountInv
\* Nothing more than before.
<1>d. ASSUME taken'[d] = taken[d], Unserved(d)' \subseteq Unserved(d), lost' = lost,
             MaySend(d)' => MaySend(d)
      PROVE  Goal
  <2>1. T1 = T /\ U1 <= U
    BY <1>d, <1>a, FS_Subset
  <2> QED BY <2>1, <1>b, <1>c, <1>d
<1>e. "shard" \in Ops /\ "fetch" \in Ops /\ "shard" # "fetch"
  BY DEF Ops
<1>f. \A n \in Nodes : \A c \in ask[n] : c \in Call /\ c.op \in Ops /\ c.d \in Data
  BY <1>0 DEF Call, CallTypes
<1>g. \A r \in rpcs : r \in Rpc /\ r.op \in Ops /\ r.d \in Data /\ r.to \in Nodes
  BY <1>0 DEF Rpc, CallTypes
<1> HIDE DEF T, U, T1, U1
<1> USE DEF calling, placing, dataVars
<1>1. UNCHANGED <<ask, rpcs, lost, taken>> => Goal
  BY <1>d DEF Unserved, MaySend
<1>2. ASSUME NEW n \in Nodes, NEW e \in Data, ShardLocally(n, e) PROVE Goal
  <2>1. taken' = [taken EXCEPT ![e] = @ \cup {n}] /\ UNCHANGED <<ask, rpcs, lost>>
    BY <1>2 DEF ShardLocally
  <2>2. CASE e # d
    BY <2>1, <2>2, <1>0, <1>d DEF Unserved, MaySend, CallTypes
  <2>3. CASE e = d
    <3>1. result["shard"][d] = "none"
      BY <1>2, <2>3 DEF ShardLocally, Starts
    <3>2. Unserved(d)' = {} /\ ~MaySend(d)' /\ taken'[d] = {n}
      BY <2>1, <2>3, <3>1, <1>0 DEF Unserved, MaySend, CallsInv, CallTypes
    <3>3. T1 = 1 /\ U1 = 0
      BY <3>2, FS_EmptySet, FS_Singleton DEF T1, U1
    <3> QED BY <2>1, <3>2, <3>3, <1>b
  <2> QED BY <2>2, <2>3
<1>3. ASSUME NEW n \in Nodes, NEW op \in Ops, NEW e \in Data, AskOthers(n, op, e) PROVE Goal
  <2>1. UNCHANGED <<rpcs, lost, taken>> /\ result[op][e] = "none"
    BY <1>3 DEF AskOthers, Starts
  <2>2. PICK c : ask' = [ask EXCEPT ![n] = {c}] /\ c.op = op /\ c.d = e
    <3>1. PICK s : ask' = [ask EXCEPT ![n] = {[op |-> op, d |-> e, left |-> Known(n, s), to |-> {}]}]
      BY <1>3 DEF AskOthers
    <3> DEFINE c == [op |-> op, d |-> e, left |-> Known(n, s), to |-> {}]
    <3>2. c.op = op /\ c.d = e /\ ask' = [ask EXCEPT ![n] = {c}]
      BY <3>1
    <3> HIDE DEF c
    <3> QED BY <3>2
  <2>3. ask'[n] = {c} /\ \A m \in Nodes \ {n} : ask'[m] = ask[m]
    BY <2>2, <1>0 DEF CallTypes
  <2>4. Unserved(d)' = Unserved(d)
    BY <2>1 DEF Unserved
  <2>5. CASE op = "shard" /\ e = d
    <3>1. Unserved(d)' = {} /\ taken'[d] = {}
      BY <2>1, <2>5, <1>0 DEF Unserved, CallsInv
    <3>2. T1 = 0 /\ U1 = 0
      BY <3>1, FS_EmptySet DEF T1, U1
    <3> QED BY <2>1, <3>2, <1>b
  <2>6. CASE ~(op = "shard" /\ e = d)
    BY <2>1, <2>2, <2>3, <2>4, <2>6, <1>d DEF MaySend
  <2> QED BY <2>5, <2>6
<1>4. ASSUME NEW n \in Nodes, NEW c \in ask[n], NEW p \in c.left, SendRpc(n, c, p) PROVE Goal
  <2> DEFINE e == [c EXCEPT !.to = {p}, !.left = @ \ {p}]
             r == [op |-> c.op, from |-> n, to |-> p, d |-> c.d, answered |-> FALSE, found |-> FALSE]
  <2>1. e.op = c.op /\ e.d = c.d /\ e.to # {}
    BY <1>f DEF Call
  <2>2. /\ c.to = {} /\ ask' = [ask EXCEPT ![n] = {e}] /\ UNCHANGED <<lost, taken>>
        /\ rpcs' = rpcs \cup {r} /\ r.op = c.op /\ r.d = c.d
    BY <1>4 DEF SendRpc
  <2> HIDE DEF e, r
  <2>3. ask'[n] = {e} /\ \A m \in Nodes \ {n} : ask'[m] = ask[m]
    BY <2>2, <1>0 DEF CallTypes
  <2>4. MaySend(d)' => MaySend(d)
    BY <2>1, <2>3 DEF MaySend
  <2>5. CASE c.op = "shard" /\ c.d = d
    <3>1. MaySend(d)
      BY <2>2, <2>5 DEF MaySend
    <3>2. ~MaySend(d)'
      <4>1. \A m \in Nodes : \A g \in ask[m] : g.op = "shard" /\ g.d = d => m = n
        BY <2>5, <1>0 DEF CallsInv
      <4> QED BY <2>1, <2>3, <4>1 DEF MaySend
    <3>3. Unserved(d)' \subseteq Unserved(d) \cup {r}
      BY <2>2 DEF Unserved
    <3>4. IsFiniteSet(Unserved(d) \cup {r}) /\ Cardinality(Unserved(d) \cup {r}) <= U + 1
      BY <1>a, OneMore DEF U
    <3>5. U1 <= U + 1
      BY <3>3, <3>4, <1>b, FS_Subset, FS_CardinalityType DEF U1
    <3>6. T1 = T
      BY <2>2 DEF T, T1
    <3> QED BY <2>2, <3>1, <3>2, <3>5, <3>6, <1>b, <1>c
  <2>6. CASE ~(c.op = "shard" /\ c.d = d)
    <3>1. Unserved(d)' \subseteq Unserved(d)
      BY <2>2, <2>6 DEF Unserved
    <3> QED BY <2>2, <2>4, <3>1, <1>d
  <2> QED BY <2>5, <2>6
<1>5. ASSUME NEW n \in Nodes, NEW c \in ask[n],
             (\E r \in rpcs : AnswerArrives(n, c, r)) \/ AllFailed(n, c)
      PROVE  Goal
  <2>1. ask' = [ask EXCEPT ![n] = {}] /\ rpcs' \subseteq rpcs /\ UNCHANGED <<lost, taken>>
    BY <1>5 DEF AnswerArrives, AnswerEndsCall, AllFailed
  <2>2. \A m \in Nodes : ask'[m] \subseteq ask[m]
    BY <2>1, <1>0 DEF CallTypes
  <2>3. Unserved(d)' \subseteq Unserved(d) /\ (MaySend(d)' => MaySend(d))
    BY <2>1, <2>2 DEF Unserved, MaySend
  <2> QED BY <2>1, <2>3, <1>d
<1>6. ASSUME NEW n \in Nodes, NEW c \in ask[n], NEW r \in rpcs, RpcFails(n, c, r) PROVE Goal
  <2>1. lost' = lost + 1 /\ rpcs' \subseteq rpcs /\ UNCHANGED taken
    BY <1>6 DEF RpcFails
  <2>2. Unserved(d)' \subseteq Unserved(d)
    BY <2>1 DEF Unserved
  <2>3. U1 <= U
    BY <2>2, <1>a, FS_Subset DEF U, U1
  <2>4. T1 = T
    BY <2>1 DEF T, T1
  <2>5. CASE c.op = "shard" /\ c.d = d
    <3>1. {r.to} = c.to
      BY <1>6 DEF RpcFails
    <3>2. ~MaySend(d)
      BY <2>5, <3>1, <1>0 DEF MaySend, CallsInv
    <3> QED BY <2>1, <2>3, <2>4, <3>2, <1>b, <1>c
  <2>6. CASE ~(c.op = "shard" /\ c.d = d)
    <3> DEFINE e == [c EXCEPT !.to = {}]
    <3>1. e.op = c.op /\ e.d = c.d
      BY <1>f DEF Call
    <3>2. ask' = [ask EXCEPT ![n] = {e}]
      BY <1>6 DEF RpcFails
    <3> HIDE DEF e
    <3>3. ask'[n] = {e} /\ \A m \in Nodes \ {n} : ask'[m] = ask[m]
      BY <3>2, <1>0 DEF CallTypes
    <3>4. MaySend(d)' => MaySend(d)
      BY <2>6, <3>1, <3>3 DEF MaySend
    <3> QED BY <2>1, <2>3, <2>4, <3>4, <1>b, <1>c
  <2> QED BY <2>5, <2>6
<1>7. ASSUME NEW r \in rpcs, TakeForwarded(r) PROVE Goal
  <2>1. /\ UNCHANGED <<ask, lost>> /\ r.op = "shard" /\ ~r.answered
        /\ taken' = [taken EXCEPT ![r.d] = @ \cup {r.to}] /\ SetsOut(r, TRUE)
    BY <1>7 DEF TakeForwarded
  <2>2. MaySend(d)' = MaySend(d)
    BY <2>1 DEF MaySend
  <2> DEFINE a == [r EXCEPT !.answered = TRUE, !.found = TRUE]
  <2>3. a.answered
    BY <1>g DEF Rpc
  <2>4. rpcs' \subseteq (rpcs \ {r}) \cup {a}
    BY <2>1 DEF SetsOut
  <2> HIDE DEF a
  <2>5. Unserved(d)' \subseteq Unserved(d) \ {r}
    BY <2>3, <2>4 DEF Unserved
  <2>6. CASE r.d = d
    <3>1. r \in Unserved(d)
      BY <2>1, <2>6 DEF Unserved
    <3>2. IsFiniteSet(Unserved(d) \ {r}) /\ Cardinality(Unserved(d) \ {r}) = U - 1
      BY <3>1, <1>a, OneMore DEF U
    <3>3. U1 <= U - 1
      BY <2>5, <3>2, FS_Subset DEF U1
    <3>4. taken'[d] = taken[d] \cup {r.to}
      BY <2>1, <2>6, <1>0 DEF CallTypes
    <3>5. T1 <= T + 1
      BY <3>4, <1>a, OneMore DEF T, T1
    <3> QED BY <2>1, <2>2, <3>3, <3>5, <1>b, <1>c
  <2>7. CASE r.d # d
    BY <2>1, <2>2, <2>5, <2>7, <1>0, <1>d DEF CallTypes
  <2> QED BY <2>6, <2>7
<1>8. ASSUME NEW r \in rpcs, ServeFetch(r) PROVE Goal
  <2> DEFINE f == storage[r.to][r.d] > 0
             a == [r EXCEPT !.answered = TRUE, !.found = f]
  <2>1. UNCHANGED <<ask, lost, taken>> /\ r.op = "fetch" /\ rpcs' \subseteq (rpcs \ {r}) \cup {a}
    BY <1>8 DEF ServeFetch, SetsOut
  <2>2. a.op = "fetch"
    BY <1>g, <2>1 DEF Rpc
  <2> HIDE DEF a
  <2>3. Unserved(d)' \subseteq Unserved(d)
    BY <1>e, <2>1, <2>2 DEF Unserved
  <2> QED BY <2>1, <2>3, <1>d DEF MaySend
<1>9. ASSUME NEW p \in Nodes, \/ \E e \in Data : HandleIncomingShardData(p, e)
                              \/ \E x \in news[p] : AnnounceReplica(p, x)
                              \/ \E x \in pushing[p] : PushReplica(p, x)
                              \/ StoreForwarded(p) \/ StoreReplica(p)
      PROVE  Goal
  BY <1>9, <1>1 DEF HandleIncomingShardData, AnnounceReplica, PushReplica, StoreForwarded,
                    StoreReplica
<1>10. \A x \in accepted : x[1] \in Nodes /\ x[2] \in Data
  BY <1>0 DEF CopyTypes
<1>11. ASSUME NEW n \in Nodes, \/ \E s \in Shards : JoinShard(n, s)
                               \/ \E op \in Ops, e \in Data : NobodyToAsk(n, op, e)
                               \/ \E e \in Data : FetchLocally(n, e)
       PROVE  Goal
  BY <1>11, <1>1 DEF JoinShard, NobodyToAsk, FetchLocally
<1>12. UNCHANGED dataVars => Goal
  BY <1>1
<1>13. Goal
  BY NetworkCases, <1>2, <1>3, <1>4, <1>5, <1>6, <1>7, <1>8, <1>9, <1>10, <1>11, <1>12
<1> QED BY <1>13 DEF T1, U1

LEMMA RetriesInit == NetworkInit => RetriesInv
BY CallTypesInit, CopyTypesInit, CountInit, TypeInit DEF RetriesInv, NetworkInit

LEMMA RetriesStep ==
  ASSUME RetriesInv, [NetworkNext]_networkVars
  PROVE  RetriesInv'
<1>1. TypeOK /\ CallTypes /\ CopyTypes /\ CallsInv
  BY DEF RetriesInv
<1>2. TypeOK'
  BY <1>1, MembershipPart, TypeStep
<1>3. CallTypes' /\ CopyTypes' /\ CallsInv' /\ CountInv'
  BY <1>1, CallTypesStep, CopyTypesStep, CallsStep, CountStep
<1> QED BY <1>2, <1>3 DEF RetriesInv

(***************************************************************************)
(* The network with its data is the network of shard membership: shard()   *)
(* and fetch(), the RPCs and the replication leave the views alone, and    *)
(* what is proved of Spec holds of NetworkSpec.                            *)
(***************************************************************************)
THEOREM NetworkRefinesMembership == NetworkSpec => Spec
<1>1. NetworkInit => Init
  BY DEF NetworkInit
<1>2. [NetworkNext]_networkVars => [Next]_vars
  BY MembershipPart
<1> QED BY <1>1, <1>2, PTL DEF NetworkSpec, Spec

(***************************************************************************)
(* No more nodes take a datum than one, and one more for each RPC without  *)
(* a timely answer: shard() asks the nodes one by one and stops at the     *)
(* first answer.                                                           *)
(***************************************************************************)
THEOREM RetriesExplainCopiesTheorem == NetworkSpec => []RetriesExplainCopies
<1>1. RetriesInv /\ [NetworkNext]_networkVars => RetriesInv'
  BY RetriesStep
<1>2. ASSUME RetriesInv PROVE RetriesExplainCopies
  <2> SUFFICES ASSUME NEW d \in Data PROVE Cardinality(taken[d]) <= 1 + lost
    BY DEF RetriesExplainCopies
  <2>1. /\ IsFiniteSet(taken[d]) /\ IsFiniteSet(Unserved(d)) /\ lost \in Nat
    <3>1. taken[d] \subseteq Nodes /\ Unserved(d) \subseteq rpcs
      BY <1>2 DEF RetriesInv, CallTypes, Unserved
    <3> QED BY <1>2, <3>1, NodesAssumption, FS_Subset DEF RetriesInv, CallTypes
  <2>2. Cardinality(taken[d]) \in Nat /\ Cardinality(Unserved(d)) \in Nat
    BY <2>1, FS_CardinalityType
  <2>3. Cardinality(taken[d]) + Cardinality(Unserved(d)) + (IF MaySend(d) THEN 1 ELSE 0) <= 1 + lost
    BY <1>2 DEF RetriesInv, CountInv
  <2> QED BY <2>1, <2>2, <2>3
<1> QED BY RetriesInit, <1>1, <1>2, PTL DEF NetworkSpec

-----------------------------------------------------------------------------
(* Data is placed where it belongs *)

LEMMA ApartStep ==
  ASSUME DataApart, RetriesInv, ApartInv, [NetworkNext]_networkVars
  PROVE  ApartInv'
<1>0. TypeOK /\ CallTypes /\ CopyTypes /\ CallsInv
  BY DEF RetriesInv
<1> DEFINE Begun == \E op \in Ops : \E d \in Data : result[op][d] # "none"
<1> SUFFICES ASSUME Begun' PROVE Quiet'
  BY DEF ApartInv
<1>a. Begun => Quiet
  BY DEF ApartInv
<1>b. UNCHANGED vars => Quiet' = Quiet
  BY DEF vars, Quiet
<1>c. NoDataYet => ~Begun
  BY DEF NoDataYet
<1>1. ASSUME UNCHANGED result, UNCHANGED vars PROVE Quiet'
  BY <1>1, <1>a, <1>b
<1>2. ASSUME UNCHANGED dataVars, Quiet => NoDataYet \/ UNCHANGED vars PROVE Quiet'
  <2>1. Begun
    BY <1>2 DEF dataVars, calling
  <2> QED BY <1>2, <2>1, <1>a, <1>b, <1>c
<1>3. ASSUME NEW n \in Nodes, NEW s \in Shards, JoinShard(n, s) PROVE Quiet'
  <2>1. Begun
    BY <1>3 DEF JoinShard, calling
  <2>2. NoDataYet
    BY <1>3 DEF JoinShard
  <2> QED BY <2>1, <2>2, <1>c
<1>4. ASSUME NEW n \in Nodes, NEW op \in Ops, NEW d \in Data, Starts(n, op, d), UNCHANGED vars
      PROVE  Quiet'
  BY <1>4, <1>b DEF Starts
<1>5. ASSUME NEW n \in Nodes, NEW c \in ask[n], UNCHANGED vars PROVE Quiet'
  <2>1. c.op \in Ops /\ c.d \in Data /\ result[c.op][c.d] = "pending"
    BY <1>0 DEF CallsInv, CallTypes, Call
  <2> QED BY <1>5, <2>1, <1>a, <1>b
<1>6. "shard" \in Ops /\ "fetch" \in Ops
  BY DEF Ops
<1>7. ASSUME NEW n \in Nodes, NEW d \in Data, \/ \E op \in Ops : NobodyToAsk(n, op, d)
                                              \/ \E op \in Ops : AskOthers(n, op, d)
                                              \/ ShardLocally(n, d) \/ FetchLocally(n, d)
      PROVE  Quiet'
  BY <1>7, <1>4, <1>6 DEF NobodyToAsk, AskOthers, ShardLocally, FetchLocally
<1>8. ASSUME NEW n \in Nodes, NEW c \in ask[n], \/ \E p \in c.left : SendRpc(n, c, p)
                                                \/ \E r \in rpcs : AnswerArrives(n, c, r)
                                                \/ \E r \in rpcs : RpcFails(n, c, r)
                                                \/ AllFailed(n, c)
      PROVE  Quiet'
  BY <1>8, <1>5 DEF SendRpc, AnswerArrives, RpcFails, AllFailed
<1>9. ASSUME \/ \E r \in rpcs : TakeForwarded(r) \/ ServeFetch(r)
             \/ \E x \in accepted : HandleIncomingShardData(x[1], x[2])
             \/ \E p \in Nodes : \/ \E x \in news[p] : AnnounceReplica(p, x)
                                 \/ \E x \in pushing[p] : PushReplica(p, x)
                                 \/ StoreForwarded(p) \/ StoreReplica(p)
      PROVE  Quiet'
  BY <1>9, <1>1 DEF TakeForwarded, ServeFetch, HandleIncomingShardData, AnnounceReplica,
                    PushReplica, StoreForwarded, StoreReplica, calling
<1> QED
  BY NetworkCases, <1>2, <1>3, <1>7, <1>8, <1>9

\* With nothing under way the nodes that a call finds are in the shard.
LEMMA KnownKeepers ==
  ASSUME TypeOK, ViewsSound, Quiet, NEW n \in Nodes, NEW d \in Data, NEW s \in LocateShard(d)
  PROVE  Known(n, s) \subseteq Keepers(d)
<1>1. CASE s \in Shards
  <2>1. \A m \in Nodes : \A b \in call[m] \cup gossip[m] : b.join
    BY DEF Quiet
  <2>2. view[n][s] \subseteq member[s]
    BY <1>1, <2>1, NoLeaving
  <2> QED BY <1>1, <2>2 DEF Known, Keepers
<1>2. CASE s \notin Shards
  BY <1>2 DEF Known
<1> QED BY <1>1, <1>2

LEMMA AskedStep ==
  ASSUME DataApart, SoundInv, PlacedInv, [NetworkNext]_networkVars
  PROVE  AskedInv'
<1>0. TypeOK /\ CallTypes /\ CopyTypes /\ CallsInv /\ ApartInv /\ AskedInv /\ ViewsSound
  BY DEF PlacedInv, RetriesInv, SoundInv
<1> USE DEF calling, placing, dataVars
<1>a. "shard" \in Ops /\ "fetch" \in Ops
  BY DEF Ops
<1>b. \A n \in Nodes : \A c \in ask[n] : c \in Call /\ c.op \in Ops /\ c.d \in Data
  BY <1>0 DEF Call, CallTypes
<1>c. \A r \in rpcs : r \in Rpc /\ r.op \in Ops /\ r.d \in Data /\ r.to \in Nodes
  BY <1>0 DEF Rpc, CallTypes
<1>d. ASSUME UNCHANGED vars, NEW d PROVE Keepers(d)' = Keepers(d)
  BY <1>d DEF vars, Keepers
\* Membership changes before there is data.
<1>1. ASSUME NoDataYet, UNCHANGED <<ask, rpcs, taken>> PROVE AskedInv'
  <2>1. \A op \in Ops : \A d \in Data : result[op][d] = "none"
    BY <1>1 DEF NoDataYet
  <2>2. rpcs = {} /\ \A n \in Nodes : ask[n] = {}
    BY <2>1, <1>b, <1>c, <1>0 DEF CallsInv
  <2>3. \A d \in Data : taken[d] = {}
    BY <2>1, <1>a, <1>0 DEF CallsInv
  <2> QED BY <1>1, <2>2, <2>3 DEF AskedInv
<1>2. ASSUME UNCHANGED vars, UNCHANGED <<ask, rpcs, taken>> PROVE AskedInv'
  BY <1>2, <1>d, <1>0 DEF AskedInv
<1>3. ASSUME UNCHANGED dataVars, Quiet => NoDataYet \/ UNCHANGED vars PROVE AskedInv'
  <2>1. CASE Quiet
    BY <1>3, <2>1, <1>1, <1>2
  <2>2. CASE ~Quiet
    <3>1. NoDataYet
      BY <2>2, <1>0 DEF ApartInv, NoDataYet
    <3> QED BY <1>3, <3>1, <1>1
  <2> QED BY <2>1, <2>2
<1>4. ASSUME NEW n \in Nodes, NEW s \in Shards, JoinShard(n, s) PROVE AskedInv'
  BY <1>4, <1>1 DEF JoinShard
<1>5. ASSUME NEW n \in Nodes, NEW d \in Data, \/ \E op \in Ops : NobodyToAsk(n, op, d)
                                              \/ FetchLocally(n, d)
      PROVE  AskedInv'
  BY <1>5, <1>2 DEF NobodyToAsk, FetchLocally
<1>6. ASSUME NEW n \in Nodes, NEW d \in Data, ShardLocally(n, d) PROVE AskedInv'
  <2>1. PICK s \in LocateShard(d) : n \in Known(n, s)
    BY <1>6 DEF ShardLocally
  <2>2. n \in Keepers(d)
    BY <1>6, <2>1, <1>0, KnownKeepers DEF ShardLocally, Starts
  <2>3. UNCHANGED vars /\ UNCHANGED <<ask, rpcs>> /\ taken' = [taken EXCEPT ![d] = @ \cup {n}]
    BY <1>6 DEF ShardLocally
  <2>4. \A e \in Data : taken'[e] \subseteq Keepers(e)
    BY <2>2, <2>3, <1>0 DEF AskedInv, CallTypes
  <2> QED BY <2>3, <2>4, <1>d, <1>0 DEF AskedInv
<1>7. ASSUME NEW n \in Nodes, NEW op \in Ops, NEW d \in Data, AskOthers(n, op, d) PROVE AskedInv'
  <2>1. PICK s \in LocateShard(d) :
          ask' = [ask EXCEPT ![n] = {[op |-> op, d |-> d, left |-> Known(n, s), to |-> {}]}]
    BY <1>7 DEF AskOthers
  <2>2. Known(n, s) \subseteq Keepers(d)
    BY <1>7, <1>0, KnownKeepers DEF AskOthers, Starts
  <2>3. UNCHANGED vars /\ UNCHANGED <<rpcs, taken>>
    BY <1>7 DEF AskOthers
  <2> DEFINE c == [op |-> op, d |-> d, left |-> Known(n, s), to |-> {}]
  <2>4. c.d = d /\ c.left \cup c.to \subseteq Keepers(d) /\ ask' = [ask EXCEPT ![n] = {c}]
    BY <2>1, <2>2
  <2> HIDE DEF c
  <2>5. ask'[n] = {c} /\ \A m \in Nodes \ {n} : ask'[m] = ask[m]
    BY <2>4, <1>0 DEF CallTypes
  <2>6. \A m \in Nodes : \A e \in ask'[m] : e.left \cup e.to \subseteq Keepers(e.d)
    BY <2>4, <2>5, <1>0 DEF AskedInv
  <2> QED BY <2>3, <2>6, <1>d, <1>0 DEF AskedInv
\* A call that goes on asks nobody new.
<1>8. ASSUME NEW n \in Nodes, NEW c \in ask[n], NEW e, e.d = c.d,
             e.left \cup e.to \subseteq c.left \cup c.to, ask' = [ask EXCEPT ![n] = {e}],
             \A r \in rpcs' : r \in rpcs \/ (r.d = c.d /\ r.to \in c.left), UNCHANGED vars,
             UNCHANGED taken
      PROVE  AskedInv'
  <2>1. ask'[n] = {e} /\ \A m \in Nodes \ {n} : ask'[m] = ask[m]
    BY <1>8, <1>0 DEF CallTypes
  <2>2. \A m \in Nodes : \A g \in ask'[m] : g.left \cup g.to \subseteq Keepers(g.d)
    BY <2>1, <1>8, <1>0 DEF AskedInv
  <2>3. \A r \in rpcs' : r.to \in Keepers(r.d)
    BY <1>8, <1>0 DEF AskedInv
  <2> QED BY <2>2, <2>3, <1>8, <1>d, <1>0 DEF AskedInv
<1>9. ASSUME NEW n \in Nodes, NEW c \in ask[n], NEW p \in c.left, SendRpc(n, c, p) PROVE AskedInv'
  <2> DEFINE e == [c EXCEPT !.to = {p}, !.left = @ \ {p}]
  <2>1. e.d = c.d /\ e.left \cup e.to \subseteq c.left \cup c.to
    BY <1>b DEF Call
  <2>2. ask' = [ask EXCEPT ![n] = {e}] /\ UNCHANGED vars /\ UNCHANGED taken
    BY <1>9 DEF SendRpc
  <2>3. \A r \in rpcs' : r \in rpcs \/ (r.d = c.d /\ r.to \in c.left)
    BY <1>9 DEF SendRpc
  <2> HIDE DEF e
  <2> QED BY <2>1, <2>2, <2>3, <1>8
<1>10. ASSUME NEW n \in Nodes, NEW c \in ask[n], NEW r \in rpcs, RpcFails(n, c, r) PROVE AskedInv'
  <2> DEFINE e == [c EXCEPT !.to = {}]
  <2>1. e.d = c.d /\ e.left \cup e.to \subseteq c.left \cup c.to
    BY <1>b DEF Call
  <2>2. ask' = [ask EXCEPT ![n] = {e}] /\ UNCHANGED vars /\ UNCHANGED taken /\ rpcs' \subseteq rpcs
    BY <1>10 DEF RpcFails
  <2> HIDE DEF e
  <2> QED BY <2>1, <2>2, <1>8
<1>11. ASSUME NEW n \in Nodes, NEW c \in ask[n], \/ \E r \in rpcs : AnswerArrives(n, c, r)
                                                 \/ AllFailed(n, c)
       PROVE  AskedInv'
  <2>1. /\ ask' = [ask EXCEPT ![n] = {}] /\ rpcs' \subseteq rpcs
        /\ UNCHANGED vars /\ UNCHANGED taken
    BY <1>11 DEF AnswerArrives, AllFailed, AnswerEndsCall
  <2>2. \A m \in Nodes : ask'[m] \subseteq ask[m]
    BY <2>1, <1>0 DEF CallTypes
  <2> QED BY <2>1, <2>2, <1>d, <1>0 DEF AskedInv
<1>12. ASSUME NEW r \in rpcs, NEW f \in BOOLEAN, SetsOut(r, f), UNCHANGED vars, UNCHANGED ask,
              taken' = taken \/ taken' = [taken EXCEPT ![r.d] = @ \cup {r.to}]
       PROVE  AskedInv'
  <2>1. \A q \in rpcs' : \E k \in rpcs : k.d = q.d /\ k.to = q.to
    BY <1>12, <1>c DEF SetsOut, Rpc
  <2>2. \A d \in Data : taken'[d] \subseteq Keepers(d)
    BY <1>12, <1>c, <1>0 DEF AskedInv, CallTypes
  <2> QED BY <1>12, <2>1, <2>2, <1>d, <1>0 DEF AskedInv
<1>13. ASSUME NEW r \in rpcs, TakeForwarded(r) \/ ServeFetch(r) PROVE AskedInv'
  <2>1. (storage[r.to][r.d] > 0) \in BOOLEAN
    OBVIOUS
  <2> QED BY <1>13, <2>1, <1>12 DEF TakeForwarded, ServeFetch
<1>14. ASSUME \/ \E x \in accepted : HandleIncomingShardData(x[1], x[2])
              \/ \E p \in Nodes : \/ \E x \in news[p] : AnnounceReplica(p, x)
                                  \/ \E x \in pushing[p] : PushReplica(p, x)
                                  \/ StoreForwarded(p) \/ StoreReplica(p)
       PROVE  AskedInv'
  BY <1>14, <1>2 DEF HandleIncomingShardData, AnnounceReplica, PushReplica, StoreForwarded,
                     StoreReplica
<1> QED
  BY NetworkCases, <1>3, <1>4, <1>5, <1>6, <1>7, <1>9, <1>10, <1>11, <1>13, <1>14

\* The invariants of this part together; that of membership comes with them.
MembersInv == SoundInv /\ RetriesInv /\ (DataApart => PlacedInv)

LEMMA PlacedInit == NetworkInit => PlacedInv
<1> SUFFICES ASSUME NetworkInit PROVE PlacedInv
  OBVIOUS
<1>1. RetriesInv
  BY RetriesInit
<1>2. ApartInv /\ AskedInv
  BY DEF NetworkInit, Init, DataInit, ApartInv, AskedInv, Ops, Keepers
<1> QED BY <1>1, <1>2 DEF PlacedInv

LEMMA MembersStep ==
  ASSUME ExitsApart, MembersInv, [NetworkNext]_networkVars
  PROVE  MembersInv'
<1>1. SoundInv'
  BY MembershipPart, SoundInvStep DEF MembersInv
<1>2. RetriesInv'
  BY RetriesStep DEF MembersInv
<1>3. ASSUME DataApart PROVE ApartInv' /\ AskedInv'
  BY <1>3, ApartStep, AskedStep DEF MembersInv, PlacedInv
<1> QED BY <1>1, <1>2, <1>3 DEF MembersInv, PlacedInv

LEMMA MembersInit == NetworkInit => MembersInv
BY SoundInvInit, RetriesInit, PlacedInit DEF MembersInv, NetworkInit

(***************************************************************************)
(* With exits apart from other calls, and data sharded once membership is  *)
(* settled, only nodes of its shard take a datum: the views that shard()   *)
(* copies name no node that has left.                                      *)
(***************************************************************************)
THEOREM TakenByMembersTheorem ==
  ASSUME ExitsApart
  PROVE  NetworkSpec => []TakenByMembers
<1>1. MembersInv /\ [NetworkNext]_networkVars => MembersInv'
  BY MembersStep
<1>2. MembersInv => TakenByMembers
  BY DEF MembersInv, PlacedInv, AskedInv, TakenByMembers
<1> QED BY MembersInit, <1>1, <1>2, PTL DEF NetworkSpec

-----------------------------------------------------------------------------
(* Nobody takes data twice *)

LEMMA FreshStep ==
  ASSUME RetriesInv, FreshInv, [NetworkNext]_networkVars
  PROVE  FreshInv'
<1>0. TypeOK /\ CallTypes /\ CopyTypes /\ CallsInv
  BY DEF RetriesInv
<1> USE DEF calling, placing, dataVars
<1>a. "shard" \in Ops /\ "fetch" \in Ops /\ "shard" # "fetch"
  BY DEF Ops
<1>b. \A n \in Nodes : \A c \in ask[n] : c \in Call /\ c.op \in Ops /\ c.d \in Data
  BY <1>0 DEF Call, CallTypes
<1>c. \A r \in rpcs : r \in Rpc /\ r.op \in Ops /\ r.d \in Data /\ r.to \in Nodes
  BY <1>0 DEF Rpc, CallTypes
<1>1. UNCHANGED <<ask, rpcs, taken>> => FreshInv'
  BY DEF FreshInv
\* A call of shard() begins: nobody has been asked yet.
<1>d. ASSUME NEW d \in Data, result["shard"][d] = "none"
      PROVE  /\ taken[d] = {} /\ \A r \in rpcs : ~(r.op = "shard" /\ r.d = d)
             /\ \A n \in Nodes : \A c \in ask[n] : ~(c.op = "shard" /\ c.d = d)
  BY <1>d, <1>0 DEF CallsInv
<1>2. ASSUME NEW n \in Nodes, NEW d \in Data, ShardLocally(n, d) PROVE FreshInv'
  <2>1. UNCHANGED <<ask, rpcs>> /\ \A e \in Data \ {d} : taken'[e] = taken[e]
    BY <1>2, <1>0 DEF ShardLocally, CallTypes
  <2>2. result["shard"][d] = "none"
    BY <1>2 DEF ShardLocally, Starts
  <2>3. /\ \A r \in rpcs : r.op = "shard" => r.d # d
        /\ \A m \in Nodes : \A c \in ask[m] : c.op = "shard" => c.d # d
    BY <2>2, <1>d
  <2>4. /\ \A r \in rpcs : r.op = "shard" => taken'[r.d] = taken[r.d]
        /\ \A m \in Nodes : \A c \in ask[m] : c.op = "shard" => taken'[c.d] = taken[c.d]
    BY <2>1, <2>3, <1>b, <1>c
  <2> QED BY <2>1, <2>4 DEF FreshInv
<1>3. ASSUME NEW n \in Nodes, NEW op \in Ops, NEW d \in Data, AskOthers(n, op, d) PROVE FreshInv'
  <2>1. UNCHANGED <<rpcs, taken>> /\ result[op][d] = "none"
    BY <1>3 DEF AskOthers, Starts
  <2>2. PICK c : ask' = [ask EXCEPT ![n] = {c}] /\ c.op = op /\ c.d = d
    <3>1. PICK s : ask' = [ask EXCEPT ![n] = {[op |-> op, d |-> d, left |-> Known(n, s), to |-> {}]}]
      BY <1>3 DEF AskOthers
    <3> DEFINE c == [op |-> op, d |-> d, left |-> Known(n, s), to |-> {}]
    <3>2. c.op = op /\ c.d = d /\ ask' = [ask EXCEPT ![n] = {c}]
      BY <3>1
    <3> HIDE DEF c
    <3> QED BY <3>2
  <2>3. ask'[n] = {c} /\ \A m \in Nodes \ {n} : ask'[m] = ask[m]
    BY <2>2, <1>0 DEF CallTypes
  <2>4. c.op = "shard" => taken[d] = {} /\ \A r \in rpcs : ~(r.op = "shard" /\ r.d = d)
    BY <2>1, <2>2, <1>d
  <2> QED BY <2>1, <2>2, <2>3, <2>4 DEF FreshInv
<1>4. ASSUME NEW n \in Nodes, NEW c \in ask[n], NEW p \in c.left, SendRpc(n, c, p) PROVE FreshInv'
  <2> DEFINE e == [c EXCEPT !.to = {p}, !.left = @ \ {p}]
             r == [op |-> c.op, from |-> n, to |-> p, d |-> c.d, answered |-> FALSE, found |-> FALSE]
  <2>1. e.op = c.op /\ e.d = c.d /\ e.left = c.left \ {p}
    BY <1>b DEF Call
  <2>2. r.op = c.op /\ r.d = c.d /\ r.to = p /\ ~r.answered
    OBVIOUS
  <2>3. /\ ask' = [ask EXCEPT ![n] = {e}] /\ UNCHANGED taken
        /\ rpcs' = rpcs \cup {r}
    BY <1>4 DEF SendRpc
  <2> HIDE DEF e, r
  <2>4. ask'[n] = {e} /\ \A m \in Nodes \ {n} : ask'[m] = ask[m]
    BY <2>3, <1>0 DEF CallTypes
  <2>5. ASSUME NEW m \in Nodes, NEW g \in ask'[m], g.op = "shard", NEW q \in g.left
        PROVE  q \notin taken[g.d] /\ \A k \in rpcs' : ~(k.op = "shard" /\ k.d = g.d /\ k.to = q)
    <3>1. CASE m = n
      BY <2>1, <2>2, <2>3, <2>4, <2>5, <3>1 DEF FreshInv
    <3>2. CASE m # n
      <4>1. g \in ask[m] /\ ~(c.op = g.op /\ c.d = g.d)
        BY <2>4, <3>2, <1>0 DEF CallsInv
      <4>2. q \notin taken[g.d] /\ \A k \in rpcs : ~(k.op = "shard" /\ k.d = g.d /\ k.to = q)
        BY <4>1, <2>5 DEF FreshInv
      <4> QED BY <4>1, <4>2, <2>2, <2>3, <2>5
    <3> QED BY <3>1, <3>2
  <2>6. r.op = "shard" => /\ p \notin taken[r.d]
                          /\ \A k \in rpcs : ~(k.op = "shard" /\ k.d = r.d /\ k.to = p)
    <3>1. c.op = "shard" => /\ p \notin taken[c.d]
                            /\ \A k \in rpcs : ~(k.op = "shard" /\ k.d = c.d /\ k.to = p)
      BY DEF FreshInv
    <3> QED BY <2>2, <3>1
  <2>7. ASSUME NEW k \in rpcs', k.op = "shard"
        PROVE  /\ k.answered <=> k.to \in taken[k.d]
               /\ \A q \in rpcs' : q.op = "shard" /\ q.d = k.d /\ q.to = k.to => q = k
    BY <2>2, <2>3, <2>6, <2>7 DEF FreshInv
  <2> QED BY <2>3, <2>5, <2>7 DEF FreshInv
\* A call that asks nobody new, or ends.
<1>5. ASSUME NEW n \in Nodes, rpcs' \subseteq rpcs, UNCHANGED taken,
             \A m \in Nodes : \A e \in ask'[m] : \E c \in ask[m] :
               e.op = c.op /\ e.d = c.d /\ e.left = c.left
      PROVE  FreshInv'
  BY <1>5 DEF FreshInv
<1>6. ASSUME NEW n \in Nodes, NEW c \in ask[n], NEW r \in rpcs, RpcFails(n, c, r) PROVE FreshInv'
  <2> DEFINE e == [c EXCEPT !.to = {}]
  <2>1. e.op = c.op /\ e.d = c.d /\ e.left = c.left
    BY <1>b DEF Call
  <2>2. ask' = [ask EXCEPT ![n] = {e}] /\ UNCHANGED taken /\ rpcs' \subseteq rpcs
    BY <1>6 DEF RpcFails
  <2> HIDE DEF e
  <2>3. ask'[n] = {e} /\ \A m \in Nodes \ {n} : ask'[m] = ask[m]
    BY <2>2, <1>0 DEF CallTypes
  <2> QED BY <2>1, <2>2, <2>3, <1>5
<1>7. ASSUME NEW n \in Nodes, NEW c \in ask[n], \/ \E r \in rpcs : AnswerArrives(n, c, r)
                                                \/ AllFailed(n, c)
      PROVE  FreshInv'
  <2>1. ask' = [ask EXCEPT ![n] = {}] /\ rpcs' \subseteq rpcs /\ UNCHANGED taken
    BY <1>7 DEF AnswerArrives, AllFailed, AnswerEndsCall
  <2>2. \A m \in Nodes : ask'[m] \subseteq ask[m]
    BY <2>1, <1>0 DEF CallTypes
  <2> QED BY <2>1, <2>2, <1>5
<1>8. ASSUME NEW r \in rpcs, TakeForwarded(r) PROVE FreshInv'
  <2> DEFINE a == [r EXCEPT !.answered = TRUE, !.found = TRUE]
  <2>1. a.op = r.op /\ a.d = r.d /\ a.to = r.to /\ a.answered
    BY <1>c DEF Rpc
  <2>2. /\ UNCHANGED ask /\ r.op = "shard" /\ ~r.answered /\ rpcs' \subseteq (rpcs \ {r}) \cup {a}
        /\ taken' = [taken EXCEPT ![r.d] = @ \cup {r.to}]
    BY <1>8 DEF TakeForwarded, SetsOut
  <2> HIDE DEF a
  <2>3. \A d \in Data : taken'[d] = IF d = r.d THEN taken[d] \cup {r.to} ELSE taken[d]
    BY <2>2, <1>0 DEF CallTypes
  <2>4. ASSUME NEW m \in Nodes, NEW g \in ask'[m], g.op = "shard", NEW q \in g.left
        PROVE  q \notin taken'[g.d] /\ \A k \in rpcs' : ~(k.op = "shard" /\ k.d = g.d /\ k.to = q)
    <3>1. /\ g \in ask[m] /\ g.d \in Data
          /\ q \notin taken[g.d] /\ \A k \in rpcs : ~(k.op = "shard" /\ k.d = g.d /\ k.to = q)
      BY <2>2, <2>4, <1>b DEF FreshInv
    <3>2. ~(r.d = g.d /\ r.to = q)
      BY <3>1, <2>2
    <3> QED BY <2>1, <2>2, <2>3, <3>1, <3>2
  <2>5. \A k \in rpcs : k.op = "shard" /\ k # r =>
          ~(k.d = r.d /\ k.to = r.to) /\ (k.answered <=> k.to \in taken'[k.d])
    BY <2>2, <2>3, <1>c DEF FreshInv
  <2>6. a.to \in taken'[a.d]
    BY <2>1, <2>3, <1>c
  <2>7. ASSUME NEW k \in rpcs', k.op = "shard"
        PROVE  /\ k.answered <=> k.to \in taken'[k.d]
               /\ \A q \in rpcs' : q.op = "shard" /\ q.d = k.d /\ q.to = k.to => q = k
    <3>1. k = a \/ (k \in rpcs /\ k # r)
      BY <2>2
    <3>2. \A q \in rpcs' : q = a \/ (q \in rpcs /\ q # r)
      BY <2>2
    <3> QED BY <2>1, <2>5, <2>6, <2>7, <3>1, <3>2 DEF FreshInv
  <2> QED BY <2>4, <2>7 DEF FreshInv
<1>9. ASSUME NEW r \in rpcs, ServeFetch(r) PROVE FreshInv'
  <2> DEFINE f == storage[r.to][r.d] > 0
             a == [r EXCEPT !.answered = TRUE, !.found = f]
  <2>1. UNCHANGED <<ask, taken>> /\ r.op = "fetch" /\ rpcs' \subseteq (rpcs \ {r}) \cup {a}
    BY <1>9 DEF ServeFetch, SetsOut
  <2>2. a.op = "fetch"
    BY <1>c, <2>1 DEF Rpc
  <2> HIDE DEF a
  <2>3. \A k \in rpcs' : k.op = "shard" => k \in rpcs
    BY <1>a, <2>1, <2>2
  <2>4. \A m \in Nodes : \A c \in ask'[m] : c \in ask[m]
    BY <2>1
  <2> QED BY <2>1, <2>3, <2>4 DEF FreshInv
<1>10. ASSUME \/ \E x \in accepted : HandleIncomingShardData(x[1], x[2])
              \/ \E p \in Nodes : \/ \E x \in news[p] : AnnounceReplica(p, x)
                                  \/ \E x \in pushing[p] : PushReplica(p, x)
                                  \/ StoreForwarded(p) \/ StoreReplica(p)
       PROVE  FreshInv'
  BY <1>10, <1>1 DEF HandleIncomingShardData, AnnounceReplica, PushReplica, StoreForwarded,
                     StoreReplica
<1>11. ASSUME NEW n \in Nodes, \/ \E s \in Shards : JoinShard(n, s)
                               \/ \E op \in Ops, d \in Data : NobodyToAsk(n, op, d)
                               \/ \E d \in Data : FetchLocally(n, d)
       PROVE  FreshInv'
  BY <1>11, <1>1 DEF JoinShard, NobodyToAsk, FetchLocally
<1>12. UNCHANGED dataVars => FreshInv'
  BY <1>1
<1> QED
  BY NetworkCases, <1>2, <1>3, <1>4, <1>6, <1>7, <1>8, <1>9, <1>10, <1>11, <1>12

-----------------------------------------------------------------------------
(* Where the copies are *)

\* A queue of events that gets one more, and one that loses its first.
LEMMA EventAppended ==
  ASSUME NEW q \in Seq(Event), NEW e \in Event
  PROVE  /\ \A d : ForwardedIn(Append(q, e), d) <=> ForwardedIn(q, d) \/ (e.forwarded /\ e.d = d)
         /\ OnceEach(q) /\ (e.forwarded => ~ForwardedIn(q, e.d)) => OnceEach(Append(q, e))
<1> DEFINE a == Append(q, e)
<1>1. /\ Len(q) \in Nat /\ Len(a) = Len(q) + 1 /\ a[Len(q) + 1] = e
      /\ \A k \in 1 .. Len(q) : a[k] = q[k]
  OBVIOUS
<1> HIDE DEF a
<1>2. \A k : k \in 1 .. Len(a) <=> k \in 1 .. Len(q) \/ k = Len(q) + 1
  BY <1>1
<1>3. \A d : ForwardedIn(a, d) <=> ForwardedIn(q, d) \/ (e.forwarded /\ e.d = d)
  BY <1>1, <1>2 DEF ForwardedIn
<1>4. ASSUME OnceEach(q), e.forwarded => ~ForwardedIn(q, e.d) PROVE OnceEach(a)
  <2> SUFFICES ASSUME NEW k \in 1 .. Len(a), NEW l \in 1 .. Len(a),
                      a[k].forwarded, a[l].forwarded, a[k].d = a[l].d
               PROVE  k = l
    BY DEF OnceEach
  <2> QED BY <1>1, <1>2, <1>4 DEF OnceEach, ForwardedIn
<1> QED BY <1>3, <1>4 DEF a

LEMMA EventTaken ==
  ASSUME NEW q \in Seq(Event), q # <<>>, OnceEach(q)
  PROVE  /\ OnceEach(Tail(q)) /\ Head(q) \in Event
         /\ \A d : ForwardedIn(q, d) <=> ForwardedIn(Tail(q), d) \/ (Head(q).forwarded /\ Head(q).d = d)
         /\ Head(q).forwarded => ~ForwardedIn(Tail(q), Head(q).d)
<1> DEFINE t == Tail(q)
           h == Head(q)
<1>1. /\ Len(q) \in Nat \ {0} /\ Len(t) = Len(q) - 1 /\ h = q[1] /\ h \in Event
      /\ \A k \in 1 .. Len(t) : t[k] = q[k + 1]
  OBVIOUS
<1> HIDE DEF t, h
<1>2. \A k \in 1 .. Len(q) : k = 1 \/ (k - 1 \in 1 .. Len(t) /\ q[k] = t[k - 1])
  BY <1>1
<1>3. \A k \in 1 .. Len(t) : k + 1 \in 1 .. Len(q) /\ k + 1 # 1
  BY <1>1
<1>4. 1 \in 1 .. Len(q)
  BY <1>1
<1>5. OnceEach(t)
  <2> SUFFICES ASSUME NEW k \in 1 .. Len(t), NEW l \in 1 .. Len(t),
                      t[k].forwarded, t[l].forwarded, t[k].d = t[l].d
               PROVE  k = l
    BY DEF OnceEach
  <2>1. k + 1 = l + 1
    BY <1>1, <1>3 DEF OnceEach
  <2> QED BY <2>1
<1>6. ASSUME NEW d PROVE ForwardedIn(q, d) <=> ForwardedIn(t, d) \/ (h.forwarded /\ h.d = d)
  BY <1>1, <1>2, <1>3, <1>4 DEF ForwardedIn
<1>7. ASSUME h.forwarded PROVE ~ForwardedIn(t, h.d)
  BY <1>1, <1>3, <1>4, <1>7 DEF ForwardedIn, OnceEach
<1> QED BY <1>1, <1>5, <1>6, <1>7 DEF t, h

LEMMA ReplicasStep ==
  ASSUME RetriesInv, ReplicasInv, [NetworkNext]_networkVars
  PROVE  ReplicasInv'
<1>0. TypeOK /\ CopyTypes
  BY DEF RetriesInv
<1>1. ASSUME UNCHANGED <<member, replicas>> PROVE ReplicasInv'
  BY <1>1 DEF ReplicasInv
<1>2. ASSUME NEW n \in Nodes, NEW s \in Shards, JoinShard(n, s) PROVE ReplicasInv'
  BY <1>2, <1>0, CallChanges DEF JoinShard, ReplicasInv, CopyTypes, TypeOK, Views
<1>3. ASSUME NEW n \in Nodes, NEW s \in Shards, ExitNetwork(n, s), UNCHANGED dataVars
      PROVE  ReplicasInv'
  <2>1. \A t \in Shards : member'[t] \subseteq member[t]
    BY <1>3, <1>0 DEF ExitNetwork, TypeOK, Views
  <2> QED BY <2>1, <1>3 DEF ReplicasInv, dataVars, replication
<1> QED
  BY NetworkCases, <1>1, <1>2, <1>3
     DEF NobodyToAsk, ShardLocally, FetchLocally, AskOthers, SendRpc, AnswerArrives, RpcFails,
         AllFailed, TakeForwarded, ServeFetch, HandleIncomingShardData, AnnounceReplica,
         PushReplica, StoreForwarded, StoreReplica, vars, replication, dataVars

LEMMA GossipedIs ==
  ASSUME NEW n, NEW s, NEW d, NEW p \in Nodes
  PROVE  /\ Gossiped(n, s, d)[p] = news[p] \/ Gossiped(n, s, d)[p] = news[p] \cup {<<n, d>>}
         /\ p = n => Gossiped(n, s, d)[p] = news[p]
         /\ n \in replicas[s] /\ p \in replicas[s] /\ p # n =>
              Gossiped(n, s, d)[p] = news[p] \cup {<<n, d>>}
BY DEF Gossiped

\* The event at the head of a queue, and those behind it.
LEMMA EventsTyped ==
  ASSUME CopyTypes, NEW p \in Nodes
  PROVE  events[p] \in Seq(Event)
BY DEF CopyTypes

LEMMA ReplicaPlacesStep ==
  ASSUME RetriesInv, FreshInv, PlacesInv, [NetworkNext]_networkVars
  PROVE  ReplicaPlaces'
<1>0. /\ TypeOK /\ CallTypes /\ CopyTypes /\ CallsInv /\ FreshInv
      /\ ReplicaPlaces /\ ForwardedPlaces
  BY DEF RetriesInv, PlacesInv
<1> USE DEF placing, dataVars, replication
<1>a. \A p \in Nodes : \A x \in news[p] \cup pushing[p] \cup repl[p] :
        x[1] \in Nodes /\ x[2] \in Data /\ x = <<x[1], x[2]>>
  BY <1>0 DEF CopyTypes
<1>b. \A x \in accepted : x[1] \in Nodes /\ x[2] \in Data /\ x = <<x[1], x[2]>>
  BY <1>0 DEF CopyTypes
<1>1. UNCHANGED <<taken, accepted, news, pushing, repl>> => ReplicaPlaces'
  BY <1>0 DEF ReplicaPlaces
\* Fewer copies on their way, and nobody takes any.
<1>2. ASSUME NEW n \in Nodes, NEW d \in Data, ShardLocally(n, d) PROVE ReplicaPlaces'
  <2>1. PICK s : news' = Gossiped(n, s, d)
    BY <1>2 DEF ShardLocally
  <2>2. UNCHANGED <<accepted, pushing, repl>> /\ taken' = [taken EXCEPT ![d] = @ \cup {n}]
    BY <1>2 DEF ShardLocally
  <2>3. taken[d] = {}
    BY <1>2, <1>0 DEF ShardLocally, Starts, CallsInv
  <2>4. \A e \in Data : taken'[e] = IF e = d THEN {n} ELSE taken[e]
    BY <2>2, <2>3, <1>0 DEF CallTypes
  <2>5. <<n, d>> \notin accepted /\ \A p \in Nodes : <<n, d>> \notin news[p] \cup pushing[p] \cup repl[p]
    BY <2>3, <1>0 DEF ReplicaPlaces, ForwardedPlaces
  <2>6. ASSUME NEW p \in Nodes
        PROVE  /\ \A x \in news'[p] \cup pushing'[p] \cup repl'[p] :
                    x[1] # p /\ x[1] \in taken'[x[2]] /\ x \notin accepted'
               /\ news'[p] \cap pushing'[p] = {}
               /\ (news'[p] \cup pushing'[p]) \cap repl'[p] = {}
    <3>1. news'[p] = news[p] \/ (p # n /\ news'[p] = news[p] \cup {<<n, d>>})
      BY <2>1, GossipedIs
    <3>2. \A x \in news[p] \cup pushing[p] \cup repl[p] :
            x[1] # p /\ x[1] \in taken'[x[2]] /\ x \notin accepted
      BY <2>3, <2>4, <1>a, <1>0 DEF ReplicaPlaces
    <3>3. n \in taken'[d] /\ <<n, d>>[1] = n /\ <<n, d>>[2] = d
      BY <2>4
    <3> QED BY <2>2, <2>5, <3>1, <3>2, <3>3, <1>0 DEF ReplicaPlaces
  <2> QED BY <2>6 DEF ReplicaPlaces
<1>3. ASSUME NEW r \in rpcs, TakeForwarded(r) PROVE ReplicaPlaces'
  <2>1. /\ UNCHANGED <<news, pushing, repl>> /\ taken' = [taken EXCEPT ![r.d] = @ \cup {r.to}]
        /\ accepted' = accepted \cup {<<r.to, r.d>>} /\ r.op = "shard" /\ ~r.answered
    BY <1>3 DEF TakeForwarded
  <2>2. r.to \notin taken[r.d]
    BY <2>1, <1>0 DEF FreshInv
  <2>3. \A e \in Data : taken[e] \subseteq taken'[e]
    BY <2>1, <1>0 DEF CallTypes
  <2>4. \A p \in Nodes : <<r.to, r.d>> \notin news[p] \cup pushing[p] \cup repl[p]
    BY <2>2, <1>0 DEF ReplicaPlaces
  <2> QED BY <2>1, <2>3, <2>4, <1>a, <1>0 DEF ReplicaPlaces
<1>4. ASSUME NEW x \in accepted, HandleIncomingShardData(x[1], x[2]) PROVE ReplicaPlaces'
  <2>1. PICK s : news' = Gossiped(x[1], s, x[2])
    BY <1>4 DEF HandleIncomingShardData
  <2>2. UNCHANGED <<taken, pushing, repl>> /\ accepted' = accepted \ {x}
    BY <1>4, <1>b DEF HandleIncomingShardData
  <2>3. x[1] \in taken[x[2]] /\ \A p \in Nodes : x \notin news[p] \cup pushing[p] \cup repl[p]
    BY <1>0 DEF ReplicaPlaces, ForwardedPlaces
  <2>4. ASSUME NEW p \in Nodes
        PROVE  /\ \A y \in news'[p] \cup pushing'[p] \cup repl'[p] :
                    y[1] # p /\ y[1] \in taken'[y[2]] /\ y \notin accepted'
               /\ news'[p] \cap pushing'[p] = {}
               /\ (news'[p] \cup pushing'[p]) \cap repl'[p] = {}
    <3>1. news'[p] = news[p] \/ (p # x[1] /\ news'[p] = news[p] \cup {x})
      BY <2>1, <1>b, GossipedIs
    <3> QED BY <2>2, <2>3, <3>1, <1>0 DEF ReplicaPlaces
  <2> QED BY <2>4 DEF ReplicaPlaces
\* A copy goes to the next place.
<1>5. ASSUME NEW p \in Nodes, NEW x \in news[p], AnnounceReplica(p, x) PROVE ReplicaPlaces'
  <2>1. /\ news'[p] = news[p] \ {x} /\ pushing'[p] = pushing[p] \cup {x}
        /\ \A q \in Nodes \ {p} : news'[q] = news[q] /\ pushing'[q] = pushing[q]
        /\ UNCHANGED <<taken, accepted, repl>>
    BY <1>5, <1>0 DEF AnnounceReplica, CopyTypes
  <2> QED BY <2>1, <1>0 DEF ReplicaPlaces
<1>6. ASSUME NEW p \in Nodes, NEW x \in pushing[p], PushReplica(p, x) PROVE ReplicaPlaces'
  <2>1. /\ pushing'[p] = pushing[p] \ {x} /\ repl'[p] = repl[p] \cup {x}
        /\ \A q \in Nodes \ {p} : repl'[q] = repl[q] /\ pushing'[q] = pushing[q]
        /\ UNCHANGED <<taken, accepted, news>>
    BY <1>6, <1>0 DEF PushReplica, CopyTypes
  <2> QED BY <2>1, <1>0 DEF ReplicaPlaces
<1>7. ASSUME NEW p \in Nodes, StoreReplica(p) PROVE ReplicaPlaces'
  <2>1. repl' = repl \/ \E x \in repl[p] : repl' = [repl EXCEPT ![p] = @ \ {x}]
    BY <1>7 DEF StoreReplica, ReplicaToStore
  <2>2. \A q \in Nodes : repl'[q] \subseteq repl[q]
    BY <2>1, <1>0 DEF CopyTypes
  <2>3. UNCHANGED <<taken, accepted, news, pushing>>
    BY <1>7 DEF StoreReplica
  <2> QED BY <2>2, <2>3, <1>0 DEF ReplicaPlaces
<1>8. ASSUME NEW n \in Nodes, \/ \E s \in Shards : JoinShard(n, s)
                              \/ \E op \in Ops, d \in Data : NobodyToAsk(n, op, d) \/ AskOthers(n, op, d)
                              \/ \E d \in Data : FetchLocally(n, d)
                              \/ StoreForwarded(n)
      PROVE  ReplicaPlaces'
  BY <1>8, <1>1 DEF JoinShard, NobodyToAsk, AskOthers, FetchLocally, StoreForwarded
<1>9. ASSUME NEW n \in Nodes, NEW c \in ask[n], \/ \E p \in c.left : SendRpc(n, c, p)
                                                \/ \E r \in rpcs : AnswerArrives(n, c, r)
                                                \/ \E r \in rpcs : RpcFails(n, c, r)
                                                \/ AllFailed(n, c)
      PROVE  ReplicaPlaces'
  BY <1>9, <1>1 DEF SendRpc, AnswerArrives, RpcFails, AllFailed
<1>10. ASSUME NEW r \in rpcs, ServeFetch(r) PROVE ReplicaPlaces'
  BY <1>10, <1>1 DEF ServeFetch
<1>11. UNCHANGED dataVars => ReplicaPlaces'
  BY <1>1
<1> QED
  BY NetworkCases, <1>2, <1>3, <1>4, <1>5, <1>6, <1>7, <1>8, <1>9, <1>10, <1>11

\* What a step makes of the events of p, and whether it has one of d.
LEMMA EventSteps ==
  ASSUME CopyTypes, NEW p \in Nodes, OnceEach(events[p])
  PROVE  /\ \A e \in Event : events' = [events EXCEPT ![p] = Append(@, e)] =>
              /\ \A q \in Nodes, d \in Data : Forwarded(q, d)' <=>
                   Forwarded(q, d) \/ (q = p /\ e.forwarded /\ e.d = d)
              /\ (e.forwarded => ~Forwarded(p, e.d)) => OnceEach(events'[p])
              /\ \A q \in Nodes \ {p} : events'[q] = events[q]
         /\ events[p] # <<>> /\ events' = [events EXCEPT ![p] = Tail(@)] =>
              /\ \A q \in Nodes, d \in Data : Forwarded(q, d) <=>
                   Forwarded(q, d)' \/ (q = p /\ Head(events[p]).forwarded /\ Head(events[p]).d = d)
              /\ OnceEach(events'[p]) /\ Head(events[p]) \in Event
              /\ Head(events[p]).forwarded => ~ForwardedIn(events'[p], Head(events[p]).d)
              /\ \A q \in Nodes \ {p} : events'[q] = events[q]
<1>0. events[p] \in Seq(Event)
  BY EventsTyped
<1>1. ASSUME NEW e \in Event, events' = [events EXCEPT ![p] = Append(@, e)]
      PROVE  /\ \A q \in Nodes, d \in Data : Forwarded(q, d)' <=>
                  Forwarded(q, d) \/ (q = p /\ e.forwarded /\ e.d = d)
             /\ (e.forwarded => ~Forwarded(p, e.d)) => OnceEach(events'[p])
             /\ \A q \in Nodes \ {p} : events'[q] = events[q]
  <2> DEFINE s == events[p]
             a == Append(s, e)
  <2>1. events'[p] = a /\ \A q \in Nodes \ {p} : events'[q] = events[q]
    BY <1>1 DEF CopyTypes
  <2>2. /\ \A d : ForwardedIn(a, d) <=> ForwardedIn(s, d) \/ (e.forwarded /\ e.d = d)
        /\ OnceEach(s) /\ (e.forwarded => ~ForwardedIn(s, e.d)) => OnceEach(a)
    BY <1>0, EventAppended
  <2> HIDE DEF a
  <2> QED BY <2>1, <2>2 DEF Forwarded
<1>2. ASSUME events[p] # <<>>, events' = [events EXCEPT ![p] = Tail(@)]
      PROVE  /\ \A q \in Nodes, d \in Data : Forwarded(q, d) <=>
                  Forwarded(q, d)' \/ (q = p /\ Head(events[p]).forwarded /\ Head(events[p]).d = d)
             /\ OnceEach(events'[p]) /\ Head(events[p]) \in Event
             /\ Head(events[p]).forwarded => ~ForwardedIn(events'[p], Head(events[p]).d)
             /\ \A q \in Nodes \ {p} : events'[q] = events[q]
  <2> DEFINE s == events[p]
             t == Tail(s)
             h == Head(s)
  <2>1. events'[p] = t /\ \A q \in Nodes \ {p} : events'[q] = events[q]
    BY <1>2 DEF CopyTypes
  <2>2. /\ OnceEach(t) /\ h \in Event
        /\ \A d : ForwardedIn(s, d) <=> ForwardedIn(t, d) \/ (h.forwarded /\ h.d = d)
        /\ h.forwarded => ~ForwardedIn(t, h.d)
    BY <1>0, <1>2, EventTaken
  <2> HIDE DEF t, h
  <2>3. \A q \in Nodes, d \in Data : Forwarded(q, d) <=> Forwarded(q, d)' \/ (q = p /\ h.forwarded /\ h.d = d)
    BY <2>1, <2>2 DEF Forwarded
  <2>4. OnceEach(events'[p]) /\ h \in Event /\ (h.forwarded => ~ForwardedIn(events'[p], h.d))
    BY <2>1, <2>2
  <2> QED BY <2>1, <2>3, <2>4 DEF h
<1> QED BY <1>1, <1>2

LEMMA ForwardedPlacesStep ==
  ASSUME RetriesInv, FreshInv, PlacesInv, [NetworkNext]_networkVars
  PROVE  ForwardedPlaces'
<1>0. /\ TypeOK /\ CallTypes /\ CopyTypes /\ CallsInv /\ FreshInv
      /\ ReplicaPlaces /\ ForwardedPlaces
  BY DEF RetriesInv, PlacesInv
<1> USE DEF placing, dataVars, application
<1>b. \A x \in accepted : x[1] \in Nodes /\ x[2] \in Data /\ x = <<x[1], x[2]>>
  BY <1>0 DEF CopyTypes
<1>c. \A p \in Nodes : OnceEach(events[p])
  BY <1>0 DEF ForwardedPlaces
<1>d. \A p \in Nodes, d \in Data : Forwarded(p, d) => p \in taken[d]
  BY <1>0 DEF ForwardedPlaces
<1>1. UNCHANGED <<taken, accepted, events>> => ForwardedPlaces'
  BY <1>0 DEF ForwardedPlaces, Forwarded
\* More nodes have taken data.
<1>2. ASSUME NEW n \in Nodes, NEW d \in Data, ShardLocally(n, d) PROVE ForwardedPlaces'
  <2>1. UNCHANGED <<accepted, events>> /\ taken' = [taken EXCEPT ![d] = @ \cup {n}]
    BY <1>2 DEF ShardLocally
  <2>2. \A e \in Data : taken[e] \subseteq taken'[e]
    BY <2>1, <1>0 DEF CallTypes
  <2> QED BY <2>1, <2>2, <1>b, <1>0 DEF ForwardedPlaces, Forwarded
<1>3. ASSUME NEW r \in rpcs, TakeForwarded(r) PROVE ForwardedPlaces'
  <2> DEFINE x == <<r.to, r.d>>
  <2>1. /\ UNCHANGED events /\ taken' = [taken EXCEPT ![r.d] = @ \cup {r.to}]
        /\ accepted' = accepted \cup {x} /\ r.op = "shard" /\ ~r.answered
    BY <1>3 DEF TakeForwarded
  <2>2. r.to \notin taken[r.d] /\ r.to \in Nodes /\ r.d \in Data
    BY <2>1, <1>0 DEF FreshInv, CallTypes, Rpc
  <2>3. ~Forwarded(r.to, r.d)
    BY <2>2, <1>d
  <2>4. r.to \in taken'[r.d] /\ \A e \in Data : taken[e] \subseteq taken'[e]
    BY <2>1, <2>2, <1>0 DEF CallTypes
  <2>5. x[1] = r.to /\ x[2] = r.d
    OBVIOUS
  <2> HIDE DEF x
  <2> QED BY <2>1, <2>3, <2>4, <2>5, <1>b, <1>0 DEF ForwardedPlaces, Forwarded
<1>4. ASSUME NEW x \in accepted, HandleIncomingShardData(x[1], x[2]) PROVE ForwardedPlaces'
  <2> DEFINE e == [forwarded |-> TRUE, d |-> x[2]]
  <2>1. UNCHANGED taken /\ accepted' = accepted \ {x}
    BY <1>4, <1>b DEF HandleIncomingShardData
  <2>2. e \in Event /\ e.forwarded /\ e.d = x[2] /\ x[1] \in Nodes /\ x[2] \in Data
    BY <1>b DEF Event
  <2>3. events' = [events EXCEPT ![x[1]] = Append(@, e)]
    BY <1>4 DEF HandleIncomingShardData
  <2> HIDE DEF e
  <2>4. x[1] \in taken[x[2]] /\ ~Forwarded(x[1], x[2]) /\ OnceEach(events[x[1]])
    BY <2>2, <1>0 DEF ForwardedPlaces
  <2>5. /\ \A q \in Nodes, d \in Data :
             Forwarded(q, d)' <=> Forwarded(q, d) \/ (q = x[1] /\ d = x[2])
        /\ OnceEach(events'[x[1]]) /\ \A q \in Nodes \ {x[1]} : events'[q] = events[q]
    <3>1. PICK p \in Nodes : p = x[1]
      BY <2>2
    <3>2. OnceEach(events[p]) /\ ~Forwarded(p, e.d) /\ events' = [events EXCEPT ![p] = Append(@, e)]
      BY <2>2, <2>3, <2>4, <3>1
    <3>3. /\ \A q \in Nodes, d \in Data : Forwarded(q, d)' <=>
               Forwarded(q, d) \/ (q = p /\ e.forwarded /\ e.d = d)
          /\ (e.forwarded => ~Forwarded(p, e.d)) => OnceEach(events'[p])
          /\ \A q \in Nodes \ {p} : events'[q] = events[q]
      BY <2>2, <3>2, <1>0, EventSteps
    <3> QED BY <2>2, <3>1, <3>2, <3>3
  <2>6. \A y \in accepted' : y[1] \in taken'[y[2]] /\ ~Forwarded(y[1], y[2])'
    <3> SUFFICES ASSUME NEW y \in accepted' PROVE y[1] \in taken'[y[2]] /\ ~Forwarded(y[1], y[2])'
      OBVIOUS
    <3>1. y \in accepted /\ y # x /\ y[1] \in Nodes /\ y[2] \in Data /\ y[1] \in taken[y[2]]
      BY <2>1, <1>b, <1>0 DEF ForwardedPlaces
    <3>2. ~(y[1] = x[1] /\ y[2] = x[2]) /\ ~Forwarded(y[1], y[2])
      BY <3>1, <1>b, <1>0 DEF ForwardedPlaces
    <3> QED BY <2>1, <2>5, <3>1, <3>2
  <2>7. \A q \in Nodes : OnceEach(events'[q])
    BY <2>5, <1>c
  <2>8. \A q \in Nodes, d \in Data : Forwarded(q, d)' => q \in taken'[d]
    BY <2>1, <2>4, <2>5, <1>d
  <2> QED BY <2>6, <2>7, <2>8 DEF ForwardedPlaces
\* An event that announces a replica, or one that is taken.
<1>5. ASSUME UNCHANGED <<taken, accepted>>, \A q \in Nodes : OnceEach(events'[q]),
             \A q \in Nodes, d \in Data : Forwarded(q, d)' => Forwarded(q, d)
      PROVE  ForwardedPlaces'
  <2>1. \A y \in accepted' : y[1] \in taken'[y[2]] /\ ~Forwarded(y[1], y[2])'
    <3> SUFFICES ASSUME NEW y \in accepted' PROVE y[1] \in taken'[y[2]] /\ ~Forwarded(y[1], y[2])'
      OBVIOUS
    <3>1. /\ y \in accepted /\ y[1] \in Nodes /\ y[2] \in Data /\ y[1] \in taken[y[2]]
          /\ ~Forwarded(y[1], y[2])
      BY <1>5, <1>b, <1>0 DEF ForwardedPlaces
    <3> QED BY <1>5, <3>1
  <2>2. \A q \in Nodes, d \in Data : Forwarded(q, d)' => q \in taken'[d]
    BY <1>5, <1>d
  <2> QED BY <2>1, <2>2, <1>5 DEF ForwardedPlaces
<1>6. ASSUME NEW p \in Nodes, NEW x \in news[p], AnnounceReplica(p, x) PROVE ForwardedPlaces'
  <2> DEFINE e == [forwarded |-> FALSE, d |-> x[2]]
  <2>1. e \in Event /\ ~e.forwarded
    BY <1>0 DEF Event, CopyTypes
  <2>2. events' = [events EXCEPT ![p] = Append(@, e)] /\ UNCHANGED <<taken, accepted>>
    BY <1>6 DEF AnnounceReplica
  <2> HIDE DEF e
  <2>3. /\ \A q \in Nodes, d \in Data : Forwarded(q, d)' <=> Forwarded(q, d)
        /\ OnceEach(events'[p]) /\ \A q \in Nodes \ {p} : events'[q] = events[q]
    BY <2>1, <2>2, <1>c, <1>0, EventSteps
  <2> QED BY <2>2, <2>3, <1>c, <1>5
<1>7. ASSUME NEW p \in Nodes, StoreForwarded(p) \/ StoreReplica(p) PROVE ForwardedPlaces'
  <2>1. /\ events[p] # <<>> /\ events' = [events EXCEPT ![p] = Tail(@)]
        /\ UNCHANGED <<taken, accepted>>
    BY <1>7 DEF StoreForwarded, StoreReplica
  <2>2. /\ \A q \in Nodes, d \in Data : Forwarded(q, d)' => Forwarded(q, d)
        /\ OnceEach(events'[p]) /\ \A q \in Nodes \ {p} : events'[q] = events[q]
    BY <2>1, <1>c, <1>0, EventSteps
  <2> QED BY <2>1, <2>2, <1>c, <1>5
<1>8. ASSUME NEW n \in Nodes, \/ \E s \in Shards : JoinShard(n, s)
                              \/ \E op \in Ops, d \in Data : NobodyToAsk(n, op, d) \/ AskOthers(n, op, d)
                              \/ \E d \in Data : FetchLocally(n, d)
                              \/ \E x \in pushing[n] : PushReplica(n, x)
      PROVE  ForwardedPlaces'
  BY <1>8, <1>1 DEF JoinShard, NobodyToAsk, AskOthers, FetchLocally, PushReplica
<1>9. ASSUME NEW n \in Nodes, NEW c \in ask[n], \/ \E p \in c.left : SendRpc(n, c, p)
                                                \/ \E r \in rpcs : AnswerArrives(n, c, r)
                                                \/ \E r \in rpcs : RpcFails(n, c, r)
                                                \/ AllFailed(n, c)
      PROVE  ForwardedPlaces'
  BY <1>9, <1>1 DEF SendRpc, AnswerArrives, RpcFails, AllFailed
<1>10. ASSUME NEW r \in rpcs, ServeFetch(r) PROVE ForwardedPlaces'
  BY <1>10, <1>1 DEF ServeFetch
<1>11. UNCHANGED dataVars => ForwardedPlaces'
  BY <1>1
<1> QED
  BY NetworkCases, <1>2, <1>3, <1>4, <1>6, <1>7, <1>8, <1>9, <1>10, <1>11

\* locate_shard() finds at most one shard.
LEMMA OneShard ==
  ASSUME NEW d, NEW s \in LocateShard(d), NEW t \in LocateShard(d)
  PROVE  s = t
<1>1. CASE Policy = "hash"
  BY <1>1 DEF LocateShard
<1>2. CASE Policy # "hash"
  <2>1. s \in RangeShard(Key[d]) /\ t \in RangeShard(Key[d]) /\ DOMAIN Ranges \subseteq Int
    BY <1>2, DataAssumption DEF LocateShard
  <2> DEFINE k == Key[d]
  <2>2. PICK u \in DOMAIN Ranges : s = Ranges[u] /\ k <= u /\ \A c \in DOMAIN Ranges : k <= c => u <= c
    BY <2>1 DEF RangeShard
  <2>3. PICK v \in DOMAIN Ranges : t = Ranges[v] /\ k <= v /\ \A c \in DOMAIN Ranges : k <= c => v <= c
    BY <2>1 DEF RangeShard
  <2>4. u <= v /\ v <= u /\ u \in Int /\ v \in Int
    BY <2>1, <2>2, <2>3
  <2> QED BY <2>2, <2>3, <2>4
<1> QED BY <1>1, <1>2

\* The datum of an event.
LEMMA HeadTyped ==
  ASSUME CopyTypes, NEW p \in Nodes, events[p] # <<>>
  PROVE  Head(events[p]) \in Event /\ Head(events[p]).d \in Data
<1> DEFINE s == events[p]
<1>1. s \in Seq(Event) /\ s # <<>>
  BY EventsTyped
<1> HIDE DEF s
<1>2. Head(s) \in Event
  BY <1>1
<1> QED BY <1>2 DEF s, Event

\* How storing changes the storage.
LEMMA StoredIs ==
  ASSUME CopyTypes, NEW p \in Nodes, NEW d \in Data, NEW q \in Nodes, NEW e \in Data,
         storage' = Stored(q, e)
  PROVE  storage'[p][d] = IF p = q /\ d = e /\ d \in OneWord THEN storage[p][d] + 1 ELSE storage[p][d]
BY DEF Stored, CopyTypes

LEMMA NoneStoredStep ==
  ASSUME RetriesInv, PlacesInv, NoneStored, [NetworkNext]_networkVars
  PROVE  NoneStored'
<1>0. CallTypes /\ CopyTypes /\ ReplicaPlaces /\ ForwardedPlaces
  BY DEF RetriesInv, PlacesInv
<1> USE DEF placing, dataVars, application
<1> SUFFICES ASSUME NEW p \in Nodes, NEW d \in Data, taken'[d] = {}
             PROVE  storage'[p][d] = 0
  BY DEF NoneStored
<1>1. ASSUME taken[d] = {}, storage'[p][d] = storage[p][d] PROVE storage'[p][d] = 0
  BY <1>1 DEF NoneStored
<1>2. ASSUME UNCHANGED <<taken, storage>> PROVE storage'[p][d] = 0
  BY <1>1, <1>2
<1>3. ASSUME NEW n \in Nodes, NEW e \in Data, ShardLocally(n, e) PROVE storage'[p][d] = 0
  <2>1. /\ taken' = [taken EXCEPT ![e] = @ \cup {n}]
        /\ storage' = [storage EXCEPT ![n][e] = @ + 1]
    BY <1>3 DEF ShardLocally
  <2>2. d # e /\ taken[d] = {}
    BY <2>1, <1>0 DEF CallTypes
  <2>3. storage'[p][d] = storage[p][d]
    BY <2>1, <2>2, <1>0 DEF CopyTypes
  <2> QED BY <2>2, <2>3, <1>1
<1>4. ASSUME NEW r \in rpcs, TakeForwarded(r) PROVE storage'[p][d] = 0
  <2>1. taken' = [taken EXCEPT ![r.d] = @ \cup {r.to}] /\ UNCHANGED storage
    BY <1>4 DEF TakeForwarded
  <2>2. taken[d] = {}
    BY <2>1, <1>0 DEF CallTypes
  <2> QED BY <2>1, <2>2, <1>1
<1>5. ASSUME NEW n \in Nodes, NEW e \in Data, storage' = Stored(n, e), UNCHANGED taken,
             taken[e] # {}
      PROVE  storage'[p][d] = 0
  <2>1. d # e
    BY <1>5
  <2> QED BY <2>1, <1>0, <1>1, <1>5, StoredIs
<1>6. ASSUME NEW n \in Nodes, StoreForwarded(n) PROVE storage'[p][d] = 0
  <2> DEFINE h == Head(events[n])
  <2>1. /\ events[n] # <<>> /\ h.forwarded /\ storage' = Stored(n, h.d) /\ UNCHANGED taken
        /\ events' = [events EXCEPT ![n] = Tail(@)]
    BY <1>6 DEF StoreForwarded
  <2>2. h.d \in Data
    BY <2>1, <1>0, HeadTyped
  <2>3. ForwardedIn(events[n], h.d)
    BY <2>1, <1>0, EventsTyped, EventTaken DEF ForwardedPlaces
  <2>4. taken[h.d] # {}
    BY <2>2, <2>3, <1>0 DEF ForwardedPlaces, Forwarded
  <2> QED BY <2>1, <2>2, <2>4, <1>5
<1>7. ASSUME NEW n \in Nodes, StoreReplica(n) PROVE storage'[p][d] = 0
  <2>1. UNCHANGED taken /\ (UNCHANGED storage \/ \E x \in repl[n] : storage' = Stored(n, x[2]))
    BY <1>7 DEF StoreReplica, ReplicaToStore
  <2>2. ASSUME NEW x \in repl[n], storage' = Stored(n, x[2]) PROVE storage'[p][d] = 0
    <3>1. PICK z \in Nodes, e \in Data : x = <<z, e>> /\ x[1] = z /\ x[2] = e
      BY <1>0 DEF CopyTypes
    <3>2. z \in taken[e]
      BY <3>1, <1>0 DEF ReplicaPlaces
    <3> QED BY <2>1, <2>2, <3>1, <3>2, <1>5
  <2> QED BY <2>1, <2>2, <1>2
<1>8. ASSUME NEW n \in Nodes, \/ \E s \in Shards : JoinShard(n, s)
                              \/ \E op \in Ops, e \in Data : NobodyToAsk(n, op, e) \/ AskOthers(n, op, e)
                              \/ \E e \in Data : FetchLocally(n, e)
                              \/ \E x \in news[n] : AnnounceReplica(n, x)
                              \/ \E x \in pushing[n] : PushReplica(n, x)
      PROVE  storage'[p][d] = 0
  BY <1>8, <1>2 DEF JoinShard, NobodyToAsk, AskOthers, FetchLocally, AnnounceReplica, PushReplica
<1>9. ASSUME NEW n \in Nodes, NEW c \in ask[n], \/ \E q \in c.left : SendRpc(n, c, q)
                                                \/ \E r \in rpcs : AnswerArrives(n, c, r)
                                                \/ \E r \in rpcs : RpcFails(n, c, r)
                                                \/ AllFailed(n, c)
      PROVE  storage'[p][d] = 0
  BY <1>9, <1>2 DEF SendRpc, AnswerArrives, RpcFails, AllFailed
<1>10. ASSUME NEW r \in rpcs, ServeFetch(r) PROVE storage'[p][d] = 0
  BY <1>10, <1>2 DEF ServeFetch
<1>11. ASSUME NEW x \in accepted, HandleIncomingShardData(x[1], x[2]) PROVE storage'[p][d] = 0
  BY <1>11, <1>2 DEF HandleIncomingShardData
<1>12. UNCHANGED dataVars => storage'[p][d] = 0
  BY <1>2
<1> QED
  BY NetworkCases, <1>3, <1>4, <1>6, <1>7, <1>8, <1>9, <1>10, <1>11, <1>12

LEMMA AllStoredStep ==
  ASSUME DataApart, StoresReplicas, SoundInv, KeptInv, [NetworkNext]_networkVars
  PROVE  AllStored'
<1>0. /\ TypeOK /\ CallTypes /\ CopyTypes /\ CallsInv /\ ApartInv /\ AskedInv /\ FreshInv
      /\ ReplicasInv /\ ReplicaPlaces /\ ForwardedPlaces /\ NoneStored /\ AllStored /\ ViewsSound
  BY DEF KeptInv, PlacedInv, RetriesInv, PlacesInv, StoredInv, SoundInv
<1> USE DEF placing, dataVars, application, replication
<1> SUFFICES ASSUME NEW d \in OneWord, NEW p \in Keepers(d)'
             PROVE  storage'[p][d] = Cardinality(Settled(p, d)')
  BY DEF AllStored
<1>a. d \in Data
  BY DataAssumption
<1>b. \A q \in Nodes : OnceEach(events[q])
  BY <1>0 DEF ForwardedPlaces
<1>c. \A x \in accepted : x[1] \in Nodes /\ x[2] \in Data /\ x = <<x[1], x[2]>>
  BY <1>0 DEF CopyTypes
<1>d. taken[d] \subseteq Nodes /\ taken'[d] \subseteq Nodes /\ IsFiniteSet(Settled(p, d))
  <2>1. CallTypes'
    BY <1>0, CallTypesStep
  <2>2. taken[d] \subseteq Nodes /\ taken'[d] \subseteq Nodes
    BY <2>1, <1>0, <1>a DEF CallTypes
  <2> QED BY <2>2, NodesAssumption, FS_Subset DEF Settled
<1> DEFINE Was(q) == q \in taken[d] /\ ~OnItsWay(p, q, d)
           Is(q) == q \in taken'[d] /\ ~OnItsWay(p, q, d)'
           Goal == storage'[p][d] = Cardinality(Settled(p, d)')
\* Membership changes before there is data.
<1>1. ASSUME NoDataYet, UNCHANGED <<taken, storage>> PROVE Goal
  <2>1. taken[d] = {}
    BY <1>1, <1>a, <1>0 DEF NoDataYet, CallsInv, Ops
  <2>2. p \in Nodes
    <3>1. TypeOK'
      BY <1>0, MembershipPart, TypeStep
    <3> QED BY <3>1 DEF TypeOK, Views, Keepers
  <2>3. storage'[p][d] = 0 /\ Settled(p, d)' = {}
    BY <1>1, <1>a, <2>1, <2>2, <1>0 DEF NoneStored, Settled
  <2> QED BY <2>3, FS_EmptySet
\* The same copies have come to the storage as before.
<1>2. ASSUME UNCHANGED vars
      PROVE  /\ p \in Keepers(d) /\ p \in Nodes /\ storage[p][d] \in Nat
             /\ storage[p][d] = Cardinality(Settled(p, d))
  <2>1. p \in Keepers(d)
    BY <1>2 DEF Keepers, vars
  <2>2. p \in Nodes
    BY <2>1, <1>0 DEF Keepers, TypeOK, Views
  <2> QED BY <2>1, <2>2, <1>a, <1>0 DEF AllStored, CopyTypes
<1>3. ASSUME UNCHANGED vars, storage'[p][d] = storage[p][d], \A q \in Nodes : Is(q) <=> Was(q)
      PROVE  Goal
  <2>1. Settled(p, d)' = Settled(p, d)
    BY <1>3, <1>d DEF Settled
  <2> QED BY <1>2, <1>3, <2>1
\* The copy that z took has come to the storage.
<1>4. ASSUME UNCHANGED vars, storage'[p][d] = storage[p][d] + 1, NEW z \in Nodes, Is(z), ~Was(z),
             \A q \in Nodes \ {z} : Is(q) <=> Was(q)
      PROVE  Goal
  <2>1. Settled(p, d)' = Settled(p, d) \cup {z} /\ z \notin Settled(p, d)
    BY <1>4, <1>d DEF Settled
  <2>2. Cardinality(Settled(p, d)') = Cardinality(Settled(p, d)) + 1
    BY <2>1, <1>d, FS_AddElement
  <2> QED BY <1>2, <1>4, <2>2
<1>5. ASSUME UNCHANGED vars, UNCHANGED <<taken, accepted, news, pushing, repl, events, storage>>
      PROVE  Goal
  BY <1>3, <1>5 DEF OnItsWay, Forwarded
<1>6. ASSUME NEW n \in Nodes, NEW e \in Data, ShardLocally(n, e) PROVE Goal
  <2>1. PICK s \in LocateShard(e) : n \in Known(n, s) /\ news' = Gossiped(n, s, e)
    BY <1>6 DEF ShardLocally
  <2>2. /\ UNCHANGED vars /\ UNCHANGED <<accepted, pushing, repl, events>>
        /\ taken' = [taken EXCEPT ![e] = @ \cup {n}]
        /\ storage' = [storage EXCEPT ![n][e] = @ + 1]
        /\ Starts(n, "shard", e)
    BY <1>6 DEF ShardLocally
  <2>3. Quiet /\ taken[e] = {}
    BY <2>2, <1>0 DEF Starts, CallsInv
  <2>4. p \in Keepers(d) /\ p \in Nodes
    BY <2>2, <1>2
  <2>5. news'[p] = news[p] \/ news'[p] = news[p] \cup {<<n, e>>}
    BY <2>1, <2>4, GossipedIs
  <2>6. CASE d # e
    <3>1. taken'[d] = taken[d] /\ storage'[p][d] = storage[p][d]
      BY <2>2, <2>4, <2>6, <1>a, <1>0 DEF CallTypes, CopyTypes
    <3>2. \A q \in Nodes : OnItsWay(p, q, d)' <=> OnItsWay(p, q, d)
      BY <2>2, <2>5, <2>6 DEF OnItsWay, Forwarded
    <3> QED BY <2>2, <3>1, <3>2, <1>3
  <2>7. CASE d = e /\ p = n
    <3>1. taken'[d] = {n} /\ storage'[p][d] = storage[p][d] + 1
      BY <2>2, <2>3, <2>4, <2>7, <1>a, <1>0 DEF CallTypes, CopyTypes
    <3>2. ~OnItsWay(p, p, d)
      BY <2>3, <2>4, <2>7, <1>a, <1>0 DEF OnItsWay, ForwardedPlaces
    <3>3. ~OnItsWay(p, p, d)'
      BY <2>2, <3>2 DEF OnItsWay, Forwarded
    <3> QED BY <2>2, <2>3, <2>7, <3>1, <3>3, <1>4
  <2>8. CASE d = e /\ p # n
    <3>1. taken'[d] = {n} /\ storage'[p][d] = storage[p][d]
      BY <2>2, <2>3, <2>4, <2>8, <1>a, <1>0 DEF CallTypes, CopyTypes
    <3>2. s \in Shards /\ n \in member[s]
      <4>1. Known(n, s) \subseteq Keepers(e)
        BY <2>1, <2>3, <1>0, KnownKeepers
      <4>2. PICK t \in LocateShard(e) \cap Shards : n \in member[t]
        BY <2>1, <4>1 DEF Keepers
      <4>3. t = s
        BY <2>1, <4>2, OneShard
      <4> QED BY <4>2, <4>3
    <3>3. p \in member[s]
      <4>1. PICK t \in LocateShard(d) \cap Shards : p \in member[t]
        BY <2>4 DEF Keepers
      <4>2. t = s
        BY <2>1, <2>8, <4>1, OneShard
      <4> QED BY <4>1, <4>2
    <3>4. n \in replicas[s] /\ p \in replicas[s]
      BY <3>2, <3>3, <1>0 DEF ReplicasInv
    <3>5. <<n, d>> \in news'[p]
      BY <2>1, <2>4, <2>8, <3>4, GossipedIs
    <3>6. OnItsWay(p, n, d)'
      BY <2>8, <3>5 DEF OnItsWay
    <3> QED BY <2>2, <2>3, <2>8, <3>1, <3>6, <1>3
  <2> QED BY <2>6, <2>7, <2>8
<1>7. ASSUME NEW r \in rpcs, TakeForwarded(r) PROVE Goal
  <2>1. /\ UNCHANGED vars /\ UNCHANGED <<news, pushing, repl, events, storage>>
        /\ taken' = [taken EXCEPT ![r.d] = @ \cup {r.to}]
        /\ accepted' = accepted \cup {<<r.to, r.d>>} /\ r.op = "shard" /\ ~r.answered
    BY <1>7 DEF TakeForwarded
  <2>2. r.to \notin taken[r.d]
    BY <2>1, <1>0 DEF FreshInv
  <2>3. \A q \in Nodes : q # r.to \/ d # r.d =>
          /\ q \in taken'[d] <=> q \in taken[d]
          /\ OnItsWay(p, q, d)' <=> OnItsWay(p, q, d)
    BY <2>1, <1>a, <1>0 DEF OnItsWay, Forwarded, CallTypes
  <2>4. d = r.d => OnItsWay(p, r.to, d)'
    BY <2>1 DEF OnItsWay
  <2> QED BY <2>1, <2>2, <2>3, <2>4, <1>3
<1>8. ASSUME NEW x \in accepted, HandleIncomingShardData(x[1], x[2]) PROVE Goal
  <2>0. PICK z \in Nodes, e \in Data : x = <<z, e>> /\ x[1] = z /\ x[2] = e
    BY <1>c
  <2>1. PICK s \in LocateShard(e) : news' = Gossiped(z, s, e)
    BY <1>8, <2>0 DEF HandleIncomingShardData
  <2>2. UNCHANGED vars /\ UNCHANGED <<taken, pushing, repl, storage>> /\ accepted' = accepted \ {<<z, e>>}
    BY <1>8, <2>0 DEF HandleIncomingShardData
  <2>3. p \in Keepers(d) /\ p \in Nodes
    BY <2>2, <1>2
  <2> DEFINE v == [forwarded |-> TRUE, d |-> e]
  <2>4. v \in Event /\ v.forwarded /\ v.d = e
    BY DEF Event
  <2>5. events' = [events EXCEPT ![z] = Append(@, v)]
    BY <1>8, <2>0 DEF HandleIncomingShardData
  <2> HIDE DEF v
  <2>6. Forwarded(p, d)' <=> Forwarded(p, d) \/ (p = z /\ d = e)
    <3>1. CopyTypes /\ OnceEach(events[z])
      BY <1>a, <1>b, <1>0 DEF ForwardedPlaces
    <3>2. \A q \in Nodes, d2 \in Data : Forwarded(q, d2)' <=>
            Forwarded(q, d2) \/ (q = z /\ v.forwarded /\ v.d = d2)
      BY <2>4, <2>5, <3>1, EventSteps
    <3>3. Forwarded(p, d)' <=> Forwarded(p, d) \/ (p = z /\ v.forwarded /\ v.d = d)
      BY <2>3, <3>2, <1>a
    <3> QED BY <2>4, <3>3
  <2>7. news'[p] = news[p] \/ news'[p] = news[p] \cup {<<z, e>>}
    <3>1. Gossiped(z, s, e)[p] = news[p] \/ Gossiped(z, s, e)[p] = news[p] \cup {<<z, e>>}
      BY <2>3, GossipedIs
    <3> QED BY <2>1, <3>1
  <2>8. \A q \in Nodes : q # z \/ d # e => (OnItsWay(p, q, d)' <=> OnItsWay(p, q, d))
    BY <2>2, <2>6, <2>7 DEF OnItsWay
  <2>9. d = e => OnItsWay(p, z, d) /\ OnItsWay(p, z, d)'
    <3> SUFFICES ASSUME d = e PROVE OnItsWay(p, z, d) /\ OnItsWay(p, z, d)'
      OBVIOUS
    <3>1. OnItsWay(p, z, d)
      BY <2>0 DEF OnItsWay
    <3>2. CASE p = z
      BY <2>6, <3>1, <3>2 DEF OnItsWay
    <3>3. CASE p # z
      <4>1. z \in Keepers(e)
        BY <2>0, <1>0 DEF ForwardedPlaces, AskedInv
      <4>2. PICK t \in LocateShard(e) \cap Shards : z \in member[t]
        BY <4>1 DEF Keepers
      <4>3. PICK u \in LocateShard(e) \cap Shards : p \in member[u]
        BY <2>3 DEF Keepers
      <4>4. t = s /\ u = s
        BY <2>1, <4>2, <4>3, OneShard
      <4>5. z \in replicas[s] /\ p \in replicas[s]
        BY <4>2, <4>3, <4>4, <1>0 DEF ReplicasInv
      <4>6. <<z, d>> \in news'[p]
        BY <2>1, <2>3, <3>3, <4>5, GossipedIs
      <4> QED BY <3>1, <3>3, <4>6 DEF OnItsWay
    <3> QED BY <3>2, <3>3
  <2> QED BY <2>2, <2>8, <2>9, <1>3
<1>9. ASSUME NEW n \in Nodes, NEW x \in news[n], AnnounceReplica(n, x) PROVE Goal
  <2>1. /\ news'[n] = news[n] \ {x} /\ pushing'[n] = pushing[n] \cup {x}
        /\ \A q \in Nodes \ {n} : news'[q] = news[q] /\ pushing'[q] = pushing[q]
        /\ UNCHANGED vars /\ UNCHANGED <<taken, accepted, repl, storage>>
    BY <1>9, <1>0 DEF AnnounceReplica, CopyTypes
  <2> DEFINE v == [forwarded |-> FALSE, d |-> x[2]]
  <2>2. v \in Event /\ ~v.forwarded
    BY <1>0 DEF Event, CopyTypes
  <2>3. events' = [events EXCEPT ![n] = Append(@, v)]
    BY <1>9 DEF AnnounceReplica
  <2> HIDE DEF v
  <2>4. p \in Nodes
    BY <2>1, <1>2
  <2>5. Forwarded(p, d)' <=> Forwarded(p, d)
    BY <2>2, <2>3, <2>4, <1>a, <1>b, <1>0, EventSteps
  <2>6. news'[p] \cup pushing'[p] = news[p] \cup pushing[p]
    BY <2>1, <2>4
  <2>7. \A q \in Nodes : OnItsWay(p, q, d)' <=> OnItsWay(p, q, d)
    BY <2>1, <2>5, <2>6 DEF OnItsWay
  <2> QED BY <2>1, <2>7, <1>3
<1>10. ASSUME NEW n \in Nodes, NEW x \in pushing[n], PushReplica(n, x) PROVE Goal
  <2>1. /\ pushing'[n] = pushing[n] \ {x} /\ repl'[n] = repl[n] \cup {x}
        /\ \A q \in Nodes \ {n} : repl'[q] = repl[q] /\ pushing'[q] = pushing[q]
        /\ UNCHANGED vars /\ UNCHANGED <<taken, accepted, news, storage, events>>
    BY <1>10, <1>0 DEF PushReplica, CopyTypes
  <2>2. p \in Nodes
    BY <2>1, <1>2
  <2>3. pushing'[p] \cup repl'[p] = pushing[p] \cup repl[p]
    BY <2>1, <2>2
  <2>4. \A q \in Nodes : OnItsWay(p, q, d)' <=> OnItsWay(p, q, d)
    BY <2>1, <2>3 DEF OnItsWay, Forwarded
  <2> QED BY <2>1, <2>4, <1>3
<1>11. ASSUME NEW n \in Nodes, StoreForwarded(n) PROVE Goal
  <2> DEFINE h == Head(events[n])
  <2>1. /\ events[n] # <<>> /\ h.forwarded /\ storage' = Stored(n, h.d)
        /\ UNCHANGED vars /\ UNCHANGED <<taken, accepted, news, pushing, repl>>
        /\ events' = [events EXCEPT ![n] = Tail(@)]
    BY <1>11 DEF StoreForwarded
  <2>2. h.d \in Data
    BY <2>1, <1>0, HeadTyped
  <2>3. /\ \A q \in Nodes, e \in Data : Forwarded(q, e) <=> Forwarded(q, e)' \/ (q = n /\ h.forwarded /\ h.d = e)
        /\ ~ForwardedIn(events'[n], h.d)
    BY <2>1, <1>b, <1>0, EventSteps
  <2> HIDE DEF h
  <2>4. p \in Nodes
    BY <2>1, <1>2
  <2>5. storage'[p][d] = IF p = n /\ d = h.d THEN storage[p][d] + 1 ELSE storage[p][d]
    BY <2>1, <2>2, <2>4, <1>a, <1>0, StoredIs
  <2>6. CASE p = n /\ d = h.d
    <3>1. Forwarded(p, d) /\ ~Forwarded(p, d)'
      BY <2>1, <2>2, <2>3, <2>6 DEF Forwarded
    <3>2. p \in taken[d] /\ <<p, d>> \notin accepted
      BY <2>4, <3>1, <1>a, <1>0 DEF ForwardedPlaces
    <3>3. Is(p) /\ ~Was(p)
      BY <2>1, <3>1, <3>2 DEF OnItsWay
    <3>4. \A q \in Nodes \ {p} : Is(q) <=> Was(q)
      BY <2>1 DEF OnItsWay
    <3> QED BY <2>1, <2>4, <2>5, <2>6, <3>3, <3>4, <1>4
  <2>7. CASE ~(p = n /\ d = h.d)
    <3>1. Forwarded(p, d)' <=> Forwarded(p, d)
      BY <2>3, <2>4, <2>7, <1>a
    <3>2. \A q \in Nodes : OnItsWay(p, q, d)' <=> OnItsWay(p, q, d)
      BY <2>1, <3>1 DEF OnItsWay
    <3> QED BY <2>1, <2>5, <2>7, <3>2, <1>3
  <2> QED BY <2>6, <2>7
<1>12. ASSUME NEW n \in Nodes, StoreReplica(n) PROVE Goal
  <2> DEFINE h == Head(events[n])
  <2>1. /\ events[n] # <<>> /\ ~h.forwarded
        /\ UNCHANGED vars /\ UNCHANGED <<taken, accepted, news, pushing>>
        /\ events' = [events EXCEPT ![n] = Tail(@)]
    BY <1>12 DEF StoreReplica
  <2>2. \A q \in Nodes, e \in Data : Forwarded(q, e) <=> Forwarded(q, e)' \/ (q = n /\ h.forwarded /\ h.d = e)
    BY <2>1, <1>b, <1>0, EventSteps
  <2>3. p \in Nodes
    BY <2>1, <1>2
  <2>4. Forwarded(p, d)' <=> Forwarded(p, d)
    BY <2>1, <2>2, <2>3, <1>a
  <2> HIDE DEF h
  <2>5. \/ UNCHANGED <<repl, storage>>
        \/ \E x \in repl[n] : repl' = [repl EXCEPT ![n] = @ \ {x}] /\ storage' = Stored(n, x[2])
    BY <1>12 DEF StoreReplica, ReplicaToStore
  <2>6. CASE UNCHANGED <<repl, storage>>
    <3>1. \A q \in Nodes : OnItsWay(p, q, d)' <=> OnItsWay(p, q, d)
      BY <2>1, <2>4, <2>6 DEF OnItsWay
    <3> QED BY <2>1, <2>6, <3>1, <1>3
  <2>7. ASSUME NEW x \in repl[n], repl' = [repl EXCEPT ![n] = @ \ {x}], storage' = Stored(n, x[2])
        PROVE  Goal
    <3>1. PICK z \in Nodes, e \in Data : x = <<z, e>> /\ x[1] = z /\ x[2] = e
      BY <1>0 DEF CopyTypes
    <3>2. /\ z # n /\ z \in taken[e] /\ <<z, e>> \notin accepted
          /\ <<z, e>> \notin news[n] \cup pushing[n]
      BY <3>1, <1>0 DEF ReplicaPlaces
    <3>3. repl'[n] = repl[n] \ {<<z, e>>} /\ \A q \in Nodes \ {n} : repl'[q] = repl[q]
      BY <2>7, <3>1, <1>0 DEF CopyTypes
    <3>4. storage'[p][d] = IF p = n /\ d = e THEN storage[p][d] + 1 ELSE storage[p][d]
      BY <2>3, <2>7, <3>1, <1>a, <1>0, StoredIs
    <3>5. CASE p = n /\ d = e
      <4>1. OnItsWay(p, z, d) /\ ~OnItsWay(p, z, d)'
        BY <2>1, <3>1, <3>2, <3>3, <3>5 DEF OnItsWay
      <4>2. Is(z) /\ ~Was(z)
        BY <2>1, <3>2, <3>5, <4>1
      <4>3. \A q \in Nodes \ {z} : Is(q) <=> Was(q)
        BY <2>1, <2>4, <3>3, <3>5 DEF OnItsWay
      <4> QED BY <2>1, <3>4, <3>5, <4>2, <4>3, <1>4
    <3>6. CASE ~(p = n /\ d = e)
      <4>1. \A q \in Nodes : OnItsWay(p, q, d)' <=> OnItsWay(p, q, d)
        BY <2>1, <2>3, <2>4, <3>3, <3>6 DEF OnItsWay
      <4> QED BY <2>1, <3>4, <3>6, <4>1, <1>3
    <3> QED BY <3>5, <3>6
  <2> QED BY <2>5, <2>6, <2>7
<1>13. ASSUME NEW n \in Nodes, NEW s \in Shards, JoinShard(n, s) PROVE Goal
  BY <1>13, <1>1 DEF JoinShard
<1>14. ASSUME NEW n \in Nodes, \/ \E op \in Ops, e \in Data : NobodyToAsk(n, op, e) \/ AskOthers(n, op, e)
                               \/ \E e \in Data : FetchLocally(n, e)
       PROVE  Goal
  BY <1>14, <1>5 DEF NobodyToAsk, AskOthers, FetchLocally
<1>15. ASSUME NEW n \in Nodes, NEW c \in ask[n], \/ \E q \in c.left : SendRpc(n, c, q)
                                                 \/ \E r \in rpcs : AnswerArrives(n, c, r)
                                                 \/ \E r \in rpcs : RpcFails(n, c, r)
                                                 \/ AllFailed(n, c)
       PROVE  Goal
  BY <1>15, <1>5 DEF SendRpc, AnswerArrives, RpcFails, AllFailed
<1>16. ASSUME NEW r \in rpcs, ServeFetch(r) PROVE Goal
  BY <1>16, <1>5 DEF ServeFetch
<1>17. ASSUME UNCHANGED dataVars, Quiet => NoDataYet \/ UNCHANGED vars PROVE Goal
  <2>1. CASE Quiet
    BY <1>17, <2>1, <1>1, <1>5
  <2>2. CASE ~Quiet
    <3>1. NoDataYet
      BY <2>2, <1>0 DEF ApartInv, NoDataYet
    <3> QED BY <1>17, <3>1, <1>1
  <2> QED BY <2>1, <2>2
<1> HIDE DEF Goal
<1>18. Goal
  BY NetworkCases, <1>6, <1>7, <1>8, <1>9, <1>10, <1>11, <1>12, <1>13, <1>14, <1>15, <1>16, <1>17
<1> QED BY <1>18 DEF Goal

-----------------------------------------------------------------------------
(* Every copy is kept *)

\* What is proved of an application that keeps replicas, with that of membership.
CopiesInv == SoundInv /\ (StoresReplicas => KeptInv)

LEMMA KeptInit == NetworkInit => CopiesInv
<1> SUFFICES ASSUME NetworkInit PROVE CopiesInv
  OBVIOUS
<1>1. SoundInv /\ PlacedInv
  BY SoundInvInit, PlacedInit DEF NetworkInit
<1>2. FreshInv /\ PlacesInv
  <2>1. \A p \in Nodes : Len(events[p]) = 0
    BY DEF NetworkInit, DataInit
  <2>2. \A p \in Nodes : OnceEach(events[p]) /\ \A d \in Data : ~Forwarded(p, d)
    BY <2>1 DEF OnceEach, Forwarded, ForwardedIn
  <2> QED
    BY <2>2 DEF NetworkInit, Init, DataInit, FreshInv, PlacesInv, ReplicasInv, ReplicaPlaces,
                ForwardedPlaces
<1>3. StoredInv
  <2>1. NoneStored
    BY DEF NetworkInit, DataInit, NoneStored
  <2>2. \A d : Keepers(d) = {}
    BY DEF NetworkInit, Init, Keepers
  <2> QED BY <2>1, <2>2 DEF StoredInv, AllStored
<1> QED BY <1>1, <1>2, <1>3 DEF CopiesInv, KeptInv

LEMMA KeptStep ==
  ASSUME ExitsApart, DataApart, CopiesInv, [NetworkNext]_networkVars
  PROVE  CopiesInv'
<1>1. SoundInv'
  BY MembershipPart, SoundInvStep DEF CopiesInv
<1>2. ASSUME StoresReplicas PROVE KeptInv'
  <2>0. /\ SoundInv /\ KeptInv /\ RetriesInv /\ ApartInv /\ AskedInv /\ FreshInv /\ PlacesInv
        /\ ReplicasInv /\ NoneStored /\ PlacedInv
    BY <1>2 DEF CopiesInv, KeptInv, PlacedInv, PlacesInv, StoredInv
  <2>1. RetriesInv' /\ ApartInv' /\ AskedInv'
    BY <2>0, RetriesStep, ApartStep, AskedStep
  <2>2. FreshInv' /\ ReplicasInv' /\ ReplicaPlaces' /\ ForwardedPlaces'
    BY <2>0, FreshStep, ReplicasStep, ReplicaPlacesStep, ForwardedPlacesStep
  <2>3. NoneStored'
    BY <2>0, NoneStoredStep
  <2>4. AllStored'
    BY <2>0, <1>2, AllStoredStep
  <2> QED BY <2>1, <2>2, <2>3, <2>4 DEF KeptInv, PlacedInv, PlacesInv, StoredInv
<1> QED BY <1>1, <1>2 DEF CopiesInv

\* The replicas of d in a buffer, by their publishers.
LEMMA ReplicasOf ==
  ASSUME NEW d \in Data, NEW S \in SUBSET (Nodes \X Data), NEW P \in SUBSET Nodes,
         \A q \in Nodes : q \in P <=> <<q, d>> \in S
  PROVE  /\ IsFiniteSet(P)
         /\ Cardinality({x \in S : x[2] = d}) = Cardinality(P)
<1> DEFINE R == {x \in S : x[2] = d}
           f == [q \in P |-> <<q, d>>]
<1>1. IsFiniteSet(P)
  BY NodesAssumption, FS_Subset
<1>2. f \in [P -> R]
  OBVIOUS
<1>3. \A q, r \in P : f[q] = f[r] => q = r
  OBVIOUS
<1>4. \A x \in R : \E q \in P : f[q] = x
  <2> SUFFICES ASSUME NEW x \in R PROVE \E q \in P : f[q] = x
    OBVIOUS
  <2>1. PICK q \in Nodes : x = <<q, d>>
    OBVIOUS
  <2>2. q \in P
    BY <2>1
  <2> QED BY <2>1, <2>2
<1> HIDE DEF f, R
<1>5. f \in Bijection(P, R)
  BY <1>2, <1>3, <1>4, Fun_IsBij
<1>6. ExistsBijection(P, R)
  BY <1>5 DEF ExistsBijection
<1>7. Cardinality(R) = Cardinality(P)
  BY <1>1, <1>6, FS_Bijection
<1> QED BY <1>1, <1>7 DEF R

\* At rest a copy that has not been stored is in the buffer of replicas.
LEMMA KeptAtRest ==
  ASSUME KeptInv, DataAtRest, NEW d \in OneWord, NEW p \in Keepers(d)
  PROVE  storage[p][d] + Cardinality({x \in repl[p] : x[2] = d}) = Cardinality(taken[d])
<1>0. /\ TypeOK /\ CallTypes /\ CopyTypes /\ ReplicaPlaces /\ AllStored
  BY DEF KeptInv, PlacedInv, RetriesInv, PlacesInv, StoredInv
<1>a. d \in Data
  BY DataAssumption
<1>b. p \in Nodes
  BY <1>0 DEF Keepers, TypeOK, Views
<1> DEFINE Waiting == {q \in Nodes : <<q, d>> \in repl[p]}
<1>1. /\ repl[p] \in SUBSET (Nodes \X Data) /\ IsFiniteSet(taken[d])
  <2>1. taken[d] \subseteq Nodes
    BY <1>0, <1>a DEF CallTypes
  <2> QED BY <2>1, <1>0, <1>b, NodesAssumption, FS_Subset DEF CopyTypes
<1>2. /\ IsFiniteSet(Waiting)
      /\ Cardinality({x \in repl[p] : x[2] = d}) = Cardinality(Waiting)
  <2> DEFINE S == repl[p]
  <2>1. S \in SUBSET (Nodes \X Data) /\ Waiting \in SUBSET Nodes
    BY <1>1
  <2>2. \A q \in Nodes : q \in Waiting <=> <<q, d>> \in S
    OBVIOUS
  <2> HIDE DEF Waiting, S
  <2>3. IsFiniteSet(Waiting) /\ Cardinality({x \in S : x[2] = d}) = Cardinality(Waiting)
    BY <2>1, <2>2, <1>a, ReplicasOf
  <2> QED BY <2>3 DEF S
<1>3. Waiting \subseteq taken[d] \ {p}
  <2> SUFFICES ASSUME NEW q \in Waiting PROVE q \in taken[d] /\ q # p
    OBVIOUS
  <2> DEFINE x == <<q, d>>
  <2>1. x \in repl[p] /\ x[1] = q /\ x[2] = d
    OBVIOUS
  <2> HIDE DEF x
  <2>2. x[1] # p /\ x[1] \in taken[x[2]]
    BY <2>1, <1>b, <1>0 DEF ReplicaPlaces
  <2> QED BY <2>1, <2>2
<1>4. Settled(p, d) = taken[d] \ Waiting
  <2>1. ~Forwarded(p, d)
    BY <1>b DEF DataAtRest, Forwarded, ForwardedIn
  <2>2. accepted = {} /\ news[p] = {} /\ pushing[p] = {}
    BY <1>b DEF DataAtRest
  <2>3. \A q \in Nodes : OnItsWay(p, q, d) <=> p # q /\ <<q, d>> \in repl[p]
    BY <2>1, <2>2 DEF OnItsWay
  <2>4. \A q \in taken[d] : q \in Nodes /\ (OnItsWay(p, q, d) <=> q \in Waiting)
    BY <2>3, <1>3, <1>0, <1>a DEF CallTypes
  <2> QED BY <2>4 DEF Settled
<1> HIDE DEF Waiting
<1>5. Cardinality(taken[d] \ Waiting) = Cardinality(taken[d]) - Cardinality(Waiting)
  <2>1. taken[d] \cap Waiting = Waiting
    BY <1>3
  <2> QED BY <2>1, <1>1, FS_Difference
<1>6. storage[p][d] = Cardinality(taken[d]) - Cardinality(Waiting)
  BY <1>4, <1>5, <1>0 DEF AllStored
<1>7. Cardinality(taken[d]) \in Nat /\ Cardinality(Waiting) \in Nat
  BY <1>1, <1>2, FS_CardinalityType
<1> QED BY <1>2, <1>6, <1>7

(***************************************************************************)
(* With membership settled before data is sharded, every node of a shard   *)
(* ends up with one copy of a datum for each node that took it, stored or  *)
(* in the buffer of replicas: what shard() placed at one node is lost at   *)
(* none, and the event of the node's own copy does not store it again.     *)
(***************************************************************************)
THEOREM EveryCopyKeptTheorem ==
  ASSUME ExitsApart, DataApart
  PROVE  NetworkSpec => []EveryCopyKept
<1>1. CopiesInv /\ [NetworkNext]_networkVars => CopiesInv'
  BY KeptStep
<1>2. CopiesInv => EveryCopyKept
  BY KeptAtRest DEF CopiesInv, EveryCopyKept
<1> QED BY KeptInit, <1>1, <1>2, PTL DEF NetworkSpec

-----------------------------------------------------------------------------
(* fetch() asks nodes that have the data *)

\* What becomes of the results: a call is over for good.
LEMMA OverStays ==
  ASSUME CallTypes, CallsInv, [NetworkNext]_networkVars, NEW d \in Data,
         result["shard"][d] \notin {"none", "pending"}
  PROVE  result'["shard"][d] = result["shard"][d]
<1> USE DEF calling, placing, dataVars
<1>a. "shard" \in Ops /\ "fetch" \in Ops
  BY DEF Ops
<1>b. \A n \in Nodes : \A c \in ask[n] : c.op \in Ops /\ c.d \in Data
  BY DEF Call, CallTypes
<1>1. ASSUME NEW op \in Ops, NEW e \in Data, NEW o, Returns(op, e, o),
             result[op][e] \in {"none", "pending"}
      PROVE  result'["shard"][d] = result["shard"][d]
  <2>1. ~(op = "shard" /\ e = d)
    BY <1>1
  <2> QED BY <2>1, <1>1, <1>a DEF Returns, CallTypes
<1>2. UNCHANGED result => result'["shard"][d] = result["shard"][d]
  OBVIOUS
<1>3. ASSUME NEW n \in Nodes, NEW op \in Ops, NEW e \in Data, NobodyToAsk(n, op, e) \/ AskOthers(n, op, e)
      PROVE  result'["shard"][d] = result["shard"][d]
  BY <1>3, <1>1 DEF NobodyToAsk, AskOthers, Starts
<1>4. ASSUME NEW n \in Nodes, NEW e \in Data, ShardLocally(n, e) \/ FetchLocally(n, e)
      PROVE  result'["shard"][d] = result["shard"][d]
  BY <1>4, <1>1, <1>a DEF ShardLocally, FetchLocally, Starts
<1>5. ASSUME NEW n \in Nodes, NEW c \in ask[n], \/ \E r \in rpcs : AnswerArrives(n, c, r)
                                                \/ AllFailed(n, c)
      PROVE  result'["shard"][d] = result["shard"][d]
  <2>1. result[c.op][c.d] = "pending" /\ \E o : Returns(c.op, c.d, o)
    BY <1>5 DEF AnswerArrives, AllFailed, CallsInv
  <2> QED BY <2>1, <1>b, <1>1
<1> QED
  BY NetworkCases, <1>2, <1>3, <1>4, <1>5
     DEF JoinShard, SendRpc, RpcFails, TakeForwarded, ServeFetch, HandleIncomingShardData,
         AnnounceReplica, PushReplica, StoreForwarded, StoreReplica

\* A replica leaves the buffer only for the storage.
LEMMA HoldsStays ==
  ASSUME CallTypes, CopyTypes, [NetworkNext]_networkVars, NEW p \in Nodes, NEW d \in OneWord,
         Holds(p, d)
  PROVE  Holds(p, d)'
<1> USE DEF placing, dataVars, application, replication
<1>a. d \in Data /\ storage[p][d] \in Nat
  BY DataAssumption DEF CopyTypes
<1>1. ASSUME UNCHANGED <<repl, storage>> PROVE Holds(p, d)'
  BY <1>1 DEF Holds
<1>2. ASSUME NEW n \in Nodes, NEW e \in Data, ShardLocally(n, e) PROVE Holds(p, d)'
  <2>1. storage' = [storage EXCEPT ![n][e] = @ + 1] /\ UNCHANGED repl
    BY <1>2 DEF ShardLocally
  <2>2. storage'[p][d] >= storage[p][d] /\ storage'[p][d] \in Nat
    BY <2>1, <1>a DEF CopyTypes
  <2> QED BY <2>1, <2>2, <1>a DEF Holds
<1>3. ASSUME NEW n \in Nodes, NEW x \in pushing[n], PushReplica(n, x) PROVE Holds(p, d)'
  <2>1. repl[p] \subseteq repl'[p] /\ UNCHANGED storage
    BY <1>3 DEF PushReplica, CopyTypes
  <2> QED BY <2>1 DEF Holds
\* What is stored only adds.
<1>4. ASSUME NEW n \in Nodes, NEW e \in Data, storage' = Stored(n, e)
      PROVE  /\ storage[p][d] > 0 => storage'[p][d] > 0
             /\ p = n /\ d = e => storage'[p][d] > 0
  <2>1. storage'[p][d] = IF p = n /\ d = e /\ d \in OneWord THEN storage[p][d] + 1 ELSE storage[p][d]
    BY <1>4, <1>a, StoredIs
  <2> QED BY <2>1, <1>a
<1>5. ASSUME NEW n \in Nodes, StoreForwarded(n) PROVE Holds(p, d)'
  <2> DEFINE e == Head(events[n]).d
  <2>1. events[n] # <<>> /\ storage' = Stored(n, e) /\ UNCHANGED repl
    BY <1>5 DEF StoreForwarded
  <2>2. e \in Data
    BY <2>1, HeadTyped
  <2> HIDE DEF e
  <2> QED BY <2>1, <2>2, <1>4 DEF Holds
<1>6. ASSUME NEW n \in Nodes, StoreReplica(n) PROVE Holds(p, d)'
  <2>1. \/ UNCHANGED <<repl, storage>>
        \/ \E x \in repl[n] : repl' = [repl EXCEPT ![n] = @ \ {x}] /\ storage' = Stored(n, x[2])
    BY <1>6 DEF StoreReplica, ReplicaToStore
  <2>2. ASSUME NEW x \in repl[n], repl' = [repl EXCEPT ![n] = @ \ {x}], storage' = Stored(n, x[2])
        PROVE  Holds(p, d)'
    <3>1. PICK z \in Nodes, e \in Data : x = <<z, e>> /\ x[2] = e
      BY DEF CopyTypes
    <3>2. /\ storage[p][d] > 0 => storage'[p][d] > 0
          /\ p = n /\ d = e => storage'[p][d] > 0
      BY <2>2, <3>1, <1>4
    <3>3. \A y \in repl[p] : y \in repl'[p] \/ (p = n /\ y = x)
      BY <2>2 DEF CopyTypes
    <3> QED BY <3>1, <3>2, <3>3 DEF Holds
  <2> QED BY <2>1, <2>2, <1>1
<1> QED
  BY NetworkCases, <1>1, <1>2, <1>3, <1>5, <1>6
     DEF JoinShard, NobodyToAsk, FetchLocally, AskOthers, SendRpc, AnswerArrives, RpcFails,
         AllFailed, TakeForwarded, ServeFetch, HandleIncomingShardData, AnnounceReplica

LEMMA HeldStays ==
  ASSUME CallTypes, CopyTypes, CallsInv, [NetworkNext]_networkVars,
         NEW d \in Data, NEW S \in SUBSET Nodes, HeldBy(d, S)
  PROVE  HeldBy(d, S)'
<1>1. result'["shard"][d] = result["shard"][d]
  BY OverStays DEF HeldBy
<1>2. ASSUME d \in OneWord, Placed(d)' PROVE \A p \in S : Holds(p, d)'
  <2>1. \A p \in S : p \in Nodes /\ Holds(p, d)
    BY <1>1, <1>2 DEF HeldBy, Placed
  <2> QED BY <2>1, <1>2, HoldsStays
<1> QED BY <1>1, <1>2 DEF HeldBy

\* When nothing is under way all nodes of the shard hold what has been placed.
LEMMA HeldAtRest ==
  ASSUME KeptInv, PlacedTakenInv, DataAtRest, NEW d \in OneWord, Placed(d), NEW p \in Keepers(d)
  PROVE  Holds(p, d)
<1>1. d \in Data
  BY DataAssumption
<1>2. TypeOK /\ CallTypes /\ CopyTypes
  BY DEF KeptInv, PlacedInv, RetriesInv
<1>3. p \in Nodes /\ storage[p][d] \in Nat
  BY <1>1, <1>2 DEF Keepers, TypeOK, Views, CopyTypes
<1>4. IsFiniteSet(taken[d]) /\ taken[d] # {}
  <2>1. taken[d] \subseteq Nodes
    BY <1>1, <1>2 DEF CallTypes
  <2> QED BY <2>1, <1>1, NodesAssumption, FS_Subset DEF PlacedTakenInv
<1>5. Cardinality(taken[d]) \in Nat \ {0}
  BY <1>4, FS_EmptySet, FS_CardinalityType
<1> DEFINE R == {x \in repl[p] : x[2] = d}
<1>6. storage[p][d] + Cardinality(R) = Cardinality(taken[d])
  BY KeptAtRest
<1>7. CASE R = {}
  <2>1. Cardinality(R) = 0
    BY <1>7, FS_EmptySet
  <2> HIDE DEF R
  <2> QED BY <2>1, <1>3, <1>5, <1>6 DEF Holds
<1>8. CASE R # {}
  BY <1>8 DEF Holds
<1> QED BY <1>7, <1>8

LEMMA PendingStep ==
  ASSUME CallTypes, CallsInv, PendingInv, [NetworkNext]_networkVars
  PROVE  PendingInv'
<1> USE DEF calling, placing, dataVars
<1>a. "shard" \in Ops /\ "fetch" \in Ops /\ "shard" # "fetch"
  BY DEF Ops
<1>b. \A n \in Nodes : \A c \in ask[n] : c \in Call /\ c.op \in Ops /\ c.d \in Data
  BY DEF Call, CallTypes
<1>1. UNCHANGED <<ask, result>> => PendingInv'
  BY DEF PendingInv
<1>2. ASSUME UNCHANGED ask, NEW op \in Ops, NEW e \in Data, NEW o, o # "pending", Returns(op, e, o)
      PROVE  PendingInv'
  <2>1. \A d \in Data : result'["shard"][d] = "pending" => result["shard"][d] = "pending"
    BY <1>2, <1>a DEF Returns, CallTypes
  <2> QED BY <2>1, <1>2 DEF PendingInv
<1>3. ASSUME NEW n \in Nodes, NEW op \in Ops, NEW d \in Data, NobodyToAsk(n, op, d) PROVE PendingInv'
  BY <1>3, <1>2 DEF NobodyToAsk
<1>4. ASSUME NEW n \in Nodes, NEW d \in Data, ShardLocally(n, d) \/ FetchLocally(n, d)
      PROVE  PendingInv'
  BY <1>4, <1>2, <1>a DEF ShardLocally, FetchLocally
\* The call of n becomes another one for the same, or one where there was none.
<1>5. ASSUME NEW n \in Nodes, NEW e, ask' = [ask EXCEPT ![n] = {e}],
             \A c \in ask[n] : c.op = e.op /\ c.d = e.d,
             \A d \in Data : result'["shard"][d] = "pending" =>
               result["shard"][d] = "pending" \/ (e.op = "shard" /\ e.d = d)
      PROVE  PendingInv'
  <2>1. ask'[n] = {e} /\ \A m \in Nodes \ {n} : ask'[m] = ask[m]
    BY <1>5 DEF CallTypes
  <2> SUFFICES ASSUME NEW d \in Data, result'["shard"][d] = "pending"
               PROVE  \E m \in Nodes : \E c \in ask'[m] : c.op = "shard" /\ c.d = d
    BY DEF PendingInv
  <2>2. CASE e.op = "shard" /\ e.d = d
    BY <2>1, <2>2
  <2>3. CASE ~(e.op = "shard" /\ e.d = d)
    <3>1. PICK m \in Nodes : \E c \in ask[m] : c.op = "shard" /\ c.d = d
      BY <2>3, <1>5 DEF PendingInv
    <3>2. m # n
      BY <2>3, <3>1, <1>5
    <3> QED BY <2>1, <3>1, <3>2
  <2> QED BY <2>2, <2>3
<1>6. ASSUME NEW n \in Nodes, NEW op \in Ops, NEW d \in Data, AskOthers(n, op, d) PROVE PendingInv'
  <2>1. PICK s : ask' = [ask EXCEPT ![n] = {[op |-> op, d |-> d, left |-> Known(n, s), to |-> {}]}]
    BY <1>6 DEF AskOthers
  <2> DEFINE e == [op |-> op, d |-> d, left |-> Known(n, s), to |-> {}]
  <2>2. e.op = op /\ e.d = d /\ ask' = [ask EXCEPT ![n] = {e}]
    BY <2>1
  <2> HIDE DEF e
  <2>3. ask[n] = {} /\ Returns(op, d, "pending")
    BY <1>6 DEF AskOthers, Starts
  <2>4. \A f \in Data : result'["shard"][f] = "pending" =>
          result["shard"][f] = "pending" \/ (e.op = "shard" /\ e.d = f)
    BY <2>2, <2>3, <1>a DEF Returns, CallTypes
  <2> QED BY <2>2, <2>3, <2>4, <1>5
<1>7. ASSUME NEW n \in Nodes, NEW c \in ask[n], NEW p \in c.left, SendRpc(n, c, p) PROVE PendingInv'
  <2> DEFINE e == [c EXCEPT !.to = {p}, !.left = @ \ {p}]
  <2>1. e.op = c.op /\ e.d = c.d
    BY <1>b DEF Call
  <2>2. ask' = [ask EXCEPT ![n] = {e}] /\ UNCHANGED result
    BY <1>7 DEF SendRpc
  <2> HIDE DEF e
  <2>3. \A g \in ask[n] : g.op = e.op /\ g.d = e.d
    BY <2>1 DEF CallsInv
  <2> QED BY <2>2, <2>3, <1>5
<1>8. ASSUME NEW n \in Nodes, NEW c \in ask[n], NEW r \in rpcs, RpcFails(n, c, r) PROVE PendingInv'
  <2> DEFINE e == [c EXCEPT !.to = {}]
  <2>1. e.op = c.op /\ e.d = c.d
    BY <1>b DEF Call
  <2>2. ask' = [ask EXCEPT ![n] = {e}] /\ UNCHANGED result
    BY <1>8 DEF RpcFails
  <2> HIDE DEF e
  <2>3. \A g \in ask[n] : g.op = e.op /\ g.d = e.d
    BY <2>1 DEF CallsInv
  <2> QED BY <2>2, <2>3, <1>5
<1>9. ASSUME NEW n \in Nodes, NEW c \in ask[n], \/ \E r \in rpcs : AnswerArrives(n, c, r)
                                                \/ AllFailed(n, c)
      PROVE  PendingInv'
  <2>1. PICK o : o # "pending" /\ Returns(c.op, c.d, o) /\ ask' = [ask EXCEPT ![n] = {}]
    BY <1>9 DEF AnswerArrives, AllFailed, AnswerEndsCall
  <2>2. ask[n] = {c} /\ \A m \in Nodes \ {n} : ask'[m] = ask[m]
    BY <2>1 DEF CallsInv, CallTypes
  <2> SUFFICES ASSUME NEW d \in Data, result'["shard"][d] = "pending"
               PROVE  \E m \in Nodes : \E g \in ask'[m] : g.op = "shard" /\ g.d = d
    BY DEF PendingInv
  <2>3. result["shard"][d] = "pending" /\ ~(c.op = "shard" /\ c.d = d)
    BY <2>1, <1>a, <1>b DEF Returns, CallTypes
  <2>4. PICK m \in Nodes : \E g \in ask[m] : g.op = "shard" /\ g.d = d
    BY <2>3 DEF PendingInv
  <2>5. m # n
    BY <2>2, <2>3, <2>4
  <2> QED BY <2>2, <2>4, <2>5
<1> QED
  BY NetworkCases, <1>1, <1>3, <1>4, <1>6, <1>7, <1>8, <1>9
     DEF JoinShard, TakeForwarded, ServeFetch, HandleIncomingShardData,
         AnnounceReplica, PushReplica, StoreForwarded, StoreReplica

LEMMA PlacedTakenStep ==
  ASSUME CallTypes, CallsInv, FreshInv, PlacedTakenInv, [NetworkNext]_networkVars
  PROVE  PlacedTakenInv'
<1> USE DEF calling, placing, dataVars
<1>a. "shard" \in Ops /\ "fetch" \in Ops /\ "shard" # "fetch"
  BY DEF Ops
<1>b. \A n \in Nodes : \A c \in ask[n] : c \in Call /\ c.op \in Ops /\ c.d \in Data
  BY DEF Call, CallTypes
<1>c. \A r \in rpcs : r \in Rpc /\ r.op \in Ops /\ r.d \in Data
  BY DEF Rpc, CallTypes
<1>1. UNCHANGED <<rpcs, result, taken>> => PlacedTakenInv'
  BY DEF PlacedTakenInv, Placed
\* A result that does not place more, or places what has been taken.
<1>2. ASSUME NEW op \in Ops, NEW e \in Data, NEW o, Returns(op, e, o),
             op = "shard" /\ o \in {"local", "done"} => taken'[e] # {},
             rpcs' \subseteq rpcs, \A d \in Data : taken[d] \subseteq taken'[d]
      PROVE  PlacedTakenInv'
  <2>1. ASSUME NEW d \in Data, Placed(d)' PROVE taken'[d] # {}
    <3>1. CASE op = "shard" /\ e = d
      <4>1. result'["shard"][d] = o
        BY <1>2, <3>1 DEF Returns, CallTypes
      <4> QED BY <2>1, <3>1, <4>1, <1>2 DEF Placed
    <3>2. CASE ~(op = "shard" /\ e = d)
      <4>1. result'["shard"][d] = result["shard"][d]
        BY <1>2, <3>2, <1>a DEF Returns, CallTypes
      <4> QED BY <2>1, <4>1, <1>2 DEF Placed, PlacedTakenInv
    <3> QED BY <3>1, <3>2
  <2> QED BY <2>1, <1>2 DEF PlacedTakenInv
<1>3. ASSUME NEW n \in Nodes, NEW op \in Ops, NEW d \in Data, NobodyToAsk(n, op, d) \/ AskOthers(n, op, d)
      PROVE  PlacedTakenInv'
  <2>1. PICK o \in {"not_found", "no_nodes", "pending"} : Returns(op, d, o)
    BY <1>3 DEF NobodyToAsk, AskOthers
  <2>2. UNCHANGED <<rpcs, taken>>
    BY <1>3 DEF NobodyToAsk, AskOthers
  <2> QED BY <2>1, <2>2, <1>2
<1>4. ASSUME NEW n \in Nodes, NEW d \in Data, ShardLocally(n, d) PROVE PlacedTakenInv'
  <2>1. /\ Returns("shard", d, "local") /\ UNCHANGED rpcs
        /\ taken' = [taken EXCEPT ![d] = @ \cup {n}]
    BY <1>4 DEF ShardLocally
  <2>2. taken'[d] # {} /\ \A e \in Data : taken[e] \subseteq taken'[e]
    BY <2>1 DEF CallTypes
  <2> QED BY <2>1, <2>2, <1>a, <1>2
<1>5. ASSUME NEW n \in Nodes, NEW d \in Data, FetchLocally(n, d) PROVE PlacedTakenInv'
  BY <1>5, <1>a, <1>2 DEF FetchLocally
<1>6. ASSUME NEW n \in Nodes, NEW c \in ask[n], AllFailed(n, c) PROVE PlacedTakenInv'
  BY <1>6, <1>b, <1>2 DEF AllFailed
<1>7. ASSUME NEW n \in Nodes, NEW c \in ask[n], NEW r \in rpcs, AnswerArrives(n, c, r)
      PROVE  PlacedTakenInv'
  <2>1. /\ r.op = c.op /\ r.d = c.d /\ r.answered /\ UNCHANGED taken /\ rpcs' \subseteq rpcs
        /\ Returns(c.op, c.d, IF r.found THEN "done" ELSE "empty")
    BY <1>7 DEF AnswerArrives
  <2>2. c.op = "shard" => taken[c.d] # {}
    BY <2>1 DEF FreshInv
  <2>3. PICK o : Returns(c.op, c.d, o)
    BY <2>1
  <2> QED BY <2>1, <2>2, <2>3, <1>b, <1>2
<1>8. ASSUME NEW n \in Nodes, NEW c \in ask[n], NEW p \in c.left, SendRpc(n, c, p)
      PROVE  PlacedTakenInv'
  <2>1. UNCHANGED <<result, taken>> /\ \A r \in rpcs' : r \in rpcs \/ ~r.answered
    BY <1>8 DEF SendRpc
  <2> QED BY <2>1 DEF PlacedTakenInv, Placed
<1>9. ASSUME NEW n \in Nodes, NEW c \in ask[n], NEW r \in rpcs, RpcFails(n, c, r)
      PROVE  PlacedTakenInv'
  <2>1. UNCHANGED <<result, taken>> /\ rpcs' \subseteq rpcs
    BY <1>9 DEF RpcFails
  <2> QED BY <2>1 DEF PlacedTakenInv, Placed
<1>10. ASSUME NEW r \in rpcs, TakeForwarded(r) PROVE PlacedTakenInv'
  <2>1. /\ UNCHANGED result /\ taken' = [taken EXCEPT ![r.d] = @ \cup {r.to}]
        /\ SetsOut(r, TRUE)
    BY <1>10 DEF TakeForwarded
  <2>2. \A q \in rpcs' : q \in rpcs \/ q.found
    BY <2>1, <1>c DEF SetsOut, Rpc
  <2>3. \A d \in Data : taken[d] \subseteq taken'[d]
    BY <2>1, <1>c DEF CallTypes
  <2> QED BY <2>1, <2>2, <2>3 DEF PlacedTakenInv, Placed
<1>11. ASSUME NEW r \in rpcs, ServeFetch(r) PROVE PlacedTakenInv'
  <2>1. UNCHANGED <<result, taken>> /\ r.op = "fetch" /\ \E f : SetsOut(r, f)
    BY <1>11 DEF ServeFetch
  <2>2. \A q \in rpcs' : q \in rpcs \/ q.op = "fetch"
    BY <2>1, <1>c DEF SetsOut, Rpc
  <2> QED BY <2>1, <2>2 DEF PlacedTakenInv, Placed
<1> QED
  BY NetworkCases, <1>1, <1>3, <1>4, <1>5, <1>6, <1>7, <1>8, <1>9, <1>10, <1>11
     DEF JoinShard, HandleIncomingShardData, AnnounceReplica, PushReplica, StoreForwarded,
         StoreReplica

LEMMA AskedHoldStep ==
  ASSUME DataApart, SoundInv, KeptInv, HoldersInv, [NetworkNext]_networkVars
  PROVE  AskedHoldInv'
<1>0. /\ TypeOK /\ CallTypes /\ CopyTypes /\ CallsInv /\ ViewsSound
      /\ AskedHoldInv /\ PendingInv /\ PlacedTakenInv
  BY DEF KeptInv, PlacedInv, RetriesInv, SoundInv, HoldersInv
<1> USE DEF calling, placing, dataVars
<1>b. \A n \in Nodes : \A c \in ask[n] : c \in Call /\ c.op \in Ops /\ c.d \in Data
                                         /\ c.left \subseteq Nodes /\ c.to \subseteq Nodes
  BY <1>0 DEF Call, CallTypes
<1>c. \A r \in rpcs : r \in Rpc /\ r.op \in Ops /\ r.d \in Data /\ r.to \in Nodes
  BY <1>0 DEF Rpc, CallTypes
<1>d. ASSUME NEW d \in Data, NEW S \in SUBSET Nodes, HeldBy(d, S) PROVE HeldBy(d, S)'
  BY <1>d, <1>0, HeldStays
<1>e. ASSUME NEW d \in Data, NEW S, NEW T \in SUBSET S, HeldBy(d, S)' PROVE HeldBy(d, T)'
  BY <1>e DEF HeldBy
\* Every call and every RPC comes from one that was there.
<1>1. ASSUME \A n \in Nodes : \A c \in ask'[n] : c.op = "fetch" =>
               \E m \in Nodes : \E e \in ask[m] :
                 e.op = c.op /\ e.d = c.d /\ c.left \cup c.to \subseteq e.left \cup e.to,
             \A r \in rpcs' : r.op = "fetch" =>
               \/ \E q \in rpcs : q.op = r.op /\ q.d = r.d /\ q.to = r.to
               \/ \E m \in Nodes : \E e \in ask[m] : e.op = r.op /\ e.d = r.d /\ r.to \in e.left
      PROVE  AskedHoldInv'
  <2>1. ASSUME NEW n \in Nodes, NEW c \in ask'[n], c.op = "fetch"
        PROVE  HeldBy(c.d, c.left \cup c.to)'
    <3>1. PICK m \in Nodes : \E e \in ask[m] :
            e.op = c.op /\ e.d = c.d /\ c.left \cup c.to \subseteq e.left \cup e.to
      BY <2>1, <1>1
    <3>2. PICK e \in ask[m] :
            e.op = c.op /\ e.d = c.d /\ c.left \cup c.to \subseteq e.left \cup e.to
      BY <3>1
    <3>3. HeldBy(e.d, e.left \cup e.to)
      BY <3>2, <2>1, <1>0 DEF AskedHoldInv
    <3>4. HeldBy(e.d, e.left \cup e.to)' /\ e.d \in Data
      BY <3>3, <1>b, <1>d
    <3> QED BY <3>2, <3>4, <1>e
  <2>2. ASSUME NEW r \in rpcs', r.op = "fetch" PROVE HeldBy(r.d, {r.to})'
    <3>1. CASE \E q \in rpcs : q.op = r.op /\ q.d = r.d /\ q.to = r.to
      <4>1. PICK q \in rpcs : q.op = r.op /\ q.d = r.d /\ q.to = r.to
        BY <3>1
      <4>2. HeldBy(q.d, {q.to})
        BY <4>1, <2>2, <1>0 DEF AskedHoldInv
      <4>3. HeldBy(q.d, {q.to})'
        BY <4>2, <1>c, <1>d
      <4> QED BY <4>1, <4>3
    <3>2. CASE \E m \in Nodes : \E e \in ask[m] : e.op = r.op /\ e.d = r.d /\ r.to \in e.left
      <4>1. PICK m \in Nodes : \E e \in ask[m] : e.op = r.op /\ e.d = r.d /\ r.to \in e.left
        BY <3>2
      <4>2. PICK e \in ask[m] : e.op = r.op /\ e.d = r.d /\ r.to \in e.left
        BY <4>1
      <4>3. HeldBy(e.d, e.left \cup e.to)
        BY <4>2, <2>2, <1>0 DEF AskedHoldInv
      <4>4. HeldBy(e.d, e.left \cup e.to)' /\ e.d \in Data /\ {r.to} \subseteq e.left \cup e.to
        BY <4>2, <4>3, <1>b, <1>d
      <4> QED BY <4>2, <4>4, <1>e
    <3> QED BY <2>2, <3>1, <3>2, <1>1
  <2> QED BY <2>1, <2>2 DEF AskedHoldInv
<1>2. ASSUME UNCHANGED <<ask, rpcs>> PROVE AskedHoldInv'
  BY <1>2, <1>1
<1>3. ASSUME NEW n \in Nodes, NEW op \in Ops, NEW d \in Data, AskOthers(n, op, d)
      PROVE  AskedHoldInv'
  <2>1. PICK s \in LocateShard(d) :
          ask' = [ask EXCEPT ![n] = {[op |-> op, d |-> d, left |-> Known(n, s), to |-> {}]}]
    BY <1>3 DEF AskOthers
  <2>0. PICK S : S = Known(n, s)
    OBVIOUS
  <2> DEFINE c == [op |-> op, d |-> d, left |-> S, to |-> {}]
  <2>2. c.op = op /\ c.d = d /\ c.left \cup c.to = S /\ ask' = [ask EXCEPT ![n] = {c}]
    BY <2>0, <2>1
  <2> HIDE DEF c
  <2>3. ask'[n] = {c} /\ \A m \in Nodes \ {n} : ask'[m] = ask[m]
    BY <2>2, <1>0 DEF CallTypes
  <2>4. Starts(n, op, d) /\ Quiet /\ UNCHANGED rpcs
    BY <1>3 DEF AskOthers, Starts
  <2>5. ASSUME op = "fetch" PROVE HeldBy(d, S)'
    <3>1. DataAtRest /\ result["shard"][d] # "none"
      BY <2>4, <2>5 DEF Starts
    <3>2. \A m \in Nodes : ask[m] = {}
      BY <3>1 DEF DataAtRest
    <3>3. result["shard"][d] # "pending"
      BY <3>2, <1>0 DEF PendingInv
    <3>4. S \subseteq Keepers(d) /\ S \subseteq Nodes
      <4>1. S \subseteq Keepers(d)
        BY <2>0, <2>1, <2>4, <1>0, KnownKeepers
      <4>2. Keepers(d) \subseteq Nodes
        BY <1>0 DEF Keepers, TypeOK, Views
      <4> QED BY <4>1, <4>2
    <3>5. ASSUME d \in OneWord, Placed(d), NEW p \in S PROVE Holds(p, d)
      BY <3>1, <3>4, <3>5, <1>0, HeldAtRest
    <3>6. HeldBy(d, S)
      BY <3>1, <3>3, <3>5 DEF HeldBy
    <3> QED BY <3>4, <3>6, <1>d
  <2>6. ASSUME NEW m \in Nodes, NEW e \in ask'[m], e.op = "fetch" PROVE HeldBy(e.d, e.left \cup e.to)'
    <3>1. CASE m = n
      BY <2>2, <2>3, <2>5, <2>6, <3>1
    <3>2. CASE m # n
      <4>1. HeldBy(e.d, e.left \cup e.to) /\ e \in ask[m]
        BY <2>3, <2>6, <3>2, <1>0 DEF AskedHoldInv
      <4> QED BY <4>1, <1>b, <1>d
    <3> QED BY <3>1, <3>2
  <2>7. ASSUME NEW r \in rpcs', r.op = "fetch" PROVE HeldBy(r.d, {r.to})'
    <3>1. HeldBy(r.d, {r.to}) /\ r \in rpcs
      BY <2>4, <2>7, <1>0 DEF AskedHoldInv
    <3> QED BY <3>1, <1>c, <1>d
  <2> QED BY <2>6, <2>7 DEF AskedHoldInv
<1>4. ASSUME NEW n \in Nodes, NEW c \in ask[n], NEW p \in c.left, SendRpc(n, c, p)
      PROVE  AskedHoldInv'
  <2> DEFINE e == [c EXCEPT !.to = {p}, !.left = @ \ {p}]
  <2>1. e.op = c.op /\ e.d = c.d /\ e.left \cup e.to \subseteq c.left \cup c.to
    BY <1>b DEF Call
  <2>2. /\ ask' = [ask EXCEPT ![n] = {e}]
        /\ \A r \in rpcs' : r \in rpcs \/ (r.op = c.op /\ r.d = c.d /\ r.to \in c.left)
    BY <1>4 DEF SendRpc
  <2> HIDE DEF e
  <2>3. ask'[n] = {e} /\ \A m \in Nodes \ {n} : ask'[m] = ask[m]
    BY <2>2, <1>0 DEF CallTypes
  <2>4. \A m \in Nodes : \A g \in ask'[m] : \E h \in ask[m] :
          h.op = g.op /\ h.d = g.d /\ g.left \cup g.to \subseteq h.left \cup h.to
    BY <2>1, <2>3
  <2> QED BY <2>2, <2>4, <1>1
<1>5. ASSUME NEW n \in Nodes, NEW c \in ask[n], NEW r \in rpcs, RpcFails(n, c, r)
      PROVE  AskedHoldInv'
  <2> DEFINE e == [c EXCEPT !.to = {}]
  <2>1. e.op = c.op /\ e.d = c.d /\ e.left \cup e.to \subseteq c.left \cup c.to
    BY <1>b DEF Call
  <2>2. ask' = [ask EXCEPT ![n] = {e}] /\ rpcs' \subseteq rpcs
    BY <1>5 DEF RpcFails
  <2> HIDE DEF e
  <2>3. ask'[n] = {e} /\ \A m \in Nodes \ {n} : ask'[m] = ask[m]
    BY <2>2, <1>0 DEF CallTypes
  <2>4. \A m \in Nodes : \A g \in ask'[m] : \E h \in ask[m] :
          h.op = g.op /\ h.d = g.d /\ g.left \cup g.to \subseteq h.left \cup h.to
    BY <2>1, <2>3
  <2> QED BY <2>2, <2>4, <1>1
<1>6. ASSUME NEW n \in Nodes, NEW c \in ask[n], \/ \E r \in rpcs : AnswerArrives(n, c, r)
                                                \/ AllFailed(n, c)
      PROVE  AskedHoldInv'
  <2>1. ask' = [ask EXCEPT ![n] = {}] /\ rpcs' \subseteq rpcs
    BY <1>6 DEF AnswerArrives, AllFailed, AnswerEndsCall
  <2>2. \A m \in Nodes : ask'[m] \subseteq ask[m]
    BY <2>1, <1>0 DEF CallTypes
  <2> QED BY <2>1, <2>2, <1>1
<1>7. ASSUME NEW r \in rpcs, TakeForwarded(r) \/ ServeFetch(r) PROVE AskedHoldInv'
  <2>1. UNCHANGED ask /\ \E f : SetsOut(r, f)
    BY <1>7 DEF TakeForwarded, ServeFetch
  <2>2. \A q \in rpcs' : \E k \in rpcs : k.op = q.op /\ k.d = q.d /\ k.to = q.to
    BY <2>1, <1>c DEF SetsOut, Rpc
  <2> QED BY <2>1, <2>2, <1>1
<1> QED
  BY NetworkCases, <1>2, <1>3, <1>4, <1>5, <1>6, <1>7
     DEF JoinShard, NobodyToAsk, ShardLocally, FetchLocally, HandleIncomingShardData,
         AnnounceReplica, PushReplica, StoreForwarded, StoreReplica

HeldInv == SoundInv /\ (DataApart /\ StoresReplicas => KeptInv /\ HoldersInv)

(***************************************************************************)
(* With data sharded once membership is settled, every node that fetch()   *)
(* asks for data that shard() has placed holds it, stored or unread in its *)
(* buffer of replicas: whichever node answers first has the data, or has   *)
(* yet to consume it.                                                      *)
(***************************************************************************)
THEOREM FetchAsksHoldersTheorem ==
  ASSUME ExitsApart
  PROVE  NetworkSpec => []FetchAsksHolders
<1>1. NetworkInit => HeldInv
  <2> SUFFICES ASSUME NetworkInit PROVE SoundInv /\ (StoresReplicas => KeptInv) /\ HoldersInv
    BY DEF HeldInv
  <2>1. HoldersInv
    BY DEF NetworkInit, DataInit, HoldersInv, AskedHoldInv, PendingInv, PlacedTakenInv, Placed, Ops
  <2> QED BY <2>1, KeptInit DEF CopiesInv
<1>2. ASSUME HeldInv, [NetworkNext]_networkVars PROVE HeldInv'
  <2>1. SoundInv'
    BY <1>2, MembershipPart, SoundInvStep DEF HeldInv
  <2>2. ASSUME DataApart, StoresReplicas PROVE KeptInv' /\ HoldersInv'
    <3>1. SoundInv /\ KeptInv /\ HoldersInv /\ CopiesInv
      BY <1>2, <2>2 DEF HeldInv, CopiesInv
    <3>2. CallTypes /\ CopyTypes /\ CallsInv /\ FreshInv /\ PendingInv /\ PlacedTakenInv
      BY <3>1 DEF KeptInv, PlacedInv, RetriesInv, HoldersInv
    <3>3. KeptInv'
      BY <3>1, <2>2, <1>2, KeptStep DEF CopiesInv
    <3>4. AskedHoldInv' /\ PendingInv' /\ PlacedTakenInv'
      BY <3>1, <3>2, <2>2, <1>2, AskedHoldStep, PendingStep, PlacedTakenStep
    <3> QED BY <3>3, <3>4 DEF HoldersInv
  <2> QED BY <2>1, <2>2 DEF HeldInv
<1>3. HeldInv => FetchAsksHolders
  BY DEF HeldInv, HoldersInv, AskedHoldInv, HeldBy, Placed, Holds, FetchAsksHolders
<1> QED BY <1>1, <1>2, <1>3, PTL DEF NetworkSpec

=============================================================================
