----------------------------- MODULE ShardData -----------------------------
(***************************************************************************)
(* Data in a sharded network: shard() and fetch() of                       *)
(* src/swarm-nl/src/core/sharding.rs, what the nodes of a shard do with    *)
(* the RPCs (core/mod.rs), and the application that keeps the data, as the *)
(* examples under src/examples/sharding write it.  It extends              *)
(* ShardMembership, whose views tell a node whom to ask.                   *)
(*                                                                         *)
(* A node of the shard replicates the data itself.  Any other node sends   *)
(* it to the nodes of the shard it knows, one after the other, until one   *)
(* answers.  A node that takes forwarded data answers first, then tells    *)
(* its application by an event, and replicates the data in the shard.      *)
(*                                                                         *)
(* The buffers of the replica network are those of EventualSync; here they *)
(* are sets, and a pop takes some entry.  Gossip of replicated data        *)
(* arrives; it is the RPCs that are lost or late.                          *)
(***************************************************************************)
EXTENDS ShardMembership, Sequences, SequencesExt

CONSTANTS
  Data,           \* what the users shard, each once
  OneWord,        \* the data that is a file name and a single word
  Key,            \* Key[d]: its key, bytes under "hash", a number under "range"
  Policy,         \* "hash" or "range": which example's locate_shard
  HashWidth,      \* number of hash values before the sum wraps (2^64)
  Ranges,         \* Ranges[u]: the shard of the keys up to u, under "range"
  StoresReplicas, \* TRUE: the application keeps replicas too (hash example)
  MaxLost,        \* bound of the model on the RPCs without a timely answer
  MaxFetches,     \* bound of the model on the data fetched
  DataApart       \* TRUE: data is sharded once no call of membership is to come

ASSUME DataAssumption ==
  /\ IsFiniteSet(Data) /\ OneWord \subseteq Data /\ {MaxLost, MaxFetches} \subseteq Nat
  /\ Policy \in {"hash", "range"} /\ HashWidth \in Nat \ {0}
  /\ StoresReplicas \in BOOLEAN /\ DataApart \in BOOLEAN
  /\ Policy = "range" => DOMAIN Ranges \subseteq Int

VARIABLES
  replicas,   \* replicas[s]: nodes in the replica network of s
  ask,        \* ask[n]: the call of shard() or fetch() under way at n, {} if none
  rpcs,       \* RPCs under way
  lost,       \* number of RPCs without a timely answer
  result,     \* result[op][d]: what the call for d came to
  taken,      \* taken[d]: the nodes that took d and replicated it
  accepted,   \* <<p, d>>: the task at p that handles forwarded data has yet to run
  news,       \* news[p]: replicas on their way to p, <<publisher, d>>
  pushing,    \* pushing[p]: those announced by an event and not yet in the buffer
  repl,       \* repl[p]: replicas in the buffer of p
  events,     \* events[p]: the event queue of p
  storage     \* storage[p][d]: how many times the application has stored d

calling == <<ask, rpcs, lost, result>>
placing == <<taken, accepted>>
replication == <<replicas, news, pushing, repl>>
application == <<events, storage>>
dataVars == <<calling, placing, replication, application>>
networkVars == <<vars, dataVars>>

Ops == {"shard", "fetch"}

DataInit ==
  /\ replicas = [s \in Shards |-> {}]
  /\ ask = [n \in Nodes |-> {}]
  /\ rpcs = {}
  /\ lost = 0
  /\ result = [op \in Ops |-> [d \in Data |-> "none"]]
  /\ taken = [d \in Data |-> {}]
  /\ accepted = {}
  /\ news = [p \in Nodes |-> {}]
  /\ pushing = [p \in Nodes |-> {}]
  /\ repl = [p \in Nodes |-> {}]
  /\ events = [p \in Nodes |-> <<>>]
  /\ storage = [p \in Nodes |-> [d \in Data |-> 0]]

-----------------------------------------------------------------------------
(* Which shard, and which nodes *)

\* hash_key(): the first byte counts twice.
HashKey(k) ==
  IF k = <<>> THEN 0
  ELSE FoldLeft(LAMBDA sum, byte : (sum + byte) % HashWidth, Head(k) % HashWidth, k)

\* RangeSharding: the shard of the least bound that is not below the key.
RangeShard(k) ==
  {Ranges[u] : u \in {b \in DOMAIN Ranges :
                        k <= b /\ \A c \in DOMAIN Ranges : k <= c => b <= c}}

\* locate_shard(): {} if there is no shard for the key.
LocateShard(d) == IF Policy = "hash" THEN {HashKey(Key[d])} ELSE RangeShard(Key[d])

\* The nodes n knows of the shard s, which need not be one that anybody joined.
Known(n, s) == IF s \in Shards THEN view[n][s] ELSE {}

-----------------------------------------------------------------------------
(* Calls *)

\* Nothing of data is under way.
DataAtRest ==
  /\ rpcs = {} /\ accepted = {}
  /\ \A n \in Nodes : /\ ask[n] = {} /\ news[n] = {} /\ pushing[n] = {}
                      /\ events[n] = <<>>

\* A mutant of Gossiped: the data stays where it is.
NotGossiped(n, s, d) == news

\* replicate() by n in s: the data is gossiped to the other replicas.
Gossiped(n, s, d) ==
  [p \in Nodes |-> IF n \in replicas[s] /\ p \in replicas[s] \ {n}
                   THEN news[p] \cup {<<n, d>>} ELSE news[p]]

Returns(op, d, r) == result' = [result EXCEPT ![op][d] = r]

Fetched == {d \in Data : result["fetch"][d] # "none"}

\* A call for d at n starts. fetch() is called for data that was sharded, when
\* nothing is under way.
Starts(n, op, d) ==
  /\ ask[n] = {}
  /\ result[op][d] = "none"
  /\ DataApart => Quiet
  /\ op = "fetch" => DataAtRest /\ result["shard"][d] # "none"
                       /\ Cardinality(Fetched) < MaxFetches

\* No shard has the key, or no node of the shard is known.
NobodyToAsk(n, op, d) ==
  /\ Starts(n, op, d)
  /\ \/ LocateShard(d) = {} /\ Returns(op, d, "not_found")
     \/ \E s \in LocateShard(d) : Known(n, s) = {} /\ Returns(op, d, "no_nodes")
  /\ UNCHANGED <<vars, ask, rpcs, lost, placing, replication, application>>

\* n is in the shard: it replicates the data, and the application stores it.
ShardLocally(n, d) ==
  /\ Starts(n, "shard", d)
  /\ \E s \in LocateShard(d) :
       /\ n \in Known(n, s)
       /\ news' = Gossiped(n, s, d)
  /\ taken' = [taken EXCEPT ![d] = @ \cup {n}]
  /\ storage' = [storage EXCEPT ![n][d] = @ + 1]
  /\ Returns("shard", d, "local")
  /\ UNCHANGED <<vars, ask, rpcs, lost, accepted, replicas, pushing, repl, events>>

\* n is in the shard: the user is to read the data locally.
FetchLocally(n, d) ==
  /\ Starts(n, "fetch", d)
  /\ \E s \in LocateShard(d) : n \in Known(n, s)
  /\ Returns("fetch", d, "local")
  /\ UNCHANGED <<vars, ask, rpcs, lost, placing, replication, application>>

\* n is not in the shard: it will ask the nodes it knows, in a random order.
AskOthers(n, op, d) ==
  /\ Starts(n, op, d)
  /\ \E s \in LocateShard(d) :
       /\ Known(n, s) # {} /\ n \notin Known(n, s)
       /\ ask' = [ask EXCEPT ![n] =
                    {[op |-> op, d |-> d, left |-> Known(n, s), to |-> {}]}]
  /\ Returns(op, d, "pending")
  /\ UNCHANGED <<vars, rpcs, lost, placing, replication, application>>

\* The user's command "shard", which ends at once or waits for RPCs.
UserShards(n, d) == NobodyToAsk(n, "shard", d) \/ ShardLocally(n, d) \/ AskOthers(n, "shard", d)

\* The user's command "fetch".
UserFetches(n, d) == NobodyToAsk(n, "fetch", d) \/ FetchLocally(n, d) \/ AskOthers(n, "fetch", d)

-----------------------------------------------------------------------------
(* RPCs *)

\* The next node is asked.
SendRpc(n, c, p) ==
  /\ c \in ask[n] /\ c.to = {} /\ p \in c.left
  /\ ask' = [ask EXCEPT ![n] = {[c EXCEPT !.to = {p}, !.left = @ \ {p}]}]
  /\ rpcs' = rpcs \cup {[op |-> c.op, from |-> n, to |-> p, d |-> c.d,
                         answered |-> FALSE, found |-> FALSE]}
  /\ UNCHANGED <<vars, lost, result, placing, replication, application>>

Awaited(r) == \E c \in ask[r.from] : c.op = r.op /\ c.d = r.d /\ c.to = {r.to}

\* The answer to r sets out, unless its caller has given up.
SetsOut(r, found) ==
  rpcs' = (rpcs \ {r}) \cup
          (IF Awaited(r) THEN {[r EXCEPT !.answered = TRUE, !.found = found]} ELSE {})

\* The loop of the node asked answers, and spawns the task that takes the data.
TakeForwarded(r) ==
  /\ r \in rpcs /\ r.op = "shard" /\ ~r.answered
  /\ SetsOut(r, TRUE)
  /\ taken' = [taken EXCEPT ![r.d] = @ \cup {r.to}]
  /\ accepted' = accepted \cup {<<r.to, r.d>>}
  /\ UNCHANGED <<vars, ask, lost, result, replication, application>>

\* fetch_data() of the local storage: an empty answer if there is no such file.
ServeFetch(r) ==
  /\ r \in rpcs /\ r.op = "fetch" /\ ~r.answered
  /\ SetsOut(r, storage[r.to][r.d] > 0)
  /\ UNCHANGED <<vars, ask, lost, result, placing, replication, application>>

\* A mutant of AnswerEndsCall: the nodes that are left are asked as well.
AnswerEndsNothing(c) == {[c EXCEPT !.to = {}]}

\* The first answer ends the call.
AnswerEndsCall(c) == {}

\* An answer in time is the result, be it empty.
AnswerArrives(n, c, r) ==
  /\ c \in ask[n] /\ r \in rpcs
  /\ r.from = n /\ r.op = c.op /\ r.d = c.d /\ {r.to} = c.to
  /\ r.answered
  /\ rpcs' = rpcs \ {r}
  /\ ask' = [ask EXCEPT ![n] = AnswerEndsCall(c)]
  /\ Returns(c.op, c.d, IF r.found THEN "done" ELSE "empty")
  /\ UNCHANGED <<vars, lost, placing, replication, application>>

\* The caller gives an RPC up: its request is lost, its answer is, or either is
\* late, in which case the request may still be served.
RpcFails(n, c, r) ==
  /\ c \in ask[n] /\ r \in rpcs
  /\ r.from = n /\ r.op = c.op /\ r.d = c.d /\ {r.to} = c.to
  /\ lost < MaxLost
  /\ lost' = lost + 1
  /\ ask' = [ask EXCEPT ![n] = {[c EXCEPT !.to = {}]}]
  /\ \/ rpcs' = rpcs \ {r}
     \/ ~r.answered /\ rpcs' = rpcs
  /\ UNCHANGED <<vars, result, placing, replication, application>>

\* All have failed: the call returns an error.
AllFailed(n, c) ==
  /\ c \in ask[n] /\ c.to = {} /\ c.left = {}
  /\ ask' = [ask EXCEPT ![n] = {}]
  /\ Returns(c.op, c.d, "failed")
  /\ UNCHANGED <<vars, rpcs, lost, placing, replication, application>>

-----------------------------------------------------------------------------
(* At the nodes of the shard *)

\* handle_incoming_shard_data(): an event, and the replication of the data.
HandleIncomingShardData(p, d) ==
  /\ <<p, d>> \in accepted
  /\ accepted' = accepted \ {<<p, d>>}
  /\ events' = [events EXCEPT ![p] = Append(@, [forwarded |-> TRUE, d |-> d])]
  /\ \E s \in LocateShard(d) : news' = Gossiped(p, s, d)
  /\ UNCHANGED <<vars, calling, taken, replicas, pushing, repl, storage>>

\* handle_incoming_repl_data(): the event comes first,
AnnounceReplica(p, x) ==
  /\ x \in news[p]
  /\ news' = [news EXCEPT ![p] = @ \ {x}]
  /\ events' = [events EXCEPT ![p] = Append(@, [forwarded |-> FALSE, d |-> x[2]])]
  /\ pushing' = [pushing EXCEPT ![p] = @ \cup {x}]
  /\ UNCHANGED <<vars, calling, placing, replicas, repl, storage>>

\* then, when the locks are had, the insertion into the buffer.
PushReplica(p, x) ==
  /\ x \in pushing[p]
  /\ pushing' = [pushing EXCEPT ![p] = @ \ {x}]
  /\ repl' = [repl EXCEPT ![p] = @ \cup {x}]
  /\ UNCHANGED <<vars, calling, placing, replicas, news, application>>

\* The file d names gets the data, if it splits into two words.
Stored(p, d) ==
  IF d \in OneWord THEN [storage EXCEPT ![p][d] = @ + 1] ELSE storage

\* The application's task takes an event of forwarded data and stores it.
StoreForwarded(p) ==
  /\ events[p] # <<>> /\ Head(events[p]).forwarded
  /\ events' = [events EXCEPT ![p] = Tail(@)]
  /\ storage' = Stored(p, Head(events[p]).d)
  /\ UNCHANGED <<vars, calling, placing, replication>>

\* A mutant of ReplicaToStore: the data of the event itself is stored.
DataOfEvent(p) == {<<p, Head(events[p]).d>>}

\* consume_repl_data(): an entry of the buffer, if there is one.
ReplicaToStore(p) == repl[p]

\* It takes an event of a replica, which only makes it consume an entry; with
\* the buffer still empty the event is for nothing.
StoreReplica(p) ==
  /\ events[p] # <<>> /\ ~Head(events[p]).forwarded
  /\ events' = [events EXCEPT ![p] = Tail(@)]
  /\ IF StoresReplicas /\ ReplicaToStore(p) # {}
     THEN \E x \in ReplicaToStore(p) :
            /\ repl' = [repl EXCEPT ![p] = @ \ {x}]
            /\ storage' = Stored(p, x[2])
     ELSE UNCHANGED <<repl, storage>>
  /\ UNCHANGED <<vars, calling, placing, replicas, news, pushing>>

-----------------------------------------------------------------------------
(* The whole network *)

NoDataYet == DataApart => \A op \in Ops : \A d \in Data : result[op][d] = "none"

\* join_network() joins the replica network of the shard as well.
JoinShard(n, s) ==
  /\ NoDataYet
  /\ JoinNetwork(n, s)
  /\ replicas' = [replicas EXCEPT ![s] = @ \cup {n}]
  /\ UNCHANGED <<calling, placing, news, pushing, repl, application>>

\* exit_network() leaves the replica network of no shard.
ExitShard(n, s) == NoDataYet /\ ExitNetwork(n, s) /\ UNCHANGED dataVars

StartNode(n) == NoDataYet /\ InitSharding(n) /\ UNCHANGED dataVars

MembershipStep ==
  /\ \/ \E n \in Nodes : \/ Broadcast(n)
                         \/ \E a \in gossip[n] : HandleJoin(n, a) \/ HandleExit(n, a)
                         \/ \E a \in handling[n] : FinishJoin(n, a)
     \/ \E t \in publishing : PublishShardState(t[1], t[2], t[3])
     \/ \E i \in images : SyncImage(i)
  /\ UNCHANGED dataVars

CallStep ==
  \E n \in Nodes :
    \/ \E d \in Data : UserShards(n, d) \/ UserFetches(n, d)
    \/ \E c \in ask[n] : \/ \E p \in c.left : SendRpc(n, c, p)
                         \/ \E r \in rpcs : AnswerArrives(n, c, r) \/ RpcFails(n, c, r)
                         \/ AllFailed(n, c)

MemberStep ==
  \/ \E r \in rpcs : TakeForwarded(r) \/ ServeFetch(r)
  \/ \E x \in accepted : HandleIncomingShardData(x[1], x[2])
  \/ \E p \in Nodes :
       \/ \E x \in news[p] : AnnounceReplica(p, x)
       \/ \E x \in pushing[p] : PushReplica(p, x)
       \/ StoreForwarded(p) \/ StoreReplica(p)

NetworkNext ==
  \/ \E n \in Nodes : StartNode(n) \/ \E s \in Shards : JoinShard(n, s) \/ ExitShard(n, s)
  \/ MembershipStep \/ CallStep \/ MemberStep

NetworkInit == Init /\ DataInit

NetworkSpec == NetworkInit /\ [][NetworkNext]_networkVars

-----------------------------------------------------------------------------
(* Properties *)

\* The nodes of the shard of d.
Keepers(d) == UNION {member[s] : s \in LocateShard(d) \cap Shards}

(***************************************************************************)
(* When nothing is under way, each node of the shard has as many copies of *)
(* d as nodes took it: in its storage, or left in its buffer by an event   *)
(* that was handled before the insertion.  Nothing is lost, and nothing is *)
(* stored again by the event, the buffer and the forwarding together       *)
(* (shard, handle_incoming_shard_data, handle_incoming_repl_data and the   *)
(* task of the hash example).  Data of several words is the exception: the *)
(* task drops it.                                                          *)
(***************************************************************************)
EveryCopyKept ==
  DataAtRest /\ StoresReplicas =>
    \A d \in OneWord : \A p \in Keepers(d) :
      storage[p][d] + Cardinality({x \in repl[p] : x[2] = d}) = Cardinality(taken[d])

(***************************************************************************)
(* Data is taken by more than one node only for RPCs whose answer failed   *)
(* or was late, one more for each (shard() tries the next node then).      *)
(***************************************************************************)
RetriesExplainCopies == \A d \in Data : Cardinality(taken[d]) <= 1 + lost

(***************************************************************************)
(* Data is taken only by nodes that are in its shard, whoever forwards it, *)
(* while membership is at rest: the views shard() goes by hold no node     *)
(* that has left, nor itself if it has.                                    *)
(***************************************************************************)
TakenByMembers == DataApart => \A d \in Data : taken[d] \subseteq Keepers(d)

(***************************************************************************)
(* Every node that fetch() asks for data that shard() has placed has a     *)
(* copy, in its storage or unread in its buffer: an answer that there is   *)
(* none means only that the application has yet to consume it.             *)
(***************************************************************************)
FetchAsksHolders ==
  DataApart /\ StoresReplicas =>
    \A r \in rpcs :
      r.op = "fetch" /\ r.d \in OneWord /\ ~r.answered /\ result["shard"][r.d] \in {"local", "done"}
        => storage[r.to][r.d] > 0 \/ \E x \in repl[r.to] : x[2] = r.d

=============================================================================
