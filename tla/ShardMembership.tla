-------------------------- MODULE ShardMembership --------------------------
(***************************************************************************)
(* How the nodes of a sharded network learn which node is in which shard   *)
(* (src/swarm-nl/src/core/sharding.rs, the SHARD_* handlers of core/mod.rs *)
(* and merge_shard_states of util.rs).                                     *)
(*                                                                         *)
(* Joins and exits are gossiped to all nodes of the network; a node that   *)
(* hears of a join sends the joining node an image of its own view, which  *)
(* the joining node merges into its own.  The network loop of a node       *)
(* handles one message at a time; the tasks that send images and the       *)
(* application's calls run beside it.                                      *)
(***************************************************************************)
EXTENDS Integers, FiniteSets, Functions

CONSTANTS
  Nodes,       \* nodes configured with the same sharding network id
  Shards,      \* shard ids
  MaxCalls,    \* bound of the model on the calls of join and exit
  ExitsApart   \* TRUE: an exit starts, and ends, with nothing else under way

ASSUME NodesAssumption == IsFiniteSet(Nodes) /\ IsFiniteSet(Shards)
ASSUME BoundsAssumption == MaxCalls \in Nat /\ ExitsApart \in BOOLEAN

VARIABLES
  online,      \* nodes subscribed to the gossip of the sharding network
  view,        \* view[n][s]: ShardingInfo.state of n, {} for a missing shard
  member,      \* member[s]: nodes whose last call for s was join_network
  call,        \* call[n]: what the call under way at n has to broadcast, {} if none
  calls,       \* calls[n]: calls of join and exit of n so far
  gossip,      \* gossip[n]: announcements on their way to n
  handling,    \* handling[n]: the join the loop of n is in the middle of, {} if none
  publishing,  \* tasks of publish_shard_state, <<node, peer, join>>
  images       \* shard images sent by RPC and not yet merged

vars == <<online, view, member, call, calls, gossip, handling, publishing, images>>

Views == [Shards -> SUBSET Nodes]
Announcement == [join : BOOLEAN, peer : Nodes, shard : Shards, no : Nat]
Image == [from : Nodes, to : Nodes, no : Nat, state : Views]

TypeOK ==
  /\ online \subseteq Nodes
  /\ view \in [Nodes -> Views]
  /\ member \in Views
  /\ call \in [Nodes -> SUBSET Announcement]
  /\ calls \in [Nodes -> Nat]
  /\ gossip \in [Nodes -> SUBSET Announcement]
  /\ handling \in [Nodes -> SUBSET Announcement]
  /\ publishing \subseteq Nodes \X Nodes \X Nat
  /\ images \subseteq Image

Init ==
  /\ online = {}
  /\ view = [n \in Nodes |-> [s \in Shards |-> {}]]
  /\ member = [s \in Shards |-> {}]
  /\ call = [n \in Nodes |-> {}]
  /\ calls = [n \in Nodes |-> 0]
  /\ gossip = [n \in Nodes |-> {}]
  /\ handling = [n \in Nodes |-> {}]
  /\ publishing = {}
  /\ images = {}

-----------------------------------------------------------------------------
(* The application's calls *)

\* No call is under way, and no message or image.
Quiet ==
  /\ publishing = {} /\ images = {}
  /\ \A n \in Nodes : call[n] = {} /\ gossip[n] = {} /\ handling[n] = {}

\* What calls have yet to broadcast, and what has yet to reach n.
Ahead(n) == gossip[n] \cup UNION {call[p] : p \in Nodes}

\* The exits that some node has yet to hear of.
Exits == {a \in UNION {Ahead(n) : n \in Nodes} : ~a.join}

\* init_sharding(): the node subscribes when it starts.
InitSharding(n) ==
  /\ n \notin online
  /\ online' = online \cup {n}
  /\ UNCHANGED <<view, member, call, calls, gossip, handling, publishing, images>>

\* The bound of the model on the calls of all nodes.
CallsLeft == FoldFunction(+, 0, calls) < MaxCalls

\* The call to come of n for s, with the announcement it will make.
Begins(n, s, join) ==
  /\ call[n] = {}
  /\ CallsLeft
  /\ calls' = [calls EXCEPT ![n] = @ + 1]
  /\ call' = [call EXCEPT ![n] =
                {[join |-> join, peer |-> n, shard |-> s, no |-> calls[n] + 1]}]

\* join_network() up to the broadcast: the node subscribes, if it has not yet,
\* and enters itself into its own view.
JoinNetwork(n, s) ==
  /\ ExitsApart => Exits = {}
  /\ Begins(n, s, TRUE)
  /\ online' = online \cup {n}
  /\ view' = [view EXCEPT ![n][s] = @ \cup {n}]
  /\ member' = [member EXCEPT ![s] = @ \cup {n}]
  /\ UNCHANGED <<gossip, handling, publishing, images>>

\* exit_network() up to the broadcast.
ExitNetwork(n, s) ==
  /\ n \in member[s]
  /\ ExitsApart => Quiet
  /\ Begins(n, s, FALSE)
  /\ view' = [view EXCEPT ![n][s] = @ \ {n}]
  /\ member' = [member EXCEPT ![s] = @ \ {n}]
  /\ UNCHANGED <<online, gossip, handling, publishing, images>>

\* The broadcast, which reaches the nodes online; with no peer it fails, and
\* the call returns the error and undoes nothing. After an exit the node stays
\* subscribed: what exit_network asks for then is to join the gossip.
Broadcast(n) ==
  /\ call[n] # {}
  /\ gossip' = [p \in Nodes |-> IF p \in online \ {n} THEN gossip[p] \cup call[n]
                                ELSE gossip[p]]
  /\ call' = [call EXCEPT ![n] = {}]
  /\ UNCHANGED <<online, view, member, calls, handling, publishing, images>>

-----------------------------------------------------------------------------
(* The network loop and its tasks *)

\* A mutant of UpdateShardState: an exit is taken for a join.
JoinOnExit(v, a) == [v EXCEPT ![a.shard] = @ \cup {a.peer}]

\* update_shard_state(): the view v after the announcement a.
UpdateShardState(v, a) ==
  [v EXCEPT ![a.shard] = IF a.join THEN @ \cup {a.peer} ELSE @ \ {a.peer}]

\* The loop takes a join and spawns the task that sends the joining node the
\* view, which may run before or after the loop updates it.
HandleJoin(n, a) ==
  /\ handling[n] = {}
  /\ a \in gossip[n]
  /\ a.join
  /\ gossip' = [gossip EXCEPT ![n] = @ \ {a}]
  /\ handling' = [handling EXCEPT ![n] = {a}]
  /\ publishing' = publishing \cup {<<n, a.peer, a.no>>}
  /\ UNCHANGED <<online, view, member, call, calls, images>>

FinishJoin(n, a) ==
  /\ a \in handling[n]
  /\ view' = [view EXCEPT ![n] = UpdateShardState(@, a)]
  /\ handling' = [handling EXCEPT ![n] = {}]
  /\ UNCHANGED <<online, member, call, calls, gossip, publishing, images>>

HandleExit(n, a) ==
  /\ handling[n] = {}
  /\ a \in gossip[n]
  /\ ~a.join
  /\ gossip' = [gossip EXCEPT ![n] = @ \ {a}]
  /\ view' = [view EXCEPT ![n] = UpdateShardState(@, a)]
  /\ UNCHANGED <<online, member, call, calls, handling, publishing, images>>

\* publish_shard_state(): the RPC carries the view as it is when the task runs.
PublishShardState(n, p, no) ==
  /\ <<n, p, no>> \in publishing
  /\ publishing' = publishing \ {<<n, p, no>>}
  /\ images' = images \cup {[from |-> n, to |-> p, no |-> no, state |-> view[n]]}
  /\ UNCHANGED <<online, view, member, call, calls, gossip, handling>>

\* A mutant of MergeShardStates: the image replaces the view.
ImageReplaces(local, incoming) == incoming

\* merge_shard_states()
MergeShardStates(local, incoming) == [s \in Shards |-> local[s] \cup incoming[s]]

\* The loop of the joining node serves the RPC.
SyncImage(i) ==
  /\ i \in images
  /\ handling[i.to] = {}
  /\ view' = [view EXCEPT ![i.to] = MergeShardStates(@, i.state)]
  /\ images' = images \ {i}
  /\ UNCHANGED <<online, member, call, calls, gossip, handling, publishing>>

-----------------------------------------------------------------------------
Next ==
  \/ \E n \in Nodes :
       \/ InitSharding(n)
       \/ \E s \in Shards : JoinNetwork(n, s) \/ ExitNetwork(n, s)
       \/ Broadcast(n)
       \/ \E a \in gossip[n] : HandleJoin(n, a) \/ HandleExit(n, a)
       \/ \E a \in handling[n] : FinishJoin(n, a)
  \/ \E t \in publishing : PublishShardState(t[1], t[2], t[3])
  \/ \E i \in images : SyncImage(i)

Spec == Init /\ [][Next]_vars

-----------------------------------------------------------------------------
(* Properties *)

\* The nodes whose exit from s node n has yet to hear of.
Leaving(n, s) ==
  {a.peer : a \in {b \in Ahead(n) : ~b.join /\ b.shard = s}}

(***************************************************************************)
(* While exits are apart from other calls, a view never holds a node that  *)
(* is not in the shard, unless the news of its exit is still on its way:   *)
(* neither a join heard late nor an image taken earlier brings back a node *)
(* that has left (update_shard_state, merge_shard_states), so shard() and  *)
(* fetch() do not ask it.                                                  *)
(***************************************************************************)
ViewsSound ==
  \A n \in Nodes : \A s \in Shards : view[n][s] \subseteq member[s] \cup Leaving(n, s)

(***************************************************************************)
(* Once all messages have been handled, every node that is in some shard   *)
(* knows all the shards as they are (research.md: a joining node adjusts   *)
(* "to the current state of the network", and "when nodes exit, the other  *)
(* existing nodes are informed and their view" updated).                   *)
(***************************************************************************)
QuietViewsAgree ==
  Quiet => \A n \in UNION {member[s] : s \in Shards} : view[n] = member

=============================================================================
