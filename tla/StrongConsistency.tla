------------------------- MODULE StrongConsistency -------------------------
(***************************************************************************)
(* One replica network under `ConsistencyModel::Strong`                    *)
(* (src/swarm-nl/src/core/replication.rs, and the gossip handlers of       *)
(* core/mod.rs that feed it).                                              *)
(*                                                                         *)
(* A node that replicates data gossips it.  A node that receives the data  *)
(* stamps it with one confirmation (its own), keeps it in a temporary      *)
(* buffer and gossips the message id; each peer's gossip of that id is one *)
(* more confirmation, and the data that has enough of them moves to the    *)
(* public buffer, where the application pops it.                           *)
(*                                                                         *)
(* Granularity: push runs under the replication-state lock and the         *)
(* temporary-buffer lock from its first to its last statement, hence one   *)
(* action.  handle_data_confirmation runs in a task of its own and takes   *)
(* its locks one after the other; it is three actions: it reads the number *)
(* of peers, counts the confirmation, moves the data.                      *)
(***************************************************************************)
EXTENDS Integers, FiniteSets

CONSTANTS
  Nodes,          \* the nodes configured for this replica network
  MsgIds,         \* gossip message ids, ordered as the temporary BTreeMap does
  Source,         \* Source[m]: the node whose replicate() publishes m
  ConsensusAll,   \* TRUE: ConsensusModel::All; FALSE: MinPeers(MinPeers)
  MinPeers,       \* the argument of ConsensusModel::MinPeers
  QueueLength,    \* ReplNetworkConfig::Custom.queue_length
  MaxCapacity,    \* ReplicaBufferQueue::MAX_CAPACITY, of the temporary buffer
  Expiry,         \* TRUE: expiry_time is Some(_)
  QueriesMayFail, \* TRUE: query_network may time out inside a handler
  Cloning,        \* TRUE: the application calls replicate_buffer
  MaxClock,       \* bound of the model on the Lamport clock of a publisher
  MaxChurn        \* bound of the model on the number of joins and leaves

ASSUME NodesAssumption == IsFiniteSet(Nodes) /\ Cardinality(Nodes) >= 2
ASSUME MsgIdsAssumption == IsFiniteSet(MsgIds) /\ MsgIds \subseteq Nat
ASSUME SourceAssumption == Source \in [MsgIds -> Nodes]
ASSUME ConsensusAssumption == ConsensusAll \in BOOLEAN /\ MinPeers \in Nat
ASSUME CapacityAssumption == QueueLength \in Nat \ {0} /\ MaxCapacity \in Nat \ {0}
ASSUME SwitchesAssumption ==
  Expiry \in BOOLEAN /\ QueriesMayFail \in BOOLEAN /\ Cloning \in BOOLEAN
ASSUME BoundsAssumption == MaxClock \in Nat /\ MaxChurn \in Nat

VARIABLES
  subscribed,  \* the nodes subscribed to the gossip topic of the network
  peers,       \* peers[n]: the peers gossipsub tells n are subscribed
  lamport,     \* lamport[n]: lamport_clock of n
  clock,       \* clock[m]: the clock m was published with, 0 before it is
  received,    \* received[n]: ids gossipsub has delivered to n
  confirmed,   \* confirmed[m]: nodes that have gossiped the id of m
  temp,        \* temp[n][m]: confirmations of m in the temporary buffer, 0 if absent
  queue,       \* queue[n]: the public buffer, a set of Entry
  task,        \* task[n][m][p]: where n's task for p's confirmation of m is
  required,    \* required[n][m][p]: the peers_count that task has read
  consumed,    \* consumed[n]: ids the application of n has popped
  expired,     \* ids whose expiry_time has elapsed
  churn        \* joins and leaves so far

buffers == <<temp, queue>>
tasks == <<task, required>>
network == <<subscribed, peers, churn>>
vars == <<subscribed, peers, lamport, clock, received, confirmed, temp, queue,
          task, required, consumed, expired, churn>>

\* ReplBufferData: confirmations 0 stands for None, which a cloned entry has.
Entry == [id : MsgIds, confirmations : Nat]
Phases == {"unseen", "apply", "move", "done"}

TypeOK ==
  /\ subscribed \subseteq Nodes
  /\ peers \in [Nodes -> SUBSET Nodes]
  /\ lamport \in [Nodes -> Nat]
  /\ clock \in [MsgIds -> Nat]
  /\ received \in [Nodes -> SUBSET MsgIds]
  /\ confirmed \in [MsgIds -> SUBSET Nodes]
  /\ temp \in [Nodes -> [MsgIds -> Nat]]
  /\ queue \in [Nodes -> SUBSET Entry]
  /\ task \in [Nodes -> [MsgIds -> [Nodes -> Phases]]]
  /\ required \in [Nodes -> [MsgIds -> [Nodes -> Nat]]]
  /\ consumed \in [Nodes -> SUBSET MsgIds]
  /\ expired \subseteq MsgIds
  /\ churn \in Nat

Init ==
  /\ subscribed = Nodes
  /\ peers = [n \in Nodes |-> Nodes \ {n}]
  /\ lamport = [n \in Nodes |-> 0]
  /\ clock = [m \in MsgIds |-> 0]
  /\ received = [n \in Nodes |-> {}]
  /\ confirmed = [m \in MsgIds |-> {}]
  /\ temp = [n \in Nodes |-> [m \in MsgIds |-> 0]]
  /\ queue = [n \in Nodes |-> {}]
  /\ task = [n \in Nodes |-> [m \in MsgIds |-> [p \in Nodes |-> "unseen"]]]
  /\ required = [n \in Nodes |-> [m \in MsgIds |-> [p \in Nodes |-> 0]]]
  /\ consumed = [n \in Nodes |-> {}]
  /\ expired = {}
  /\ churn = 0

-----------------------------------------------------------------------------
(* Helpers *)

Larger(a, b) == IF a >= b THEN a ELSE b

\* A mutant of ReplicaPeers: the node itself left out a second time.
ReplicaPeersButOne(n) == {Cardinality(peers[n]) - 1}

\* The results replica_peers() may return at n: a failed query gives none.
ReplicaPeers(n) ==
  {Cardinality(peers[n])} \cup (IF QueriesMayFail THEN {0} ELSE {})

\* The peers_count handle_data_confirmation() may compute at n.
PeersCount(n) == IF ConsensusAll THEN ReplicaPeers(n) ELSE {MinPeers}

\* Ord for ReplBufferData: by Lamport clock, then by message id.
Before(m, k) == clock[m] < clock[k] \/ (clock[m] = clock[k] /\ m < k)

\* A mutant of InitialConfirmations: the publisher's is counted too.
InitialConfirmationsOfTwo == 2

\* The confirmation a receiver puts on arriving data: its own.
InitialConfirmations == 1

TempIds(n) == {m \in MsgIds : temp[n][m] > 0}
QueueIds(n) == {e.id : e \in queue[n]}

\* Inserting into the BTreeSet keeps an entry that compares equal.
Insert(q, e) == IF \E x \in q : x.id = e.id THEN q ELSE q \cup {e}

\* The temporary buffer makes room by dropping its smallest message id.
KeptInTemp(n) ==
  IF Cardinality(TempIds(n)) >= MaxCapacity
  THEN {m \in TempIds(n) : \E k \in TempIds(n) : k < m}
  ELSE TempIds(n)

Unexpired(q) ==
  IF Expiry /\ Cardinality(q) >= QueueLength
  THEN {e \in q : e.id \notin expired}
  ELSE q

\* A mutant of Cleanup: it makes room for nothing.
CleanupToLength(q) ==
  {e \in Unexpired(q) :
     Cardinality({x \in Unexpired(q) : Before(e.id, x.id)}) < QueueLength}

\* What is left of a public buffer once the expired and then the oldest
\* entries have been removed until there is room for one more.
Cleanup(q) ==
  {e \in Unexpired(q) :
     Cardinality({x \in Unexpired(q) : Before(e.id, x.id)}) < QueueLength - 1}

-----------------------------------------------------------------------------
(* Publishing and receiving data *)

\* replicate(): the clock advances even when publishing fails, which it does
\* when gossipsub knows no subscribed peer.
Replicate(n, m) ==
  /\ Source[m] = n
  /\ clock[m] = 0
  /\ lamport[n] < MaxClock
  /\ lamport' = [lamport EXCEPT ![n] = @ + 1]
  /\ clock' = [clock EXCEPT ![m] = IF peers[n] # {} THEN lamport[n] + 1 ELSE 0]
  /\ UNCHANGED <<network, received, confirmed, buffers, tasks, consumed, expired>>

\* push() when the node takes itself for one of two members, or MinPeers(1).
\* The temporary buffer has made room all the same.
PushDirect(n, m, count) ==
  /\ count = 1 \/ (~ConsensusAll /\ MinPeers = 1)
  /\ temp' = [temp EXCEPT ![n] =
                [k \in MsgIds |-> IF k \in KeptInTemp(n) THEN @[k] ELSE 0]]
  /\ queue' = [queue EXCEPT ![n] =
                 Insert(@, [id |-> m, confirmations |-> InitialConfirmations])]
  /\ UNCHANGED confirmed

\* push() otherwise: the data waits in the temporary buffer with the node's
\* own confirmation, and its id is gossiped (an error is ignored).
PushTemporary(n, m, count) ==
  /\ count # 1
  /\ ConsensusAll \/ MinPeers # 1
  /\ temp' = [temp EXCEPT ![n] =
                [k \in MsgIds |-> IF k = m THEN InitialConfirmations
                                  ELSE IF k \in KeptInTemp(n) THEN @[k] ELSE 0]]
  /\ \/ peers[n] # {} /\ confirmed' = [confirmed EXCEPT ![m] = @ \cup {n}]
     \/ (peers[n] = {} \/ QueriesMayFail) /\ UNCHANGED confirmed
  /\ UNCHANGED queue

\* Gossipsub hands m to n, once: handle_incoming_repl_data().
HandleIncomingReplData(n, m) ==
  /\ n \in subscribed
  /\ clock[m] # 0
  /\ n # Source[m]
  /\ m \notin received[n]
  /\ received' = [received EXCEPT ![n] = @ \cup {m}]
  /\ lamport' = [lamport EXCEPT ![n] = Larger(@, clock[m]) + 1]
  /\ \E count \in ReplicaPeers(n) :
        PushDirect(n, m, count) \/ PushTemporary(n, m, count)
  /\ UNCHANGED <<network, clock, tasks, consumed, expired>>

-----------------------------------------------------------------------------
(* handle_data_confirmation(): one task per confirmation delivered to n *)

\* The task starts by reading the number of confirmations to reach.
HandleDataConfirmation(n, m, p) ==
  /\ n \in subscribed
  /\ n # p
  /\ p \in confirmed[m]
  /\ task[n][m][p] = "unseen"
  /\ \E count \in PeersCount(n) :
        required' = [required EXCEPT ![n][m][p] = count]
  /\ task' = [task EXCEPT ![n][m][p] = "apply"]
  /\ UNCHANGED <<network, lamport, clock, received, confirmed, buffers, consumed, expired>>

\* The confirmations of an entry after one more of them.
Counted(count, goal) == IF 0 < count /\ count < goal THEN count + 1 ELSE count

\* Mutants of FullyConfirmed: an entry that is not there taken for a confirmed
\* one, one peer too many.
ConfirmedIfAbsent(count, goal) == goal # 0 /\ count \in {0, goal}
ConfirmedBeyondGoal(count, goal) == count > 0 /\ goal # 0 /\ count > goal

\* is_fully_confirmed, for an entry that has `count` confirmations.
FullyConfirmed(count, goal) == count > 0 /\ goal # 0 /\ count = goal

\* The confirmation is counted under the lock of the temporary buffer.
UpdateConfirmation(n, m, p) ==
  /\ task[n][m][p] = "apply"
  /\ LET goal == required[n][m][p]
         count == Counted(temp[n][m], goal)
     IN /\ temp' = [temp EXCEPT ![n][m] = count]
        /\ task' = [task EXCEPT ![n][m][p] =
                      IF FullyConfirmed(count, goal) THEN "move" ELSE "done"]
  /\ UNCHANGED <<network, lamport, clock, received, confirmed, queue, required,
                 consumed, expired>>

\* The public buffer q makes room before the task looks whether the entry of m,
\* with its `count` confirmations, is still in the temporary one.
Moved(q, m, count) ==
  IF count > 0 THEN Insert(Cleanup(q), [id |-> m, confirmations |-> count]) ELSE Cleanup(q)

\* A mutant of MoveToPublicQueue: the entry stays in the temporary buffer.
CopyToPublicQueue(n, m, p) ==
  /\ task[n][m][p] = "move"
  /\ queue' = [queue EXCEPT ![n] = Moved(@, m, temp[n][m])]
  /\ task' = [task EXCEPT ![n][m][p] = "done"]
  /\ UNCHANGED <<network, lamport, clock, received, confirmed, temp, required, consumed, expired>>

\* A fully confirmed entry moves.
MoveToPublicQueue(n, m, p) ==
  /\ task[n][m][p] = "move"
  /\ queue' = [queue EXCEPT ![n] = Moved(@, m, temp[n][m])]
  /\ temp' = [temp EXCEPT ![n][m] = 0]
  /\ task' = [task EXCEPT ![n][m][p] = "done"]
  /\ UNCHANGED <<network, lamport, clock, received, confirmed, required, consumed, expired>>

-----------------------------------------------------------------------------
(* The application's calls *)

\* consume_repl_data(), i.e. pop_front(): the oldest entry leaves the buffer.
PopFront(n) ==
  /\ \E e \in queue[n] :
       /\ \A x \in queue[n] : ~Before(x.id, e.id)
       /\ queue' = [queue EXCEPT ![n] = @ \ {e}]
       /\ consumed' = [consumed EXCEPT ![n] = @ \cup {e.id}]
  /\ UNCHANGED <<network, lamport, clock, received, confirmed, temp, tasks, expired>>

\* replicate_buffer(): n copies the public buffer of p, confirmations aside.
ReplicateBuffer(n, p) ==
  /\ Cloning
  /\ n # p
  /\ queue' = [queue EXCEPT ![n] =
                 @ \cup {[id |-> i, confirmations |-> 0] : i \in QueueIds(p) \ QueueIds(n)}]
  /\ UNCHANGED <<network, lamport, clock, received, confirmed, temp, tasks, consumed, expired>>

\* join_repl_network(): both buffers start afresh, whatever they held, and
\* the node subscribes; its clock is kept.
JoinReplNetwork(n) ==
  /\ churn < MaxChurn
  /\ churn' = churn + 1
  /\ subscribed' = subscribed \cup {n}
  /\ queue' = [queue EXCEPT ![n] = {}]
  /\ temp' = [temp EXCEPT ![n] = [m \in MsgIds |-> 0]]
  /\ UNCHANGED <<peers, lamport, clock, received, confirmed, tasks, consumed, expired>>

\* leave_repl_network(): only the subscription ends.
LeaveReplNetwork(n) ==
  /\ n \in subscribed
  /\ churn < MaxChurn
  /\ churn' = churn + 1
  /\ subscribed' = subscribed \ {n}
  /\ UNCHANGED <<peers, lamport, clock, received, confirmed, buffers, tasks, consumed, expired>>

-----------------------------------------------------------------------------
(* The environment *)

\* Gossipsub learns that p has subscribed, or has unsubscribed.
PeerSubscribed(n, p) ==
  /\ n # p
  /\ p \in subscribed \ peers[n]
  /\ peers' = [peers EXCEPT ![n] = @ \cup {p}]
  /\ UNCHANGED <<subscribed, churn, lamport, clock, received, confirmed, buffers,
                 tasks, consumed, expired>>

PeerUnsubscribed(n, p) ==
  /\ p \in peers[n] \ subscribed
  /\ peers' = [peers EXCEPT ![n] = @ \ {p}]
  /\ UNCHANGED <<subscribed, churn, lamport, clock, received, confirmed, buffers,
                 tasks, consumed, expired>>

\* Time passes: m becomes older than expiry_time.
Expire(m) ==
  /\ Expiry
  /\ clock[m] # 0
  /\ m \notin expired
  /\ expired' = expired \cup {m}
  /\ UNCHANGED <<network, lamport, clock, received, confirmed, buffers, tasks, consumed>>

-----------------------------------------------------------------------------

Deliver(n, m) ==
  \/ HandleIncomingReplData(n, m)
  \/ \E p \in Nodes :
       \/ HandleDataConfirmation(n, m, p)
       \/ UpdateConfirmation(n, m, p)
       \/ MoveToPublicQueue(n, m, p)

Application(n) ==
  \/ \E m \in MsgIds : Replicate(n, m)
  \/ PopFront(n)
  \/ \E p \in Nodes : ReplicateBuffer(n, p)
  \/ JoinReplNetwork(n)
  \/ LeaveReplNetwork(n)

Gossip(n) == \E p \in Nodes : PeerSubscribed(n, p) \/ PeerUnsubscribed(n, p)

Next ==
  \/ \E n \in Nodes : \/ \E m \in MsgIds : Deliver(n, m)
                      \/ Application(n)
                      \/ Gossip(n)
  \/ \E m \in MsgIds : Expire(m)

Spec == Init /\ [][Next]_vars

\* Gossip between connected subscribers arrives, their view of each other
\* becomes right, and a spawned task is polled until it ends.  One condition is
\* enough for all of these: each happens a bounded number of times, so none can
\* be put off for ever by the others.  Nothing is assumed of the application,
\* nor that an expiry time ever elapses.
Fairness == WF_vars(\E n \in Nodes : Gossip(n) \/ \E m \in MsgIds : Deliver(n, m))

FairSpec == Spec /\ Fairness

-----------------------------------------------------------------------------
(* Properties *)

\* The nodes the data of m has reached.
Receivers(m) == {n \in Nodes : m \in received[n]}

\* The replicas that must hold data before an application may read it: all
\* but the publisher under ConsensusModel::All, at least k under MinPeers(k).
\* In a network of two the only receiver does not wait for anybody.
Quorum ==
  IF ConsensusAll \/ Cardinality(Nodes) = 2 THEN Cardinality(Nodes) - 1 ELSE MinPeers

Released(n) == QueueIds(n) \cup consumed[n]

(***************************************************************************)
(* A confirmation count never exceeds the number of replicas that have the *)
(* data (ReplBufferData.confirmations, "to help the nodes ... to come to   *)
(* an agreement"), whatever nodes join, leave, are cloned or lose entries  *)
(* in between: no confirmation is counted twice, or for a node without the *)
(* data.                                                                   *)
(***************************************************************************)
ConfirmationsAreReal ==
  \A n \in Nodes :
    /\ \A m \in MsgIds : temp[n][m] <= Cardinality(Receivers(m))
    /\ \A e \in queue[n] : e.confirmations <= Cardinality(Receivers(e.id))

(***************************************************************************)
(* Membership unchanged, data an application can read or has read is held  *)
(* by the number of replicas the consensus model promises                  *)
(* (handle_data_confirmation, push).                                       *)
(***************************************************************************)
QuorumHolds ==
  \A n \in Nodes : \A m \in Released(n) : Cardinality(Receivers(m)) >= Quorum

(***************************************************************************)
(* Tasks that find the same entry fully confirmed, an eviction and the     *)
(* application's pops never bring data back: what has been consumed is in  *)
(* neither buffer again (handle_data_confirmation, pop_front).             *)
(***************************************************************************)
DeliveredOnce ==
  \A n \in Nodes : \A m \in consumed[n] : m \notin QueueIds(n) /\ temp[n][m] = 0

(***************************************************************************)
(* The public buffer keeps to queue_length ("Max capacity for transient    *)
(* storage", ReplNetworkConfig::Custom).                                   *)
(***************************************************************************)
QueueBounded == \A n \in Nodes : Cardinality(queue[n]) <= QueueLength

(***************************************************************************)
(* Data the application has not read leaves the public buffer only as new  *)
(* data enters it (research.md: "new data may overwrite older entries"),   *)
(* never because of a task that moves nothing.                             *)
(***************************************************************************)
EvictionMakesRoom ==
  [][\A n \in Nodes :
       (QueueIds(n) \ (QueueIds(n)' \cup consumed'[n]) # {})
         => (QueueIds(n)' \ QueueIds(n) # {})]_vars

\* The entry of m at n waits, and n has counted no confirmation for m yet.
Uncounted(n, m) ==
  temp[n][m] > 0 /\ \A p \in Nodes : task[n][m][p] \in {"unseen", "apply"}

(***************************************************************************)
(* Data that no confirmation has outrun becomes readable: once an entry is *)
(* in the temporary buffer, the confirmations still to be counted suffice  *)
(* to move it (handle_data_confirmation), however they interleave.         *)
(***************************************************************************)
UncountedEventuallyReleased ==
  \A n \in Nodes : \A m \in MsgIds : Uncounted(n, m) ~> m \in Released(n)

(***************************************************************************)
(* research.md on Strong consistency: the peers that receive a broadcast   *)
(* id "increment the confirmation count for the corresponding data", which *)
(* moves to the public buffer when all have.  So data that a node has      *)
(* received becomes readable there.                                        *)
(***************************************************************************)
ReceivedEventuallyReleased ==
  \A n \in Nodes : \A m \in MsgIds : m \in received[n] ~> m \in Released(n)

-----------------------------------------------------------------------------
(* What the protocol promises while membership does not change *)

\* What has become of m at n.
Status(n, m) ==
  CASE m \in QueueIds(n) -> "released"
    [] m \notin QueueIds(n) /\ temp[n][m] > 0 -> "held"
    [] m \notin QueueIds(n) /\ temp[n][m] = 0 /\ m \in received[n] -> "gone"
    [] OTHER -> "absent"

Quorums == {S \in SUBSET Nodes : Cardinality(S) >= Quorum}

StatusMap == [n \in Nodes |-> [m \in MsgIds |-> Status(n, m)]]

Promise == INSTANCE StrongReplication WITH status <- StatusMap

(***************************************************************************)
(* The buffers and the confirmation tasks implement StrongReplication:     *)
(* at every node each message is received once, is released at most once,  *)
(* only while a quorum of replicas has received it, and once consumed or   *)
(* evicted never comes back.                                               *)
(***************************************************************************)
PromiseSpec == Promise!Spec

=============================================================================
