---------------------------- MODULE EventualSync ----------------------------
(***************************************************************************)
(* One replica network under `ConsistencyModel::Eventual`                  *)
(* (src/swarm-nl/src/core/replication.rs and its callers in core/mod.rs).  *)
(*                                                                         *)
(* Data that gossip delivers goes straight into the public buffer.  Each   *)
(* node broadcasts, again and again, an image of its buffer (the ids of    *)
(* the entries that have aged, with their least and greatest clock); a     *)
(* node that hears an image pulls by RPC what its own buffer lacks.        *)
(* Gossip and RPCs may be lost.  All nodes have joined and none leaves.    *)
(*                                                                         *)
(* Granularity: push runs under the lock of the replication state.  A task *)
(* of sync_buffer_image holds no lock across its RPC, so it is three steps *)
(* (the comparison, the service of the RPC at p, the insertion); the       *)
(* comparison takes the lock of the state and then that of the buffer, as  *)
(* pop_front does in the other order.  Only a pop could come in between,   *)
(* and the entry it takes is then pulled again; an image that holds a      *)
(* greater clock brings about the same, so both are taken as one step.     *)
(***************************************************************************)
EXTENDS Integers, FiniteSets

CONSTANTS
  Nodes,        \* the replicas
  MsgIds,       \* gossip message ids, ordered as the buffer orders them
  Source,       \* Source[m]: the node whose replicate() publishes m
  QueueLength,  \* queue_length
  Expiry,       \* TRUE: expiry_time is Some(_)
  MaxPops,      \* bound of the model on the entries consumed
  MaxFailures   \* bound of the model on the RPCs that fail

ASSUME NodesAssumption == IsFiniteSet(Nodes)
ASSUME MsgIdsAssumption == IsFiniteSet(MsgIds) /\ MsgIds \subseteq Nat
ASSUME SourceAssumption == Source \in [MsgIds -> Nodes]
ASSUME BoundsAssumption ==
  QueueLength \in Nat \ {0} /\ Expiry \in BOOLEAN /\ MaxPops \in Nat /\ MaxFailures \in Nat

VARIABLES
  lamport,    \* lamport[n]: lamport_clock of n
  lastClock,  \* lastClock[n]: last_clock, of the entry n consumed last
  clock,      \* clock[m]: the clock m was published with, 0 before it is
  before,     \* before[m]: what gossip had delivered to the publisher by then
  received,   \* received[n]: ids gossip has delivered to n
  queue,      \* queue[n]: ids in the public buffer
  aged,       \* aged[n]: those past data_aging_period
  consumed,   \* consumed[n]: ids the application of n has popped
  sync,       \* sync[n][p]: the task at n for an image of p
  pops,       \* number of pops so far
  failures    \* number of RPCs that have failed

clocks == <<lamport, lastClock, clock, before>>
buffer == <<queue, aged>>
vars == <<clocks, received, buffer, consumed, sync, pops, failures>>

\* ids: what the image has and n lacks, then what p has sent of it.
Task == [phase : {"idle", "pulling", "pulled"}, ids : SUBSET MsgIds]
Idle == [phase |-> "idle", ids |-> {}]

TypeOK ==
  /\ lamport \in [Nodes -> Nat] /\ lastClock \in [Nodes -> Nat]
  /\ clock \in [MsgIds -> Nat]
  /\ before \in [MsgIds -> SUBSET MsgIds]
  /\ received \in [Nodes -> SUBSET MsgIds]
  /\ queue \in [Nodes -> SUBSET MsgIds]
  /\ aged \in [Nodes -> SUBSET MsgIds]
  /\ consumed \in [Nodes -> SUBSET MsgIds]
  /\ pops \in 0 .. MaxPops
  /\ sync \in [Nodes -> [Nodes -> Task]]
  /\ failures \in 0 .. MaxFailures

Init ==
  /\ lamport = [n \in Nodes |-> 0] /\ lastClock = [n \in Nodes |-> 0]
  /\ clock = [m \in MsgIds |-> 0]
  /\ before = [m \in MsgIds |-> {}]
  /\ received = [n \in Nodes |-> {}]
  /\ queue = [n \in Nodes |-> {}]
  /\ aged = [n \in Nodes |-> {}]
  /\ consumed = [n \in Nodes |-> {}]
  /\ pops = 0
  /\ sync = [n \in Nodes |-> [p \in Nodes |-> Idle]]
  /\ failures = 0

-----------------------------------------------------------------------------
(* The buffer *)

\* Ord for ReplBufferData: by Lamport clock, then by message id.
Before(m, k) == clock[m] < clock[k] \/ (clock[m] = clock[k] /\ m < k)

\* The sets of entries a push may find expired: none if there is room.
Expirable(q) == IF Expiry /\ Cardinality(q) >= QueueLength THEN SUBSET q ELSE {{}}

\* What a push leaves of q when `old` have expired: it removes the oldest
\* entries until there is room for one.
Room(q, old) ==
  {m \in q \ old : Cardinality({k \in q \ old : Before(m, k)}) < QueueLength - 1}

-----------------------------------------------------------------------------
(* Data *)

\* replicate(): the clock advances, and the data is gossiped with it.
Replicate(m) ==
  LET n == Source[m]
  IN /\ clock[m] = 0
     /\ lamport' = [lamport EXCEPT ![n] = @ + 1]
     /\ clock' = [clock EXCEPT ![m] = lamport[n] + 1]
     /\ before' = [before EXCEPT ![m] = received[n]]
     /\ UNCHANGED <<lastClock, received, buffer, consumed, sync, pops, failures>>

\* A mutant of ClockOnReceipt: the clock stays as it is.
ClockStays(mine, theirs) == mine

ClockOnReceipt(mine, theirs) == (IF mine >= theirs THEN mine ELSE theirs) + 1

\* handle_incoming_repl_data() and push(): gossip delivers m, at most once.
HandleIncomingReplData(n, m) ==
  /\ clock[m] # 0
  /\ n # Source[m]
  /\ m \notin received[n]
  /\ received' = [received EXCEPT ![n] = @ \cup {m}]
  /\ lamport' = [lamport EXCEPT ![n] = ClockOnReceipt(@, clock[m])]
  /\ \E old \in Expirable(queue[n]) :
        /\ queue' = [queue EXCEPT ![n] = Room(@, old) \cup {m}]
        /\ aged' = [aged EXCEPT ![n] = @ \cap Room(queue[n], old)]
  /\ UNCHANGED <<lastClock, clock, before, consumed, sync, pops, failures>>

\* Time passes: m has been in the buffer of n for data_aging_period.
Age(n, m) ==
  /\ m \in queue[n] \ aged[n]
  /\ aged' = [aged EXCEPT ![n] = @ \cup {m}]
  /\ UNCHANGED <<clocks, received, queue, consumed, sync, pops, failures>>

\* consume_repl_data(), i.e. pop_front(): the oldest entry.
PopFront(n) ==
  /\ pops < MaxPops
  /\ \E m \in queue[n] :
       /\ \A k \in queue[n] : ~Before(k, m)
       /\ queue' = [queue EXCEPT ![n] = @ \ {m}]
       /\ aged' = [aged EXCEPT ![n] = @ \ {m}]
       /\ consumed' = [consumed EXCEPT ![n] = @ \cup {m}]
       /\ lastClock' = [lastClock EXCEPT ![n] = clock[m]]
  /\ pops' = pops + 1
  /\ UNCHANGED <<lamport, clock, before, received, sync, failures>>

-----------------------------------------------------------------------------
(* Synchronization *)

\* A mutant of UpToDate: off by one.
UpToDateOffByOne(last, ids) == \A m \in ids : last + 1 >= clock[m]

\* The clock of the last entry consumed covers the image.
UpToDate(last, ids) == \A m \in ids : last >= clock[m]

\* A mutant of Missing: the node's own data is not filtered out.
MissingOfAll(n, ids) == ids \ queue[n]

\* What n lacks of an image, its own data aside. The bounds on the clock of
\* local entries leave out none that is in the image.
Missing(n, ids) == {m \in ids : Source[m] # n} \ queue[n]

\* sync_with_eventual_consistency() at p broadcasts the image of what has aged,
\* and sync_buffer_image() at n compares it. An image that tells n nothing,
\* the empty one with clocks (0, 0) among them, changes nothing. Bound of the
\* model: n handles one image of p at a time and misses those meanwhile.
SyncBufferImage(n, p) ==
  /\ n # p
  /\ sync[n][p].phase = "idle"
  /\ ~UpToDate(lastClock[n], aged[p])
  /\ Missing(n, aged[p]) # {}
  /\ sync' = [sync EXCEPT ![n][p] = [phase |-> "pulling", ids |-> Missing(n, aged[p])]]
  /\ UNCHANGED <<clocks, received, buffer, consumed, pops, failures>>

\* The loop of p serves the RPC: pull_missing_data().
PullMissingData(n, p) ==
  /\ sync[n][p].phase = "pulling"
  /\ sync' = [sync EXCEPT ![n][p] = [phase |-> "pulled", ids |-> @.ids \cap queue[p]]]
  /\ UNCHANGED <<clocks, received, buffer, consumed, pops, failures>>

\* The request or its answer is lost, or late.
PullFails(n, p) ==
  /\ sync[n][p].phase \in {"pulling", "pulled"}
  /\ failures < MaxFailures
  /\ failures' = failures + 1
  /\ sync' = [sync EXCEPT ![n][p] = Idle]
  /\ UNCHANGED <<clocks, received, buffer, consumed, pops>>

\* What was pulled is inserted, without regard to queue_length and to the
\* clock. It keeps the incoming_timestamp of p, where it had aged.
InsertPulled(n, p) ==
  /\ sync[n][p].phase = "pulled"
  /\ queue' = [queue EXCEPT ![n] = @ \cup sync[n][p].ids]
  /\ aged' = [aged EXCEPT ![n] = @ \cup sync[n][p].ids]
  /\ sync' = [sync EXCEPT ![n][p] = Idle]
  /\ UNCHANGED <<clocks, received, consumed, pops, failures>>

-----------------------------------------------------------------------------
Next ==
  \/ \E m \in MsgIds : Replicate(m)
  \/ \E n \in Nodes :
       \/ PopFront(n)
       \/ \E m \in MsgIds : HandleIncomingReplData(n, m) \/ Age(n, m)
  \/ \E n, p \in Nodes :
       \/ SyncBufferImage(n, p)
       \/ PullMissingData(n, p) \/ PullFails(n, p) \/ InsertPulled(n, p)

Spec == Init /\ [][Next]_vars

\* Time passes, the loop that broadcasts images never ends and each node hears
\* of each other one again and again, tasks are scheduled, and of the RPCs
\* between two nodes only finitely many fail. Nothing is assumed of the gossip
\* of the data itself, nor of the application.
Fairness ==
  /\ \A n \in Nodes : \A m \in MsgIds : WF_vars(Age(n, m))
  /\ \A n \in Nodes : \A p \in Nodes \ {n} :
       WF_vars(SyncBufferImage(n, p) \/ PullMissingData(n, p) \/ InsertPulled(n, p))

FairSpec == Spec /\ Fairness

-----------------------------------------------------------------------------
(* Properties *)

(***************************************************************************)
(* A node never gets back the data it published itself, whichever replica  *)
(* offers it (sync_buffer_image: the image is filtered "so it doesn't      *)
(* contain the data that we published").                                   *)
(***************************************************************************)
OwnDataStaysOut == \A n \in Nodes : \A m \in queue[n] : Source[m] # n

(***************************************************************************)
(* Clocks respect causality: what gossip had delivered to a node before it *)
(* published has a smaller clock than what it published, so that buffers   *)
(* order an answer after what it answers (handle_incoming_repl_data,       *)
(* replicate). Data that came by synchronization is not covered: its clock *)
(* is not looked at.                                                       *)
(***************************************************************************)
CausalClocks ==
  \A m \in MsgIds : clock[m] # 0 => \A k \in before[m] : clock[k] < clock[m]

\* n has been given m.
Has(n, m) == m \in queue[n] \cup consumed[n]

(***************************************************************************)
(* Even if gossip never brings m to n, what stays in the buffer of some    *)
(* replica reaches every other one, unless n has consumed an entry with a  *)
(* clock that is no smaller (sync_buffer_image).                           *)
(***************************************************************************)
EventuallyReplicated ==
  \A n, p \in Nodes : \A m \in MsgIds :
    m \in queue[p] /\ n # Source[m]
      ~> Has(n, m) \/ m \notin queue[p] \/ lastClock[n] >= clock[m]

(***************************************************************************)
(* research.md: under eventual consistency "data becomes consistent over   *)
(* time, even if it has been consumed from the buffer": what stays in the  *)
(* buffer of some replica reaches every other one.                         *)
(***************************************************************************)
BecomesConsistent ==
  \A n, p \in Nodes : \A m \in MsgIds :
    m \in queue[p] /\ n # Source[m] ~> Has(n, m) \/ m \notin queue[p]

=============================================================================
