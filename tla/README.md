# A TLA+ verification of SwarmNL

SwarmNL (`src/swarm-nl`) is a Rust library that wraps libp2p: an application
builds a `Core`, which owns a network task and gives the application requests
with tracked responses, an event queue, *replica networks* (data gossiped to
every member, ordered by Lamport clocks) and *shard networks* (nodes hash keys
to shards, each shard is a replica network). This directory models the parts of
it that are concurrent or distributed, the way a node is configured, restarted
and identified, and two of the example applications; checks them with TLC on
small instances; and proves the main results for every value of the constants
with TLAPS. Line numbers are those of `src/swarm-nl/src`.

## Inventory of the system

| Part | State | Operations | Interacts with | What is hard |
|---|---|---|---|---|
| Strong replication (`core/replication.rs`, `core/mod.rs` 1071–1249) | `temporary_queue`, `queue`, `lamport_clock`, confirmations of an entry | `replicate`, `push`, `handle_data_confirmation`, `pop_front`, `replicate_buffer`, `init`, join, leave | gossip handlers spawn one task per message; `replica_peers` asks the network task | tasks interleave; confirmations overtake data; members leave; full buffers |
| Eventual replication (`core/replication.rs` 183–285, 477–717) | `queue`, `last_clock`, `lamport_clock` | `push`, periodic image gossip, `sync_buffer_image`, `pull_missing_data`, `pop_front` | gossip, RPC to the peer that announced an image | images are stale when they arrive; consumed data; eviction; clocks |
| Request tracking (`core/mod.rs` 888–1015, 1253–1285, 1312–1900; `core/prelude.rs` 200–290, 680–727) | `current_stream_id`, stream request and response buffers, four FIFO queues of ids | `send_to_network`, `recv_from_network`, `query_network`, the network loop's answers | application tasks, network task, response task, remote peers | concurrent callers, answers out of order, time-outs, full buffers |
| Shard membership (`core/sharding.rs` 63–155, `core/mod.rs` 1018–1067, 1970–1996) | shard map of every node | `join_network`, `exit_network`, state image RPC | gossip of joins and exits, RPC image to a newcomer | images race with exits |
| Shard data (`core/sharding.rs` 159–285, `core/mod.rs` 1109–1125, `examples/sharding`) | calls under way; storage and event queue of the application | `shard`, `fetch`, `locate_shard`, `handle_incoming_shard_data`, the application's task | RPC to the nodes of a shard, replication inside it, events to the application | retries after a time-out, stale maps, an event before its data |
| Events (`core/prelude.rs` 682–727, `core/mod.rs` 859–885, 1535–2140) | bounded event queue | `push`, `events`, `next_event`, the events of the swarm | network task pushes, application drains | copy and drain are two critical sections; the queue drops |
| Ping policy (`core/mod.rs` 1539–1653, `core/prelude.rs` 599–640) | time-outs and errors per peer | ping events | swarm disconnects | the test of the limit; counts that outlive the connection |
| Setup (`setup.rs`, `util.rs` 22–120, `core/mod.rs` 160–820) | configuration, ini file, keypair, boot nodes | the setters, `from_file`, `build`, `save_keypair_offline` | dials, identities | restarts; what is written is not what is read |
| Example applications (`examples/`) | guess and score; stored files | the two programs of the game, the sharding tasks | events, gossip, shards | their loops read events between the network's steps |
| Locks of the buffers (`core/replication.rs`) | four mutexes, one network loop per node | push, confirmation, clone, pull | RPC between nodes | lock order, a lock held over an RPC |

What makes each part correct:

* *Strong replication*: nothing is readable before enough replicas have it, no
  confirmation counts twice, what was read never returns, buffers keep their
  bounds, and confirmations that suffice do release the data.
* *Eventual replication*: clocks respect causality, a node does not get its own
  data back, and every replica that lacks data some other one keeps gets it.
* *Request tracking*: ids are unique, an answer goes to the request it answers,
  at most once, and every call returns.
* *Shard membership*: views hold no node that has left, and agree at rest.
* *Shard data*: each node of the shard keeps the data as often as nodes took it,
  which only retries make more than once; only members take it.
* *Events*: each event is handled at most once, in order, and a reader that missed
  none knows its peers.
* *Ping policy*: no connection is closed without a failure the policy counts.
* *Setup*: a saved identity survives a restart.
* *Game*: a node scores only what it was sent, and loses only to a winner.
* *Locks*: no cycle of waiting (not modelled, see below).

PROJECT.json lists the hazards of the code, each with its line and the
properties that would show it going wrong.

## The modules

Each module names the CONSTANTS that bound it; every other behaviour is
unbounded. `MC*.tla` hold the values of constants and the symmetry sets for the
`.cfg` files. `*_proofs.tla` hold theorems.

### StrongConsistency: one replica network under `ConsistencyModel::Strong`

State: for each node the temporary buffer (`temp[n][m]`: number of
confirmations, 0 if absent), the public buffer (`queue`), the Lamport clock, what
gossip told it of its peers (`peers`), and for each confirmation it hears the
spawned task (`task`, `required`). `received` and `confirmed` stand for
gossipsub, which delivers each message at most once, in any order, or never.

| Action | Code |
|---|---|
| `Replicate` | `Core::replicate` |
| `HandleIncomingReplData` (`PushDirect`, `PushTemporary`) | `handle_incoming_repl_data`, `push`: one step, since the lock of the state and then that of the temporary buffer are held throughout |
| `HandleDataConfirmation`, `UpdateConfirmation`, `MoveToPublicQueue` | `handle_data_confirmation`: it asks for the number of peers, counts, and moves, in three critical sections, hence three steps of each task |
| `PopFront` | `consume_repl_data`, `pop_front` |
| `ReplicateBuffer` | `replicate_buffer`, which inserts a copy into the public buffer |
| `JoinReplNetwork`, `LeaveReplNetwork` | `init` by `join_repl_network`; `leave_repl_network` |
| `PeerSubscribed`, `PeerUnsubscribed`, `Expire` | gossipsub and the clock (external) |

A query of `replica_peers` that times out yields an empty list; the switch
`QueriesMayFail` allows it.

### StrongReplication: what that network promises

The abstract specification: at each node a message is absent, held, released or
gone; it is released only when a quorum has received it, and never returns.
`StrongConsistency!StatusMap` is the refinement mapping and `PromiseSpec` the
property.

### EventualSync: one replica network under `ConsistencyModel::Eventual`

State: clocks, `queue`, `aged` (entries past `data_aging_period`), `consumed`,
and `sync[n][p]`, the task of `sync_buffer_image` at `n` for an image of `p`.
`push`, `Age`, `pop_front` are steps; a synchronization is three, because no
lock is held across its RPC: `SyncBufferImage` compares, `PullMissingData` is
the service of the RPC by the peer, `InsertPulled` inserts, `PullFails` loses
request or answer. An image and its comparison are one step: the images are
periodic, so one that is older than the buffer it came from is like a slower
period. `n` handles one image of `p` at a time.

`ReplNetworkConfig::Default` is the instance with 150 entries (the doc of the
enum, replication.rs:70, says 100) and an expiry of 60 s.

### RequestTracking: requests and their answers

One task per request. `ChooseId`, `SendTracked`, `SendUntracked`,
`RejectRequest` are `send_to_network` (the id is read and stored back in two
critical sections); `HandleRequest` is the network loop, which answers at once,
never, or puts the id into the FIFO queue of its kind; `QueryFinds` and
`QueryEnds` are events of the swarm, which pop the oldest id of the kind
(`Answered`); `Respond`, `StoreResponse` are the response task;
`StartPolling`, `TakeAnswer`, `Sleep`, `Wake`, `GiveUp` are `recv_from_network`,
which sleeps with the mutex of the response buffer held. The mutex is tokio's,
which is fair: `mutex` is the queue of its holder and those who wait.

### ShardMembership: who is in which shard

`JoinNetwork` and `ExitNetwork` change the local map, `Broadcast` gossips the
change (or fails), `HandleJoin`, `FinishJoin`, `HandleExit` are the gossip
handlers, `PublishShardState` the task that sends an image to a newcomer,
`SyncImage` its merge (`merge_shard_states`). A gossip handler of a join first
spawns the task and then updates the map, so the two interleave.

### ShardData: what a shard keeps

Extends `ShardMembership`, whose views its calls go by; `NetworkSpec` is the
specification of both. A call of `shard` or `fetch` ends at once
(`NobodyToAsk`, `ShardLocally`, `FetchLocally`) or asks the nodes it knows one
after the other (`AskOthers`, `SendRpc`, `AnswerArrives`, `RpcFails`,
`AllFailed`). `TakeForwarded` and `ServeFetch` are the RPC handlers of the loop,
`HandleIncomingShardData` the task that replicates, `AnnounceReplica` and
`PushReplica` the two halves of `handle_incoming_repl_data` (the event comes
before the data), `StoreForwarded` and `StoreReplica` the task of the sharding
examples, whose storage is a file per key. `HashKey` and `RangeShard` are their
two `locate_shard`; `MCShardData` compares them with a reference definition over
bounded inputs (`RangesFound`, `HashFound`). The buffers are sets, since
`EventualSync` is where their order matters.

### NodeSetup: configuration and identity

`NewConfig` and the `With*` operators are the setters of `BootstrapConfig`,
`ReadIniFile` is `read_ini_file` on the sections of a file, `FromCode` the
configuration that the game's programs write. They return a set of
configurations, empty where the code panics. `StartNode` is `build`,
`StartFails` its failure (a port in use, no bootstrap section, a keypair that
does not parse), `SaveKeypairOffline` writes the keypair under the key that is
read and its type under "Crypto", where "crypto" is read, so that the type counts
only when the user writes it (`NameKeyType`). `Connect` and its like are libp2p.

### NodeEvents: the loop's events and the application's queue

Extends `NodeSetup`. `Push`, `Popped`, `Drained` are `DataQueue`; `CopyEvents` and
`DrainEvents` the two critical sections of `events()`; `ConnectionEstablished`,
`ConnectionClosed`, `DialError`, `Identified`, `Ping`, `PeerSubscribed`,
`GossipMessage` the branches of `handle_async_operations`; `Report` the branches
that hand an event on as it is. Event numbers, what the reader believes of its
peers, whether it missed an event, and which connections are quiet are history of
the model. Gossip between two nodes keeps its order; when a connection is cut a
prefix of what was sent arrives. Two nodes have one connection at a time.

### SimpleGame: an application above it

Extends `NodeEvents`, gives it its next-state relation and adds the game: the
phases of both programs, `Play` (draw, gossip, announce), `HandleMessage`, the
gossip filter of node 1, the crash or end of either at any time (`End`). An
initial state is one of two kinds: nodes configured in code, which play once each;
or a node that starts from one of five files, is restarted, saves its keypair and
follows its events, with failing pings and a network id of its own, but no game.

## The runs

Each run ends within five minutes; the last column is the number of distinct
states (with symmetry, where the configuration declares it; up to the violation,
where there is one).

| Run | Instance | Shows | States |
|---|---|---|---|
| `strong_evict` | 3 nodes, 2 messages, `MinPeers(2)`, public buffer of 1, expiry | `QueueBounded`, `EvictionMakesRoom` | 1,961,173 |
| `strong_churn` | 3 nodes, 1 message, 2 joins or leaves, cloning, queries fail | `TypeOK`, `ConfirmationsAreReal` | 2,341,139 |
| `strong_live` | 4 nodes, 1 message, `All`, fair | `QuorumHolds`, `DeliveredOnce`, the refinement `PromiseSpec`, `UncountedEventuallyReleased` | 146,612 |
| `strong_overtaken` | 3 nodes, 1 message, fair | **violated** `ReceivedEventuallyReleased` | 335 |
| `request_match` | 3 RPCs sent in turn, answered in order | `TypeOK`, `AnswersMatch`, `OneIdPerQuery`, `ReadyAnswerIsRead` | 80,318 |
| `request_live` | 4 requests of mixed kinds, buffers of 1 or 2, 1 extra event, any order, fair | `UniqueIds`, `AnsweredAtMostOnce`, `EveryQueryReturns` | 373,361 |
| `request_reordered` | 2 RPCs answered in any order | **violated** `AnswersMatch` | 576 |
| `shard_apart` | `ShardData` over `ShardMembership`: 3 nodes, 1 shard, 3 calls of membership with exits apart, then 2 data, 1 of several words, 1 RPC without a timely answer, 1 of the data fetched | `ViewsSound`, `QuietViewsAgree`; `EveryCopyKept`, `RetriesExplainCopies`, `TakenByMembers`, `FetchAsksHolders` | 1,505,643 |
| `shard_stale_image` | 3 nodes, 2 shards, 3 calls, at any time | **violated** `QuietViewsAgree` | 35,009 |
| `eventual_sync` | 3 nodes, 2 publishers, buffers of 1, 2 pops, 1 failing RPC, expiry, fair | `OwnDataStaysOut`, `CausalClocks`, `EventuallyReplicated` | 55,151 |
| `eventual_consumed` | 3 nodes, 1 publisher, 1 pop, 1 failing RPC, fair | **violated** `BecomesConsistent` | 1,727 |
| `game` | 2 nodes; event queue of 3, high score of 1, 2 rounds of guesses 1 or 2; or 5 files, 2 starts, 2 pings or reports | `TypeOK`, `NewerThanHandled`, `ConnectionEventsTell`, `QuietConnectionsStay`, `ScoreEarned`, `LoserHasWinner`, `ToldHasLost`, `IdentityKept` | 2,007,200 |

Why these bounds are enough to be interesting: four nodes give three receivers,
so that several confirmation tasks of one entry interleave while a quorum is
smaller than the network; a public buffer of one entry is full after the first
message, and a temporary buffer of one or two drops entries; two calls of leave
and join make a node come back while its old tasks run; three requests give a
queue of ids whose middle element matters; three nodes give a shard with a node
that is told of both a join and an image of it, and a replica that serves data
to another which the publisher does not (images exclude own data). In ShardData
the third node forwards, or fetches, while the other two are in the shard; one
failed RPC makes it try the second of them, and two data are needed for an event
of the one to consume the other. The game's queue of three is shorter than what
arrives between two rounds, so that it drops; with two rounds and a high score of
one a node wins in its second round, which is when the other may win too. Two
starts are a restart, and two pings a failure after a failure.

`CHECK_DEADLOCK FALSE` stands in every configuration because each instance is a
finite scenario: when the calls of its bound are used up and all messages are
handled, nothing is left to do.

### Disagreements of the code with its documents

* `strong_overtaken`: a confirmation that is handled before the data it confirms
  is lost (replication.rs:416), and under `All` the entry is never readable.
  What does hold is `UncountedEventuallyReleased`: an entry no confirmation has
  outrun is released.
* `request_reordered`: RPC answers pop the oldest id (mod.rs:1867) and ignore the
  `OutboundRequestId`; two callers get each other's answers.
* `shard_stale_image`: an image taken before an exit and merged after it puts the
  node back (util.rs:239), and nothing takes it out again.
* `eventual_consumed`: a node that consumed an entry with a later clock ignores
  the images that offer what it lacks (replication.rs:574).

### Instances without a run of their own

These follow from the same modules by changing a constant; they mark the limits
of what the passing runs show.

* `RequestTracking` with `SendsInTurn = FALSE`: two clones of `Core` may take the
  same id (`UniqueIds` fails). With `MaxFound = 1` and two lookups an extra report
  takes the id of the next query (`AnswersMatch` fails). With more pollers than
  `MaxTrials` a stored answer may be missed (`ReadyAnswerIsRead` fails).
  `StreamRequestBuffer` never shrinks, so a node accepts `size` requests in its
  life. The two untracked requests come back as `StreamBufferOverflow`.
* `StrongConsistency` with two nodes: data goes straight into the public buffer,
  without its bound (`QueueBounded` fails). With `MinPeers(1)` alike. A rejoin
  empties the buffers, although the comment at mod.rs:1179 says they are kept.
  A departure leaves entries that wait for the larger number of peers.
  `EvictionMakesRoom` holds while the temporary buffer does not overflow: an
  entry it drops may be one a task is moving, which then makes room for nothing.
  And it holds only where every replica must confirm. With four nodes and
  `MinPeers(2)` a second confirmation may find the entry confirmed before the
  task of the first has moved it; when that second task comes to move it, it
  empties a place of the public buffer and has nothing to put there
  (replication.rs:433–470): the property fails.
* `ShardMembership` with exits not apart: `ViewsSound` and `QuietViewsAgree` fail.
* `ShardData` with `DataApart = FALSE`: data is taken by nodes that have left, and
  a member that joins late lacks it; `exit_network` leaves the replica network of
  no shard, so a node that left goes on receiving. With `StoresReplicas = FALSE`
  (the range example) the other nodes of a shard never store the data, and `fetch`
  may answer that there is none. Data of several words is stored nowhere.
  `fetch` is called when no data is under way; called earlier, an empty answer ends
  it though another node of the shard has the data.
* `SimpleGame`: what the doc of the example promises of the end (main.rs:13–15)
  does not hold: both nodes may win, several guesses handled at once may carry a
  score beyond `HIGH_SCORE`, which is compared by `==`, and the announcement may
  be dropped, or lost with the process or between `into_inner` and `drain`.
* `NodeEvents`: the limit of the ping policies is tested by `!=`, so any limit but 0
  disconnects at the first failure the policy counts, although the doc
  (mod.rs:228) speaks of 20. `with_network_id` does not reach the identify protocol, so
  such a node closes every connection.
* `NodeSetup`: `with_tcp` and `with_udp` ignore a port equal to a bound. A key type that
  is not known yields a fresh keypair, where the doc (setup.rs:135) says
  it panics. Without a "crypto" entry written by the user a saved identity is not found again,
  hence the condition of `IdentityKept`.
* `EventualSync`: data pulled by RPC does not advance the Lamport clock, so
  `CausalClocks` speaks of what gossip delivered (`before`). An entry that was
  consumed may be pulled, and then read, again. Pulled data may exceed
  `queue_length` until the next push.

## Fairness

Only `FairSpec` assumes it, and each conjunct is something the code's scheduling
gives:

* spawned tasks run, mutexes are fair (tokio and async-std executors, tokio's
  mutex), the network loop takes the next message or event;
* `StrongConsistency`: gossip of data and of confirmations is delivered (the
  liveness asked for is that of a network which delivers). It is one condition on
  all steps of the network and of the tasks: each happens a bounded number of times,
  so those that stay possible cannot be put off for ever by the others. The
  application need neither publish nor read;
* `RequestTracking`: libp2p ends each query by an event (success, failure or its
  own time-out);
* `EventualSync`: time passes, the loop of `sync_with_eventual_consistency` never
  ends, so each node hears of each other again and again, and of the RPCs between
  two nodes only finitely many fail (`MaxFailures`). The gossip of the data itself
  is *not* assumed to arrive: data that gossip lost is what synchronization is for.

## What is proved

| Theorem | Statement | For |
|---|---|---|
| `StrongConsistency_proofs!TypeCorrect` | `Spec => []TypeOK` | all constants |
| `ConfirmationsReal` | `Spec => []ConfirmationsAreReal` | all constants, with churn, cloning and failing queries |
| `QuorumTheorem` | `Spec => []QuorumHolds` | `MaxChurn = 0`; with cloning and failing queries |
| `StrongReplication_proofs!DeliveredOnceTheorem` | `Spec => []DeliveredOnce` | `MaxChurn = 0`, no cloning |
| `PromiseTheorem` | `Spec => PromiseSpec` | `MaxChurn = 0`, no cloning |
| `QueueBoundedTheorem` | `Spec => []QueueBounded` | the same, and `ReceiversWait` |
| `EvictionTheorem` | `Spec /\ []RoomForData => EvictionMakesRoom` | the same, and `AllConfirm` |
| `EvictionWithinCapacity` | `Spec => EvictionMakesRoom` | the same, and at most `MaxCapacity` messages |
| `EventualSync_proofs!TypeCorrect` | `Spec => []TypeOK` | all constants |
| `CausalClocksTheorem` | `Spec => []CausalClocks` | all constants |
| `OwnDataTheorem` | `Spec => []OwnDataStaysOut` | all constants |
| `RequestTracking_proofs!TypeCorrect` | `Spec => [](TypeOK /\ MutexInv)` | all constants |
| `UniqueIdsTheorem` | `Spec => []UniqueIds` | `EnoughIds` |
| `OneIdTheorem` | `Spec => []OneIdPerQuery` | `OnlyOnce`, `RoomForIds` |
| `AnsweredOnceTheorem` | `Spec => []AnsweredAtMostOnce` | `EnoughIds` |
| `AnswersMatchTheorem` | `Spec => []AnswersMatch` | `EnoughIds`, `OnlyOnce`, `RoomForIds`, `InOrder` |
| `ReadyAnswerTheorem` | `Spec => []ReadyAnswerIsRead` | `EnoughIds`, `RoomForAnswers`, `EnoughTrials` |
| `ShardMembership_proofs!TypeCorrect` | `Spec => []TypeOK` | all constants |
| `ViewsSoundTheorem` | `Spec => []ViewsSound` | `ExitsApart` |
| `QuietViewsAgreeTheorem` | `Spec => []QuietViewsAgree` | `ExitsApart` |
| `ShardData_proofs!NetworkRefinesMembership` | `NetworkSpec => Spec` | all constants |
| `RetriesExplainCopiesTheorem` | `NetworkSpec => []RetriesExplainCopies` | all constants |
| `TakenByMembersTheorem` | `NetworkSpec => []TakenByMembers` | `ExitsApart` |
| `EveryCopyKeptTheorem` | `NetworkSpec => []EveryCopyKept` | `ExitsApart`, `DataApart` |
| `FetchAsksHoldersTheorem` | `NetworkSpec => []FetchAsksHolders` | `ExitsApart` |
| `NodeSetup_proofs!SavedIsInFile` | `Spec => []SetupInv` | all constants; the specification is that of SimpleGame |
| `IdentityTheorem` | `Spec => IdentityKept` | all constants |
| `SimpleGame_proofs!TypeCorrect` | `Spec => []TypeOK` | all constants |
| `NewerThanHandledTheorem` | `Spec => []NewerThanHandled` | all constants |
| `ConnectionEventsTheorem` | `Spec => []ConnectionEventsTell` | all constants |
| `QuietConnectionsTheorem` | `Spec => []QuietConnectionsStay` | all constants |
| `ScoreEarnedTheorem` | `Spec => []ScoreEarned` | all constants |
| `LoserHasWinnerTheorem` | `Spec => []LoserHasWinner` | all constants |
| `ToldHasLostTheorem` | `Spec => []ToldHasLost` | `TwoNodes` |

"All constants" are those that the assumptions of the modules admit. The other
conditions restrict the code's surroundings, each is met by the run that checks
the same property, and without it the property is false of the code (see the
instances above):

* `ReceiversWait`: three nodes or more, and not `MinPeers(1)`. Else `push` inserts
  into the public buffer, without making room.
* `AllConfirm`: three nodes or more, under `All` or `MinPeers` of all the others.
  `RoomForData`: while data is under way to a node its temporary buffer is below
  `MAX_CAPACITY`.
* `EnoughIds`: calls to `send_to_network` do not overlap, and the request buffer
  has fewer places than there are ids (2^32 of them), so that ids do not wrap.
  `OnlyOnce`: no lookup reports before its end. `RoomForIds`, `RoomForAnswers`,
  `EnoughTrials`: no more requests than the queues of ids, the response buffer and
  the trials of a poller. `InOrder`: peers answer in the order of the requests;
  this the code does not see to, as `request_reordered` shows.
* `ExitsApart`: no exit overlaps another call of membership. `DataApart`: data is
  sharded when nothing of membership is under way (the properties of ShardData say
  nothing otherwise).
* `TwoNodes`: the game has two nodes, `run_node_1` and `run_node_2`. A guess of a
  third could be handled right after the announcement, and raise the score that
  says that the game is lost.

The arguments:

* `ConfirmationsAreReal` is not inductive. `RealInv` adds that a task beyond its
  first step belongs to a node that has gossiped the id (`TasksConfirmed`), that
  such a node has received the data (`ConfirmedReceived`), that what a node keeps
  it has received (`TempReceived`), that the count of an entry is at most one more
  than the tasks that have counted (`CountBounded`), and the same of what has moved
  (`QueueReal`).
* `QuorumHolds` needs that every node's view of its peers is complete
  (`FullView`), that a task's goal is the quorum (`GoalIsQuorum`), and that a task
  that is about to move an entry is backed by enough receivers (`MoveBacked`).
  A membership that changes breaks it: hence the assumption. Clones do not, since
  they copy what a peer has released; they do break `DeliveredOnce`, as a clone
  brings back what was consumed.
* `DeliveredOnce` and the refinement use that an id is in at most one of the
  temporary buffer, the public buffer and `consumed`, and only after it was
  received (`PlaceInv`). `PromiseStep` then maps each step to a step or a stutter.
* `QueueBounded` rests on what the loop that makes room leaves (`CleanupBound`):
  the number of entries that would be popped after an entry differs from entry to
  entry, since ids are unique (`FewerAfter`), and is below `queue_length - 1` for
  those kept, so there are at most that many. `NoDirectPush` rules out the one
  insertion that makes no room.
* `EvictionMakesRoom` needs that a task in "move" still has its entry. It does
  because it is the last (`MoveAlone`): to be confirmed the count needs all peers but
  the publisher, whose data comes back to it never (`NeverSource`), and `CountBounded`
  says that then all their tasks have counted (`AllApplied`).
* RequestTracking: `MutexInv` says who waits for the fair mutex; `IdsInv` that the ids
  given out are the first ones, each to one request; `FlowInv` that a request is at
  one place of the network layer; `PlaceInv` that an id which waits in a queue, is on
  its way to the application or is in the buffer belongs to a handled request and
  is at one of the three, once. `AnswersMatch` adds that the n-th id of a queue
  is that of the n-th query and that this survives to the buffer (`PairInv`).
  `ReadyAnswerIsRead` weighs the place of an answer in the channel against the trials
  of its poller (`TrialsInv`): each trial lets the response task, which the mutex
  serves in turn, store one more.
* `ViewsSound` needs `JoinsInv` (whatever is announced is true, exits aside), `ExitInv` (an
  exit is alone), `OnlineInv`, `ImagesInv` (no image names a node that is not in the
  shard) and `OwnInv`. `QuietViewsAgree` needs in addition that of two members each
  knows the other or is still to hear of it, by a gossip, a join or an image (`ToldInv`).
* ShardData: `NetworkRefinesMembership` carries the membership results over.
  `RetriesExplainCopies` counts the nodes that took a datum together with the RPCs that
  may still make one take it (`CountInv`). `TakenByMembers` needs that whoever is asked
  is in the shard (`AskedInv`) and that nothing of membership is under way once data is
  sharded (`ApartInv`). `EveryCopyKept` follows each copy from the node that took it
  to each keeper: it is at one place on its way (`PlacesInv`), no node takes a datum twice
  (`FreshInv`), and the storage counts the copies that have come (`AllStored`).
  `FetchAsksHolders` needs that a fetch asks only nodes that have a copy of what was
  placed before it (`HoldersInv`).
* The events: a step does one of a few things to a queue and to the gossip
  (`QueueSteps`, `EventSteps`): nothing, a push, a handling, a loss. What a loop over a queue
  computes is a recursive function of the model, and is proved by induction on the
  positions (`LeastMember`, `Stepwise`), for queues of any length. `ConnectionEventsTell`
  is then inductive with the types; `QuietConnectionsStay` follows from `WiresInv`.
* The game: `ScoreEarned` says of each node that its score and what of its pending
  guesses a draw can beat is no more than was let through (`EarnedInv`); a full queue, or
  a drain that loses events, only makes it less (`ThinnedBeats`). `LoserHasWinner` follows the announcement
  from the winner through the gossip and the queue (`WinnersInv`). `ToldHasLost` needs
  that the announcement is the last a node sends, and that gossip and queue keep it so
  (`LastWinInv`): what is handled with it comes before it.
* `CausalClocks` needs that a node's clock is not behind what gossip gave it
  (`ClocksCover`) and that only published data is given (`BeforePublished`).
* `OwnDataStaysOut` needs that no pull under way asks for own data
  (`OwnDataNotAsked`).
* `IdentityKept` needs that what is saved is the one keypair of the file and not RSA
  (`SavedInFile`), and, for that, that the keypair in use is one of the known types
  (`KeysKnown`): `ReadIniFile` yields no other (`IniKey`). `SetupSteps` reduces a
  step of the whole composition to the five that change the setup.

Every theorem is about `Spec`, hence also about `FairSpec`.

So every invariant and every action property that a passing run checks is also a
theorem. Only model-checked is liveness (`UncountedEventuallyReleased`,
`EveryQueryReturns`, `EventuallyReplicated`), which this prover does not reach, and
the comparison of `HashKey` and `RangeShard` with their reference definitions on
bounded keys (`HashFound`, `RangesFound`): `HashKey` is a fold of a library operator,
about which the provers know nothing.

## What is not modelled

* *Locks of the buffers.* Every module takes a critical section as one step, which is
  sound for what they check as long as the sections end. Two orders of the source
  say that they need not: `push` takes the temporary buffer and then the public one
  (replication.rs:290, 312), `init` and the move of a confirmed entry the other way
  round; and `replicate_buffer` holds the public buffer across an RPC that the same
  loop must answer (replication.rs:744). Nothing in the repository says what should
  hold there, so a run could only restate the order; both are listed as hazards.
* Contents, formatting and parsing of messages and files: ids, sections and model
  values stand for them. Time: an entry is expired or aged, an answer late or not.
* Joining, leaving and cloning under eventual consistency; they are modelled under
  strong consistency, where the code is the same but for the buffers.
* libp2p itself, its routing table and providers, transports and time-outs: modelled as
  far as the loop reacts to them, and marked external.
* Leaving a gossip topic outside replication; the examples of replication, file
  sharing and queries, which call one operation each and print what it returns; the
  tests and the testing guide, read as documentation.

## What could follow

All modules planned are written, and the safety properties of the runs are proved
under the conditions named. What is left: `QueueBounded` with cloning, for which a
clone would have to be counted; weaker conditions than `ExitsApart`, such as exits
that do not overlap an image; and `HashKey` as a recursive function, whose range could
then be proved for keys of any length.
