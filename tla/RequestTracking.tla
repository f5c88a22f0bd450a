-------------------------- MODULE RequestTracking --------------------------
(***************************************************************************)
(* How a node matches the network's answers to the application's requests  *)
(* (src/swarm-nl/src/core/mod.rs and prelude.rs): send_to_network stamps a *)
(* request with a stream id and passes it to the network loop; the loop    *)
(* answers at once, or keeps the id in a FIFO queue until the swarm        *)
(* reports an event of the right kind; a response task moves the answers   *)
(* into a buffer, which recv_from_network polls a bounded number of times. *)
(*                                                                         *)
(* A request stands for the task that makes it by query_network().         *)
(***************************************************************************)
EXTENDS Integers, Sequences, FiniteSets, SequencesExt

CONSTANTS
  Requests,      \* the requests, each made by a task of its own
  Kind,          \* Kind[r]: what the network loop does with r, see Kinds
  IdCount,       \* number of stream ids before StreamId::next wraps (2^32)
  RequestSize,   \* size of StreamRequestBuffer
  ResponseSize,  \* size of StreamResponseBuffer
  QueueMax,      \* MAX_QUEUE_ELEMENTS of a DataQueue
  MaxTrials,     \* polls of recv_from_network after the first (10)
  MaxFound,      \* bound of the model on the events on a query before its last
  SendsInTurn,   \* TRUE: the application does not overlap send_to_network calls
  InOrder        \* TRUE: the swarm reports on its queries in their order

\* Kinds the loop answers at once, never (DailPeer with a malformed address),
\* without tracking, or by way of one of the four queues of stream ids.
Queued == {"store", "lookup", "providers", "rpc"}
Kinds == {"immediate", "silent", "untracked"} \cup Queued

NoAnswer == "none"                  \* nothing for this id in the buffer
Responder == "responder"            \* the task of handle_network_response
Failures == {"overflow", "timeout"} \* errors of query_network

ASSUME RequestsAssumption ==
  /\ IsFiniteSet(Requests) /\ Kind \in [Requests -> Kinds]
  /\ Requests \cap (Failures \cup {NoAnswer, Responder, "pending"}) = {}
ASSUME SizesAssumption ==
  /\ IdCount \in Nat \ {0} /\ RequestSize \in Nat /\ ResponseSize \in Nat
  /\ QueueMax \in Nat \ {0} /\ MaxTrials \in Nat /\ MaxFound \in Nat
ASSUME OrderAssumption == SendsInTurn \in BOOLEAN /\ InOrder \in BOOLEAN

VARIABLES
  stage,        \* stage[r]: how far the task of r has come
  id,           \* id[r]: the stream id of r
  outcome,      \* outcome[r]: what query_network returned, an Outcome
  trials,       \* trials[r]: loop_count of recv_from_network
  ready,        \* ready[r]: its answer was under way when r began to poll
  current,      \* current_stream_id
  tracked,      \* the ids in StreamRequestBuffer
  toNetwork,    \* channel to the network loop, a sequence of requests
  fifo,         \* fifo[k]: the DataQueue of ids for kind k
  queries,      \* queries[k]: the swarm's queries of kind k, in the order begun
  found,        \* found[r]: the events on r before the last
  toApp,        \* channel to the response task, a sequence of Answer
  buffer,       \* StreamResponseBuffer, buffer[i] in About
  mutex         \* the buffer's mutex: its holder, then those who wait

sending == <<id, current, tracked>>
network == <<toNetwork, fifo, queries, found>>
vars == <<stage, sending, outcome, trials, ready, network, toApp, buffer, mutex>>

Ids == 0 .. IdCount - 1
Stages == {"new", "chosen", "sent", "polling", "sleeping", "done"}
About == Requests \cup {NoAnswer}   \* an answer is known by its request
Answer == [id : Ids, about : Requests]
Outcomes == Requests \cup Failures \cup {"pending"}

TypeOK ==
  /\ stage \in [Requests -> Stages]
  /\ id \in [Requests -> Ids]
  /\ outcome \in [Requests -> Outcomes]
  /\ trials \in [Requests -> 0 .. MaxTrials]
  /\ ready \in [Requests -> BOOLEAN]
  /\ current \in Ids
  /\ tracked \subseteq Ids
  /\ toNetwork \in Seq(Requests)
  /\ fifo \in [Queued -> Seq(Ids)]
  /\ queries \in [Queued -> Seq(Requests)]
  /\ found \in [Requests -> 0 .. MaxFound]
  /\ toApp \in Seq(Answer)
  /\ buffer \in [Ids -> About]
  /\ mutex \in Seq(Requests \cup {Responder})

Init ==
  /\ stage = [r \in Requests |-> "new"]
  /\ id = [r \in Requests |-> 0]
  /\ outcome = [r \in Requests |-> "pending"]
  /\ trials = [r \in Requests |-> 0]
  /\ ready = [r \in Requests |-> FALSE]
  /\ current = 0
  /\ tracked = {}
  /\ toNetwork = <<>>
  /\ fifo = [k \in Queued |-> <<>>]
  /\ queries = [k \in Queued |-> <<>>]
  /\ found = [r \in Requests |-> 0]
  /\ toApp = <<>>
  /\ buffer = [i \in Ids |-> NoAnswer]
  /\ mutex = <<>>

-----------------------------------------------------------------------------
(* send_to_network() *)

\* StreamId::next
NextId(i) == (i + 1) % IdCount

\* The id is chosen under the lock of current_stream_id, which is then freed.
ChooseId(r) ==
  /\ stage[r] = "new"
  /\ SendsInTurn => \A q \in Requests : stage[q] # "chosen"
  /\ id' = [id EXCEPT ![r] = NextId(current)]
  /\ stage' = [stage EXCEPT ![r] = "chosen"]
  /\ UNCHANGED <<outcome, trials, ready, current, tracked, network, toApp, buffer, mutex>>

\* The request buffer has no room: nothing is sent.
RejectRequest(r) ==
  /\ stage[r] = "chosen"
  /\ Kind[r] # "untracked"
  /\ Cardinality(tracked) >= RequestSize
  /\ outcome' = [outcome EXCEPT ![r] = "overflow"]
  /\ stage' = [stage EXCEPT ![r] = "done"]
  /\ UNCHANGED <<sending, trials, ready, network, toApp, buffer, mutex>>

\* A mutant of SendTracked: the new id is not stored.
SendWithoutStoring(r) ==
  /\ stage[r] = "chosen"
  /\ Kind[r] # "untracked"
  /\ Cardinality(tracked) < RequestSize
  /\ tracked' = tracked \cup {id[r]}
  /\ toNetwork' = Append(toNetwork, r)
  /\ stage' = [stage EXCEPT ![r] = "sent"]
  /\ UNCHANGED <<id, current, outcome, trials, ready, fifo, queries, found, toApp, buffer, mutex>>

\* The id is tracked, the request sent and the id stored, while the lock of
\* the request buffer is held.
SendTracked(r) ==
  /\ stage[r] = "chosen"
  /\ Kind[r] # "untracked"
  /\ Cardinality(tracked) < RequestSize
  /\ tracked' = tracked \cup {id[r]}
  /\ toNetwork' = Append(toNetwork, r)
  /\ current' = id[r]
  /\ stage' = [stage EXCEPT ![r] = "sent"]
  /\ UNCHANGED <<id, outcome, trials, ready, fifo, queries, found, toApp, buffer, mutex>>

\* KademliaDeleteRecord and KademliaStopProviding: sent with an id that is
\* returned, which query_network takes for a full buffer.
SendUntracked(r) ==
  /\ stage[r] = "chosen"
  /\ Kind[r] = "untracked"
  /\ toNetwork' = Append(toNetwork, r)
  /\ outcome' = [outcome EXCEPT ![r] = "overflow"]
  /\ stage' = [stage EXCEPT ![r] = "done"]
  /\ UNCHANGED <<sending, trials, ready, fifo, queries, found, toApp, buffer, mutex>>

-----------------------------------------------------------------------------
(* The network loop *)

\* A mutant of Enqueue: the queue is a stack.
EnqueueFirst(q, i) == <<i>> \o (IF Len(q) >= QueueMax THEN Front(q) ELSE q)

\* A mutant of Enqueue: a queue is taken for full one element too soon.
EnqueueTooSoon(q, i) == Append(IF Len(q) + 1 >= QueueMax /\ q # <<>> THEN Tail(q) ELSE q, i)

\* DataQueue::push: a full queue loses its oldest element.
Enqueue(q, i) == Append(IF Len(q) >= QueueMax THEN Tail(q) ELSE q, i)

\* The loop takes the next request and answers it, or starts a query of the
\* swarm and keeps the id; some requests are answered by neither.
HandleRequest ==
  /\ toNetwork # <<>>
  /\ LET r == Head(toNetwork)
     IN /\ toNetwork' = Tail(toNetwork)
        /\ toApp' = IF Kind[r] = "immediate"
                    THEN Append(toApp, [id |-> id[r], about |-> r]) ELSE toApp
        /\ IF Kind[r] \in Queued
           THEN /\ queries' = [queries EXCEPT ![Kind[r]] = Append(@, r)]
                /\ fifo' = [fifo EXCEPT ![Kind[r]] = Enqueue(@, id[r])]
           ELSE UNCHANGED <<queries, fifo>>
  /\ UNCHANGED <<stage, sending, outcome, trials, ready, found, buffer, mutex>>

\* A mutant of Answered: the id is read from the queue and stays there.
AnsweredByPeek(r) ==
  /\ toApp' = IF fifo[Kind[r]] = <<>> THEN toApp
              ELSE Append(toApp, [id |-> Head(fifo[Kind[r]]), about |-> r])
  /\ UNCHANGED fifo

\* What an event about query r does: the oldest id of its kind, if there is
\* one, gets the answer.
Answered(r) ==
  LET k == Kind[r]
  IN /\ toApp' = IF fifo[k] = <<>> THEN toApp
                 ELSE Append(toApp, [id |-> Head(fifo[k]), about |-> r])
     /\ fifo' = [fifo EXCEPT ![k] = IF @ = <<>> THEN @ ELSE Tail(@)]

\* Where the query of r stands among those of its kind, if the swarm may report
\* on it next.
Reportable(r) ==
  {i \in DOMAIN queries[Kind[r]] : queries[Kind[r]][i] = r /\ (InOrder => i = 1)}

\* The last, or only, event about a query: an RPC response or failure, a
\* record stored, the end of a lookup, the providers.
QueryEnds(r) ==
  /\ Kind[r] \in Queued
  /\ \E i \in Reportable(r) :
       queries' = [queries EXCEPT ![Kind[r]] = RemoveAt(@, i)]
  /\ Answered(r)
  /\ UNCHANGED <<stage, sending, outcome, trials, ready, toNetwork, found, buffer, mutex>>

\* A lookup reports each record, and each set of providers, it comes across;
\* put_record_to stores the record on the explicit peers by a query of its own.
QueryFinds(r) ==
  /\ Kind[r] \in Queued \ {"rpc"} /\ Reportable(r) # {}
  /\ found[r] < MaxFound
  /\ found' = [found EXCEPT ![r] = @ + 1]
  /\ Answered(r)
  /\ UNCHANGED <<stage, sending, outcome, trials, ready, toNetwork, queries, buffer, mutex>>

-----------------------------------------------------------------------------
(* handle_network_response(), and the mutex it shares with the pollers *)

Holds(t) == mutex # <<>> /\ Head(mutex) = t

\* An answer makes the response task ask for the mutex.
Respond ==
  /\ toApp # <<>>
  /\ ~Contains(mutex, Responder)
  /\ mutex' = Append(mutex, Responder)
  /\ UNCHANGED <<stage, sending, outcome, trials, ready, network, toApp, buffer>>

Stored == {i \in Ids : buffer[i] # NoAnswer}

\* It stores one answer, or drops it when the buffer is full.
StoreResponse ==
  /\ Holds(Responder)
  /\ toApp' = Tail(toApp)
  /\ buffer' = IF Cardinality(Stored) < ResponseSize
               THEN [buffer EXCEPT ![Head(toApp).id] = Head(toApp).about] ELSE buffer
  /\ mutex' = Tail(mutex)
  /\ UNCHANGED <<stage, sending, outcome, trials, ready, network>>

-----------------------------------------------------------------------------
(* recv_from_network() *)

AnswerUnderWay(r) ==
  \/ buffer[id[r]] = r
  \/ \E i \in 1 .. Len(toApp) : toApp[i] = [id |-> id[r], about |-> r]

\* recv_from_network spawns the task that polls.
StartPolling(r) ==
  /\ stage[r] = "sent"
  /\ stage' = [stage EXCEPT ![r] = "polling"]
  /\ ready' = [ready EXCEPT ![r] = AnswerUnderWay(r)]
  /\ mutex' = Append(mutex, r)
  /\ UNCHANGED <<sending, outcome, trials, network, toApp, buffer>>

TakeAnswer(r) ==
  /\ stage[r] = "polling" /\ Holds(r)
  /\ buffer[id[r]] # NoAnswer
  /\ outcome' = [outcome EXCEPT ![r] = buffer[id[r]]]
  /\ buffer' = [buffer EXCEPT ![id[r]] = NoAnswer]
  /\ stage' = [stage EXCEPT ![r] = "done"]
  /\ mutex' = Tail(mutex)
  /\ UNCHANGED <<sending, trials, ready, network, toApp>>

\* A mutant of MayTryAgain: one trial more.
MayTryAgainMore(n) == n <= MaxTrials

\* A mutant of MayTryAgain: one trial fewer.
MayTryAgainLess(n) == n + 1 < MaxTrials

MayTryAgain(n) == n < MaxTrials

\* A mutant of Sleep: the trial is not counted.
SleepUncounted(r) ==
  /\ stage[r] = "polling" /\ Holds(r)
  /\ buffer[id[r]] = NoAnswer
  /\ MayTryAgain(trials[r])
  /\ stage' = [stage EXCEPT ![r] = "sleeping"]
  /\ UNCHANGED <<sending, outcome, trials, ready, network, toApp, buffer, mutex>>

\* No answer yet: the task sleeps, and keeps the mutex while it does.
Sleep(r) ==
  /\ stage[r] = "polling" /\ Holds(r)
  /\ buffer[id[r]] = NoAnswer
  /\ MayTryAgain(trials[r])
  /\ trials' = [trials EXCEPT ![r] = @ + 1]
  /\ stage' = [stage EXCEPT ![r] = "sleeping"]
  /\ UNCHANGED <<sending, outcome, ready, network, toApp, buffer, mutex>>

\* The guard goes at the end of the iteration and is asked for again at once,
\* behind those who have waited in the meantime. The sleep takes seconds: a
\* response task with an answer at hand has asked for the mutex by then.
Wake(r) ==
  /\ stage[r] = "sleeping"
  /\ toApp # <<>> => Contains(mutex, Responder)
  /\ stage' = [stage EXCEPT ![r] = "polling"]
  /\ mutex' = Append(Tail(mutex), r)
  /\ UNCHANGED <<sending, outcome, trials, ready, network, toApp, buffer>>

GiveUp(r) ==
  /\ stage[r] = "polling" /\ Holds(r)
  /\ buffer[id[r]] = NoAnswer
  /\ ~MayTryAgain(trials[r])
  /\ outcome' = [outcome EXCEPT ![r] = "timeout"]
  /\ stage' = [stage EXCEPT ![r] = "done"]
  /\ mutex' = Tail(mutex)
  /\ UNCHANGED <<sending, trials, ready, network, toApp, buffer>>

-----------------------------------------------------------------------------
Next ==
  \/ \E r \in Requests :
       \/ ChooseId(r) \/ RejectRequest(r) \/ SendTracked(r) \/ SendUntracked(r)
       \/ QueryEnds(r) \/ QueryFinds(r)
       \/ StartPolling(r) \/ TakeAnswer(r) \/ Sleep(r) \/ Wake(r) \/ GiveUp(r)
  \/ HandleRequest \/ Respond \/ StoreResponse

Spec == Init /\ [][Next]_vars

\* Tasks and the loop are scheduled fairly and the mutex is fair; libp2p ends
\* each query by an event, at the latest when its timeout passes. Nothing
\* makes a lookup report more than its end.
Fairness ==
  /\ \A r \in Requests :
       /\ WF_vars(SendTracked(r) \/ RejectRequest(r) \/ SendUntracked(r))
       /\ WF_vars(QueryEnds(r))
       /\ WF_vars(StartPolling(r))
       /\ WF_vars(TakeAnswer(r) \/ Sleep(r) \/ GiveUp(r))
       /\ WF_vars(Wake(r))
  /\ WF_vars(HandleRequest)
  /\ WF_vars(Respond)
  /\ WF_vars(StoreResponse)

FairSpec == Spec /\ Fairness

-----------------------------------------------------------------------------
(* Properties *)

Awaiting == {r \in Requests : stage[r] \in {"sent", "polling", "sleeping"}}

\* A stream id tracks one request: no two requests whose answers are awaited
\* have the same id (send_to_network "recieve[s] a unique StreamId").
UniqueIds == \A r, q \in Awaiting : id[r] = id[q] => r = q

\* What query_network returns for a request is an answer to that request, and
\* not to another one of its kind that waits in the same queue.
AnswersMatch == \A r \in Requests : outcome[r] \in Requests => outcome[r] = r

\* Number of answers for the id i that are due, on their way or kept.
AnswersFor(i) ==
  Cardinality({p \in Queued \X (1 .. QueueMax) :
                 p[2] \in DOMAIN fifo[p[1]] /\ fifo[p[1]][p[2]] = i})
  + Cardinality({n \in DOMAIN toApp : toApp[n].id = i})
  + (IF buffer[i] = NoAnswer THEN 0 ELSE 1)

\* However the swarm's reports are ordered and however many there are, an id
\* is answered at most once: it is in one queue, on its way or in the buffer.
AnsweredAtMostOnce == \A i \in Ids : AnswersFor(i) <= 1

\* A query that reports once has an id that waits for its report, and no id
\* waits without a query: the n-th report of a kind finds an id to answer.
OneIdPerQuery ==
  \A k \in Queued : Len(fifo[k]) = Len(queries[k])

\* A request whose answer had reached the response task when the request
\* began to poll does not time out: MaxTrials is enough to read an answer
\* that is there ("sleep and retry" is for a response that "has not arrived").
ReadyAnswerIsRead == \A r \in Requests : ready[r] => outcome[r] # "timeout"

\* query_network takes an end: with an answer, a refusal or a timeout, even
\* for a request that the loop never answers or whose id or answer is lost.
EveryQueryReturns == \A r \in Requests : stage[r] = "chosen" ~> stage[r] = "done"

=============================================================================
