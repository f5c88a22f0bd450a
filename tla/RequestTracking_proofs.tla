----------------------- MODULE RequestTracking_proofs -----------------------
(***************************************************************************)
(* Proofs about RequestTracking, for every value of its constants that its *)
(* assumptions admit and, where a theorem says so, that the named          *)
(* conditions on sizes and order below restrict further.                   *)
(***************************************************************************)
EXTENDS RequestTracking, FiniteSetTheorems, SequenceTheorems, TLAPS

(***************************************************************************)
(* The conditions.  StreamId counts to 2^32, and a request buffer has room *)
(* for fewer: the ids do not wrap before the buffer is full.               *)
(***************************************************************************)
EnoughIds == SendsInTurn /\ RequestSize < IdCount

\* No query reports before its end: there are RPCs only, or nothing is found.
OnlyOnce == MaxFound = 0 \/ \A r \in Requests : Kind[r] \in Queued => Kind[r] = "rpc"

\* No DataQueue overflows, and no response buffer.
RoomForIds == QueueMax >= Cardinality(Requests)
RoomForAnswers == ResponseSize >= Cardinality(Requests)

\* No more pollers than trials.
EnoughTrials == MaxTrials >= Cardinality(Requests)

-----------------------------------------------------------------------------
(* The parts of the inductive invariants *)

Distinct(s) == \A m, n \in 1 .. Len(s) : s[m] = s[n] => m = n

\* Who asks for the mutex: each task once, a sleeper at the head, and the
\* response task only for an answer.
MutexInv ==
  /\ Distinct(mutex)
  /\ \A r \in Requests : stage[r] \in {"polling", "sleeping"} <=> Contains(mutex, r)
  /\ \A r \in Requests : stage[r] = "sleeping" => Holds(r)
  /\ Contains(mutex, Responder) => toApp # <<>>

\* A request is at one place of the network layer, and in none before it is sent.
FlowInv ==
  /\ Distinct(toNetwork)
  /\ \A k \in Queued : Distinct(queries[k])
  /\ \A r \in Requests : Contains(toNetwork, r) =>
       stage[r] \notin {"new", "chosen"}
  /\ \A k \in Queued : \A r \in Requests : Contains(queries[k], r) =>
       Kind[r] = k /\ stage[r] \notin {"new", "chosen"} /\ ~Contains(toNetwork, r)

\* The requests whose ids are, or were, in the request buffer.
Tracked(r) ==
  /\ Kind[r] # "untracked"
  /\ \/ stage[r] \in {"sent", "polling", "sleeping"}
     \/ stage[r] = "done" /\ outcome[r] # "overflow"

\* The ids given out are the first ones, each to one request.
IdsInv ==
  /\ tracked = 1 .. current
  /\ \A r \in Requests : Tracked(r) => id[r] \in tracked
  /\ \A r, q \in Requests : Tracked(r) /\ Tracked(q) /\ id[r] = id[q] => r = q
  /\ \A r \in Requests : stage[r] = "chosen" => id[r] = NextId(current)
  /\ \A r, q \in Requests : stage[r] = "chosen" /\ stage[q] = "chosen" => r = q
  /\ \A r \in Requests : Kind[r] = "untracked" => stage[r] \in {"new", "chosen", "done"}

Waits(i) == \E k \in Queued : Contains(fifo[k], i)
OnWay(i) == \E n \in 1 .. Len(toApp) : toApp[n].id = i
Kept(i) == buffer[i] # NoAnswer

\* r has the id i, and the loop has handled it.
Owner(r, i) == Tracked(r) /\ id[r] = i /\ ~Contains(toNetwork, r)

\* An id that waits, is on its way or is kept belongs to a request the loop has
\* handled, and is at one of the three places, once.
PlaceInv ==
  /\ \A r \in Requests : Contains(toNetwork, r) /\ Kind[r] # "untracked" => Tracked(r)
  /\ \A k \in Queued : Distinct(fifo[k])
  /\ \A m, n \in 1 .. Len(toApp) : toApp[m].id = toApp[n].id => m = n
  /\ \A k \in Queued : \A i \in Ids : Contains(fifo[k], i) =>
       \E r \in Requests : Owner(r, i) /\ Kind[r] = k
  /\ \A i \in Ids : OnWay(i) \/ Kept(i) =>
       ~Waits(i) /\ \E r \in Requests : Owner(r, i)
  /\ \A i \in Ids : ~(OnWay(i) /\ Kept(i))

\* The n-th id of a queue is that of the n-th query, and every answer goes by
\* the id of the request it is about.
PairQueues ==
  \A k \in Queued : \A n \in 1 .. Len(fifo[k]) :
    Tracked(queries[k][n]) /\ fifo[k][n] = id[queries[k][n]]
PairChannel ==
  \A n \in 1 .. Len(toApp) : Tracked(toApp[n].about) /\ toApp[n].id = id[toApp[n].about]
PairBuffer ==
  \A i \in Ids : Kept(i) => Tracked(buffer[i]) /\ id[buffer[i]] = i
PairInv == PairQueues /\ PairChannel /\ PairBuffer

\* The response task comes before r in the order of the mutex.
Ahead(r) ==
  \E m, n \in 1 .. Len(mutex) : m < n /\ mutex[m] = Responder /\ mutex[n] = r

\* One place of the channel that is stored before r looks for its answer.
Bonus(r) == IF stage[r] = "sleeping" \/ Ahead(r) THEN 1 ELSE 0

\* A poller whose answer is there reads it within the trials that are left.
InTime(r) ==
  \/ Kept(id[r])
  \/ \E p \in 1 .. Len(toApp) :
       toApp[p].id = id[r] /\ p + trials[r] <= Cardinality(Requests) + Bonus(r)

PollersInTime ==
  \A r \in Requests : ready[r] /\ stage[r] \in {"polling", "sleeping"} => InTime(r)

TrialsInv ==
  /\ \A r \in Requests : stage[r] # "done" => outcome[r] = "pending"
  /\ \A r \in Requests : stage[r] \in {"new", "chosen", "sent"} => trials[r] = 0
  /\ PollersInTime

-----------------------------------------------------------------------------
(* Sequences: what a push, a pop and a removal do to their elements *)

LEMMA AppendFacts ==
  ASSUME NEW S, NEW s \in Seq(S), NEW e \in S
  PROVE  /\ Append(s, e) \in Seq(S)
         /\ Append(s, e) # <<>>
         /\ Len(Append(s, e)) = Len(s) + 1
         /\ \A n \in 1 .. Len(s) : Append(s, e)[n] = s[n]
         /\ Append(s, e)[Len(s) + 1] = e
         /\ \A x : Contains(Append(s, e), x) <=> Contains(s, x) \/ x = e
         /\ Distinct(s) /\ ~Contains(s, e) => Distinct(Append(s, e))
<1>1. /\ Append(s, e) \in Seq(S)
      /\ Append(s, e) # <<>>
      /\ Len(Append(s, e)) = Len(s) + 1
      /\ \A n \in 1 .. Len(s) : Append(s, e)[n] = s[n]
      /\ Append(s, e)[Len(s) + 1] = e
      /\ Len(s) \in Nat
  OBVIOUS
<1>2. \A n \in 1 .. Len(s) + 1 : n \in 1 .. Len(s) \/ n = Len(s) + 1
  BY <1>1
<1>3. \A x : Contains(Append(s, e), x) <=> Contains(s, x) \/ x = e
  BY <1>1, <1>2 DEF Contains
<1>4. Distinct(s) /\ ~Contains(s, e) => Distinct(Append(s, e))
  BY <1>1, <1>2 DEF Distinct, Contains
<1> QED
  BY <1>1, <1>3, <1>4

LEMMA TailFacts ==
  ASSUME NEW S, NEW s \in Seq(S), s # <<>>
  PROVE  /\ Tail(s) \in Seq(S)
         /\ Len(s) \in Nat \ {0}
         /\ Len(Tail(s)) = Len(s) - 1
         /\ Head(s) = s[1] /\ Head(s) \in S
         /\ \A n \in 1 .. Len(s) - 1 : Tail(s)[n] = s[n + 1]
         /\ Contains(s, Head(s))
         /\ \A x : Contains(Tail(s), x) => Contains(s, x)
         /\ \A x : Contains(s, x) => x = Head(s) \/ Contains(Tail(s), x)
         /\ Distinct(s) => Distinct(Tail(s)) /\ ~Contains(Tail(s), Head(s))
<1>1. /\ Tail(s) \in Seq(S)
      /\ Len(s) \in Nat \ {0}
      /\ Len(Tail(s)) = Len(s) - 1
      /\ Head(s) = s[1] /\ Head(s) \in S
      /\ \A n \in 1 .. Len(s) - 1 : Tail(s)[n] = s[n + 1]
  OBVIOUS
<1>2. Contains(s, Head(s))
  BY <1>1 DEF Contains
<1>3. \A n \in 1 .. Len(s) - 1 : n + 1 \in 1 .. Len(s)
  BY <1>1
<1>4. \A n \in 1 .. Len(s) : n = 1 \/ n - 1 \in 1 .. Len(s) - 1
  BY <1>1
<1>5. \A x : Contains(Tail(s), x) => Contains(s, x)
  BY <1>1, <1>3 DEF Contains
<1>6. \A x : Contains(s, x) => x = Head(s) \/ Contains(Tail(s), x)
  <2> SUFFICES ASSUME NEW n \in 1 .. Len(s) PROVE s[n] = Head(s) \/ Contains(Tail(s), s[n])
    BY DEF Contains
  <2>1. CASE n = 1
    BY <2>1, <1>1
  <2>2. CASE n - 1 \in 1 .. Len(s) - 1
    <3>1. Tail(s)[n - 1] = s[n]
      BY <2>2, <1>1
    <3> QED
      BY <2>2, <3>1, <1>1 DEF Contains
  <2> QED
    BY <2>1, <2>2, <1>4
<1>7. Distinct(s) => Distinct(Tail(s)) /\ ~Contains(Tail(s), Head(s))
  <2> SUFFICES ASSUME Distinct(s) PROVE Distinct(Tail(s)) /\ ~Contains(Tail(s), Head(s))
    OBVIOUS
  <2>1. ASSUME NEW m \in 1 .. Len(s) - 1, NEW n \in 1 .. Len(s) - 1, s[m + 1] = s[n + 1]
        PROVE  m = n
    <3>1. m + 1 = n + 1
      BY <2>1, <1>3 DEF Distinct
    <3> QED
      BY <3>1
  <2>2. Distinct(Tail(s))
    BY <2>1, <1>1 DEF Distinct
  <2>3. ASSUME NEW n \in 1 .. Len(s) - 1, s[n + 1] = s[1] PROVE FALSE
    <3>1. n + 1 = 1
      BY <2>3, <1>1, <1>3 DEF Distinct
    <3> QED
      BY <3>1
  <2> QED
    BY <2>2, <2>3, <1>1 DEF Contains
<1> QED
  BY <1>1, <1>2, <1>5, <1>6, <1>7

LEMMA RemoveFacts ==
  ASSUME NEW S, NEW s \in Seq(S), NEW i \in 1 .. Len(s)
  PROVE  /\ RemoveAt(s, i) \in Seq(S)
         /\ Len(RemoveAt(s, i)) = Len(s) - 1
         /\ \A n \in 1 .. Len(s) - 1 :
              RemoveAt(s, i)[n] = IF n < i THEN s[n] ELSE s[n + 1]
         /\ \A x : Contains(RemoveAt(s, i), x) => Contains(s, x)
         /\ Distinct(s) => Distinct(RemoveAt(s, i))
<1> DEFINE t == RemoveAt(s, i)
<1>1. Len(s) \in Nat /\ i \in Int /\ 1 <= i /\ i <= Len(s)
  OBVIOUS
<1>2. /\ SubSeq(s, 1, i - 1) \in Seq(S)
      /\ Len(SubSeq(s, 1, i - 1)) = i - 1
      /\ \A n \in 1 .. i - 1 : SubSeq(s, 1, i - 1)[n] = s[n]
  <2>1. \A n \in 1 .. i - 1 : s[n] \in S
    BY <1>1, ElementOfSeq
  <2>2. i - 1 = 0 \/ i - 1 \in 1 .. Len(s)
    BY <1>1
  <2> QED
    BY <1>1, <2>1, <2>2, SubSeqProperties
<1>3. /\ SubSeq(s, i + 1, Len(s)) \in Seq(S)
      /\ Len(SubSeq(s, i + 1, Len(s))) = Len(s) - i
      /\ \A n \in 1 .. Len(s) - i : SubSeq(s, i + 1, Len(s))[n] = s[i + n]
  BY <1>1, SubSeqProperties
<1> DEFINE a == SubSeq(s, 1, i - 1)
           b == SubSeq(s, i + 1, Len(s))
<1>0. t = a \o b
  BY DEF RemoveAt
<1> HIDE DEF a, b, t
<1>9. a \in Seq(S) /\ b \in Seq(S) /\ Len(a) = i - 1 /\ Len(b) = Len(s) - i
  BY <1>2, <1>3 DEF a, b
<1>4. t \in Seq(S) /\ Len(t) = Len(s) - 1
  <2>1. t \in Seq(S) /\ Len(t) = Len(a) + Len(b)
    BY <1>0, <1>9, ConcatProperties
  <2> QED
    BY <2>1, <1>1, <1>9
<1>5. \A n \in 1 .. Len(s) - 1 : t[n] = IF n < i THEN s[n] ELSE s[n + 1]
  <2> SUFFICES ASSUME NEW n \in 1 .. Len(s) - 1
               PROVE  t[n] = IF n < i THEN s[n] ELSE s[n + 1]
    OBVIOUS
  <2>2. n \in 1 .. Len(a) + Len(b)
    BY <1>1, <1>9
  <2>3. t[n] = IF n <= Len(a) THEN a[n] ELSE b[n - Len(a)]
    BY <1>0, <1>9, <2>2, ConcatProperties
  <2>4. CASE n < i
    <3>1. n \in 1 .. i - 1
      BY <2>4, <1>1
    <3> QED
      BY <1>9, <2>3, <2>4, <3>1, <1>1, <1>2 DEF a
  <2>5. CASE ~(n < i)
    <3>1. n - (i - 1) \in 1 .. Len(s) - i
      BY <2>5, <1>1
    <3>2. b[n - (i - 1)] = s[i + (n - (i - 1))]
      BY <3>1, <1>3 DEF b
    <3> QED
      BY <1>9, <2>3, <2>5, <3>2, <1>1
  <2> QED
    BY <2>4, <2>5
<1>6. \A n \in 1 .. Len(s) - 1 : n \in 1 .. Len(s) /\ n + 1 \in 1 .. Len(s)
  BY <1>1
<1>7. \A x : Contains(t, x) => Contains(s, x)
  BY <1>4, <1>5, <1>6 DEF Contains
<1>8. Distinct(s) => Distinct(t)
  <2> SUFFICES ASSUME Distinct(s), NEW m \in 1 .. Len(s) - 1, NEW n \in 1 .. Len(s) - 1,
                      t[m] = t[n]
               PROVE  m = n
    BY <1>4 DEF Distinct
  <2> DEFINE at(j) == IF j < i THEN j ELSE j + 1
  <2>1. at(m) \in 1 .. Len(s) /\ at(n) \in 1 .. Len(s)
    BY <1>6
  <2>2. s[at(m)] = s[at(n)]
    BY <1>5
  <2>3. at(m) = at(n)
    BY <2>1, <2>2 DEF Distinct
  <2> QED
    BY <2>3, <1>1
<1> QED
  BY <1>4, <1>5, <1>7, <1>8 DEF t

-----------------------------------------------------------------------------
(* Type correctness, and the order of the mutex *)

USE RequestsAssumption, SizesAssumption, OrderAssumption

LEMMA NextIdType == ASSUME NEW i \in Ids PROVE NextId(i) \in Ids
BY DEF NextId, Ids

LEMMA EnqueueFacts ==
  ASSUME NEW q \in Seq(Ids), NEW i \in Ids
  PROVE  /\ Enqueue(q, i) \in Seq(Ids)
         /\ \A x : Contains(Enqueue(q, i), x) => Contains(q, x) \/ x = i
         /\ Distinct(q) /\ ~Contains(q, i) => Distinct(Enqueue(q, i))
         /\ Len(q) < QueueMax => Enqueue(q, i) = Append(q, i)
<1>1. CASE Len(q) >= QueueMax
  <2>1. q # <<>>
    BY <1>1
  <2>2. Tail(q) \in Seq(Ids)
    BY <2>1, TailFacts
  <2>3. Enqueue(q, i) = Append(Tail(q), i)
    BY <1>1 DEF Enqueue
  <2> DEFINE t == Tail(q)
  <2>4. /\ Append(t, i) \in Seq(Ids)
        /\ \A x : Contains(Append(t, i), x) <=> Contains(t, x) \/ x = i
        /\ Distinct(t) /\ ~Contains(t, i) => Distinct(Append(t, i))
    <3>1. t \in Seq(Ids)
      BY <2>2
    <3> HIDE DEF t
    <3> QED
      BY <3>1, AppendFacts
  <2>5. /\ \A x : Contains(Tail(q), x) => Contains(q, x)
        /\ Distinct(q) => Distinct(Tail(q))
    BY <2>1, TailFacts
  <2> QED
    BY <2>3, <2>4, <2>5, <1>1
<1>2. CASE ~(Len(q) >= QueueMax)
  <2>1. Enqueue(q, i) = Append(q, i)
    BY <1>2 DEF Enqueue
  <2> QED
    BY <2>1, AppendFacts
<1> QED
  BY <1>1, <1>2

\* An event takes the oldest id of its kind, if there is one.
LEMMA AnsweredFacts ==
  ASSUME TypeOK, NEW r \in Requests, Kind[r] \in Queued, Answered(r)
  PROVE  /\ toApp' \in Seq(Answer) /\ fifo' \in [Queued -> Seq(Ids)]
         /\ \A k \in Queued \ {Kind[r]} : fifo'[k] = fifo[k]
         /\ fifo[Kind[r]] = <<>> => toApp' = toApp /\ fifo' = fifo
         /\ fifo[Kind[r]] # <<>> =>
              /\ fifo'[Kind[r]] = Tail(fifo[Kind[r]])
              /\ Head(fifo[Kind[r]]) \in Ids
              /\ toApp' = Append(toApp, [id |-> Head(fifo[Kind[r]]), about |-> r])
<1> DEFINE k == Kind[r]
           a == [id |-> Head(fifo[k]), about |-> r]
<1>1. fifo \in [Queued -> Seq(Ids)] /\ toApp \in Seq(Answer) /\ fifo[k] \in Seq(Ids)
  BY DEF TypeOK
<1>2. /\ toApp' = IF fifo[k] = <<>> THEN toApp ELSE Append(toApp, a)
      /\ fifo' = [fifo EXCEPT ![k] = IF @ = <<>> THEN @ ELSE Tail(@)]
  BY DEF Answered
<1>3. CASE fifo[k] = <<>>
  <2>1. fifo' = fifo
    BY <1>1, <1>2, <1>3
  <2> QED
    BY <1>1, <1>2, <1>3, <2>1
<1>4. CASE fifo[k] # <<>>
  <2>1. Tail(fifo[k]) \in Seq(Ids) /\ Head(fifo[k]) \in Ids
    BY <1>1, <1>4, TailFacts
  <2>2. a \in Answer
    BY <2>1 DEF Answer
  <2>3. toApp' = Append(toApp, a) /\ fifo' = [fifo EXCEPT ![k] = Tail(fifo[k])]
    BY <1>1, <1>2, <1>4
  <2>4. toApp' \in Seq(Answer)
    <3> HIDE DEF a
    <3> QED
      BY <1>1, <2>2, <2>3, AppendFacts
  <2> QED
    BY <1>1, <1>4, <2>1, <2>3, <2>4
<1> QED
  BY <1>3, <1>4

LEMMA RespondFacts ==
  ASSUME TypeOK, MutexInv, StoreResponse
  PROVE  /\ mutex # <<>> /\ Head(mutex) = Responder
         /\ toApp # <<>> /\ Head(toApp) \in Answer
         /\ Head(toApp).id \in Ids /\ Head(toApp).about \in Requests
         /\ toApp' = Tail(toApp) /\ mutex' = Tail(mutex)
<1>1. mutex # <<>> /\ Head(mutex) = Responder /\ toApp' = Tail(toApp) /\ mutex' = Tail(mutex)
  BY DEF StoreResponse, Holds
<1>2. mutex \in Seq(Requests \cup {Responder}) /\ toApp \in Seq(Answer)
  BY DEF TypeOK
<1>3. Contains(mutex, Responder)
  BY <1>1, <1>2, TailFacts
<1>4. toApp # <<>>
  BY <1>3 DEF MutexInv
<1>5. Head(toApp) \in Answer
  BY <1>2, <1>4, TailFacts
<1> QED
  BY <1>1, <1>4, <1>5 DEF Answer

LEMMA TypeStep == TypeOK /\ MutexInv /\ [Next]_vars => TypeOK'
<1> SUFFICES ASSUME TypeOK, MutexInv, [Next]_vars PROVE TypeOK'
  OBVIOUS
<1> USE DEF sending, network
<1>1. ASSUME NEW r \in Requests, ChooseId(r) PROVE TypeOK'
  BY <1>1, NextIdType DEF TypeOK, ChooseId, Stages
<1>2. ASSUME NEW r \in Requests, RejectRequest(r) PROVE TypeOK'
  BY <1>2 DEF TypeOK, RejectRequest, Stages, Outcomes, Failures
<1>3. ASSUME NEW r \in Requests, SendTracked(r) PROVE TypeOK'
  BY <1>3, AppendFacts DEF TypeOK, SendTracked, Stages
<1>4. ASSUME NEW r \in Requests, SendUntracked(r) PROVE TypeOK'
  BY <1>4, AppendFacts DEF TypeOK, SendUntracked, Stages, Outcomes, Failures
<1>5. ASSUME NEW r \in Requests, QueryEnds(r) PROVE TypeOK'
  <2>1. toApp' \in Seq(Answer) /\ fifo' \in [Queued -> Seq(Ids)]
    BY <1>5, AnsweredFacts DEF QueryEnds
  <2>2. PICK i \in Reportable(r) : queries' = [queries EXCEPT ![Kind[r]] = RemoveAt(@, i)]
    BY <1>5 DEF QueryEnds
  <2>3. Kind[r] \in Queued /\ queries[Kind[r]] \in Seq(Requests) /\ i \in 1 .. Len(queries[Kind[r]])
    BY <1>5, <2>2 DEF QueryEnds, Reportable, TypeOK
  <2>4. RemoveAt(queries[Kind[r]], i) \in Seq(Requests)
    BY <2>3, RemoveFacts
  <2>5. queries' \in [Queued -> Seq(Requests)]
    BY <2>2, <2>3, <2>4 DEF TypeOK
  <2> QED
    BY <1>5, <2>1, <2>5 DEF TypeOK, QueryEnds
<1>6. ASSUME NEW r \in Requests, QueryFinds(r) PROVE TypeOK'
  <2>1. toApp' \in Seq(Answer) /\ fifo' \in [Queued -> Seq(Ids)]
    BY <1>6, AnsweredFacts DEF QueryFinds
  <2>2. found' \in [Requests -> 0 .. MaxFound]
    BY <1>6 DEF TypeOK, QueryFinds
  <2> QED
    BY <1>6, <2>1, <2>2 DEF TypeOK, QueryFinds
<1>7. ASSUME NEW r \in Requests, StartPolling(r) PROVE TypeOK'
  <2>1. mutex' \in Seq(Requests \cup {Responder})
    BY <1>7, AppendFacts DEF TypeOK, StartPolling
  <2>2. ready' \in [Requests -> BOOLEAN]
    <3>1. AnswerUnderWay(r) \in BOOLEAN
      BY DEF AnswerUnderWay
    <3> QED
      BY <1>7, <3>1 DEF TypeOK, StartPolling
  <2> QED
    BY <1>7, <2>1, <2>2 DEF TypeOK, StartPolling, Stages
<1>8. ASSUME NEW r \in Requests, TakeAnswer(r) PROVE TypeOK'
  <2>1. buffer[id[r]] \in Requests
    BY <1>8 DEF TypeOK, TakeAnswer, About
  <2>2. mutex' \in Seq(Requests \cup {Responder})
    BY <1>8, TailFacts DEF TypeOK, TakeAnswer, Holds
  <2> QED
    BY <1>8, <2>1, <2>2 DEF TypeOK, TakeAnswer, Stages, Outcomes, About
<1>9. ASSUME NEW r \in Requests, Sleep(r) PROVE TypeOK'
  BY <1>9 DEF TypeOK, Sleep, Stages, MayTryAgain
<1>10. ASSUME NEW r \in Requests, Wake(r) PROVE TypeOK'
  <2>1. Tail(mutex) \in Seq(Requests \cup {Responder})
    BY <1>10, TailFacts DEF TypeOK, MutexInv, Wake, Holds
  <2>2. mutex' \in Seq(Requests \cup {Responder})
    BY <1>10, <2>1, AppendFacts DEF Wake
  <2> QED
    BY <1>10, <2>2 DEF TypeOK, Wake, Stages
<1>11. ASSUME NEW r \in Requests, GiveUp(r) PROVE TypeOK'
  <2>1. mutex' \in Seq(Requests \cup {Responder})
    BY <1>11, TailFacts DEF TypeOK, GiveUp, Holds
  <2> QED
    BY <1>11, <2>1 DEF TypeOK, GiveUp, Stages, Outcomes, Failures
<1>12. ASSUME HandleRequest PROVE TypeOK'
  <2> DEFINE r == Head(toNetwork)
             a == [id |-> id[r], about |-> r]
  <2>1. r \in Requests /\ Tail(toNetwork) \in Seq(Requests) /\ id[r] \in Ids
    BY <1>12, TailFacts DEF TypeOK, HandleRequest
  <2>2. toApp' \in Seq(Answer)
    <3>1. a \in Answer
      BY <2>1 DEF Answer
    <3>2. toApp' = toApp \/ toApp' = Append(toApp, a)
      BY <1>12 DEF HandleRequest
    <3>3. toApp \in Seq(Answer)
      BY DEF TypeOK
    <3> HIDE DEF a
    <3>4. Append(toApp, a) \in Seq(Answer)
      BY <3>1, <3>3, AppendFacts
    <3> QED
      BY <3>2, <3>3, <3>4
  <2>3. queries' \in [Queued -> Seq(Requests)] /\ fifo' \in [Queued -> Seq(Ids)]
    <3> HIDE DEF r
    <3>1. CASE Kind[r] \in Queued
      <4>1. /\ queries' = [queries EXCEPT ![Kind[r]] = Append(@, r)]
            /\ fifo' = [fifo EXCEPT ![Kind[r]] = Enqueue(@, id[r])]
        BY <1>12, <3>1 DEF HandleRequest, r
      <4>2. Append(queries[Kind[r]], r) \in Seq(Requests)
        BY <2>1, <3>1, AppendFacts DEF TypeOK
      <4>3. Enqueue(fifo[Kind[r]], id[r]) \in Seq(Ids)
        BY <2>1, <3>1, EnqueueFacts DEF TypeOK
      <4> QED
        BY <4>1, <4>2, <4>3 DEF TypeOK
    <3>2. CASE Kind[r] \notin Queued
      BY <1>12, <3>2 DEF HandleRequest, TypeOK, r
    <3> QED
      BY <3>1, <3>2
  <2> QED
    BY <1>12, <2>1, <2>2, <2>3 DEF TypeOK, HandleRequest
<1>13. ASSUME Respond PROVE TypeOK'
  BY <1>13, AppendFacts DEF TypeOK, Respond
<1>14. ASSUME StoreResponse PROVE TypeOK'
  <2>1. /\ mutex # <<>> /\ toApp # <<>>
        /\ toApp' = Tail(toApp) /\ mutex' = Tail(mutex)
        /\ Head(toApp).id \in Ids /\ Head(toApp).about \in About
    BY <1>14, RespondFacts DEF About
  <2>2. mutex' \in Seq(Requests \cup {Responder})
    BY <2>1, TailFacts DEF TypeOK
  <2>3. toApp' \in Seq(Answer)
    BY <2>1, TailFacts DEF TypeOK
  <2> QED
    BY <1>14, <2>1, <2>2, <2>3 DEF TypeOK, StoreResponse
<1>15. CASE UNCHANGED vars
  BY <1>15 DEF TypeOK, vars
<1> QED
  BY <1>1, <1>2, <1>3, <1>4, <1>5, <1>6, <1>7, <1>8, <1>9, <1>10, <1>11, <1>12, <1>13,
     <1>14, <1>15 DEF Next

LEMMA ResponderIsNoRequest == Responder \notin Requests
BY DEF Responder

\* The holder of the mutex leaves it.
LEMMA LeaveFacts ==
  ASSUME TypeOK, MutexInv, NEW t \in Requests \cup {Responder}, Holds(t),
         mutex' = Tail(mutex)
  PROVE  /\ Distinct(mutex')
         /\ \A u \in Requests \cup {Responder} :
              Contains(mutex', u) <=> Contains(mutex, u) /\ u # t
<1>1. mutex \in Seq(Requests \cup {Responder}) /\ mutex # <<>> /\ Head(mutex) = t
  BY DEF TypeOK, Holds
<1>2. Distinct(mutex)
  BY DEF MutexInv
<1>3. Distinct(Tail(mutex)) /\ ~Contains(Tail(mutex), Head(mutex))
  BY <1>1, <1>2, TailFacts
<1>4. /\ \A x : Contains(Tail(mutex), x) => Contains(mutex, x)
      /\ \A x : Contains(mutex, x) => x = Head(mutex) \/ Contains(Tail(mutex), x)
  BY <1>1, TailFacts
<1> QED
  BY <1>1, <1>3, <1>4

\* Someone who is not there joins the queue for the mutex.
LEMMA JoinFacts ==
  ASSUME TypeOK, MutexInv, NEW t \in Requests \cup {Responder}, ~Contains(mutex, t),
         mutex' = Append(mutex, t)
  PROVE  /\ Distinct(mutex')
         /\ \A u \in Requests \cup {Responder} :
              Contains(mutex', u) <=> Contains(mutex, u) \/ u = t
         /\ mutex # <<>> => mutex' # <<>> /\ Head(mutex') = Head(mutex)
<1>1. mutex \in Seq(Requests \cup {Responder}) /\ Distinct(mutex)
  BY DEF TypeOK, MutexInv
<1>2. /\ \A x : Contains(Append(mutex, t), x) <=> Contains(mutex, x) \/ x = t
      /\ Distinct(Append(mutex, t))
  <2> DEFINE S == Requests \cup {Responder}
  <2>1. mutex \in Seq(S) /\ t \in S
    BY <1>1
  <2> HIDE DEF S
  <2> QED
    BY <1>1, <2>1, AppendFacts
<1>3. mutex # <<>> => mutex' # <<>> /\ Head(mutex') = Head(mutex)
  BY <1>1
<1> QED
  BY <1>2, <1>3

LEMMA MutexStep == TypeOK /\ MutexInv /\ [Next]_vars => MutexInv'
<1> SUFFICES ASSUME TypeOK, MutexInv, [Next]_vars PROVE MutexInv'
  OBVIOUS
<1> USE DEF sending, network
<1>0. stage \in [Requests -> Stages] /\ mutex \in Seq(Requests \cup {Responder})
  BY DEF TypeOK
<1>a. ASSUME UNCHANGED <<mutex, toApp>>, NEW r \in Requests, NEW s \in Stages,
             stage' = [stage EXCEPT ![r] = s],
             {stage[r], s} \cap {"polling", "sleeping"} = {}
      PROVE  MutexInv'
  BY <1>0, <1>a DEF MutexInv, Holds
<1>1. ASSUME NEW r \in Requests, ChooseId(r) PROVE MutexInv'
  BY <1>a, <1>1 DEF ChooseId, Stages
<1>2. ASSUME NEW r \in Requests, RejectRequest(r) PROVE MutexInv'
  BY <1>a, <1>2 DEF RejectRequest, Stages
<1>3. ASSUME NEW r \in Requests, SendTracked(r) PROVE MutexInv'
  BY <1>a, <1>3 DEF SendTracked, Stages
<1>4. ASSUME NEW r \in Requests, SendUntracked(r) PROVE MutexInv'
  BY <1>a, <1>4 DEF SendUntracked, Stages
<1>b. ASSUME UNCHANGED <<mutex, stage>>, toApp # <<>> => toApp' # <<>>
      PROVE  MutexInv'
  BY <1>b DEF MutexInv, Holds
<1>c. ASSUME NEW r \in Requests, Kind[r] \in Queued, Answered(r), toApp # <<>>
      PROVE  toApp' # <<>>
  <2> DEFINE a == [id |-> Head(fifo[Kind[r]]), about |-> r]
  <2>1. toApp' = toApp \/ (a \in Answer /\ toApp' = Append(toApp, a))
    BY <1>c, AnsweredFacts DEF Answer
  <2> HIDE DEF a
  <2>2. ASSUME a \in Answer PROVE Append(toApp, a) # <<>>
    <3>1. toApp \in Seq(Answer)
      BY DEF TypeOK
    <3> QED
      BY <2>2, <3>1, AppendFacts
  <2> QED
    BY <1>c, <2>1, <2>2
<1>5. ASSUME NEW r \in Requests, QueryEnds(r) PROVE MutexInv'
  BY <1>b, <1>c, <1>5 DEF QueryEnds
<1>6. ASSUME NEW r \in Requests, QueryFinds(r) PROVE MutexInv'
  BY <1>b, <1>c, <1>6 DEF QueryFinds
<1>7. ASSUME NEW r \in Requests, StartPolling(r) PROVE MutexInv'
  <2>1. /\ stage[r] = "sent" /\ stage' = [stage EXCEPT ![r] = "polling"]
        /\ mutex' = Append(mutex, r) /\ toApp' = toApp
    BY <1>7 DEF StartPolling
  <2>2. ~Contains(mutex, r)
    BY <2>1 DEF MutexInv
  <2>3. /\ Distinct(mutex')
        /\ \A u \in Requests \cup {Responder} :
             Contains(mutex', u) <=> Contains(mutex, u) \/ u = r
        /\ mutex # <<>> => mutex' # <<>> /\ Head(mutex') = Head(mutex)
    BY <2>1, <2>2, JoinFacts
  <2> QED
    BY <1>0, <2>1, <2>3, ResponderIsNoRequest DEF MutexInv, Holds
<1>d. ASSUME NEW r \in Requests, stage[r] = "polling", Holds(r), mutex' = Tail(mutex),
             stage' = [stage EXCEPT ![r] = "done"], toApp' = toApp
      PROVE  MutexInv'
  <2>1. /\ Distinct(mutex')
        /\ \A u \in Requests \cup {Responder} :
             Contains(mutex', u) <=> Contains(mutex, u) /\ u # r
    BY <1>d, LeaveFacts
  <2>2. \A q \in Requests : stage[q] # "sleeping"
    BY <1>d DEF MutexInv, Holds
  <2> QED
    BY <1>0, <1>d, <2>1, <2>2 DEF MutexInv, Holds
<1>8. ASSUME NEW r \in Requests, TakeAnswer(r) PROVE MutexInv'
  BY <1>d, <1>8 DEF TakeAnswer
<1>9. ASSUME NEW r \in Requests, Sleep(r) PROVE MutexInv'
  BY <1>0, <1>9 DEF Sleep, MutexInv, Holds
<1>10. ASSUME NEW r \in Requests, Wake(r) PROVE MutexInv'
  <2>1. /\ stage[r] = "sleeping" /\ stage' = [stage EXCEPT ![r] = "polling"]
        /\ mutex' = Append(Tail(mutex), r) /\ toApp' = toApp
        /\ mutex # <<>> /\ Head(mutex) = r /\ Distinct(mutex)
    BY <1>10 DEF Wake, MutexInv, Holds
  <2> DEFINE t == Tail(mutex)
  <2>2. /\ t \in Seq(Requests \cup {Responder}) /\ Distinct(t) /\ ~Contains(t, r)
        /\ \A x : Contains(t, x) => Contains(mutex, x)
        /\ \A x : Contains(mutex, x) => x = r \/ Contains(t, x)
        /\ Contains(mutex, r)
    <3> DEFINE S == Requests \cup {Responder}
    <3>1. mutex \in Seq(S)
      BY <1>0
    <3> HIDE DEF S
    <3>2. t \in Seq(S)
      BY <2>1, <3>1, TailFacts
    <3>3. Distinct(t) /\ ~Contains(t, r) /\ Contains(mutex, r)
      BY <2>1, <3>1, TailFacts
    <3>4. \A x : Contains(t, x) => Contains(mutex, x)
      BY <2>1, <3>1, TailFacts
    <3>5. \A x : Contains(mutex, x) => x = r \/ Contains(t, x)
      BY <2>1, <3>1, TailFacts
    <3> QED
      BY <3>2, <3>3, <3>4, <3>5 DEF S
  <2>3. mutex' = Append(t, r)
    BY <2>1
  <2> HIDE DEF t
  <2>4. /\ \A x : Contains(Append(t, r), x) <=> Contains(t, x) \/ x = r
        /\ Distinct(Append(t, r))
    BY <2>2, AppendFacts
  <2>5. \A x : Contains(mutex', x) <=> Contains(mutex, x)
    BY <2>2, <2>3, <2>4
  <2>6. \A q \in Requests : stage'[q] # "sleeping"
    BY <1>0, <2>1 DEF MutexInv, Holds
  <2> QED
    BY <1>0, <2>1, <2>3, <2>4, <2>5, <2>6 DEF MutexInv, Holds
<1>11. ASSUME NEW r \in Requests, GiveUp(r) PROVE MutexInv'
  BY <1>d, <1>11 DEF GiveUp
<1>12. ASSUME HandleRequest PROVE MutexInv'
  <2> DEFINE a == [id |-> id[Head(toNetwork)], about |-> Head(toNetwork)]
  <2>1. toApp # <<>> => toApp' # <<>>
    <3>1. toApp' = toApp \/ toApp' = Append(toApp, a)
      BY <1>12 DEF HandleRequest
    <3>2. a \in Answer
      BY <1>12, TailFacts DEF HandleRequest, TypeOK, Answer
    <3> HIDE DEF a
    <3>3. toApp \in Seq(Answer)
      BY DEF TypeOK
    <3>4. Append(toApp, a) # <<>>
      BY <3>2, <3>3, AppendFacts
    <3> QED
      BY <3>1, <3>4
  <2> QED
    BY <1>b, <1>12, <2>1 DEF HandleRequest
<1>13. ASSUME Respond PROVE MutexInv'
  <2>1. /\ Distinct(mutex')
        /\ \A u \in Requests \cup {Responder} :
             Contains(mutex', u) <=> Contains(mutex, u) \/ u = Responder
        /\ mutex # <<>> => mutex' # <<>> /\ Head(mutex') = Head(mutex)
    BY <1>13, JoinFacts DEF Respond
  <2> QED
    BY <1>13, <2>1, ResponderIsNoRequest DEF Respond, MutexInv, Holds
<1>14. ASSUME StoreResponse PROVE MutexInv'
  <2>1. Holds(Responder) /\ mutex' = Tail(mutex) /\ stage' = stage
    BY <1>14 DEF StoreResponse
  <2>2. /\ Distinct(mutex')
        /\ \A u \in Requests \cup {Responder} :
             Contains(mutex', u) <=> Contains(mutex, u) /\ u # Responder
    BY <2>1, LeaveFacts
  <2>3. \A q \in Requests : stage[q] # "sleeping"
    BY <2>1, ResponderIsNoRequest DEF MutexInv, Holds
  <2> QED
    BY <2>1, <2>2, <2>3, ResponderIsNoRequest DEF MutexInv, Holds
<1>15. CASE UNCHANGED vars
  BY <1>b, <1>15 DEF vars
<1> QED
  BY <1>1, <1>2, <1>3, <1>4, <1>5, <1>6, <1>7, <1>8, <1>9, <1>10, <1>11, <1>12, <1>13,
     <1>14, <1>15 DEF Next

LEMMA TypeInit == Init => TypeOK /\ MutexInv
<1> SUFFICES ASSUME Init PROVE TypeOK /\ MutexInv
  OBVIOUS
<1>1. TypeOK
  BY DEF Init, TypeOK, Stages, Ids, Outcomes, About
<1>2. MutexInv
  BY DEF Init, MutexInv, Distinct, Contains
<1> QED
  BY <1>1, <1>2

\* The variables keep their types; in particular no poller tries more than
\* MaxTrials times, and the response task takes an answer only when there is one.
THEOREM TypeCorrect == Spec => [](TypeOK /\ MutexInv)
<1>1. TypeOK /\ MutexInv /\ [Next]_vars => TypeOK' /\ MutexInv'
  BY TypeStep, MutexStep
<1> QED
  BY <1>1, TypeInit, PTL DEF Spec

-----------------------------------------------------------------------------
(* Ids: UniqueIds *)

LEMMA TrackedSent ==
  ASSUME TypeOK, NEW r \in Requests, SendTracked(r)
  PROVE  ~Tracked(r) /\ \A q \in Requests : Tracked(q)' <=> Tracked(q) \/ q = r
BY DEF TypeOK, SendTracked, Tracked

LEMMA TrackedKept ==
  ASSUME TypeOK, [Next]_vars, \A r \in Requests : ~SendTracked(r)
  PROVE  \A q \in Requests : Tracked(q)' <=> Tracked(q)
<1> DEFINE Same == \A q \in Requests : Tracked(q)' <=> Tracked(q)
<1> USE DEF sending, network
<1>0. /\ stage \in [Requests -> Stages] /\ outcome \in [Requests -> Outcomes]
      /\ buffer \in [Ids -> About] /\ id \in [Requests -> Ids]
  BY DEF TypeOK
<1>1. ASSUME NEW r \in Requests, ChooseId(r) PROVE Same
  BY <1>0, <1>1 DEF ChooseId, Tracked
<1>2. ASSUME NEW r \in Requests, RejectRequest(r) PROVE Same
  BY <1>0, <1>2 DEF RejectRequest, Tracked
<1>3. ASSUME NEW r \in Requests, SendUntracked(r) PROVE Same
  BY <1>0, <1>3 DEF SendUntracked, Tracked
<1>4. ASSUME NEW r \in Requests, StartPolling(r) PROVE Same
  BY <1>0, <1>4 DEF StartPolling, Tracked
<1>5. ASSUME NEW r \in Requests, TakeAnswer(r) PROVE Same
  <2>1. buffer[id[r]] \in Requests
    BY <1>0, <1>5 DEF TakeAnswer, About
  <2>2. outcome'[r] # "overflow"
    BY <1>0, <1>5, <2>1 DEF TakeAnswer, Failures
  <2> QED
    BY <1>0, <1>5, <2>2 DEF TakeAnswer, Tracked
<1>6. ASSUME NEW r \in Requests, Sleep(r) PROVE Same
  BY <1>0, <1>6 DEF Sleep, Tracked
<1>7. ASSUME NEW r \in Requests, Wake(r) PROVE Same
  BY <1>0, <1>7 DEF Wake, Tracked
<1>8. ASSUME NEW r \in Requests, GiveUp(r) PROVE Same
  BY <1>0, <1>8 DEF GiveUp, Tracked
<1>9. ASSUME UNCHANGED <<stage, outcome>> PROVE Same
  BY <1>9 DEF Tracked
<1>10. ASSUME NEW r \in Requests, QueryEnds(r) \/ QueryFinds(r) PROVE Same
  BY <1>9, <1>10 DEF QueryEnds, QueryFinds
<1>11. ASSUME HandleRequest \/ Respond \/ StoreResponse \/ UNCHANGED vars PROVE Same
  BY <1>9, <1>11 DEF HandleRequest, Respond, StoreResponse, vars
<1> QED
  BY <1>1, <1>2, <1>3, <1>4, <1>5, <1>6, <1>7, <1>8, <1>10, <1>11 DEF Next

LEMMA IdsStep ==
  ASSUME EnoughIds, TypeOK, IdsInv, [Next]_vars
  PROVE  IdsInv'
<1> USE DEF sending, network
<1>0. stage \in [Requests -> Stages] /\ id \in [Requests -> Ids] /\ current \in Ids
  BY DEF TypeOK
<1>1. ASSUME NEW r \in Requests, ChooseId(r) PROVE IdsInv'
  <2>1. \A q \in Requests : ~SendTracked(q)
    BY <1>0, <1>1 DEF ChooseId, SendTracked, EnoughIds
  <2>2. \A q \in Requests : Tracked(q)' <=> Tracked(q)
    BY <1>1, <2>1, TrackedKept DEF Next
  <2>3. ~Tracked(r)
    BY <1>1 DEF ChooseId, Tracked
  <2> QED
    BY <1>0, <1>1, <2>2, <2>3 DEF ChooseId, IdsInv, EnoughIds
<1>2. ASSUME NEW r \in Requests, SendTracked(r) PROVE IdsInv'
  <2>1. ~Tracked(r) /\ \A q \in Requests : Tracked(q)' <=> Tracked(q) \/ q = r
    BY <1>2, TrackedSent
  <2>2. Cardinality(tracked) = current
    BY <1>0, FS_Interval DEF IdsInv, Ids
  <2>3. current + 1 < IdCount
    BY <1>0, <1>2, <2>2 DEF SendTracked, EnoughIds, Ids
  <2>4. NextId(current) = current + 1
    BY <1>0, <2>3 DEF NextId, Ids
  <2>5. id[r] = current + 1 /\ tracked' = tracked \cup {id[r]} /\ current' = id[r] /\ id' = id
    BY <1>2, <2>4 DEF SendTracked, IdsInv
  <2>6. tracked' = 1 .. current'
    BY <1>0, <2>5 DEF IdsInv, Ids
  <2>7. id[r] \notin tracked
    BY <1>0, <2>5 DEF IdsInv, Ids
  <2>8. stage' = [stage EXCEPT ![r] = "sent"] /\ stage[r] = "chosen" /\ Kind[r] # "untracked"
    BY <1>2 DEF SendTracked
  <2>9. \A q \in Requests : stage'[q] # "chosen"
    BY <1>0, <2>8 DEF IdsInv
  <2>10. \A q \in Requests : Kind[q] = "untracked" => stage'[q] \in {"new", "chosen", "done"}
    BY <1>0, <2>8 DEF IdsInv
  <2>11. \A q \in Requests : Tracked(q)' => id'[q] \in tracked'
    BY <2>1, <2>5 DEF IdsInv
  <2>12. \A p, q \in Requests : Tracked(p)' /\ Tracked(q)' /\ id'[p] = id'[q] => p = q
    BY <2>1, <2>5, <2>7 DEF IdsInv
  <2> QED
    BY <2>6, <2>9, <2>10, <2>11, <2>12 DEF IdsInv
<1>a. ASSUME UNCHANGED <<id, current, tracked>>, \A r \in Requests : ~SendTracked(r),
             \A r \in Requests : stage'[r] = "chosen" => stage[r] = "chosen",
             \A r \in Requests : stage[r] \in {"new", "chosen", "done"} =>
               stage'[r] \in {"new", "chosen", "done"} \/ Kind[r] # "untracked"
      PROVE  IdsInv'
  <2>1. \A q \in Requests : Tracked(q)' <=> Tracked(q)
    BY <1>a, TrackedKept
  <2> QED
    BY <1>a, <2>1 DEF IdsInv
<1>3. ASSUME NEW r \in Requests, NEW s \in {"polling", "sleeping", "done"},
             UNCHANGED <<id, current, tracked>>, stage' = [stage EXCEPT ![r] = s],
             stage[r] \in {"sent", "polling", "sleeping"} \/ s = "done",
             \A q \in Requests : ~SendTracked(q)
      PROVE  IdsInv'
  <2>1. \A q \in Requests : stage'[q] = "chosen" => stage[q] = "chosen"
    BY <1>0, <1>3
  <2>2. \A q \in Requests : stage[q] \in {"new", "chosen", "done"} =>
           stage'[q] \in {"new", "chosen", "done"} \/ Kind[q] # "untracked"
    BY <1>0, <1>3
  <2> QED
    BY <1>a, <1>3, <2>1, <2>2
<1>4. ASSUME NEW r \in Requests,
             \/ RejectRequest(r) \/ SendUntracked(r) \/ StartPolling(r) \/ TakeAnswer(r)
             \/ Sleep(r) \/ Wake(r) \/ GiveUp(r)
      PROVE  IdsInv'
  <2>1. PICK s \in {"polling", "sleeping", "done"} :
          /\ stage' = [stage EXCEPT ![r] = s]
          /\ stage[r] \in {"sent", "polling", "sleeping"} \/ s = "done"
    BY <1>4 DEF RejectRequest, SendUntracked, StartPolling, TakeAnswer, Sleep, Wake, GiveUp
  <2>2. UNCHANGED <<id, current, tracked>>
    BY <1>4 DEF RejectRequest, SendUntracked, StartPolling, TakeAnswer, Sleep, Wake, GiveUp
  <2>3. \A q \in Requests : ~SendTracked(q)
    BY <1>0, <2>1 DEF SendTracked
  <2> QED
    BY <1>3, <2>1, <2>2, <2>3
<1>5. ASSUME UNCHANGED <<stage, id, current, tracked>> PROVE IdsInv'
  <2>1. \A q \in Requests : ~SendTracked(q)
    BY <1>0, <1>5 DEF SendTracked
  <2> QED
    BY <1>a, <1>5, <2>1
<1>6. ASSUME NEW r \in Requests, QueryEnds(r) \/ QueryFinds(r) PROVE IdsInv'
  BY <1>5, <1>6 DEF QueryEnds, QueryFinds
<1>7. ASSUME HandleRequest \/ Respond \/ StoreResponse \/ UNCHANGED vars PROVE IdsInv'
  BY <1>5, <1>7 DEF HandleRequest, Respond, StoreResponse, vars
<1> QED
  BY <1>1, <1>2, <1>4, <1>6, <1>7 DEF Next

LEMMA IdsInit == Init => IdsInv
BY DEF Init, IdsInv, Tracked

\* When sends do not overlap and the buffer of requests has fewer places than
\* there are ids, no two requests that wait for an answer have the same id.
THEOREM UniqueIdsTheorem ==
  ASSUME EnoughIds
  PROVE  Spec => []UniqueIds
<1>1. TypeOK /\ MutexInv /\ IdsInv /\ [Next]_vars => TypeOK' /\ MutexInv' /\ IdsInv'
  BY EnoughIds, TypeStep, MutexStep, IdsStep
<1>2. Kind \in [Requests -> Kinds] /\ IdsInv => UniqueIds
  BY DEF IdsInv, UniqueIds, Awaiting, Tracked
<1> QED
  BY <1>1, <1>2, TypeInit, IdsInit, PTL DEF Spec

-----------------------------------------------------------------------------
(* Queries: OneIdPerQuery *)

\* A sequence without repetition is no longer than its set of elements.
LEMMA DistinctBound ==
  ASSUME NEW S, IsFiniteSet(S), NEW s \in Seq(S), Distinct(s)
  PROVE  Len(s) <= Cardinality(S)
<1>1. s \in [1 .. Len(s) -> S] /\ Len(s) \in Nat
  OBVIOUS
<1>2. s \in Injection(1 .. Len(s), S)
  <2>1. DOMAIN s = 1 .. Len(s)
    BY <1>1
  <2>2. IsInjective(s)
    BY <2>1, Zenon DEF IsInjective, Distinct
  <2> QED
    BY <1>1, <2>2, Zenon DEF Injection
<1>3. \A n \in Nat : Cardinality(1 .. n) = n
  BY FS_Interval
<1>4. Cardinality(1 .. Len(s)) <= Cardinality(S)
  BY <1>2, FS_Injection
<1> QED
  BY <1>1, <1>3, <1>4

LEMMA RoomForOneMore ==
  ASSUME NEW S, IsFiniteSet(S), NEW s \in Seq(S), Distinct(s), NEW e \in S, ~Contains(s, e)
  PROVE  Len(s) + 1 <= Cardinality(S)
<1>1. Append(s, e) \in Seq(S) /\ Distinct(Append(s, e)) /\ Len(Append(s, e)) = Len(s) + 1
  BY AppendFacts
<1> QED
  BY <1>1, DistinctBound

LEMMA FlowFrame ==
  ASSUME TypeOK, FlowInv, UNCHANGED <<toNetwork, queries>>,
         \A r \in Requests : stage'[r] \in {"new", "chosen"} => stage[r] \in {"new", "chosen"}
  PROVE  FlowInv'
BY DEF FlowInv

LEMMA FlowSend ==
  ASSUME TypeOK, FlowInv, NEW r \in Requests, stage[r] = "chosen",
         toNetwork' = Append(toNetwork, r), queries' = queries,
         NEW s \in {"sent", "done"}, stage' = [stage EXCEPT ![r] = s]
  PROVE  FlowInv'
<1>1. toNetwork \in Seq(Requests) /\ Distinct(toNetwork) /\ ~Contains(toNetwork, r)
  BY DEF TypeOK, FlowInv
<1>2. /\ \A q : Contains(Append(toNetwork, r), q) <=> Contains(toNetwork, q) \/ q = r
      /\ Distinct(Append(toNetwork, r))
  BY <1>1, AppendFacts
<1>3. \A k \in Queued : ~Contains(queries[k], r)
  BY DEF FlowInv
<1> QED
  BY <1>2, <1>3 DEF FlowInv, TypeOK

\* The request that the loop takes, and what it does to the queries.
LEMMA HandleFacts ==
  ASSUME TypeOK, FlowInv, HandleRequest
  PROVE  LET r == Head(toNetwork)
         IN /\ r \in Requests /\ stage[r] \notin {"new", "chosen"} /\ Contains(toNetwork, r)
            /\ ~Contains(toNetwork', r)
            /\ \A q \in Requests : Contains(toNetwork', q) <=> Contains(toNetwork, q) /\ q # r
            /\ Distinct(toNetwork')
            /\ \A k \in Queued : ~Contains(queries[k], r)
            /\ \A k \in Queued \ {Kind[r]} : queries'[k] = queries[k] /\ fifo'[k] = fifo[k]
            /\ Kind[r] \in Queued =>
                 /\ queries'[Kind[r]] = Append(queries[Kind[r]], r)
                 /\ fifo'[Kind[r]] = Enqueue(fifo[Kind[r]], id[r])
<1> DEFINE r == Head(toNetwork)
<1>1. toNetwork # <<>> /\ toNetwork' = Tail(toNetwork) /\ toNetwork \in Seq(Requests)
      /\ Distinct(toNetwork)
  BY DEF HandleRequest, TypeOK, FlowInv
<1>2. /\ r \in Requests /\ Contains(toNetwork, r)
      /\ Distinct(Tail(toNetwork)) /\ ~Contains(Tail(toNetwork), r)
  BY <1>1, TailFacts
<1>3. /\ \A q : Contains(Tail(toNetwork), q) => Contains(toNetwork, q)
      /\ \A q : Contains(toNetwork, q) => q = r \/ Contains(Tail(toNetwork), q)
  BY <1>1, TailFacts
<1>4. stage[r] \notin {"new", "chosen"} /\ \A k \in Queued : ~Contains(queries[k], r)
  BY <1>2 DEF FlowInv
<1>5. /\ \A k \in Queued \ {Kind[r]} : queries'[k] = queries[k] /\ fifo'[k] = fifo[k]
      /\ Kind[r] \in Queued =>
           /\ queries'[Kind[r]] = Append(queries[Kind[r]], r)
           /\ fifo'[Kind[r]] = Enqueue(fifo[Kind[r]], id[r])
  <2>1. queries \in [Queued -> Seq(Requests)] /\ fifo \in [Queued -> Seq(Ids)]
    BY DEF TypeOK
  <2> QED
    BY <2>1 DEF HandleRequest
<1> QED
  BY <1>1, <1>2, <1>3, <1>4, <1>5

LEMMA EndsFacts ==
  ASSUME TypeOK, FlowInv, NEW r \in Requests, QueryEnds(r)
  PROVE  LET k == Kind[r]
         IN /\ k \in Queued /\ Answered(r) /\ queries[k] # <<>>
            /\ \E i \in Reportable(r) : queries'[k] = RemoveAt(queries[k], i)
            /\ Len(queries'[k]) = Len(queries[k]) - 1
            /\ Distinct(queries'[k])
            /\ \A q \in Requests : Contains(queries'[k], q) => Contains(queries[k], q)
            /\ \A j \in Queued \ {k} : queries'[j] = queries[j]
<1> DEFINE k == Kind[r]
<1>1. /\ k \in Queued /\ Answered(r)
      /\ queries \in [Queued -> Seq(Requests)] /\ queries[k] \in Seq(Requests)
      /\ Distinct(queries[k])
  BY DEF QueryEnds, TypeOK, FlowInv
<1>2. PICK i \in Reportable(r) : queries' = [queries EXCEPT ![k] = RemoveAt(@, i)]
  BY DEF QueryEnds
<1>3. i \in 1 .. Len(queries[k])
  BY <1>1, <1>2 DEF Reportable
<1>4. queries'[k] = RemoveAt(queries[k], i) /\ \A j \in Queued \ {k} : queries'[j] = queries[j]
  BY <1>1, <1>2
<1>5. /\ Len(RemoveAt(queries[k], i)) = Len(queries[k]) - 1
      /\ \A q : Contains(RemoveAt(queries[k], i), q) => Contains(queries[k], q)
      /\ Distinct(RemoveAt(queries[k], i))
  BY <1>1, <1>3, RemoveFacts
<1>6. queries[k] # <<>>
  BY <1>1, <1>3
<1> HIDE DEF k
<1> QED
  BY <1>1, <1>2, <1>4, <1>5, <1>6 DEF k

LEMMA FlowStep ==
  ASSUME TypeOK, FlowInv, [Next]_vars
  PROVE  FlowInv'
<1> USE DEF sending, network
<1>0. stage \in [Requests -> Stages]
  BY DEF TypeOK
<1>1. ASSUME NEW r \in Requests, ChooseId(r) PROVE FlowInv'
  BY <1>0, <1>1, FlowFrame DEF ChooseId
<1>2. ASSUME NEW r \in Requests, RejectRequest(r) PROVE FlowInv'
  BY <1>0, <1>2, FlowFrame DEF RejectRequest
<1>3. ASSUME NEW r \in Requests, SendTracked(r) PROVE FlowInv'
  BY <1>3, FlowSend DEF SendTracked
<1>4. ASSUME NEW r \in Requests, SendUntracked(r) PROVE FlowInv'
  BY <1>4, FlowSend DEF SendUntracked
<1>5. ASSUME NEW r \in Requests, QueryEnds(r) PROVE FlowInv'
  <2>1. UNCHANGED <<stage, toNetwork>>
    BY <1>5 DEF QueryEnds
  <2>2. /\ Distinct(queries'[Kind[r]])
        /\ \A q \in Requests : Contains(queries'[Kind[r]], q) => Contains(queries[Kind[r]], q)
        /\ \A j \in Queued \ {Kind[r]} : queries'[j] = queries[j]
    BY <1>5, EndsFacts
  <2> QED
    BY <2>1, <2>2 DEF FlowInv
<1>6. ASSUME NEW r \in Requests,
             \/ QueryFinds(r) \/ StartPolling(r) \/ TakeAnswer(r)
             \/ Sleep(r) \/ Wake(r) \/ GiveUp(r)
      PROVE  FlowInv'
  BY <1>0, <1>6, FlowFrame DEF QueryFinds, StartPolling, TakeAnswer, Sleep, Wake, GiveUp
<1>7. ASSUME HandleRequest PROVE FlowInv'
  <2> DEFINE r == Head(toNetwork)
  <2>0. stage' = stage
    BY <1>7 DEF HandleRequest
  <2>1. /\ r \in Requests /\ stage[r] \notin {"new", "chosen"}
        /\ ~Contains(toNetwork', r)
        /\ \A q \in Requests : Contains(toNetwork', q) <=> Contains(toNetwork, q) /\ q # r
        /\ Distinct(toNetwork')
        /\ \A k \in Queued : ~Contains(queries[k], r)
        /\ \A k \in Queued \ {Kind[r]} : queries'[k] = queries[k]
        /\ Kind[r] \in Queued => queries'[Kind[r]] = Append(queries[Kind[r]], r)
    BY <1>7, HandleFacts
  <2> HIDE DEF r
  <2>2. ASSUME NEW k \in Queued
        PROVE  /\ Distinct(queries'[k])
               /\ \A q \in Requests : Contains(queries'[k], q) =>
                    Contains(queries[k], q) \/ (q = r /\ Kind[r] = k)
    <3>1. queries[k] \in Seq(Requests) /\ Distinct(queries[k]) /\ ~Contains(queries[k], r)
      BY <2>1 DEF TypeOK, FlowInv
    <3>2. CASE Kind[r] = k
      <4> DEFINE s == queries[k]
      <4>1. s \in Seq(Requests) /\ Distinct(s) /\ ~Contains(s, r)
        BY <3>1
      <4>2. queries'[k] = Append(s, r)
        BY <2>1, <3>2
      <4> HIDE DEF s
      <4>3. Distinct(Append(s, r)) /\ \A q : Contains(Append(s, r), q) <=> Contains(s, q) \/ q = r
        BY <2>1, <4>1, AppendFacts
      <4> QED
        BY <3>2, <4>2, <4>3 DEF s
    <3>3. CASE Kind[r] # k
      BY <2>1, <3>1, <3>3
    <3> QED
      BY <3>2, <3>3
  <2> QED
    BY <2>0, <2>1, <2>2 DEF FlowInv
<1>8. ASSUME Respond \/ StoreResponse \/ UNCHANGED vars PROVE FlowInv'
  BY <1>8, FlowFrame DEF Respond, StoreResponse, vars
<1> QED
  BY <1>1, <1>2, <1>3, <1>4, <1>5, <1>6, <1>7, <1>8 DEF Next

LEMMA FlowInit == Init => FlowInv
BY DEF Init, FlowInv, Distinct, Contains

LEMMA OneIdStep ==
  ASSUME OnlyOnce, RoomForIds, TypeOK, FlowInv, OneIdPerQuery, [Next]_vars
  PROVE  OneIdPerQuery'
<1>1. ASSUME UNCHANGED <<fifo, queries>> PROVE OneIdPerQuery'
  BY <1>1 DEF OneIdPerQuery
<1>2. ASSUME NEW r \in Requests,
             \/ ChooseId(r) \/ RejectRequest(r) \/ SendTracked(r) \/ SendUntracked(r)
             \/ StartPolling(r) \/ TakeAnswer(r) \/ Sleep(r) \/ Wake(r) \/ GiveUp(r)
      PROVE  OneIdPerQuery'
  BY <1>1, <1>2 DEF network, ChooseId, RejectRequest, SendTracked, SendUntracked,
       StartPolling, TakeAnswer, Sleep, Wake, GiveUp
<1>3. ASSUME Respond \/ StoreResponse \/ UNCHANGED vars PROVE OneIdPerQuery'
  BY <1>1, <1>3 DEF network, Respond, StoreResponse, vars
<1>4. ASSUME NEW r \in Requests, QueryFinds(r) PROVE OneIdPerQuery'
  <2>1. found[r] \in 0 .. MaxFound /\ found[r] < MaxFound /\ Kind[r] \in Queued \ {"rpc"}
    BY <1>4 DEF QueryFinds, TypeOK
  <2> QED
    BY <2>1 DEF OnlyOnce
<1>5. ASSUME NEW r \in Requests, QueryEnds(r) PROVE OneIdPerQuery'
  <2> DEFINE k == Kind[r]
  <2>1. /\ k \in Queued /\ Answered(r) /\ queries[k] # <<>>
        /\ Len(queries'[k]) = Len(queries[k]) - 1
        /\ \A j \in Queued \ {k} : queries'[j] = queries[j]
    BY <1>5, EndsFacts
  <2>2. fifo[k] \in Seq(Ids) /\ queries[k] \in Seq(Requests) /\ Len(fifo[k]) = Len(queries[k])
    BY <2>1 DEF TypeOK, OneIdPerQuery
  <2>3. fifo[k] # <<>>
    BY <2>1, <2>2
  <2>4. fifo'[k] = Tail(fifo[k]) /\ \A j \in Queued \ {k} : fifo'[j] = fifo[j]
    BY <2>1, <2>3, AnsweredFacts
  <2>5. Len(fifo'[k]) = Len(queries'[k])
    BY <2>1, <2>2, <2>3, <2>4
  <2> QED
    BY <2>1, <2>4, <2>5 DEF OneIdPerQuery
<1>6. ASSUME HandleRequest PROVE OneIdPerQuery'
  <2> DEFINE r == Head(toNetwork)
             k == Kind[r]
  <2>1. /\ r \in Requests
        /\ \A j \in Queued : ~Contains(queries[j], r)
        /\ \A j \in Queued \ {k} : queries'[j] = queries[j] /\ fifo'[j] = fifo[j]
        /\ k \in Queued => /\ queries'[k] = Append(queries[k], r)
                           /\ fifo'[k] = Enqueue(fifo[k], id[r])
    BY <1>6, HandleFacts
  <2>2. ASSUME k \in Queued PROVE Len(fifo'[k]) = Len(queries'[k])
    <3>1. /\ queries[k] \in Seq(Requests) /\ Distinct(queries[k]) /\ fifo[k] \in Seq(Ids)
          /\ id[r] \in Ids /\ Len(fifo[k]) = Len(queries[k])
      BY <2>1, <2>2 DEF TypeOK, FlowInv, OneIdPerQuery
    <3>2. Len(queries[k]) + 1 <= Cardinality(Requests)
      BY <2>1, <2>2, <3>1, RoomForOneMore
    <3>3. Len(fifo[k]) < QueueMax
      BY <3>1, <3>2, FS_CardinalityType DEF RoomForIds
    <3>4. fifo'[k] = Append(fifo[k], id[r])
      BY <2>1, <2>2, <3>1, <3>3, EnqueueFacts
    <3> QED
      BY <2>1, <2>2, <3>1, <3>4
  <2> QED
    BY <2>1, <2>2 DEF OneIdPerQuery
<1> QED
  BY <1>2, <1>3, <1>4, <1>5, <1>6 DEF Next

\* When no query reports before its end and no queue of ids overflows, each
\* queue has an id for each query of its kind, and no other.
THEOREM OneIdTheorem ==
  ASSUME OnlyOnce, RoomForIds
  PROVE  Spec => []OneIdPerQuery
<1>1. Init => OneIdPerQuery
  BY DEF Init, OneIdPerQuery
<1>2. /\ TypeOK /\ MutexInv /\ FlowInv /\ OneIdPerQuery /\ [Next]_vars
      => TypeOK' /\ MutexInv' /\ FlowInv' /\ OneIdPerQuery'
  BY OnlyOnce, RoomForIds, TypeStep, MutexStep, FlowStep, OneIdStep
<1> QED
  BY <1>1, <1>2, TypeInit, FlowInit, PTL DEF Spec

-----------------------------------------------------------------------------
(* Places: AnsweredAtMostOnce *)

\* An answer is put into the channel to the response task.
LEMMA AnswerSent ==
  ASSUME TypeOK, NEW a \in Answer, toApp' = Append(toApp, a)
  PROVE  /\ \A i \in Ids : OnWay(i)' <=> OnWay(i) \/ i = a.id
         /\ Len(toApp') = Len(toApp) + 1
         /\ \A n \in 1 .. Len(toApp) : toApp'[n] = toApp[n]
         /\ toApp'[Len(toApp) + 1] = a
         /\ ~OnWay(a.id) /\ (\A m, n \in 1 .. Len(toApp) : toApp[m].id = toApp[n].id => m = n)
              => \A m, n \in 1 .. Len(toApp') : toApp'[m].id = toApp'[n].id => m = n
<1>1. toApp \in Seq(Answer) /\ Len(toApp) \in Nat
  BY DEF TypeOK
<1>2. /\ Len(toApp') = Len(toApp) + 1
      /\ \A n \in 1 .. Len(toApp) : toApp'[n] = toApp[n]
      /\ toApp'[Len(toApp) + 1] = a
  BY <1>1, AppendFacts
<1>3. \A n : n \in 1 .. Len(toApp') <=> n \in 1 .. Len(toApp) \/ n = Len(toApp) + 1
  BY <1>1, <1>2
<1>4. \A i \in Ids : OnWay(i)' <=> OnWay(i) \/ i = a.id
  BY <1>2, <1>3 DEF OnWay
<1>5. ASSUME ~OnWay(a.id), \A m, n \in 1 .. Len(toApp) : toApp[m].id = toApp[n].id => m = n
      PROVE  \A m, n \in 1 .. Len(toApp') : toApp'[m].id = toApp'[n].id => m = n
  BY <1>2, <1>3, <1>5 DEF OnWay
<1> QED
  BY <1>2, <1>4, <1>5

\* The response task takes the oldest answer.
LEMMA AnswerTaken ==
  ASSUME TypeOK, toApp # <<>>, toApp' = Tail(toApp)
  PROVE  /\ Len(toApp') = Len(toApp) - 1
         /\ \A n \in 1 .. Len(toApp) - 1 : toApp'[n] = toApp[n + 1]
         /\ Head(toApp) = toApp[1] /\ OnWay(Head(toApp).id)
         /\ \A i \in Ids : OnWay(i)' => OnWay(i)
         /\ (\A m, n \in 1 .. Len(toApp) : toApp[m].id = toApp[n].id => m = n)
              => /\ \A m, n \in 1 .. Len(toApp') : toApp'[m].id = toApp'[n].id => m = n
                 /\ \A i \in Ids : OnWay(i)' => i # Head(toApp).id
<1>1. toApp \in Seq(Answer) /\ Len(toApp) \in Nat \ {0}
  BY DEF TypeOK
<1>2. /\ Len(toApp') = Len(toApp) - 1
      /\ \A n \in 1 .. Len(toApp) - 1 : toApp'[n] = toApp[n + 1]
      /\ Head(toApp) = toApp[1]
  BY <1>1, TailFacts
<1>3. \A n \in 1 .. Len(toApp) - 1 : n + 1 \in 1 .. Len(toApp)
  BY <1>1
<1>4. OnWay(Head(toApp).id) /\ \A i \in Ids : OnWay(i)' => OnWay(i)
  BY <1>1, <1>2, <1>3 DEF OnWay
<1>5. ASSUME \A m, n \in 1 .. Len(toApp) : toApp[m].id = toApp[n].id => m = n
      PROVE  /\ \A m, n \in 1 .. Len(toApp') : toApp'[m].id = toApp'[n].id => m = n
             /\ \A i \in Ids : OnWay(i)' => i # Head(toApp).id
  <2>1. ASSUME NEW m \in 1 .. Len(toApp) - 1, NEW n \in 1 .. Len(toApp) - 1,
               toApp[m + 1].id = toApp[n + 1].id
        PROVE  m = n
    <3>1. m + 1 = n + 1
      BY <1>3, <1>5, <2>1
    <3> QED
      BY <3>1
  <2>2. ASSUME NEW n \in 1 .. Len(toApp) - 1 PROVE toApp[n + 1].id # toApp[1].id
    <3>1. n + 1 # 1
      OBVIOUS
    <3> QED
      BY <1>1, <1>3, <1>5, <3>1
  <2>3. \A m, n \in 1 .. Len(toApp') : toApp'[m].id = toApp'[n].id => m = n
    BY <1>2, <2>1
  <2>4. \A n \in 1 .. Len(toApp') : toApp'[n].id # toApp[1].id
    BY <1>2, <2>2
  <2>5. \A i \in Ids : OnWay(i)' => i # Head(toApp).id
    BY <1>2, <2>4 DEF OnWay
  <2> QED
    BY <2>3, <2>5
<1> QED
  BY <1>2, <1>4, <1>5

LEMMA PlaceFrame ==
  ASSUME TypeOK, PlaceInv, UNCHANGED <<toNetwork, fifo, toApp, buffer>>,
         \A r \in Requests : Tracked(r)' <=> Tracked(r),
         \A r \in Requests : Tracked(r) => id'[r] = id[r]
  PROVE  PlaceInv'
<1>1. \A r \in Requests : \A i \in Ids : Owner(r, i)' <=> Owner(r, i)
  BY DEF Owner
<1>2. \A i \in Ids : /\ OnWay(i)' <=> OnWay(i)
                     /\ Kept(i)' <=> Kept(i)
                     /\ Waits(i)' <=> Waits(i)
  BY DEF OnWay, Kept, Waits
<1>3. \A k \in Queued : fifo'[k] = fifo[k]
  OBVIOUS
<1>4. (\A k \in Queued : Distinct(fifo[k]))'
  BY <1>3 DEF PlaceInv
<1>5. (\A k \in Queued : \A i \in Ids : Contains(fifo[k], i) =>
         \E r \in Requests : Owner(r, i) /\ Kind[r] = k)'
  BY <1>1, <1>3 DEF PlaceInv
<1>6. (\A i \in Ids : OnWay(i) \/ Kept(i) => ~Waits(i) /\ \E r \in Requests : Owner(r, i))'
  BY <1>1, <1>2 DEF PlaceInv
<1>7. (\A i \in Ids : ~(OnWay(i) /\ Kept(i)))'
  BY <1>2 DEF PlaceInv
<1> QED
  BY <1>4, <1>5, <1>6, <1>7 DEF PlaceInv

\* A request is put into the channel to the network loop.
LEMMA PlaceSend ==
  ASSUME TypeOK, FlowInv, PlaceInv, NEW r \in Requests, ~Tracked(r),
         toNetwork' = Append(toNetwork, r), UNCHANGED <<id, fifo, toApp, buffer>>,
         \A q \in Requests : Tracked(q) => Tracked(q)',
         Kind[r] # "untracked" => Tracked(r)'
  PROVE  PlaceInv'
<1>1. \A q : Contains(toNetwork', q) <=> Contains(toNetwork, q) \/ q = r
  BY AppendFacts DEF TypeOK
<1>2. \A q \in Requests : \A i \in Ids : Owner(q, i) => Owner(q, i)'
  BY <1>1 DEF Owner
<1>3. \A i \in Ids : /\ OnWay(i)' <=> OnWay(i)
                     /\ Kept(i)' <=> Kept(i)
                     /\ Waits(i)' <=> Waits(i)
  BY DEF OnWay, Kept, Waits
<1>4. (\A q \in Requests : Contains(toNetwork, q) /\ Kind[q] # "untracked" => Tracked(q))'
  BY <1>1 DEF PlaceInv
<1>5. (\A k \in Queued : Distinct(fifo[k]))'
  BY DEF PlaceInv
<1>6. (\A m, n \in 1 .. Len(toApp) : toApp[m].id = toApp[n].id => m = n)'
  BY DEF PlaceInv
<1>7. (\A k \in Queued : \A i \in Ids : Contains(fifo[k], i) =>
         \E q \in Requests : Owner(q, i) /\ Kind[q] = k)'
  BY <1>2 DEF PlaceInv
<1>8. (\A i \in Ids : OnWay(i) \/ Kept(i) => ~Waits(i) /\ \E q \in Requests : Owner(q, i))'
  BY <1>2, <1>3 DEF PlaceInv
<1>9. (\A i \in Ids : ~(OnWay(i) /\ Kept(i)))'
  BY <1>3 DEF PlaceInv
<1> QED
  BY <1>4, <1>5, <1>6, <1>7, <1>8, <1>9 DEF PlaceInv

\* The id of a request that the loop has yet to handle is at none of the places.
LEMMA IdIsFresh ==
  ASSUME TypeOK, IdsInv, PlaceInv, NEW r \in Requests, Contains(toNetwork, r),
         Kind[r] # "untracked"
  PROVE  /\ Tracked(r) /\ id[r] \in Ids
         /\ ~OnWay(id[r]) /\ ~Kept(id[r]) /\ ~Waits(id[r])
<1>1. Tracked(r) /\ id[r] \in Ids
  BY DEF PlaceInv, TypeOK
<1>2. \A q \in Requests : ~Owner(q, id[r])
  BY <1>1 DEF IdsInv, Owner
<1>3. ~OnWay(id[r]) /\ ~Kept(id[r])
  BY <1>1, <1>2 DEF PlaceInv
<1>4. ~Waits(id[r])
  BY <1>1, <1>2 DEF PlaceInv, Waits
<1> QED
  BY <1>1, <1>3, <1>4

LEMMA PlaceHandle ==
  ASSUME TypeOK, IdsInv, FlowInv, PlaceInv, HandleRequest
  PROVE  PlaceInv'
<1>1. PICK r \in Requests :
      /\ r = Head(toNetwork) /\ Contains(toNetwork, r) /\ ~Contains(toNetwork', r)
      /\ \A q \in Requests : Contains(toNetwork', q) <=> Contains(toNetwork, q) /\ q # r
      /\ \A k \in Queued \ {Kind[r]} : fifo'[k] = fifo[k]
      /\ Kind[r] \in Queued => fifo'[Kind[r]] = Enqueue(fifo[Kind[r]], id[r])
  BY HandleFacts
<1> DEFINE a == [id |-> id[r], about |-> r]
<1>2. UNCHANGED <<stage, outcome, id, buffer>>
  BY DEF HandleRequest, sending
<1>3. toApp' = IF Kind[r] = "immediate" THEN Append(toApp, a) ELSE toApp
  BY <1>1 DEF HandleRequest
<1>4. a \in Answer /\ a.id = id[r] /\ id[r] \in Ids
  BY <1>1 DEF TypeOK, Answer
<1>5. Kind[r] # "untracked" =>
        Tracked(r) /\ ~OnWay(id[r]) /\ ~Kept(id[r]) /\ ~Waits(id[r])
  BY <1>1, IdIsFresh
<1> HIDE DEF a
<1>6. \A q \in Requests : Tracked(q)' <=> Tracked(q)
  BY <1>2 DEF Tracked
<1>7. \A q \in Requests : \A i \in Ids : Owner(q, i) => Owner(q, i)'
  BY <1>1, <1>2, <1>6 DEF Owner
<1>8. Kind[r] # "untracked" => \A i \in Ids : i = id[r] => Owner(r, i)'
  BY <1>1, <1>2, <1>5, <1>6 DEF Owner
<1>9. \A i \in Ids : Kept(i)' <=> Kept(i)
  BY <1>2 DEF Kept
<1>10. /\ \A i \in Ids : OnWay(i)' <=> OnWay(i) \/ (Kind[r] = "immediate" /\ i = id[r])
       /\ \A m, n \in 1 .. Len(toApp') : toApp'[m].id = toApp'[n].id => m = n
  <2>1. CASE Kind[r] = "immediate"
    <3>1. toApp' = Append(toApp, a) /\ ~OnWay(a.id)
      BY <1>3, <1>4, <1>5, <2>1
    <3>2. \A i \in Ids : OnWay(i)' <=> OnWay(i) \/ i = a.id
      BY <1>4, <3>1, AnswerSent
    <3>3. \A m, n \in 1 .. Len(toApp') : toApp'[m].id = toApp'[n].id => m = n
      BY <1>4, <3>1, AnswerSent DEF PlaceInv
    <3> QED
      BY <1>4, <2>1, <3>2, <3>3
  <2>2. CASE Kind[r] # "immediate"
    <3>1. toApp' = toApp
      BY <1>3, <2>2
    <3> QED
      BY <2>2, <3>1 DEF OnWay, PlaceInv
  <2> QED
    BY <2>1, <2>2
<1>11. ASSUME NEW k \in Queued
       PROVE  /\ Distinct(fifo'[k])
              /\ \A i \in Ids : Contains(fifo'[k], i) =>
                   Contains(fifo[k], i) \/ (i = id[r] /\ Kind[r] = k)
  <2>1. fifo[k] \in Seq(Ids) /\ Distinct(fifo[k])
    BY DEF TypeOK, PlaceInv
  <2>2. CASE Kind[r] = k
    <3>1. ~Contains(fifo[k], id[r])
      BY <1>5, <2>2 DEF Waits, Queued
    <3> DEFINE s == fifo[k]
               i == id[r]
    <3>2. s \in Seq(Ids) /\ i \in Ids /\ Distinct(s) /\ ~Contains(s, i)
      BY <1>4, <2>1, <3>1
    <3>3. fifo'[k] = Enqueue(s, i)
      BY <1>1, <2>2
    <3> HIDE DEF s, i
    <3>4. Distinct(Enqueue(s, i)) /\ \A x : Contains(Enqueue(s, i), x) => Contains(s, x) \/ x = i
      BY <3>2, EnqueueFacts
    <3> QED
      BY <2>2, <3>3, <3>4 DEF s, i
  <2>3. CASE Kind[r] # k
    BY <1>1, <2>1, <2>3
  <2> QED
    BY <2>2, <2>3
<1>12. \A i \in Ids : Waits(i)' => Waits(i) \/ (i = id[r] /\ Kind[r] \in Queued)
  BY <1>11 DEF Waits
<1>13. (\A q \in Requests : Contains(toNetwork, q) /\ Kind[q] # "untracked" => Tracked(q))'
  BY <1>1, <1>6 DEF PlaceInv
<1>14. (\A k \in Queued : \A i \in Ids : Contains(fifo[k], i) =>
          \E q \in Requests : Owner(q, i) /\ Kind[q] = k)'
  <2> SUFFICES ASSUME NEW k \in Queued, NEW i \in Ids, Contains(fifo'[k], i)
               PROVE  \E q \in Requests : Owner(q, i)' /\ Kind[q] = k
    OBVIOUS
  <2>1. CASE Contains(fifo[k], i)
    BY <1>7, <2>1 DEF PlaceInv
  <2>2. CASE i = id[r] /\ Kind[r] = k
    BY <1>1, <1>8, <2>2 DEF Queued
  <2> QED
    BY <1>11, <2>1, <2>2
<1>15. (\A i \in Ids : OnWay(i) \/ Kept(i) => ~Waits(i) /\ \E q \in Requests : Owner(q, i))'
  <2> SUFFICES ASSUME NEW i \in Ids, OnWay(i)' \/ Kept(i)'
               PROVE  ~Waits(i)' /\ \E q \in Requests : Owner(q, i)'
    OBVIOUS
  <2>1. CASE OnWay(i) \/ Kept(i)
    <3>1. ~Waits(i) /\ \E q \in Requests : Owner(q, i)
      BY <2>1 DEF PlaceInv
    <3>2. ~(i = id[r] /\ Kind[r] \in Queued)
      BY <1>5, <2>1 DEF Queued
    <3> QED
      BY <1>7, <1>12, <3>1, <3>2
  <2>2. CASE Kind[r] = "immediate" /\ i = id[r]
    <3>1. Kind[r] \notin Queued /\ Kind[r] # "untracked"
      BY <2>2 DEF Queued
    <3> QED
      BY <1>1, <1>5, <1>8, <1>12, <2>2, <3>1
  <2> QED
    BY <1>9, <1>10, <2>1, <2>2
<1>16. (\A i \in Ids : ~(OnWay(i) /\ Kept(i)))'
  BY <1>5, <1>9, <1>10 DEF PlaceInv
<1> QED
  BY <1>10, <1>11, <1>13, <1>14, <1>15, <1>16 DEF PlaceInv

LEMMA PlaceAnswered ==
  ASSUME TypeOK, IdsInv, PlaceInv, NEW r \in Requests, Kind[r] \in Queued, Answered(r),
         UNCHANGED <<stage, outcome, id, toNetwork, buffer>>
  PROVE  PlaceInv'
<1> DEFINE k == Kind[r]
           h == Head(fifo[k])
           a == [id |-> h, about |-> r]
<1>1. \A q \in Requests : Tracked(q)' <=> Tracked(q)
  BY DEF Tracked
<1>2. CASE fifo[k] = <<>>
  <2>1. toApp' = toApp /\ fifo' = fifo
    BY <1>2, AnsweredFacts
  <2> QED
    BY <1>1, <2>1, PlaceFrame
<1>3. CASE fifo[k] # <<>>
  <2>1. /\ fifo'[k] = Tail(fifo[k]) /\ h \in Ids /\ toApp' = Append(toApp, a)
        /\ \A j \in Queued \ {k} : fifo'[j] = fifo[j]
    BY <1>3, AnsweredFacts
  <2>2. a \in Answer /\ a.id = h
    BY <2>1 DEF Answer
  <2>3. fifo[k] \in Seq(Ids) /\ Distinct(fifo[k])
    BY DEF TypeOK, PlaceInv
  <2>4. /\ Contains(fifo[k], h) /\ Distinct(fifo'[k]) /\ ~Contains(fifo'[k], h)
        /\ \A x : Contains(fifo'[k], x) => Contains(fifo[k], x)
    BY <1>3, <2>1, <2>3, TailFacts
  <2> HIDE DEF h, a
  <2>5. Waits(h) /\ ~OnWay(h) /\ ~Kept(h)
    BY <2>1, <2>4 DEF Waits, PlaceInv
  <2>6. /\ \A i \in Ids : OnWay(i)' <=> OnWay(i) \/ i = h
        /\ \A m, n \in 1 .. Len(toApp') : toApp'[m].id = toApp'[n].id => m = n
    BY <2>1, <2>2, <2>5, AnswerSent DEF PlaceInv
  <2>7. \A q \in Requests : \A i \in Ids : Owner(q, i)' <=> Owner(q, i)
    BY <1>1 DEF Owner
  <2>8. \A i \in Ids : Kept(i)' <=> Kept(i)
    BY DEF Kept
  <2>9. \A j \in Queued : Distinct(fifo'[j]) /\ \A i \in Ids : Contains(fifo'[j], i) => Contains(fifo[j], i)
    BY <2>1, <2>4 DEF PlaceInv
  <2>10. PICK p \in Requests : Owner(p, h) /\ Kind[p] = k
    BY <2>1, <2>4 DEF PlaceInv
  <2>11. \A j \in Queued : ~Contains(fifo'[j], h)
    <3> SUFFICES ASSUME NEW j \in Queued, Contains(fifo'[j], h) PROVE FALSE
      OBVIOUS
    <3>1. PICK q \in Requests : Owner(q, h) /\ Kind[q] = j
      BY <2>1, <2>9 DEF PlaceInv
    <3>2. q = p
      BY <2>10, <3>1 DEF Owner, IdsInv
    <3> QED
      BY <2>4, <2>10, <3>1, <3>2
  <2>12. \A i \in Ids : Waits(i)' => Waits(i) /\ i # h
    BY <2>9, <2>11 DEF Waits
  <2>13. (\A q \in Requests : Contains(toNetwork, q) /\ Kind[q] # "untracked" => Tracked(q))'
    BY <1>1 DEF PlaceInv
  <2>14. (\A j \in Queued : \A i \in Ids : Contains(fifo[j], i) =>
            \E q \in Requests : Owner(q, i) /\ Kind[q] = j)'
    BY <2>7, <2>9 DEF PlaceInv
  <2>15. (\A i \in Ids : OnWay(i) \/ Kept(i) => ~Waits(i) /\ \E q \in Requests : Owner(q, i))'
    BY <2>6, <2>7, <2>8, <2>10, <2>12 DEF PlaceInv
  <2>16. (\A i \in Ids : ~(OnWay(i) /\ Kept(i)))'
    BY <2>5, <2>6, <2>8 DEF PlaceInv
  <2> QED
    BY <2>6, <2>9, <2>13, <2>14, <2>15, <2>16 DEF PlaceInv
<1> QED
  BY <1>2, <1>3

LEMMA PlaceStore ==
  ASSUME TypeOK, MutexInv, PlaceInv, StoreResponse
  PROVE  PlaceInv'
<1>1. PICK h \in Ids : h = Head(toApp).id
  BY RespondFacts
<1>2. /\ toApp # <<>> /\ toApp' = Tail(toApp) /\ Head(toApp).about \in Requests
  BY RespondFacts
<1>3. UNCHANGED <<stage, outcome, id, toNetwork, fifo>>
  BY DEF StoreResponse, sending, network
<1>4. buffer' = buffer \/ buffer' = [buffer EXCEPT ![h] = Head(toApp).about]
  BY <1>1 DEF StoreResponse
<1>5. \A q \in Requests : Tracked(q)' <=> Tracked(q)
  BY <1>3 DEF Tracked
<1>6. \A q \in Requests : \A i \in Ids : Owner(q, i)' <=> Owner(q, i)
  BY <1>3, <1>5 DEF Owner
<1>7. \A i \in Ids : Waits(i)' <=> Waits(i)
  BY <1>3 DEF Waits
<1>8. /\ OnWay(h)
      /\ \A i \in Ids : OnWay(i)' => OnWay(i) /\ i # h
      /\ \A m, n \in 1 .. Len(toApp') : toApp'[m].id = toApp'[n].id => m = n
  BY <1>1, <1>2, AnswerTaken DEF PlaceInv
<1>9. \A i \in Ids : Kept(i)' => Kept(i) \/ i = h
  BY <1>4 DEF Kept, TypeOK
<1>10. (\A q \in Requests : Contains(toNetwork, q) /\ Kind[q] # "untracked" => Tracked(q))'
  BY <1>3, <1>5 DEF PlaceInv
<1>11. \A k \in Queued : fifo'[k] = fifo[k]
  BY <1>3
<1>12. (\A k \in Queued : Distinct(fifo[k]))'
  BY <1>11 DEF PlaceInv
<1>13. (\A k \in Queued : \A i \in Ids : Contains(fifo[k], i) =>
          \E q \in Requests : Owner(q, i) /\ Kind[q] = k)'
  BY <1>6, <1>11 DEF PlaceInv
<1>14. (\A i \in Ids : OnWay(i) \/ Kept(i) => ~Waits(i) /\ \E q \in Requests : Owner(q, i))'
  BY <1>6, <1>7, <1>8, <1>9 DEF PlaceInv
<1>15. (\A i \in Ids : ~(OnWay(i) /\ Kept(i)))'
  BY <1>8, <1>9 DEF PlaceInv
<1> QED
  BY <1>8, <1>10, <1>12, <1>13, <1>14, <1>15 DEF PlaceInv

LEMMA PlaceTake ==
  ASSUME TypeOK, PlaceInv, [Next]_vars, NEW r \in Requests, TakeAnswer(r)
  PROVE  PlaceInv'
<1>0. stage \in [Requests -> Stages] /\ buffer \in [Ids -> About]
  BY DEF TypeOK
<1>1. UNCHANGED <<id, toNetwork, fifo, toApp>>
  BY DEF TakeAnswer, sending, network
<1>2. \A q \in Requests : Tracked(q)' <=> Tracked(q)
  <2>1. \A q \in Requests : ~SendTracked(q)
    BY <1>0 DEF TakeAnswer, SendTracked
  <2> QED
    BY <2>1, TrackedKept
<1>3. \A q \in Requests : \A i \in Ids : Owner(q, i)' <=> Owner(q, i)
  BY <1>1, <1>2 DEF Owner
<1>4. \A i \in Ids : /\ OnWay(i)' <=> OnWay(i)
                     /\ Waits(i)' <=> Waits(i)
                     /\ Kept(i)' => Kept(i)
  <2>1. buffer' = [buffer EXCEPT ![id[r]] = NoAnswer]
    BY DEF TakeAnswer
  <2> QED
    BY <1>0, <1>1, <2>1 DEF OnWay, Waits, Kept
<1>5. (\A q \in Requests : Contains(toNetwork, q) /\ Kind[q] # "untracked" => Tracked(q))'
  BY <1>1, <1>2 DEF PlaceInv
<1>6. \A k \in Queued : fifo'[k] = fifo[k]
  BY <1>1
<1>7. (\A k \in Queued : Distinct(fifo[k]))'
  BY <1>6 DEF PlaceInv
<1>8. (\A m, n \in 1 .. Len(toApp) : toApp[m].id = toApp[n].id => m = n)'
  BY <1>1 DEF PlaceInv
<1>9. (\A k \in Queued : \A i \in Ids : Contains(fifo[k], i) =>
         \E q \in Requests : Owner(q, i) /\ Kind[q] = k)'
  BY <1>3, <1>6 DEF PlaceInv
<1>10. (\A i \in Ids : OnWay(i) \/ Kept(i) => ~Waits(i) /\ \E q \in Requests : Owner(q, i))'
  BY <1>3, <1>4 DEF PlaceInv
<1>11. (\A i \in Ids : ~(OnWay(i) /\ Kept(i)))'
  BY <1>4 DEF PlaceInv
<1> QED
  BY <1>5, <1>7, <1>8, <1>9, <1>10, <1>11 DEF PlaceInv

LEMMA PlaceStep ==
  ASSUME TypeOK, MutexInv, IdsInv, FlowInv, PlaceInv, [Next]_vars
  PROVE  PlaceInv'
<1> USE DEF sending, network
<1>0. stage \in [Requests -> Stages] /\ id \in [Requests -> Ids]
  BY DEF TypeOK
<1>1. ASSUME NEW r \in Requests, ChooseId(r) PROVE PlaceInv'
  <2>1. \A q \in Requests : ~SendTracked(q)
    BY <1>0, <1>1 DEF ChooseId, SendTracked
  <2>2. \A q \in Requests : Tracked(q)' <=> Tracked(q)
    BY <2>1, TrackedKept
  <2>3. \A q \in Requests : Tracked(q) => id'[q] = id[q]
    BY <1>0, <1>1 DEF ChooseId, Tracked
  <2> QED
    BY <1>1, <2>2, <2>3, PlaceFrame DEF ChooseId
<1>2. ASSUME NEW r \in Requests, SendTracked(r) PROVE PlaceInv'
  BY <1>2, TrackedSent, PlaceSend DEF SendTracked
<1>3. ASSUME NEW r \in Requests, SendUntracked(r) PROVE PlaceInv'
  <2>1. \A q \in Requests : ~SendTracked(q)
    BY <1>0, <1>3 DEF SendUntracked, SendTracked
  <2>2. \A q \in Requests : Tracked(q)' <=> Tracked(q)
    BY <2>1, TrackedKept
  <2>3. ~Tracked(r) /\ Kind[r] = "untracked"
    BY <1>3 DEF SendUntracked, Tracked
  <2> QED
    BY <1>3, <2>2, <2>3, PlaceSend DEF SendUntracked
<1>a. ASSUME UNCHANGED <<id, toNetwork, fifo, toApp, buffer>>, \A q \in Requests : ~SendTracked(q)
      PROVE  PlaceInv'
  BY <1>a, TrackedKept, PlaceFrame
<1>4. ASSUME NEW r \in Requests,
             RejectRequest(r) \/ StartPolling(r) \/ Sleep(r) \/ Wake(r) \/ GiveUp(r)
      PROVE  PlaceInv'
  <2>1. stage'[r] # "sent" /\ \A q \in Requests \ {r} : stage'[q] = stage[q]
    BY <1>0, <1>4 DEF RejectRequest, StartPolling, Sleep, Wake, GiveUp
  <2>2. \A q \in Requests : ~SendTracked(q)
    BY <1>0, <2>1 DEF SendTracked
  <2> QED
    BY <1>4, <1>a, <2>2 DEF RejectRequest, StartPolling, Sleep, Wake, GiveUp
<1>5. ASSUME NEW r \in Requests, TakeAnswer(r) PROVE PlaceInv'
  BY <1>5, PlaceTake
<1>6. ASSUME NEW r \in Requests, QueryEnds(r) PROVE PlaceInv'
  BY <1>6, PlaceAnswered DEF QueryEnds
<1>7. ASSUME NEW r \in Requests, QueryFinds(r) PROVE PlaceInv'
  BY <1>7, PlaceAnswered DEF QueryFinds
<1>8. ASSUME HandleRequest PROVE PlaceInv'
  BY <1>8, PlaceHandle
<1>9. ASSUME StoreResponse PROVE PlaceInv'
  BY <1>9, PlaceStore
<1>10. ASSUME Respond \/ UNCHANGED vars PROVE PlaceInv'
  <2>1. UNCHANGED <<stage, id, toNetwork, fifo, toApp, buffer>>
    BY <1>10 DEF Respond, vars
  <2>2. \A q \in Requests : ~SendTracked(q)
    BY <1>0, <2>1 DEF SendTracked
  <2> QED
    BY <1>a, <2>1, <2>2
<1> QED
  BY <1>1, <1>2, <1>3, <1>4, <1>5, <1>6, <1>7, <1>8, <1>9, <1>10 DEF Next

LEMMA PlaceInit == Init => PlaceInv
<1> SUFFICES ASSUME Init PROVE PlaceInv
  OBVIOUS
<1>1. /\ \A k \in Queued : Distinct(fifo[k]) /\ \A i \in Ids : ~Contains(fifo[k], i)
      /\ \A r \in Requests : ~Contains(toNetwork, r)
      /\ \A i \in Ids : ~OnWay(i) /\ ~Kept(i)
  BY DEF Init, Distinct, Contains, OnWay, Kept
<1>2. toApp = <<>>
  BY DEF Init
<1> QED
  BY <1>1, <1>2 DEF PlaceInv

\* The number of answers for an id, from the places the id is at.
LEMMA AtMostOne ==
  ASSUME NEW S, \A x, y \in S : x = y
  PROVE  /\ IsFiniteSet(S) /\ Cardinality(S) \in {0, 1}
         /\ S = {} => Cardinality(S) = 0
<1>1. CASE S = {}
  BY <1>1, FS_EmptySet
<1>2. CASE S # {}
  <2>1. PICK x \in S : TRUE
    BY <1>2
  <2>2. S = {x}
    BY <2>1
  <2> QED
    BY <1>2, <2>2, FS_Singleton
<1> QED
  BY <1>1, <1>2

\* The number of answers for an id, from the places the id is at.
LEMMA PlacesCounted == TypeOK /\ IdsInv /\ PlaceInv => AnsweredAtMostOnce
<1> SUFFICES ASSUME TypeOK, IdsInv, PlaceInv, NEW i \in Ids PROVE AnswersFor(i) <= 1
  BY DEF AnsweredAtMostOnce
<1> DEFINE due == {p \in Queued \X (1 .. QueueMax) :
                     p[2] \in DOMAIN fifo[p[1]] /\ fifo[p[1]][p[2]] = i}
           way == {n \in DOMAIN toApp : toApp[n].id = i}
<1>1. toApp \in Seq(Answer) /\ DOMAIN toApp = 1 .. Len(toApp)
  BY DEF TypeOK
<1>2. ASSUME NEW p \in due
      PROVE  /\ p = <<p[1], p[2]>> /\ p[1] \in Queued /\ p[2] \in 1 .. Len(fifo[p[1]])
             /\ fifo[p[1]][p[2]] = i /\ Contains(fifo[p[1]], i)
  <2>1. p = <<p[1], p[2]>> /\ p[1] \in Queued /\ fifo[p[1]][p[2]] = i
    OBVIOUS
  <2>2. p[2] \in 1 .. Len(fifo[p[1]])
    BY <2>1 DEF TypeOK
  <2> QED
    BY <2>1, <2>2 DEF Contains
<1>3. ASSUME NEW p \in due, NEW q \in due PROVE p = q
  <2>1. PICK a \in Requests : Owner(a, i) /\ Kind[a] = p[1]
    BY <1>2 DEF PlaceInv
  <2>2. PICK b \in Requests : Owner(b, i) /\ Kind[b] = q[1]
    BY <1>2 DEF PlaceInv
  <2>3. p[1] = q[1]
    BY <2>1, <2>2 DEF Owner, IdsInv
  <2>4. Distinct(fifo[p[1]])
    BY <1>2 DEF PlaceInv
  <2>5. p[2] = q[2]
    BY <1>2, <2>3, <2>4 DEF Distinct
  <2> QED
    BY <1>2, <2>3, <2>5
<1>4. \A m, n \in way : m = n
  BY <1>1 DEF PlaceInv
<1>5. due # {} => Waits(i)
  BY <1>2 DEF Waits
<1>6. way # {} => OnWay(i)
  BY <1>1 DEF OnWay
<1> DEFINE kept == IF buffer[i] = NoAnswer THEN 0 ELSE 1
<1>7. kept = 1 => Kept(i)
  BY DEF Kept
<1>8. kept \in {0, 1}
  OBVIOUS
<1>9. ~(OnWay(i) /\ Kept(i)) /\ ~(Waits(i) /\ (OnWay(i) \/ Kept(i)))
  BY DEF PlaceInv
<1>10. AnswersFor(i) = Cardinality(due) + Cardinality(way) + kept
  BY DEF AnswersFor
<1> HIDE DEF due, way, kept
<1>11. /\ Cardinality(due) \in {0, 1} /\ (due = {} => Cardinality(due) = 0)
       /\ Cardinality(way) \in {0, 1} /\ (way = {} => Cardinality(way) = 0)
  BY <1>3, <1>4, AtMostOne
<1> QED
  BY <1>5, <1>6, <1>7, <1>8, <1>9, <1>10, <1>11

\* When ids are unique an id is answered at most once, whatever the order and
\* the number of the swarm's reports and whatever the sizes of the queues.
THEOREM AnsweredOnceTheorem ==
  ASSUME EnoughIds
  PROVE  Spec => []AnsweredAtMostOnce
<1>1. /\ TypeOK /\ MutexInv /\ IdsInv /\ FlowInv /\ PlaceInv /\ [Next]_vars
      => TypeOK' /\ MutexInv' /\ IdsInv' /\ FlowInv' /\ PlaceInv'
  BY EnoughIds, TypeStep, MutexStep, IdsStep, FlowStep, PlaceStep
<1> QED
  BY <1>1, PlacesCounted, TypeInit, IdsInit, FlowInit, PlaceInit, PTL DEF Spec

-----------------------------------------------------------------------------
(* Pairing: AnswersMatch *)

\* What Tracked keeps from a step to the next.
LEMMA TrackedStays ==
  ASSUME TypeOK, [Next]_vars
  PROVE  \A q \in Requests : Tracked(q) => Tracked(q)' /\ id'[q] = id[q]
<1>0. id \in [Requests -> Ids] /\ stage \in [Requests -> Stages]
  BY DEF TypeOK
<1>1. \A q \in Requests : Tracked(q) => Tracked(q)'
  <2>1. CASE \E r \in Requests : SendTracked(r)
    BY <2>1, TrackedSent
  <2>2. CASE \A r \in Requests : ~SendTracked(r)
    BY <2>2, TrackedKept
  <2> QED
    BY <2>1, <2>2
<1>2. \A q \in Requests : Tracked(q) => id'[q] = id[q]
  <2>1. CASE \E r \in Requests : ChooseId(r)
    BY <1>0, <2>1 DEF ChooseId, Tracked
  <2>2. CASE \A r \in Requests : ~ChooseId(r)
    <3>1. id' = id
      BY <2>2 DEF Next, vars, sending, network, RejectRequest, SendTracked, SendUntracked,
           QueryEnds, QueryFinds, StartPolling, TakeAnswer, Sleep, Wake, GiveUp,
           HandleRequest, Respond, StoreResponse
    <3> QED
      BY <3>1
  <2> QED
    BY <2>1, <2>2
<1> QED
  BY <1>1, <1>2

\* The elements of the sequences that PairInv relates.
LEMMA PairTypes ==
  ASSUME TypeOK, OneIdPerQuery
  PROVE  /\ \A k \in Queued : \A n \in 1 .. Len(fifo[k]) :
              n \in 1 .. Len(queries[k]) /\ queries[k][n] \in Requests
         /\ \A n \in 1 .. Len(toApp) : toApp[n].about \in Requests
         /\ \A i \in Ids : Kept(i) => buffer[i] \in Requests
<1>1. \A k \in Queued : \A n \in 1 .. Len(fifo[k]) :
        n \in 1 .. Len(queries[k]) /\ queries[k][n] \in Requests
  BY DEF TypeOK, OneIdPerQuery
<1>2. \A n \in 1 .. Len(toApp) : toApp[n] \in Answer
  BY DEF TypeOK
<1>3. \A n \in 1 .. Len(toApp) : toApp[n].about \in Requests
  BY <1>2 DEF Answer
<1>4. \A i \in Ids : Kept(i) => buffer[i] \in Requests
  BY DEF TypeOK, Kept, About
<1> QED
  BY <1>1, <1>3, <1>4

LEMMA PairFrame ==
  ASSUME TypeOK, OneIdPerQuery, PairInv, [Next]_vars
  PROVE  /\ UNCHANGED <<fifo, queries>> => PairQueues'
         /\ UNCHANGED toApp => PairChannel'
         /\ UNCHANGED buffer => PairBuffer'
<1>0. \A q \in Requests : Tracked(q) => Tracked(q)' /\ id'[q] = id[q]
  BY TrackedStays
<1>1. ASSUME UNCHANGED <<fifo, queries>> PROVE PairQueues'
  <2> SUFFICES ASSUME NEW k \in Queued, NEW n \in 1 .. Len(fifo[k])
               PROVE  Tracked(queries[k][n])' /\ fifo[k][n] = id'[queries[k][n]]
    BY <1>1 DEF PairQueues
  <2>1. PICK q \in Requests : q = queries[k][n]
    BY PairTypes
  <2>2. Tracked(q) /\ fifo[k][n] = id[q]
    BY <2>1 DEF PairInv, PairQueues, PairChannel, PairBuffer
  <2>3. Tracked(q)' /\ fifo[k][n] = id'[q]
    BY <1>0, <2>2
  <2>4. q = queries'[k][n]
    BY <1>1, <2>1
  <2> QED
    BY <2>1, <2>3, <2>4 DEF Tracked
<1>2. ASSUME UNCHANGED toApp PROVE PairChannel'
  <2> SUFFICES ASSUME NEW n \in 1 .. Len(toApp)
               PROVE  Tracked(toApp[n].about)' /\ toApp[n].id = id'[toApp[n].about]
    BY <1>2 DEF PairChannel
  <2>1. PICK q \in Requests : q = toApp[n].about
    BY PairTypes
  <2>2. Tracked(q) /\ toApp[n].id = id[q]
    BY <2>1 DEF PairInv, PairQueues, PairChannel, PairBuffer
  <2>3. Tracked(q)' /\ toApp[n].id = id'[q]
    BY <1>0, <2>2
  <2>4. q = toApp'[n].about
    BY <1>2, <2>1
  <2> QED
    BY <2>1, <2>3, <2>4 DEF Tracked
<1>3. ASSUME UNCHANGED buffer PROVE PairBuffer'
  <2> SUFFICES ASSUME NEW i \in Ids, Kept(i)
               PROVE  Tracked(buffer[i])' /\ id'[buffer[i]] = i
    BY <1>3 DEF PairBuffer, Kept
  <2>1. PICK q \in Requests : q = buffer[i]
    BY PairTypes
  <2>2. Tracked(q) /\ id[q] = i
    BY <2>1 DEF PairInv, PairQueues, PairChannel, PairBuffer
  <2>3. Tracked(q)' /\ id'[q] = i
    BY <1>0, <2>2
  <2>4. q = buffer'[i]
    BY <1>3, <2>1
  <2> QED
    BY <2>1, <2>3, <2>4 DEF Tracked
<1> QED
  BY <1>1, <1>2, <1>3

LEMMA PairHandle ==
  ASSUME RoomForIds, TypeOK, IdsInv, FlowInv, PlaceInv, OneIdPerQuery, PairInv, HandleRequest
  PROVE  PairInv'
<1>1. PICK r \in Requests :
      /\ r = Head(toNetwork) /\ Contains(toNetwork, r)
      /\ \A k \in Queued : ~Contains(queries[k], r)
      /\ \A k \in Queued \ {Kind[r]} : queries'[k] = queries[k] /\ fifo'[k] = fifo[k]
      /\ Kind[r] \in Queued => /\ queries'[Kind[r]] = Append(queries[Kind[r]], r)
                               /\ fifo'[Kind[r]] = Enqueue(fifo[Kind[r]], id[r])
  BY HandleFacts
<1>2. UNCHANGED <<stage, outcome, id, buffer>>
  BY DEF HandleRequest, sending
<1>3. \A q \in Requests : Tracked(q)' <=> Tracked(q)
  BY <1>2 DEF Tracked
<1>4. Kind[r] # "untracked" => Tracked(r) /\ id[r] \in Ids
  BY <1>1, IdIsFresh
<1>5. [Next]_vars
  BY DEF Next
<1>6. PairQueues'
  <2> SUFFICES ASSUME NEW k \in Queued, NEW n \in 1 .. Len(fifo'[k])
               PROVE  Tracked(queries[k][n])' /\ fifo'[k][n] = id'[queries'[k][n]]
    BY DEF PairQueues
  <2>1. ASSUME NEW q \in Requests, q = queries'[k][n], Tracked(q), fifo'[k][n] = id[q]
        PROVE  Tracked(queries[k][n])' /\ fifo'[k][n] = id'[queries'[k][n]]
    BY <1>2, <2>1 DEF Tracked
  <2>2. CASE Kind[r] = k
    <3> DEFINE s == queries[k]
               f == fifo[k]
               i == id[r]
    <3>0. Kind[r] # "untracked"
      BY <2>2 DEF Queued
    <3>1. /\ s \in Seq(Requests) /\ f \in Seq(Ids) /\ i \in Ids /\ Len(f) = Len(s)
          /\ Distinct(s) /\ ~Contains(s, r) /\ Tracked(r)
      BY <1>1, <1>4, <3>0 DEF TypeOK, FlowInv, OneIdPerQuery
    <3>2. queries'[k] = Append(s, r) /\ fifo'[k] = Enqueue(f, i)
      BY <1>1, <2>2
    <3>3. \A m \in 1 .. Len(f) : s[m] \in Requests /\ Tracked(s[m]) /\ f[m] = id[s[m]]
      BY PairTypes DEF PairInv, PairQueues
    <3> HIDE DEF s, f, i
    <3>4. Len(s) + 1 <= Cardinality(Requests)
      BY <3>1, RoomForOneMore
    <3>5. Len(f) < QueueMax
      BY <3>1, <3>4, FS_CardinalityType DEF RoomForIds
    <3>6. fifo'[k] = Append(f, i)
      BY <3>1, <3>2, <3>5, EnqueueFacts
    <3>7. /\ n \in 1 .. Len(f) \/ n = Len(f) + 1
          /\ \A m \in 1 .. Len(f) : Append(f, i)[m] = f[m] /\ Append(s, r)[m] = s[m]
          /\ Append(f, i)[Len(f) + 1] = i /\ Append(s, r)[Len(f) + 1] = r
      BY <3>1, <3>6
    <3>8. CASE n \in 1 .. Len(f)
      BY <2>1, <3>2, <3>3, <3>6, <3>7, <3>8
    <3>9. CASE n = Len(f) + 1
      <4>1. queries'[k][n] = r /\ fifo'[k][n] = id[r]
        BY <3>2, <3>6, <3>7, <3>9 DEF i
      <4> QED
        BY <2>1, <3>1, <4>1
    <3> QED
      BY <3>7, <3>8, <3>9
  <2>3. CASE Kind[r] # k
    <3>1. queries'[k] = queries[k] /\ fifo'[k] = fifo[k]
      BY <1>1, <2>3
    <3>2. queries[k][n] \in Requests /\ Tracked(queries[k][n]) /\ fifo[k][n] = id[queries[k][n]]
      BY <3>1, PairTypes DEF PairInv, PairQueues
    <3> QED
      BY <2>1, <3>1, <3>2
  <2> QED
    BY <2>2, <2>3
<1>7. PairChannel'
  <2>1. CASE Kind[r] = "immediate"
    <3> DEFINE a == [id |-> id[r], about |-> r]
    <3>1. a \in Answer /\ a.id = id[r] /\ a.about = r /\ Tracked(r)
      BY <1>4, <2>1 DEF Answer
    <3>2. toApp' = Append(toApp, a)
      BY <1>1, <2>1 DEF HandleRequest
    <3> HIDE DEF a
    <3>3. /\ Len(toApp') = Len(toApp) + 1
          /\ \A n \in 1 .. Len(toApp) : toApp'[n] = toApp[n]
          /\ toApp'[Len(toApp) + 1] = a
      BY <3>1, <3>2, AnswerSent
    <3> SUFFICES ASSUME NEW n \in 1 .. Len(toApp')
                 PROVE  Tracked(toApp[n].about)' /\ toApp'[n].id = id'[toApp'[n].about]
      BY DEF PairChannel
    <3>4. PICK q \in Requests : q = toApp'[n].about /\ Tracked(q) /\ toApp'[n].id = id[q]
      <4>0. Len(toApp) \in Nat
        BY DEF TypeOK
      <4>1. n \in 1 .. Len(toApp) \/ n = Len(toApp) + 1
        BY <3>3, <4>0
      <4>2. CASE n \in 1 .. Len(toApp)
        <5>1. toApp[n].about \in Requests
          BY <4>2, PairTypes
        <5>2. Tracked(toApp[n].about) /\ toApp[n].id = id[toApp[n].about]
          BY <4>2 DEF PairInv, PairChannel
        <5> QED
          BY <3>3, <4>2, <5>1, <5>2
      <4>3. CASE n = Len(toApp) + 1
        BY <3>1, <3>3, <4>3
      <4> QED
        BY <4>1, <4>2, <4>3
    <3> QED
      BY <1>2, <3>4 DEF Tracked
  <2>2. CASE Kind[r] # "immediate"
    <3>1. toApp' = toApp
      BY <1>1, <2>2 DEF HandleRequest
    <3> QED
      BY <1>5, <3>1, PairFrame
  <2> QED
    BY <2>1, <2>2
<1>8. PairBuffer'
  BY <1>2, <1>5, PairFrame
<1> QED
  BY <1>6, <1>7, <1>8 DEF PairInv

LEMMA PairEnds ==
  ASSUME InOrder, TypeOK, IdsInv, FlowInv, OneIdPerQuery, PairInv,
         NEW r \in Requests, QueryEnds(r)
  PROVE  PairInv'
<1> DEFINE k == Kind[r]
           s == queries[k]
           f == fifo[k]
<1>1. /\ k \in Queued /\ Answered(r) /\ s # <<>>
      /\ \E i \in Reportable(r) : queries'[k] = RemoveAt(s, i)
      /\ \A j \in Queued \ {k} : queries'[j] = queries[j]
  BY EndsFacts
<1>2. s \in Seq(Requests) /\ f \in Seq(Ids) /\ Len(f) = Len(s)
  BY <1>1 DEF TypeOK, OneIdPerQuery
<1>3. 1 \in 1 .. Len(s) /\ s[1] = r /\ queries'[k] = RemoveAt(s, 1)
  BY <1>1, <1>2 DEF Reportable
<1>4. f # <<>>
  BY <1>1, <1>2
<1>5. /\ fifo'[k] = Tail(f) /\ \A j \in Queued \ {k} : fifo'[j] = fifo[j]
      /\ Head(f) \in Ids
      /\ toApp' = Append(toApp, [id |-> Head(f), about |-> r])
  BY <1>1, <1>4, AnsweredFacts
<1>6. \A m \in 1 .. Len(f) : s[m] \in Requests /\ Tracked(s[m]) /\ f[m] = id[s[m]]
  BY <1>1, PairTypes DEF PairInv, PairQueues
<1>7. UNCHANGED <<stage, outcome, id, buffer>>
  BY DEF QueryEnds, sending
<1>8. [Next]_vars
  BY DEF Next
<1>9. PairQueues'
  <2> SUFFICES ASSUME NEW j \in Queued, NEW n \in 1 .. Len(fifo'[j])
               PROVE  Tracked(queries[j][n])' /\ fifo'[j][n] = id'[queries'[j][n]]
    BY DEF PairQueues
  <2>1. ASSUME NEW q \in Requests, q = queries'[j][n], Tracked(q), fifo'[j][n] = id[q]
        PROVE  Tracked(queries[j][n])' /\ fifo'[j][n] = id'[queries'[j][n]]
    BY <1>7, <2>1 DEF Tracked
  <2>2. CASE j = k
    <3> HIDE DEF s, f
    <3>1. /\ Len(Tail(f)) = Len(f) - 1
          /\ \A m \in 1 .. Len(f) - 1 : Tail(f)[m] = f[m + 1]
      BY <1>2, <1>4, TailFacts
    <3>2. \A m \in 1 .. Len(s) - 1 :
            RemoveAt(s, 1)[m] = IF m < 1 THEN s[m] ELSE s[m + 1]
      BY <1>2, <1>3, RemoveFacts
    <3>3. n \in 1 .. Len(f) - 1 /\ n + 1 \in 1 .. Len(f)
      BY <1>2, <1>5, <2>2, <3>1
    <3>4. queries'[k][n] = s[n + 1] /\ fifo'[k][n] = f[n + 1]
      BY <1>2, <1>3, <1>5, <3>1, <3>2, <3>3
    <3> QED
      BY <1>6, <2>1, <2>2, <3>3, <3>4
  <2>3. CASE j # k
    <3>1. queries'[j] = queries[j] /\ fifo'[j] = fifo[j]
      BY <1>1, <1>5, <2>3
    <3>2. queries[j][n] \in Requests /\ Tracked(queries[j][n]) /\ fifo[j][n] = id[queries[j][n]]
      BY <3>1, PairTypes DEF PairInv, PairQueues
    <3> QED
      BY <2>1, <3>1, <3>2
  <2> QED
    BY <2>2, <2>3
<1>10. PairChannel'
  <2> DEFINE a == [id |-> Head(f), about |-> r]
  <2>1. 1 \in 1 .. Len(f) /\ Head(f) = f[1]
    BY <1>2, <1>3, <1>4, TailFacts
  <2>2. a \in Answer /\ a.id = id[r] /\ a.about = r /\ Tracked(r)
    BY <1>3, <1>5, <1>6, <2>1 DEF Answer
  <2>3. toApp' = Append(toApp, a)
    BY <1>5
  <2> HIDE DEF a
  <2>4. /\ Len(toApp') = Len(toApp) + 1
        /\ \A n \in 1 .. Len(toApp) : toApp'[n] = toApp[n]
        /\ toApp'[Len(toApp) + 1] = a
    BY <2>2, <2>3, AnswerSent
  <2> SUFFICES ASSUME NEW n \in 1 .. Len(toApp')
               PROVE  Tracked(toApp[n].about)' /\ toApp'[n].id = id'[toApp'[n].about]
    BY DEF PairChannel
  <2>5. PICK q \in Requests : q = toApp'[n].about /\ Tracked(q) /\ toApp'[n].id = id[q]
    <3>1. n \in 1 .. Len(toApp) \/ n = Len(toApp) + 1
      BY <2>4 DEF TypeOK
    <3>2. CASE n \in 1 .. Len(toApp)
      BY <2>4, <3>2, PairTypes DEF PairInv, PairChannel
    <3>3. CASE n = Len(toApp) + 1
      BY <2>2, <2>4, <3>3
    <3> QED
      BY <3>1, <3>2, <3>3
  <2> QED
    BY <1>7, <2>5 DEF Tracked
<1>11. PairBuffer'
  BY <1>7, <1>8, PairFrame
<1> QED
  BY <1>9, <1>10, <1>11 DEF PairInv

LEMMA PairStore ==
  ASSUME TypeOK, MutexInv, OneIdPerQuery, PairInv, StoreResponse
  PROVE  PairInv'
<1>1. PICK h \in Ids, q \in Requests : h = Head(toApp).id /\ q = Head(toApp).about
  BY RespondFacts
<1>2. toApp # <<>> /\ toApp' = Tail(toApp)
  BY RespondFacts
<1>3. UNCHANGED <<stage, outcome, id, fifo, queries>>
  BY DEF StoreResponse, sending, network
<1>4. [Next]_vars
  BY DEF Next
<1>5. /\ Len(toApp) \in Nat /\ 1 \in 1 .. Len(toApp) /\ Head(toApp) = toApp[1]
      /\ Len(toApp') = Len(toApp) - 1
      /\ \A n \in 1 .. Len(toApp) - 1 : toApp'[n] = toApp[n + 1]
  BY <1>2, AnswerTaken DEF TypeOK
<1>6. PairQueues'
  BY <1>3, <1>4, PairFrame
<1>7. PairChannel'
  <2> SUFFICES ASSUME NEW n \in 1 .. Len(toApp')
               PROVE  Tracked(toApp[n].about)' /\ toApp'[n].id = id'[toApp'[n].about]
    BY DEF PairChannel
  <2>1. n + 1 \in 1 .. Len(toApp) /\ toApp'[n] = toApp[n + 1]
    BY <1>5
  <2>2. PICK p \in Requests : p = toApp[n + 1].about
    BY <2>1, PairTypes
  <2>3. Tracked(p) /\ toApp[n + 1].id = id[p]
    BY <2>1, <2>2 DEF PairInv, PairChannel
  <2> QED
    BY <1>3, <2>1, <2>2, <2>3 DEF Tracked
<1>8. PairBuffer'
  <2>1. Tracked(q) /\ h = id[q]
    BY <1>1, <1>5 DEF PairInv, PairChannel
  <2>2. buffer' = buffer \/ buffer' = [buffer EXCEPT ![h] = q]
    BY <1>1 DEF StoreResponse
  <2> SUFFICES ASSUME NEW i \in Ids, Kept(i)'
               PROVE  Tracked(buffer[i])' /\ id'[buffer'[i]] = i
    BY DEF PairBuffer
  <2>3. PICK p \in Requests : p = buffer'[i] /\ Tracked(p) /\ id[p] = i
    <3>1. CASE buffer'[i] = buffer[i]
      <4>1. Kept(i)
        BY <3>1 DEF Kept
      <4> QED
        BY <3>1, <4>1, PairTypes DEF PairInv, PairBuffer
    <3>2. CASE i = h /\ buffer'[i] = q
      BY <2>1, <3>2
    <3> QED
      BY <2>2, <3>1, <3>2 DEF TypeOK
  <2> QED
    BY <1>3, <2>3 DEF Tracked
<1> QED
  BY <1>6, <1>7, <1>8 DEF PairInv

LEMMA PairTake ==
  ASSUME TypeOK, OneIdPerQuery, PairInv, NEW r \in Requests, TakeAnswer(r)
  PROVE  PairInv'
<1>1. UNCHANGED <<id, toApp, fifo, queries>>
  BY DEF TakeAnswer, sending, network
<1>2. [Next]_vars
  BY DEF Next
<1>3. PairBuffer'
  <2> SUFFICES ASSUME NEW i \in Ids, Kept(i)'
               PROVE  Tracked(buffer[i])' /\ id'[buffer'[i]] = i
    BY DEF PairBuffer
  <2>1. buffer'[i] = buffer[i]
    BY DEF TakeAnswer, TypeOK, Kept
  <2>2. Kept(i)
    BY <2>1 DEF Kept
  <2>3. PICK p \in Requests : p = buffer[i] /\ Tracked(p) /\ id[p] = i
    BY <2>2, PairTypes DEF PairInv, PairBuffer
  <2>4. Tracked(p)' /\ id'[p] = i
    BY <1>1, <1>2, <2>3, TrackedStays
  <2>5. p = buffer'[i]
    BY <2>1, <2>3
  <2> QED
    BY <2>4, <2>5 DEF Tracked
<1> QED
  BY <1>1, <1>2, <1>3, PairFrame DEF PairInv

LEMMA PairStep ==
  ASSUME OnlyOnce, RoomForIds, InOrder, TypeOK, MutexInv, IdsInv, FlowInv, PlaceInv,
         OneIdPerQuery, PairInv, [Next]_vars
  PROVE  PairInv'
<1>1. ASSUME UNCHANGED <<toApp, fifo, queries, buffer>> PROVE PairInv'
  BY <1>1, PairFrame DEF PairInv
<1>2. ASSUME NEW r \in Requests,
             \/ ChooseId(r) \/ RejectRequest(r) \/ SendTracked(r) \/ SendUntracked(r)
             \/ StartPolling(r) \/ Sleep(r) \/ Wake(r) \/ GiveUp(r)
      PROVE  PairInv'
  BY <1>1, <1>2 DEF network, ChooseId, RejectRequest, SendTracked, SendUntracked,
       StartPolling, Sleep, Wake, GiveUp
<1>3. ASSUME Respond \/ UNCHANGED vars PROVE PairInv'
  BY <1>1, <1>3 DEF network, Respond, vars
<1>4. ASSUME NEW r \in Requests, QueryFinds(r) PROVE PairInv'
  <2>1. found[r] \in 0 .. MaxFound /\ found[r] < MaxFound /\ Kind[r] \in Queued \ {"rpc"}
    BY <1>4 DEF QueryFinds, TypeOK
  <2> QED
    BY <2>1 DEF OnlyOnce
<1> QED
  BY <1>2, <1>3, <1>4, PairHandle, PairEnds, PairStore, PairTake DEF Next

\* What a task is given is the answer kept under its id, which is about its request.
LEMMA MatchStep ==
  ASSUME TypeOK, IdsInv, OneIdPerQuery, PairInv, AnswersMatch, [Next]_vars
  PROVE  AnswersMatch'
<1>0. outcome \in [Requests -> Outcomes] /\ Requests \cap {"overflow", "timeout", "pending"} = {}
  BY DEF TypeOK, Failures
<1>1. ASSUME NEW r \in Requests, TakeAnswer(r) PROVE AnswersMatch'
  <2>1. /\ stage[r] = "polling" /\ buffer[id[r]] # NoAnswer /\ id[r] \in Ids
        /\ outcome' = [outcome EXCEPT ![r] = buffer[id[r]]]
    BY <1>1 DEF TakeAnswer, TypeOK
  <2>2. PICK q \in Requests : q = buffer[id[r]] /\ Tracked(q) /\ id[q] = id[r]
    BY <2>1, PairTypes DEF PairInv, PairBuffer, Kept
  <2>3. Tracked(r)
    BY <2>1 DEF IdsInv, Tracked
  <2>4. q = r
    BY <2>2, <2>3 DEF IdsInv
  <2> QED
    BY <1>0, <2>1, <2>2, <2>4 DEF AnswersMatch
<1>2. ASSUME NEW r \in Requests, NEW e \in {"overflow", "timeout"},
             outcome' = [outcome EXCEPT ![r] = e]
      PROVE  AnswersMatch'
  BY <1>0, <1>2 DEF AnswersMatch
<1>3. ASSUME NEW r \in Requests, RejectRequest(r) \/ SendUntracked(r) \/ GiveUp(r)
      PROVE  AnswersMatch'
  BY <1>2, <1>3 DEF RejectRequest, SendUntracked, GiveUp
<1>4. ASSUME UNCHANGED outcome PROVE AnswersMatch'
  BY <1>4 DEF AnswersMatch
<1>5. ASSUME NEW r \in Requests,
             \/ ChooseId(r) \/ SendTracked(r) \/ QueryEnds(r) \/ QueryFinds(r)
             \/ StartPolling(r) \/ Sleep(r) \/ Wake(r)
      PROVE  AnswersMatch'
  BY <1>4, <1>5 DEF ChooseId, SendTracked, QueryEnds, QueryFinds, StartPolling, Sleep, Wake
<1>6. ASSUME HandleRequest \/ Respond \/ StoreResponse \/ UNCHANGED vars PROVE AnswersMatch'
  BY <1>4, <1>6 DEF HandleRequest, Respond, StoreResponse, vars
<1> QED
  BY <1>1, <1>3, <1>5, <1>6 DEF Next

LEMMA PairInit == Init => OneIdPerQuery /\ PairInv /\ AnswersMatch
<1> SUFFICES ASSUME Init PROVE OneIdPerQuery /\ PairInv /\ AnswersMatch
  OBVIOUS
<1>1. OneIdPerQuery
  BY DEF Init, OneIdPerQuery
<1>2. PairInv
  BY DEF Init, PairInv, PairQueues, PairChannel, PairBuffer, Kept
<1>3. AnswersMatch
  BY DEF Init, AnswersMatch
<1> QED
  BY <1>1, <1>2, <1>3

\* When ids are unique, each query reports once, no queue overflows and the
\* swarm reports in the order of the queries, query_network returns to a caller
\* the answer to its own request, or an error.  Without the order the run
\* request_reordered shows that it does not.
THEOREM AnswersMatchTheorem ==
  ASSUME EnoughIds, OnlyOnce, RoomForIds, InOrder
  PROVE  Spec => []AnswersMatch
<1> DEFINE Inv == /\ TypeOK /\ MutexInv /\ IdsInv /\ FlowInv /\ PlaceInv
                  /\ OneIdPerQuery /\ PairInv /\ AnswersMatch
<1>1. Init => Inv
  BY TypeInit, IdsInit, FlowInit, PlaceInit, PairInit
<1>2. ASSUME Inv, [Next]_vars PROVE Inv'
  <2>1. TypeOK' /\ MutexInv'
    BY <1>2, TypeStep, MutexStep
  <2>2. IdsInv' /\ FlowInv' /\ PlaceInv'
    BY <1>2, EnoughIds, IdsStep, FlowStep, PlaceStep
  <2>3. OneIdPerQuery'
    BY <1>2, OnlyOnce, RoomForIds, OneIdStep
  <2>4. PairInv' /\ AnswersMatch'
    BY <1>2, OnlyOnce, RoomForIds, InOrder, PairStep, MatchStep
  <2> QED
    BY <2>1, <2>2, <2>3, <2>4
<1>3. Inv => AnswersMatch
  OBVIOUS
<1> QED
  BY <1>1, <1>2, <1>3, PTL DEF Spec

-----------------------------------------------------------------------------
(* Trials: ReadyAnswerIsRead *)

LEMMA RequestCount == Cardinality(Requests) \in Nat
BY FS_CardinalityType

\* Each answer on its way belongs to a request of its own.
LEMMA AnswersOnWay ==
  ASSUME TypeOK, IdsInv, PlaceInv
  PROVE  Len(toApp) <= Cardinality(Requests)
<1>0. Len(toApp) \in Nat /\ \A n \in 1 .. Len(toApp) : toApp[n] \in Answer
  BY DEF TypeOK
<1>1. Len(toApp) \in Nat /\ \A n \in 1 .. Len(toApp) : toApp[n].id \in Ids
  BY <1>0 DEF Answer
<1>2. \A n \in 1 .. Len(toApp) : \E r \in Requests : Owner(r, toApp[n].id)
  BY <1>1 DEF PlaceInv, OnWay
<1> DEFINE f == [n \in 1 .. Len(toApp) |-> CHOOSE r \in Requests : Owner(r, toApp[n].id)]
<1>3. \A n \in 1 .. Len(toApp) : f[n] \in Requests /\ Owner(f[n], toApp[n].id)
  BY <1>2
<1>4. f \in [1 .. Len(toApp) -> Requests]
  BY <1>3
<1>5. \A m, n \in 1 .. Len(toApp) : f[m] = f[n] => m = n
  BY <1>3 DEF Owner, PlaceInv
<1> HIDE DEF f
<1>6. f \in Injection(1 .. Len(toApp), Requests)
  BY <1>4, <1>5 DEF Injection, IsInjective
<1>7. Cardinality(1 .. Len(toApp)) <= Cardinality(Requests)
  BY <1>6, FS_Injection
<1>8. \A n \in Nat : Cardinality(1 .. n) = n
  BY FS_Interval
<1> QED
  BY <1>1, <1>7, <1>8

\* So does each answer that is kept, and another one than an answer on its way.
LEMMA AnswersKept ==
  ASSUME TypeOK, IdsInv, PlaceInv, NEW h \in Ids, OnWay(h)
  PROVE  Cardinality(Stored) \in Nat /\ Cardinality(Stored) < Cardinality(Requests)
<1>1. PICK q \in Requests : Owner(q, h)
  BY DEF PlaceInv
<1> DEFINE R == Requests \ {q}
           f == [i \in Stored |-> CHOOSE r \in Requests : Owner(r, i)]
<1>2. \A i \in Stored : i \in Ids /\ Kept(i)
  BY DEF Stored, Kept
<1>3. \A i \in Stored : f[i] \in Requests /\ Owner(f[i], i)
  BY <1>2 DEF PlaceInv
<1>4. \A i \in Stored : f[i] # q
  <2> SUFFICES ASSUME NEW i \in Stored, f[i] = q PROVE FALSE
    OBVIOUS
  <2>1. i = h
    BY <1>1, <1>3 DEF Owner
  <2> QED
    BY <1>2, <2>1 DEF PlaceInv
<1>5. f \in [Stored -> R]
  BY <1>3, <1>4
<1>6. \A i, j \in Stored : f[i] = f[j] => i = j
  BY <1>3 DEF Owner
<1>7. IsFiniteSet(R) /\ Cardinality(R) = Cardinality(Requests) - 1
  BY FS_RemoveElement
<1> HIDE DEF f, R
<1>8. f \in Injection(Stored, R)
  BY <1>5, <1>6 DEF Injection, IsInjective
<1>9. IsFiniteSet(Stored) /\ Cardinality(Stored) <= Cardinality(R)
  BY <1>7, <1>8, FS_Injection
<1> QED
  BY <1>7, <1>9, RequestCount, FS_CardinalityType

\* The response task stays ahead of those it is ahead of while others leave the
\* mutex or join the queue for it, and gets ahead of a poller that goes to the end.
LEMMA AheadFacts ==
  ASSUME TypeOK, NEW q \in Requests
  PROVE  /\ \A t \in Requests \cup {Responder} :
              Ahead(q) /\ mutex' = Append(mutex, t) => Ahead(q)'
         /\ \A t \in Requests :
              Holds(t) /\ Ahead(q) /\ mutex' = Tail(mutex) => Ahead(q)'
         /\ \A t \in Requests :
              Holds(t) /\ Ahead(q) /\ mutex' = Append(Tail(mutex), t) => Ahead(q)'
         /\ Holds(q) /\ Contains(mutex, Responder) /\ mutex' = Append(Tail(mutex), q)
              => Ahead(q)'
<1>0. mutex \in Seq(Requests \cup {Responder}) /\ Len(mutex) \in Nat
  BY DEF TypeOK
<1>1. ASSUME NEW t \in Requests \cup {Responder}, Ahead(q), mutex' = Append(mutex, t)
      PROVE  Ahead(q)'
  <2>1. PICK m, n \in 1 .. Len(mutex) : m < n /\ mutex[m] = Responder /\ mutex[n] = q
    BY <1>1 DEF Ahead
  <2>2. m \in 1 .. Len(mutex') /\ n \in 1 .. Len(mutex') /\ mutex'[m] = Responder /\ mutex'[n] = q
    BY <1>0, <1>1, <2>1
  <2> QED
    BY <2>1, <2>2 DEF Ahead
<1>2. ASSUME NEW t \in Requests, Holds(t)
      PROVE  /\ Len(Tail(mutex)) = Len(mutex) - 1 /\ Tail(mutex) \in Seq(Requests \cup {Responder})
             /\ \A m \in 1 .. Len(mutex) : mutex[m] = Responder =>
                  m - 1 \in 1 .. Len(mutex) - 1
             /\ \A m \in 1 .. Len(mutex) - 1 : Tail(mutex)[m] = mutex[m + 1]
  <2>1. mutex # <<>> /\ mutex[1] # Responder
    BY <1>0, <1>2, ResponderIsNoRequest DEF Holds
  <2>2. \A m \in 1 .. Len(mutex) : mutex[m] = Responder => m - 1 \in 1 .. Len(mutex) - 1
    BY <1>0, <2>1
  <2> DEFINE S == Requests \cup {Responder}
  <2>3. mutex \in Seq(S)
    BY <1>0
  <2> HIDE DEF S
  <2>4. /\ Len(Tail(mutex)) = Len(mutex) - 1 /\ Tail(mutex) \in Seq(S)
        /\ \A m \in 1 .. Len(mutex) - 1 : Tail(mutex)[m] = mutex[m + 1]
    BY <2>1, <2>3, TailFacts
  <2> QED
    BY <2>2, <2>4 DEF S
<1>3. ASSUME NEW t \in Requests, Holds(t), Ahead(q),
             mutex' = Tail(mutex) \/ mutex' = Append(Tail(mutex), t)
      PROVE  Ahead(q)'
  <2>1. PICK m, n \in 1 .. Len(mutex) : m < n /\ mutex[m] = Responder /\ mutex[n] = q
    BY <1>3 DEF Ahead
  <2>2. m - 1 \in 1 .. Len(mutex) - 1 /\ n - 1 \in 1 .. Len(mutex) - 1
    BY <1>0, <1>2, <1>3, <2>1
  <2> DEFINE s == Tail(mutex)
  <2>3. /\ s \in Seq(Requests \cup {Responder}) /\ Len(s) = Len(mutex) - 1
        /\ s[m - 1] = Responder /\ s[n - 1] = q
    BY <1>2, <1>3, <2>1, <2>2
  <2>4. mutex' = s \/ mutex' = Append(s, t)
    BY <1>3
  <2> HIDE DEF s
  <2>5. /\ m - 1 \in 1 .. Len(mutex') /\ n - 1 \in 1 .. Len(mutex')
        /\ mutex'[m - 1] = Responder /\ mutex'[n - 1] = q
    <3>1. CASE mutex' = s
      BY <2>2, <2>3, <3>1
    <3>2. CASE mutex' = Append(s, t)
      BY <1>0, <2>2, <2>3, <3>2
    <3> QED
      BY <2>4, <3>1, <3>2
  <2>6. m - 1 < n - 1
    BY <2>1
  <2> QED
    BY <2>5, <2>6 DEF Ahead
<1>4. ASSUME Holds(q), Contains(mutex, Responder), mutex' = Append(Tail(mutex), q)
      PROVE  Ahead(q)'
  <2>1. PICK m \in 1 .. Len(mutex) : mutex[m] = Responder
    BY <1>4 DEF Contains
  <2>2. m - 1 \in 1 .. Len(mutex) - 1
    BY <1>2, <1>4, <2>1
  <2> DEFINE s == Tail(mutex)
  <2>3. /\ s \in Seq(Requests \cup {Responder}) /\ Len(s) = Len(mutex) - 1
        /\ s[m - 1] = Responder
    BY <1>2, <1>4, <2>1, <2>2
  <2>4. mutex' = Append(s, q)
    BY <1>4
  <2> HIDE DEF s
  <2>5. /\ m - 1 \in 1 .. Len(mutex') /\ Len(mutex) \in 1 .. Len(mutex')
        /\ mutex'[m - 1] = Responder /\ mutex'[Len(mutex)] = q
    BY <1>0, <2>2, <2>3, <2>4
  <2>6. m - 1 < Len(mutex)
    BY <1>0, <2>1
  <2> QED
    BY <2>5, <2>6 DEF Ahead
<1> QED
  BY <1>1, <1>3, <1>4

\* Nobody is ahead of the holder.
LEMMA HolderIsFirst ==
  ASSUME TypeOK, MutexInv, NEW r \in Requests, Holds(r)
  PROVE  ~Ahead(r)
<1>1. mutex \in Seq(Requests \cup {Responder}) /\ mutex # <<>> /\ mutex[1] = r /\ Distinct(mutex)
  BY DEF TypeOK, Holds, MutexInv
<1>2. 1 \in 1 .. Len(mutex)
  BY <1>1
<1> SUFFICES ASSUME NEW m \in 1 .. Len(mutex), NEW n \in 1 .. Len(mutex),
                    m < n, mutex[n] = r
             PROVE  FALSE
  BY DEF Ahead
<1>3. n = 1
  BY <1>1, <1>2 DEF Distinct
<1> QED
  BY <1>3

LEMMA InTimeFrame ==
  ASSUME TypeOK, NEW q \in Requests, InTime(q),
         id'[q] = id[q], trials'[q] = trials[q], stage'[q] = stage[q],
         Ahead(q) => Ahead(q)',
         Kept(id[q]) => buffer'[id[q]] # NoAnswer,
         \A n \in 1 .. Len(toApp) : n \in 1 .. Len(toApp') /\ toApp'[n] = toApp[n]
  PROVE  InTime(q)'
<1>1. Bonus(q) \in 0 .. 1 /\ Bonus(q)' \in 0 .. 1 /\ Bonus(q) <= Bonus(q)'
  BY DEF Bonus
<1>2. trials[q] \in Nat
  BY DEF TypeOK
<1>3. CASE Kept(id[q])
  BY <1>3 DEF InTime, Kept
<1>4. CASE \E p \in 1 .. Len(toApp) :
             toApp[p].id = id[q] /\ p + trials[q] <= Cardinality(Requests) + Bonus(q)
  <2>1. PICK p \in 1 .. Len(toApp) :
          toApp[p].id = id[q] /\ p + trials[q] <= Cardinality(Requests) + Bonus(q)
    BY <1>4
  <2>2. p \in 1 .. Len(toApp') /\ toApp'[p].id = id'[q]
    BY <2>1
  <2>3. p + trials'[q] <= Cardinality(Requests) + Bonus(q)'
    BY <1>1, <1>2, <2>1, RequestCount
  <2> QED
    BY <2>2, <2>3 DEF InTime
<1> QED
  BY <1>3, <1>4 DEF InTime

\* The steps that leave the answers, or add one to those on their way.
LEMMA InTimeQuiet ==
  ASSUME TypeOK, PollersInTime, UNCHANGED <<ready, trials, buffer>>,
         \A q \in Requests : stage[q] \in {"polling", "sleeping"} => id'[q] = id[q],
         \A q \in Requests : stage'[q] \in {"polling", "sleeping"} => stage'[q] = stage[q],
         \A q \in Requests : Ahead(q) => Ahead(q)',
         toApp' = toApp \/ \E a \in Answer : toApp' = Append(toApp, a)
  PROVE  PollersInTime'
<1> SUFFICES ASSUME NEW q \in Requests, ready'[q], stage'[q] \in {"polling", "sleeping"}
             PROVE  InTime(q)'
  BY DEF PollersInTime
<1>1. stage'[q] = stage[q] /\ id'[q] = id[q] /\ InTime(q)
  BY DEF PollersInTime
<1>2. \A n \in 1 .. Len(toApp) : n \in 1 .. Len(toApp') /\ toApp'[n] = toApp[n]
  <2>1. toApp \in Seq(Answer)
    BY DEF TypeOK
  <2> QED
    BY <2>1
<1>3. Kept(id[q]) => buffer'[id[q]] # NoAnswer
  BY DEF Kept
<1> QED
  BY <1>1, <1>2, <1>3, InTimeFrame

LEMMA InTimeStart ==
  ASSUME TypeOK, IdsInv, PlaceInv, TrialsInv, NEW r \in Requests, StartPolling(r)
  PROVE  PollersInTime'
<1>0. stage \in [Requests -> Stages] /\ ready \in [Requests -> BOOLEAN]
  BY DEF TypeOK
<1>1. /\ stage[r] = "sent" /\ stage' = [stage EXCEPT ![r] = "polling"]
      /\ ready' = [ready EXCEPT ![r] = AnswerUnderWay(r)]
      /\ mutex' = Append(mutex, r) /\ UNCHANGED <<id, trials, toApp, buffer>>
  BY DEF StartPolling, sending
<1> SUFFICES ASSUME NEW q \in Requests, ready'[q], stage'[q] \in {"polling", "sleeping"}
             PROVE  InTime(q)'
  BY DEF PollersInTime
<1>2. CASE q = r
  <2>1. AnswerUnderWay(r) /\ id[r] \in Ids /\ trials'[r] = 0
    BY <1>0, <1>1, <1>2 DEF TrialsInv, TypeOK
  <2>2. CASE buffer[id[r]] = r
    <3>1. buffer'[id'[r]] # NoAnswer
      BY <1>1, <2>2
    <3> QED
      BY <1>2, <3>1 DEF InTime, Kept
  <2>3. CASE \E i \in 1 .. Len(toApp) : toApp[i] = [id |-> id[r], about |-> r]
    <3>1. PICK p \in 1 .. Len(toApp) : toApp[p].id = id[r]
      BY <2>3
    <3>2. Len(toApp) <= Cardinality(Requests) /\ Len(toApp) \in Nat
      BY AnswersOnWay DEF TypeOK
    <3>3. Bonus(r)' \in 0 .. 1
      BY DEF Bonus
    <3>4. p + trials'[r] <= Cardinality(Requests) + Bonus(r)'
      BY <2>1, <3>2, <3>3, RequestCount
    <3>5. p \in 1 .. Len(toApp') /\ toApp'[p].id = id'[r]
      BY <1>1, <3>1
    <3> QED
      BY <1>2, <3>4, <3>5 DEF InTime
  <2> QED
    BY <2>1, <2>2, <2>3 DEF AnswerUnderWay
<1>3. CASE q # r
  <2>1. stage'[q] = stage[q] /\ InTime(q)
    BY <1>0, <1>1, <1>3 DEF TrialsInv, PollersInTime
  <2>2. Ahead(q) => Ahead(q)'
    BY <1>1, AheadFacts
  <2> QED
    BY <1>1, <2>1, <2>2, InTimeFrame DEF Kept
<1> QED
  BY <1>2, <1>3

\* A holder that found an answer, or gives up.
LEMMA InTimeLeave ==
  ASSUME TypeOK, IdsInv, PollersInTime, NEW r \in Requests, TakeAnswer(r) \/ GiveUp(r)
  PROVE  PollersInTime'
<1>0. /\ stage \in [Requests -> Stages] /\ id \in [Requests -> Ids]
      /\ buffer \in [Ids -> About]
  BY DEF TypeOK
<1>1. /\ stage[r] = "polling" /\ Holds(r) /\ stage' = [stage EXCEPT ![r] = "done"]
      /\ mutex' = Tail(mutex) /\ UNCHANGED <<id, trials, ready, toApp>>
      /\ buffer' = buffer \/ buffer' = [buffer EXCEPT ![id[r]] = NoAnswer]
  BY DEF TakeAnswer, GiveUp, sending
<1> SUFFICES ASSUME NEW q \in Requests, ready'[q], stage'[q] \in {"polling", "sleeping"}
             PROVE  InTime(q)'
  BY DEF PollersInTime
<1>2. q # r /\ stage'[q] = stage[q] /\ InTime(q)
  BY <1>0, <1>1 DEF PollersInTime
<1>3. Ahead(q) => Ahead(q)'
  BY <1>1, AheadFacts
<1>4. id[q] # id[r]
  <2>1. Tracked(q) /\ Tracked(r)
    BY <1>0, <1>1, <1>2 DEF IdsInv, Tracked
  <2> QED
    BY <1>2, <2>1 DEF IdsInv
<1>5. Kept(id[q]) => buffer'[id[q]] # NoAnswer
  BY <1>0, <1>1, <1>4 DEF Kept
<1> QED
  BY <1>1, <1>2, <1>3, <1>5, InTimeFrame

LEMMA InTimeSleep ==
  ASSUME TypeOK, MutexInv, PollersInTime, NEW r \in Requests, Sleep(r)
  PROVE  PollersInTime'
<1>0. stage \in [Requests -> Stages] /\ trials \in [Requests -> 0 .. MaxTrials]
  BY DEF TypeOK
<1>1. /\ stage[r] = "polling" /\ Holds(r) /\ buffer[id[r]] = NoAnswer
      /\ trials' = [trials EXCEPT ![r] = @ + 1] /\ stage' = [stage EXCEPT ![r] = "sleeping"]
      /\ UNCHANGED <<id, ready, toApp, buffer, mutex>>
  BY DEF Sleep, sending
<1> SUFFICES ASSUME NEW q \in Requests, ready'[q], stage'[q] \in {"polling", "sleeping"}
             PROVE  InTime(q)'
  BY DEF PollersInTime
<1>2. Ahead(q) => Ahead(q)'
  BY <1>1 DEF Ahead
<1>3. CASE q = r
  <2>1. Bonus(r) = 0 /\ Bonus(r)' = 1
    BY <1>0, <1>1, HolderIsFirst DEF Bonus
  <2>2. PICK p \in 1 .. Len(toApp) :
          toApp[p].id = id[r] /\ p + trials[r] <= Cardinality(Requests) + Bonus(r)
    BY <1>1, <1>3 DEF PollersInTime, InTime, Kept
  <2>3. trials'[r] = trials[r] + 1 /\ trials[r] \in Nat
    BY <1>0, <1>1
  <2>4. p + trials'[r] <= Cardinality(Requests) + Bonus(r)'
    BY <2>1, <2>2, <2>3, RequestCount
  <2>5. p \in 1 .. Len(toApp') /\ toApp'[p].id = id'[r]
    BY <1>1, <2>2
  <2> QED
    BY <1>3, <2>4, <2>5 DEF InTime
<1>4. CASE q # r
  <2>1. stage'[q] = stage[q] /\ trials'[q] = trials[q] /\ InTime(q)
    BY <1>0, <1>1, <1>4 DEF PollersInTime
  <2> QED
    BY <1>1, <1>2, <2>1, InTimeFrame DEF Kept
<1> QED
  BY <1>3, <1>4

LEMMA InTimeWake ==
  ASSUME TypeOK, MutexInv, PollersInTime, NEW r \in Requests, Wake(r)
  PROVE  PollersInTime'
<1>0. stage \in [Requests -> Stages] /\ trials \in [Requests -> 0 .. MaxTrials]
  BY DEF TypeOK
<1>1. /\ stage[r] = "sleeping" /\ Holds(r) /\ (toApp # <<>> => Contains(mutex, Responder))
      /\ stage' = [stage EXCEPT ![r] = "polling"] /\ mutex' = Append(Tail(mutex), r)
      /\ UNCHANGED <<id, trials, ready, toApp, buffer>>
  BY DEF Wake, MutexInv, sending
<1> SUFFICES ASSUME NEW q \in Requests, ready'[q], stage'[q] \in {"polling", "sleeping"}
             PROVE  InTime(q)'
  BY DEF PollersInTime
<1>2. CASE q = r
  <2>1. CASE Kept(id[r])
    BY <1>1, <1>2, <2>1 DEF InTime, Kept
  <2>2. CASE ~Kept(id[r])
    <3>1. PICK p \in 1 .. Len(toApp) :
            toApp[p].id = id[r] /\ p + trials[r] <= Cardinality(Requests) + Bonus(r)
      BY <1>1, <1>2, <2>2 DEF PollersInTime, InTime
    <3>2. toApp # <<>>
      BY <3>1
    <3>3. Ahead(r)'
      BY <1>1, <3>2, AheadFacts
    <3>4. Bonus(r) = 1 /\ Bonus(r)' = 1
      BY <1>1, <3>3 DEF Bonus
    <3>5. p \in 1 .. Len(toApp') /\ toApp'[p].id = id'[r]
          /\ p + trials'[r] <= Cardinality(Requests) + Bonus(r)'
      BY <1>1, <3>1, <3>4
    <3> QED
      BY <1>2, <3>5 DEF InTime
  <2> QED
    BY <2>1, <2>2
<1>3. CASE q # r
  <2>1. stage'[q] = stage[q] /\ InTime(q)
    BY <1>0, <1>1, <1>3 DEF PollersInTime
  <2>2. Ahead(q) => Ahead(q)'
    BY <1>1, AheadFacts
  <2> QED
    BY <1>1, <2>1, <2>2, InTimeFrame DEF Kept
<1> QED
  BY <1>2, <1>3

LEMMA InTimeStore ==
  ASSUME RoomForAnswers, TypeOK, MutexInv, IdsInv, PlaceInv, PollersInTime, StoreResponse
  PROVE  PollersInTime'
<1>1. PICK h \in Ids, a \in Requests : h = Head(toApp).id /\ a = Head(toApp).about
  BY RespondFacts
<1>2. toApp # <<>> /\ toApp' = Tail(toApp)
  BY RespondFacts
<1>3. UNCHANGED <<stage, ready, id, trials>>
  BY DEF StoreResponse, sending
<1>4. /\ Len(toApp) \in Nat /\ Head(toApp) = toApp[1] /\ OnWay(h)
      /\ Len(toApp') = Len(toApp) - 1
      /\ \A n \in 1 .. Len(toApp) - 1 : toApp'[n] = toApp[n + 1]
  BY <1>1, <1>2, AnswerTaken DEF TypeOK
<1>5. Cardinality(Stored) < ResponseSize
  BY <1>1, <1>4, AnswersKept, RequestCount DEF RoomForAnswers
<1>6. buffer' = [buffer EXCEPT ![h] = a]
  BY <1>1, <1>5 DEF StoreResponse
<1>7. a # NoAnswer /\ buffer \in [Ids -> About] /\ id \in [Requests -> Ids]
      /\ trials \in [Requests -> 0 .. MaxTrials]
  BY DEF TypeOK
<1> SUFFICES ASSUME NEW q \in Requests, ready'[q], stage'[q] \in {"polling", "sleeping"}
             PROVE  InTime(q)'
  BY DEF PollersInTime
<1>8. InTime(q)
  BY <1>3 DEF PollersInTime
<1>9. CASE Kept(id[q]) \/ id[q] = h
  <2>1. buffer'[id'[q]] # NoAnswer
    BY <1>3, <1>6, <1>7, <1>9 DEF Kept
  <2> QED
    BY <2>1 DEF InTime, Kept
<1>10. CASE ~Kept(id[q]) /\ id[q] # h
  <2>1. PICK p \in 1 .. Len(toApp) :
          toApp[p].id = id[q] /\ p + trials[q] <= Cardinality(Requests) + Bonus(q)
    BY <1>8, <1>10 DEF InTime
  <2>2. p # 1
    BY <1>1, <1>4, <1>10, <2>1
  <2>3. p - 1 \in 1 .. Len(toApp') /\ toApp'[p - 1].id = id'[q]
    BY <1>3, <1>4, <2>1, <2>2
  <2>4. Bonus(q) \in 0 .. 1 /\ Bonus(q)' \in 0 .. 1 /\ trials[q] \in Nat
    BY <1>7 DEF Bonus
  <2>5. (p - 1) + trials'[q] <= Cardinality(Requests) + Bonus(q)'
    BY <1>3, <2>1, <2>4, RequestCount
  <2> QED
    BY <2>3, <2>5 DEF InTime
<1> QED
  BY <1>9, <1>10

LEMMA InTimeStep ==
  ASSUME RoomForAnswers, TypeOK, MutexInv, IdsInv, FlowInv, PlaceInv, TrialsInv, [Next]_vars
  PROVE  PollersInTime'
<1> USE DEF sending, network
<1>0. stage \in [Requests -> Stages] /\ id \in [Requests -> Ids] /\ PollersInTime
  BY DEF TypeOK, TrialsInv
<1>a. ASSUME UNCHANGED mutex PROVE \A q \in Requests : Ahead(q) => Ahead(q)'
  BY <1>a DEF Ahead
<1>1. ASSUME NEW r \in Requests,
             ChooseId(r) \/ RejectRequest(r) \/ SendTracked(r) \/ SendUntracked(r)
      PROVE  PollersInTime'
  <2>1. UNCHANGED <<ready, trials, buffer, toApp, mutex>>
    BY <1>1 DEF ChooseId, RejectRequest, SendTracked, SendUntracked
  <2>2. \A q \in Requests : stage[q] \in {"polling", "sleeping"} => id'[q] = id[q]
    BY <1>0, <1>1 DEF ChooseId, RejectRequest, SendTracked, SendUntracked
  <2>3. \A q \in Requests : stage'[q] \in {"polling", "sleeping"} => stage'[q] = stage[q]
    BY <1>0, <1>1 DEF ChooseId, RejectRequest, SendTracked, SendUntracked
  <2> QED
    BY <1>0, <1>a, <2>1, <2>2, <2>3, InTimeQuiet
<1>b. ASSUME UNCHANGED <<stage, id, ready, trials, buffer>>,
             \A q \in Requests : Ahead(q) => Ahead(q)',
             toApp' = toApp \/ \E a \in Answer : toApp' = Append(toApp, a)
      PROVE  PollersInTime'
  BY <1>0, <1>b, InTimeQuiet
<1>2. ASSUME NEW r \in Requests, QueryEnds(r) \/ QueryFinds(r) PROVE PollersInTime'
  <2>1. Kind[r] \in Queued /\ Answered(r) /\ UNCHANGED <<stage, id, ready, trials, buffer, mutex>>
    BY <1>2 DEF QueryEnds, QueryFinds
  <2>2. toApp' = toApp \/ \E a \in Answer : toApp' = Append(toApp, a)
    BY <2>1, AnsweredFacts DEF Answer
  <2> QED
    BY <1>a, <1>b, <2>1, <2>2
<1>3. ASSUME HandleRequest PROVE PollersInTime'
  <2>1. UNCHANGED <<stage, id, ready, trials, buffer, mutex>>
    BY <1>3 DEF HandleRequest
  <2>2. [id |-> id[Head(toNetwork)], about |-> Head(toNetwork)] \in Answer
    BY <1>3, HandleFacts DEF TypeOK, Answer
  <2>3. toApp' = toApp \/ \E a \in Answer : toApp' = Append(toApp, a)
    BY <1>3, <2>2 DEF HandleRequest
  <2> QED
    BY <1>a, <1>b, <2>1, <2>3
<1>4. ASSUME Respond PROVE PollersInTime'
  <2>1. \A q \in Requests : Ahead(q) => Ahead(q)'
    BY <1>4, AheadFacts DEF Respond
  <2> QED
    BY <1>4, <1>b, <2>1 DEF Respond
<1>5. CASE UNCHANGED vars
  BY <1>5, <1>a, <1>b DEF vars
<1> QED
  BY <1>0, <1>1, <1>2, <1>3, <1>4, <1>5, InTimeStart, InTimeLeave, InTimeSleep, InTimeWake,
     InTimeStore DEF Next

LEMMA TrialsStep ==
  ASSUME RoomForAnswers, TypeOK, MutexInv, IdsInv, FlowInv, PlaceInv, TrialsInv, [Next]_vars
  PROVE  TrialsInv'
<1> USE DEF sending, network
<1>0. /\ stage \in [Requests -> Stages] /\ outcome \in [Requests -> Outcomes]
      /\ trials \in [Requests -> 0 .. MaxTrials]
      /\ \A r \in Requests : stage[r] # "done" => outcome[r] = "pending"
      /\ \A r \in Requests : stage[r] \in {"new", "chosen", "sent"} => trials[r] = 0
  BY DEF TypeOK, TrialsInv
<1> DEFINE Pending == \A r \in Requests : stage[r] # "done" => outcome[r] = "pending"
           Untried == \A r \in Requests : stage[r] \in {"new", "chosen", "sent"} => trials[r] = 0
<1>1. ASSUME NEW r \in Requests,
             ChooseId(r) \/ SendTracked(r) \/ StartPolling(r) \/ Wake(r)
      PROVE  (Pending /\ Untried)'
  BY <1>0, <1>1 DEF ChooseId, SendTracked, StartPolling, Wake
<1>2. ASSUME NEW r \in Requests,
             RejectRequest(r) \/ SendUntracked(r) \/ TakeAnswer(r) \/ GiveUp(r)
      PROVE  (Pending /\ Untried)'
  BY <1>0, <1>2 DEF RejectRequest, SendUntracked, TakeAnswer, GiveUp
<1>3. ASSUME NEW r \in Requests, Sleep(r) PROVE (Pending /\ Untried)'
  BY <1>0, <1>3 DEF Sleep
<1>4. ASSUME UNCHANGED <<stage, outcome, trials>> PROVE (Pending /\ Untried)'
  BY <1>0, <1>4
<1>5. ASSUME NEW r \in Requests, QueryEnds(r) \/ QueryFinds(r) PROVE (Pending /\ Untried)'
  BY <1>4, <1>5 DEF QueryEnds, QueryFinds
<1>6. ASSUME HandleRequest \/ Respond \/ StoreResponse \/ UNCHANGED vars
      PROVE  (Pending /\ Untried)'
  BY <1>4, <1>6 DEF HandleRequest, Respond, StoreResponse, vars
<1>7. (Pending /\ Untried)'
  BY <1>1, <1>2, <1>3, <1>5, <1>6 DEF Next
<1> QED
  BY <1>7, InTimeStep DEF TrialsInv

\* A poller that gives up holds the mutex and has used its trials: by then an
\* answer that was there when it began has been stored.
LEMMA ReadyStep ==
  ASSUME EnoughTrials, TypeOK, MutexInv, TrialsInv, ReadyAnswerIsRead, [Next]_vars
  PROVE  ReadyAnswerIsRead'
<1>0. /\ stage \in [Requests -> Stages] /\ outcome \in [Requests -> Outcomes]
      /\ ready \in [Requests -> BOOLEAN] /\ trials \in [Requests -> 0 .. MaxTrials]
      /\ "timeout" \notin Requests
  BY DEF TypeOK, Failures
<1>1. ASSUME NEW r \in Requests, GiveUp(r) PROVE ReadyAnswerIsRead'
  <2>1. /\ stage[r] = "polling" /\ Holds(r) /\ ~Kept(id[r]) /\ ~(trials[r] < MaxTrials)
        /\ outcome' = [outcome EXCEPT ![r] = "timeout"] /\ ready' = ready
    BY <1>1 DEF GiveUp, MayTryAgain, Kept
  <2>2. ~ready[r]
    <3> SUFFICES ASSUME ready[r] PROVE FALSE
      OBVIOUS
    <3>1. Bonus(r) = 0
      BY <2>1, HolderIsFirst DEF Bonus
    <3>2. PICK p \in 1 .. Len(toApp) : p + trials[r] <= Cardinality(Requests) + Bonus(r)
      BY <2>1 DEF TrialsInv, PollersInTime, InTime
    <3>3. trials[r] \in Nat /\ trials[r] >= Cardinality(Requests)
      BY <1>0, <2>1, RequestCount DEF EnoughTrials
    <3> QED
      BY <3>1, <3>2, <3>3, RequestCount
  <2> QED
    BY <1>0, <2>1, <2>2 DEF ReadyAnswerIsRead
<1>2. ASSUME NEW r \in Requests, StartPolling(r) PROVE ReadyAnswerIsRead'
  <2>1. outcome[r] = "pending" /\ outcome' = outcome
        /\ ready' = [ready EXCEPT ![r] = AnswerUnderWay(r)]
    BY <1>2 DEF StartPolling, TrialsInv
  <2> QED
    BY <1>0, <2>1 DEF ReadyAnswerIsRead
<1>3. ASSUME NEW r \in Requests, TakeAnswer(r) PROVE ReadyAnswerIsRead'
  <2>1. buffer[id[r]] # "timeout"
    BY <1>0, <1>3 DEF TakeAnswer, TypeOK, About
  <2> QED
    BY <1>0, <1>3, <2>1 DEF ReadyAnswerIsRead, TakeAnswer
<1>4. ASSUME NEW r \in Requests, RejectRequest(r) \/ SendUntracked(r)
      PROVE  ReadyAnswerIsRead'
  BY <1>0, <1>4 DEF ReadyAnswerIsRead, RejectRequest, SendUntracked
<1>5. ASSUME UNCHANGED <<outcome, ready>> PROVE ReadyAnswerIsRead'
  BY <1>5 DEF ReadyAnswerIsRead
<1>6. ASSUME NEW r \in Requests,
             \/ ChooseId(r) \/ SendTracked(r) \/ QueryEnds(r) \/ QueryFinds(r)
             \/ Sleep(r) \/ Wake(r)
      PROVE  ReadyAnswerIsRead'
  BY <1>5, <1>6 DEF ChooseId, SendTracked, QueryEnds, QueryFinds, Sleep, Wake
<1>7. ASSUME HandleRequest \/ Respond \/ StoreResponse \/ UNCHANGED vars
      PROVE  ReadyAnswerIsRead'
  BY <1>5, <1>7 DEF HandleRequest, Respond, StoreResponse, vars
<1> QED
  BY <1>1, <1>2, <1>3, <1>4, <1>6, <1>7 DEF Next

LEMMA TrialsInit == Init => TrialsInv /\ ReadyAnswerIsRead
BY DEF Init, TrialsInv, PollersInTime, ReadyAnswerIsRead

\* When ids are unique, the response buffer has room for every answer and there
\* are no more pollers than trials, a request whose answer was there when it
\* began to poll does not time out, however the pollers and the response task
\* take turns at the mutex.
THEOREM ReadyAnswerTheorem ==
  ASSUME EnoughIds, RoomForAnswers, EnoughTrials
  PROVE  Spec => []ReadyAnswerIsRead
<1> DEFINE Inv == /\ TypeOK /\ MutexInv /\ IdsInv /\ FlowInv /\ PlaceInv
                  /\ TrialsInv /\ ReadyAnswerIsRead
<1>1. Init => Inv
  BY TypeInit, IdsInit, FlowInit, PlaceInit, TrialsInit
<1>2. ASSUME Inv, [Next]_vars PROVE Inv'
  <2>1. TypeOK' /\ MutexInv'
    BY <1>2, TypeStep, MutexStep
  <2>2. IdsInv' /\ FlowInv' /\ PlaceInv'
    BY <1>2, EnoughIds, IdsStep, FlowStep, PlaceStep
  <2>3. TrialsInv' /\ ReadyAnswerIsRead'
    BY <1>2, RoomForAnswers, EnoughTrials, TrialsStep, ReadyStep
  <2> QED
    BY <2>1, <2>2, <2>3
<1>3. Inv => ReadyAnswerIsRead
  OBVIOUS
<1> QED
  BY <1>1, <1>2, <1>3, PTL DEF Spec

=============================================================================
