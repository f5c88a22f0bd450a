------------------------- MODULE SimpleGame_proofs -------------------------
(***************************************************************************)
(* Proofs about the event queues and the game above them: what an          *)
(* application that follows the events of a node will know, which          *)
(* connections a node leaves alone, and that scores, losers and winners    *)
(* agree.                                                                  *)
(*                                                                         *)
(* A loop over a sequence is a recursive function in the model; a first    *)
(* part proves what it computes, by induction on the positions.  Then come *)
(* the types, the steps of the model grouped by what they do to the event  *)
(* queues and the streams, and one invariant per property.                 *)
(***************************************************************************)
EXTENDS NodeSetup_proofs, FiniteSetTheorems, WellFoundedInduction

(* Sequences, and loops over them *)

IsSeq(s) == \E S : s \in Seq(S)

LEMMA SeqFacts ==
  ASSUME NEW s, IsSeq(s)
  PROVE  /\ Len(s) \in Nat /\ DOMAIN s = 1..Len(s)
         /\ s = <<>> <=> Len(s) = 0
BY DEF IsSeq

LEMMA AppendFacts ==
  ASSUME NEW s, IsSeq(s), NEW e
  PROVE  /\ IsSeq(Append(s, e)) /\ Len(Append(s, e)) = Len(s) + 1
         /\ \A i \in 1..Len(s) + 1 : Append(s, e)[i] = IF i = Len(s) + 1 THEN e ELSE s[i]
<1>1. PICK S : s \in Seq(S)
  BY DEF IsSeq
<1> DEFINE R == S \cup {e}
<1>2. s \in Seq(R) /\ e \in R
  BY <1>1
<1> HIDE DEF R
<1>3. Append(s, e) \in Seq(R)
  BY <1>2
<1> QED BY <1>2, <1>3 DEF IsSeq

LEMMA TailFacts ==
  ASSUME NEW s, IsSeq(s), s # <<>>
  PROVE  /\ IsSeq(Tail(s)) /\ Len(s) \in Nat \ {0} /\ Len(Tail(s)) = Len(s) - 1
         /\ Head(s) = s[1]
         /\ \A i \in 1..Len(s) - 1 : Tail(s)[i] = s[i + 1]
<1>1. PICK S : s \in Seq(S)
  BY DEF IsSeq
<1>2. Tail(s) \in Seq(S)
  BY <1>1
<1> QED BY <1>1, <1>2 DEF IsSeq

LEMMA FunctionFacts ==
  ASSUME NEW n \in Nat, NEW f, f = [i \in 1..n |-> f[i]]
  PROVE  IsSeq(f) /\ Len(f) = n
<1> DEFINE S == {f[i] : i \in 1..n}
<1>1. f \in [1..n -> S]
  OBVIOUS
<1> HIDE DEF S
<1>2. f \in Seq(S) /\ Len(f) = n
  BY <1>1
<1> QED BY <1>2 DEF IsSeq

LEMMA PrefixFacts ==
  ASSUME NEW s, IsSeq(s), NEW k \in 0..Len(s)
  PROVE  /\ IsSeq(SubSeq(s, 1, k)) /\ Len(SubSeq(s, 1, k)) = k
         /\ \A i \in 1..k : SubSeq(s, 1, k)[i] = s[i]
<1>1. PICK S : s \in Seq(S)
  BY DEF IsSeq
<1>2. SubSeq(s, 1, k) \in Seq(S)
  BY <1>1
<1> QED BY <1>1, <1>2 DEF IsSeq

LEMMA ConcatFacts ==
  ASSUME NEW s, IsSeq(s), NEW t, IsSeq(t)
  PROVE  /\ IsSeq(s \o t) /\ Len(s \o t) = Len(s) + Len(t)
         /\ \A i \in 1..Len(s) + Len(t) :
              (s \o t)[i] = IF i <= Len(s) THEN s[i] ELSE t[i - Len(s)]
<1>1. PICK S : s \in Seq(S)
  BY DEF IsSeq
<1>2. PICK R : t \in Seq(R)
  BY DEF IsSeq
<1> DEFINE Q == S \cup R
<1>3. s \in Seq(Q) /\ t \in Seq(Q)
  BY <1>1, <1>2
<1> HIDE DEF Q
<1>4. s \o t \in Seq(Q)
  BY <1>3
<1> QED BY <1>3, <1>4 DEF IsSeq

LEMMA EmptyFacts == IsSeq(<<>>) /\ Len(<<>>) = 0
BY DEF IsSeq

LEMMA LeastMember ==
  ASSUME NEW T \in SUBSET Nat, T # {}
  PROVE  \E x \in T : \A y \in T : x <= y
<1> DEFINE R == OpToRel(<, Nat)
<1>1. IsWellFoundedOn(R, Nat)
  BY NatLessThanWellFounded
<1>2. \A x, y \in Nat : <<y, x>> \in R <=> y < x
  BY DEF OpToRel
<1> HIDE DEF R
<1>3. PICK x \in T : \A y \in T : ~(<<y, x>> \in R)
  BY <1>1, WFMin
<1>4. SUFFICES ASSUME NEW y \in T PROVE x <= y
  BY <1>3
<1>5. ~(y < x)
  BY <1>2, <1>3
<1>6. x \in Int /\ y \in Int
  OBVIOUS
<1> QED BY <1>5, <1>6, SMT

\* Induction on the positions up to n.
LEMMA Stepwise ==
  ASSUME NEW n \in Nat, NEW T, 0 \in T, \A i \in 1..n : i - 1 \in T => i \in T
  PROVE  0..n \subseteq T
<1> DEFINE Out == {k \in 0..n : k \notin T}
<1>1. SUFFICES ASSUME Out # {} PROVE FALSE
  OBVIOUS
<1>2. Out \in SUBSET Nat
  OBVIOUS
<1>3. PICK x \in Out : \A y \in Out : x <= y
  BY <1>1, <1>2, LeastMember
<1>4. x \in 1..n /\ x - 1 \in 0..n /\ x - 1 \notin Out
  BY <1>3
<1> QED BY <1>4

-----------------------------------------------------------------------------
(* The loop of a reader over the connection events *)

ToldRun(f, peers, s, n) ==
  f = [i \in 0..n |-> IF i = 0 THEN peers ELSE ToldBy(f[i - 1], s[i])]

LEMMA ToldRunExists ==
  ASSUME NEW peers, NEW s, NEW n \in Nat
  PROVE  \E f : ToldRun(f, peers, s, n)
<1> DEFINE T == {k \in 0..n : \E f : ToldRun(f, peers, s, k)}
<1>1. 0 \in T
  <2> DEFINE f == [i \in 0..0 |-> peers]
  <2>1. ToldRun(f, peers, s, 0)
    BY DEF ToldRun
  <2> QED BY <2>1
<1>2. ASSUME NEW k \in 1..n, k - 1 \in T PROVE k \in T
  <2>1. PICK f : ToldRun(f, peers, s, k - 1)
    BY <1>2
  <2> DEFINE g == [i \in 0..k |-> IF i = k THEN ToldBy(f[k - 1], s[k]) ELSE f[i]]
  <2>2. ToldRun(g, peers, s, k)
    <3>1. SUFFICES ASSUME NEW i \in 0..k
                   PROVE  g[i] = IF i = 0 THEN peers ELSE ToldBy(g[i - 1], s[i])
      BY DEF ToldRun
    <3>2. CASE i = k
      BY <3>2
    <3>3. CASE i # k
      <4>1. i \in 0..(k - 1)
        BY <3>3
      <4>2. f[i] = IF i = 0 THEN peers ELSE ToldBy(f[i - 1], s[i])
        BY <4>1, <2>1 DEF ToldRun
      <4>3. g[i] = f[i] /\ (i # 0 => g[i - 1] = f[i - 1])
        BY <4>1
      <4> QED BY <4>2, <4>3
    <3> QED BY <3>2, <3>3
  <2> QED BY <2>2
<1> HIDE DEF T
<1>3. n \in T
  BY <1>1, <1>2, Stepwise
<1> QED BY <1>3 DEF T

\* Told is what the loop ends with, and any run of the loop ends with it.
LEMMA ToldOfRun ==
  ASSUME NEW peers, NEW s, IsSeq(s)
  PROVE  /\ \E f : ToldRun(f, peers, s, Len(s)) /\ Told(peers, s) = f[Len(s)]
         /\ \A g : /\ g[0] = peers
                   /\ \A i \in 1..Len(s) : g[i] = ToldBy(g[i - 1], s[i])
                   => Told(peers, s) = g[Len(s)]
<1> DEFINE known ==
      CHOOSE f : f = [i \in 0..Len(s) |-> IF i = 0 THEN peers ELSE ToldBy(f[i - 1], s[i])]
<1>1. Len(s) \in Nat
  BY SeqFacts
<1>2. \E f : ToldRun(f, peers, s, Len(s))
  BY <1>1, ToldRunExists
<1>3. ToldRun(known, peers, s, Len(s))
  BY <1>2, Zenon DEF ToldRun
<1>4. Told(peers, s) = known[Len(s)]
  BY DEF Told
<1> HIDE DEF known
<1>5. ASSUME NEW g, g[0] = peers, \A i \in 1..Len(s) : g[i] = ToldBy(g[i - 1], s[i])
      PROVE  Told(peers, s) = g[Len(s)]
  <2> DEFINE T == {k \in 0..Len(s) : known[k] = g[k]}
  <2>1. known[0] = peers /\ \A i \in 1..Len(s) : known[i] = ToldBy(known[i - 1], s[i])
    BY <1>1, <1>3 DEF ToldRun
  <2>2. 0 \in T
    BY <1>1, <1>5, <2>1
  <2>3. ASSUME NEW i \in 1..Len(s), i - 1 \in T PROVE i \in T
    BY <1>1, <1>5, <2>1, <2>3
  <2> HIDE DEF T
  <2>4. 0..Len(s) \subseteq T
    BY <1>1, <2>2, <2>3, Stepwise
  <2>5. Len(s) \in 0..Len(s)
    BY <1>1
  <2> QED BY <1>4, <2>4, <2>5 DEF T
<1> QED BY <1>3, <1>4, <1>5

LEMMA ToldNothing == ASSUME NEW peers PROVE Told(peers, <<>>) = peers
<1> DEFINE g == [i \in 0..0 |-> peers]
<1>1. g[0] = peers /\ \A i \in 1..Len(<<>>) : g[i] = ToldBy(g[i - 1], <<>>[i])
  BY EmptyFacts
<1> HIDE DEF g
<1> QED BY <1>1, EmptyFacts, ToldOfRun

LEMMA ToldAppend ==
  ASSUME NEW peers, NEW s, IsSeq(s), NEW e
  PROVE  Told(peers, Append(s, e)) = ToldBy(Told(peers, s), e)
<1>1. PICK f : ToldRun(f, peers, s, Len(s)) /\ Told(peers, s) = f[Len(s)]
  BY ToldOfRun
<1> DEFINE n == Len(s)
           t == Append(s, e)
           g == [i \in 0..n + 1 |-> IF i <= n THEN f[i] ELSE ToldBy(f[n], e)]
<1>2. n \in Nat /\ IsSeq(t) /\ Len(t) = n + 1
      /\ \A i \in 1..n + 1 : t[i] = IF i = n + 1 THEN e ELSE s[i]
  BY SeqFacts, AppendFacts
<1> HIDE DEF n, t
<1>3. f[0] = peers /\ \A i \in 1..n : f[i] = ToldBy(f[i - 1], s[i])
  BY <1>1, <1>2 DEF ToldRun, n
<1>4. g[0] = peers
  BY <1>2, <1>3
<1>5. ASSUME NEW i \in 1..n + 1 PROVE g[i] = ToldBy(g[i - 1], t[i])
  <2>1. CASE i = n + 1
    BY <1>2, <2>1
  <2>2. CASE i # n + 1
    <3>1. i \in 1..n
      BY <1>2, <2>2
    <3>2. t[i] = s[i] /\ g[i] = f[i] /\ g[i - 1] = f[i - 1]
      BY <1>2, <3>1
    <3> QED BY <1>3, <3>1, <3>2
  <2> QED BY <2>1, <2>2
<1>6. g[n + 1] = ToldBy(f[n], e)
  BY <1>2
<1> HIDE DEF g
<1>7. Told(peers, t) = g[n + 1]
  BY <1>2, <1>4, <1>5, ToldOfRun
<1> QED BY <1>1, <1>6, <1>7 DEF n, t

\* The first event and then the rest; the numbers of the events do not matter.
LEMMA ToldFirst ==
  ASSUME NEW peers, NEW s, IsSeq(s), s # <<>>, NEW t, IsSeq(t), Len(t) = Len(s) - 1,
         \A i \in 1..Len(t) : t[i].kind = s[i + 1].kind /\ t[i].peer = s[i + 1].peer
  PROVE  Told(ToldBy(peers, s[1]), t) = Told(peers, s)
<1>1. PICK f : ToldRun(f, peers, s, Len(s)) /\ Told(peers, s) = f[Len(s)]
  BY ToldOfRun
<1> DEFINE n == Len(t)
           g == [i \in 0..n |-> f[i + 1]]
<1>2. n \in Nat /\ Len(s) = n + 1
  BY SeqFacts
<1> HIDE DEF n
<1>3. f[0] = peers /\ \A i \in 1..n + 1 : f[i] = ToldBy(f[i - 1], s[i])
  BY <1>1, <1>2 DEF ToldRun
<1>4. g[0] = ToldBy(peers, s[1])
  BY <1>2, <1>3
<1>5. ASSUME NEW i \in 1..n PROVE g[i] = ToldBy(g[i - 1], t[i])
  <2>1. g[i] = f[i + 1] /\ g[i - 1] = f[i]
    BY <1>2
  <2>2. f[i + 1] = ToldBy(f[i], s[i + 1])
    <3>1. i + 1 \in 1..n + 1 /\ (i + 1) - 1 = i
      BY <1>2
    <3> QED BY <1>3, <3>1
  <2>3. ToldBy(f[i], s[i + 1]) = ToldBy(f[i], t[i])
    BY DEF ToldBy, n
  <2> QED BY <2>1, <2>2, <2>3
<1>6. g[n] = f[n + 1]
  BY <1>2
<1> HIDE DEF g
<1>7. Told(ToldBy(peers, s[1]), t) = g[n]
  BY <1>4, <1>5, ToldOfRun DEF n
<1> QED BY <1>1, <1>2, <1>6, <1>7

-----------------------------------------------------------------------------
(* The loop over the gossip of a round *)

ScoreRun(f, guess, score, s, n) ==
  f = [i \in 0..n |-> IF i = 0 THEN score ELSE HandleMessage(guess, f[i - 1], s[i])]

LEMMA ScoreRunExists ==
  ASSUME NEW guess, NEW score, NEW s, NEW n \in Nat
  PROVE  \E f : ScoreRun(f, guess, score, s, n)
<1> DEFINE T == {k \in 0..n : \E f : ScoreRun(f, guess, score, s, k)}
<1>1. 0 \in T
  <2> DEFINE f == [i \in 0..0 |-> score]
  <2>1. ScoreRun(f, guess, score, s, 0)
    BY DEF ScoreRun
  <2> QED BY <2>1
<1>2. ASSUME NEW k \in 1..n, k - 1 \in T PROVE k \in T
  <2>1. PICK f : ScoreRun(f, guess, score, s, k - 1)
    BY <1>2
  <2> DEFINE g ==
        [i \in 0..k |-> IF i = k THEN HandleMessage(guess, f[k - 1], s[k]) ELSE f[i]]
  <2>2. ScoreRun(g, guess, score, s, k)
    <3>1. SUFFICES ASSUME NEW i \in 0..k
                   PROVE  g[i] = IF i = 0 THEN score ELSE HandleMessage(guess, g[i - 1], s[i])
      BY DEF ScoreRun
    <3>2. CASE i = k
      BY <3>2
    <3>3. CASE i # k
      <4>1. i \in 0..(k - 1)
        BY <3>3
      <4>2. f[i] = IF i = 0 THEN score ELSE HandleMessage(guess, f[i - 1], s[i])
        BY <4>1, <2>1 DEF ScoreRun
      <4>3. g[i] = f[i] /\ (i # 0 => g[i - 1] = f[i - 1])
        BY <4>1
      <4> QED BY <4>2, <4>3
    <3> QED BY <3>2, <3>3
  <2> QED BY <2>2
<1> HIDE DEF T
<1>3. n \in T
  BY <1>1, <1>2, Stepwise
<1> QED BY <1>3 DEF T

LEMMA ScoreOfRun ==
  ASSUME NEW guess, NEW score, NEW s, IsSeq(s)
  PROVE  \E f : /\ f[0] = score
                /\ \A i \in 1..Len(s) : f[i] = HandleMessage(guess, f[i - 1], s[i])
                /\ ScoreAfter(guess, score, s) = f[Len(s)]
<1> DEFINE after ==
      CHOOSE f : f = [i \in 0..Len(s) |->
                        IF i = 0 THEN score ELSE HandleMessage(guess, f[i - 1], s[i])]
<1>1. Len(s) \in Nat
  BY SeqFacts
<1>2. \E f : ScoreRun(f, guess, score, s, Len(s))
  BY <1>1, ScoreRunExists
<1>3. ScoreRun(after, guess, score, s, Len(s))
  BY <1>2, Zenon DEF ScoreRun
<1>4. ScoreAfter(guess, score, s) = after[Len(s)]
  BY DEF ScoreAfter
<1> HIDE DEF after
<1>5. after[0] = score /\ \A i \in 1..Len(s) : after[i] = HandleMessage(guess, after[i - 1], s[i])
  BY <1>1, <1>3 DEF ScoreRun
<1> QED BY <1>4, <1>5

\* A guess some draw can beat, and the positions of those in s.
Beatable(m) == m.kind = "guess" /\ \E g \in Guesses : g > m.value
Beats(s, n) == {i \in 1..n : Beatable(s[i])}

LEMMA BeatsFinite ==
  ASSUME NEW s, NEW n \in Nat
  PROVE  IsFiniteSet(Beats(s, n)) /\ Cardinality(Beats(s, n)) \in Nat
<1>1. IsFiniteSet(1..n) /\ Beats(s, n) \subseteq 1..n
  BY FS_Interval DEF Beats
<1> QED BY <1>1, FS_Subset, FS_CardinalityType

LEMMA BeatsStep ==
  ASSUME NEW s, NEW n \in Nat \ {0}
  PROVE  Cardinality(Beats(s, n)) =
           Cardinality(Beats(s, n - 1)) + (IF Beatable(s[n]) THEN 1 ELSE 0)
<1>1. CASE Beatable(s[n])
  <2>1. Beats(s, n) = Beats(s, n - 1) \cup {n} /\ n \notin Beats(s, n - 1)
    BY <1>1 DEF Beats
  <2>2. IsFiniteSet(Beats(s, n - 1))
    BY BeatsFinite
  <2> QED BY <1>1, <2>1, <2>2, FS_AddElement, BeatsFinite
<1>2. CASE ~Beatable(s[n])
  <2>1. Beats(s, n) = Beats(s, n - 1)
    BY <1>2 DEF Beats
  <2>2. Cardinality(Beats(s, n - 1)) \in Nat
    BY BeatsFinite
  <2> QED BY <1>2, <2>1, <2>2
<1> QED BY <1>1, <1>2

Scores == Nat \cup {-1}

\* The score grows with the guesses that can be beaten and falls to -1, and it does
\* that only with an announcement.
LEMMA ScoreFacts ==
  ASSUME NEW guess \in Guesses \cup {-1}, NEW score \in Scores, NEW s, IsSeq(s),
         \A i \in 1..Len(s) : s[i].kind = "guess" => s[i].value \in Nat
  PROVE  /\ ScoreAfter(guess, score, s) \in Scores
         /\ ScoreAfter(guess, score, s) <= score + Cardinality(Beats(s, Len(s)))
         /\ ScoreAfter(guess, score, s) = -1 =>
              score = -1 \/ \E i \in 1..Len(s) : s[i].kind = "win"
<1>1. PICK f : /\ f[0] = score
               /\ \A i \in 1..Len(s) : f[i] = HandleMessage(guess, f[i - 1], s[i])
               /\ ScoreAfter(guess, score, s) = f[Len(s)]
  BY ScoreOfRun
<1>2. Len(s) \in Nat
  BY SeqFacts
<1> DEFINE T == {k \in 0..Len(s) :
                   /\ f[k] \in Scores
                   /\ f[k] <= score + Cardinality(Beats(s, k))
                   /\ f[k] = -1 => score = -1 \/ \E i \in 1..Len(s) : s[i].kind = "win"}
<1>3. 0 \in T
  <2>1. Beats(s, 0) = {}
    BY DEF Beats
  <2>2. Cardinality(Beats(s, 0)) = 0
    BY <2>1, FS_EmptySet
  <2> QED BY <1>1, <1>2, <2>2 DEF Scores
<1>4. ASSUME NEW i \in 1..Len(s), i - 1 \in T PROVE i \in T
  <2> DEFINE before == Cardinality(Beats(s, i - 1))
             now == Cardinality(Beats(s, i))
  <2>1. i \in Nat \ {0} /\ i \in 0..Len(s)
    BY <1>2
  <2>2. before \in Nat /\ now = before + (IF Beatable(s[i]) THEN 1 ELSE 0)
    BY <2>1, BeatsFinite, BeatsStep
  <2>3. f[i] = HandleMessage(guess, f[i - 1], s[i]) /\ f[i - 1] \in Scores
        /\ f[i - 1] <= score + before
        /\ (f[i - 1] = -1 => score = -1 \/ \E j \in 1..Len(s) : s[j].kind = "win")
    BY <1>1, <1>4
  <2> HIDE DEF before, now
  <2>4. CASE s[i].kind = "guess" /\ guess > s[i].value
    <3>1. f[i] = f[i - 1] + 1
      BY <2>3, <2>4 DEF HandleMessage
    <3>2. s[i].value \in Nat
      BY <2>4
    <3>3. guess \in Guesses
      BY <2>4, <3>2
    <3>4. now = before + 1
      BY <2>2, <2>4, <3>3 DEF Beatable
    <3>5. f[i - 1] \in Int /\ f[i - 1] >= -1 /\ f[i - 1] <= score + before
      BY <2>3 DEF Scores
    <3>6. score \in Int /\ before \in Int
      BY <2>2 DEF Scores
    <3>7. f[i] \in Nat /\ f[i] <= score + now
      BY <3>1, <3>4, <3>5, <3>6
    <3> QED BY <2>1, <3>7 DEF Scores, now
  <2>5. CASE s[i].kind = "win"
    <3>1. f[i] = -1
      BY <2>3, <2>5 DEF HandleMessage
    <3> QED BY <2>1, <2>2, <2>5, <3>1 DEF Scores, now
  <2>6. CASE ~(s[i].kind = "guess" /\ guess > s[i].value) /\ s[i].kind # "win"
    <3>1. f[i] = f[i - 1]
      BY <2>3, <2>6 DEF HandleMessage
    <3> QED BY <2>1, <2>2, <2>3, <3>1 DEF Scores, now
  <2> QED BY <2>4, <2>5, <2>6
<1> HIDE DEF T
<1>5. 0..Len(s) \subseteq T
  BY <1>2, <1>3, <1>4, Stepwise
<1>6. Len(s) \in T
  BY <1>2, <1>5
<1> QED BY <1>1, <1>6 DEF T

\* After an announcement no guess follows in s, the score stays at -1.
LEMMA LastWinLoses ==
  ASSUME NEW guess, NEW score, NEW s, IsSeq(s), NEW w \in 1..Len(s), s[w].kind = "win",
         \A j \in 1..Len(s) : j > w => s[j].kind # "guess"
  PROVE  ScoreAfter(guess, score, s) = -1
<1>1. PICK f : /\ \A i \in 1..Len(s) : f[i] = HandleMessage(guess, f[i - 1], s[i])
               /\ ScoreAfter(guess, score, s) = f[Len(s)]
  BY ScoreOfRun
<1>2. Len(s) \in Nat
  BY SeqFacts
<1> DEFINE T == {k \in 0..Len(s) : k >= w => f[k] = -1}
<1>3. 0 \in T
  BY <1>2
<1>4. ASSUME NEW i \in 1..Len(s), i - 1 \in T PROVE i \in T
  <2>1. CASE i = w
    BY <1>1, <1>2, <2>1 DEF HandleMessage
  <2>2. CASE i > w
    <3>1. s[i].kind # "guess" /\ f[i - 1] = -1
      BY <1>2, <1>4, <2>2
    <3> QED BY <1>1, <1>2, <3>1 DEF HandleMessage
  <2>3. CASE i < w
    BY <1>2, <2>3
  <2> QED BY <1>2, <2>1, <2>2, <2>3
<1> HIDE DEF T
<1>5. 0..Len(s) \subseteq T
  BY <1>2, <1>3, <1>4, Stepwise
<1>6. Len(s) \in T
  BY <1>2, <1>5
<1> QED BY <1>1, <1>2, <1>6 DEF T

-----------------------------------------------------------------------------
(* The event queue *)

IsEvent(e) ==
  /\ e = [no |-> e.no, kind |-> e.kind, peer |-> e.peer, value |-> e.value]
  /\ e.no \in Int
  /\ e.kind = "guess" => e.value \in Nat

IsQueue(q) == IsSeq(q) /\ \A i \in 1..Len(q) : IsEvent(q[i])

Ascending(q) ==
  \A i \in 1..Len(q) : q[i].no > 0 /\ \A j \in 1..(i - 1) : q[j].no < q[i].no

IsReader(e) ==
  /\ e = [queue |-> e.queue, copy |-> e.copy, believes |-> e.believes, missed |-> e.missed]
  /\ e.missed \in BOOLEAN
  /\ IsQueue(e.queue) /\ Ascending(e.queue) /\ Len(e.queue) <= MaxQueue
  /\ \A s \in e.copy : IsQueue(s)

LEMMA NoEventsReader == IsReader(NoEvents) /\ NoEvents.queue = <<>> /\ NoEvents.copy = {}
BY EmptyFacts, QueueAssumption DEF IsReader, NoEvents, IsQueue, Ascending

\* A push drops the first `cut' events, none or one, and adds the new one.
LEMMA PushFacts ==
  ASSUME NEW e, IsReader(e), NEW kind, NEW peer, NEW value, kind = "guess" => value \in Nat,
         NEW f, f = Push(e, kind, peer, value)
  PROVE  /\ IsReader(f) /\ f.copy = e.copy /\ f.believes = e.believes
         /\ \E cut \in {0, 1} : \E new :
              /\ new.kind = kind /\ new.peer = peer /\ new.value = value
              /\ Len(f.queue) = Len(e.queue) + 1 - cut
              /\ \A i \in 1..(Len(f.queue) - 1) : f.queue[i] = e.queue[i + cut]
              /\ f.queue[Len(f.queue)] = new
              /\ ~f.missed => ~e.missed /\ f.queue = Append(e.queue, new)
<1> DEFINE new == Numbered(e, kind, peer, value)
           full == Len(e.queue) >= MaxQueue
           cut == IF full THEN 1 ELSE 0
           rest == IF full THEN Tail(e.queue) ELSE e.queue
           q == Append(rest, new)
<1>1. IsSeq(e.queue) /\ Len(e.queue) \in Nat /\ Len(e.queue) <= MaxQueue
      /\ (e.queue = <<>> <=> Len(e.queue) = 0)
  BY SeqFacts DEF IsReader, IsQueue
<1>2. f = [queue |-> q, copy |-> e.copy, believes |-> e.believes, missed |-> e.missed \/ full]
  BY DEF Push, IsReader
<1>3. /\ IsEvent(new) /\ new.kind = kind /\ new.peer = peer /\ new.value = value
      /\ new.no = IF e.queue = <<>> THEN 1 ELSE e.queue[Len(e.queue)].no + 1
  <2>1. new.no = IF e.queue = <<>> THEN 1 ELSE e.queue[Len(e.queue)].no + 1
    BY DEF Numbered, Last
  <2>2. \A i \in 1..Len(e.queue) : e.queue[i].no \in Int
    BY DEF IsReader, IsQueue, IsEvent
  <2>3. e.queue # <<>> => e.queue[Len(e.queue)].no \in Int
    BY <1>1, <2>2
  <2>4. new.no \in Int
    BY <2>1, <2>3
  <2> QED BY <2>1, <2>4 DEF Numbered, IsEvent
<1>4. /\ IsSeq(rest) /\ Len(rest) = Len(e.queue) - cut /\ Len(rest) < MaxQueue
      /\ \A i \in 1..Len(rest) : rest[i] = e.queue[i + cut]
  <2>1. CASE full
    BY <1>1, <2>1, TailFacts, QueueAssumption
  <2>2. CASE ~full
    BY <1>1, <2>2, QueueAssumption
  <2> QED BY <2>1, <2>2
<1>5. cut \in {0, 1}
  OBVIOUS
<1> HIDE DEF new, cut, rest
<1>6. /\ IsSeq(q) /\ Len(q) = Len(rest) + 1
      /\ \A i \in 1..Len(rest) + 1 : q[i] = IF i = Len(rest) + 1 THEN new ELSE rest[i]
  BY <1>4, AppendFacts
<1>7. ~full => q = Append(e.queue, new)
  BY DEF rest
<1> HIDE DEF q
<1>8. Len(rest) \in Nat
  BY <1>1, <1>4, <1>5
<1>9. \A i \in 1..Len(rest) : q[i] = e.queue[i + cut] /\ i + cut \in 1..Len(e.queue)
  BY <1>1, <1>4, <1>5, <1>6, <1>8
<1>10. q[Len(q)] = new
  BY <1>6, <1>8
<1>11. IsQueue(q)
  <2> SUFFICES ASSUME NEW i \in 1..Len(q) PROVE IsEvent(q[i])
    BY <1>6 DEF IsQueue
  <2>1. CASE i = Len(q)
    BY <2>1, <1>3, <1>10
  <2>2. CASE i # Len(q)
    <3>1. i \in 1..Len(rest)
      BY <2>2, <1>6, <1>8
    <3> QED BY <3>1, <1>9 DEF IsReader, IsQueue
  <2> QED BY <2>1, <2>2
<1>12. Ascending(q)
  <2>1. Ascending(e.queue) /\ \A i \in 1..Len(e.queue) : e.queue[i].no \in Int
    BY DEF IsReader, IsQueue, IsEvent
  <2>2. ASSUME NEW i \in 1..Len(e.queue)
        PROVE  e.queue[i].no > 0 /\ e.queue[i].no < new.no
    <3>1. e.queue # <<>> /\ Len(e.queue) \in 1..Len(e.queue)
      BY <1>1
    <3>2. CASE i = Len(e.queue)
      BY <1>3, <2>1, <3>1, <3>2 DEF Ascending
    <3>3. CASE i # Len(e.queue)
      <4>1. i \in 1..(Len(e.queue) - 1)
        BY <3>3, <1>1
      <4>2. e.queue[i].no > 0 /\ e.queue[i].no < e.queue[Len(e.queue)].no
        BY <2>1, <3>1, <4>1 DEF Ascending
      <4> QED BY <1>3, <2>1, <3>1, <4>2
    <3> QED BY <3>2, <3>3
  <2>3. new.no > 0
    BY <1>1, <1>3, <2>1 DEF Ascending
  <2> SUFFICES ASSUME NEW i \in 1..Len(q)
               PROVE  q[i].no > 0 /\ \A j \in 1..(i - 1) : q[j].no < q[i].no
    BY DEF Ascending
  <2>4. CASE i = Len(q)
    <3>1. \A j \in 1..(i - 1) : j \in 1..Len(rest)
      BY <2>4, <1>6, <1>8
    <3> QED BY <2>2, <2>3, <2>4, <3>1, <1>9, <1>10
  <2>5. CASE i # Len(q)
    <3>1. i \in 1..Len(rest)
      BY <2>5, <1>6, <1>8
    <3>2. ASSUME NEW j \in 1..(i - 1) PROVE q[j].no < q[i].no
      <4>1. j \in 1..Len(rest) /\ j + cut \in 1..((i + cut) - 1)
        BY <3>1, <1>5, <1>8
      <4> QED BY <2>1, <3>1, <4>1, <1>9 DEF Ascending
    <3> QED BY <2>2, <3>1, <3>2, <1>9
  <2> QED BY <2>4, <2>5
<1>13. IsReader(f) /\ f.copy = e.copy /\ f.believes = e.believes
       /\ f.queue = q /\ f.missed = (e.missed \/ full)
  BY <1>1, <1>2, <1>4, <1>6, <1>8, <1>11, <1>12, QueueAssumption DEF IsReader
<1>14. /\ Len(f.queue) = Len(e.queue) + 1 - cut
       /\ \A i \in 1..(Len(f.queue) - 1) : f.queue[i] = e.queue[i + cut]
       /\ f.queue[Len(f.queue)] = new
  BY <1>1, <1>4, <1>5, <1>6, <1>8, <1>9, <1>10, <1>13
<1>15. ~f.missed => ~e.missed /\ f.queue = Append(e.queue, new)
  BY <1>7, <1>13
<1> QED BY <1>3, <1>5, <1>13, <1>14, <1>15

LEMMA PoppedFacts ==
  ASSUME NEW e, IsReader(e), e.queue # <<>>, NEW f, f = Popped(e)
  PROVE  /\ IsReader(f) /\ f.copy = e.copy /\ f.missed = e.missed
         /\ f.believes = ToldBy(e.believes, e.queue[1])
         /\ Len(f.queue) = Len(e.queue) - 1
         /\ \A i \in 1..Len(f.queue) :
              /\ f.queue[i].kind = e.queue[i + 1].kind
              /\ f.queue[i].peer = e.queue[i + 1].peer
              /\ f.queue[i].value = e.queue[i + 1].value
<1> DEFINE n == Len(e.queue)
           first == e.queue[1].no
           t == <<e.queue[1]>>
           h == [i \in 1..n |-> [e.queue[i] EXCEPT !.no = e.queue[i].no - first]]
<1>1. IsQueue(e.queue) /\ IsSeq(e.queue) /\ n \in Nat \ {0} /\ Head(e.queue) = e.queue[1]
      /\ DOMAIN e.queue = 1..n
  BY SeqFacts, TailFacts DEF IsReader, IsQueue
<1>2. IsSeq(t) /\ Len(t) = 1 /\ t # <<>> /\ t[1] = e.queue[1] /\ t = <<Head(e.queue)>>
  <2>1. t \in Seq({e.queue[1]})
    OBVIOUS
  <2> QED BY <1>1, <2>1 DEF IsSeq
<1> HIDE DEF t
<1>3. Told(e.believes, t) = ToldBy(e.believes, e.queue[1])
  <2> DEFINE u == <<>>
  <2>1. IsSeq(u) /\ Told(e.believes, u) = e.believes
    BY EmptyFacts, ToldNothing
  <2>2. t = Append(u, e.queue[1])
    BY <1>1, <1>2
  <2> HIDE DEF u, h
  <2>3. Told(e.believes, Append(u, e.queue[1])) = ToldBy(Told(e.believes, u), e.queue[1])
    BY <2>1, ToldAppend
  <2> QED BY <2>1, <2>2, <2>3
<1>4. f = [queue |-> Tail(h), copy |-> e.copy,
           believes |-> ToldBy(e.believes, e.queue[1]), missed |-> e.missed]
  <2> DEFINE g == Handled(e, t)
  <2>1. Renumbered(e.queue, t) = h
    <3>1. Last(t).no = first
      BY <1>2 DEF Last
    <3> QED BY <1>1, <1>2, <3>1 DEF Renumbered
  <2>2. e = [queue |-> e.queue, copy |-> e.copy, believes |-> e.believes, missed |-> e.missed]
    BY DEF IsReader
  <2>3. g = [queue |-> h, copy |-> e.copy,
             believes |-> ToldBy(e.believes, e.queue[1]), missed |-> e.missed]
    <3> DEFINE b == Told(e.believes, t)
    <3>1. g = [e EXCEPT !.queue = h, !.believes = b]
      BY <2>1 DEF Handled
    <3> HIDE DEF g, h, b
    <3>2. g = [queue |-> h, copy |-> e.copy, believes |-> b, missed |-> e.missed]
      BY <2>2, <3>1
    <3> QED BY <1>3, <3>2 DEF b
  <2>4. f = [g EXCEPT !.queue = Tail(g.queue)]
    BY <1>2 DEF Popped
  <2> HIDE DEF h, g
  <2> QED BY <2>3, <2>4
<1>5. ASSUME NEW i \in 1..n
      PROVE  /\ IsEvent(h[i]) /\ h[i].no = e.queue[i].no - first
             /\ h[i].kind = e.queue[i].kind /\ h[i].peer = e.queue[i].peer
             /\ h[i].value = e.queue[i].value
  <2>1. IsEvent(e.queue[i]) /\ IsEvent(e.queue[1])
    BY <1>1 DEF IsQueue
  <2> DEFINE v == e.queue[i]
             w == h[i]
             no == v.no - first
  <2>2. w = [v EXCEPT !.no = no]
    OBVIOUS
  <2>3. v = [no |-> v.no, kind |-> v.kind, peer |-> v.peer, value |-> v.value]
        /\ no \in Int /\ (v.kind = "guess" => v.value \in Nat)
    BY <2>1 DEF IsEvent
  <2> HIDE DEF v, w, no
  <2>4. w = [no |-> no, kind |-> v.kind, peer |-> v.peer, value |-> v.value]
    BY <2>2, <2>3
  <2>5. IsEvent(w) /\ w.no = no /\ w.kind = v.kind /\ w.peer = v.peer /\ w.value = v.value
    BY <2>3, <2>4 DEF IsEvent
  <2> QED BY <2>5 DEF v, w, no
<1>6. IsSeq(h) /\ Len(h) = n
  BY <1>1, FunctionFacts
<1> HIDE DEF h
<1>7. /\ IsSeq(Tail(h)) /\ Len(Tail(h)) = n - 1
      /\ \A i \in 1..n - 1 : Tail(h)[i] = h[i + 1] /\ i + 1 \in 1..n
  BY <1>1, <1>6, TailFacts, SeqFacts
<1> DEFINE q == Tail(h)
<1> HIDE DEF q
<1>8. IsQueue(q)
  BY <1>1, <1>5, <1>7 DEF IsQueue, q
<1>9. Ascending(q)
  <2>1. Ascending(e.queue) /\ \A i \in 1..n : e.queue[i].no \in Int
    BY DEF IsReader, IsQueue, IsEvent
  <2>2. ASSUME NEW i \in 1..n - 1
        PROVE  q[i].no > 0 /\ \A j \in 1..(i - 1) : q[j].no < q[i].no
    <3>1. i + 1 \in 1..n /\ 1 \in 1..((i + 1) - 1) /\ 1 \in 1..n
      BY <1>1
    <3>2. first < e.queue[i + 1].no /\ q[i].no = e.queue[i + 1].no - first
      BY <1>5, <1>7, <2>1, <3>1 DEF Ascending, q
    <3>3. ASSUME NEW j \in 1..(i - 1) PROVE q[j].no < q[i].no
      <4>1. j \in 1..n - 1 /\ j + 1 \in 1..n /\ j + 1 \in 1..((i + 1) - 1)
        BY <1>1
      <4>2. q[j].no = e.queue[j + 1].no - first
        BY <1>5, <1>7, <4>1 DEF q
      <4>3. e.queue[j + 1].no < e.queue[i + 1].no
        BY <2>1, <3>1, <4>1 DEF Ascending
      <4>4. e.queue[j + 1].no \in Int /\ e.queue[i + 1].no \in Int /\ first \in Int
        BY <2>1, <3>1, <4>1
      <4>5. q[i].no = e.queue[i + 1].no - first
        BY <3>2
      <4> HIDE DEF q
      <4> QED BY <4>2, <4>3, <4>4, <4>5
    <3>4. e.queue[i + 1].no \in Int /\ first \in Int
      BY <2>1, <3>1
    <3> QED BY <3>2, <3>3, <3>4
  <2> QED BY <1>7, <2>2 DEF Ascending, q
<1>10. IsReader(f) /\ f.queue = q
  <2>1. f.queue = q /\ f.copy = e.copy /\ f.missed = e.missed
    BY <1>4 DEF q
  <2>2. Len(q) <= MaxQueue
    BY <1>1, <1>7, QueueAssumption DEF IsReader, q
  <2> QED BY <1>4, <1>8, <1>9, <2>1, <2>2 DEF IsReader, q
<1> QED BY <1>1, <1>4, <1>5, <1>7, <1>10 DEF q

LEMMA CopiedFacts ==
  ASSUME NEW e, IsReader(e), NEW f, f = [e EXCEPT !.copy = {e.queue}]
  PROVE  /\ IsReader(f) /\ f.queue = e.queue /\ f.copy = {e.queue}
         /\ f.believes = e.believes /\ f.missed = e.missed
<1>1. PICK q, c, b, m : e = [queue |-> q, copy |-> c, believes |-> b, missed |-> m]
  BY DEF IsReader
<1>2. f = [queue |-> q, copy |-> {q}, believes |-> b, missed |-> m]
  BY <1>1
<1>3. f.queue = q /\ f.copy = {q} /\ f.believes = b /\ f.missed = m
      /\ f = [queue |-> f.queue, copy |-> f.copy, believes |-> f.believes, missed |-> f.missed]
  <2>1. f.queue = q /\ f.copy = {q} /\ f.believes = b /\ f.missed = m
    BY <1>2
  <2>2. f = [queue |-> f.queue, copy |-> f.copy, believes |-> f.believes, missed |-> f.missed]
    BY <1>2, <2>1, Zenon
  <2> QED BY <2>1, <2>2
<1>4. e.queue = q /\ e.copy = c /\ e.believes = b /\ e.missed = m
  BY <1>1
<1>5. IsQueue(q) /\ Ascending(q) /\ Len(q) <= MaxQueue /\ m \in BOOLEAN
  BY <1>4 DEF IsReader
<1>6. IsReader(f)
  BY <1>3, <1>5 DEF IsReader
<1> QED BY <1>3, <1>4, <1>6

LEMMA DrainedFacts ==
  ASSUME NEW e, IsReader(e), NEW s, NEW f, f = Drained(e, s)
  PROVE  /\ IsReader(f) /\ f.queue = <<>> /\ f.copy = {}
         /\ f.believes = Told(e.believes, s)
         /\ ~f.missed => ~e.missed /\ s = e.queue
<1>1. f = [queue |-> <<>>, copy |-> {}, believes |-> Told(e.believes, s),
           missed |-> e.missed \/ e.queue # s]
  BY DEF Drained, Handled, IsReader
<1> DEFINE u == <<>>
<1>2. IsSeq(u) /\ Len(u) = 0
  BY EmptyFacts
<1>3. f.queue = u /\ f.copy = {} /\ f.missed = (e.missed \/ e.queue # s)
      /\ f.believes = Told(e.believes, s)
      /\ f = [queue |-> f.queue, copy |-> f.copy, believes |-> f.believes, missed |-> f.missed]
  BY <1>1
<1>4. e.missed \in BOOLEAN
  BY DEF IsReader
<1> HIDE DEF u
<1>5. IsQueue(u) /\ Ascending(u) /\ Len(u) <= MaxQueue
  BY <1>2, QueueAssumption DEF IsQueue, Ascending
<1>6. IsReader(f)
  BY <1>3, <1>4, <1>5 DEF IsReader
<1> QED BY <1>3, <1>4, <1>6 DEF u

-----------------------------------------------------------------------------
(* Types *)

Links ==
  [connected : SUBSET Nodes, subscribed : SUBSET Nodes, unidentified : SUBSET Nodes,
   joined : BOOLEAN, errors : [Nodes -> Nat], timeouts : [Nodes -> Nat]]

IsLinks(n, l) ==
  /\ l \in Links
  /\ n \notin l.connected
  /\ l.subscribed \subseteq l.connected /\ l.unidentified \subseteq l.connected

IsMessage(m) ==
  /\ m = [kind |-> m.kind, value |-> m.value]
  /\ m.kind \in {"subscribe", "guess", "win"}
  /\ m.value \in Nat

IsGossip(s) == IsSeq(s) /\ \A i \in 1..Len(s) : IsMessage(s[i])

EventsTyped ==
  /\ events = [n \in Nodes |-> events[n]]
  /\ \A n \in Nodes : IsReader(events[n])

LinksTyped ==
  /\ links = [n \in Nodes |-> links[n]]
  /\ \A n \in Nodes : IsLinks(n, links[n])

StreamsTyped ==
  /\ stream = [q \in Nodes |-> [p \in Nodes |-> stream[q][p]]]
  /\ \A q, p \in Nodes : IsGossip(stream[q][p])

Phases == {"setup", "join", "play", "read", "handle", "won", "lost"}

GameTyped ==
  /\ game \in [Nodes -> [phase : Phases, guess : Guesses \cup {-1}, score : Scores]]
  /\ rounds \in [Nodes -> 0..MaxRounds]
  /\ heard \in [Nodes -> Nat]
  /\ told \subseteq Nodes /\ winners \subseteq Nodes

LEMMA LinksChange ==
  ASSUME NEW n, NEW o, IsLinks(n, o), NEW p \in Nodes
  PROVE  /\ n # p => IsLinks(n, [o EXCEPT !.connected = @ \cup {p}, !.unidentified = @ \cup {p}])
         /\ IsLinks(n, [o EXCEPT !.connected = @ \ {p}, !.subscribed = @ \ {p},
                                 !.unidentified = @ \ {p}])
         /\ IsLinks(n, [o EXCEPT !.unidentified = @ \ {p}])
         /\ IsLinks(n, [o EXCEPT !.errors[p] = @ \div 2, !.timeouts[p] = @ \div 2])
         /\ \A new \in [Nodes -> Nat] :
              IsLinks(n, [o EXCEPT !.errors = new]) /\ IsLinks(n, [o EXCEPT !.timeouts = new])
         /\ p \in o.connected => IsLinks(n, [o EXCEPT !.subscribed = @ \cup {p}])
         /\ IsLinks(n, [o EXCEPT !.joined = TRUE])
<1>1. ASSUME n # p
      PROVE  IsLinks(n, [o EXCEPT !.connected = @ \cup {p}, !.unidentified = @ \cup {p}])
  BY <1>1 DEF IsLinks, Links
<1>2. IsLinks(n, [o EXCEPT !.connected = @ \ {p}, !.subscribed = @ \ {p},
                           !.unidentified = @ \ {p}])
  BY DEF IsLinks, Links
<1>3. IsLinks(n, [o EXCEPT !.unidentified = @ \ {p}])
  BY DEF IsLinks, Links
<1>4. IsLinks(n, [o EXCEPT !.errors[p] = @ \div 2, !.timeouts[p] = @ \div 2])
  <2> DEFINE e == [o.errors EXCEPT ![p] = @ \div 2]
             t == [o.timeouts EXCEPT ![p] = @ \div 2]
             l == [o EXCEPT !.errors[p] = @ \div 2, !.timeouts[p] = @ \div 2]
  <2>1. o.errors \in [Nodes -> Nat] /\ o.timeouts \in [Nodes -> Nat]
    BY DEF IsLinks, Links
  <2>2. o.errors[p] \div 2 \in Nat /\ o.timeouts[p] \div 2 \in Nat
    BY <2>1
  <2>3. e \in [Nodes -> Nat] /\ t \in [Nodes -> Nat]
    BY <2>1, <2>2
  <2>4. l = [o EXCEPT !.errors = e, !.timeouts = t]
    BY DEF IsLinks, Links
  <2> HIDE DEF e, t, l
  <2>5. IsLinks(n, l)
    BY <2>3, <2>4 DEF IsLinks, Links
  <2> QED BY <2>5 DEF l
<1>5. ASSUME NEW new \in [Nodes -> Nat]
      PROVE  IsLinks(n, [o EXCEPT !.errors = new]) /\ IsLinks(n, [o EXCEPT !.timeouts = new])
  BY DEF IsLinks, Links
<1>6. ASSUME p \in o.connected PROVE IsLinks(n, [o EXCEPT !.subscribed = @ \cup {p}])
  BY <1>6 DEF IsLinks, Links
<1>7. IsLinks(n, [o EXCEPT !.joined = TRUE])
  BY DEF IsLinks, Links
<1> QED BY <1>1, <1>2, <1>3, <1>4, <1>5, <1>6, <1>7

LEMMA LinksKept ==
  ASSUME LinksTyped, [Next]_vars
  PROVE  LinksTyped'
<1>1. ASSUME NEW n \in Nodes, NEW l, IsLinks(n, l), links' = [links EXCEPT ![n] = l]
      PROVE  LinksTyped'
  BY <1>1 DEF LinksTyped
<1>2. ASSUME UNCHANGED links PROVE LinksTyped'
  BY <1>2 DEF LinksTyped
<1>3. ASSUME NEW n \in Nodes, links' = [links EXCEPT ![n] = NoLinks] PROVE LinksTyped'
  <2>1. IsLinks(n, NoLinks)
    BY DEF IsLinks, Links, NoLinks
  <2> QED BY <1>1, <1>3, <2>1
<1>4. ASSUME NEW n \in Nodes, Begin(n) \/ End(n) PROVE LinksTyped'
  BY <1>3, <1>4 DEF Begin, End, Start, Stop
<1>5. ASSUME NEW n \in Nodes, NEW p \in Nodes, ConnectionEstablished(n, p) PROVE LinksTyped'
  <2> DEFINE l == [links[n] EXCEPT !.connected = @ \cup {p}, !.unidentified = @ \cup {p}]
  <2>1. links' = [links EXCEPT ![n] = l] /\ n # p
    BY <1>5 DEF ConnectionEstablished
  <2>2. IsLinks(n, l)
    BY <2>1, LinksChange DEF LinksTyped
  <2> QED BY <1>1, <2>1, <2>2
<1>6. ASSUME NEW n \in Nodes, NEW p \in Nodes, ConnectionClosed(n, p) PROVE LinksTyped'
  <2> DEFINE l == [links[n] EXCEPT !.connected = @ \ {p}, !.subscribed = @ \ {p},
                                   !.unidentified = @ \ {p}]
  <2>1. links' = [links EXCEPT ![n] = l]
    BY <1>6 DEF ConnectionClosed
  <2>2. IsLinks(n, l)
    BY LinksChange DEF LinksTyped
  <2> QED BY <1>1, <2>1, <2>2
<1>7. ASSUME NEW n \in Nodes, NEW p \in Nodes, Identified(n, p) PROVE LinksTyped'
  <2> DEFINE l == [links[n] EXCEPT !.unidentified = @ \ {p}]
  <2>1. links' = [links EXCEPT ![n] = l]
    BY <1>7 DEF Identified
  <2>2. IsLinks(n, l)
    BY LinksChange DEF LinksTyped
  <2> QED BY <1>1, <2>1, <2>2
<1>8. ASSUME NEW n \in Nodes, NEW p \in Nodes, Ping(n, p) PROVE LinksTyped'
  <2>1. CASE PingSuccess(n, p)
    <3> DEFINE l == [links[n] EXCEPT !.errors[p] = @ \div 2, !.timeouts[p] = @ \div 2]
    <3>1. links' = [links EXCEPT ![n] = l]
      BY <2>1 DEF PingSuccess
    <3>2. IsLinks(n, l)
      BY LinksChange DEF LinksTyped
    <3> QED BY <1>1, <3>1, <3>2
  <2>2. ASSUME NEW failure, PingFailure(n, p, failure) PROVE LinksTyped'
    <3>1. PICK new \in [Nodes -> Nat] :
            links' = [links EXCEPT ![n] = IF policy[n].kind = "errors"
                                          THEN [@ EXCEPT !.errors = new]
                                          ELSE [@ EXCEPT !.timeouts = new]]
      <4> DEFINE counts == IF policy[n].kind = "errors" THEN links[n].errors
                           ELSE links[n].timeouts
                 counted == Counted(policy[n], failure)
                 closes == counted /\ counts[p] # policy[n].max
                 new == IF ~counted THEN counts
                        ELSE [counts EXCEPT ![p] = IF closes THEN 0 ELSE @ + 1]
      <4>1. links[n].errors \in [Nodes -> Nat] /\ links[n].timeouts \in [Nodes -> Nat]
        BY DEF LinksTyped, IsLinks, Links
      <4>2. links' = [links EXCEPT ![n] = IF policy[n].kind = "errors"
                                          THEN [@ EXCEPT !.errors = new]
                                          ELSE [@ EXCEPT !.timeouts = new]]
        BY <2>2 DEF PingFailure
      <4> HIDE DEF counted
      <4>3. new \in [Nodes -> Nat]
        BY <4>1
      <4> HIDE DEF new
      <4> QED BY <4>2, <4>3
    <3> DEFINE l == IF policy[n].kind = "errors" THEN [links[n] EXCEPT !.errors = new]
                    ELSE [links[n] EXCEPT !.timeouts = new]
    <3>2. links' = [links EXCEPT ![n] = l]
      BY <3>1
    <3>3. IsLinks(n, l)
      BY LinksChange DEF LinksTyped
    <3> QED BY <1>1, <3>2, <3>3
  <2> QED BY <1>8, <2>1, <2>2 DEF Ping
<1>9. ASSUME NEW n \in Nodes, NEW p \in Nodes, PeerSubscribed(n, p) PROVE LinksTyped'
  <2> DEFINE l == [links[n] EXCEPT !.subscribed = @ \cup {p}]
  <2>1. links' = [links EXCEPT ![n] = l] /\ p \in links[n].connected
    BY <1>9 DEF PeerSubscribed, Received
  <2>2. IsLinks(n, l)
    BY <2>1, LinksChange DEF LinksTyped
  <2> QED BY <1>1, <2>1, <2>2
<1>10. ASSUME NEW n \in Nodes, JoinGame(n) PROVE LinksTyped'
  <2> DEFINE l == [links[n] EXCEPT !.joined = TRUE]
  <2>1. links' = [links EXCEPT ![n] = l]
    BY <1>10 DEF JoinGame, Join
  <2>2. IsLinks(n, l)
    BY LinksChange DEF LinksTyped
  <2> QED BY <1>1, <2>1, <2>2
<1>11. ASSUME NEW n \in Nodes, Fails(n) \/ SaveKeypair(n) \/ Report(n) \/ SetupEvent(n)
                \/ SetupEvents(n) \/ Play(n) \/ ReadGossip(n) \/ HandleGossip(n)
       PROVE  LinksTyped'
  <2>1. UNCHANGED links
    BY <1>11 DEF Fails, SaveKeypair, Report, SetupEvent, SetupEvents, Play, ReadGossip,
                 HandleGossip, NextEvent, CopyEvents, DrainEvents, eventVars
  <2> QED BY <1>2, <2>1
<1>12. ASSUME NEW d, DialError(d) PROVE LinksTyped'
  BY <1>2, <1>12 DEF DialError
<1>13. ASSUME NEW d, NEW p, Connect(d, p) PROVE LinksTyped'
  BY <1>2, <1>13 DEF Connect
<1>14. ASSUME NEW n \in Nodes, NEW p \in Nodes, Gossip(n, p) PROVE LinksTyped'
  BY <1>2, <1>14 DEF Gossip, GossipMessage
<1>15. CASE UNCHANGED vars
  BY <1>2, <1>15 DEF vars, eventVars
<1> QED BY <1>4, <1>5, <1>6, <1>7, <1>8, <1>9, <1>10, <1>11, <1>12, <1>13, <1>14, <1>15
        DEF Next, Swarm

-----------------------------------------------------------------------------
(* What a step does to the event queues *)

SameConnected == \A m \in Nodes : links'[m].connected = links[m].connected

\* The event of the kind about the peer is pushed, and what is connected changes as it says.
Reports(n, kind, peer, value) ==
  /\ Reported(n, kind, peer, value)
  /\ kind = "guess" => value \in Nat
  /\ kind \in {"guess", "win"} => \E p \in Nodes : Gossip(n, p)
  /\ \A m \in Nodes :
       links'[m].connected = IF m = n THEN ToldBy(links[n].connected, [kind |-> kind, peer |-> peer])
                             ELSE links[m].connected

Renews(n) == events' = [events EXCEPT ![n] = NoEvents] /\ links' = [links EXCEPT ![n] = NoLinks]

Reads(n) == (NextEvent(n) \/ CopyEvents(n) \/ DrainEvents(n)) /\ UNCHANGED links

EventStep ==
  \/ UNCHANGED events /\ SameConnected
  \/ \E n \in Nodes : Renews(n) \/ Reads(n)
  \/ \E n \in Nodes : \E kind, peer, value : Reports(n, kind, peer, value)

\* A report that is neither of a connection nor of the game.
LEMMA PlainReport ==
  ASSUME NEW n \in Nodes, NEW kind, NEW peer, NEW value, Reported(n, kind, peer, value),
         kind \notin {"ConnectionEstablished", "ConnectionClosed", "guess", "win"},
         SameConnected
  PROVE  EventStep
<1>1. ToldBy(links[n].connected, [kind |-> kind, peer |-> peer]) = links[n].connected
  BY DEF ToldBy
<1>2. Reports(n, kind, peer, value)
  BY <1>1 DEF Reports, SameConnected
<1> QED BY <1>2 DEF EventStep

LEMMA EventSteps ==
  ASSUME LinksTyped, StreamsTyped, [Next]_vars
  PROVE  EventStep
<1>1. ASSUME UNCHANGED <<events, links>> PROVE EventStep
  BY <1>1 DEF EventStep, SameConnected
<1>2. ASSUME NEW n \in Nodes, Begin(n) \/ End(n) PROVE EventStep
  <2>1. Renews(n)
    BY <1>2 DEF Begin, End, Start, Stop, Renews
  <2> QED BY <2>1 DEF EventStep
<1>3. ASSUME NEW n \in Nodes, SetupEvent(n) \/ SetupEvents(n) \/ ReadGossip(n) \/ HandleGossip(n)
      PROVE  EventStep
  <2>1. Reads(n)
    BY <1>3 DEF SetupEvent, SetupEvents, ReadGossip, HandleGossip, Reads, NextEvent, CopyEvents,
                DrainEvents
  <2> QED BY <2>1 DEF EventStep
<1>4. ASSUME NEW n \in Nodes, Fails(n) \/ SaveKeypair(n) \/ Play(n) PROVE EventStep
  <2>1. UNCHANGED <<events, links>>
    BY <1>4 DEF Fails, SaveKeypair, Play, eventVars
  <2> QED BY <1>1, <2>1
<1>5. ASSUME NEW n \in Nodes, JoinGame(n) PROVE EventStep
  <2>1. links' = [links EXCEPT ![n].joined = TRUE] /\ UNCHANGED events
    BY <1>5 DEF JoinGame, Join
  <2>2. SameConnected
    BY <2>1 DEF LinksTyped, IsLinks, Links, SameConnected
  <2> QED BY <2>1, <2>2 DEF EventStep
<1>6. ASSUME NEW d, d[1] \in Nodes, DialError(d) PROVE EventStep
  <2>1. Reported(d[1], "OutgoingConnectionError", d[1], d[3]) /\ SameConnected
    BY <1>6 DEF DialError, SameConnected
  <2> QED BY <1>6, <2>1, PlainReport
<1>7. ASSUME NEW d, NEW p, Connect(d, p) PROVE EventStep
  BY <1>1, <1>7 DEF Connect
<1>8. ASSUME NEW n \in Nodes, Report(n) PROVE EventStep
  <2>1. Reported(n, "other", n, 0) /\ SameConnected
    BY <1>8 DEF Report, SameConnected
  <2> QED BY <2>1, PlainReport
<1>9. ASSUME NEW n \in Nodes, NEW p \in Nodes, ConnectionEstablished(n, p) PROVE EventStep
  <2> DEFINE e == [kind |-> "ConnectionEstablished", peer |-> p]
  <2>1. Reported(n, "ConnectionEstablished", p, 0)
    BY <1>9 DEF ConnectionEstablished
  <2>2. \A m \in Nodes : links'[m].connected = IF m = n THEN links[n].connected \cup {p}
                                               ELSE links[m].connected
    BY <1>9 DEF ConnectionEstablished, LinksTyped, IsLinks, Links
  <2>3. ToldBy(links[n].connected, e) = links[n].connected \cup {p}
    BY DEF ToldBy
  <2>4. Reports(n, "ConnectionEstablished", p, 0)
    BY <2>1, <2>2, <2>3 DEF Reports
  <2> QED BY <2>4 DEF EventStep
<1>10. ASSUME NEW n \in Nodes, NEW p \in Nodes, ConnectionClosed(n, p) PROVE EventStep
  <2> DEFINE e == [kind |-> "ConnectionClosed", peer |-> p]
  <2>1. Reported(n, "ConnectionClosed", p, 0)
    BY <1>10 DEF ConnectionClosed
  <2>2. \A m \in Nodes : links'[m].connected = IF m = n THEN links[n].connected \ {p}
                                               ELSE links[m].connected
    BY <1>10 DEF ConnectionClosed, LinksTyped, IsLinks, Links
  <2>3. ToldBy(links[n].connected, e) = links[n].connected \ {p}
    BY DEF ToldBy
  <2>4. Reports(n, "ConnectionClosed", p, 0)
    BY <2>1, <2>2, <2>3 DEF Reports
  <2> QED BY <2>4 DEF EventStep
<1>11. ASSUME NEW n \in Nodes, NEW p \in Nodes, Identified(n, p) PROVE EventStep
  <2>1. Reported(n, "IdentifyInfoReceived", p, 0) /\ links' = [links EXCEPT ![n].unidentified = @ \ {p}]
    BY <1>11 DEF Identified
  <2>2. SameConnected
    BY <2>1 DEF LinksTyped, IsLinks, Links, SameConnected
  <2> QED BY <2>1, <2>2, PlainReport
<1>12. ASSUME NEW n \in Nodes, NEW p \in Nodes, Ping(n, p) PROVE EventStep
  <2>1. CASE PingSuccess(n, p)
    <3>1. Reported(n, "OutboundPingSuccess", p, 0)
          /\ links' = [links EXCEPT ![n].errors[p] = @ \div 2, ![n].timeouts[p] = @ \div 2]
      BY <2>1 DEF PingSuccess
    <3>2. SameConnected
      BY <3>1 DEF LinksTyped, IsLinks, Links, SameConnected
    <3> QED BY <3>1, <3>2, PlainReport
  <2>2. ASSUME NEW failure, PingFailure(n, p, failure) PROVE EventStep
    <3>1. PICK new : links' = [links EXCEPT ![n] = IF policy[n].kind = "errors"
                                                   THEN [@ EXCEPT !.errors = new]
                                                   ELSE [@ EXCEPT !.timeouts = new]]
      BY <2>2 DEF PingFailure
    <3>2. SameConnected
      BY <3>1 DEF LinksTyped, IsLinks, Links, SameConnected
    <3>3. Reported(n, "OutboundPingError", p, 0)
      BY <2>2 DEF PingFailure
    <3> QED BY <3>2, <3>3, PlainReport
  <2> QED BY <1>12, <2>1, <2>2 DEF Ping
<1>13. ASSUME NEW n \in Nodes, NEW p \in Nodes, PeerSubscribed(n, p) PROVE EventStep
  <2>1. Reported(n, "GossipsubSubscribeMessageReceived", p, 0)
        /\ links' = [links EXCEPT ![n].subscribed = @ \cup {p}]
    BY <1>13 DEF PeerSubscribed
  <2>2. SameConnected
    BY <2>1 DEF LinksTyped, IsLinks, Links, SameConnected
  <2> QED BY <2>1, <2>2, PlainReport
<1>14. ASSUME NEW n \in Nodes, NEW p \in Nodes, Gossip(n, p) PROVE EventStep
  <2> DEFINE m == Head(stream[p][n])
  <2>1. /\ stream[p][n] # <<>> /\ m.kind # "subscribe" /\ UNCHANGED links
        /\ IF Allows(n, m) THEN Reported(n, m.kind, p, m.value) ELSE UNCHANGED events
    BY <1>14 DEF Gossip, GossipMessage
  <2>2. IsMessage(m)
    <3>1. IsGossip(stream[p][n])
      BY DEF StreamsTyped
    <3>2. m = stream[p][n][1] /\ Len(stream[p][n]) \in Nat \ {0}
      BY <2>1, <3>1, TailFacts DEF IsGossip
    <3> QED BY <3>1, <3>2 DEF IsGossip
  <2>3. SameConnected
    BY <2>1 DEF SameConnected
  <2> HIDE DEF m
  <2>4. CASE Allows(n, m)
    <3>1. m.kind \in {"guess", "win"} /\ m.value \in Nat
      BY <2>1, <2>2 DEF IsMessage
    <3>2. ToldBy(links[n].connected, [kind |-> m.kind, peer |-> p]) = links[n].connected
      BY <3>1 DEF ToldBy
    <3>3. Reports(n, m.kind, p, m.value)
      BY <1>14, <2>1, <2>3, <2>4, <3>1, <3>2 DEF Reports, SameConnected
    <3> QED BY <3>3 DEF EventStep
  <2>5. CASE ~Allows(n, m)
    BY <2>1, <2>3, <2>5 DEF EventStep
  <2> QED BY <2>4, <2>5
<1>15. CASE UNCHANGED vars
  BY <1>1, <1>15 DEF vars, eventVars
<1> QED BY <1>2, <1>3, <1>4, <1>5, <1>6, <1>7, <1>8, <1>9, <1>10, <1>11, <1>12, <1>13, <1>14,
           <1>15 DEF Next, Swarm

LEMMA EventsKept ==
  ASSUME EventsTyped, EventStep
  PROVE  EventsTyped'
<1>1. ASSUME NEW n \in Nodes, NEW e, IsReader(e), events' = [events EXCEPT ![n] = e]
      PROVE  EventsTyped'
  BY <1>1 DEF EventsTyped
<1>2. CASE UNCHANGED events
  BY <1>2 DEF EventsTyped
<1>3. ASSUME NEW n \in Nodes, Renews(n) PROVE EventsTyped'
  BY <1>1, <1>3, NoEventsReader DEF Renews
<1>4. ASSUME NEW n \in Nodes, Reads(n) PROVE EventsTyped'
  <2>1. IsReader(events[n])
    BY DEF EventsTyped
  <2>2. CASE NextEvent(n)
    <3>1. events' = [events EXCEPT ![n] = Popped(events[n])] /\ events[n].queue # <<>>
      BY <2>2 DEF NextEvent
    <3>2. IsReader(Popped(events[n]))
      BY <2>1, <3>1, PoppedFacts
    <3> QED BY <1>1, <3>1, <3>2
  <2>3. CASE CopyEvents(n)
    <3> DEFINE e == [events[n] EXCEPT !.copy = {events[n].queue}]
    <3>1. events' = [events EXCEPT ![n] = e]
      BY <2>3 DEF CopyEvents
    <3>2. IsReader(e)
      BY <2>1, CopiedFacts
    <3> QED BY <1>1, <3>1, <3>2
  <2>4. CASE DrainEvents(n)
    <3>1. PICK s : events' = [events EXCEPT ![n] = Drained(events[n], s)]
      BY <2>4 DEF DrainEvents
    <3>2. IsReader(Drained(events[n], s))
      BY <2>1, DrainedFacts
    <3> QED BY <1>1, <3>1, <3>2
  <2> QED BY <1>4, <2>2, <2>3, <2>4 DEF Reads
<1>5. ASSUME NEW n \in Nodes, NEW kind, NEW peer, NEW value, Reports(n, kind, peer, value)
      PROVE  EventsTyped'
  <2>1. IsReader(events[n])
    BY DEF EventsTyped
  <2>2. IsReader(Push(events[n], kind, peer, value))
    BY <1>5, <2>1, PushFacts DEF Reports
  <2> QED BY <1>1, <1>5, <2>2 DEF Reports, Reported
<1> QED BY <1>2, <1>3, <1>4, <1>5 DEF EventStep

-----------------------------------------------------------------------------
(* What a step does to the streams *)

\* t has the gossip of the game in the order it has in s, perhaps without the first.
GameKinds == {"guess", "win"}

ShiftedBy(cut, t, s) ==
  \A i \in 1..Len(t) :
    t[i].kind \in GameKinds =>
      /\ i + cut \in 1..Len(s)
      /\ t[i].kind = s[i + cut].kind
      /\ t[i].value = s[i + cut].value
      /\ t[i].peer = s[i + cut].peer

Thinned(t, s) == \E cut \in {0, 1} : ShiftedBy(cut, t, s)

StreamsThinned == \A q, p \in Nodes : Thinned(stream'[q][p], stream[q][p])

LEMMA ThinnedSelf == ASSUME NEW s, Len(s) \in Nat PROVE Thinned(s, s)
BY DEF Thinned, ShiftedBy

LEMMA CutThins ==
  ASSUME StreamsTyped, NEW n \in Nodes, NEW peers, CutStreams(n, peers)
  PROVE  StreamsTyped' /\ StreamsThinned
<1>1. PICK arrives \in Nat :
        stream' = [q \in Nodes |-> [p \in Nodes |->
                     IF q = n /\ p \in peers
                     THEN SubSeq(stream[q][p], 1, Min({arrives, Len(stream[q][p])}))
                     ELSE IF p = n /\ q \in peers THEN <<>>
                     ELSE stream[q][p]]]
  <2> DEFINE last == Max({0} \cup {Len(stream[n][p]) : p \in peers})
  <2>1. PICK arrives \in 0..last :
          stream' = [q \in Nodes |-> [p \in Nodes |->
                       IF q = n /\ p \in peers
                       THEN SubSeq(stream[q][p], 1, Min({arrives, Len(stream[q][p])}))
                       ELSE IF p = n /\ q \in peers THEN <<>>
                       ELSE stream[q][p]]]
    BY Zenon DEF CutStreams
  <2> HIDE DEF last
  <2>2. arrives \in Nat
    BY SMT
  <2> QED BY <2>1, <2>2, Zenon
<1>2. ASSUME NEW q \in Nodes, NEW p \in Nodes
      PROVE  IsGossip(stream'[q][p]) /\ Thinned(stream'[q][p], stream[q][p])
  <2> DEFINE s == stream[q][p]
             k == Min({arrives, Len(s)})
  <2>1. IsGossip(s) /\ IsSeq(s) /\ Len(s) \in Nat
    BY SeqFacts DEF StreamsTyped, IsGossip
  <2>2. CASE q = n /\ p \in peers
    <3>1. stream'[q][p] = SubSeq(s, 1, k)
      BY <1>1, <2>2
    <3> HIDE DEF s
    <3>2. k \in 0..Len(s)
      BY <2>1, SMT DEF Min
    <3> HIDE DEF k
    <3> DEFINE t == SubSeq(s, 1, k)
    <3>3. IsSeq(t) /\ Len(t) = k /\ \A i \in 1..k : t[i] = s[i]
      BY <2>1, <3>2, PrefixFacts
    <3> HIDE DEF t
    <3>4. IsGossip(t)
      BY <2>1, <3>2, <3>3 DEF IsGossip
    <3>5. Thinned(t, s)
      BY <2>1, <3>2, <3>3 DEF Thinned, ShiftedBy
    <3> QED BY <3>1, <3>4, <3>5 DEF t, s
  <2>3. CASE ~(q = n /\ p \in peers) /\ p = n /\ q \in peers
    <3> DEFINE t == <<>>
    <3>1. stream'[q][p] = t /\ IsSeq(t) /\ Len(t) = 0
      BY <1>1, <2>3, EmptyFacts
    <3> HIDE DEF t
    <3>2. IsGossip(t) /\ Thinned(t, s)
      BY <3>1 DEF IsGossip, Thinned, ShiftedBy
    <3> QED BY <3>1, <3>2
  <2>4. CASE ~(q = n /\ p \in peers) /\ ~(p = n /\ q \in peers)
    <3>1. stream'[q][p] = s
      BY <1>1, <2>4
    <3> QED BY <2>1, <3>1, ThinnedSelf
  <2> QED BY <2>2, <2>3, <2>4
<1>3. stream' = [q \in Nodes |-> [p \in Nodes |-> stream'[q][p]]]
  BY <1>1
<1> QED BY <1>2, <1>3 DEF StreamsTyped, StreamsThinned

LEMMA SubscribesThins ==
  ASSUME StreamsTyped, NEW n \in Nodes, NEW peers, Subscribes(n, peers)
  PROVE  StreamsTyped' /\ StreamsThinned
<1> DEFINE m == [kind |-> "subscribe", value |-> 0]
<1>1. stream' = [q \in Nodes |-> [p \in Nodes |->
                   IF q = n /\ p \in peers THEN Append(stream[q][p], m) ELSE stream[q][p]]]
  BY DEF Subscribes, StreamsTyped
<1>2. IsMessage(m) /\ m.kind = "subscribe"
  BY DEF IsMessage
<1> HIDE DEF m
<1>3. ASSUME NEW q \in Nodes, NEW p \in Nodes
      PROVE  IsGossip(stream'[q][p]) /\ Thinned(stream'[q][p], stream[q][p])
  <2> DEFINE s == stream[q][p]
             t == Append(s, m)
  <2>1. IsGossip(s) /\ IsSeq(s) /\ Len(s) \in Nat
    BY SeqFacts DEF StreamsTyped, IsGossip
  <2>2. CASE q = n /\ p \in peers
    <3>1. stream'[q][p] = t
      BY <1>1, <2>2
    <3> HIDE DEF s
    <3>2. /\ IsSeq(t) /\ Len(t) = Len(s) + 1
          /\ \A i \in 1..Len(s) + 1 : t[i] = IF i = Len(s) + 1 THEN m ELSE s[i]
      BY <2>1, AppendFacts
    <3> HIDE DEF t
    <3>3. IsGossip(t)
      BY <1>2, <2>1, <3>2 DEF IsGossip
    <3>4. \A i \in 1..Len(t) : t[i].kind \in GameKinds => i \in 1..Len(s) /\ t[i] = s[i]
      BY <1>2, <2>1, <3>2 DEF GameKinds
    <3>5. Thinned(t, s)
      BY <2>1, <3>4 DEF Thinned, ShiftedBy
    <3> QED BY <3>1, <3>3, <3>5 DEF s
  <2>3. CASE ~(q = n /\ p \in peers)
    <3>1. stream'[q][p] = s
      BY <1>1, <2>3
    <3> QED BY <2>1, <3>1, ThinnedSelf
  <2> QED BY <2>2, <2>3
<1>4. stream' = [q \in Nodes |-> [p \in Nodes |-> stream'[q][p]]]
  BY <1>1
<1> QED BY <1>3, <1>4 DEF StreamsTyped, StreamsThinned

\* What is received is taken off its stream.
LEMMA ReceivedFacts ==
  ASSUME StreamsTyped, NEW n \in Nodes, NEW p \in Nodes, NEW m, Received(n, p, m)
  PROVE  /\ StreamsTyped' /\ StreamsThinned
         /\ Len(stream[p][n]) \in Nat \ {0} /\ m = stream[p][n][1] /\ IsMessage(m)
         /\ Len(stream'[p][n]) = Len(stream[p][n]) - 1
         /\ \A i \in 1..Len(stream'[p][n]) : stream'[p][n][i] = stream[p][n][i + 1]
         /\ \A q, r \in Nodes : ~(q = p /\ r = n) => stream'[q][r] = stream[q][r]
<1>1. /\ stream[p][n] # <<>> /\ m = Head(stream[p][n])
      /\ stream' = [stream EXCEPT ![p][n] = Tail(@)]
  BY DEF Received
<1>2. stream' = [q \in Nodes |-> [r \in Nodes |->
                   IF q = p /\ r = n THEN Tail(stream[p][n]) ELSE stream[q][r]]]
  BY <1>1 DEF StreamsTyped
<1> DEFINE s == stream[p][n]
           t == Tail(s)
<1>3. IsGossip(s) /\ IsSeq(s)
  BY DEF StreamsTyped, IsGossip
<1>4. /\ IsSeq(t) /\ Len(s) \in Nat \ {0} /\ Len(t) = Len(s) - 1 /\ m = s[1]
      /\ \A i \in 1..Len(s) - 1 : t[i] = s[i + 1]
  BY <1>1, <1>3, TailFacts
<1>5. stream'[p][n] = t /\ \A q, r \in Nodes : ~(q = p /\ r = n) => stream'[q][r] = stream[q][r]
  BY <1>2
<1> HIDE DEF s, t
<1>6. IsGossip(t) /\ IsMessage(m)
  BY <1>3, <1>4 DEF IsGossip
<1>7. Thinned(t, s)
  BY <1>4 DEF Thinned, ShiftedBy
<1>8. ASSUME NEW q \in Nodes, NEW r \in Nodes
      PROVE  IsGossip(stream'[q][r]) /\ Thinned(stream'[q][r], stream[q][r])
  <2>1. CASE q = p /\ r = n
    BY <2>1, <1>5, <1>6, <1>7 DEF s
  <2>2. CASE ~(q = p /\ r = n)
    <3>1. IsGossip(stream[q][r]) /\ Len(stream[q][r]) \in Nat
      BY SeqFacts DEF StreamsTyped, IsGossip
    <3> QED BY <2>2, <3>1, <1>5, ThinnedSelf
  <2> QED BY <2>1, <2>2
<1>9. stream' = [q \in Nodes |-> [r \in Nodes |-> stream'[q][r]]]
  BY <1>2
<1>10. StreamsTyped' /\ StreamsThinned
  BY <1>8, <1>9 DEF StreamsTyped, StreamsThinned
<1> QED BY <1>4, <1>5, <1>6, <1>10 DEF s

\* What a node that plays appends to the streams of the peers that are members.
LEMMA AnnouncementFacts ==
  ASSUME NEW n \in Nodes, NEW g \in Guesses
  PROVE  /\ IsGossip(Announcement(n, g)) /\ Len(Announcement(n, g)) \in {1, 2}
         /\ Announcement(n, g)[1] = [kind |-> "guess", value |-> g]
         /\ Len(Announcement(n, g)) = 2 => /\ game[n].score = HighScore
                                           /\ Announcement(n, g)[2] = [kind |-> "win", value |-> g]
<1> DEFINE m == [kind |-> "guess", value |-> g]
           w == [kind |-> "win", value |-> g]
<1>1. g \in Nat
  BY GameAssumption
<1>2. IsMessage(m) /\ IsMessage(w)
  BY <1>1 DEF IsMessage
<1>3. Announcement(n, g) = IF game[n].score = HighScore THEN <<m, w>> ELSE <<m>>
  BY DEF Announcement
<1> HIDE DEF m, w
<1>4. <<m, w>> \in Seq({m, w}) /\ <<m>> \in Seq({m, w})
  OBVIOUS
<1>5. IsGossip(<<m, w>>) /\ IsGossip(<<m>>)
  <2>1. \A i \in 1..2 : IsMessage(<<m, w>>[i])
    BY <1>2
  <2>2. \A i \in 1..1 : IsMessage(<<m>>[i])
    BY <1>2
  <2>3. IsSeq(<<m, w>>) /\ IsSeq(<<m>>)
    BY <1>4 DEF IsSeq
  <2> QED BY <2>1, <2>2, <2>3 DEF IsGossip
<1> QED BY <1>3, <1>5 DEF m, w

LEMMA PublishedFacts ==
  ASSUME StreamsTyped, NEW n \in Nodes, NEW ms, IsGossip(ms), Published(n, ms)
  PROVE  /\ StreamsTyped'
         /\ \A q, p \in Nodes :
              \/ stream'[q][p] = stream[q][p]
              \/ /\ q = n /\ p \in links[n].subscribed
                 /\ Len(stream'[q][p]) = Len(stream[q][p]) + Len(ms)
                 /\ \A i \in 1..Len(stream'[q][p]) :
                      stream'[q][p][i] = IF i <= Len(stream[q][p]) THEN stream[q][p][i]
                                         ELSE ms[i - Len(stream[q][p])]
<1> DEFINE to(q, p) == q = n /\ p \in links[n].subscribed /\ {n, p} \in wires
<1>1. stream' = [q \in Nodes |-> [p \in Nodes |->
                   IF to(q, p) THEN stream[q][p] \o ms ELSE stream[q][p]]]
  BY DEF Published, StreamsTyped
<1>2. IsSeq(ms) /\ Len(ms) \in Nat
  BY SeqFacts DEF IsGossip
<1>3. ASSUME NEW q \in Nodes, NEW p \in Nodes
      PROVE  /\ IsGossip(stream'[q][p])
             /\ \/ stream'[q][p] = stream[q][p]
                \/ /\ q = n /\ p \in links[n].subscribed
                   /\ Len(stream'[q][p]) = Len(stream[q][p]) + Len(ms)
                   /\ \A i \in 1..Len(stream'[q][p]) :
                        stream'[q][p][i] = IF i <= Len(stream[q][p]) THEN stream[q][p][i]
                                           ELSE ms[i - Len(stream[q][p])]
  <2> DEFINE s == stream[q][p]
             t == s \o ms
  <2>1. IsGossip(s) /\ IsSeq(s) /\ Len(s) \in Nat
    BY SeqFacts DEF StreamsTyped, IsGossip
  <2>2. CASE to(q, p)
    <3>1. stream'[q][p] = t
      BY <1>1, <2>2
    <3> HIDE DEF s
    <3>2. /\ IsSeq(t) /\ Len(t) = Len(s) + Len(ms)
          /\ \A i \in 1..Len(s) + Len(ms) : t[i] = IF i <= Len(s) THEN s[i] ELSE ms[i - Len(s)]
      BY <1>2, <2>1, ConcatFacts
    <3> HIDE DEF t
    <3>3. IsGossip(t)
      BY <1>2, <2>1, <3>2 DEF IsGossip
    <3> QED BY <2>2, <3>1, <3>2, <3>3 DEF s
  <2>3. CASE ~to(q, p)
    <3>1. stream'[q][p] = s
      BY <1>1, <2>3
    <3> QED BY <2>1, <3>1
  <2> QED BY <2>2, <2>3
<1>4. stream' = [q \in Nodes |-> [p \in Nodes |-> stream'[q][p]]]
  BY <1>1
<1> QED BY <1>3, <1>4 DEF StreamsTyped

\* Every step but a round's gossip, and the game's gossip received, only thins them.
LEMMA StreamSteps ==
  ASSUME StreamsTyped, [Next]_vars
  PROVE  /\ StreamsTyped'
         /\ StreamsThinned \/ \E n \in Nodes : Play(n)
<1>1. ASSUME UNCHANGED stream PROVE StreamsTyped' /\ StreamsThinned
  <2>1. \A q, p \in Nodes : Len(stream[q][p]) \in Nat
    BY SeqFacts DEF StreamsTyped, IsGossip
  <2> QED BY <1>1, <2>1, ThinnedSelf DEF StreamsTyped, StreamsThinned
<1>2. ASSUME NEW n \in Nodes, End(n) PROVE StreamsTyped' /\ StreamsThinned
  BY <1>2, CutThins DEF End, Stop
<1>3. ASSUME NEW n \in Nodes, JoinGame(n) PROVE StreamsTyped' /\ StreamsThinned
  BY <1>3, SubscribesThins DEF JoinGame, Join
<1>4. ASSUME NEW n \in Nodes, NEW p \in Nodes, ConnectionEstablished(n, p)
      PROVE  StreamsTyped' /\ StreamsThinned
  BY <1>4, SubscribesThins DEF ConnectionEstablished
<1>5. ASSUME NEW n \in Nodes, NEW p \in Nodes, Identified(n, p) \/ Ping(n, p)
      PROVE  StreamsTyped' /\ StreamsThinned
  <2>1. (\E c : DisconnectIf(c, n, p)) \/ UNCHANGED stream
    BY <1>5 DEF Identified, Ping, PingSuccess, PingFailure
  <2>2. (\E peers : CutStreams(n, peers)) \/ UNCHANGED stream
    BY <2>1 DEF DisconnectIf
  <2> QED BY <1>1, <2>2, CutThins
<1>6. ASSUME NEW n \in Nodes, NEW p \in Nodes, PeerSubscribed(n, p) \/ Gossip(n, p)
      PROVE  StreamsTyped' /\ StreamsThinned
  <2>1. \E m : Received(n, p, m)
    BY <1>6 DEF PeerSubscribed, Gossip, GossipMessage
  <2> QED BY <2>1, ReceivedFacts
<1>7. ASSUME NEW n \in Nodes, Play(n) PROVE StreamsTyped'
  <2>1. PICK g \in Guesses : Published(n, Announcement(n, g))
    BY <1>7 DEF Play
  <2> QED BY <2>1, AnnouncementFacts, PublishedFacts
<1>8. ASSUME NEW n \in Nodes, Begin(n) \/ Fails(n) \/ SaveKeypair(n) \/ Report(n)
               \/ SetupEvent(n) \/ SetupEvents(n) \/ ReadGossip(n) \/ HandleGossip(n)
      PROVE  StreamsTyped' /\ StreamsThinned
  <2>1. UNCHANGED stream
    BY <1>8 DEF Begin, Start, Fails, SaveKeypair, Report, SetupEvent, SetupEvents, ReadGossip,
                HandleGossip, NextEvent, CopyEvents, DrainEvents, eventVars
  <2> QED BY <1>1, <2>1
<1>9. ASSUME NEW d, DialError(d) PROVE StreamsTyped' /\ StreamsThinned
  BY <1>1, <1>9 DEF DialError
<1>10. ASSUME NEW d, NEW p, Connect(d, p) PROVE StreamsTyped' /\ StreamsThinned
  BY <1>1, <1>10 DEF Connect
<1>11. ASSUME NEW n \in Nodes, NEW p \in Nodes, ConnectionClosed(n, p)
       PROVE  StreamsTyped' /\ StreamsThinned
  BY <1>1, <1>11 DEF ConnectionClosed
<1>12. CASE UNCHANGED vars
  BY <1>1, <1>12 DEF vars, eventVars
<1> QED BY <1>2, <1>3, <1>4, <1>5, <1>6, <1>7, <1>8, <1>9, <1>10, <1>11, <1>12 DEF Next, Swarm

-----------------------------------------------------------------------------
(* Connections *)

WiresInv == wires \subseteq SUBSET Nodes /\ quiet \subseteq wires

LEMMA WiresKept ==
  ASSUME WiresInv, [Next]_vars
  PROVE  WiresInv'
<1>1. ASSUME UNCHANGED <<wires, quiet>> PROVE WiresInv'
  BY <1>1 DEF WiresInv
<1>2. ASSUME NEW n \in Nodes, End(n) PROVE WiresInv'
  BY <1>2 DEF End, Stop, StopNode, WiresInv
<1>3. ASSUME NEW d, d[1] \in Nodes, NEW p \in Nodes, Connect(d, p) PROVE WiresInv'
  BY <1>3 DEF Connect, DialReaches, WiresInv
<1>4. ASSUME NEW n \in Nodes, NEW p \in Nodes, NEW closes \in BOOLEAN, DisconnectIf(closes, n, p),
             quiet' \subseteq quiet, closes => quiet' = quiet \ {{n, p}}
      PROVE  WiresInv'
  <2>1. CASE closes
    BY <1>4, <2>1 DEF DisconnectIf, Disconnect, WiresInv
  <2>2. CASE ~closes
    BY <1>4, <2>2 DEF DisconnectIf, setupVars, WiresInv
  <2> QED BY <2>1, <2>2
<1>5. ASSUME NEW n \in Nodes, NEW p \in Nodes, Identified(n, p) PROVE WiresInv'
  <2> DEFINE closes == netId[n] # DefaultNetworkId
  <2>1. closes \in BOOLEAN /\ DisconnectIf(closes, n, p)
        /\ quiet' = IF closes THEN quiet \ {{n, p}} ELSE quiet
    BY <1>5 DEF Identified
  <2> HIDE DEF closes
  <2> QED BY <1>4, <2>1
<1>6. ASSUME NEW n \in Nodes, NEW p \in Nodes, Ping(n, p) PROVE WiresInv'
  <2>1. CASE PingSuccess(n, p)
    BY <1>1, <2>1 DEF PingSuccess, setupVars
  <2>2. ASSUME NEW failure, PingFailure(n, p, failure) PROVE WiresInv'
    <3> DEFINE counts == IF policy[n].kind = "errors" THEN links[n].errors ELSE links[n].timeouts
               closes == Counted(policy[n], failure) /\ counts[p] # policy[n].max
    <3>1. closes \in BOOLEAN /\ DisconnectIf(closes, n, p)
      BY <2>2 DEF PingFailure
    <3>2. quiet' = IF Excuses(policy[n].kind, failure) THEN quiet \ {{n, p}} ELSE quiet
      BY <2>2 DEF PingFailure
    <3>3. closes => Excuses(policy[n].kind, failure)
      BY DEF Counted, Excuses
    <3> HIDE DEF closes
    <3> QED BY <1>4, <3>1, <3>2, <3>3
  <2> QED BY <1>6, <2>1, <2>2 DEF Ping
<1>7. ASSUME NEW n \in Nodes, Begin(n) \/ Fails(n) \/ SaveKeypair(n) \/ Report(n)
               \/ SetupEvent(n) \/ SetupEvents(n) \/ JoinGame(n) \/ Play(n) \/ ReadGossip(n)
               \/ HandleGossip(n)
      PROVE  WiresInv'
  <2>1. UNCHANGED <<wires, quiet>>
    BY <1>7 DEF Begin, Start, StartNode, Fails, StartFails, SaveKeypair, SaveKeypairOffline,
                NameKeyType, Report, SetupEvent, SetupEvents, JoinGame, Join, Play, ReadGossip,
                HandleGossip, NextEvent, CopyEvents, DrainEvents, eventVars, setupVars
  <2> QED BY <1>1, <2>1
<1>8. ASSUME NEW d, DialError(d) PROVE WiresInv'
  BY <1>1, <1>8 DEF DialError, DialFails
<1>9. ASSUME NEW n \in Nodes, NEW p \in Nodes,
             ConnectionEstablished(n, p) \/ ConnectionClosed(n, p) \/ PeerSubscribed(n, p)
               \/ Gossip(n, p)
      PROVE  WiresInv'
  <2>1. UNCHANGED <<wires, quiet>>
    BY <1>9 DEF ConnectionEstablished, ConnectionClosed, PeerSubscribed, Gossip, GossipMessage,
                setupVars
  <2> QED BY <1>1, <2>1
<1>10. CASE UNCHANGED vars
  BY <1>1, <1>10 DEF vars, setupVars, eventVars
<1> QED BY <1>2, <1>3, <1>5, <1>6, <1>7, <1>8, <1>9, <1>10 DEF Next, Swarm

-----------------------------------------------------------------------------
(* The game's own state *)

LEMMA GameKept ==
  ASSUME GameTyped, EventsTyped, [Next]_vars
  PROVE  GameTyped'
<1> DEFINE Games == [phase : Phases, guess : Guesses \cup {-1}, score : Scores]
<1>1. ASSUME UNCHANGED gameVars PROVE GameTyped'
  BY <1>1 DEF gameVars, GameTyped
<1>2. ASSUME NEW n \in Nodes, End(n) PROVE GameTyped'
  <2>1. NewGame \in Games
    BY DEF NewGame, Phases, Scores
  <2>2. game' = [game EXCEPT ![n] = NewGame]
    BY <1>2 DEF End
  <2>3. game' \in [Nodes -> Games]
    BY <2>1, <2>2 DEF GameTyped
  <2>4. 0 \in 0..MaxRounds
    BY GameAssumption
  <2> QED BY <1>2, <2>3, <2>4 DEF End, GameTyped
<1>3. ASSUME NEW n \in Nodes, NEW phase \in Phases, To(n, phase),
             UNCHANGED <<rounds, heard, told, winners>>
      PROVE  GameTyped'
  BY <1>3 DEF To, GameTyped
<1>4. ASSUME NEW n \in Nodes, SetupEvents(n) PROVE GameTyped'
  <2>1. UNCHANGED game \/ To(n, "join")
    BY <1>4 DEF SetupEvents
  <2>2. UNCHANGED <<rounds, heard, told, winners>>
    BY <1>4 DEF SetupEvents
  <2>3. "join" \in Phases
    BY DEF Phases
  <2> QED BY <1>1, <1>3, <2>1, <2>2, <2>3 DEF gameVars
<1>5. ASSUME NEW n \in Nodes, JoinGame(n) PROVE GameTyped'
  <2>1. "play" \in Phases
    BY DEF Phases
  <2> QED BY <1>3, <1>5, <2>1 DEF JoinGame
<1>6. ASSUME NEW n \in Nodes, ReadGossip(n) PROVE GameTyped'
  <2>1. "handle" \in Phases
    BY DEF Phases
  <2> QED BY <1>3, <1>6, <2>1 DEF ReadGossip
<1>7. ASSUME NEW n \in Nodes, Play(n) PROVE GameTyped'
  <2>1. PICK g \in Guesses, phase \in Phases :
          game' = [game EXCEPT ![n].guess = g, ![n].phase = phase]
    <3>1. PICK g \in Guesses :
            game' = [game EXCEPT ![n].guess = g,
                                 ![n].phase = CASE game[n].score = HighScore -> "won"
                                                [] game[n].score = -1 -> "lost"
                                                [] OTHER -> "read"]
      BY <1>7 DEF Play
    <3> DEFINE phase == CASE game[n].score = HighScore -> "won"
                          [] game[n].score = -1 -> "lost"
                          [] OTHER -> "read"
    <3>2. phase \in Phases
      <4>1. CASE game[n].score = HighScore
        <5>1. phase = "won"
          BY <4>1, GameAssumption
        <5> QED BY <5>1 DEF Phases
      <4>2. CASE game[n].score # HighScore
        BY <4>2 DEF Phases
      <4> QED BY <4>1, <4>2
    <3>3. game' = [game EXCEPT ![n].guess = g, ![n].phase = phase]
      BY <3>1
    <3> HIDE DEF phase
    <3> QED BY <3>2, <3>3
  <2>2. game' \in [Nodes -> Games]
    BY <2>1 DEF GameTyped
  <2>3. rounds' \in [Nodes -> 0..MaxRounds] /\ winners' \subseteq Nodes
    BY <1>7, GameAssumption DEF Play, GameTyped
  <2> QED BY <1>7, <2>2, <2>3 DEF Play, GameTyped
<1>8. ASSUME NEW n \in Nodes, HandleGossip(n) PROVE GameTyped'
  <2>1. PICK s \in events[n].copy :
          game' = [game EXCEPT ![n].phase = "play",
                               ![n].score = ScoreAfter(game[n].guess, game[n].score, s)]
    BY <1>8 DEF HandleGossip
  <2>2. IsQueue(s) /\ IsSeq(s)
    BY DEF EventsTyped, IsReader, IsQueue
  <2>3. ScoreAfter(game[n].guess, game[n].score, s) \in Scores
    <3>1. \A i \in 1..Len(s) : s[i].kind = "guess" => s[i].value \in Nat
      BY <2>2 DEF IsQueue, IsEvent
    <3>2. game[n].guess \in Guesses \cup {-1} /\ game[n].score \in Scores
      BY DEF GameTyped
    <3> QED BY <2>2, <3>1, <3>2, ScoreFacts
  <2>4. "play" \in Phases
    BY DEF Phases
  <2>5. game' \in [Nodes -> Games]
    BY <2>1, <2>3, <2>4 DEF GameTyped
  <2>6. told' \subseteq Nodes
    BY <1>8 DEF HandleGossip, GameTyped
  <2> QED BY <1>8, <2>5, <2>6 DEF HandleGossip, GameTyped
<1>9. ASSUME NEW n \in Nodes, NEW p \in Nodes, Gossip(n, p) PROVE GameTyped'
  <2>1. heard' \in [Nodes -> Nat]
    BY <1>9 DEF Gossip, GameTyped
  <2> QED BY <1>9, <2>1 DEF Gossip, GameTyped
<1>10. ASSUME NEW n \in Nodes, Begin(n) \/ Fails(n) \/ SaveKeypair(n) \/ Swarm(n) \/ SetupEvent(n)
       PROVE  GameTyped'
  BY <1>1, <1>10 DEF Begin, Fails, SaveKeypair, Swarm, SetupEvent
<1>11. CASE UNCHANGED vars
  BY <1>1, <1>11 DEF vars
<1> QED BY <1>2, <1>4, <1>5, <1>6, <1>7, <1>8, <1>9, <1>10, <1>11 DEF Next

-----------------------------------------------------------------------------
(* Type correctness *)

FewNodes ==
  /\ fromFile \in FileUsers
  /\ \A n \in Nodes : Cardinality(node[n]) <= 1 /\ starts[n] <= MaxStarts
  /\ \A n \in Nodes : Up(n) => starts[n] > 0

Types ==
  /\ SetupInv /\ FewNodes /\ WiresInv
  /\ EventsTyped /\ LinksTyped /\ StreamsTyped /\ GameTyped

LEMMA FewCardinality == Cardinality({}) = 0 /\ \A x : Cardinality({x}) = 1
BY FS_EmptySet, FS_Singleton

LEMMA FewNodesKept ==
  ASSUME SetupInv, FewNodes, [Next]_vars
  PROVE  FewNodes'
<1>1. CASE UNCHANGED <<fromFile, file, node, starts, saved>>
  BY <1>1 DEF FewNodes, Up
<1>2. ASSUME NEW n \in Nodes, StartNode(n) PROVE FewNodes'
  <2>1. PICK c : node' = [node EXCEPT ![n] = {c}]
    BY <1>2 DEF StartNode
  <2>2. \A m \in Nodes : node'[m] = IF m = n THEN {c} ELSE node[m]
    BY <2>1 DEF SetupInv, SetupTyped
  <2>3. starts[n] < MaxStarts
        /\ \A m \in Nodes : starts[m] \in Nat /\ starts'[m] = IF m = n THEN starts[m] + 1 ELSE starts[m]
    BY <1>2 DEF StartNode, SetupInv, SetupTyped
  <2>4. \A m \in Nodes : starts'[m] <= MaxStarts
    BY <2>3, BoundsAssumption DEF FewNodes
  <2>5. \A m \in Nodes : Cardinality(node'[m]) <= 1
    <3> SUFFICES ASSUME NEW m \in Nodes PROVE Cardinality(node'[m]) <= 1
      OBVIOUS
    <3>1. CASE m = n
      <4>1. node'[m] = {c} /\ Cardinality({c}) = 1
        BY <2>2, <3>1, FewCardinality
      <4> QED BY <4>1
    <3>2. CASE m # n
      BY <2>2, <3>2 DEF FewNodes
    <3> QED BY <3>1, <3>2
  <2>6. \A m \in Nodes : node'[m] # {} => starts'[m] > 0
    BY <2>2, <2>3 DEF FewNodes, Up
  <2> QED BY <1>2, <2>4, <2>5, <2>6 DEF StartNode, FewNodes, Up
<1>3. ASSUME NEW n \in Nodes, StartFails(n) PROVE FewNodes'
  <2>1. starts[n] < MaxStarts
        /\ \A m \in Nodes : starts[m] \in Nat /\ starts'[m] = IF m = n THEN starts[m] + 1 ELSE starts[m]
    BY <1>3 DEF StartFails, SetupInv, SetupTyped
  <2>2. \A m \in Nodes : starts'[m] <= MaxStarts
    BY <2>1, BoundsAssumption DEF FewNodes
  <2>3. \A m \in Nodes : node[m] # {} => starts'[m] > 0
    BY <2>1 DEF FewNodes, Up
  <2> QED BY <1>3, <2>2, <2>3 DEF StartFails, FewNodes, Up
<1>4. ASSUME NEW n \in Nodes, StopNode(n) PROVE FewNodes'
  <2>1. \A m \in Nodes : node'[m] = IF m = n THEN {} ELSE node[m]
    BY <1>4 DEF StopNode, SetupInv, SetupTyped
  <2>2. \A m \in Nodes : Cardinality(node'[m]) <= 1
    BY <2>1, FewCardinality DEF FewNodes
  <2>3. \A m \in Nodes : node'[m] # {} => starts[m] > 0
    BY <2>1 DEF FewNodes, Up
  <2> QED BY <1>4, <2>2, <2>3 DEF StopNode, FewNodes, Up
<1>5. ASSUME NEW n \in Nodes, SaveKeypairOffline(n) \/ NameKeyType(n) PROVE FewNodes'
  BY <1>5 DEF SaveKeypairOffline, NameKeyType, FewNodes, Up
<1> QED BY <1>1, <1>2, <1>3, <1>4, <1>5, SetupSteps

LEMMA TypesInit == Init => Types
<1> SUFFICES ASSUME Init PROVE Types
  OBVIOUS
<1>1. SetupInv
  BY InitSetup
<1>2. FewNodes
  BY FewCardinality, BoundsAssumption DEF Init, EventsInit, SetupInit, FewNodes, Up
<1>3. WiresInv
  BY DEF Init, EventsInit, SetupInit, WiresInv
<1>4. EventsTyped
  <2>1. events = [n \in Nodes |-> NoEvents]
    BY DEF Init, EventsInit
  <2> QED BY <2>1, NoEventsReader DEF EventsTyped
<1>5. LinksTyped
  <2>1. links = [n \in Nodes |-> NoLinks]
    BY DEF Init, EventsInit
  <2>2. \A n \in Nodes : IsLinks(n, NoLinks)
    BY DEF IsLinks, Links, NoLinks
  <2> QED BY <2>1, <2>2 DEF LinksTyped
<1>6. StreamsTyped
  <2> DEFINE u == <<>>
  <2>1. stream = [n \in Nodes |-> [p \in Nodes |-> u]]
    BY DEF Init, EventsInit
  <2>2. IsSeq(u) /\ Len(u) = 0
    BY EmptyFacts
  <2> HIDE DEF u
  <2>3. IsGossip(u)
    BY <2>2 DEF IsGossip
  <2> QED BY <2>1, <2>3 DEF StreamsTyped
<1>7. GameTyped
  <2> DEFINE Games == [phase : Phases, guess : Guesses \cup {-1}, score : Scores]
  <2>1. NewGame \in Games /\ 0 \in 0..MaxRounds
    BY GameAssumption DEF NewGame, Phases, Scores
  <2> QED BY <2>1 DEF Init, GameTyped
<1> QED BY <1>1, <1>2, <1>3, <1>4, <1>5, <1>6, <1>7 DEF Types

LEMMA TypesKept == Types /\ [Next]_vars => Types'
<1> SUFFICES ASSUME Types, [Next]_vars PROVE Types'
  OBVIOUS
<1> USE DEF Types
<1>1. SetupInv'
  BY SetupKept
<1>2. FewNodes' /\ WiresInv' /\ LinksTyped' /\ GameTyped'
  BY FewNodesKept, WiresKept, LinksKept, GameKept
<1>3. EventsTyped'
  BY EventSteps, EventsKept
<1>4. StreamsTyped'
  BY StreamSteps
<1> QED BY <1>1, <1>2, <1>3, <1>4

LEMMA TypesHold == Spec => []Types
<1> QED BY TypesInit, TypesKept, PTL DEF Spec

(***************************************************************************)
(* Configurations, event queues, links and games keep their types: a queue *)
(* never exceeds MAX_QUEUE_ELEMENTS, members and peers without an          *)
(* identification are connected, and a score is a count or -1, for any     *)
(* nodes, files, configurations and bounds.                                *)
(***************************************************************************)
THEOREM TypeCorrect == Spec => []TypeOK
<1>1. Types => TypeOK
  <2> SUFFICES ASSUME Types PROVE TypeOK
    OBVIOUS
  <2>1. fromFile \in FileUsers /\ wires \subseteq SUBSET Nodes /\ winners \subseteq Nodes
    BY DEF Types, FewNodes, WiresInv, GameTyped
  <2>2. ASSUME NEW n \in Nodes
        PROVE  /\ Cardinality(node[n]) <= 1 /\ Cardinality(saved[n]) <= 1
               /\ starts[n] \in 0..MaxStarts /\ rounds[n] \in 0..MaxRounds
               /\ Len(events[n].queue) <= MaxQueue
               /\ links[n].subscribed \cup links[n].unidentified \subseteq links[n].connected
               /\ game[n].phase \in {"setup", "join", "play", "read", "handle", "won", "lost"}
               /\ game[n].score \in Nat \cup {-1}
               /\ game[n].guess \in Guesses \cup {-1}
    <3>1. Cardinality(saved[n]) <= 1
      <4>1. CASE saved[n] = {}
        BY <4>1, FewCardinality
      <4>2. CASE saved[n] # {}
        <5>1. PICK k : saved[n] = {k}
          BY <4>2 DEF Types, SetupInv, SavedInFile
        <5>2. Cardinality({k}) = 1
          BY FewCardinality
        <5> QED BY <5>1, <5>2
      <4> QED BY <4>1, <4>2
    <3>2. Cardinality(node[n]) <= 1 /\ starts[n] \in 0..MaxStarts
      BY BoundsAssumption DEF Types, FewNodes, SetupInv, SetupTyped
    <3>3. Len(events[n].queue) <= MaxQueue
      BY DEF Types, EventsTyped, IsReader
    <3>4. links[n].subscribed \cup links[n].unidentified \subseteq links[n].connected
      BY DEF Types, LinksTyped, IsLinks
    <3>5. rounds[n] \in 0..MaxRounds /\ game[n].phase \in Phases /\ game[n].score \in Scores
          /\ game[n].guess \in Guesses \cup {-1}
      BY DEF Types, GameTyped
    <3> QED BY <3>1, <3>2, <3>3, <3>4, <3>5 DEF Phases, Scores
  <2> QED BY <2>1, <2>2 DEF TypeOK
<1> QED BY <1>1, TypesHold, PTL

(***************************************************************************)
(* What is queued is in order and newer than all the application handled,  *)
(* however it mixes next_event() and events(), whatever is pushed between  *)
(* the copy and the drain, and whatever a full queue drops (DataQueue).    *)
(***************************************************************************)
THEOREM NewerThanHandledTheorem == Spec => []NewerThanHandled
<1>1. Types => NewerThanHandled
  <2> SUFFICES ASSUME Types, NEW n \in Nodes, NEW i \in DOMAIN events[n].queue
               PROVE  /\ events[n].queue[i].no > 0
                      /\ \A j \in 1..(i - 1) : events[n].queue[j].no < events[n].queue[i].no
    BY DEF NewerThanHandled
  <2>1. IsSeq(events[n].queue) /\ Ascending(events[n].queue)
    BY DEF Types, EventsTyped, IsReader, IsQueue
  <2> QED BY <2>1, SeqFacts DEF Ascending
<1> QED BY <1>1, TypesHold, PTL

(***************************************************************************)
(* A node closes no connection over which no ping failed that its policy   *)
(* counts, whatever the policies, limits and counts left from before (Ping *)
(* and Identify in handle_async_operations).                               *)
(***************************************************************************)
THEOREM QuietConnectionsTheorem == Spec => []QuietConnectionsStay
<1>1. Types => QuietConnectionsStay
  BY DEF Types, WiresInv, QuietConnectionsStay
<1> QED BY <1>1, TypesHold, PTL

-----------------------------------------------------------------------------
(* What the connection events tell *)

LEMMA TellsKept ==
  ASSUME EventsTyped, LinksTyped, EventStep, ConnectionEventsTell
  PROVE  ConnectionEventsTell'
<1> DEFINE Tells(n) ==
      ~events[n].missed => Told(events[n].believes, events[n].queue) = links[n].connected
<1>1. SUFFICES ASSUME NEW m \in Nodes PROVE Tells(m)'
  BY DEF ConnectionEventsTell
<1>2. Tells(m) /\ IsReader(events[m]) /\ IsSeq(events[m].queue)
  BY DEF ConnectionEventsTell, EventsTyped, IsReader, IsQueue
<1>3. ASSUME events'[m] = events[m], links'[m].connected = links[m].connected PROVE Tells(m)'
  BY <1>2, <1>3
<1>4. CASE UNCHANGED events /\ SameConnected
  BY <1>3, <1>4 DEF SameConnected
<1>5. ASSUME NEW n \in Nodes, Renews(n) PROVE Tells(m)'
  <2>1. CASE m = n
    <3>1. events'[m] = NoEvents /\ links'[m] = NoLinks
      BY <1>5, <2>1 DEF Renews, EventsTyped, LinksTyped
    <3>2. NoEvents.believes = {} /\ NoEvents.queue = <<>> /\ NoLinks.connected = {}
      BY DEF NoEvents, NoLinks
    <3> QED BY <3>1, <3>2, ToldNothing
  <2>2. CASE m # n
    <3>1. events'[m] = events[m] /\ links'[m] = links[m]
      BY <1>5, <2>2 DEF Renews, EventsTyped, LinksTyped
    <3> QED BY <1>3, <3>1
  <2> QED BY <2>1, <2>2
<1>6. ASSUME NEW n \in Nodes, m # n, NEW e, events' = [events EXCEPT ![n] = e],
             links'[m].connected = links[m].connected
      PROVE  Tells(m)'
  BY <1>3, <1>6 DEF EventsTyped
<1>7. ASSUME NEW n \in Nodes, Reads(n) PROVE Tells(m)'
  <2>1. UNCHANGED links
    BY <1>7 DEF Reads
  <2>2. PICK e : events' = [events EXCEPT ![n] = e]
    BY <1>7 DEF Reads, NextEvent, CopyEvents, DrainEvents
  <2>3. CASE m # n
    BY <1>6, <2>1, <2>2, <2>3
  <2>4. CASE m = n /\ NextEvent(n)
    <3> DEFINE old == events[m]
               new == Popped(old)
    <3>1. events'[m] = new /\ old.queue # <<>>
      BY <2>4 DEF NextEvent, EventsTyped
    <3>2. IsReader(old) /\ IsSeq(old.queue) /\ Tells(m)
      BY <1>2
    <3> HIDE DEF old
    <3>3. /\ IsReader(new) /\ new.missed = old.missed
          /\ new.believes = ToldBy(old.believes, old.queue[1])
          /\ Len(new.queue) = Len(old.queue) - 1
          /\ \A i \in 1..Len(new.queue) : /\ new.queue[i].kind = old.queue[i + 1].kind
                                          /\ new.queue[i].peer = old.queue[i + 1].peer
      BY <3>1, <3>2, PoppedFacts
    <3>4. IsSeq(new.queue)
      BY <3>3 DEF IsReader, IsQueue
    <3> HIDE DEF new
    <3>5. Told(new.believes, new.queue) = Told(old.believes, old.queue)
      <4> DEFINE b == old.believes
                 s == old.queue
                 t == new.queue
      <4>1. /\ IsSeq(s) /\ s # <<>> /\ IsSeq(t) /\ Len(t) = Len(s) - 1
            /\ \A i \in 1..Len(t) : t[i].kind = s[i + 1].kind /\ t[i].peer = s[i + 1].peer
        BY <3>1, <3>2, <3>3, <3>4
      <4>2. new.believes = ToldBy(b, s[1])
        BY <3>3
      <4> HIDE DEF b, s, t
      <4>3. Told(ToldBy(b, s[1]), t) = Told(b, s)
        BY <4>1, ToldFirst
      <4> QED BY <4>2, <4>3 DEF b, s, t
    <3> QED BY <2>1, <3>1, <3>2, <3>3, <3>5 DEF old
  <2>5. CASE m = n /\ CopyEvents(n)
    <3>1. events'[m] = [events[m] EXCEPT !.copy = {events[m].queue}]
      BY <2>5 DEF CopyEvents, EventsTyped
    <3>2. /\ events'[m].queue = events[m].queue /\ events'[m].believes = events[m].believes
          /\ events'[m].missed = events[m].missed
      BY <1>2, <3>1, CopiedFacts
    <3> QED BY <1>2, <2>1, <3>2
  <2>6. CASE m = n /\ DrainEvents(n)
    <3>1. PICK s : events'[m] = Drained(events[m], s)
      BY <2>6 DEF DrainEvents, EventsTyped
    <3>2. /\ events'[m].queue = <<>> /\ events'[m].believes = Told(events[m].believes, s)
          /\ ~events'[m].missed => ~events[m].missed /\ s = events[m].queue
      BY <1>2, <3>1, DrainedFacts
    <3>3. Told(Told(events[m].believes, s), <<>>) = Told(events[m].believes, s)
      BY ToldNothing
    <3> QED BY <1>2, <2>1, <3>2, <3>3
  <2> QED BY <1>7, <2>3, <2>4, <2>5, <2>6 DEF Reads
<1>8. ASSUME NEW n \in Nodes, NEW kind, NEW peer, NEW value, Reports(n, kind, peer, value)
      PROVE  Tells(m)'
  <2> DEFINE old == events[m]
             new == Push(old, kind, peer, value)
  <2>1. events' = [events EXCEPT ![n] = Push(events[n], kind, peer, value)]
        /\ (kind = "guess" => value \in Nat)
    BY <1>8 DEF Reports, Reported
  <2>2. CASE m # n
    <3>1. links'[m].connected = links[m].connected
      BY <1>8, <2>2 DEF Reports
    <3> QED BY <1>6, <2>1, <2>2, <3>1
  <2>3. CASE m = n
    <3>1. events'[m] = new
      BY <2>1, <2>3 DEF EventsTyped
    <3>2. IsReader(old) /\ IsSeq(old.queue) /\ Tells(m)
      BY <1>2
    <3> HIDE DEF old
    <3>3. PICK cut, e :
            /\ e.kind = kind /\ e.peer = peer
            /\ new.believes = old.believes
            /\ ~new.missed => ~old.missed /\ new.queue = Append(old.queue, e)
      BY <2>1, <3>2, PushFacts
    <3> HIDE DEF new
    <3>4. Told(old.believes, Append(old.queue, e)) = ToldBy(Told(old.believes, old.queue), e)
      BY <3>2, ToldAppend
    <3>5. links'[m].connected = ToldBy(links[m].connected, [kind |-> kind, peer |-> peer])
      BY <1>8, <2>3 DEF Reports
    <3>6. ToldBy(links[m].connected, [kind |-> kind, peer |-> peer])
            = ToldBy(links[m].connected, e)
      BY <3>3 DEF ToldBy
    <3> QED BY <3>1, <3>2, <3>3, <3>4, <3>5, <3>6 DEF old
  <2> QED BY <2>2, <2>3
<1> QED BY <1>4, <1>5, <1>7, <1>8 DEF EventStep

(***************************************************************************)
(* An application that follows the connection events and has missed none   *)
(* will know the peers the swarm reported to it, for any queue length and  *)
(* any mix of next_event() and events().                                   *)
(***************************************************************************)
THEOREM ConnectionEventsTheorem == Spec => []ConnectionEventsTell
<1>1. Init => ConnectionEventsTell
  <2> SUFFICES ASSUME Init, NEW n \in Nodes
               PROVE  Told(events[n].believes, events[n].queue) = links[n].connected
    BY DEF ConnectionEventsTell
  <2>1. events[n] = NoEvents /\ links[n] = NoLinks
    BY DEF Init, EventsInit
  <2>2. NoEvents.believes = {} /\ NoEvents.queue = <<>> /\ NoLinks.connected = {}
    BY DEF NoEvents, NoLinks
  <2> QED BY <2>1, <2>2, ToldNothing
<1>2. Types /\ ConnectionEventsTell /\ [Next]_vars => ConnectionEventsTell'
  BY EventSteps, TellsKept DEF Types
<1> QED BY <1>1, <1>2, TypesHold, PTL DEF Spec

-----------------------------------------------------------------------------
(* What a step does to what a reader has yet to handle, and to the game *)

\* The sequences of events that n may handle next.
Pending(n) == {events[n].queue} \cup events[n].copy

QueuesThinned ==
  \A n \in Nodes :
    /\ Thinned(events'[n].queue, events[n].queue)
    /\ \A s \in events'[n].copy : s = events[n].queue \/ s \in events[n].copy

\* Every step but the game's gossip received only thins the queues.
LEMMA QueueSteps ==
  ASSUME EventsTyped, EventStep
  PROVE  QueuesThinned \/ \E n, p \in Nodes : Gossip(n, p)
<1> DEFINE Fewer(f, e) == /\ Thinned(f.queue, e.queue)
                          /\ \A s \in f.copy : s = e.queue \/ s \in e.copy
<1>1. ASSUME NEW n \in Nodes, NEW f, Fewer(f, events[n]), events' = [events EXCEPT ![n] = f]
      PROVE  QueuesThinned
  <2> SUFFICES ASSUME NEW m \in Nodes PROVE Fewer(events'[m], events[m])
    BY DEF QueuesThinned
  <2>1. CASE m = n
    BY <1>1, <2>1 DEF EventsTyped
  <2>2. CASE m # n
    <3>1. events'[m] = events[m] /\ Len(events[m].queue) \in Nat
      BY <1>1, <2>2, SeqFacts DEF EventsTyped, IsReader, IsQueue
    <3> QED BY <3>1, ThinnedSelf
  <2> QED BY <2>1, <2>2
<1>2. \A n \in Nodes : IsReader(events[n]) /\ Len(events[n].queue) \in Nat
                       /\ Thinned(events[n].queue, events[n].queue)
  <2> SUFFICES ASSUME NEW n \in Nodes
               PROVE  IsReader(events[n]) /\ Len(events[n].queue) \in Nat
                      /\ Thinned(events[n].queue, events[n].queue)
    OBVIOUS
  <2>1. IsReader(events[n]) /\ Len(events[n].queue) \in Nat
    BY SeqFacts DEF EventsTyped, IsReader, IsQueue
  <2> QED BY <2>1, ThinnedSelf
<1>3. ASSUME NEW f, NEW e, f.queue = <<>>, f.copy = {} PROVE Fewer(f, e)
  <2>1. Len(f.queue) = 0
    BY <1>3, EmptyFacts
  <2> QED BY <1>3, <2>1 DEF Thinned, ShiftedBy
<1>4. CASE UNCHANGED events
  BY <1>2, <1>4 DEF QueuesThinned
<1>5. ASSUME NEW n \in Nodes, Renews(n) PROVE QueuesThinned
  <2>1. Fewer(NoEvents, events[n])
    BY <1>3, NoEventsReader
  <2> QED BY <1>1, <1>5, <2>1 DEF Renews
<1>6. ASSUME NEW n \in Nodes, Reads(n) PROVE QueuesThinned
  <2>1. CASE NextEvent(n)
    <3> DEFINE e == events[n]
               f == Popped(e)
    <3>1. events' = [events EXCEPT ![n] = f] /\ e.queue # <<>>
      BY <2>1 DEF NextEvent
    <3>2. IsReader(e) /\ Len(e.queue) \in Nat
      BY <1>2
    <3> HIDE DEF e
    <3>3. /\ f.copy = e.copy /\ Len(f.queue) = Len(e.queue) - 1
          /\ \A i \in 1..Len(f.queue) :
               /\ f.queue[i].kind = e.queue[i + 1].kind
               /\ f.queue[i].peer = e.queue[i + 1].peer
               /\ f.queue[i].value = e.queue[i + 1].value
      BY <3>1, <3>2, PoppedFacts
    <3> HIDE DEF f
    <3>4. Fewer(f, e)
      BY <3>2, <3>3 DEF Thinned, ShiftedBy
    <3> QED BY <1>1, <3>1, <3>4 DEF e
  <2>2. CASE CopyEvents(n)
    <3> DEFINE f == [events[n] EXCEPT !.copy = {events[n].queue}]
    <3>1. events' = [events EXCEPT ![n] = f]
      BY <2>2 DEF CopyEvents
    <3>2. f.queue = events[n].queue /\ f.copy = {events[n].queue}
      BY <1>2, CopiedFacts
    <3>3. Fewer(f, events[n])
      BY <1>2, <3>2
    <3> QED BY <1>1, <3>1, <3>3
  <2>3. CASE DrainEvents(n)
    <3>1. PICK s : events' = [events EXCEPT ![n] = Drained(events[n], s)]
      BY <2>3 DEF DrainEvents
    <3>2. Drained(events[n], s).queue = <<>> /\ Drained(events[n], s).copy = {}
      BY <1>2, DrainedFacts
    <3> QED BY <1>1, <1>3, <3>1, <3>2
  <2> QED BY <1>6, <2>1, <2>2, <2>3 DEF Reads
<1>7. ASSUME NEW n \in Nodes, NEW kind, NEW peer, NEW value, Reports(n, kind, peer, value),
             kind \notin GameKinds
      PROVE  QueuesThinned
  <2> DEFINE e == events[n]
             f == Push(e, kind, peer, value)
  <2>1. events' = [events EXCEPT ![n] = f]
    BY <1>7 DEF Reports, Reported
  <2>2. IsReader(e) /\ Len(e.queue) \in Nat
    BY <1>2
  <2> HIDE DEF e
  <2>3. /\ f.copy = e.copy
        /\ \E cut \in {0, 1} : \E new :
             /\ new.kind = kind
             /\ Len(f.queue) = Len(e.queue) + 1 - cut
             /\ \A i \in 1..(Len(f.queue) - 1) : f.queue[i] = e.queue[i + cut]
             /\ f.queue[Len(f.queue)] = new
    BY <1>7, <2>2, PushFacts DEF GameKinds
  <2> HIDE DEF f
  <2>4. PICK cut \in {0, 1} : \E new :
             /\ new.kind = kind
             /\ Len(f.queue) = Len(e.queue) + 1 - cut
             /\ \A i \in 1..(Len(f.queue) - 1) : f.queue[i] = e.queue[i + cut]
             /\ f.queue[Len(f.queue)] = new
    BY <2>3
  <2>5. \A i \in 1..Len(f.queue) : f.queue[i].kind \in GameKinds => i # Len(f.queue)
    BY <1>7, <2>4
  <2>6. \A i \in 1..Len(f.queue) : i # Len(f.queue) =>
          i + cut \in 1..Len(e.queue) /\ f.queue[i] = e.queue[i + cut]
    BY <2>2, <2>4
  <2>7. Fewer(f, e)
    BY <2>3, <2>5, <2>6 DEF Thinned, ShiftedBy
  <2> QED BY <1>1, <2>1, <2>7 DEF e
<1>8. ASSUME NEW n \in Nodes, NEW kind, NEW peer, NEW value, Reports(n, kind, peer, value),
             kind \in GameKinds
      PROVE  \E p \in Nodes : Gossip(n, p)
  BY <1>8 DEF Reports, GameKinds
<1> QED BY <1>4, <1>5, <1>6, <1>7, <1>8 DEF EventStep

\* The game's gossip of p is taken off its stream; the queue gets it, or the filter
\* drops it.
LEMMA GossipFacts ==
  ASSUME Types, NEW n \in Nodes, NEW p \in Nodes, Gossip(n, p), NEW m, m = stream[p][n][1]
  PROVE  /\ p # n /\ IsMessage(m) /\ m.kind \in GameKinds
         /\ Len(stream[p][n]) \in Nat \ {0} /\ Len(stream'[p][n]) = Len(stream[p][n]) - 1
         /\ \A i \in 1..Len(stream'[p][n]) : stream'[p][n][i] = stream[p][n][i + 1]
         /\ \A q, r \in Nodes : ~(q = p /\ r = n) => stream'[q][r] = stream[q][r]
         /\ UNCHANGED <<setupVars, game, rounds, told, winners>>
         /\ heard' = IF Beatable(m) /\ Allows(n, m) THEN [heard EXCEPT ![n] = @ + 1] ELSE heard
         /\ \A r \in Nodes : r # n => events'[r] = events[r]
         /\ \/ ~Allows(n, m) /\ UNCHANGED events
            \/ /\ Allows(n, m)
               /\ events'[n].copy = events[n].copy
               /\ \E cut \in {0, 1} : \E new :
                    /\ new.kind = m.kind /\ new.peer = p /\ new.value = m.value
                    /\ Len(events'[n].queue) = Len(events[n].queue) + 1 - cut
                    /\ \A i \in 1..(Len(events'[n].queue) - 1) :
                         events'[n].queue[i] = events[n].queue[i + cut]
                    /\ events'[n].queue[Len(events'[n].queue)] = new
<1>1. /\ stream[p][n] # <<>> /\ Head(stream[p][n]).kind # "subscribe"
      /\ UNCHANGED <<setupVars, game, rounds, told, winners>>
  BY DEF Gossip, GossipMessage
<1>2. IsSeq(stream[p][n])
  BY DEF Types, StreamsTyped, IsGossip
<1>3. Head(stream[p][n]) = m
  BY <1>1, <1>2, TailFacts
<1>4. Received(n, p, m) /\ IF Allows(n, m) THEN Reported(n, m.kind, p, m.value) ELSE UNCHANGED events
  BY <1>3 DEF Gossip, GossipMessage
<1>5. heard' = IF Beatable(m) /\ Allows(n, m) THEN [heard EXCEPT ![n] = @ + 1] ELSE heard
  BY <1>3 DEF Gossip, Beatable
<1>6. /\ IsMessage(m)
      /\ Len(stream[p][n]) \in Nat \ {0} /\ Len(stream'[p][n]) = Len(stream[p][n]) - 1
      /\ \A i \in 1..Len(stream'[p][n]) : stream'[p][n][i] = stream[p][n][i + 1]
      /\ \A q, r \in Nodes : ~(q = p /\ r = n) => stream'[q][r] = stream[q][r]
  BY <1>4, ReceivedFacts DEF Types
<1>7. m.kind \in GameKinds /\ (m.kind = "guess" => m.value \in Nat)
  BY <1>1, <1>3, <1>6 DEF IsMessage, GameKinds
<1>8. p # n
  BY <1>4 DEF Received, Types, LinksTyped, IsLinks
<1>9. \A r \in Nodes : r # n => events'[r] = events[r]
  BY <1>4 DEF Reported, Types, EventsTyped
<1>10. ASSUME Allows(n, m)
       PROVE  /\ events'[n].copy = events[n].copy
              /\ \E cut \in {0, 1} : \E new :
                   /\ new.kind = m.kind /\ new.peer = p /\ new.value = m.value
                   /\ Len(events'[n].queue) = Len(events[n].queue) + 1 - cut
                   /\ \A i \in 1..(Len(events'[n].queue) - 1) :
                        events'[n].queue[i] = events[n].queue[i + cut]
                   /\ events'[n].queue[Len(events'[n].queue)] = new
  <2> DEFINE e == events[n]
             f == Push(e, m.kind, p, m.value)
  <2>1. events'[n] = f
    BY <1>4, <1>10 DEF Reported, Types, EventsTyped
  <2>2. IsReader(e)
    BY DEF Types, EventsTyped
  <2> HIDE DEF e
  <2>3. /\ f.copy = e.copy
        /\ \E cut \in {0, 1} : \E new :
             /\ new.kind = m.kind /\ new.peer = p /\ new.value = m.value
             /\ Len(f.queue) = Len(e.queue) + 1 - cut
             /\ \A i \in 1..(Len(f.queue) - 1) : f.queue[i] = e.queue[i + cut]
             /\ f.queue[Len(f.queue)] = new
    <3> DEFINE kind == m.kind
               value == m.value
    <3>1. kind = "guess" => value \in Nat
      BY <1>7
    <3> HIDE DEF kind, value
    <3>2. \A g : g = Push(e, kind, p, value) =>
            /\ g.copy = e.copy
            /\ \E cut \in {0, 1} : \E new :
                 /\ new.kind = kind /\ new.peer = p /\ new.value = value
                 /\ Len(g.queue) = Len(e.queue) + 1 - cut
                 /\ \A i \in 1..(Len(g.queue) - 1) : g.queue[i] = e.queue[i + cut]
                 /\ g.queue[Len(g.queue)] = new
                 /\ ~g.missed => ~e.missed /\ g.queue = Append(e.queue, new)
      BY <2>2, <3>1, PushFacts
    <3>3. f = Push(e, kind, p, value)
      BY DEF kind, value
    <3> HIDE DEF f
    <3>4. /\ f.copy = e.copy
          /\ \E cut \in {0, 1} : \E new :
               /\ new.kind = kind /\ new.peer = p /\ new.value = value
               /\ Len(f.queue) = Len(e.queue) + 1 - cut
               /\ \A i \in 1..(Len(f.queue) - 1) : f.queue[i] = e.queue[i + cut]
               /\ f.queue[Len(f.queue)] = new
      BY <3>2, <3>3
    <3> QED BY <3>4, Zenon DEF kind, value
  <2> HIDE DEF f
  <2> QED BY <2>1, <2>3, Zenon DEF e
<1>11. ~Allows(n, m) => UNCHANGED events
  BY <1>4
<1> HIDE DEF Gossip
<1> QED BY <1>1, <1>5, <1>6, <1>7, <1>8, <1>9, <1>10, <1>11

\* The phase alone changes, and not from "play".
Proceeds(n) ==
  /\ At(n, game[n].phase) /\ game[n].phase \in {"setup", "join", "read"}
  /\ \E phase \in {"join", "play", "handle"} : To(n, phase)
  /\ UNCHANGED <<heard, told, winners>>

LEMMA GameSteps ==
  ASSUME [Next]_vars
  PROVE  \/ UNCHANGED gameVars
         \/ \E n \in Nodes : Play(n) \/ HandleGossip(n) \/ End(n) \/ Proceeds(n)
         \/ \E n, p \in Nodes : Gossip(n, p)
<1>1. ASSUME NEW n \in Nodes, JoinGame(n) PROVE Proceeds(n)
  BY <1>1 DEF JoinGame, Proceeds, At
<1>2. ASSUME NEW n \in Nodes, ReadGossip(n) PROVE Proceeds(n)
  BY <1>2 DEF ReadGossip, Proceeds, At
<1>3. ASSUME NEW n \in Nodes, SetupEvents(n) PROVE UNCHANGED gameVars \/ Proceeds(n)
  BY <1>3 DEF SetupEvents, Proceeds, At, gameVars
<1>4. ASSUME NEW n \in Nodes, Begin(n) \/ Fails(n) \/ SaveKeypair(n) \/ Swarm(n) \/ SetupEvent(n)
      PROVE  UNCHANGED gameVars
  BY <1>4 DEF Begin, Fails, SaveKeypair, Swarm, SetupEvent
<1>5. CASE UNCHANGED vars
  BY <1>5 DEF vars
<1> QED BY <1>1, <1>2, <1>3, <1>4, <1>5 DEF Next

-----------------------------------------------------------------------------
(* Winners and losers *)

\* A winner's game is over, whether it still runs or not.
Settled(n) ==
  /\ fromFile = {}
  /\ \/ game[n].phase = "won" /\ game[n].score = HighScore
     \/ ~Up(n) /\ starts[n] > 0 /\ game[n] = NewGame

WinnersSettled == \A n \in winners : Settled(n)

\* What is under way, or was pushed, of an announcement names a winner.
WinsSent ==
  \A q, p \in Nodes : \A i \in 1..Len(stream[q][p]) :
    stream[q][p][i].kind = "win" => q \in winners

WinsQueued ==
  \A n \in Nodes : \A s \in Pending(n) : \A i \in 1..Len(s) :
    s[i].kind = "win" => s[i].peer \in winners

LoserTold == \A n \in Nodes : game[n].score = -1 => winners # {}

WinnersInv == WinnersSettled /\ WinsSent /\ WinsQueued /\ LoserTold

\* A node that stopped does not start the game again.
LEMMA DownStays ==
  ASSUME Types, [Next]_vars, fromFile = {}, NEW n \in Nodes, ~Up(n), starts[n] > 0
  PROVE  ~Up(n)' /\ starts'[n] > 0
<1>1. CASE UNCHANGED <<fromFile, file, node, starts, saved>>
  BY <1>1 DEF Up
<1>2. ASSUME NEW m \in Nodes, StartNode(m), fromFile = {} => starts[m] = 0
      PROVE  ~Up(n)' /\ starts'[n] > 0
  <2>1. m # n
    BY <1>2
  <2> QED BY <1>2, <2>1 DEF StartNode, Up, Types, SetupInv, SetupTyped
<1>3. ASSUME NEW m \in Nodes, StartFails(m) PROVE ~Up(n)' /\ starts'[n] > 0
  BY <1>3 DEF StartFails, Up, Types, SetupInv, SetupTyped
<1>4. ASSUME NEW m \in Nodes, StopNode(m) PROVE ~Up(n)' /\ starts'[n] > 0
  BY <1>4 DEF StopNode, Up, Types, SetupInv, SetupTyped
<1>5. ASSUME NEW m \in Nodes, SaveKeypairOffline(m) \/ NameKeyType(m)
      PROVE  ~Up(n)' /\ starts'[n] > 0
  BY <1>5 DEF SaveKeypairOffline, NameKeyType, Up
<1> QED BY <1>1, <1>2, <1>3, <1>4, <1>5, SetupSteps

LEMMA FilesStay == ASSUME [Next]_vars PROVE UNCHANGED fromFile
BY SetupSteps DEF StartNode, StartFails, StopNode, SaveKeypairOffline, NameKeyType

\* The game of a node changes by its own steps alone.
LEMMA GameElsewhere ==
  ASSUME GameTyped, NEW n \in Nodes, NEW m \in Nodes, m # n,
         Play(m) \/ HandleGossip(m) \/ End(m) \/ Proceeds(m)
  PROVE  game'[n] = game[n]
<1>1. CASE Play(m)
  BY <1>1 DEF Play, GameTyped
<1>2. CASE HandleGossip(m)
  BY <1>2 DEF HandleGossip, GameTyped
<1>3. CASE End(m)
  BY <1>3 DEF End, GameTyped
<1>4. CASE Proceeds(m)
  BY <1>4 DEF Proceeds, To, GameTyped
<1> QED BY <1>1, <1>2, <1>3, <1>4

\* A round's gossip, and a change of phase, leave the score.
LEMMA SameScore ==
  ASSUME GameTyped, NEW n \in Nodes, Play(n) \/ Proceeds(n)
  PROVE  game'[n].score = game[n].score
<1>1. CASE Play(n)
  <2> DEFINE phase == CASE game[n].score = HighScore -> "won"
                        [] game[n].score = -1 -> "lost"
                        [] OTHER -> "read"
  <2>1. PICK g \in Guesses : game' = [game EXCEPT ![n].guess = g, ![n].phase = phase]
    BY <1>1 DEF Play
  <2> HIDE DEF phase
  <2> QED BY <2>1 DEF GameTyped
<1>2. CASE Proceeds(n)
  BY <1>2 DEF Proceeds, To, GameTyped
<1> QED BY <1>1, <1>2

LEMMA SettledStays ==
  ASSUME Types, [Next]_vars, NEW n \in Nodes, Settled(n)
  PROVE  Settled(n)'
<1>1. fromFile = {} /\ fromFile' = {}
  BY FilesStay DEF Settled
<1>2. ASSUME NEW m \in Nodes, m # n \/ ~End(n), Play(m) \/ HandleGossip(m) \/ End(m) \/ Proceeds(m)
      PROVE  game'[n] = game[n]
  <2>1. CASE m # n
    BY <1>2, <2>1, GameElsewhere DEF Types
  <2>2. CASE m = n
    <3>1. Up(n) /\ game[n].phase \in {"play", "handle", "setup", "join", "read"}
      BY <1>2, <2>2 DEF Play, HandleGossip, Proceeds, At, Plays
    <3> QED BY <3>1 DEF Settled
  <2> QED BY <2>1, <2>2
<1>3. ASSUME game'[n] = game[n] PROVE Settled(n)'
  <2>1. CASE game[n].phase = "won" /\ game[n].score = HighScore
    BY <1>1, <1>3, <2>1 DEF Settled
  <2>2. CASE ~Up(n) /\ starts[n] > 0 /\ game[n] = NewGame
    BY <1>1, <1>3, <2>2, DownStays DEF Settled, NewGame
  <2> QED BY <2>1, <2>2 DEF Settled
<1>4. CASE End(n)
  <2>1. Up(n) /\ node' = [node EXCEPT ![n] = {}] /\ UNCHANGED starts
        /\ game' = [game EXCEPT ![n] = NewGame]
    BY <1>4 DEF End, Stop, StopNode
  <2>2. ~Up(n)' /\ game'[n] = NewGame /\ starts'[n] > 0
    BY <2>1 DEF Up, Types, GameTyped, FewNodes, SetupInv, SetupTyped
  <2> QED BY <1>1, <2>2 DEF Settled, NewGame
<1>5. CASE UNCHANGED gameVars
  BY <1>3, <1>5 DEF gameVars
<1>6. ASSUME NEW m \in Nodes, NEW p \in Nodes, Gossip(m, p) PROVE Settled(n)'
  BY <1>3, <1>6 DEF Gossip
<1> QED BY <1>2, <1>3, <1>4, <1>5, <1>6, GameSteps

\* A node that plays on has announced nothing.
LEMMA PlayerNoWinner ==
  ASSUME WinnersSettled, NEW n \in Nodes, At(n, "play") \/ At(n, "handle")
  PROVE  n \notin winners
BY DEF WinnersSettled, Settled, At, Plays

LEMMA WinnersGrow ==
  ASSUME [Next]_vars
  PROVE  /\ winners \subseteq winners'
         /\ \A n \in winners' \ winners : Play(n) /\ game[n].score = HighScore
<1>1. ASSUME NEW n \in Nodes, Play(n)
      PROVE  winners' = IF game[n].score = HighScore THEN winners \cup {n} ELSE winners
  BY <1>1 DEF Play
<1>2. ASSUME NEW n \in Nodes, HandleGossip(n) \/ End(n) \/ Proceeds(n) PROVE winners' = winners
  BY <1>2 DEF HandleGossip, End, Proceeds
<1>3. ASSUME NEW n \in Nodes, NEW p \in Nodes, Gossip(n, p) PROVE winners' = winners
  BY <1>3 DEF Gossip
<1>4. CASE UNCHANGED gameVars
  BY <1>4 DEF gameVars
<1> QED BY <1>1, <1>2, <1>3, <1>4, GameSteps

\* What a step publishes: nothing, or a guess and, with the highest score, a win.
LEMMA PlayFacts ==
  ASSUME Types, NEW n \in Nodes, Play(n), NEW q \in Nodes, NEW p \in Nodes
  PROVE  \/ stream'[q][p] = stream[q][p]
         \/ /\ q = n /\ p # n /\ Len(stream[q][p]) \in Nat
            /\ Len(stream'[q][p]) \in {Len(stream[q][p]) + 1, Len(stream[q][p]) + 2}
            /\ \A i \in 1..Len(stream[q][p]) : stream'[q][p][i] = stream[q][p][i]
            /\ stream'[q][p][Len(stream[q][p]) + 1].kind = "guess"
            /\ Len(stream'[q][p]) = Len(stream[q][p]) + 2 => game[n].score = HighScore
            /\ Len(stream'[q][p]) = Len(stream[q][p]) + 2 =>
                 stream'[q][p][Len(stream[q][p]) + 2].kind = "win"
<1>1. PICK g \in Guesses : Published(n, Announcement(n, g))
  BY DEF Play
<1> DEFINE ms == Announcement(n, g)
           k == Len(stream[q][p])
           t == stream'[q][p]
<1>2. /\ IsGossip(ms) /\ Len(ms) \in {1, 2}
      /\ ms[1] = [kind |-> "guess", value |-> g]
      /\ Len(ms) = 2 => game[n].score = HighScore /\ ms[2] = [kind |-> "win", value |-> g]
  BY AnnouncementFacts
<1>3. Published(n, ms) /\ StreamsTyped
  BY <1>1 DEF Types
<1> HIDE DEF ms
<1>4. \/ stream'[q][p] = stream[q][p]
      \/ /\ q = n /\ p \in links[n].subscribed
         /\ Len(t) = k + Len(ms)
         /\ \A i \in 1..Len(t) : t[i] = IF i <= k THEN stream[q][p][i] ELSE ms[i - k]
  BY <1>2, <1>3, PublishedFacts
<1>5. k \in Nat
  BY SeqFacts DEF Types, StreamsTyped, IsGossip
<1>6. p \in links[n].subscribed => p # n
  BY DEF Types, LinksTyped, IsLinks
<1> SUFFICES ASSUME q = n, p # n, Len(t) = k + Len(ms),
                    \A i \in 1..Len(t) : t[i] = IF i <= k THEN stream[q][p][i] ELSE ms[i - k]
             PROVE  /\ Len(t) \in {k + 1, k + 2}
                    /\ \A i \in 1..k : t[i] = stream[q][p][i]
                    /\ t[k + 1].kind = "guess"
                    /\ Len(t) = k + 2 => game[n].score = HighScore
                    /\ Len(t) = k + 2 => t[k + 2].kind = "win"
  BY <1>4, <1>5, <1>6
<1> HIDE DEF t, k
<1>7. Len(t) \in {k + 1, k + 2} /\ (Len(t) = k + 2 => Len(ms) = 2)
  BY <1>2, <1>5
<1>8. \A i \in 1..k : t[i] = stream[q][p][i]
  BY <1>5, <1>7
<1>9. t[k + 1] = ms[1]
  <2>1. k + 1 \in 1..Len(t) /\ ~(k + 1 <= k) /\ (k + 1) - k = 1
    BY <1>5, <1>7
  <2> QED BY <2>1
<1>10. Len(t) = k + 2 => t[k + 2] = ms[2]
  <2>1. k + 2 \in 1..(k + 2) /\ ~(k + 2 <= k) /\ (k + 2) - k = 2
    BY <1>5
  <2> QED BY <2>1
<1> QED BY <1>2, <1>7, <1>8, <1>9, <1>10

\* The position in the stream before, of gossip of the game that a step only thins.
LEMMA ThinnedEvents ==
  ASSUME NEW t, NEW s, Thinned(t, s)
  PROVE  \E cut \in {0, 1} : \A i \in 1..Len(t) : t[i].kind \in GameKinds =>
           /\ i + cut \in 1..Len(s)
           /\ t[i].kind = s[i + cut].kind /\ t[i].peer = s[i + cut].peer
           /\ t[i].value = s[i + cut].value
BY DEF Thinned, ShiftedBy

LEMMA WinsSentKept ==
  ASSUME Types, WinsSent, [Next]_vars
  PROVE  WinsSent'
<1>1. winners \subseteq winners'
  BY WinnersGrow
<1> SUFFICES ASSUME NEW q \in Nodes, NEW p \in Nodes, NEW i \in 1..Len(stream'[q][p]),
                    stream'[q][p][i].kind = "win"
             PROVE  q \in winners'
  BY DEF WinsSent
<1>2. CASE StreamsThinned
  <2>1. Thinned(stream'[q][p], stream[q][p])
    BY <1>2 DEF StreamsThinned
  <2>2. \E j \in 1..Len(stream[q][p]) : stream[q][p][j].kind = "win"
    BY <2>1, ThinnedEvents DEF GameKinds
  <2> QED BY <1>1, <2>2 DEF WinsSent
<1>3. ASSUME NEW n \in Nodes, Play(n) PROVE q \in winners'
  <2>1. CASE stream'[q][p] = stream[q][p]
    BY <1>1, <2>1 DEF WinsSent
  <2>2. CASE stream'[q][p] # stream[q][p]
    <3>1. /\ q = n /\ Len(stream[q][p]) \in Nat
          /\ Len(stream'[q][p]) \in {Len(stream[q][p]) + 1, Len(stream[q][p]) + 2}
          /\ \A j \in 1..Len(stream[q][p]) : stream'[q][p][j] = stream[q][p][j]
          /\ stream'[q][p][Len(stream[q][p]) + 1].kind = "guess"
          /\ Len(stream'[q][p]) = Len(stream[q][p]) + 2 => game[n].score = HighScore
      BY <1>3, <2>2, PlayFacts
    <3>2. CASE i \in 1..Len(stream[q][p])
      BY <1>1, <3>1, <3>2 DEF WinsSent
    <3>3. CASE i \notin 1..Len(stream[q][p])
      <4>1. i # Len(stream[q][p]) + 1
        BY <3>1
      <4>2. Len(stream'[q][p]) # Len(stream[q][p]) + 1
        <5> DEFINE len == Len(stream[q][p])
        <5>1. len \in Nat /\ i \in Int /\ i # len + 1 /\ i \notin 1..len /\ i \in 1..Len(stream'[q][p])
          BY <3>1, <3>3, <4>1
        <5> HIDE DEF len
        <5>2. Len(stream'[q][p]) # len + 1
          BY <5>1
        <5> QED BY <5>2 DEF len
      <4>3. Len(stream'[q][p]) = Len(stream[q][p]) + 2
        BY <3>1, <4>2
      <4>4. q = n /\ game[n].score = HighScore
        BY <3>1, <4>3
      <4>5. winners' = IF game[n].score = HighScore THEN winners \cup {n} ELSE winners
        BY <1>3 DEF Play
      <4> QED BY <4>4, <4>5
    <3> QED BY <3>2, <3>3
  <2> QED BY <2>1, <2>2
<1> QED BY <1>2, <1>3, StreamSteps DEF Types

LEMMA WinsQueuedKept ==
  ASSUME Types, WinsSent, WinsQueued, [Next]_vars
  PROVE  WinsQueued'
<1>1. winners \subseteq winners'
  BY WinnersGrow
<1> SUFFICES ASSUME NEW n \in Nodes, NEW s \in Pending(n)', NEW i \in 1..Len(s), s[i].kind = "win"
             PROVE  s[i].peer \in winners'
  BY DEF WinsQueued
<1>2. CASE s \in Pending(n)
  BY <1>1, <1>2 DEF WinsQueued
<1>3. CASE QueuesThinned
  <2>1. s = events'[n].queue \/ s \in Pending(n)
    BY <1>3 DEF QueuesThinned, Pending
  <2>2. CASE s = events'[n].queue
    <3>1. Thinned(s, events[n].queue)
      BY <1>3, <2>2 DEF QueuesThinned
    <3>2. \E j \in 1..Len(events[n].queue) :
            events[n].queue[j].kind = "win" /\ events[n].queue[j].peer = s[i].peer
      BY <3>1, ThinnedEvents DEF GameKinds
    <3> QED BY <1>1, <3>2 DEF WinsQueued, Pending
  <2> QED BY <1>2, <2>1, <2>2
<1>4. ASSUME NEW m \in Nodes, NEW p \in Nodes, Gossip(m, p) PROVE s[i].peer \in winners'
  <2> DEFINE x == stream[p][m][1]
  <2>1. /\ Len(stream[p][m]) \in Nat \ {0}
        /\ \A r \in Nodes : r # m => events'[r] = events[r]
        /\ \/ UNCHANGED events
           \/ /\ events'[m].copy = events[m].copy
              /\ \E cut \in {0, 1} : \E new :
                   /\ new.kind = x.kind /\ new.peer = p
                   /\ Len(events'[m].queue) = Len(events[m].queue) + 1 - cut
                   /\ \A j \in 1..(Len(events'[m].queue) - 1) :
                        events'[m].queue[j] = events[m].queue[j + cut]
                   /\ events'[m].queue[Len(events'[m].queue)] = new
    BY <1>4, GossipFacts
  <2>2. x.kind = "win" => p \in winners
    BY <2>1 DEF WinsSent
  <2> HIDE DEF x
  <2>3. CASE s \notin Pending(n)
    <3>1. n = m /\ s = events'[n].queue /\ events'[n].queue # events[n].queue
      BY <2>1, <2>3 DEF Pending
    <3>2. PICK cut \in {0, 1} : \E new :
                   /\ new.kind = x.kind /\ new.peer = p
                   /\ Len(events'[m].queue) = Len(events[m].queue) + 1 - cut
                   /\ \A j \in 1..(Len(events'[m].queue) - 1) :
                        events'[m].queue[j] = events[m].queue[j + cut]
                   /\ events'[m].queue[Len(events'[m].queue)] = new
      BY <2>1, <3>1
    <3> DEFINE old == events[n].queue
    <3>3. Len(old) \in Nat
      BY SeqFacts DEF Types, EventsTyped, IsReader, IsQueue
    <3>4. /\ s[Len(s)].kind = x.kind /\ s[Len(s)].peer = p
          /\ Len(s) = Len(old) + 1 - cut
          /\ \A j \in 1..(Len(s) - 1) : s[j] = old[j + cut]
      BY <3>1, <3>2
    <3> HIDE DEF old
    <3>5. CASE i = Len(s)
      BY <1>1, <2>2, <3>4, <3>5
    <3>6. CASE i # Len(s)
      <4>2. Len(s) \in Int /\ i \in Int /\ i >= 1 /\ i < Len(s)
        BY <3>3, <3>4, <3>6
      <4>3. i \in 1..(Len(s) - 1) /\ i + cut \in 1..Len(old)
        BY <3>3, <3>4, <4>2
      <4>1. i + cut \in 1..Len(old) /\ s[i] = old[i + cut]
        BY <3>4, <4>3
      <4> QED BY <1>1, <4>1 DEF WinsQueued, Pending, old
    <3> QED BY <3>5, <3>6
  <2> QED BY <1>2, <2>3
<1> QED BY <1>3, <1>4, QueueSteps, EventSteps DEF Types

\* What HandleGossip does to the score of its node.
LEMMA HandledFacts ==
  ASSUME Types, NEW n \in Nodes, HandleGossip(n)
  PROVE  \E s \in events[n].copy :
           /\ IsQueue(s)
           /\ game'[n].phase = "play"
           /\ game'[n].score = ScoreAfter(game[n].guess, game[n].score, s)
           /\ game'[n].score \in Scores
           /\ game'[n].score <= game[n].score + Cardinality(Beats(s, Len(s)))
           /\ game'[n].score = -1 =>
                game[n].score = -1 \/ \E i \in 1..Len(s) : s[i].kind = "win"
           /\ told' = IF \E i \in 1..Len(s) : s[i].kind = "win" THEN told \cup {n} ELSE told
<1>1. PICK s \in events[n].copy :
        /\ game' = [game EXCEPT ![n].phase = "play",
                                ![n].score = ScoreAfter(game[n].guess, game[n].score, s)]
        /\ told' = IF \E m \in Range(s) : m.kind = "win" THEN told \cup {n} ELSE told
  BY DEF HandleGossip
<1>2. IsQueue(s) /\ IsSeq(s) /\ DOMAIN s = 1..Len(s)
  BY SeqFacts DEF Types, EventsTyped, IsReader, IsQueue
<1> DEFINE guess == game[n].guess
           score == game[n].score
           after == ScoreAfter(guess, score, s)
<1>3. guess \in Guesses \cup {-1} /\ score \in Scores
  BY DEF Types, GameTyped
<1>4. \A i \in 1..Len(s) : s[i].kind = "guess" => s[i].value \in Nat
  BY <1>2 DEF IsQueue, IsEvent
<1>5. game'[n].phase = "play" /\ game'[n].score = after
  BY <1>1 DEF Types, GameTyped
<1> HIDE DEF guess, score
<1>6. /\ after \in Scores /\ after <= score + Cardinality(Beats(s, Len(s)))
      /\ after = -1 => score = -1 \/ \E i \in 1..Len(s) : s[i].kind = "win"
  BY <1>2, <1>3, <1>4, ScoreFacts
<1>7. (\E m \in Range(s) : m.kind = "win") <=> \E i \in 1..Len(s) : s[i].kind = "win"
  BY <1>2 DEF Range
<1> QED BY <1>1, <1>2, <1>5, <1>6, <1>7 DEF guess, score

LEMMA LoserToldKept ==
  ASSUME Types, WinsQueued, LoserTold, [Next]_vars
  PROVE  LoserTold'
<1>1. winners \subseteq winners'
  BY WinnersGrow
<1> SUFFICES ASSUME NEW n \in Nodes, game'[n].score = -1 PROVE winners' # {}
  BY DEF LoserTold
<1>2. CASE game'[n] = game[n] \/ game[n].score = -1
  BY <1>1, <1>2 DEF LoserTold
<1>3. CASE HandleGossip(n)
  <2>1. PICK s \in events[n].copy :
          game[n].score = -1 \/ \E i \in 1..Len(s) : s[i].kind = "win"
    BY <1>3, HandledFacts
  <2>2. CASE \E i \in 1..Len(s) : s[i].kind = "win"
    BY <1>1, <2>2 DEF WinsQueued, Pending
  <2> QED BY <1>2, <2>1, <2>2
<1>4. CASE Play(n) \/ Proceeds(n)
  <2>1. game'[n].score = game[n].score
    BY <1>4, SameScore DEF Types
  <2> QED BY <1>2, <2>1
<1>5. CASE End(n)
  <2>1. game'[n] = NewGame
    BY <1>5 DEF End, Types, GameTyped
  <2> QED BY <2>1 DEF NewGame
<1>6. ASSUME NEW m \in Nodes, m # n, Play(m) \/ HandleGossip(m) \/ End(m) \/ Proceeds(m)
      PROVE  game'[n] = game[n]
  BY <1>6, GameElsewhere DEF Types
<1>7. ASSUME NEW m \in Nodes, NEW p \in Nodes, Gossip(m, p) PROVE game'[n] = game[n]
  BY <1>7 DEF Gossip
<1>8. CASE UNCHANGED gameVars
  BY <1>2, <1>8 DEF gameVars
<1> QED BY <1>2, <1>3, <1>4, <1>5, <1>6, <1>7, <1>8, GameSteps

LEMMA WinnersKept ==
  ASSUME Types, WinnersInv, [Next]_vars
  PROVE  WinnersInv'
<1> USE DEF WinnersInv
<1>1. WinnersSettled'
  <2> SUFFICES ASSUME NEW n \in winners' PROVE Settled(n)'
    BY DEF WinnersSettled
  <2>1. winners' \subseteq Nodes
    BY GameKept DEF Types, GameTyped
  <2>2. CASE n \in winners
    BY <2>1, <2>2, SettledStays DEF WinnersSettled
  <2>3. CASE n \notin winners
    <3>1. n \in Nodes /\ Play(n) /\ game[n].score = HighScore
      BY <2>1, <2>3, WinnersGrow
    <3>2. fromFile' = {}
      BY <3>1, FilesStay DEF Play, At, Plays
    <3>3. game'[n].phase = "won" /\ game'[n].score = HighScore
      <4>1. PICK g \in Guesses :
              game' = [game EXCEPT ![n].guess = g,
                                   ![n].phase = CASE game[n].score = HighScore -> "won"
                                                  [] game[n].score = -1 -> "lost"
                                                  [] OTHER -> "read"]
        BY <3>1 DEF Play
      <4>2. game[n].score # -1
        BY <3>1, GameAssumption
      <4>3. game' = [game EXCEPT ![n].guess = g, ![n].phase = "won"]
        BY <3>1, <4>1, <4>2
      <4> QED BY <3>1, <4>3 DEF Types, GameTyped
    <3> QED BY <3>2, <3>3 DEF Settled
  <2> QED BY <2>2, <2>3
<1>2. WinsSent'
  BY WinsSentKept
<1>3. WinsQueued'
  BY WinsQueuedKept
<1>4. LoserTold'
  BY LoserToldKept
<1> QED BY <1>1, <1>2, <1>3, <1>4

LEMMA WinnersHold == Spec => []WinnersInv
<1>1. Init => WinnersInv
  <2> SUFFICES ASSUME Init PROVE WinnersInv
    OBVIOUS
  <2>1. winners = {} /\ \A n \in Nodes : game[n].score = 0
    BY DEF Init, NewGame
  <2>2. \A q, p \in Nodes : Len(stream[q][p]) = 0
    BY EmptyFacts DEF Init, EventsInit
  <2>3. \A n \in Nodes : \A s \in Pending(n) : Len(s) = 0
    BY NoEventsReader, EmptyFacts DEF Init, EventsInit, Pending
  <2> QED BY <2>1, <2>2, <2>3 DEF WinnersInv, WinnersSettled, WinsSent, WinsQueued, LoserTold
<1> QED BY <1>1, WinnersKept, TypesHold, PTL DEF Spec

(***************************************************************************)
(* Whoever took itself for the loser was told so by a winner, and no       *)
(* winner loses the same game, for any number of nodes, any HIGH_SCORE and *)
(* any queue length (run_node_1, run_node_2).                              *)
(***************************************************************************)
THEOREM LoserHasWinnerTheorem == Spec => []LoserHasWinner
<1>1. Types /\ WinnersInv => LoserHasWinner
  <2> SUFFICES ASSUME Types, WinnersInv, NEW n \in Nodes, game[n].score = -1
               PROVE  n \notin winners /\ winners # {}
    BY DEF LoserHasWinner
  <2>1. HighScore # -1 /\ NewGame.score = 0
    BY GameAssumption DEF NewGame
  <2> QED BY <2>1 DEF WinnersInv, WinnersSettled, LoserTold, Settled
<1> QED BY <1>1, TypesHold, WinnersHold, PTL

-----------------------------------------------------------------------------
(* Scores *)

\* What can be beaten is not more in t than in s if it is in s at most one further on.
LEMMA ShiftedBeats ==
  ASSUME NEW s, NEW t, NEW k \in Nat, NEW l \in Nat, NEW cut \in {0, 1},
         \A i \in 1..k : Beatable(t[i]) => i + cut \in 1..l /\ Beatable(s[i + cut])
  PROVE  Cardinality(Beats(t, k)) <= Cardinality(Beats(s, l))
<1> DEFINE f == [i \in Beats(t, k) |-> i + cut]
<1>1. \A i \in Beats(t, k) : i \in Int /\ f[i] \in Beats(s, l)
  BY DEF Beats
<1>2. f \in [Beats(t, k) -> Beats(s, l)]
  BY <1>1
<1>3. \A i, j \in Beats(t, k) : f[i] = f[j] => i = j
  <2> SUFFICES ASSUME NEW i \in Beats(t, k), NEW j \in Beats(t, k), f[i] = f[j] PROVE i = j
    OBVIOUS
  <2>1. f[i] = i + cut /\ f[j] = j + cut
    OBVIOUS
  <2>2. i \in Int /\ j \in Int /\ cut \in Int
    BY <1>1
  <2> QED BY <2>1, <2>2
<1> HIDE DEF f
<1>4. f \in Injection(Beats(t, k), Beats(s, l))
  BY <1>2, <1>3 DEF Injection, IsInjective
<1>5. IsFiniteSet(Beats(s, l))
  BY BeatsFinite
<1> QED BY <1>4, <1>5, FS_Injection

LEMMA ThinnedBeats ==
  ASSUME NEW s, NEW t, Len(s) \in Nat, Len(t) \in Nat, Thinned(t, s)
  PROVE  Cardinality(Beats(t, Len(t))) <= Cardinality(Beats(s, Len(s)))
<1>1. PICK cut \in {0, 1} : ShiftedBy(cut, t, s)
  BY DEF Thinned
<1>2. \A i \in 1..Len(t) : Beatable(t[i]) => i + cut \in 1..Len(s) /\ Beatable(s[i + cut])
  BY <1>1 DEF Beatable, GameKinds, ShiftedBy
<1> QED BY <1>2, ShiftedBeats

\* Had n handled all that is pending, it would not have scored more than it heard.
EarnedInv ==
  \A n \in Nodes : \A s \in Pending(n) :
    game[n].score + Cardinality(Beats(s, Len(s))) <= heard[n]

LEMMA PendingLen ==
  ASSUME EventsTyped, NEW n \in Nodes, NEW s \in Pending(n)
  PROVE  Len(s) \in Nat /\ Cardinality(Beats(s, Len(s))) \in Nat
<1>1. IsSeq(s)
  BY DEF Pending, EventsTyped, IsReader, IsQueue
<1> QED BY <1>1, SeqFacts, BeatsFinite

\* Pending with fewer guesses, and the same score.
LEMMA EarnedThinned ==
  ASSUME Types, EventsTyped', EarnedInv, QueuesThinned, NEW n \in Nodes, NEW s \in Pending(n)'
  PROVE  game[n].score + Cardinality(Beats(s, Len(s))) <= heard[n]
<1>1. s \in Pending(n) \/ Thinned(s, events[n].queue)
  BY DEF QueuesThinned, Pending
<1>2. CASE s \in Pending(n)
  BY <1>2 DEF EarnedInv
<1>3. CASE Thinned(s, events[n].queue)
  <2> DEFINE q == events[n].queue
             new == Cardinality(Beats(s, Len(s)))
             old == Cardinality(Beats(q, Len(q)))
  <2>1. q \in Pending(n)
    BY DEF Pending
  <2>2. Len(q) \in Nat /\ old \in Nat /\ game[n].score + old <= heard[n]
    BY <2>1, PendingLen DEF EarnedInv, Types
  <2>3. IsSeq(s)
    BY DEF Pending, EventsTyped, IsReader, IsQueue
  <2>4. Len(s) \in Nat /\ new \in Nat
    BY <2>3, SeqFacts, BeatsFinite
  <2>5. new <= old
    BY <1>3, <2>2, <2>4, ThinnedBeats
  <2>6. game[n].score \in Int /\ heard[n] \in Int
    BY DEF Types, GameTyped, Scores
  <2> HIDE DEF new, old
  <2>7. game[n].score + new <= heard[n]
    BY <2>2, <2>4, <2>5, <2>6
  <2> QED BY <2>7 DEF new
<1> QED BY <1>1, <1>2, <1>3

\* A guess pushed is a guess heard, if a draw can beat it.
LEMMA EarnedGossip ==
  ASSUME Types, EventsTyped', EarnedInv, NEW m \in Nodes, NEW p \in Nodes, Gossip(m, p)
  PROVE  EarnedInv'
<1> SUFFICES ASSUME NEW n \in Nodes, NEW s \in Pending(n)'
             PROVE  game'[n].score + Cardinality(Beats(s, Len(s))) <= heard'[n]
  BY DEF EarnedInv
<1> DEFINE x == stream[p][m][1]
           scored == Beatable(x) /\ Allows(m, x)
<1>1. /\ UNCHANGED game
      /\ heard' = IF scored THEN [heard EXCEPT ![m] = @ + 1] ELSE heard
      /\ \A r \in Nodes : r # m => events'[r] = events[r]
      /\ \/ UNCHANGED events
         \/ /\ Allows(m, x)
            /\ events'[m].copy = events[m].copy
            /\ \E cut \in {0, 1} : \E new :
                 /\ new.kind = x.kind /\ new.value = x.value
                 /\ Len(events'[m].queue) = Len(events[m].queue) + 1 - cut
                 /\ \A j \in 1..(Len(events'[m].queue) - 1) :
                      events'[m].queue[j] = events[m].queue[j + cut]
                 /\ events'[m].queue[Len(events'[m].queue)] = new
  BY GossipFacts
<1> HIDE DEF scored
<1>2. /\ heard[n] \in Nat /\ heard'[n] = IF scored /\ n = m THEN heard[n] + 1 ELSE heard[n]
      /\ game[n].score \in Int
  BY <1>1 DEF Types, GameTyped, Scores
<1> DEFINE now == Cardinality(Beats(s, Len(s)))
<1>3. IsSeq(s)
  BY DEF Pending, EventsTyped, IsReader, IsQueue
<1>4. Len(s) \in Nat /\ now \in Nat
  BY <1>3, SeqFacts, BeatsFinite
<1>5. CASE s \in Pending(n)
  <2>1. game[n].score + now <= heard[n]
    BY <1>5 DEF EarnedInv
  <2> HIDE DEF now
  <2>2. game[n].score + now <= heard'[n]
    BY <1>2, <1>4, <2>1
  <2> QED BY <1>1, <2>2 DEF now
<1>6. CASE s \notin Pending(n)
  <2> DEFINE q == events[n].queue
             old == Cardinality(Beats(q, Len(q)))
  <2>1. n = m /\ s = events'[n].queue /\ ~UNCHANGED events /\ Allows(m, x)
    BY <1>1, <1>6 DEF Pending
  <2>2. PICK cut \in {0, 1} : \E new :
          /\ new.kind = x.kind /\ new.value = x.value
          /\ Len(events'[m].queue) = Len(events[m].queue) + 1 - cut
          /\ \A j \in 1..(Len(events'[m].queue) - 1) :
               events'[m].queue[j] = events[m].queue[j + cut]
          /\ events'[m].queue[Len(events'[m].queue)] = new
    BY <1>1, <2>1
  <2>3. q \in Pending(n)
    BY DEF Pending
  <2>4. Len(q) \in Nat /\ old \in Nat /\ game[n].score + old <= heard[n]
    BY <2>3, PendingLen DEF EarnedInv, Types
  <2>5. /\ s[Len(s)].kind = x.kind /\ s[Len(s)].value = x.value
        /\ Len(s) = Len(q) + 1 - cut
        /\ \A j \in 1..(Len(s) - 1) : s[j] = q[j + cut]
    BY <2>1, <2>2
  <2> HIDE DEF q
  <2>6. CASE Len(s) = 0
    <3>1. Beats(s, Len(s)) = {}
      BY <2>6 DEF Beats
    <3>2. now = 0
      BY <3>1, FS_EmptySet
    <3> HIDE DEF now, old
    <3>3. game[n].score + now <= heard'[n]
      BY <1>2, <2>4, <3>2
    <3> QED BY <1>1, <3>3 DEF now
  <2>7. CASE Len(s) # 0
    <3> DEFINE k == Len(s) - 1
               rest == Cardinality(Beats(s, k))
    <3>1. k \in Nat /\ Len(s) \in Nat \ {0}
      BY <1>4, <2>7
    <3>2. \A i \in 1..k : Beatable(s[i]) => i + cut \in 1..Len(q) /\ Beatable(q[i + cut])
      BY <2>4, <2>5, <3>1
    <3>3. rest <= old /\ rest \in Nat
      <4> HIDE DEF k
      <4> QED BY <2>4, <3>1, <3>2, ShiftedBeats, BeatsFinite
    <3>4. now = rest + (IF Beatable(s[Len(s)]) THEN 1 ELSE 0)
      BY <3>1, BeatsStep
    <3>5. Beatable(s[Len(s)]) => scored
      BY <2>1, <2>5 DEF Beatable, scored
    <3> HIDE DEF now, old, rest
    <3>6. game[n].score + now <= heard'[n]
      BY <1>2, <2>1, <2>4, <3>3, <3>4, <3>5
    <3> QED BY <1>1, <3>6 DEF now
  <2> QED BY <2>6, <2>7
<1> QED BY <1>5, <1>6

LEMMA EarnedKept ==
  ASSUME Types, Types', EarnedInv, [Next]_vars
  PROVE  EarnedInv'
<1>1. ASSUME NEW m \in Nodes, NEW p \in Nodes, Gossip(m, p) PROVE EarnedInv'
  BY <1>1, EarnedGossip DEF Types
<1>2. ASSUME QueuesThinned,
             UNCHANGED gameVars
               \/ \E n \in Nodes : Play(n) \/ HandleGossip(n) \/ End(n) \/ Proceeds(n)
      PROVE  EarnedInv'
  <2> SUFFICES ASSUME NEW n \in Nodes, NEW s \in Pending(n)'
               PROVE  game'[n].score + Cardinality(Beats(s, Len(s))) <= heard'[n]
    BY DEF EarnedInv
  <2>1. ASSUME game'[n].score = game[n].score, heard'[n] = heard[n]
        PROVE  game'[n].score + Cardinality(Beats(s, Len(s))) <= heard'[n]
    BY <1>2, <2>1, EarnedThinned DEF Types
  <2>2. ASSUME s = <<>>, game'[n].score <= heard'[n], game'[n].score \in Int
        PROVE  game'[n].score + Cardinality(Beats(s, Len(s))) <= heard'[n]
    <3>1. Beats(s, Len(s)) = {}
      BY <2>2, EmptyFacts DEF Beats
    <3>2. Cardinality(Beats(s, Len(s))) = 0
      BY <3>1, FS_EmptySet
    <3> QED BY <2>2, <3>2
  <2>3. CASE HandleGossip(n)
    <3>1. PICK t \in events[n].copy :
            game'[n].score \in Scores
            /\ game'[n].score <= game[n].score + Cardinality(Beats(t, Len(t)))
      BY <2>3, HandledFacts
    <3>2. t \in Pending(n)
      BY DEF Pending
    <3>3. game[n].score + Cardinality(Beats(t, Len(t))) <= heard[n]
          /\ Cardinality(Beats(t, Len(t))) \in Nat
      BY <3>2, PendingLen DEF EarnedInv, Types
    <3>4. heard' = heard /\ heard[n] \in Int /\ game[n].score \in Int /\ game'[n].score \in Int
      BY <2>3, <3>1 DEF HandleGossip, Types, GameTyped, Scores
    <3>5. game'[n].score <= heard'[n]
      BY <3>1, <3>3, <3>4
    <3>6. s = <<>>
      <4>1. PICK u : events' = [events EXCEPT ![n] = Drained(events[n], u)]
        BY <2>3 DEF HandleGossip, DrainEvents
      <4>2. IsReader(events[n])
        BY DEF Types, EventsTyped
      <4>3. Drained(events[n], u).queue = <<>> /\ Drained(events[n], u).copy = {}
        BY <4>2, DrainedFacts
      <4> QED BY <4>1, <4>3 DEF Pending, Types, EventsTyped
    <3> QED BY <2>2, <3>4, <3>5, <3>6
  <2>4. CASE End(n)
    <3>1. game'[n] = NewGame /\ heard'[n] = 0
      BY <2>4 DEF End, Types, GameTyped
    <3>2. events'[n] = NoEvents
      BY <2>4 DEF End, Stop, Types, EventsTyped
    <3>3. s = <<>>
      BY <3>2, NoEventsReader DEF Pending
    <3> QED BY <2>2, <3>1, <3>3 DEF NewGame
  <2>5. CASE Play(n) \/ Proceeds(n)
    <3>1. UNCHANGED heard
      BY <2>5 DEF Play, Proceeds
    <3> QED BY <2>1, <2>5, <3>1, SameScore DEF Types
  <2>6. ASSUME NEW m \in Nodes, m # n, Play(m) \/ HandleGossip(m) \/ End(m) \/ Proceeds(m)
        PROVE  game'[n].score = game[n].score /\ heard'[n] = heard[n]
    <3>1. heard'[n] = heard[n]
      BY <2>6 DEF Play, HandleGossip, End, Proceeds, Types, GameTyped
    <3> QED BY <2>6, <3>1, GameElsewhere DEF Types
  <2>7. CASE UNCHANGED gameVars
    BY <2>1, <2>7 DEF gameVars
  <2> QED BY <1>2, <2>1, <2>3, <2>4, <2>5, <2>6, <2>7
<1> QED BY <1>1, <1>2, GameSteps, QueueSteps, EventSteps DEF Types

(***************************************************************************)
(* A node scores at most once for a guess its filter let pass and a draw   *)
(* can beat, however its events are copied, drained and dropped, for any   *)
(* guesses, filter and queue length (handle_gossipsub_incoming_message,    *)
(* DataQueue).                                                             *)
(***************************************************************************)
THEOREM ScoreEarnedTheorem == Spec => []ScoreEarned
<1>1. Init => EarnedInv
  <2> SUFFICES ASSUME Init, NEW n \in Nodes, NEW s \in Pending(n)
               PROVE  game[n].score + Cardinality(Beats(s, Len(s))) <= heard[n]
    BY DEF EarnedInv
  <2>1. game[n].score = 0 /\ heard[n] = 0
    BY DEF Init, NewGame
  <2>2. Len(s) = 0
    BY NoEventsReader, EmptyFacts DEF Init, EventsInit, Pending
  <2>3. Beats(s, Len(s)) = {}
    BY <2>2 DEF Beats
  <2>4. Cardinality(Beats(s, Len(s))) = 0
    BY <2>3, FS_EmptySet
  <2> QED BY <2>1, <2>4
<1>2. Types /\ Types' /\ EarnedInv /\ [Next]_vars => EarnedInv'
  BY EarnedKept
<1>3. Types /\ EarnedInv => ScoreEarned
  <2> SUFFICES ASSUME Types, EarnedInv, NEW n \in Nodes PROVE game[n].score <= heard[n]
    BY DEF ScoreEarned
  <2> DEFINE q == events[n].queue
             pending == Cardinality(Beats(q, Len(q)))
  <2>1. q \in Pending(n)
    BY DEF Pending
  <2>2. pending \in Nat /\ game[n].score + pending <= heard[n]
    BY <2>1, PendingLen DEF EarnedInv, Types
  <2>3. game[n].score \in Int /\ heard[n] \in Int
    BY DEF Types, GameTyped, Scores
  <2> HIDE DEF pending
  <2> QED BY <2>2, <2>3
<1> QED BY <1>1, <1>2, <1>3, TypesHold, PTL DEF Spec

-----------------------------------------------------------------------------
(* An announcement is the last a node sends, and is handled as such *)

NoGuessAfterWin ==
  \A q, p \in Nodes : \A i, j \in 1..Len(stream[q][p]) :
    stream[q][p][i].kind = "win" /\ stream[q][p][j].kind = "guess" => j <= i

\* Of one peer, what is pushed keeps that order.
QueuedInOrder ==
  \A n \in Nodes : \A s \in Pending(n) : \A i, j \in 1..Len(s) :
    s[i].kind = "win" /\ s[j].kind = "guess" /\ s[j].peer = s[i].peer => j <= i

\* While the announcement is queued no guess of its sender is under way.
NothingUnderWay ==
  \A n, p \in Nodes : \A i \in 1..Len(events[n].queue) : \A j \in 1..Len(stream[p][n]) :
    events[n].queue[i].kind = "win" /\ events[n].queue[i].peer = p
      => stream[p][n][j].kind # "guess"

FromOthers ==
  \A n \in Nodes : \A s \in Pending(n) : \A i \in 1..Len(s) :
    s[i].kind \in GameKinds => s[i].peer \in Nodes \ {n}

LastWinInv == NoGuessAfterWin /\ QueuedInOrder /\ NothingUnderWay /\ FromOthers

LEMMA LastWinThinned ==
  ASSUME Types, LastWinInv, QueuesThinned, StreamsThinned
  PROVE  LastWinInv'
<1> USE DEF LastWinInv
<1>1. \A n \in Nodes : Len(events[n].queue) \in Nat /\ events[n].queue \in Pending(n)
  BY SeqFacts DEF Types, EventsTyped, IsReader, IsQueue, Pending
<1>2. NoGuessAfterWin'
  <2> SUFFICES ASSUME NEW q \in Nodes, NEW p \in Nodes,
                      NEW i \in 1..Len(stream'[q][p]), NEW j \in 1..Len(stream'[q][p]),
                      stream'[q][p][i].kind = "win", stream'[q][p][j].kind = "guess"
               PROVE  j <= i
    BY DEF NoGuessAfterWin
  <2> DEFINE t == stream'[q][p]
             s == stream[q][p]
  <2>1. Thinned(t, s) /\ i \in 1..Len(t) /\ j \in 1..Len(t)
        /\ t[i].kind = "win" /\ t[j].kind = "guess"
    BY DEF StreamsThinned
  <2> HIDE DEF t, s
  <2>2. PICK cut \in {0, 1} : ShiftedBy(cut, t, s)
    BY <2>1 DEF Thinned
  <2>3. t[i].kind \in GameKinds /\ t[j].kind \in GameKinds
    BY <2>1 DEF GameKinds
  <2>4. i + cut \in 1..Len(s) /\ s[i + cut].kind = t[i].kind
    BY <2>1, <2>2, <2>3 DEF ShiftedBy
  <2>5. j + cut \in 1..Len(s) /\ s[j + cut].kind = t[j].kind
    BY <2>1, <2>2, <2>3 DEF ShiftedBy
  <2>6. /\ i + cut \in 1..Len(s) /\ s[i + cut].kind = "win"
        /\ j + cut \in 1..Len(s) /\ s[j + cut].kind = "guess"
    BY <2>1, <2>4, <2>5
  <2>7. j + cut <= i + cut
    BY <2>6 DEF NoGuessAfterWin, s
  <2>8. i \in Int /\ j \in Int
    OBVIOUS
  <2> QED BY <2>7, <2>8
<1>3. QueuedInOrder'
  <2> SUFFICES ASSUME NEW n \in Nodes, NEW s \in Pending(n)', NEW i \in 1..Len(s),
                      NEW j \in 1..Len(s),
                      s[i].kind = "win", s[j].kind = "guess", s[j].peer = s[i].peer
               PROVE  j <= i
    BY DEF QueuedInOrder
  <2>1. CASE s \in Pending(n)
    BY <2>1 DEF QueuedInOrder
  <2>2. CASE s \notin Pending(n)
    <3> DEFINE q == events[n].queue
    <3>1. Thinned(s, q)
      BY <2>2 DEF QueuesThinned, Pending
    <3>2. PICK cut \in {0, 1} : ShiftedBy(cut, s, q)
      BY <3>1 DEF Thinned
    <3>3. /\ i + cut \in 1..Len(q) /\ q[i + cut].kind = "win"
          /\ j + cut \in 1..Len(q) /\ q[j + cut].kind = "guess"
          /\ q[j + cut].peer = q[i + cut].peer
      BY <3>2 DEF GameKinds, ShiftedBy
    <3>4. j + cut <= i + cut
      BY <1>1, <3>3 DEF QueuedInOrder
    <3>5. i \in Int /\ j \in Int
      OBVIOUS
    <3> QED BY <3>4, <3>5
  <2> QED BY <2>1, <2>2
<1>4. NothingUnderWay'
  <2> SUFFICES ASSUME NEW n \in Nodes, NEW p \in Nodes, NEW i \in 1..Len(events'[n].queue),
                      NEW j \in 1..Len(stream'[p][n]),
                      events'[n].queue[i].kind = "win", events'[n].queue[i].peer = p,
                      stream'[p][n][j].kind = "guess"
               PROVE  FALSE
    BY DEF NothingUnderWay
  <2>1. Thinned(events'[n].queue, events[n].queue) /\ Thinned(stream'[p][n], stream[p][n])
    BY DEF QueuesThinned, StreamsThinned
  <2>2. ASSUME NEW s, NEW u, Thinned(u, s), NEW k \in 1..Len(u), u[k].kind \in GameKinds
        PROVE  \E l \in 1..Len(s) : s[l].kind = u[k].kind /\ s[l].peer = u[k].peer
    <3>1. PICK cut \in {0, 1} : ShiftedBy(cut, u, s)
      BY <2>2 DEF Thinned
    <3>2. k + cut \in 1..Len(s) /\ s[k + cut].kind = u[k].kind /\ s[k + cut].peer = u[k].peer
      BY <2>2, <3>1 DEF ShiftedBy
    <3> QED BY <3>2
  <2>3. \E k \in 1..Len(events[n].queue) :
          events[n].queue[k].kind = "win" /\ events[n].queue[k].peer = p
    <3> DEFINE u == events'[n].queue
               s == events[n].queue
    <3>1. Thinned(u, s) /\ i \in 1..Len(u) /\ u[i].kind = "win" /\ u[i].peer = p
      BY <2>1
    <3> HIDE DEF u, s
    <3>2. \E l \in 1..Len(s) : s[l].kind = u[i].kind /\ s[l].peer = u[i].peer
      BY <2>2, <3>1 DEF GameKinds
    <3>3. \E l \in 1..Len(s) : s[l].kind = "win" /\ s[l].peer = p
      BY <3>1, <3>2
    <3> QED BY <3>3 DEF s
  <2>4. \E k \in 1..Len(stream[p][n]) : stream[p][n][k].kind = "guess"
    <3> DEFINE u == stream'[p][n]
               s == stream[p][n]
    <3>1. Thinned(u, s) /\ j \in 1..Len(u) /\ u[j].kind = "guess"
      BY <2>1
    <3> HIDE DEF u, s
    <3>2. \E l \in 1..Len(s) : s[l].kind = "guess"
      BY <2>2, <3>1 DEF GameKinds
    <3> QED BY <3>2 DEF s
  <2> QED BY <2>3, <2>4 DEF NothingUnderWay
<1>5. FromOthers'
  <2> SUFFICES ASSUME NEW n \in Nodes, NEW s \in Pending(n)', NEW i \in 1..Len(s),
                      s[i].kind \in GameKinds
               PROVE  s[i].peer \in Nodes \ {n}
    BY DEF FromOthers
  <2>1. CASE s \in Pending(n)
    BY <2>1 DEF FromOthers
  <2>2. CASE s \notin Pending(n)
    <3>1. Thinned(s, events[n].queue)
      BY <2>2 DEF QueuesThinned, Pending
    <3>2. \E k \in 1..Len(events[n].queue) :
            events[n].queue[k].kind \in GameKinds /\ events[n].queue[k].peer = s[i].peer
      BY <3>1, ThinnedEvents
    <3> QED BY <1>1, <3>2 DEF FromOthers
  <2> QED BY <2>1, <2>2
<1> QED BY <1>2, <1>3, <1>4, <1>5

\* A node that plays has sent no announcement.
LEMMA LastWinPlayed ==
  ASSUME Types, WinnersInv, LastWinInv, NEW m \in Nodes, Play(m)
  PROVE  LastWinInv'
<1> USE DEF LastWinInv
<1>1. m \notin winners
  BY PlayerNoWinner DEF Play, WinnersInv
<1>2. UNCHANGED events
  BY DEF Play
<1>3. \A n \in Nodes : Pending(n)' = Pending(n)
  BY <1>2 DEF Pending
<1>4. QueuedInOrder' /\ FromOthers'
  BY <1>3 DEF QueuedInOrder, FromOthers
<1>5. NoGuessAfterWin'
  <2> SUFFICES ASSUME NEW q \in Nodes, NEW p \in Nodes,
                      NEW i \in 1..Len(stream'[q][p]), NEW j \in 1..Len(stream'[q][p]),
                      stream'[q][p][i].kind = "win", stream'[q][p][j].kind = "guess"
               PROVE  j <= i
    BY DEF NoGuessAfterWin
  <2> DEFINE t == stream'[q][p]
             s == stream[q][p]
  <2>1. CASE t = s
    BY <2>1 DEF NoGuessAfterWin
  <2>2. CASE t # s
    <3>1. /\ q = m /\ Len(s) \in Nat
          /\ Len(t) \in {Len(s) + 1, Len(s) + 2}
          /\ \A k \in 1..Len(s) : t[k] = s[k]
          /\ t[Len(s) + 1].kind = "guess"
          /\ Len(t) = Len(s) + 2 => t[Len(s) + 2].kind = "win"
      BY <2>2, PlayFacts
    <3>2. i \notin 1..Len(s)
      BY <1>1, <3>1 DEF WinnersInv, WinsSent
    <3>3. i # Len(s) + 1 /\ i \in 1..Len(t) /\ j \in 1..Len(t)
      BY <3>1
    <3> HIDE DEF t, s
    <3>4. j <= i
      BY <3>1, <3>2, <3>3
    <3> QED BY <3>4
  <2> QED BY <2>1, <2>2
<1>6. NothingUnderWay'
  <2> SUFFICES ASSUME NEW n \in Nodes, NEW p \in Nodes, NEW i \in 1..Len(events[n].queue),
                      NEW j \in 1..Len(stream'[p][n]),
                      events[n].queue[i].kind = "win", events[n].queue[i].peer = p
               PROVE  stream'[p][n][j].kind # "guess"
    BY <1>2 DEF NothingUnderWay
  <2>1. p # m
    BY <1>1 DEF WinnersInv, WinsQueued, Pending
  <2>2. stream'[p][n] = stream[p][n]
    BY <2>1, PlayFacts
  <2> QED BY <2>2 DEF NothingUnderWay
<1> QED BY <1>4, <1>5, <1>6

LEMMA LastWinHeard ==
  ASSUME Types, LastWinInv, NEW m \in Nodes, NEW p \in Nodes, Gossip(m, p)
  PROVE  LastWinInv'
<1> USE DEF LastWinInv
<1> DEFINE x == stream[p][m][1]
           old == events[m].queue
           new == events'[m].queue
           Pushed(cut) ==
             /\ new[Len(new)].kind = x.kind /\ new[Len(new)].peer = p
             /\ Len(new) = Len(old) + 1 - cut
             /\ \A j \in 1..(Len(new) - 1) : new[j] = old[j + cut]
<1>1. /\ p # m /\ Len(stream[p][m]) \in Nat \ {0} /\ Len(stream'[p][m]) = Len(stream[p][m]) - 1
      /\ \A i \in 1..Len(stream'[p][m]) : stream'[p][m][i] = stream[p][m][i + 1]
      /\ \A q, r \in Nodes : ~(q = p /\ r = m) => stream'[q][r] = stream[q][r]
      /\ \A r \in Nodes : r # m => events'[r] = events[r]
      /\ \/ UNCHANGED events
         \/ events'[m].copy = events[m].copy /\ \E cut \in {0, 1} : Pushed(cut)
  <2>1. /\ p # m /\ Len(stream[p][m]) \in Nat \ {0}
        /\ Len(stream'[p][m]) = Len(stream[p][m]) - 1
        /\ \A i \in 1..Len(stream'[p][m]) : stream'[p][m][i] = stream[p][m][i + 1]
        /\ \A q, r \in Nodes : ~(q = p /\ r = m) => stream'[q][r] = stream[q][r]
        /\ \A r \in Nodes : r # m => events'[r] = events[r]
        /\ \/ UNCHANGED events
           \/ /\ events'[m].copy = events[m].copy
              /\ \E cut \in {0, 1} : \E last :
                   /\ last.kind = x.kind /\ last.peer = p
                   /\ Len(events'[m].queue) = Len(events[m].queue) + 1 - cut
                   /\ \A j \in 1..(Len(events'[m].queue) - 1) :
                        events'[m].queue[j] = events[m].queue[j + cut]
                   /\ events'[m].queue[Len(events'[m].queue)] = last
    BY GossipFacts
  <2> HIDE DEF x
  <2> QED BY <2>1
<1>2. Len(old) \in Nat /\ old \in Pending(m)
  BY SeqFacts DEF Types, EventsTyped, IsReader, IsQueue, Pending
<1>3. \A n \in Nodes : \A s \in Pending(n)' :
        s \in Pending(n) \/ (n = m /\ s = new /\ \E cut \in {0, 1} : Pushed(cut))
  <2> SUFFICES ASSUME NEW n \in Nodes, NEW s \in Pending(n)', s \notin Pending(n)
               PROVE  n = m /\ s = new /\ \E cut \in {0, 1} : Pushed(cut)
    OBVIOUS
  <2>1. n = m /\ ~UNCHANGED events
    BY <1>1 DEF Pending
  <2>2. s = new
    BY <1>1, <2>1 DEF Pending
  <2> HIDE DEF Pushed
  <2> QED BY <1>1, <2>1, <2>2
<1>4. ASSUME NEW cut \in {0, 1}, Pushed(cut), NEW i \in 1..Len(new)
      PROVE  \/ i = Len(new) /\ new[i].kind = x.kind /\ new[i].peer = p
             \/ i + cut \in 1..Len(old) /\ new[i] = old[i + cut]
  <2> HIDE DEF new, old, x
  <2>1. CASE i = Len(new)
    BY <1>4, <2>1
  <2>2. CASE i # Len(new)
    <3>1. i \in 1..(Len(new) - 1) /\ i + cut \in 1..Len(old)
      BY <1>2, <1>4, <2>2
    <3> QED BY <1>4, <3>1
  <2> QED BY <2>1, <2>2
<1>5. NoGuessAfterWin'
  <2> SUFFICES ASSUME NEW q \in Nodes, NEW r \in Nodes,
                      NEW i \in 1..Len(stream'[q][r]), NEW j \in 1..Len(stream'[q][r]),
                      stream'[q][r][i].kind = "win", stream'[q][r][j].kind = "guess"
               PROVE  j <= i
    BY DEF NoGuessAfterWin
  <2>1. CASE q = p /\ r = m
    <3>1. /\ i + 1 \in 1..Len(stream[p][m]) /\ j + 1 \in 1..Len(stream[p][m])
          /\ i \in 1..Len(stream'[p][m]) /\ j \in 1..Len(stream'[p][m])
      BY <1>1, <2>1
    <3>3. stream[p][m][i + 1].kind = "win" /\ stream[p][m][j + 1].kind = "guess"
      BY <1>1, <2>1, <3>1
    <3>2. j + 1 <= i + 1 /\ i \in Int /\ j \in Int
      BY <3>1, <3>3 DEF NoGuessAfterWin
    <3> QED BY <3>2
  <2>2. CASE ~(q = p /\ r = m)
    <3>1. stream'[q][r] = stream[q][r]
      BY <1>1, <2>2
    <3>2. /\ i \in 1..Len(stream[q][r]) /\ j \in 1..Len(stream[q][r])
          /\ stream[q][r][i].kind = "win" /\ stream[q][r][j].kind = "guess"
      BY <3>1
    <3> QED BY <3>2 DEF NoGuessAfterWin
  <2> QED BY <2>1, <2>2
<1>6. QueuedInOrder'
  <2> SUFFICES ASSUME NEW n \in Nodes, NEW s \in Pending(n)', NEW i \in 1..Len(s),
                      NEW j \in 1..Len(s),
                      s[i].kind = "win", s[j].kind = "guess", s[j].peer = s[i].peer
               PROVE  j <= i
    BY DEF QueuedInOrder
  <2>1. CASE s \in Pending(n)
    BY <2>1 DEF QueuedInOrder
  <2>2. CASE s \notin Pending(n)
    <3>1. PICK cut \in {0, 1} : n = m /\ s = new /\ Pushed(cut)
      BY <1>3, <2>2
    <3>2. i \in 1..Len(new) /\ j \in 1..Len(new) /\ i \in Int /\ j \in Int
      BY <3>1
    <3> HIDE DEF x, old
    <3>3. CASE i = Len(new)
      BY <3>2, <3>3
    <3>4. CASE i # Len(new) /\ j = Len(new)
      <4>1. i + cut \in 1..Len(old) /\ s[i] = old[i + cut]
        BY <1>4, <3>1, <3>2, <3>4
      <4>2. x.kind = "guess" /\ s[i].peer = p
        BY <1>4, <3>1, <3>2, <3>4
      <4>3. 1 \in 1..Len(stream[p][m])
        BY <1>1
      <4> QED BY <4>1, <4>2, <4>3 DEF NothingUnderWay, old, x
    <3>5. CASE i # Len(new) /\ j # Len(new)
      <4>1. /\ i + cut \in 1..Len(old) /\ s[i] = old[i + cut]
            /\ j + cut \in 1..Len(old) /\ s[j] = old[j + cut]
        BY <1>4, <3>1, <3>2, <3>5
      <4>2. j + cut <= i + cut
        BY <1>2, <4>1 DEF QueuedInOrder
      <4> QED BY <3>2, <4>2
    <3> QED BY <3>3, <3>4, <3>5
  <2> QED BY <2>1, <2>2
<1>7. NothingUnderWay'
  <2> SUFFICES ASSUME NEW n \in Nodes, NEW q \in Nodes, NEW i \in 1..Len(events'[n].queue),
                      NEW j \in 1..Len(stream'[q][n]),
                      events'[n].queue[i].kind = "win", events'[n].queue[i].peer = q,
                      stream'[q][n][j].kind = "guess"
               PROVE  FALSE
    BY DEF NothingUnderWay
  <2>1. \E k \in 1..Len(stream[q][n]) :
          stream[q][n][k].kind = "guess" /\ (q = p /\ n = m => k = j + 1)
    <3>1. CASE q = p /\ n = m
      <4>1. j \in 1..Len(stream'[p][m]) /\ j + 1 \in 1..Len(stream[p][m])
        BY <1>1, <3>1
      <4>2. stream[p][m][j + 1].kind = "guess"
        BY <1>1, <3>1, <4>1
      <4> QED BY <3>1, <4>1, <4>2
    <3>2. CASE ~(q = p /\ n = m)
      BY <1>1, <3>2
    <3> QED BY <3>1, <3>2
  <2>2. CASE \E k \in 1..Len(events[n].queue) :
               events[n].queue[k].kind = "win" /\ events[n].queue[k].peer = q
    BY <2>1, <2>2 DEF NothingUnderWay
  <2>3. CASE ~\E k \in 1..Len(events[n].queue) :
               events[n].queue[k].kind = "win" /\ events[n].queue[k].peer = q
    <3>1. n = m /\ ~UNCHANGED events
      BY <1>1, <2>3
    <3>2. PICK cut \in {0, 1} : Pushed(cut)
      BY <1>1, <3>1
    <3>3. i \in 1..Len(new) /\ new[i].kind = "win" /\ new[i].peer = q
      BY <3>1
    <3> HIDE DEF x, old, new
    <3>4. x.kind = "win" /\ q = p
      BY <1>4, <2>3, <3>1, <3>2, <3>3 DEF old
    <3>5. 1 \in 1..Len(stream[p][m]) /\ j \in Nat \ {0}
      BY <1>1
    <3>6. PICK k \in 1..Len(stream[p][m]) : stream[p][m][k].kind = "guess" /\ k = j + 1
      BY <2>1, <3>1, <3>4
    <3>7. k <= 1
      BY <3>4, <3>5, <3>6 DEF NoGuessAfterWin, x
    <3> QED BY <3>5, <3>6, <3>7
  <2> QED BY <2>2, <2>3
<1>8. FromOthers'
  <2> SUFFICES ASSUME NEW n \in Nodes, NEW s \in Pending(n)', NEW i \in 1..Len(s),
                      s[i].kind \in GameKinds
               PROVE  s[i].peer \in Nodes \ {n}
    BY DEF FromOthers
  <2>1. CASE s \in Pending(n)
    BY <2>1 DEF FromOthers
  <2>2. CASE s \notin Pending(n)
    <3>1. PICK cut \in {0, 1} : n = m /\ s = new /\ Pushed(cut)
      BY <1>3, <2>2
    <3>2. i \in 1..Len(new)
      BY <3>1
    <3> HIDE DEF new, old, x, Pushed
    <3>3. new[i].peer = p \/ (i + cut \in 1..Len(old) /\ new[i] = old[i + cut])
      BY <1>4, <3>1, <3>2
    <3> QED BY <1>1, <1>2, <3>1, <3>3 DEF FromOthers
  <2> QED BY <2>1, <2>2
<1> QED BY <1>5, <1>6, <1>7, <1>8

LEMMA LastWinKept ==
  ASSUME Types, WinnersInv, LastWinInv, [Next]_vars
  PROVE  LastWinInv'
<1>1. StreamsThinned \/ \E n \in Nodes : Play(n)
  BY StreamSteps DEF Types
<1>2. QueuesThinned \/ \E n, p \in Nodes : Gossip(n, p)
  BY QueueSteps, EventSteps DEF Types
<1> QED BY <1>1, <1>2, LastWinThinned, LastWinPlayed, LastWinHeard

LEMMA LastWinHolds == Spec => []LastWinInv
<1>1. Init => LastWinInv
  <2> SUFFICES ASSUME Init PROVE LastWinInv
    OBVIOUS
  <2>1. \A q, p \in Nodes : Len(stream[q][p]) = 0
    BY EmptyFacts DEF Init, EventsInit
  <2>2. \A n \in Nodes : \A s \in Pending(n) : Len(s) = 0
    BY NoEventsReader, EmptyFacts DEF Init, EventsInit, Pending
  <2> QED BY <2>1, <2>2
          DEF LastWinInv, NoGuessAfterWin, QueuedInOrder, NothingUnderWay, FromOthers
<1> QED BY <1>1, LastWinKept, WinnersHold, TypesHold, PTL DEF Spec

\* The game is played by two.
TwoNodes == \A x, y, z \in Nodes : x = y \/ y = z \/ x = z

\* A node that was told plays one more round and has lost.
ToldInv == \A n \in told : game[n].score = -1 /\ game[n].phase \in {"play", "lost"}

LEMMA LossPlayed ==
  ASSUME GameTyped, NEW n \in Nodes, Play(n), game[n].score = -1
  PROVE  game'[n].phase = "lost"
<1>1. PICK g \in Guesses :
        game' = [game EXCEPT ![n].guess = g,
                             ![n].phase = CASE game[n].score = HighScore -> "won"
                                            [] game[n].score = -1 -> "lost"
                                            [] OTHER -> "read"]
  BY DEF Play
<1>2. game[n].score # HighScore
  BY GameAssumption
<1>3. game' = [game EXCEPT ![n].guess = g, ![n].phase = "lost"]
  BY <1>1, <1>2
<1> QED BY <1>3 DEF GameTyped

\* With one other node its announcement is the last of the events.
LEMMA HandledLoses ==
  ASSUME Types, TwoNodes, LastWinInv, NEW n \in Nodes, HandleGossip(n)
  PROVE  /\ game'[n].phase = "play"
         /\ told' = told \/ (told' = told \cup {n} /\ game'[n].score = -1)
<1>1. PICK s \in events[n].copy :
        /\ IsQueue(s) /\ game'[n].phase = "play"
        /\ game'[n].score = ScoreAfter(game[n].guess, game[n].score, s)
        /\ told' = IF \E i \in 1..Len(s) : s[i].kind = "win" THEN told \cup {n} ELSE told
  BY HandledFacts
<1>2. CASE \E i \in 1..Len(s) : s[i].kind = "win"
  <2>1. PICK w \in 1..Len(s) : s[w].kind = "win"
    BY <1>2
  <2>2. IsSeq(s) /\ Len(s) \in Nat /\ s \in Pending(n)
    BY <1>1, SeqFacts DEF IsQueue, Pending
  <2>3. ASSUME NEW j \in 1..Len(s), j > w PROVE s[j].kind # "guess"
    <3> SUFFICES ASSUME s[j].kind = "guess" PROVE FALSE
      OBVIOUS
    <3>1. s[j].peer \in Nodes \ {n} /\ s[w].peer \in Nodes \ {n}
      BY <2>1, <2>2 DEF LastWinInv, FromOthers, GameKinds
    <3>2. s[j].peer = s[w].peer
      BY <3>1 DEF TwoNodes
    <3>3. j <= w
      BY <2>1, <2>2, <3>2 DEF LastWinInv, QueuedInOrder
    <3>4. j \in Int /\ w \in Int
      OBVIOUS
    <3> QED BY <2>3, <3>3, <3>4
  <2> DEFINE guess == game[n].guess
             score == game[n].score
  <2> HIDE DEF guess, score
  <2>4. ScoreAfter(guess, score, s) = -1
    BY <2>1, <2>2, <2>3, LastWinLoses
  <2> QED BY <1>1, <1>2, <2>4 DEF guess, score
<1>3. CASE ~\E i \in 1..Len(s) : s[i].kind = "win"
  BY <1>1, <1>3
<1> QED BY <1>2, <1>3

LEMMA ToldKept ==
  ASSUME Types, TwoNodes, LastWinInv, ToldInv, [Next]_vars
  PROVE  ToldInv'
<1> SUFFICES ASSUME NEW n \in told'
             PROVE  game'[n].score = -1 /\ game'[n].phase \in {"play", "lost"}
  BY DEF ToldInv
<1>1. n \in Nodes
  BY GameKept DEF Types, GameTyped
<1>2. ASSUME n \in told, game'[n] = game[n]
      PROVE  game'[n].score = -1 /\ game'[n].phase \in {"play", "lost"}
  BY <1>2 DEF ToldInv
<1>3. CASE HandleGossip(n)
  <2>1. n \notin told
    BY <1>3 DEF ToldInv, HandleGossip, At
  <2> QED BY <1>1, <1>3, <2>1, HandledLoses
<1>4. CASE Play(n)
  <2>1. n \in told /\ game[n].score = -1
    BY <1>4 DEF Play, ToldInv
  <2> QED BY <1>1, <1>4, <2>1, LossPlayed, SameScore DEF Types
<1>5. ~Proceeds(n) /\ ~End(n)
  <2>1. Proceeds(n) => n \in told
    BY DEF Proceeds
  <2>2. ~Proceeds(n)
    BY <2>1 DEF Proceeds, ToldInv
  <2> QED BY <2>2 DEF End
<1>6. ASSUME NEW m \in Nodes, m # n, Play(m) \/ HandleGossip(m) \/ End(m) \/ Proceeds(m)
      PROVE  game'[n].score = -1 /\ game'[n].phase \in {"play", "lost"}
  <2>1. n \in told
    <3>1. CASE HandleGossip(m)
      <4>1. told' = told \/ told' = told \cup {m}
        BY <3>1, HandledLoses
      <4> QED BY <1>6, <4>1
    <3>2. CASE Play(m) \/ End(m) \/ Proceeds(m)
      BY <3>2 DEF Play, End, Proceeds
    <3> QED BY <1>6, <3>1, <3>2
  <2> QED BY <1>1, <1>2, <1>6, <2>1, GameElsewhere DEF Types
<1>7. ASSUME NEW m \in Nodes, NEW p \in Nodes, Gossip(m, p)
      PROVE  game'[n].score = -1 /\ game'[n].phase \in {"play", "lost"}
  BY <1>2, <1>7 DEF Gossip
<1>8. CASE UNCHANGED gameVars
  BY <1>2, <1>8 DEF gameVars
<1> QED BY <1>1, <1>3, <1>4, <1>5, <1>6, <1>7, <1>8, GameSteps

(***************************************************************************)
(* Of two nodes, the one that handled the announcement of the other has    *)
(* lost and keeps the score that says so, whatever was handled with the    *)
(* announcement: nothing of the winner follows it (run_node_1 and          *)
(* run_node_2 are the only nodes of the game).                             *)
(***************************************************************************)
THEOREM ToldHasLostTheorem == TwoNodes => (Spec => []ToldHasLost)
<1> SUFFICES ASSUME TwoNodes PROVE Spec => []ToldHasLost
  OBVIOUS
<1>1. Init => ToldInv
  BY DEF Init, ToldInv
<1>2. Types /\ LastWinInv /\ ToldInv /\ [Next]_vars => ToldInv'
  BY ToldKept
<1>3. ToldInv => ToldHasLost
  BY DEF ToldInv, ToldHasLost
<1> QED BY <1>1, <1>2, <1>3, TypesHold, LastWinHolds, PTL DEF Spec

=============================================================================
