----------------------------- MODULE SimpleGame -----------------------------
(***************************************************************************)
(* The two nodes of examples/simple-game: each draws a number per round,   *)
(* gossips it, and counts the numbers of the other that are smaller; who   *)
(* reaches HighScore says so and ends.  NodeSetup and NodeEvents are the   *)
(* library below it, and this module their next-state relation.            *)
(*                                                                         *)
(* A node that starts from a file is the node of an application that only  *)
(* follows the events and saves its keypair; the game is then not played.  *)
(***************************************************************************)
EXTENDS NodeEvents

CONSTANTS
  HighScore,    \* HIGH_SCORE
  Guesses,      \* the numbers drawn from
  FilterLimit,  \* the greatest guess the filter of node 1 lets pass
  MaxRounds,    \* bound of the model on the rounds of a node
  MaxNoise,     \* bound on pings and other reports among nodes that do not play
  GameNoise     \* the same bound for nodes that play

ASSUME GameAssumption ==
  /\ HighScore \in Nat \ {0} /\ Guesses \subseteq Nat
  /\ {FilterLimit, MaxRounds, MaxNoise, GameNoise} \subseteq Nat

VARIABLES
  game,     \* game[n]: the phase of n's program, its current guess and its score
  rounds,   \* rounds[n]: the rounds n has played
  heard,    \* heard[n]: the guesses a draw can beat that the filter of n let pass
  told,     \* the nodes that handled the announcement of the other
  winners   \* the nodes that announced that they won

gameVars == <<game, rounds, heard, told, winners>>
vars == <<setupVars, eventVars, gameVars>>

NewGame == [phase |-> "setup", guess |-> -1, score |-> 0]

\* CoreBuilder::with_config(): the network id and the ping policy, which the game
\* leaves alone.
DefaultSettings ==
  \A n \in Nodes :
    netId[n] = DefaultNetworkId /\ policy[n] = [kind |-> "timeouts", max |-> 20]

Init ==
  /\ EventsInit
  /\ noise = IF fromFile = {} THEN GameNoise ELSE MaxNoise
  /\ fromFile = {} => DefaultSettings
  /\ game = [n \in Nodes |-> NewGame]
  /\ rounds = [n \in Nodes |-> 0]
  /\ heard = [n \in Nodes |-> 0]
  /\ told = {}
  /\ winners = {}

Plays(n) == fromFile = {} /\ Up(n)
At(n, phase) == Plays(n) /\ game[n].phase = phase
To(n, phase) == game' = [game EXCEPT ![n].phase = phase]

-----------------------------------------------------------------------------
(* The events of setup *)

\* Node 1 has nobody to dial.  run_node_1() reads event by event until there is none.
PopsEvents(n) == Given[n].boot = {}

SetupEvent(n) ==
  /\ At(n, "setup") \/ n \in fromFile
  /\ PopsEvents(n)
  /\ NextEvent(n)
  /\ UNCHANGED gameVars

\* run_node_2() takes those there are.
SetupEvents(n) ==
  /\ At(n, "setup") /\ ~PopsEvents(n)
  /\ \/ CopyEvents(n) /\ UNCHANGED game
     \/ DrainEvents(n) /\ To(n, "join")
  /\ UNCHANGED <<rounds, heard, told, winners>>

JoinGame(n) ==
  /\ \/ At(n, "join")
     \/ At(n, "setup") /\ PopsEvents(n) /\ events[n].queue = <<>>
  /\ Join(n)
  /\ To(n, "play")
  /\ UNCHANGED <<rounds, heard, told, winners>>

-----------------------------------------------------------------------------
(* A round *)

\* A mutant of Announcement: the score is not looked at.
AnnouncementAlways(n, g) == <<[kind |-> "guess", value |-> g], [kind |-> "win", value |-> g]>>

\* What a node that draws g gossips.
Announcement(n, g) ==
  IF game[n].score = HighScore
  THEN <<[kind |-> "guess", value |-> g], [kind |-> "win", value |-> g]>>
  ELSE <<[kind |-> "guess", value |-> g]>>

\* The top of the loop; with HighScore or -1 it is the last round.
Play(n) ==
  /\ At(n, "play") /\ rounds[n] < MaxRounds
  /\ rounds' = [rounds EXCEPT ![n] = @ + 1]
  /\ \E g \in Guesses :
       /\ Published(n, Announcement(n, g))
       /\ game' = [game EXCEPT ![n].guess = g,
                               ![n].phase = CASE game[n].score = HighScore -> "won"
                                              [] game[n].score = -1 -> "lost"
                                              [] OTHER -> "read"]
  /\ winners' = IF game[n].score = HighScore THEN winners \cup {n} ELSE winners
  /\ UNCHANGED <<setupVars, netId, policy, events, links, quiet, noise, heard, told>>

\* A mutant of HandleMessage: a tie scores.
TieScores(guess, score, m) ==
  CASE m.kind = "guess" /\ guess >= m.value -> score + 1
    [] m.kind = "win" -> -1
    [] OTHER -> score

\* handle_gossipsub_incoming_message(): the score after the message m.
HandleMessage(guess, score, m) ==
  CASE m.kind = "guess" /\ guess > m.value -> score + 1
    [] m.kind = "win" -> -1
    [] OTHER -> score

\* The score after the messages s, with the current guess.
ScoreAfter(guess, score, s) ==
  LET after[i \in 0..Len(s)] ==
        IF i = 0 THEN score ELSE HandleMessage(guess, after[i - 1], s[i])
  IN after[Len(s)]

ReadGossip(n) ==
  /\ At(n, "read")
  /\ CopyEvents(n)
  /\ To(n, "handle")
  /\ UNCHANGED <<rounds, heard, told, winners>>

HandleGossip(n) ==
  /\ At(n, "handle")
  /\ \E s \in events[n].copy :
       game' = [game EXCEPT ![n].phase = "play",
                            ![n].score = ScoreAfter(game[n].guess, @, s)]
       /\ told' = IF \E m \in Range(s) : m.kind = "win" THEN told \cup {n} ELSE told
  /\ DrainEvents(n)
  /\ UNCHANGED <<rounds, heard, winners>>

\* gossipsub_filter_fn(), which node 1 alone is built with.
GossipFilter(n, m) == PopsEvents(n) /\ m.kind = "guess" => m.value <= FilterLimit

\* The filter, then the queue.
Gossip(n, p) ==
  /\ GossipMessage(n, p)
  /\ LET m == Head(stream[p][n])
     IN heard' = IF m.kind = "guess" /\ Allows(n, m) /\ \E g \in Guesses : g > m.value
                 THEN [heard EXCEPT ![n] = @ + 1] ELSE heard
  /\ UNCHANGED <<game, rounds, told, winners>>

-----------------------------------------------------------------------------

\* A node plays once: build() and the program wait longer after the start than
\* anything of an earlier game stays under way, and the model has no time.
Begin(n) ==
  /\ fromFile = {} => starts[n] = 0
  /\ Start(n)
  /\ UNCHANGED gameVars

\* It ends with the game, or crashes at any time.
End(n) ==
  /\ Stop(n)
  /\ game' = [game EXCEPT ![n] = NewGame]
  /\ rounds' = [rounds EXCEPT ![n] = 0]
  /\ heard' = [heard EXCEPT ![n] = 0]
  /\ told' = told \ {n}
  /\ UNCHANGED winners

Fails(n) == StartFails(n) /\ UNCHANGED <<eventVars, gameVars>>

SaveKeypair(n) ==
  /\ SaveKeypairOffline(n) \/ NameKeyType(n)
  /\ UNCHANGED <<eventVars, gameVars>>

Swarm(n) ==
  /\ \/ \E d \in dials : d[1] = n /\ (DialError(d) \/ \E p \in Nodes : Connect(d, p))
     \/ Report(n)
     \/ \E p \in Nodes : \/ ConnectionEstablished(n, p) \/ ConnectionClosed(n, p)
                         \/ Identified(n, p) \/ Ping(n, p) \/ PeerSubscribed(n, p)
  /\ UNCHANGED gameVars

Next ==
  \E n \in Nodes :
    \/ Begin(n) \/ End(n) \/ Fails(n) \/ SaveKeypair(n)
    \/ Swarm(n)
    \/ SetupEvent(n) \/ SetupEvents(n) \/ JoinGame(n)
    \/ Play(n) \/ ReadGossip(n) \/ HandleGossip(n)
    \/ \E p \in Nodes : Gossip(n, p)

Spec == Init /\ [][Next]_vars

-----------------------------------------------------------------------------
(* Properties *)

TypeOK ==
  /\ fromFile \in FileUsers
  /\ wires \subseteq SUBSET Nodes
  /\ winners \subseteq Nodes
  /\ \A n \in Nodes :
       /\ Cardinality(node[n]) <= 1 /\ Cardinality(saved[n]) <= 1
       /\ starts[n] \in 0..MaxStarts /\ rounds[n] \in 0..MaxRounds
       /\ Len(events[n].queue) <= MaxQueue
       /\ links[n].subscribed \cup links[n].unidentified \subseteq links[n].connected
       /\ game[n].phase \in {"setup", "join", "play", "read", "handle", "won", "lost"}
       /\ game[n].score \in Nat \cup {-1}
       /\ game[n].guess \in Guesses \cup {-1}

(***************************************************************************)
(* A node scores at most once for a guess of the other, for none its       *)
(* filter dropped and for none that no draw can beat (simple-game, lines   *)
(* 9-12), whenever its events are copied and drained.                      *)
(***************************************************************************)
ScoreEarned == \A n \in Nodes : game[n].score <= heard[n]

(***************************************************************************)
(* A node that took itself for the loser was told so by a winner, and a    *)
(* loser never wins in the same game (simple-game, lines 13-14), although  *)
(* guesses gossiped before the announcement are handled with it.           *)
(***************************************************************************)
LoserHasWinner ==
  \A n \in Nodes : game[n].score = -1 => n \notin winners /\ winners # {}

(***************************************************************************)
(* A node that handled the announcement of the other has lost for good:    *)
(* its score, which it looks at a round later, is -1, whatever else came   *)
(* with the announcement (simple-game, lines 101-105 and 235-236).         *)
(***************************************************************************)
ToldHasLost == \A n \in told : game[n].score = -1

=============================================================================
