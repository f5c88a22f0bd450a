----------------------------- MODULE NodeEvents -----------------------------
(***************************************************************************)
(* The network loop of a node as far as it reports to the application: the *)
(* events of the swarm (handle_async_operations, core/mod.rs), the queue   *)
(* they are pushed to (DataQueue, core/prelude.rs), events() and           *)
(* next_event(), and the three reasons for which a node closes or filters: *)
(* failed pings, a foreign network id, the gossip filter.                  *)
(*                                                                         *)
(* Events are numbered in the order they are pushed.  The numbers, and     *)
(* what `believes' and `missed' say of the reader of the events, are of    *)
(* the model; the code keeps none of them.                                 *)
(***************************************************************************)
EXTENDS NodeSetup, SequencesExt

CONSTANTS
  DefaultNetworkId,
  NetworkIds,   \* the network ids the nodes may be given, functions on Nodes
  PingPolicies, \* the ping policies the nodes may be given, functions on Nodes
  Allows(_, _), \* Allows(n, m): the gossip filter of n lets the message m pass
  MaxQueue      \* MAX_QUEUE_ELEMENTS

ASSUME QueueAssumption == MaxQueue \in Nat \ {0}

VARIABLES
  netId,    \* netId[n]: network_info.id
  policy,   \* policy[n]: network_info.ping.policy
  events,   \* events[n]: the event queue of n and its reader
  links,    \* links[n]: what the swarm of n knows of its peers
  stream,   \* stream[n][p]: gossip under way from n to p
  quiet,    \* connections with no reason yet to be closed by a node
  noise     \* bound of the model: pings and other reports left

eventVars == <<netId, policy, events, links, stream, quiet, noise>>

NoEvents ==
  [queue |-> <<>>, copy |-> {}, believes |-> {}, missed |-> FALSE]

\* connected: ConnectionEstablished was reported; subscribed: peers known to be
\* members of the topic; unidentified: identify has not answered; joined: n is a
\* member itself; errors, timeouts: the PingManager, 0 if a peer has no entry.
NoLinks ==
  [connected |-> {}, subscribed |-> {}, unidentified |-> {}, joined |-> FALSE,
   errors |-> [p \in Nodes |-> 0], timeouts |-> [p \in Nodes |-> 0]]

EventsInit ==
  /\ SetupInit
  /\ netId \in NetworkIds
  /\ policy \in PingPolicies
  /\ events = [n \in Nodes |-> NoEvents]
  /\ links = [n \in Nodes |-> NoLinks]
  /\ stream = [n \in Nodes |-> [p \in Nodes |-> <<>>]]
  /\ quiet = {}

-----------------------------------------------------------------------------
(* The event queue *)

\* An event's number counts from the last event the application handled.
Numbered(e, kind, peer, value) ==
  [no |-> IF e.queue = <<>> THEN 1 ELSE Last(e.queue).no + 1,
   kind |-> kind, peer |-> peer, value |-> value]

\* A mutant of Push: nothing is dropped.
PushUnbounded(e, kind, peer, value) ==
  [e EXCEPT !.queue = Append(@, Numbered(e, kind, peer, value))]

\* A mutant of Push: last in, first out.
PushOnTop(e, kind, peer, value) ==
  LET full == Len(e.queue) >= MaxQueue
  IN [e EXCEPT !.queue = <<Numbered(e, kind, peer, value)>> \o (IF full THEN Tail(@) ELSE @),
               !.missed = @ \/ full]

\* DataQueue::push(): a full queue drops its oldest event.
Push(e, kind, peer, value) ==
  LET full == Len(e.queue) >= MaxQueue
  IN [e EXCEPT !.queue = Append(IF full THEN Tail(@) ELSE @, Numbered(e, kind, peer, value)),
               !.missed = @ \/ full]

\* What a reader who believed `peers' connected believes after the event e.
ToldBy(peers, e) ==
  CASE e.kind = "ConnectionEstablished" -> peers \cup {e.peer}
    [] e.kind = "ConnectionClosed" -> peers \ {e.peer}
    [] OTHER -> peers

\* The same after the events s.
Told(peers, s) ==
  LET known[i \in 0..Len(s)] == IF i = 0 THEN peers ELSE ToldBy(known[i - 1], s[i])
  IN known[Len(s)]

\* The numbers of the events q count from the last of s on.
Renumbered(q, s) ==
  LET last == IF s = <<>> THEN 0 ELSE Last(s).no
  IN [i \in DOMAIN q |-> [q[i] EXCEPT !.no = @ - last]]

\* The reader handles the events s.
Handled(e, s) == [e EXCEPT !.queue = Renumbered(@, s), !.believes = Told(@, s)]

\* DataQueue::pop()
Popped(e) ==
  LET h == Handled(e, <<Head(e.queue)>>) IN [h EXCEPT !.queue = Tail(@)]

\* next_event()
NextEvent(n) ==
  /\ events[n].queue # <<>> /\ events[n].copy = {}
  /\ events' = [events EXCEPT ![n] = Popped(@)]
  /\ UNCHANGED <<setupVars, netId, policy, links, stream, quiet, noise>>

\* events(), first half: DataQueue::into_inner()
CopyEvents(n) ==
  /\ events[n].copy = {}
  /\ events' = [events EXCEPT ![n].copy = {events[n].queue}]
  /\ UNCHANGED <<setupVars, netId, policy, links, stream, quiet, noise>>

\* A mutant of Drained: the queue keeps its events.
Undrained(e, s) == [Handled(e, s) EXCEPT !.copy = {}]

\* events(), second half: DataQueue::drain() takes all there is by now.
Drained(e, s) ==
  [Handled(e, s) EXCEPT !.queue = <<>>, !.copy = {}, !.missed = @ \/ e.queue # s]

DrainEvents(n) ==
  /\ \E s \in events[n].copy : events' = [events EXCEPT ![n] = Drained(@, s)]
  /\ UNCHANGED <<setupVars, netId, policy, links, stream, quiet, noise>>

-----------------------------------------------------------------------------
(* Starting, stopping, disconnecting *)

Start(n) ==
  /\ StartNode(n)
  /\ events' = [events EXCEPT ![n] = NoEvents]
  /\ links' = [links EXCEPT ![n] = NoLinks]
  /\ UNCHANGED <<netId, policy, stream, quiet, noise>>

\* Of what n had sent some arrives, of what was sent to it nothing.
CutStreams(n, peers) ==
  \E arrives \in 0..Max({0} \cup {Len(stream[n][p]) : p \in peers}) :
    stream' = [q \in Nodes |-> [p \in Nodes |->
                 IF q = n /\ p \in peers
                 THEN SubSeq(stream[q][p], 1, Min({arrives, Len(stream[q][p])}))
                 ELSE IF p = n /\ q \in peers THEN <<>>
                 ELSE stream[q][p]]]

\* The end of the program, or a crash.
Stop(n) ==
  /\ StopNode(n)
  /\ events' = [events EXCEPT ![n] = NoEvents]
  /\ links' = [links EXCEPT ![n] = NoLinks]
  /\ CutStreams(n, Nodes)
  /\ quiet' = {w \in quiet : n \notin w}
  /\ UNCHANGED <<netId, policy, noise>>

\* The swarm of n closes the connection to p, or leaves it.
DisconnectIf(closes, n, p) ==
  IF closes THEN Disconnect(n, p) /\ CutStreams(n, {p})
  ELSE UNCHANGED <<setupVars, stream>>

-----------------------------------------------------------------------------
(* The events of the swarm *)

Reported(n, kind, peer, value) ==
  events' = [events EXCEPT ![n] = Push(@, kind, peer, value)]

\* A dial succeeds; a peer id has one connection at a time.
Connect(d, p) ==
  /\ DialReaches(d, p)
  /\ d[1] \notin links[p].connected /\ p \notin links[d[1]].connected
  /\ {d[1], p} \notin wires
  /\ quiet' = quiet \cup {{d[1], p}}
  /\ UNCHANGED <<netId, policy, events, links, stream, noise>>

\* Nothing is known of the failure but the address.
DialError(d) ==
  /\ DialFails(d)
  /\ Reported(d[1], "OutgoingConnectionError", d[1], d[3])
  /\ UNCHANGED <<netId, policy, links, stream, quiet, noise>>

\* The swarm tells a new peer what n subscribed to.
Subscribes(n, peers) ==
  stream' = [stream EXCEPT ![n] = [p \in Nodes |->
               IF p \in peers THEN Append(@[p], [kind |-> "subscribe", value |-> 0])
               ELSE @[p]]]

ConnectionEstablished(n, p) ==
  /\ {n, p} \in wires /\ n # p /\ p \notin links[n].connected
  /\ links' = [links EXCEPT ![n].connected = @ \cup {p},
                            ![n].unidentified = @ \cup {p}]
  /\ Reported(n, "ConnectionEstablished", p, 0)
  /\ Subscribes(n, IF links[n].joined THEN {p} ELSE {})
  /\ UNCHANGED <<setupVars, netId, policy, quiet, noise>>

\* A mutant of ConnectionClosed: the event is not pushed.
ClosedUnreported(n, p) ==
  /\ p \in links[n].connected /\ {n, p} \notin wires /\ stream[p][n] = <<>>
  /\ links' = [links EXCEPT ![n].connected = @ \ {p}, ![n].subscribed = @ \ {p},
                            ![n].unidentified = @ \ {p}]
  /\ UNCHANGED <<setupVars, netId, policy, events, stream, quiet, noise>>

\* The counts of failed pings of p stay.
ConnectionClosed(n, p) ==
  /\ p \in links[n].connected /\ {n, p} \notin wires
  /\ stream[p][n] = <<>>
  /\ links' = [links EXCEPT ![n].connected = @ \ {p}, ![n].subscribed = @ \ {p},
                            ![n].unidentified = @ \ {p}]
  /\ Reported(n, "ConnectionClosed", p, 0)
  /\ UNCHANGED <<setupVars, netId, policy, stream, quiet, noise>>

\* The events of listeners, addresses, incoming connections, the routing table and
\* the providers: handed to the application as they are.
Report(n) ==
  /\ Up(n) /\ noise > 0
  /\ noise' = noise - 1
  /\ Reported(n, "other", n, 0)
  /\ UNCHANGED <<setupVars, netId, policy, links, stream, quiet>>

\* identify::Event::Received: peers always name the default id, since
\* with_network_id() does not reach the identify protocol.
Identified(n, p) ==
  /\ p \in links[n].unidentified /\ {n, p} \in wires
  /\ links' = [links EXCEPT ![n].unidentified = @ \ {p}]
  /\ Reported(n, "IdentifyInfoReceived", p, 0)
  /\ DisconnectIf(netId[n] # DefaultNetworkId, n, p)
  /\ quiet' = IF netId[n] # DefaultNetworkId THEN quiet \ {{n, p}} ELSE quiet
  /\ UNCHANGED <<netId, policy, noise>>

\* The count halves, rounded down.
PingSuccess(n, p) ==
  /\ links' = [links EXCEPT ![n].errors[p] = @ \div 2, ![n].timeouts[p] = @ \div 2]
  /\ Reported(n, "OutboundPingSuccess", p, 0)
  /\ UNCHANGED <<setupVars, stream, quiet>>

\* The failures that excuse a disconnection, by the doc of the policies.
Excuses(kind, failure) == kind = "errors" \/ (kind = "timeouts" /\ failure = "timeout")

\* A mutant of Counted: every failure counts as a time-out.
CountedAll(pol, failure) == pol.kind \in {"errors", "timeouts"}

\* Whether the policy takes notice of the failure.
Counted(pol, failure) ==
  \/ pol.kind = "errors"
  \/ pol.kind = "timeouts" /\ failure = "timeout"

\* The peer is disconnected and its count removed unless the count has just
\* reached the limit; then it is bumped up.
PingFailure(n, p, failure) ==
  LET counts == IF policy[n].kind = "errors" THEN links[n].errors ELSE links[n].timeouts
      counted == Counted(policy[n], failure)
      closes == counted /\ counts[p] # policy[n].max
      new == IF ~counted THEN counts
             ELSE [counts EXCEPT ![p] = IF closes THEN 0 ELSE @ + 1]
  IN /\ links' = [links EXCEPT ![n] = IF policy[n].kind = "errors"
                                      THEN [@ EXCEPT !.errors = new]
                                      ELSE [@ EXCEPT !.timeouts = new]]
     /\ DisconnectIf(closes, n, p)
     /\ Reported(n, "OutboundPingError", p, 0)
     /\ quiet' = IF Excuses(policy[n].kind, failure) THEN quiet \ {{n, p}} ELSE quiet

Ping(n, p) ==
  /\ {n, p} \in wires /\ p \in links[n].connected
  /\ noise > 0
  /\ noise' = noise - 1
  /\ PingSuccess(n, p) \/ \E failure \in {"timeout", "other"} : PingFailure(n, p, failure)
  /\ UNCHANGED <<netId, policy>>

-----------------------------------------------------------------------------
(* Gossip *)

\* gossipsub.subscribe()
Join(n) ==
  /\ Up(n) /\ ~links[n].joined
  /\ links' = [links EXCEPT ![n].joined = TRUE]
  /\ Subscribes(n, {p \in links[n].connected : {n, p} \in wires})
  /\ UNCHANGED <<setupVars, netId, policy, events, quiet, noise>>

\* gossipsub.publish() of the messages ms; without a peer that is a member they
\* are dropped, and query_network() returns an error nobody looks at.
Published(n, ms) ==
  stream' = [stream EXCEPT ![n] = [p \in Nodes |->
               IF p \in links[n].subscribed /\ {n, p} \in wires THEN @[p] \o ms ELSE @[p]]]

Received(n, p, m) ==
  /\ stream[p][n] # <<>> /\ m = Head(stream[p][n])
  /\ p \in links[n].connected
  /\ stream' = [stream EXCEPT ![p][n] = Tail(@)]

\* gossipsub::Event::Subscribed
PeerSubscribed(n, p) ==
  /\ Received(n, p, [kind |-> "subscribe", value |-> 0])
  /\ links' = [links EXCEPT ![n].subscribed = @ \cup {p}]
  /\ Reported(n, "GossipsubSubscribeMessageReceived", p, 0)
  /\ UNCHANGED <<setupVars, netId, policy, quiet, noise>>

\* gossipsub::Event::Message, neither of replication nor of sharding.
GossipMessage(n, p) ==
  /\ stream[p][n] # <<>> /\ Head(stream[p][n]).kind # "subscribe"
  /\ \E m \in {Head(stream[p][n])} :
       /\ Received(n, p, m)
       /\ IF Allows(n, m) THEN Reported(n, m.kind, p, m.value) ELSE UNCHANGED events
  /\ UNCHANGED <<setupVars, netId, policy, links, quiet, noise>>

-----------------------------------------------------------------------------
(* Properties *)

(***************************************************************************)
(* The application handles every event at most once and in the order it    *)
(* was pushed, whether it pops them or copies and drains: what is queued   *)
(* is in order and newer than all it has handled (DataQueue: "stores and   *)
(* removes data in a FIFO manner").                                        *)
(***************************************************************************)
NewerThanHandled ==
  \A n \in Nodes :
    LET q == events[n].queue
    IN \A i \in DOMAIN q : q[i].no > 0 /\ \A j \in 1..(i - 1) : q[j].no < q[i].no

(***************************************************************************)
(* An application that follows the connection events, and has missed none  *)
(* at a full queue or between the copy and the drain of events(), will     *)
(* know its peers: what it believes, brought up to date with the queue, is *)
(* what the swarm reported.                                                *)
(***************************************************************************)
ConnectionEventsTell ==
  \A n \in Nodes :
    ~events[n].missed => Told(events[n].believes, events[n].queue) = links[n].connected

(***************************************************************************)
(* No node closes a connection over which no ping failed that its policy   *)
(* counts, between nodes of the default network id: a DisconnectAfterMax-  *)
(* Timeouts node puts up with other errors, a NoDisconnect node with all,  *)
(* and neither the counts left from an earlier connection nor identify     *)
(* closes one.                                                             *)
(***************************************************************************)
QuietConnectionsStay == quiet \subseteq wires

=============================================================================
