------------------------- MODULE StrongReplication -------------------------
(***************************************************************************)
(* What a replica network under strong consistency promises: a message     *)
(* that reaches a node is held until a quorum of the replicas has received *)
(* it, then released to the application.  A node may give up messages it   *)
(* holds or has released (a full buffer, an expiry, the application's      *)
(* reading), and what it has given up it never shows again.                *)
(***************************************************************************)
CONSTANTS
  Nodes,    \* the replicas
  MsgIds,   \* the messages
  Quorums   \* the sets of replicas whose having a message makes it readable

VARIABLE status  \* status[n][m]: what has become of m at n

Statuses == {"absent", "held", "released", "gone"}

Init == status = [n \in Nodes |-> [m \in MsgIds |-> "absent"]]

Reached(m) == {n \in Nodes : status[n][m] # "absent"}

\* Message m gets status s at n, while n gives up the messages of `given`.
Become(n, m, s, given) ==
  status' = [status EXCEPT ![n] =
               [k \in MsgIds |-> IF k = m THEN s ELSE IF k \in given THEN "gone" ELSE @[k]]]

Present(n) == {m \in MsgIds : status[n][m] \in {"held", "released"}}

Receive(n, m) ==
  /\ status[n][m] = "absent"
  /\ \E given \in SUBSET Present(n) : Become(n, m, "held", given)

ReceiveAndRelease(n, m) ==
  /\ status[n][m] = "absent"
  /\ Reached(m) \cup {n} \in Quorums
  /\ \E given \in SUBSET Present(n) : Become(n, m, "released", given)

Release(n, m) ==
  /\ status[n][m] = "held"
  /\ Reached(m) \in Quorums
  /\ \E given \in SUBSET Present(n) : Become(n, m, "released", given)

GiveUp(n, m) ==
  /\ status[n][m] \in {"held", "released"}
  /\ \E given \in SUBSET Present(n) : Become(n, m, "gone", given)

Next ==
  \E n \in Nodes : \E m \in MsgIds :
    Receive(n, m) \/ ReceiveAndRelease(n, m) \/ Release(n, m) \/ GiveUp(n, m)

Spec == Init /\ [][Next]_status
=============================================================================
