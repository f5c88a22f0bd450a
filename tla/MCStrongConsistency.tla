------------------------ MODULE MCStrongConsistency ------------------------
(* Instances of StrongConsistency for TLC. *)
EXTENDS StrongConsistency, TLC

CONSTANTS a, b, c, d

TwoNodes == {a, b}
ThreeNodes == {a, b, c}
FourNodes == {a, b, c, d}

OneMessage == {1}
TwoMessages == {1, 2}

\* Every message is published by node a.
OnePublisher == [m \in MsgIds |-> a]
\* The first message is published by a, the second by b.
TwoPublishers == [m \in MsgIds |-> IF m = 1 THEN a ELSE b]

\* Only a publishes, so the other nodes are interchangeable.
Receivers3 == Permutations({b, c})
Receivers4 == Permutations({b, c, d})
=============================================================================
