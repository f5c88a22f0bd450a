--------------------------- MODULE MCEventualSync ---------------------------
(* Instances of EventualSync for TLC. *)
EXTENDS EventualSync

CONSTANTS a, b, c

\* Message 1 is published by a, message 2 by b.
TwoPublishers == [m \in MsgIds |-> IF m = 1 THEN a ELSE b]
OnePublisher == [m \in MsgIds |-> a]
=============================================================================
