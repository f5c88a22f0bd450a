------------------------- MODULE MCRequestTracking -------------------------
(* Instances of RequestTracking for TLC: which request is of which kind. *)
EXTENDS RequestTracking

CONSTANTS r1, r2, r3, r4

Two == {r1, r2}
Three == {r1, r2, r3}
Four == {r1, r2, r3, r4}

AllRpc == [r \in Requests |-> "rpc"]
\* One request that is never answered, one that is not tracked, and two that
\* store a record.
Mixed ==
  [r \in Requests |->
     CASE r = r1 -> "silent" [] r = r2 -> "untracked" [] OTHER -> "store"]

\* Requests of one kind are interchangeable.
Alike == Permutations(Requests)
=============================================================================
