------------------------- MODULE MCShardMembership -------------------------
(* Instances of ShardMembership for TLC. *)
EXTENDS ShardMembership, TLC

\* Nodes do not differ, nor do shards.
Alike == Permutations(Nodes) \cup Permutations(Shards)
=============================================================================
