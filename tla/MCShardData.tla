---------------------------- MODULE MCShardData ----------------------------
(* Instances of ShardData, and with it of ShardMembership, for TLC. *)
EXTENDS ShardData

\* The hash of the key of two bytes is 2 + 2 + 1.
Shard5 == {5}
OneKey == [d \in Data |-> <<2, 1>>]

\* The ranges of the range example, and what locate_shard() is to find in them.
ThreeRanges == [u \in {100, 200, 300} |-> u \div 100]

ASSUME RangesFound ==
  \A k \in 0..400 :
    RangeShard(k) = IF k <= 100 THEN {1} ELSE IF k <= 200 THEN {2}
                    ELSE IF k <= 300 THEN {3} ELSE {}

\* hash_key() against the sum of the bytes, the first one twice.
ASSUME HashFound ==
  \A x, y \in 0..20 : HashKey(<<x, y>>) = (2 * x + y) % HashWidth

\* Nodes do not differ.
NodesAlike == Permutations(Nodes)
=============================================================================
