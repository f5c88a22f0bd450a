---------------------------- MODULE MCSimpleGame ----------------------------
(* Two nodes: b dials a, whose keypair is known. *)
EXTENDS SimpleGame

CONSTANTS a, b

Static == [type |-> "ed25519", owner |-> a, no |-> 0]
Foreign == [type |-> "ecdsa", owner |-> b, no |-> 0]
Garbled == [type |-> "none", owner |-> a, no |-> 0]

MCGiven ==
  [n \in Nodes |->
     IF n = a
     THEN [tcp |-> 49666, udp |-> 49606, key |-> {Static}, boot |-> {}, blacklist |-> {}]
     ELSE [tcp |-> 49667, udp |-> 49607, key |-> {},
           boot |-> {[id |-> Static, address |-> 49666], [id |-> Foreign, address |-> 49666],
                     [id |-> Garbled, address |-> 49666]},
           blacklist |-> {Foreign}]]

\* No auth section; a keypair whose type is not named; a keypair; a keypair of
\* another type; no bootstrap section.
MCFiles ==
  {[bootstrap |-> TRUE, crypto |-> {}, keypair |-> {}],
   [bootstrap |-> TRUE, crypto |-> {}, keypair |-> {Static}],
   [bootstrap |-> TRUE, crypto |-> {"ed25519"}, keypair |-> {Static}],
   [bootstrap |-> TRUE, crypto |-> {"ed25519"}, keypair |-> {Foreign}],
   [bootstrap |-> FALSE, crypto |-> {"ed25519"}, keypair |-> {Static}]}

MCFileUsers == {{}, {a}}

\* Both have the default id, or a has one of its own.
MCNetworkIds == {[n \in Nodes |-> "default"],
                 [n \in Nodes |-> IF n = a THEN "own" ELSE "default"]}

MCPingPolicies ==
  {[n \in Nodes |-> [kind |-> "timeouts", max |-> 20]],
   [n \in Nodes |-> IF n = a THEN [kind |-> "none", max |-> 0]
                    ELSE [kind |-> "errors", max |-> 0]]}

=============================================================================
