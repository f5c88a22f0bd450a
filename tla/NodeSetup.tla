----------------------------- MODULE NodeSetup -----------------------------
(***************************************************************************)
(* How a node is configured and built (src/swarm-nl/src/setup.rs,          *)
(* read_ini_file of util.rs, CoreBuilder of core/mod.rs), how its identity *)
(* is saved (save_keypair_offline) and found again after a restart, and    *)
(* which peers it is connected to.                                         *)
(*                                                                         *)
(* A keypair is a record of its type, its owner and a number; whoever has  *)
(* it has the peer id.  An address is the TCP port somebody listens on.    *)
(* What the text of a file parses to is modelled, not the text.            *)
(***************************************************************************)
EXTENDS Integers, FiniteSets

CONSTANTS
  Nodes,        \* nodes of one host
  Given,        \* Given[n]: the ports, keypair, boot nodes and blacklist of its program
  Files,        \* the files a node may find that starts with from_file()
  FileUsers,    \* the sets of nodes that may be such nodes
  MinPort, MaxPort,
  MaxStarts     \* bound of the model on the starts of a node

\* The names KeyType::from knows.
KeyTypes == {"ed25519", "rsa", "secp256k1", "ecdsa"}

Keypair == [type : KeyTypes, owner : Nodes, no : Nat]

\* What the sections of a file hold: whether there are boot nodes, the type named and
\* the keypair, if any.
Sections ==
  [bootstrap : BOOLEAN, crypto : SUBSET (KeyTypes \cup {"other"}), keypair : SUBSET Keypair]

ASSUME NodesAssumption == IsFiniteSet(Nodes) /\ FileUsers \subseteq SUBSET Nodes
ASSUME FilesAssumption == Files \subseteq Sections
ASSUME BoundsAssumption == MinPort \in Nat /\ MaxPort \in Nat /\ MaxStarts \in Nat

VARIABLES
  fromFile, \* the nodes that start with BootstrapConfig::from_file
  file,     \* file[n]: what the sections of n's file hold
  node,     \* node[n]: the configuration n runs with, {} while it is down
  starts,   \* starts[n]: how often n has been started
  saved,    \* saved[n]: the keypair saved last, {} if none
  dials,    \* dials under way, <<node, peer id, TCP port>>
  wires     \* pairs of nodes with a connection

setupVars == <<fromFile, file, node, starts, saved, dials, wires>>

NoFile == [bootstrap |-> FALSE, crypto |-> {}, keypair |-> {}]

SetupInit ==
  /\ fromFile \in FileUsers
  /\ file \in [Nodes -> Files \cup {NoFile}]
  /\ \A n \in Nodes : file[n] = NoFile <=> n \notin fromFile
  /\ node = [n \in Nodes |-> {}]
  /\ starts = [n \in Nodes |-> 0]
  /\ saved = [n \in Nodes |-> {}]
  /\ dials = {}
  /\ wires = {}

-----------------------------------------------------------------------------
(* Configuration *)

\* A keypair nobody has yet.
FreshKey(n) == [type |-> "ed25519", owner |-> n, no |-> starts[n] + 1]

\* BootstrapConfig::new()
NewConfig(n) ==
  [tcp |-> MinPort, udp |-> MaxPort, key |-> FreshKey(n), boot |-> {}, blacklist |-> {}]

\* A port at a bound, or beyond, is ignored.
InRange(port) == port > MinPort /\ port < MaxPort

WithTcp(c, port) == IF InRange(port) THEN [c EXCEPT !.tcp = port] ELSE c
WithUdp(c, port) == IF InRange(port) THEN [c EXCEPT !.udp = port] ELSE c

\* Boot nodes are added, a later address of a peer id replacing an earlier one.
WithBootnodes(c, boot) ==
  [c EXCEPT !.boot = {b \in @ : ~\E x \in boot : x.id = b.id} \cup boot]

WithBlacklist(c, list) == [c EXCEPT !.blacklist = @ \cup list]

\* generate_keypair_from_protobuf(): the key of c is replaced by the one in the
\* buffer, if the type is known; {} where it panics: the buffer holds no keypair,
\* or one of another type, or the type is RSA, whose bytes are read as PKCS 8
\* though they are protobuf.
WithKeypair(c, n, type, bytes) ==
  IF type \cap KeyTypes = {} THEN {[c EXCEPT !.key = FreshKey(n)]}
  ELSE {[c EXCEPT !.key = k] : k \in {b \in bytes : b.type \in (type \cap KeyTypes) \ {"rsa"}}}

\* read_ini_file(): {} where it fails, for want of a section for boot nodes.
ReadIniFile(n, f) ==
  IF ~f.bootstrap THEN {}
  ELSE {WithUdp(WithTcp(WithBlacklist(WithBootnodes(c, Given[n].boot),
                                      Given[n].blacklist),
                        Given[n].tcp),
                Given[n].udp) : c \in WithKeypair(NewConfig(n), n, f.crypto, f.keypair)}

\* setup_node_1() and setup_node_2(): the configuration is written in the program,
\* with a keypair or without.
FromCode(n) ==
  {WithUdp(WithTcp(WithBlacklist(WithBootnodes(c, Given[n].boot), Given[n].blacklist),
                   Given[n].tcp),
           Given[n].udp) :
     c \in IF Given[n].key = {} THEN {NewConfig(n)}
           ELSE WithKeypair(NewConfig(n), n, {k.type : k \in Given[n].key}, Given[n].key)}

Configs(n) == IF n \in fromFile THEN ReadIniFile(n, file[n]) ELSE FromCode(n)

-----------------------------------------------------------------------------
(* Building, saving, stopping *)

Up(n) == node[n] # {}
KeyOf(n) == {c.key : c \in node[n]}

\* listen_on() of both ports fails if another node of the host has one.
CanListen(c) ==
  \A p \in Nodes : \A x \in node[p] : x.tcp # c.tcp /\ x.udp # c.udp

\* string_to_peer_id() makes sense of the id.
IdParses(id) == id.type \in KeyTypes

\* The boot nodes that are dialled; those on the blacklist are not.
Dialled(c) == {b \in c.boot : IdParses(b.id) /\ b.id \notin c.blacklist}

\* build()
StartNode(n) ==
  /\ ~Up(n) /\ starts[n] < MaxStarts
  /\ starts' = [starts EXCEPT ![n] = @ + 1]
  /\ \E c \in Configs(n) :
       /\ CanListen(c)
       /\ node' = [node EXCEPT ![n] = {c}]
       /\ dials' = dials \cup {<<n, b.id, b.address>> : b \in Dialled(c)}
  /\ UNCHANGED <<fromFile, file, saved, wires>>

\* from_file() or build().unwrap() panics.
StartFails(n) ==
  /\ ~Up(n) /\ starts[n] < MaxStarts
  /\ \A c \in Configs(n) : ~CanListen(c)
  /\ starts' = [starts EXCEPT ![n] = @ + 1]
  /\ UNCHANGED <<fromFile, file, node, saved, dials, wires>>

StopNode(n) ==
  /\ Up(n)
  /\ node' = [node EXCEPT ![n] = {}]
  /\ dials' = {d \in dials : d[1] # n}
  /\ wires' = {w \in wires : n \notin w}
  /\ UNCHANGED <<fromFile, file, starts, saved>>

\* A mutant of Written: the keypair's type alone is written.
TypeWritten(f, k) == f

\* The keypair is written where read_ini_file() looks for it, and its type
\* under "Crypto", where nothing does.
Written(f, k) == [f EXCEPT !.keypair = {k}]

\* save_keypair_offline(), which refuses an RSA key.
SaveKeypairOffline(n) ==
  /\ n \in fromFile
  /\ \E k \in KeyOf(n) :
       /\ k.type # "rsa"
       /\ saved[n] # {k}
       /\ saved' = [saved EXCEPT ![n] = {k}]
       /\ file' = [file EXCEPT ![n] = Written(@, k)]
  /\ UNCHANGED <<fromFile, node, starts, dials, wires>>

\* The user writes the type of the saved keypair under "crypto", as in the files
\* of the examples.
NameKeyType(n) ==
  /\ n \in fromFile /\ file[n].crypto = {}
  /\ \E k \in saved[n] : file' = [file EXCEPT ![n].crypto = {k.type}]
  /\ UNCHANGED <<fromFile, node, starts, saved, dials, wires>>

-----------------------------------------------------------------------------
(* Connections, as libp2p makes them *)

\* p runs at the address dialled with the identity asked for.
Answers(d, p) == \E c \in node[p] : c.tcp = d[3] /\ c.key = d[2]

DialReaches(d, p) ==
  /\ d \in dials
  /\ p # d[1] /\ Answers(d, p)
  /\ dials' = dials \ {d}
  /\ wires' = wires \cup {{d[1], p}}
  /\ UNCHANGED <<fromFile, file, node, starts, saved>>

\* Nobody is there, or somebody else.
DialFails(d) ==
  /\ d \in dials
  /\ ~\E p \in Nodes : Answers(d, p)
  /\ dials' = dials \ {d}
  /\ UNCHANGED <<fromFile, file, node, starts, saved, wires>>

\* disconnect_peer_id()
Disconnect(n, p) ==
  /\ wires' = wires \ {{n, p}}
  /\ UNCHANGED <<fromFile, file, node, starts, saved, dials>>

-----------------------------------------------------------------------------
(* Properties *)

(***************************************************************************)
(* A node that saved its keypair, and whose file names its type, comes     *)
(* back with the same identity, and so is found by the peers that have it  *)
(* as a boot node (save_keypair_offline: "useful for saving a keypair for  *)
(* future use when going offline").                                        *)
(***************************************************************************)
IdentityKept ==
  [][\A n \in Nodes :
       ~Up(n) /\ Up(n)' /\ saved[n] # {} /\ file[n].crypto = {k.type : k \in saved[n]}
         => KeyOf(n)' = saved[n]]_setupVars

=============================================================================
