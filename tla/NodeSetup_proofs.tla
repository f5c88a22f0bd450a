-------------------------- MODULE NodeSetup_proofs --------------------------
(***************************************************************************)
(* Proof that a saved identity is kept, whatever the application above the *)
(* nodes does: SimpleGame's specification implies IdentityKept.            *)
(***************************************************************************)
EXTENDS SimpleGame, TLAPS

\* The invariant: what is saved is the one keypair in the file, of a type the reader
\* knows and not RSA.
SetupTyped ==
  /\ file \in [Nodes -> Sections]
  /\ node = [n \in Nodes |-> node[n]]
  /\ saved = [n \in Nodes |-> saved[n]]
  /\ starts \in [Nodes -> Nat]

SavedInFile ==
  \A n \in Nodes : saved[n] # {} =>
    /\ n \in fromFile
    /\ \E k \in Keypair : k.type # "rsa" /\ saved[n] = {k} /\ file[n].keypair = {k}

KeysKnown == \A n \in Nodes : n \in fromFile => \A k \in KeyOf(n) : k \in Keypair

SetupInv == SetupTyped /\ SavedInFile /\ KeysKnown

-----------------------------------------------------------------------------
(* The setters keep the keypair *)

IsConfig(c) ==
  c = [tcp |-> c.tcp, udp |-> c.udp, key |-> c.key, boot |-> c.boot,
       blacklist |-> c.blacklist]

LEMMA TcpKeeps ==
  ASSUME NEW c, IsConfig(c), NEW p
  PROVE  IsConfig(WithTcp(c, p)) /\ WithTcp(c, p).key = c.key
BY DEF IsConfig, WithTcp

LEMMA UdpKeeps ==
  ASSUME NEW c, IsConfig(c), NEW p
  PROVE  IsConfig(WithUdp(c, p)) /\ WithUdp(c, p).key = c.key
BY DEF IsConfig, WithUdp

LEMMA BootnodesKeep ==
  ASSUME NEW c, IsConfig(c), NEW boot
  PROVE  IsConfig(WithBootnodes(c, boot)) /\ WithBootnodes(c, boot).key = c.key
BY DEF IsConfig, WithBootnodes

LEMMA BlacklistKeeps ==
  ASSUME NEW c, IsConfig(c), NEW list
  PROVE  IsConfig(WithBlacklist(c, list)) /\ WithBlacklist(c, list).key = c.key
BY DEF IsConfig, WithBlacklist

\* The keypair of a node that starts from a file.
LEMMA IniKey ==
  ASSUME NEW n \in Nodes, NEW f \in Sections, starts[n] \in Nat,
         NEW c \in ReadIniFile(n, f)
  PROVE  /\ c.key \in Keypair
         /\ f.crypto \cap KeyTypes # {} => c.key \in f.keypair
<1>1. PICK d \in WithKeypair(NewConfig(n), n, f.crypto, f.keypair) :
        c = WithUdp(WithTcp(WithBlacklist(WithBootnodes(d, Given[n].boot),
                                          Given[n].blacklist),
                            Given[n].tcp),
                    Given[n].udp)
  BY DEF ReadIniFile
<1>2. IsConfig(d) /\ d.key \in Keypair /\ (f.crypto \cap KeyTypes # {} => d.key \in f.keypair)
  <2>1. CASE f.crypto \cap KeyTypes = {}
    <3>1. d.key = FreshKey(n) /\ IsConfig(d)
      BY <2>1 DEF WithKeypair, NewConfig, IsConfig
    <3>2. FreshKey(n) \in Keypair
      BY DEF FreshKey, Keypair, KeyTypes
    <3> QED BY <2>1, <3>1, <3>2
  <2>2. CASE f.crypto \cap KeyTypes # {}
    <3>1. PICK k \in f.keypair : k.type \in KeyTypes /\ d = [NewConfig(n) EXCEPT !.key = k]
      BY <2>2 DEF WithKeypair
    <3>2. d.key = k /\ IsConfig(d)
      BY <3>1 DEF NewConfig, IsConfig
    <3>3. k \in Keypair
      BY DEF Sections
    <3> QED BY <3>1, <3>2, <3>3
  <2> QED BY <2>1, <2>2
<1> DEFINE boots == WithBootnodes(d, Given[n].boot)
           lists == WithBlacklist(boots, Given[n].blacklist)
           ports == WithTcp(lists, Given[n].tcp)
<1>3. IsConfig(boots) /\ boots.key = d.key  BY <1>2, BootnodesKeep
<1> HIDE DEF boots
<1>4. IsConfig(lists) /\ lists.key = d.key  BY <1>3, BlacklistKeeps
<1> HIDE DEF lists
<1>5. IsConfig(ports) /\ ports.key = d.key  BY <1>4, TcpKeeps
<1> HIDE DEF ports
<1>6. WithUdp(ports, Given[n].udp).key = d.key  BY <1>5, UdpKeeps
<1>7. c = WithUdp(ports, Given[n].udp)  BY <1>1 DEF boots, lists, ports
<1> QED BY <1>2, <1>6, <1>7

-----------------------------------------------------------------------------
(* The steps *)

\* Of the state of the setup a step changes nothing but by one of five actions.
LEMMA SetupSteps ==
  ASSUME [Next]_vars
  PROVE  \/ \E n \in Nodes : \/ StartNode(n) /\ (fromFile = {} => starts[n] = 0)
                             \/ StartFails(n) \/ StopNode(n)
                             \/ SaveKeypairOffline(n) \/ NameKeyType(n)
         \/ UNCHANGED <<fromFile, file, node, starts, saved>>
<1> DEFINE Same == UNCHANGED <<fromFile, file, node, starts, saved>>
<1>1. CASE UNCHANGED vars
  BY <1>1 DEF vars, setupVars
<1>2. ASSUME NEW n \in Nodes, Begin(n) \/ End(n) \/ Fails(n) \/ SaveKeypair(n)
      PROVE  \/ StartNode(n) /\ (fromFile = {} => starts[n] = 0)
             \/ StartFails(n) \/ StopNode(n) \/ SaveKeypairOffline(n) \/ NameKeyType(n)
  BY <1>2 DEF Begin, Start, End, Stop, Fails, SaveKeypair
<1>3. ASSUME NEW n \in Nodes, NEW p \in Nodes, NEW closes, DisconnectIf(closes, n, p)
      PROVE  Same
  BY <1>3 DEF DisconnectIf, Disconnect, setupVars
<1>4. ASSUME NEW n \in Nodes, Swarm(n) PROVE Same
  <2>1. ASSUME NEW d \in dials, DialError(d) PROVE Same
    BY <2>1 DEF DialError, DialFails
  <2>2. ASSUME NEW d \in dials, NEW p \in Nodes, Connect(d, p) PROVE Same
    BY <2>2 DEF Connect, DialReaches
  <2>3. CASE Report(n)
    BY <2>3 DEF Report, setupVars
  <2>4. ASSUME NEW p \in Nodes, ConnectionEstablished(n, p) PROVE Same
    BY <2>4 DEF ConnectionEstablished, setupVars
  <2>5. ASSUME NEW p \in Nodes, ConnectionClosed(n, p) PROVE Same
    BY <2>5 DEF ConnectionClosed, setupVars
  <2>6. ASSUME NEW p \in Nodes, Identified(n, p) PROVE Same
    BY <2>6, <1>3 DEF Identified
  <2>7. ASSUME NEW p \in Nodes, Ping(n, p) PROVE Same
    <3>1. CASE PingSuccess(n, p)
      BY <3>1 DEF PingSuccess, setupVars
    <3>2. ASSUME NEW failure, PingFailure(n, p, failure) PROVE Same
      BY <3>2, <1>3 DEF PingFailure
    <3> QED BY <2>7, <3>1, <3>2 DEF Ping
  <2>8. ASSUME NEW p \in Nodes, PeerSubscribed(n, p) PROVE Same
    BY <2>8 DEF PeerSubscribed, setupVars
  <2> QED BY <1>4, <2>1, <2>2, <2>3, <2>4, <2>5, <2>6, <2>7, <2>8 DEF Swarm
<1>5. ASSUME NEW n \in Nodes, SetupEvent(n) \/ SetupEvents(n) \/ JoinGame(n) PROVE Same
  BY <1>5 DEF SetupEvent, SetupEvents, JoinGame, NextEvent, CopyEvents, DrainEvents, Join,
              setupVars
<1>6. ASSUME NEW n \in Nodes, Play(n) \/ ReadGossip(n) \/ HandleGossip(n) PROVE Same
  BY <1>6 DEF Play, ReadGossip, HandleGossip, CopyEvents, DrainEvents, setupVars
<1>7. ASSUME NEW n \in Nodes, NEW p \in Nodes, Gossip(n, p) PROVE Same
  BY <1>7 DEF Gossip, GossipMessage, setupVars
<1> QED BY <1>1, <1>2, <1>4, <1>5, <1>6, <1>7 DEF Next

LEMMA InitSetup == Init => SetupInv
<1> SUFFICES ASSUME Init PROVE SetupInv
  OBVIOUS
<1>1. SetupInit
  BY DEF Init, EventsInit
<1>2. NoFile \in Sections
  BY DEF NoFile, Sections
<1>3. SetupTyped
  BY <1>1, <1>2, FilesAssumption DEF SetupInit, SetupTyped
<1>4. SavedInFile /\ KeysKnown
  BY <1>1 DEF SetupInit, SavedInFile, KeysKnown, KeyOf
<1> QED BY <1>3, <1>4 DEF SetupInv

\* A start from a file: the keypair in use is known, and is the one saved if its type
\* is named.
LEMMA StartedKey ==
  ASSUME SetupInv, NEW n \in Nodes, n \in fromFile, StartNode(n)
  PROVE  /\ \A k \in KeyOf(n)' : k \in Keypair
         /\ saved[n] # {} /\ file[n].crypto = {k.type : k \in saved[n]}
              => KeyOf(n)' = saved[n]
<1>1. PICK c \in ReadIniFile(n, file[n]) : node' = [node EXCEPT ![n] = {c}]
  BY DEF StartNode, Configs
<1>2. KeyOf(n)' = {c.key}
  BY <1>1 DEF SetupInv, SetupTyped, KeyOf
<1>3. file[n] \in Sections /\ starts[n] \in Nat
  BY DEF SetupInv, SetupTyped
<1>4. c.key \in Keypair /\ (file[n].crypto \cap KeyTypes # {} => c.key \in file[n].keypair)
  BY <1>3, IniKey
<1>5. ASSUME saved[n] # {}, file[n].crypto = {k.type : k \in saved[n]}
      PROVE  c.key \in saved[n] /\ saved[n] = {c.key}
  <2>1. PICK k \in Keypair : saved[n] = {k} /\ file[n].keypair = {k}
    BY <1>5 DEF SetupInv, SavedInFile
  <2>2. k.type \in file[n].crypto \cap KeyTypes
    BY <2>1, <1>5 DEF Keypair
  <2> QED BY <2>1, <2>2, <1>4
<1> QED BY <1>2, <1>4, <1>5

LEMMA SetupKept == SetupInv /\ [Next]_vars => SetupInv'
<1> SUFFICES ASSUME SetupInv, [Next]_vars PROVE SetupInv'
  OBVIOUS
<1>1. ASSUME UNCHANGED <<fromFile, file, node, starts, saved>> PROVE SetupInv'
  BY <1>1 DEF SetupInv, SetupTyped, SavedInFile, KeysKnown, KeyOf
<1>2. ASSUME NEW n \in Nodes, StartNode(n) PROVE SetupInv'
  <2>1. SetupTyped' /\ SavedInFile'
    <3>1. PICK c : node' = [node EXCEPT ![n] = {c}]
      BY <1>2 DEF StartNode
    <3>2. node' = [m \in Nodes |-> node'[m]]
      BY <3>1 DEF SetupInv, SetupTyped
    <3>3. starts' \in [Nodes -> Nat]
      BY <1>2 DEF SetupInv, SetupTyped, StartNode
    <3>4. UNCHANGED <<fromFile, file, saved>>
      BY <1>2 DEF StartNode
    <3>5. SetupTyped'
      BY <3>2, <3>3, <3>4 DEF SetupInv, SetupTyped
    <3>6. SavedInFile'
      BY <3>4 DEF SetupInv, SavedInFile
    <3> QED BY <3>5, <3>6
  <2>2. KeysKnown'
    <3> SUFFICES ASSUME NEW m \in Nodes, m \in fromFile, NEW k \in KeyOf(m)'
                 PROVE  k \in Keypair
      BY <1>2 DEF KeysKnown, StartNode
    <3>1. CASE m = n
      BY <3>1, <1>2, StartedKey
    <3>2. CASE m # n
      <4>1. node'[m] = node[m]
        BY <3>2, <1>2 DEF SetupInv, SetupTyped, StartNode
      <4> QED BY <4>1 DEF SetupInv, KeysKnown, KeyOf
    <3> QED BY <3>1, <3>2
  <2> QED BY <2>1, <2>2 DEF SetupInv
<1>3. ASSUME NEW n \in Nodes, StartFails(n) PROVE SetupInv'
  BY <1>3 DEF SetupInv, SetupTyped, SavedInFile, KeysKnown, KeyOf, StartFails
<1>4. ASSUME NEW n \in Nodes, StopNode(n) PROVE SetupInv'
  BY <1>4 DEF SetupInv, SetupTyped, SavedInFile, KeysKnown, KeyOf, StopNode
<1>5. ASSUME NEW n \in Nodes, SaveKeypairOffline(n) PROVE SetupInv'
  <2>1. PICK k \in KeyOf(n) : /\ k.type # "rsa"
                              /\ saved' = [saved EXCEPT ![n] = {k}]
                              /\ file' = [file EXCEPT ![n] = Written(file[n], k)]
    BY <1>5 DEF SaveKeypairOffline
  <2>2. n \in fromFile /\ k \in Keypair
    BY <1>5 DEF SaveKeypairOffline, SetupInv, KeysKnown
  <2>3. Written(file[n], k) \in Sections /\ Written(file[n], k).keypair = {k}
    BY <2>2 DEF SetupInv, SetupTyped, Written, Sections
  <2>4. SetupTyped'
    BY <1>5, <2>1, <2>3 DEF SetupInv, SetupTyped, SaveKeypairOffline
  <2>5. SavedInFile'
    <3> SUFFICES ASSUME NEW m \in Nodes, saved'[m] # {}
                 PROVE  /\ m \in fromFile
                        /\ \E x \in Keypair : /\ x.type # "rsa"
                                              /\ saved'[m] = {x} /\ file'[m].keypair = {x}
      BY <1>5 DEF SavedInFile, SaveKeypairOffline
    <3>1. CASE m = n
      <4>1. saved'[m] = {k} /\ file'[m].keypair = {k}
        BY <3>1, <2>1, <2>3 DEF SetupInv, SetupTyped
      <4> QED BY <3>1, <4>1, <2>1, <2>2
    <3>2. CASE m # n
      <4>1. saved'[m] = saved[m] /\ file'[m] = file[m]
        BY <3>2, <2>1 DEF SetupInv, SetupTyped
      <4> QED BY <4>1 DEF SetupInv, SavedInFile
    <3> QED BY <3>1, <3>2
  <2>6. KeysKnown'
    BY <1>5 DEF SetupInv, KeysKnown, KeyOf, SaveKeypairOffline
  <2> QED BY <2>4, <2>5, <2>6 DEF SetupInv
<1>6. ASSUME NEW n \in Nodes, NameKeyType(n) PROVE SetupInv'
  <2>1. PICK k \in saved[n] : file' = [file EXCEPT ![n].crypto = {k.type}]
    BY <1>6 DEF NameKeyType
  <2>2. k \in Keypair
    BY <2>1 DEF SetupInv, SavedInFile
  <2>3. file' \in [Nodes -> Sections] /\ \A m \in Nodes : file'[m].keypair = file[m].keypair
    BY <2>1, <2>2 DEF SetupInv, SetupTyped, Sections, Keypair
  <2> QED BY <1>6, <2>3 DEF SetupInv, SetupTyped, SavedInFile, KeysKnown, KeyOf, NameKeyType
<1> QED BY <1>1, <1>2, <1>3, <1>4, <1>5, <1>6, SetupSteps

-----------------------------------------------------------------------------

(***************************************************************************)
(* What is saved is the only keypair of the file, and of a type the reader *)
(* makes sense of (save_keypair_offline: "Only key types other than RSA    *)
(* can be serialized to protobuf format and only a single keypair can be   *)
(* saved at a time").                                                      *)
(***************************************************************************)
THEOREM SavedIsInFile == Spec => []SetupInv
<1> QED BY InitSetup, SetupKept, PTL DEF Spec

(***************************************************************************)
(* A saved identity whose type the file names is the identity after every  *)
(* restart, for any nodes, files and configurations (save_keypair_offline, *)
(* read_ini_file, generate_keypair_from_protobuf).                         *)
(***************************************************************************)
THEOREM IdentityTheorem == Spec => IdentityKept
<1> DEFINE Kept == \A n \in Nodes :
       ~Up(n) /\ Up(n)' /\ saved[n] # {} /\ file[n].crypto = {k.type : k \in saved[n]}
         => KeyOf(n)' = saved[n]
<1>1. SetupInv /\ [Next]_vars => [Kept]_setupVars
  <2> SUFFICES ASSUME SetupInv, [Next]_vars, NEW n \in Nodes,
                      ~Up(n), Up(n)', saved[n] # {},
                      file[n].crypto = {k.type : k \in saved[n]}
               PROVE  KeyOf(n)' = saved[n]
    OBVIOUS
  <2>1. n \in fromFile
    BY DEF SetupInv, SavedInFile
  <2>2. StartNode(n)
    <3>1. ASSUME NEW m \in Nodes, StartNode(m) PROVE m = n
      BY <3>1 DEF StartNode, Up, SetupInv, SetupTyped
    <3>2. ASSUME NEW m \in Nodes, StopNode(m) PROVE FALSE
      BY <3>2 DEF StopNode, Up, SetupInv, SetupTyped
    <3>3. node' # node
      BY DEF Up
    <3> QED BY <3>1, <3>2, <3>3, SetupSteps DEF StartFails, SaveKeypairOffline, NameKeyType
  <2> QED BY <2>1, <2>2, StartedKey
<1> QED BY <1>1, SavedIsInFile, PTL DEF Spec, IdentityKept

=============================================================================
