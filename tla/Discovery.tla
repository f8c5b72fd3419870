----------------------------- MODULE Discovery -----------------------------
(***************************************************************************)
(* Who a node knows, and under which key: the identity key that each node  *)
(* loads or creates (security/key_manager.py), its announcement by mDNS    *)
(* and the registry of peers that one node, Me, keeps from the callbacks   *)
(* of its browser (discovery/mdns.py).                                     *)
(*                                                                         *)
(* Nodes may share a key directory, as the replicas of docker-compose.yml  *)
(* do.  The callbacks run one after the other in the thread of zeroconf;   *)
(* each asks for the record of the service as it is then.                  *)
(*                                                                         *)
(* Abstractions.  A key pair is a number, Torn a key file that cannot be   *)
(* loaded.  A node has a configured node_id and is announced under it.     *)
(* The network keeps the record of a node that died until it expires.      *)
(* An Address is written as it is announced, with the IPv4 address of the  *)
(* host; StaticPeers may hold other ways to write one (a host name, or the *)
(* 127.0.0.1 of simulation/runner.py:65).                                  *)
(***************************************************************************)
EXTENDS Integers, Sequences, FiniteSets, SequencesExt

CONSTANTS
  Node, Me,
  Address,       \* host and port
  Directory,
  KeyDir,        \* KeyDir[n]: key_storage_dir of node n
  StaticPeers,   \* peer_addrs of Me, each as it is written there
  MaxKeys,       \* bound: keys generated
  MaxEvents      \* bound: crashes, stops and failures

None == 0
Torn == -1

ASSUME DiscoveryAssumption ==
  /\ IsFiniteSet(Node) /\ Me \in Node
  /\ None \notin Address
  /\ KeyDir \in [Node -> Directory]
  /\ MaxKeys \in Nat /\ MaxEvents \in Nat

Key == 1 .. MaxKeys

VARIABLES
  proc,      \* the process of each node: its pc, key and address
  private,   \* identity.pem in each directory
  public,    \* identity_pub.pem in each directory
  record,    \* the announced service of each node, as the network has it
  browsing,  \* Me's ServiceBrowser runs
  calls,     \* the callbacks it is still to make
  known,     \* Me's registry, the entries under a node_id
  static,    \* Me's registry, the placeholders under a text of StaticPeers
  missed,    \* history: nodes whose last callback found no record
  keys,      \* number of keys generated
  first,     \* history: the key under which a node was first announced
  raced,     \* history: directories where two processes created a key
  events     \* number of events that are bounded

vars == <<proc, private, public, record, browsing, calls, known, static, missed, keys,
          first, raced, events>>
keyVars == <<private, public, keys, raced>>
registryVars == <<browsing, calls, known, static, missed>>

Peer == [addr : Address, key : Key]
Nobody == [addr |-> None, key |-> None]

Process == [pc : {"down", "generated", "truncated", "saved", "keyed", "up", "silent"},
            key : {None} \cup Key, addr : {None} \cup Address]
Down == [pc |-> "down", key |-> None, addr |-> None]

Call == [kind : {"add", "remove"}, node : Node]

TypeOK ==
  /\ proc \in [Node -> Process]
  /\ private \in [Directory -> {None, Torn} \cup Key]
  /\ public \in [Directory -> {None, Torn} \cup Key]
  /\ record \in [Node -> {Nobody} \cup Peer]
  /\ browsing \in BOOLEAN
  /\ calls \in Seq(Call)
  /\ known \in [Node -> {Nobody} \cup Peer]
  /\ static \subseteq StaticPeers
  /\ missed \subseteq Node
  /\ keys \in 0 .. MaxKeys
  /\ first \in [Node -> {None} \cup Key]
  /\ raced \subseteq Directory
  /\ events \in 0 .. MaxEvents

NobodyKnown == [n \in Node |-> Nobody]

(* _register_static_peers has run in the constructor.                      *)
Init ==
  /\ proc = [n \in Node |-> Down]
  /\ private = [d \in Directory |-> None]
  /\ public = [d \in Directory |-> None]
  /\ record = NobodyKnown
  /\ browsing = FALSE
  /\ calls = <<>>
  /\ known = NobodyKnown
  /\ static = StaticPeers
  /\ missed = {}
  /\ keys = 0
  /\ first = [n \in Node |-> None]
  /\ raced = {}
  /\ events = 0

-----------------------------------------------------------------------------
(* Helpers.                                                                *)

Event == events < MaxEvents /\ events' = events + 1

Goto(n, pc) == proc' = [proc EXCEPT ![n].pc = pc]

(* The browser of Me is told of a change of n's service.                   *)
Tell(kind, n) == calls' = IF browsing THEN Append(calls, [kind |-> kind, node |-> n]) ELSE calls

(* The processes that are creating a key in directory d.                   *)
Creating(d) == { n \in Node : KeyDir[n] = d /\ proc[n].pc \in {"generated", "truncated", "saved"} }

FreeAddress == { a \in Address : \A n \in Node : proc[n].addr # a }

-----------------------------------------------------------------------------
(* KeyManager, in the constructor of the node.                             *)

(* Mutation of HasKey: every start creates a key.                          *)
HasKeyNever(d) == FALSE

(* priv_path.exists()                                                      *)
HasKey(d) == private[d] # None

(* Mutation of Load: the public key is read as well.                       *)
LoadBoth(n) ==
  /\ proc[n].pc = "down"
  /\ HasKey(KeyDir[n])
  /\ private[KeyDir[n]] \in Key /\ public[KeyDir[n]] \in Key
  /\ \E a \in FreeAddress :
       proc' = [proc EXCEPT ![n] = [pc |-> "keyed", key |-> private[KeyDir[n]], addr |-> a]]
  /\ UNCHANGED <<keyVars, record, registryVars, first, events>>

(* _load of the key file.  When it cannot be loaded - a crash has left it  *)
(* half-written, or another process is writing it - the start fails.       *)
Load(n) ==
  /\ proc[n].pc = "down"
  /\ HasKey(KeyDir[n])
  /\ private[KeyDir[n]] \in Key
  /\ \E a \in FreeAddress :
       proc' = [proc EXCEPT ![n] = [pc |-> "keyed", key |-> private[KeyDir[n]], addr |-> a]]
  /\ UNCHANGED <<keyVars, record, registryVars, first, events>>

(* _generate_and_save, up to opening the file.                             *)
Generate(n) ==
  /\ proc[n].pc = "down"
  /\ ~HasKey(KeyDir[n])
  /\ keys < MaxKeys
  /\ keys' = keys + 1
  /\ \E a \in FreeAddress :
       proc' = [proc EXCEPT ![n] = [pc |-> "generated", key |-> keys', addr |-> a]]
  /\ raced' = IF Creating(KeyDir[n]) = {} THEN raced ELSE raced \cup {KeyDir[n]}
  /\ UNCHANGED <<private, public, record, registryVars, first, events>>

(* write_bytes opens and truncates the private key file ...                *)
Truncate(n) ==
  /\ proc[n].pc = "generated"
  /\ Goto(n, "truncated")
  /\ private' = [private EXCEPT ![KeyDir[n]] = Torn]
  /\ UNCHANGED <<public, keys, raced, record, registryVars, first, events>>

(* ... and writes it; chmod.                                               *)
Save(n) ==
  /\ proc[n].pc = "truncated"
  /\ Goto(n, "saved")
  /\ private' = [private EXCEPT ![KeyDir[n]] = proc[n].key]
  /\ UNCHANGED <<public, keys, raced, record, registryVars, first, events>>

SavePublic(n) ==
  /\ proc[n].pc = "saved"
  /\ Goto(n, "keyed")
  /\ public' = [public EXCEPT ![KeyDir[n]] = proc[n].key]
  /\ UNCHANGED <<private, keys, raced, record, registryVars, first, events>>

-----------------------------------------------------------------------------
(* start() and stop() of MDNSDiscovery.                                    *)

(* Mutation of Announced: the public key file is announced.                *)
AnnouncedFile(n) == [addr |-> proc[n].addr, key |-> public[KeyDir[n]]]

(* _build_service_info                                                     *)
Announced(n) == [addr |-> proc[n].addr, key |-> proc[n].key]

(* One callback for each service, in any order.                            *)
AddAll(services) == { [i \in DOMAIN s |-> [kind |-> "add", node |-> s[i]]] : s \in SetToSeqs(services) }

(* The service is registered; Me then starts to browse and is told of      *)
(* every service there is, its own included.                               *)
Announce(n) ==
  /\ proc[n].pc = "keyed"
  /\ Goto(n, "up")
  /\ record' = [record EXCEPT ![n] = Announced(n)]
  /\ first' = [first EXCEPT ![n] = IF @ = None THEN proc[n].key ELSE @]
  /\ IF n = Me
     THEN /\ browsing' = TRUE
          /\ calls' \in AddAll({ m \in Node : record'[m] # Nobody })
     ELSE Tell("add", n) /\ UNCHANGED browsing
  /\ UNCHANGED <<keyVars, known, static, missed, events>>

(* The registration fails: static peers only.                              *)
AnnounceFails(n) ==
  /\ proc[n].pc = "keyed"
  /\ Event
  /\ Goto(n, "silent")
  /\ UNCHANGED <<keyVars, record, registryVars, first>>

(* The registry of Me goes with its process.                               *)
Forget(n) ==
  IF n = Me
  THEN /\ browsing' = FALSE /\ calls' = <<>>
       /\ known' = NobodyKnown /\ static' = StaticPeers /\ missed' = {}
  ELSE UNCHANGED <<browsing, known, static, missed>>

(* unregister_service on a clean stop.                                     *)
Stop(n) ==
  /\ proc[n].pc = "up"
  /\ Event
  /\ proc' = [proc EXCEPT ![n] = Down]
  /\ record' = [record EXCEPT ![n] = Nobody]
  /\ Forget(n)
  /\ n # Me => Tell("remove", n)
  /\ UNCHANGED <<keyVars, first>>

(* The process dies at any point.                                          *)
Crash(n) ==
  /\ proc[n].pc # "down"
  /\ Event
  /\ proc' = [proc EXCEPT ![n] = Down]
  /\ Forget(n)
  /\ n # Me => UNCHANGED calls
  /\ UNCHANGED <<keyVars, record, first>>

(* The record of a node that has died is dropped by the network.           *)
Expire(n) ==
  /\ proc[n].pc # "up"
  /\ record[n] # Nobody
  /\ record' = [record EXCEPT ![n] = Nobody]
  /\ Tell("remove", n)
  /\ UNCHANGED <<proc, keyVars, browsing, known, static, missed, first, events>>

-----------------------------------------------------------------------------
(* The listener.                                                           *)

(* Mutation of Register: the key is not decoded.                           *)
RegisterKeyless(n) ==
  /\ static' = static \ {record[n].addr}
  /\ known' = [known EXCEPT ![n] = [record[n] EXCEPT !.key = None]]

(* Mutation of Register: a peer that is known already is left as it is.    *)
RegisterNew(n) ==
  /\ static' = static \ {record[n].addr}
  /\ known' = IF known[n] = Nobody THEN [known EXCEPT ![n] = record[n]] ELSE known

(* The placeholder gives way to the peer if it is written as the peer      *)
(* announces its address; otherwise the two stay side by side.             *)
Register(n) ==
  /\ static' = static \ {record[n].addr}
  /\ known' = [known EXCEPT ![n] = record[n]]

(* add_service and update_service                                          *)
AddService ==
  /\ calls # <<>> /\ Head(calls).kind = "add"
  /\ calls' = Tail(calls)
  /\ LET n == Head(calls).node
     IN  IF n = Me THEN UNCHANGED <<known, static, missed>>
         ELSE IF record[n] = Nobody THEN missed' = missed \cup {n} /\ UNCHANGED <<known, static>>
         ELSE Register(n) /\ missed' = missed \ {n}
  /\ UNCHANGED <<proc, keyVars, record, browsing, first, events>>

(* get_service_info gets no answer in time.                                *)
AddServiceFails ==
  /\ calls # <<>> /\ Head(calls).kind = "add"
  /\ Event
  /\ calls' = Tail(calls)
  /\ missed' = missed \cup {Head(calls).node}
  /\ UNCHANGED <<proc, keyVars, record, browsing, known, static, first>>

RemoveService ==
  /\ calls # <<>> /\ Head(calls).kind = "remove"
  /\ calls' = Tail(calls)
  /\ known' = [known EXCEPT ![Head(calls).node] = Nobody]
  /\ missed' = missed \ {Head(calls).node}
  /\ UNCHANGED <<proc, keyVars, record, browsing, static, first, events>>

-----------------------------------------------------------------------------
(* The specification.                                                      *)

StartStep(n) ==
  Load(n) \/ Generate(n) \/ Truncate(n) \/ Save(n) \/ SavePublic(n) \/ Announce(n)

Callback == AddService \/ RemoveService

Next ==
  \/ \E n \in Node :
       \/ Load(n) \/ Generate(n) \/ Truncate(n) \/ Save(n) \/ SavePublic(n)
       \/ Announce(n) \/ AnnounceFails(n) \/ Stop(n) \/ Crash(n) \/ Expire(n)
  \/ AddService \/ AddServiceFails \/ RemoveService

Spec == Init /\ [][Next]_vars

(* A node that is down is started again ("restart: unless-stopped",        *)
(* docker-compose.yml:26), and the thread of zeroconf makes its callbacks. *)
Fairness == WF_vars(Callback) /\ \A n \in Node : WF_vars(StartStep(n))

FairSpec == Spec /\ Fairness

-----------------------------------------------------------------------------
(* Properties.                                                             *)

Settled(n) == n \notin missed /\ \A i \in 1 .. Len(calls) : calls[i].node # n

(* The registry mirrors the network: a peer about which no callback is     *)
(* pending, and whose last lookup found it, has the entry that it          *)
(* announces now - although a callback may find a record that is newer     *)
(* than the change it was called for, or none at all.                      *)
RegistryIsCurrent ==
  browsing => \A n \in Node \ {Me} : Settled(n) => known[n] = record[n]

(* What is encrypted for a peer can be decrypted by it: a settled entry    *)
(* holds the key of the process that runs there.                           *)
KeysAgree ==
  browsing => \A n \in Node \ {Me} :
    Settled(n) /\ proc[n].pc = "up" => known[n].key = proc[n].key

(* "Each node has a persistent P-256 identity key-pair"                    *)
(* (key_manager.py:4): a node never comes back with another key than the   *)
(* one it was first announced with, through crashes in the middle of its   *)
(* creation too - unless two nodes created a key in the same directory at  *)
(* the same time, when one of the two is overwritten.                      *)
IdentityPersists ==
  \A n \in Node :
    proc[n].pc \in {"keyed", "up", "silent"} /\ first[n] # None =>
      proc[n].key = first[n] \/ KeyDir[n] \in raced

(* Every node gets to run, unless a crash has left its key file            *)
(* half-written: that file is never repaired.                              *)
NodesStart ==
  \A n \in Node : <>[](proc[n].pc \in {"up", "silent"} \/ private[KeyDir[n]] = Torn)

(* The inductive invariant of the proofs.                                  *)

(* A process past its constructor's first lines has a key and an address.  *)
ProcessHasKey ==
  \A n \in Node : proc[n].pc # "down" => proc[n].key \in Key /\ proc[n].addr \in Address

(* A directory that no two processes created a key in has at most one that *)
(* creates one, whose progress shows in the file, and no key but that of   *)
(* its nodes that have one.                                                *)
OneKeyPerDirectory ==
  \A d \in Directory \ raced :
    /\ \A m, n \in Creating(d) : m = n
    /\ \A n \in Node : KeyDir[n] = d =>
         /\ proc[n].pc = "generated" => private[d] = None
         /\ proc[n].pc = "truncated" => private[d] = Torn
         /\ proc[n].pc \in {"saved", "keyed", "up", "silent"} => private[d] = proc[n].key
         /\ first[n] # None => private[d] = first[n]

UpIsAnnounced == \A n \in Node : proc[n].pc = "up" => record[n] = Announced(n)

(* Me has a registry to itself before it browses, which it does while up.  *)
BrowsesWhileUp ==
  /\ browsing => proc[Me].pc = "up"
  /\ ~browsing => calls = <<>> /\ known = NobodyKnown

(* After the last callback about a node, if it removes it, there is no     *)
(* record of it any more.                                                  *)
RemovedHasNoRecord ==
  \A i \in 1 .. Len(calls) :
    /\ calls[i].kind = "remove"
    /\ \A j \in 1 .. Len(calls) : j > i => calls[j].node # calls[i].node
    => record[calls[i].node] = Nobody

IInv ==
  /\ TypeOK
  /\ ProcessHasKey
  /\ OneKeyPerDirectory
  /\ UpIsAnnounced
  /\ BrowsesWhileUp
  /\ RemovedHasNoRecord
  /\ RegistryIsCurrent
=============================================================================
