--------------------------- MODULE DiscoveryProofs ---------------------------
(***************************************************************************)
(* Proofs about Discovery for every finite set of nodes, every assignment  *)
(* of key directories and static peers, and any number of keys and events: *)
(* the inductive invariant IInv, and from it the invariants that the       *)
(* MCDiscovery run checks on a small instance.                             *)
(***************************************************************************)
EXTENDS Discovery, FiniteSetTheorems, TLAPS

(* The callbacks that a new browser makes are one for each service.        *)
LEMMA AddAllCalls ==
  ASSUME NEW S \in SUBSET Node, NEW c \in AddAll(S)
  PROVE  /\ c \in Seq(Call)
         /\ \A i \in 1 .. Len(c) : c[i].kind = "add" /\ c[i].node \in S
         /\ \A n \in S : \E i \in 1 .. Len(c) : c[i].node = n
<1> DEFINE D == 1 .. Cardinality(S)
<1>1. IsFiniteSet(S) /\ Cardinality(S) \in Nat
  BY DiscoveryAssumption, FS_Subset, FS_CardinalityType
<1>2. PICK s \in SetToSeqs(S) : c = [i \in DOMAIN s |-> [kind |-> "add", node |-> s[i]]]
  BY DEF AddAll
<1>3. s \in Injection(D, S)
  BY <1>2 DEF SetToSeqs, Injection, IsInjective
<1>4. IsFiniteSet(D) /\ Cardinality(D) = Cardinality(S)
  BY <1>1, FS_Interval
<1>5. s \in Surjection(D, S)
  BY <1>1, <1>3, <1>4, FS_Injection
<1>6. DOMAIN s = D /\ s \in [D -> S] /\ \A n \in S : \E i \in D : s[i] = n
  BY <1>5 DEF Surjection
<1>7. c = [i \in D |-> [kind |-> "add", node |-> s[i]]]
  BY <1>2, <1>6
<1>8. c \in Seq(Call) /\ Len(c) = Cardinality(S)
  <2>1. \A i \in D : [kind |-> "add", node |-> s[i]] \in Call
    BY <1>6 DEF Call
  <2>2. c \in [1 .. Cardinality(S) -> Call]
    BY <1>7, <2>1
  <2> QED BY <1>1, <2>2
<1> QED BY <1>6, <1>7, <1>8

(***************************************************************************)
(* Type correctness.                                                       *)
(***************************************************************************)

LEMMA InitType == Init => TypeOK
<1> SUFFICES ASSUME Init PROVE TypeOK
  OBVIOUS
<1>1. Down \in Process
  BY DEF Down, Process
<1>2. proc \in [Node -> Process]
  BY <1>1 DEF Init
<1>3. record \in [Node -> {Nobody} \cup Peer] /\ known \in [Node -> {Nobody} \cup Peer]
  BY DEF Init, NobodyKnown
<1>4. calls \in Seq(Call)
  BY DEF Init
<1>5. keys \in 0 .. MaxKeys /\ events \in 0 .. MaxEvents
  BY DiscoveryAssumption DEF Init
<1>6. /\ private \in [Directory -> {None, Torn} \cup Key]
      /\ public \in [Directory -> {None, Torn} \cup Key]
      /\ first \in [Node -> {None} \cup Key]
  BY DEF Init
<1> QED BY <1>2, <1>3, <1>4, <1>5, <1>6 DEF Init, TypeOK

LEMMA TellType ==
  ASSUME TypeOK, NEW k \in {"add", "remove"}, NEW n \in Node, Tell(k, n)
  PROVE  calls' \in Seq(Call)
<1>1. [kind |-> k, node |-> n] \in Call
  BY DEF Call
<1> QED BY <1>1 DEF TypeOK, Tell

LEMMA ForgetType ==
  ASSUME TypeOK, NEW n \in Node, Forget(n)
  PROVE  /\ browsing' \in BOOLEAN
         /\ known' \in [Node -> {Nobody} \cup Peer]
         /\ static' \subseteq StaticPeers
         /\ missed' \subseteq Node
         /\ n = Me => calls' = <<>>
  BY DEF TypeOK, Forget, NobodyKnown

(* A process that has just started, and one that moves on.                 *)
LEMMA ProcessType ==
  ASSUME TypeOK
  PROVE  /\ Down \in Process
         /\ \A k \in Key, a \in FreeAddress :
              /\ [pc |-> "keyed", key |-> k, addr |-> a] \in Process
              /\ [pc |-> "generated", key |-> k, addr |-> a] \in Process
         /\ \A n \in Node, pc \in {"truncated", "saved", "keyed", "up", "silent"} :
              Goto(n, pc) => proc' \in [Node -> Process]
<1>1. Down \in Process
  BY DEF Down, Process
<1>2. ASSUME NEW k \in Key, NEW a \in FreeAddress
      PROVE  /\ [pc |-> "keyed", key |-> k, addr |-> a] \in Process
             /\ [pc |-> "generated", key |-> k, addr |-> a] \in Process
  BY DEF Process, FreeAddress
<1>3. ASSUME NEW n \in Node, NEW pc \in {"truncated", "saved", "keyed", "up", "silent"},
             Goto(n, pc)
      PROVE  proc' \in [Node -> Process]
  <2>1. proc[n] \in Process
    BY DEF TypeOK
  <2>2. [proc[n] EXCEPT !.pc = pc] \in Process
    BY <2>1 DEF Process
  <2> QED BY <1>3, <2>2 DEF TypeOK, Goto
<1> QED BY <1>1, <1>2, <1>3

LEMMA KeyStepType ==
  ASSUME TypeOK, NEW n \in Node,
         Load(n) \/ Generate(n) \/ Truncate(n) \/ Save(n) \/ SavePublic(n), ProcessHasKey
  PROVE  TypeOK'
<1> USE DiscoveryAssumption, ProcessType DEF TypeOK
<1>1. CASE Load(n)
  <2>1. PICK a \in FreeAddress :
             proc' = [proc EXCEPT ![n] = [pc |-> "keyed", key |-> private[KeyDir[n]], addr |-> a]]
    BY <1>1 DEF Load
  <2>2. proc' \in [Node -> Process]
    BY <1>1, <2>1 DEF Load
  <2> QED BY <1>1, <2>2 DEF Load, keyVars, registryVars
<1>2. CASE Generate(n)
  <2>1. keys' \in Key /\ keys' \in 0 .. MaxKeys
    BY <1>2 DEF Generate, Key
  <2>2. proc' \in [Node -> Process]
    <3>1. PICK a \in FreeAddress :
               proc' = [proc EXCEPT ![n] = [pc |-> "generated", key |-> keys', addr |-> a]]
      BY <1>2 DEF Generate
    <3>2. [pc |-> "generated", key |-> keys', addr |-> a] \in Process
      BY <2>1, ProcessType
    <3> QED BY <3>1, <3>2
  <2> QED BY <1>2, <2>1, <2>2 DEF Generate, registryVars
<1>3. CASE Truncate(n)
  BY <1>3 DEF Truncate, registryVars
<1>4. CASE Save(n)
  BY <1>4 DEF Save, registryVars, ProcessHasKey
<1>5. CASE SavePublic(n)
  BY <1>5 DEF SavePublic, registryVars, ProcessHasKey
<1> QED BY <1>1, <1>2, <1>3, <1>4, <1>5

LEMMA AnnouncedType ==
  ASSUME ProcessHasKey, NEW n \in Node, proc[n].pc # "down"
  PROVE  Announced(n) \in Peer
  BY DEF ProcessHasKey, Announced, Peer

LEMMA NodeStepType ==
  ASSUME TypeOK, ProcessHasKey, NEW n \in Node,
         Announce(n) \/ AnnounceFails(n) \/ Stop(n) \/ Crash(n) \/ Expire(n)
  PROVE  TypeOK'
<1> USE DiscoveryAssumption, ProcessType DEF TypeOK
<1>1. CASE Announce(n)
  <2>1. proc' \in [Node -> Process] /\ record' \in [Node -> {Nobody} \cup Peer]
    BY <1>1, AnnouncedType DEF Announce
  <2>2. first' \in [Node -> {None} \cup Key]
    BY <1>1 DEF Announce, ProcessHasKey
  <2>3. browsing' \in BOOLEAN /\ calls' \in Seq(Call)
    <3>1. CASE n = Me
      <4>1. { m \in Node : record'[m] # Nobody } \in SUBSET Node
        OBVIOUS
      <4> QED BY <1>1, <3>1, <4>1, AddAllCalls DEF Announce
    <3>2. CASE n # Me
      BY <1>1, <3>2, TellType DEF Announce
    <3> QED BY <3>1, <3>2
  <2> QED BY <1>1, <2>1, <2>2, <2>3 DEF Announce, keyVars
<1>2. CASE AnnounceFails(n)
  BY <1>2 DEF AnnounceFails, Event, keyVars, registryVars
<1>3. CASE Stop(n)
  <2>1. Forget(n) /\ (n # Me => Tell("remove", n))
    BY <1>3 DEF Stop
  <2>2. calls' \in Seq(Call)
    <3>1. CASE n = Me
      BY <2>1, <3>1 DEF Forget
    <3>2. CASE n # Me
      BY <2>1, <3>2, TellType
    <3> QED BY <3>1, <3>2
  <2>3. proc' \in [Node -> Process] /\ record' \in [Node -> {Nobody} \cup Peer]
    BY <1>3 DEF Stop
  <2> QED BY <1>3, <2>1, <2>2, <2>3, ForgetType DEF Stop, Event, keyVars
<1>4. CASE Crash(n)
  <2>1. Forget(n) /\ (n # Me => UNCHANGED calls)
    BY <1>4 DEF Crash
  <2>2. calls' \in Seq(Call)
    <3>1. CASE n = Me
      BY <2>1, <3>1 DEF Forget
    <3>2. CASE n # Me
      BY <2>1, <3>2
    <3> QED BY <3>1, <3>2
  <2>3. proc' \in [Node -> Process]
    BY <1>4 DEF Crash
  <2> QED BY <1>4, <2>1, <2>2, <2>3, ForgetType DEF Crash, Event, keyVars
<1>5. CASE Expire(n)
  BY <1>5, TellType DEF Expire, keyVars
<1> QED BY <1>1, <1>2, <1>3, <1>4, <1>5

(* The listener only handles callbacks about nodes.                        *)
LEMMA HeadCall ==
  ASSUME TypeOK, calls # <<>>
  PROVE  Head(calls) \in Call /\ Tail(calls) \in Seq(Call) /\ Head(calls).node \in Node
<1>1. Head(calls) \in Call /\ Tail(calls) \in Seq(Call)
  BY DEF TypeOK
<1> QED BY <1>1 DEF Call

LEMMA CallbackType ==
  ASSUME TypeOK, AddService \/ AddServiceFails \/ RemoveService
  PROVE  TypeOK'
<1> USE DiscoveryAssumption DEF TypeOK
<1>1. CASE AddService
  <2> DEFINE n == Head(calls).node
  <2>1. n \in Node /\ calls' \in Seq(Call)
    BY <1>1, HeadCall DEF AddService
  <2>2. /\ known' \in [Node -> {Nobody} \cup Peer]
        /\ static' \subseteq StaticPeers
        /\ missed' \subseteq Node
    BY <1>1, <2>1 DEF AddService, Register
  <2> QED BY <1>1, <2>1, <2>2 DEF AddService, keyVars
<1>2. CASE AddServiceFails
  BY <1>2, HeadCall DEF AddServiceFails, Event, keyVars
<1>3. CASE RemoveService
  <2>1. calls' \in Seq(Call)
    BY <1>3, HeadCall DEF RemoveService
  <2>2. known' \in [Node -> {Nobody} \cup Peer] /\ missed' \subseteq Node
    BY <1>3 DEF RemoveService
  <2> QED BY <1>3, <2>1, <2>2 DEF RemoveService, keyVars
<1> QED BY <1>1, <1>2, <1>3

LEMMA TypeStep ==
  ASSUME TypeOK, ProcessHasKey, [Next]_vars
  PROVE  TypeOK'
<1>1. CASE UNCHANGED vars
  BY <1>1 DEF TypeOK, vars
<1> QED BY <1>1, KeyStepType, NodeStepType, CallbackType DEF Next

(***************************************************************************)
(* Identity keys.                                                          *)
(***************************************************************************)

(* What no step of the network or of the listener changes.                 *)
LEMMA CallbackKeepsProcesses ==
  ASSUME AddService \/ AddServiceFails \/ RemoveService
  PROVE  UNCHANGED <<proc, private, public, keys, raced, record, browsing, first>>
  BY DEF AddService, AddServiceFails, RemoveService, keyVars

LEMMA ProcessHasKeyStep ==
  ASSUME TypeOK, ProcessHasKey, [Next]_vars
  PROVE  ProcessHasKey'
<1> USE DiscoveryAssumption DEF TypeOK, ProcessHasKey
<1>1. ASSUME NEW n \in Node, Load(n)
      PROVE  ProcessHasKey'
  BY <1>1 DEF Load, FreeAddress
<1>2. ASSUME NEW n \in Node, Generate(n)
      PROVE  ProcessHasKey'
  <2>1. keys' \in Key
    BY <1>2 DEF Generate, Key
  <2> QED BY <1>2, <2>1 DEF Generate, FreeAddress
<1>3. ASSUME NEW n \in Node,
             Truncate(n) \/ Save(n) \/ SavePublic(n) \/ Announce(n) \/ AnnounceFails(n)
      PROVE  ProcessHasKey'
  <2>1. /\ proc[n].pc # "down"
        /\ \E pc \in {"truncated", "saved", "keyed", "up", "silent"} : Goto(n, pc)
    BY <1>3 DEF Truncate, Save, SavePublic, Announce, AnnounceFails
  <2> QED BY <2>1 DEF Goto
<1>4. ASSUME NEW n \in Node, Stop(n) \/ Crash(n) \/ Expire(n)
      PROVE  ProcessHasKey'
  BY <1>4 DEF Stop, Crash, Expire, Down
<1>5. CASE AddService \/ AddServiceFails \/ RemoveService
  BY <1>5, CallbackKeepsProcesses
<1>6. CASE UNCHANGED vars
  BY <1>6 DEF vars
<1> QED BY <1>1, <1>2, <1>3, <1>4, <1>5, <1>6 DEF Next

(* A key is neither an empty nor a torn file.                              *)
LEMMA KeyIsKey == None \notin Key /\ Torn \notin Key /\ None # Torn
  BY DiscoveryAssumption DEF None, Torn, Key

LEMMA OneKeyStep ==
  ASSUME TypeOK, ProcessHasKey, OneKeyPerDirectory, [Next]_vars
  PROVE  OneKeyPerDirectory'
<1> USE DiscoveryAssumption DEF TypeOK, OneKeyPerDirectory, Creating
<1>1. ASSUME NEW n \in Node, Load(n)
      PROVE  OneKeyPerDirectory'
  BY <1>1 DEF Load, keyVars
<1>2. ASSUME NEW n \in Node, Generate(n)
      PROVE  OneKeyPerDirectory'
  BY <1>2 DEF Generate, HasKey
<1>3. ASSUME NEW n \in Node, Truncate(n)
      PROVE  OneKeyPerDirectory'
  BY <1>3, KeyIsKey DEF Truncate, Goto, ProcessHasKey
<1>4. ASSUME NEW n \in Node, Save(n)
      PROVE  OneKeyPerDirectory'
  BY <1>4, KeyIsKey DEF Save, Goto, ProcessHasKey
<1>5. ASSUME NEW n \in Node, SavePublic(n)
      PROVE  OneKeyPerDirectory'
  BY <1>5 DEF SavePublic, Goto
<1>6. ASSUME NEW n \in Node, Announce(n) \/ AnnounceFails(n)
      PROVE  OneKeyPerDirectory'
  <2>1. /\ proc[n].pc = "keyed"
        /\ proc' = [proc EXCEPT ![n].pc = "up"] \/ proc' = [proc EXCEPT ![n].pc = "silent"]
        /\ UNCHANGED <<private, raced>>
        /\ first' = [first EXCEPT ![n] = IF @ = None THEN proc[n].key ELSE @] \/ first' = first
    BY <1>6 DEF Announce, AnnounceFails, Goto, keyVars
  <2>2. /\ proc'[n].pc \in {"up", "silent"} /\ proc'[n].key = proc[n].key
        /\ \A m \in Node \ {n} : proc'[m] = proc[m]
    BY <2>1 DEF Process
  <2>3. \A m \in Node : first'[m] = first[m] \/ (m = n /\ first'[m] = proc[n].key)
    BY <2>1
  <2>4. \A d \in Directory : Creating(d)' \subseteq Creating(d)
    BY <2>2
  <2> QED BY <2>1, <2>2, <2>3, <2>4
<1>7. ASSUME NEW n \in Node, Stop(n) \/ Crash(n) \/ Expire(n)
      PROVE  OneKeyPerDirectory'
  <2>1. /\ UNCHANGED <<private, raced, first>>
        /\ proc' = proc \/ proc' = [proc EXCEPT ![n] = Down]
    BY <1>7 DEF Stop, Crash, Expire, keyVars
  <2>2. \A m \in Node : proc'[m] = proc[m] \/ proc'[m] = Down
    BY <2>1
  <2>3. \A d \in Directory : Creating(d)' \subseteq Creating(d)
    BY <2>2 DEF Down
  <2> QED BY <2>1, <2>2, <2>3 DEF Down
<1>8. CASE AddService \/ AddServiceFails \/ RemoveService
  BY <1>8, CallbackKeepsProcesses
<1>9. CASE UNCHANGED vars
  BY <1>9 DEF vars
<1> QED BY <1>1, <1>2, <1>3, <1>4, <1>5, <1>6, <1>7, <1>8, <1>9 DEF Next

(***************************************************************************)
(* The registry.                                                           *)
(***************************************************************************)

(* What a callback of the browser about node m changes in calls.           *)
LEMMA TellAppends ==
  ASSUME TypeOK, BrowsesWhileUp, NEW k \in {"add", "remove"}, NEW n \in Node, Tell(k, n)
  PROVE  /\ browsing => /\ Len(calls') = Len(calls) + 1
                        /\ \A i \in 1 .. Len(calls) : calls'[i] = calls[i]
                        /\ calls'[Len(calls) + 1] = [kind |-> k, node |-> n]
         /\ ~browsing => calls' = <<>>
  BY DEF Tell, BrowsesWhileUp, TypeOK

(* The callback that runs is the first one, the others stay in order.      *)
LEMMA TailShifts ==
  ASSUME TypeOK, calls # <<>>, calls' = Tail(calls)
  PROVE  /\ Head(calls) = calls[1]
         /\ Len(calls) = Len(calls') + 1 /\ Len(calls') \in Nat
         /\ \A i \in 1 .. Len(calls') : calls'[i] = calls[i + 1]
  BY DEF TypeOK

LEMMA UpIsAnnouncedStep ==
  ASSUME TypeOK, UpIsAnnounced, [Next]_vars
  PROVE  UpIsAnnounced'
<1> USE DEF TypeOK, UpIsAnnounced, Announced
<1>1. ASSUME NEW n \in Node, Load(n) \/ Generate(n) \/ Truncate(n) \/ Save(n) \/ SavePublic(n)
      PROVE  UpIsAnnounced'
  <2>1. UNCHANGED record /\ proc'[n].pc # "up" /\ \A m \in Node \ {n} : proc'[m] = proc[m]
    BY <1>1 DEF Load, Generate, Truncate, Save, SavePublic, Goto, Process
  <2> QED BY <2>1
<1>2. ASSUME NEW n \in Node, Announce(n)
      PROVE  UpIsAnnounced'
  <2>1. proc'[n].addr = proc[n].addr /\ proc'[n].key = proc[n].key
        /\ \A m \in Node \ {n} : proc'[m] = proc[m]
    BY <1>2 DEF Announce, Goto, Process
  <2>2. record' = [record EXCEPT ![n] = Announced(n)]
    BY <1>2 DEF Announce
  <2> QED BY <2>1, <2>2
<1>3. ASSUME NEW n \in Node, AnnounceFails(n)
      PROVE  UpIsAnnounced'
  <2>1. UNCHANGED record /\ proc'[n].pc # "up" /\ \A m \in Node \ {n} : proc'[m] = proc[m]
    BY <1>3 DEF AnnounceFails, Goto, Process
  <2> QED BY <2>1
<1>4. ASSUME NEW n \in Node, Stop(n) \/ Crash(n) \/ Expire(n)
      PROVE  UpIsAnnounced'
  BY <1>4 DEF Stop, Crash, Expire, Down
<1>5. CASE AddService \/ AddServiceFails \/ RemoveService
  BY <1>5, CallbackKeepsProcesses
<1>6. CASE UNCHANGED vars
  BY <1>6 DEF vars
<1> QED BY <1>1, <1>2, <1>3, <1>4, <1>5, <1>6 DEF Next

LEMMA BrowsesStep ==
  ASSUME TypeOK, BrowsesWhileUp, [Next]_vars
  PROVE  BrowsesWhileUp'
<1> USE DiscoveryAssumption DEF TypeOK, BrowsesWhileUp
<1>1. ASSUME NEW n \in Node, Load(n) \/ Generate(n) \/ Truncate(n) \/ Save(n) \/ SavePublic(n)
      PROVE  BrowsesWhileUp'
  <2>1. UNCHANGED registryVars /\ proc[n].pc # "up" /\ \A m \in Node \ {n} : proc'[m] = proc[m]
    BY <1>1 DEF Load, Generate, Truncate, Save, SavePublic, Goto
  <2> QED BY <2>1 DEF registryVars
<1>2. ASSUME NEW n \in Node, Announce(n)
      PROVE  BrowsesWhileUp'
  <2>1. proc'[n].pc = "up" /\ proc[n].pc = "keyed" /\ UNCHANGED known
        /\ \A m \in Node \ {n} : proc'[m] = proc[m]
    BY <1>2 DEF Announce, Goto, Process
  <2>2. CASE n = Me
    BY <1>2, <2>1, <2>2 DEF Announce
  <2>3. CASE n # Me
    BY <1>2, <2>1, <2>3 DEF Announce, Tell
  <2> QED BY <2>2, <2>3
<1>3. ASSUME NEW n \in Node, AnnounceFails(n)
      PROVE  BrowsesWhileUp'
  BY <1>3 DEF AnnounceFails, Goto, registryVars
<1>4. ASSUME NEW n \in Node, Stop(n) \/ Crash(n)
      PROVE  BrowsesWhileUp'
  <2>1. Forget(n) /\ proc' = [proc EXCEPT ![n] = Down]
        /\ (n # Me => Tell("remove", n) \/ UNCHANGED calls)
    BY <1>4 DEF Stop, Crash
  <2>2. CASE n = Me
    BY <2>1, <2>2 DEF Forget
  <2>3. CASE n # Me
    BY <2>1, <2>3 DEF Forget, Tell
  <2> QED BY <2>2, <2>3
<1>5. ASSUME NEW n \in Node, Expire(n)
      PROVE  BrowsesWhileUp'
  BY <1>5 DEF Expire, Tell
<1>6. CASE AddService \/ AddServiceFails \/ RemoveService
  <2>1. calls # <<>>
    BY <1>6 DEF AddService, AddServiceFails, RemoveService
  <2> QED BY <1>6, <2>1, CallbackKeepsProcesses
<1>7. CASE UNCHANGED vars
  BY <1>7 DEF vars
<1> QED BY <1>1, <1>2, <1>3, <1>4, <1>5, <1>6, <1>7 DEF Next

Registry == RemovedHasNoRecord /\ RegistryIsCurrent

(* A change of the network that the browser is told of.                    *)
LEMMA TellKeepsRegistry ==
  ASSUME TypeOK, BrowsesWhileUp, Registry,
         NEW k \in {"add", "remove"}, NEW n \in Node, NEW r, Tell(k, n),
         record' = [record EXCEPT ![n] = r], k = "remove" => r = Nobody,
         UNCHANGED <<browsing, known, missed>>
  PROVE  Registry'
<1> USE DEF Registry, TypeOK
<1>1. CASE ~browsing
  <2>1. calls' = <<>>
    BY <1>1, TellAppends
  <2> QED BY <1>1, <2>1 DEF RemovedHasNoRecord, RegistryIsCurrent
<1>2. CASE browsing
  <2>1. /\ Len(calls) \in Nat /\ Len(calls') = Len(calls) + 1
        /\ \A i \in 1 .. Len(calls) : calls'[i] = calls[i]
        /\ calls'[Len(calls) + 1] = [kind |-> k, node |-> n]
    BY <1>2, TellAppends
  <2>2. RemovedHasNoRecord'
    <3> SUFFICES ASSUME NEW i \in 1 .. Len(calls'), calls'[i].kind = "remove",
                        \A j \in 1 .. Len(calls') : j > i => calls'[j].node # calls'[i].node
                 PROVE  record'[calls'[i].node] = Nobody
      BY DEF RemovedHasNoRecord
    <3>1. CASE i = Len(calls) + 1
      BY <2>1, <3>1
    <3>2. CASE i \in 1 .. Len(calls)
      <4>0. Len(calls) + 1 \in 1 .. Len(calls') /\ Len(calls) + 1 > i
        BY <2>1, <3>2
      <4>1. calls'[i] = calls[i] /\ calls[i].node # n
        <5>1. calls'[i] = calls[i]
          BY <2>1, <3>2
        <5>2. calls'[Len(calls) + 1].node # calls'[i].node
          BY <4>0
        <5> QED BY <2>1, <5>1, <5>2
      <4>2. record[calls[i].node] = Nobody
        BY <2>1, <3>2, <4>1 DEF RemovedHasNoRecord
      <4>3. calls[i] \in Call
        BY <3>2
      <4> QED BY <4>1, <4>2, <4>3 DEF Call
    <3> QED BY <2>1, <3>1, <3>2
  <2>3. RegistryIsCurrent'
    <3> SUFFICES ASSUME NEW m \in Node \ {Me}, Settled(m)'
                 PROVE  known'[m] = record'[m]
      BY DEF RegistryIsCurrent
    <3>1. m \notin missed /\ \A i \in 1 .. Len(calls') : calls'[i].node # m
      BY DEF Settled
    <3>2. m # n
      BY <2>1, <3>1
    <3>3. \A i \in 1 .. Len(calls) : calls[i].node # m
      BY <2>1, <3>1
    <3>4. Settled(m)
      BY <3>1, <3>3 DEF Settled
    <3> QED BY <1>2, <3>2, <3>4 DEF RegistryIsCurrent
  <2> QED BY <2>2, <2>3
<1> QED BY <1>1, <1>2

(* A callback about node n leaves the others as they are.                  *)
LEMMA CallbackKeepsRegistry ==
  ASSUME TypeOK, Registry, calls # <<>>, calls' = Tail(calls), NEW n, n = Head(calls).node,
         UNCHANGED <<browsing, record>>,
         \A m \in Node \ {n} : known'[m] = known[m] /\ (m \in missed => m \in missed'),
         n # Me /\ Settled(n)' => known'[n] = record[n]
  PROVE  Registry'
<1> USE DEF Registry, TypeOK
<1>1. /\ Head(calls) = calls[1]
      /\ Len(calls) = Len(calls') + 1 /\ Len(calls') \in Nat
      /\ \A i \in 1 .. Len(calls') : calls'[i] = calls[i + 1]
  BY TailShifts
<1>2. RemovedHasNoRecord'
  <2> SUFFICES ASSUME NEW i \in 1 .. Len(calls'), calls'[i].kind = "remove",
                      \A j \in 1 .. Len(calls') : j > i => calls'[j].node # calls'[i].node
               PROVE  record'[calls'[i].node] = Nobody
    BY DEF RemovedHasNoRecord
  <2>1. \A j \in 1 .. Len(calls) : j > i + 1 => calls[j].node # calls[i + 1].node
    <3> TAKE j \in 1 .. Len(calls)
    <3> HAVE j > i + 1
    <3>1. j - 1 \in 1 .. Len(calls') /\ j - 1 > i /\ (j - 1) + 1 = j
      BY <1>1
    <3>2. calls'[j - 1] = calls[j] /\ calls'[i] = calls[i + 1]
      BY <1>1, <3>1
    <3> QED BY <3>1, <3>2
  <2>2. i + 1 \in 1 .. Len(calls) /\ calls'[i] = calls[i + 1]
    BY <1>1
  <2> QED BY <2>1, <2>2 DEF RemovedHasNoRecord
<1>3. RegistryIsCurrent'
  <2> SUFFICES ASSUME browsing, NEW m \in Node \ {Me}, Settled(m)'
               PROVE  known'[m] = record'[m]
    BY DEF RegistryIsCurrent
  <2>1. CASE m = n
    BY <2>1
  <2>2. CASE m # n
    <3>1. m \notin missed' /\ \A j \in 1 .. Len(calls') : calls'[j].node # m
      BY <1>1 DEF Settled
    <3>2. \A j \in 1 .. Len(calls) : calls[j].node # m
      <4> TAKE j \in 1 .. Len(calls)
      <4>1. CASE j = 1
        BY <1>1, <2>2, <4>1
      <4>2. CASE j > 1
        <5>1. j - 1 \in 1 .. Len(calls') /\ (j - 1) + 1 = j
          BY <1>1, <4>2
        <5>2. calls'[j - 1] = calls[j]
          BY <1>1, <5>1
        <5> QED BY <3>1, <5>1, <5>2
      <4> QED BY <4>1, <4>2
    <3>3. Settled(m)
      BY <2>2, <3>1, <3>2 DEF Settled
    <3> QED BY <2>2, <3>3 DEF RegistryIsCurrent
  <2> QED BY <2>1, <2>2
<1> QED BY <1>2, <1>3

LEMMA RegistryStep ==
  ASSUME TypeOK, BrowsesWhileUp, Registry, [Next]_vars
  PROVE  Registry'
<1> USE DiscoveryAssumption DEF TypeOK
<1>1. CASE UNCHANGED <<record, registryVars>>
  BY <1>1 DEF Registry, RemovedHasNoRecord, RegistryIsCurrent, Settled, registryVars
<1>2. ASSUME NEW n \in Node, Load(n) \/ Generate(n) \/ Truncate(n) \/ Save(n) \/ SavePublic(n)
                             \/ AnnounceFails(n)
      PROVE  Registry'
  <2>1. UNCHANGED <<record, registryVars>>
    BY <1>2 DEF Load, Generate, Truncate, Save, SavePublic, AnnounceFails
  <2> QED BY <1>1, <2>1
<1>3. ASSUME NEW n \in Node, Announce(n)
      PROVE  Registry'
  <2>1. CASE n = Me
    <3>1. ~browsing /\ known = NobodyKnown
      BY <1>3, <2>1 DEF BrowsesWhileUp, Announce
    <3> DEFINE S == { m \in Node : record'[m] # Nobody }
    <3>2. calls' \in AddAll(S) /\ UNCHANGED known
      BY <1>3, <2>1 DEF Announce
    <3>3. /\ calls' \in Seq(Call)
          /\ \A i \in 1 .. Len(calls') : calls'[i].kind = "add"
          /\ \A m \in S : \E i \in 1 .. Len(calls') : calls'[i].node = m
      <4>1. S \in SUBSET Node
        OBVIOUS
      <4> HIDE DEF S
      <4> QED BY <3>2, <4>1, AddAllCalls
    <3>4. RemovedHasNoRecord'
      BY <3>3 DEF RemovedHasNoRecord
    <3>5. \A m \in Node : Settled(m)' => known'[m] = record'[m]
      BY <3>1, <3>2, <3>3 DEF Settled, NobodyKnown
    <3> QED BY <3>4, <3>5 DEF Registry, RegistryIsCurrent
  <2>2. CASE n # Me
    BY <1>3, <2>2, TellKeepsRegistry DEF Announce
  <2> QED BY <2>1, <2>2
<1>4. ASSUME NEW n \in Node, Stop(n) \/ Crash(n)
      PROVE  Registry'
  <2>1. CASE n = Me
    <3>1. calls' = <<>> /\ browsing' = FALSE
      BY <1>4, <2>1 DEF Stop, Crash, Forget
    <3> QED BY <3>1 DEF Registry, RemovedHasNoRecord, RegistryIsCurrent
  <2>2. CASE n # Me /\ Stop(n)
    BY <2>2, TellKeepsRegistry DEF Stop, Forget
  <2>3. CASE n # Me /\ Crash(n)
    BY <1>1, <2>3 DEF Crash, Forget, registryVars
  <2> QED BY <1>4, <2>1, <2>2, <2>3
<1>5. ASSUME NEW n \in Node, Expire(n)
      PROVE  Registry'
  BY <1>5, TellKeepsRegistry DEF Expire
<1>6. CASE AddService
  <2>1. calls # <<>> /\ calls' = Tail(calls) /\ UNCHANGED <<browsing, record>>
    BY <1>6 DEF AddService
  <2>2. PICK n \in Node : n = Head(calls).node
    BY <2>1, HeadCall
  <2>3. \/ n = Me /\ UNCHANGED <<known, missed>>
        \/ record[n] = Nobody /\ missed' = missed \cup {n} /\ UNCHANGED known
        \/ known' = [known EXCEPT ![n] = record[n]] /\ missed' = missed \ {n}
    BY <1>6, <2>2 DEF AddService, Register
  <2>4. \A m \in Node \ {n} : known'[m] = known[m] /\ (m \in missed => m \in missed')
    BY <2>3
  <2>5. n # Me /\ Settled(n)' => known'[n] = record[n]
    BY <2>3 DEF Settled
  <2> QED BY <2>1, <2>2, <2>4, <2>5, CallbackKeepsRegistry
<1>7. CASE AddServiceFails
  <2>1. /\ calls # <<>> /\ calls' = Tail(calls) /\ UNCHANGED <<browsing, record, known>>
        /\ missed' = missed \cup {Head(calls).node}
    BY <1>7 DEF AddServiceFails
  <2>2. PICK n \in Node : n = Head(calls).node
    BY <2>1, HeadCall
  <2>3. n # Me /\ Settled(n)' => known'[n] = record[n]
    BY <2>1, <2>2 DEF Settled
  <2> QED BY <2>1, <2>2, <2>3, CallbackKeepsRegistry
<1>8. CASE RemoveService
  <2>1. calls # <<>> /\ calls' = Tail(calls) /\ UNCHANGED <<browsing, record>>
    BY <1>8 DEF RemoveService
  <2>2. PICK n \in Node : n = Head(calls).node
    BY <2>1, HeadCall
  <2>3. /\ Head(calls).kind = "remove" /\ known' = [known EXCEPT ![n] = Nobody]
        /\ missed' = missed \ {n}
    BY <1>8, <2>2 DEF RemoveService
  <2>4. Settled(n)' => record[n] = Nobody
    <3> SUFFICES ASSUME Settled(n)' PROVE record[n] = Nobody
      OBVIOUS
    <3>1. /\ Head(calls) = calls[1]
          /\ Len(calls) = Len(calls') + 1 /\ Len(calls') \in Nat
          /\ \A i \in 1 .. Len(calls') : calls'[i] = calls[i + 1]
      BY <2>1, TailShifts
    <3>2. \A j \in 1 .. Len(calls) : j > 1 => calls[j].node # n
      <4> TAKE j \in 1 .. Len(calls)
      <4> HAVE j > 1
      <4>1. j - 1 \in 1 .. Len(calls') /\ (j - 1) + 1 = j
        BY <3>1
      <4>2. calls'[j - 1] = calls[j]
        BY <3>1, <4>1
      <4>3. \A i \in 1 .. Len(calls') : calls'[i].node # n
        BY Zenon DEF Settled
      <4> QED BY <4>1, <4>2, <4>3
    <3>3. 1 \in 1 .. Len(calls)
      BY <3>1
    <3> QED BY <2>3, <2>2, <3>1, <3>2, <3>3 DEF Registry, RemovedHasNoRecord
  <2>5. \A m \in Node \ {n} : known'[m] = known[m] /\ (m \in missed => m \in missed')
    BY <2>3
  <2>6. known'[n] = Nobody
    BY <2>3
  <2> QED BY <2>1, <2>2, <2>4, <2>5, <2>6, CallbackKeepsRegistry
<1>9. CASE UNCHANGED vars
  BY <1>1, <1>9 DEF vars, registryVars
<1> QED BY <1>2, <1>3, <1>4, <1>5, <1>6, <1>7, <1>8, <1>9 DEF Next

(***************************************************************************)
(* The inductive invariant and what follows from it.                       *)
(***************************************************************************)

LEMMA InitInvariant == Init => IInv
<1> SUFFICES ASSUME Init PROVE IInv
  OBVIOUS
<1>1. TypeOK
  BY InitType
<1>2. ProcessHasKey /\ UpIsAnnounced /\ OneKeyPerDirectory
  BY DEF Init, Down, ProcessHasKey, UpIsAnnounced, OneKeyPerDirectory, Creating
<1>3. BrowsesWhileUp /\ RemovedHasNoRecord /\ RegistryIsCurrent
  BY DEF Init, BrowsesWhileUp, RemovedHasNoRecord, RegistryIsCurrent
<1> QED BY <1>1, <1>2, <1>3 DEF IInv

LEMMA InvariantStep == IInv /\ [Next]_vars => IInv'
<1> SUFFICES ASSUME IInv, [Next]_vars PROVE IInv'
  OBVIOUS
<1> USE DEF IInv
<1>1. TypeOK'
  BY TypeStep
<1>2. ProcessHasKey' /\ OneKeyPerDirectory'
  BY ProcessHasKeyStep, OneKeyStep
<1>3. UpIsAnnounced' /\ BrowsesWhileUp'
  BY UpIsAnnouncedStep, BrowsesStep
<1>4. RemovedHasNoRecord' /\ RegistryIsCurrent'
  BY RegistryStep DEF Registry
<1> QED BY <1>1, <1>2, <1>3, <1>4

(* Through starts, crashes and callbacks in any order, the conjuncts of    *)
(* IInv hold together: each step preserves them from all of them.          *)
THEOREM Invariance == Spec => []IInv
  BY InitInvariant, InvariantStep, PTL DEF Spec

(* Key files, announcements and the registry keep their types, for any     *)
(* number of nodes, directories and events.                                *)
THEOREM TypeCorrect == Spec => []TypeOK
<1>1. IInv => TypeOK
  BY DEF IInv
<1> QED BY <1>1, Invariance, PTL

(* The listener's registry mirrors the network wherever no callback is     *)
(* pending, although each callback looks at the network of its own time.   *)
THEOREM RegistryIsCurrentHolds == Spec => []RegistryIsCurrent
<1>1. IInv => RegistryIsCurrent
  BY DEF IInv
<1> QED BY <1>1, Invariance, PTL

(* A settled entry of a node that is up holds the key of its process, so   *)
(* that what is encrypted for it can be decrypted.                         *)
THEOREM KeysAgreeHolds == Spec => []KeysAgree
<1>1. IInv => KeysAgree
  <2> SUFFICES ASSUME IInv, browsing, NEW n \in Node \ {Me}, Settled(n), proc[n].pc = "up"
               PROVE  known[n].key = proc[n].key
    BY DEF KeysAgree
  <2>1. known[n] = record[n]
    BY DEF IInv, RegistryIsCurrent
  <2>2. record[n] = Announced(n)
    BY DEF IInv, UpIsAnnounced
  <2> QED BY <2>1, <2>2 DEF Announced
<1> QED BY <1>1, Invariance, PTL

(* KeyManager never gives a node that was announced a second identity,     *)
(* unless two processes created a key in one directory at the same time.   *)
THEOREM IdentityPersistsHolds == Spec => []IdentityPersists
<1>1. IInv => IdentityPersists
  BY DiscoveryAssumption DEF IInv, TypeOK, IdentityPersists, OneKeyPerDirectory
<1> QED BY <1>1, Invariance, PTL
=============================================================================
