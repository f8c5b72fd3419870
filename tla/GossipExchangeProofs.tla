------------------------ MODULE GossipExchangeProofs ------------------------
(***************************************************************************)
(* Proofs about GossipExchange for every set of nodes, every bound and     *)
(* every set of statically configured peers: the inductive invariant IInv, *)
(* and from it the invariants and the action property that the MCGossip    *)
(* runs check on small instances.                                          *)
(***************************************************************************)
EXTENDS GossipExchange, TLAPS

(* Closing a connection keeps it a connection.                             *)
LEMMA ClosedType ==
  ASSUME NEW k \in Conn
  PROVE  /\ Closed(k) \in Conn
         /\ Closed(k).st = "closed"
         /\ Closed(k).cli = k.cli
         /\ Closed(k).key = k.key
         /\ Closed(k).merge = k.merge
  BY DEF Closed, Conn, Weights

LEMMA NoConnType == NoConn \in Conn
  BY DEF NoConn, Conn, Weights

(* The exchange a loop opens or waits for is one of Exchange.              *)
LEMMA ExchangeOf ==
  ASSUME NEW i \in Node, NEW r \in Round, NEW p \in Node, i # p
  PROVE  /\ <<i, r, p>> \in Exchange
         /\ <<i, r, p>>[1] = i
         /\ <<i, r, p>>[3] = p
  BY DEF Exchange

LEMMA ExchangeParts ==
  ASSUME NEW x \in Exchange
  PROVE  x[1] \in Node /\ x[2] \in Round /\ x[3] \in Node /\ x[1] # x[3]
  BY DEF Exchange

LEMMA AggregateType ==
  ASSUME NEW v \in Weights, NEW w \in Weights
  PROVE  Aggregate(v, w) \in Weights
  BY DEF Aggregate, Weights

LEMMA ReadersType == ASSUME NEW i PROVE Readers(i) \subseteq Thread
  BY DEF Readers, Thread

(***************************************************************************)
(* Type correctness.                                                       *)
(***************************************************************************)

LEMMA InitType == Init => TypeOK
  BY GossipAssumption, NoConnType
  DEF Init, TypeOK, Main, Weights

LEMMA SetWeightsType ==
  ASSUME TypeOK, NEW t, NEW i \in Node, NEW w \in Weights, SetWeights(t, i, w)
  PROVE  model' \in [Node -> Weights] /\ outdated' \subseteq Thread
  BY ReadersType DEF TypeOK, SetWeights

LEMMA LoopType ==
  ASSUME TypeOK, PeersAreOthers, NEW i \in Node, Loop(i)
  PROVE  TypeOK'
<1> USE DEF TypeOK
<1>1. main[i] \in Main
  OBVIOUS
<1>2. CASE Train(i)
  <2>1. main[i].round + 1 \in Round
    BY <1>1, <1>2, GossipAssumption DEF Train, Main, Round
  <2>2. main' \in [Node -> Main]
    BY <1>1, <1>2, <2>1 DEF Train, Main
  <2>3. model[i] \cup {<<i, main[i].round + 1>>} \in Weights
    BY <2>1 DEF Weights, Update
  <2>4. model' \in [Node -> Weights] /\ outdated' \subseteq Thread
    BY <1>2, <2>3, SetWeightsType DEF Train
  <2> QED BY <1>2, <2>2, <2>4 DEF Train
<1>3. CASE SelectPeers(i)
  <2>1. PICK S \in SUBSET (Node \ {i}) :
             main' = [main EXCEPT ![i].pc = "gossip", ![i].todo = S]
    BY <1>3 DEF SelectPeers
  <2>2. [main[i] EXCEPT !.pc = "gossip", !.todo = S] \in Main
    BY <1>1 DEF Main
  <2>3. main' \in [Node -> Main]
    BY <2>1, <2>2
  <2> QED BY <1>3, <2>3 DEF SelectPeers
<1>4. ASSUME NEW p \in Node, BeginExchange(i, p)
      PROVE  TypeOK'
  <2>1. main' \in [Node -> Main]
    BY <1>1, <1>4 DEF BeginExchange, Main
  <2>2. [NoConn EXCEPT !.st = "sent", !.cli = "open",
                       !.key = InitiatorKey(i, p), !.req = model[i]] \in Conn
    BY DEF NoConn, Conn, InitiatorKey, Weights
  <2>3. conn' \in [Exchange -> Conn]
    BY <1>4, <2>2 DEF BeginExchange
  <2> QED BY <1>4, <2>1, <2>3 DEF BeginExchange
<1>5. ASSUME NEW p \in Node, ConnectFails(i, p)
      PROVE  TypeOK'
  BY <1>1, <1>5 DEF ConnectFails, Main
<1>6. CASE ApplyResponse(i)
  <2>1. Current(i) \in Exchange
    BY <1>1, <1>6, ExchangeOf DEF ApplyResponse, PeersAreOthers, Current, Main
  <2>2. main' \in [Node -> Main]
    BY <1>1, <1>6 DEF ApplyResponse, Main, Weights
  <2>3. conn[Current(i)] \in Conn
    BY <2>1
  <2>4. Aggregate(main[i].base, conn[Current(i)].resp) \in Weights
    BY <1>1, <2>3, AggregateType DEF Main, Conn
  <2>5. model' \in [Node -> Weights] /\ outdated' \subseteq Thread
    BY <1>6, <2>4, SetWeightsType DEF ApplyResponse
  <2>6. [Closed(conn[Current(i)]) EXCEPT !.cli = "merged"] \in Conn
    BY <2>3, ClosedType DEF Conn
  <2>7. conn' \in [Exchange -> Conn]
    BY <1>6, <2>1, <2>6 DEF ApplyResponse
  <2> QED BY <1>6, <2>2, <2>5, <2>7 DEF ApplyResponse
<1>7. CASE ExchangeFails(i)
  <2>1. main' \in [Node -> Main]
    BY <1>1, <1>7 DEF ExchangeFails, Main, Weights
  <2>2. \A k \in Conn : [(IF k.st = "answered" THEN Closed(k) ELSE k)
                           EXCEPT !.cli = "failed"] \in Conn
    BY ClosedType DEF Conn
  <2>3. conn' \in [Exchange -> Conn]
    BY <1>7, <2>2 DEF ExchangeFails
  <2> QED BY <1>7, <2>1, <2>3 DEF ExchangeFails
<1>8. CASE EndRound(i)
  BY <1>1, <1>8 DEF EndRound, Main
<1> QED BY <1>2, <1>3, <1>4, <1>5, <1>6, <1>7, <1>8 DEF Loop

LEMMA HandlerType ==
  ASSUME TypeOK, NEW x \in Exchange, Handler(x)
  PROVE  TypeOK'
<1> USE DEF TypeOK
<1>1. conn[x] \in Conn /\ x[3] \in Node
  BY ExchangeParts
<1>2. model[x[3]] \in Weights
  BY <1>1
<1>3. CASE OpenRequest(x)
  BY <1>1, <1>3 DEF OpenRequest, Conn
<1>4. CASE CallbackRead(x)
  BY <1>1, <1>2, <1>4 DEF CallbackRead, Conn
<1>5. CASE CallbackWrite(x)
  <2>1. Aggregate(conn[x].base, conn[x].req) \in Weights
    BY <1>1, AggregateType DEF Conn
  <2>2. model' \in [Node -> Weights] /\ outdated' \subseteq Thread
    BY <1>1, <1>5, <2>1, SetWeightsType DEF CallbackWrite, MergeRequest
  <2>3. conn' \in [Exchange -> Conn]
    BY <1>1, <1>5 DEF CallbackWrite, MergeRequest, Conn
  <2> QED BY <1>5, <2>2, <2>3 DEF CallbackWrite
<1>6. CASE Reply(x)
  BY <1>1, <1>2, <1>6, ClosedType DEF Reply, Conn
<1>7. CASE HandlerDrops(x)
  BY <1>1, <1>7, ClosedType DEF HandlerDrops
<1> QED BY <1>3, <1>4, <1>5, <1>6, <1>7 DEF Handler

LEMMA CrashType ==
  ASSUME TypeOK, NEW i \in Node, Crash(i) \/ Restart(i)
  PROVE  TypeOK'
<1> USE DEF TypeOK
<1>1. CASE Crash(i)
  <2>0. [main[i] EXCEPT !.pc = "down", !.todo = {}, !.base = {}] \in Main
    <3>1. main[i] \in Main
      OBVIOUS
    <3> QED BY <3>1 DEF Main, Weights
  <2>1. main' \in [Node -> Main] /\ model' \in [Node -> Weights]
    BY <1>1, <2>0 DEF Crash, Weights
  <2>2. \A k \in Conn : /\ [k EXCEPT !.cli = "failed"] \in Conn
                        /\ [Closed(k) EXCEPT !.cli = "failed"] \in Conn
                        /\ [k EXCEPT !.cli = k.cli] \in Conn
                        /\ [Closed(k) EXCEPT !.cli = Closed(k).cli] \in Conn
    BY ClosedType DEF Conn
  <2>3. conn' \in [Exchange -> Conn]
    BY <1>1, <2>2, ClosedType DEF Crash
  <2>4. crashes' \in 0 .. MaxCrashes
    BY <1>1, GossipAssumption DEF Crash
  <2> QED BY <1>1, <2>1, <2>3, <2>4 DEF Crash
<1>2. CASE Restart(i)
  BY <1>2 DEF Restart, Main
<1> QED BY <1>1, <1>2

(***************************************************************************)
(* Who a loop contacts, and that it has one open connection.               *)
(***************************************************************************)

LEMMA PeersStep ==
  ASSUME TypeOK, PeersAreOthers, [Next]_vars
  PROVE  PeersAreOthers'
<1> USE DEF PeersAreOthers
<1> SUFFICES ASSUME NEW j \in Node
             PROVE  /\ main'[j].pc \in {"select", "gossip", "await"} => main'[j].round \in Round
                    /\ j \notin main'[j].todo
                    /\ main'[j].pc = "await" => main'[j].peer # j
  OBVIOUS
<1>1. main \in [Node -> Main] /\ main[j] \in Main
  BY DEF TypeOK
<1>2. CASE UNCHANGED vars
  BY <1>2 DEF vars
<1>3. ASSUME NEW i \in Node, Train(i)
      PROVE  main[i].round + 1 \in Round
  <2>1. main[i] \in Main
    BY <1>1
  <2> QED BY <1>3, <2>1, GossipAssumption DEF Train, Main, Round
<1>4. ASSUME NEW i \in Node, Loop(i) \/ Crash(i) \/ Restart(i)
      PROVE  /\ main'[j].pc \in {"select", "gossip", "await"} => main'[j].round \in Round
             /\ j \notin main'[j].todo
             /\ main'[j].pc = "await" => main'[j].peer # j
  <2>1. CASE Train(i)
    BY <1>1, <1>3, <2>1 DEF Train, Main
  <2>2. CASE SelectPeers(i)
    <3>1. PICK S \in SUBSET (Node \ {i}) :
               main' = [main EXCEPT ![i].pc = "gossip", ![i].todo = S]
      BY <2>2 DEF SelectPeers
    <3> QED BY <1>1, <2>2, <3>1 DEF SelectPeers, Main
  <2>3. ASSUME NEW p \in Node, BeginExchange(i, p) \/ ConnectFails(i, p)
        PROVE  /\ main'[j].pc \in {"select", "gossip", "await"} => main'[j].round \in Round
               /\ j \notin main'[j].todo
               /\ main'[j].pc = "await" => main'[j].peer # j
    <3>1. /\ main'[i].round = main[i].round /\ main'[i].todo \subseteq main[i].todo
          /\ main'[i].pc \in {"gossip", "await"} /\ main[i].pc = "gossip"
          /\ main'[i].pc = "await" => main'[i].peer = p /\ p \in main[i].todo
      BY <1>1, <2>3 DEF BeginExchange, ConnectFails, Main
    <3>2. j # i => main'[j] = main[j]
      BY <1>1, <2>3 DEF BeginExchange, ConnectFails
    <3> QED BY <3>1, <3>2
  <2>4. CASE ApplyResponse(i) \/ ExchangeFails(i) \/ EndRound(i)
    <3>1. /\ main'[i].round = main[i].round /\ main'[i].todo = main[i].todo
          /\ main'[i].pc \in {"gossip", "sleep"} /\ main[i].pc \in {"await", "gossip"}
      BY <1>1, <2>4 DEF ApplyResponse, ExchangeFails, EndRound, Main
    <3>2. j # i => main'[j] = main[j]
      BY <1>1, <2>4 DEF ApplyResponse, ExchangeFails, EndRound
    <3> QED BY <3>1, <3>2
  <2>5. CASE Crash(i) \/ Restart(i)
    <3>1. /\ main'[i].todo \subseteq main[i].todo
          /\ main'[i].pc \in {"down", "sleep"}
      BY <1>1, <2>5 DEF Crash, Restart, Main
    <3>2. j # i => main'[j] = main[j]
      BY <1>1, <2>5 DEF Crash, Restart
    <3> QED BY <3>1, <3>2
  <2> QED BY <1>4, <2>1, <2>2, <2>3, <2>4, <2>5 DEF Loop
<1>5. ASSUME NEW x \in Exchange, Handler(x)
      PROVE  main' = main
  BY <1>5 DEF Handler, OpenRequest, CallbackRead, CallbackWrite, MergeRequest, Reply,
        HandlerDrops
<1> QED BY <1>2, <1>4, <1>5 DEF Next, Finished

LEMMA OneOpenStep ==
  ASSUME TypeOK, PeersAreOthers, OneOpenConnection, [Next]_vars
  PROVE  OneOpenConnection'
<1> USE DEF OneOpenConnection
<1> SUFFICES ASSUME NEW y \in Exchange
             PROVE  conn'[y].cli = "open" <=>
                      (main'[y[1]].pc = "await" /\ y = Current(y[1])')
  OBVIOUS
<1> DEFINE Goal == conn'[y].cli = "open" <=>
                      (main'[y[1]].pc = "await" /\ y = Current(y[1])')
<1>1. /\ main \in [Node -> Main] /\ conn \in [Exchange -> Conn]
      /\ y[1] \in Node /\ y[3] \in Node /\ main[y[1]] \in Main /\ conn[y] \in Conn
  BY ExchangeParts DEF TypeOK
<1>2. CASE UNCHANGED vars
  BY <1>2 DEF vars, Current
<1>3. ASSUME NEW i \in Node, Loop(i)
      PROVE  Goal
  <2>1. CASE Train(i) \/ SelectPeers(i) \/ EndRound(i)
    <3>1. conn' = conn /\ main'[i].pc # "await" /\ main[i].pc # "await"
      BY <1>1, <2>1 DEF Train, SelectPeers, EndRound, Main
    <3>2. \A k \in Node : k # i => main'[k] = main[k]
      BY <1>1, <2>1 DEF Train, SelectPeers, EndRound
    <3> QED BY <1>1, <3>1, <3>2 DEF Current
  <2>2. ASSUME NEW p \in Node, BeginExchange(i, p)
        PROVE  Goal
    <3>1. i # p /\ main[i].round \in Round /\ main[i].pc = "gossip"
      BY <2>2 DEF BeginExchange, PeersAreOthers
    <3>2. <<i, main[i].round, p>> \in Exchange
      BY <3>1, ExchangeOf
    <3>3. conn' = [conn EXCEPT ![<<i, main[i].round, p>>] =
                     [NoConn EXCEPT !.st = "sent", !.cli = "open",
                                    !.key = InitiatorKey(i, p), !.req = model[i]]]
      BY <2>2 DEF BeginExchange
    <3>4. /\ main'[i].pc = "await" /\ Current(i)' = <<i, main[i].round, p>>
          /\ \A k \in Node : k # i => main'[k] = main[k]
      BY <1>1, <2>2 DEF BeginExchange, Current, Main
    <3>5. CASE y = <<i, main[i].round, p>>
      BY <1>1, <3>2, <3>3, <3>4, <3>5 DEF NoConn
    <3>6. CASE y # <<i, main[i].round, p>>
      BY <1>1, <3>1, <3>3, <3>4, <3>6 DEF Current
    <3> QED BY <3>5, <3>6
  <2>3. ASSUME NEW p \in Node, ConnectFails(i, p)
        PROVE  Goal
    BY <1>1, <2>3 DEF ConnectFails, Current, Main
  <2>4. CASE ApplyResponse(i) \/ ExchangeFails(i)
    <3>1. main[i].pc = "await" /\ Current(i) \in Exchange
      BY <1>1, <2>4, ExchangeOf
      DEF ApplyResponse, ExchangeFails, PeersAreOthers, Current, Main
    <3>2. /\ main'[i].pc = "gossip"
          /\ \A k \in Node : k # i => main'[k] = main[k]
      BY <1>1, <2>4 DEF ApplyResponse, ExchangeFails, Main
    <3>3. /\ conn'[Current(i)].cli # "open"
          /\ \A k \in Exchange : k # Current(i) => conn'[k] = conn[k]
      BY <1>1, <2>4, <3>1, ClosedType DEF ApplyResponse, ExchangeFails, Conn
    <3> QED BY <1>1, <3>1, <3>2, <3>3 DEF Current
  <2> QED BY <1>3, <2>1, <2>2, <2>3, <2>4 DEF Loop
<1>4. ASSUME NEW i \in Node, Crash(i)
      PROVE  Goal
  <2>1. /\ main'[i].pc = "down"
        /\ \A k \in Node : k # i => main'[k] = main[k]
    BY <1>1, <1>4 DEF Crash, Main
  <2>2. conn'[y].cli = IF y[1] = i /\ conn[y].cli = "open" THEN "failed" ELSE conn[y].cli
    BY <1>1, <1>4, ClosedType DEF Crash, Conn
  <2> QED BY <1>1, <2>1, <2>2 DEF Current
<1>5. ASSUME NEW i \in Node, Restart(i)
      PROVE  Goal
  BY <1>1, <1>5 DEF Restart, Current, Main
<1>6. ASSUME NEW x \in Exchange, Handler(x)
      PROVE  Goal
  <2>1. main' = main
    BY <1>6 DEF Handler, OpenRequest, CallbackRead, CallbackWrite, MergeRequest, Reply,
        HandlerDrops
  <2>2. conn'[y].cli = conn[y].cli
    BY <1>1, <1>6, ClosedType
    DEF Handler, OpenRequest, CallbackRead, CallbackWrite, MergeRequest, Reply, HandlerDrops, Conn
  <2> QED BY <2>1, <2>2 DEF Current
<1> QED BY <1>2, <1>3, <1>4, <1>5, <1>6 DEF Next, Finished

(***************************************************************************)
(* Copies of the weights.                                                  *)
(***************************************************************************)

(* When thread t writes, every copy it does not outdate is still the       *)
(* model: the copies of the node itself are all outdated, those of the     *)
(* other nodes are untouched.                                              *)
LEMMA SetWeightsFresh ==
  ASSUME TypeOK, FreshCopyIsModel, NEW t, NEW i \in Node, NEW w, SetWeights(t, i, w)
  PROVE  /\ \A j \in Node : j # t /\ main[j].pc = "await" /\ j \notin outdated'
                              => main[j].base = model'[j]
         /\ \A x \in Exchange : x # t /\ conn[x].st = "merging" /\ x \notin outdated'
                              => conn[x].base = model'[x[3]]
<1>1. /\ outdated \ {t} \subseteq outdated'
      /\ Readers(i) \ {t} \subseteq outdated'
      /\ \A j \in Node : j # i => model'[j] = model[j]
  BY DEF SetWeights, TypeOK
<1>2. ASSUME NEW j \in Node, j # t, main[j].pc = "await", j \notin outdated'
      PROVE  main[j].base = model'[j]
  <2>1. j # i
    BY <1>1, <1>2 DEF Readers
  <2> QED BY <1>1, <1>2, <2>1 DEF FreshCopyIsModel
<1>3. ASSUME NEW x \in Exchange, x # t, conn[x].st = "merging", x \notin outdated'
      PROVE  conn[x].base = model'[x[3]]
  <2>1. x[3] # i
    BY <1>1, <1>3 DEF Readers
  <2>2. x[3] \in Node
    BY ExchangeParts
  <2> QED BY <1>1, <1>3, <2>1, <2>2 DEF FreshCopyIsModel
<1> QED BY <1>2, <1>3

LEMMA FreshStep ==
  ASSUME TypeOK, PeersAreOthers, FreshCopyIsModel, [Next]_vars
  PROVE  FreshCopyIsModel'
<1>0. /\ main \in [Node -> Main] /\ conn \in [Exchange -> Conn]
      /\ model \in [Node -> Weights]
      /\ \A x \in Exchange : x[3] \in Node /\ x \notin Node
  BY ExchangeParts, ThreadAssumption DEF TypeOK
<1>1. CASE UNCHANGED vars
  BY <1>1 DEF vars, FreshCopyIsModel
<1>2. ASSUME NEW i \in Node, Loop(i)
      PROVE  FreshCopyIsModel'
  <2>1. CASE Train(i)
    <3>1. /\ main'[i].pc = "select" /\ main[i].pc = "sleep" /\ conn' = conn
          /\ \A j \in Node : j # i => main'[j] = main[j]
      BY <1>0, <2>1 DEF Train, Main
    <3>2. CASE UNCHANGED <<model, outdated>>
      BY <3>1, <3>2 DEF FreshCopyIsModel
    <3>3. CASE SetWeights(i, i, model[i] \cup {<<i, main[i].round + 1>>})
      BY <1>0, <3>1, <3>3, SetWeightsFresh DEF FreshCopyIsModel
    <3> QED BY <2>1, <3>2, <3>3 DEF Train
  <2>2. CASE SelectPeers(i) \/ EndRound(i) \/ \E p \in Node : ConnectFails(i, p)
    <3>1. /\ main'[i].pc # "await" /\ conn' = conn /\ model' = model
          /\ outdated' = outdated
          /\ \A j \in Node : j # i => main'[j] = main[j]
      BY <1>0, <2>2 DEF SelectPeers, EndRound, ConnectFails, Main
    <3> QED BY <3>1 DEF FreshCopyIsModel
  <2>3. ASSUME NEW p \in Node, BeginExchange(i, p)
        PROVE  FreshCopyIsModel'
    <3>1. /\ main'[i].base = model[i] /\ model' = model /\ outdated' = outdated \ {i}
          /\ \A j \in Node : j # i => main'[j] = main[j]
      BY <1>0, <2>3 DEF BeginExchange, Main
    <3>2. \A x \in Exchange : conn'[x].st = "merging" => conn'[x] = conn[x]
      BY <1>0, <2>3 DEF BeginExchange, NoConn
    <3> QED BY <1>0, <3>1, <3>2 DEF FreshCopyIsModel
  <2>4. CASE ApplyResponse(i)
    <3>1. /\ main'[i].pc = "gossip"
          /\ \A j \in Node : j # i => main'[j] = main[j]
      BY <1>0, <2>4 DEF ApplyResponse, Main
    <3>2. \A x \in Exchange : conn'[x].st = "merging" => conn'[x] = conn[x]
      BY <1>0, <2>4, ClosedType DEF ApplyResponse, Conn
    <3>3. SetWeights(i, i, Aggregate(main[i].base, conn[Current(i)].resp))
      BY <2>4 DEF ApplyResponse
    <3> QED BY <1>0, <3>1, <3>2, <3>3, SetWeightsFresh DEF FreshCopyIsModel
  <2>5. CASE ExchangeFails(i)
    <3>1. /\ main'[i].pc = "gossip" /\ model' = model /\ outdated' = outdated \ {i}
          /\ \A j \in Node : j # i => main'[j] = main[j]
      BY <1>0, <2>5 DEF ExchangeFails, Main
    <3>2. \A x \in Exchange : conn'[x].st = "merging" =>
             conn[x].st = "merging" /\ conn'[x].base = conn[x].base
      BY <1>0, <2>5, ClosedType DEF ExchangeFails, Conn
    <3> QED BY <1>0, <3>1, <3>2 DEF FreshCopyIsModel
  <2> QED BY <1>2, <2>1, <2>2, <2>3, <2>4, <2>5 DEF Loop
<1>3. ASSUME NEW i \in Node, Crash(i)
      PROVE  FreshCopyIsModel'
  <2>1. /\ main'[i].pc = "down"
        /\ \A j \in Node : j # i => main'[j] = main[j] /\ model'[j] = model[j]
    BY <1>0, <1>3 DEF Crash, Main
  <2>2. \A x \in Exchange : conn'[x].st = "merging" =>
           conn[x].st = "merging" /\ x[3] # i /\ conn'[x].base = conn[x].base
    BY <1>0, <1>3, ClosedType DEF Crash, Conn
  <2>3. /\ \A j \in Node : j # i /\ j \notin outdated' => j \notin outdated
        /\ \A x \in Exchange : x[3] # i /\ x \notin outdated' => x \notin outdated
    BY <1>0, <1>3 DEF Crash
  <2> QED BY <1>0, <2>1, <2>2, <2>3 DEF FreshCopyIsModel
<1>4. ASSUME NEW i \in Node, Restart(i)
      PROVE  FreshCopyIsModel'
  BY <1>0, <1>4 DEF Restart, FreshCopyIsModel, Main
<1>5. ASSUME NEW y \in Exchange, Handler(y)
      PROVE  FreshCopyIsModel'
  <2>1. main' = main
    BY <1>5 DEF Handler, OpenRequest, CallbackRead, CallbackWrite, MergeRequest, Reply,
        HandlerDrops
  <2>2. CASE OpenRequest(y) \/ Reply(y) \/ HandlerDrops(y)
    <3>1. /\ model' = model /\ outdated' = outdated
          /\ \A x \in Exchange : conn'[x].st = "merging" => conn'[x] = conn[x]
      BY <1>0, <2>2, ClosedType DEF OpenRequest, Reply, HandlerDrops, Conn
    <3> QED BY <2>1, <3>1 DEF FreshCopyIsModel
  <2>3. CASE CallbackRead(y)
    <3>1. /\ model' = model /\ outdated' = outdated
          /\ conn'[y].base = model[y[3]]
          /\ \A x \in Exchange : x # y => conn'[x] = conn[x]
      BY <1>0, <2>3 DEF CallbackRead, Conn
    <3> QED BY <2>1, <3>1 DEF FreshCopyIsModel
  <2>4. CASE CallbackWrite(y)
    <3>1. /\ conn'[y].st = "reply"
          /\ \A x \in Exchange : x # y => conn'[x] = conn[x]
      BY <1>0, <2>4 DEF CallbackWrite, MergeRequest, Conn
    <3>2. \A j \in Node : j # y
      BY <1>0
    <3>3. CASE SetWeights(y, y[3], Aggregate(conn[y].base, conn[y].req))
      BY <1>0, <2>1, <3>1, <3>2, <3>3, SetWeightsFresh DEF FreshCopyIsModel
    <3>4. CASE UNCHANGED model /\ outdated' = outdated \ {y}
      BY <1>0, <2>1, <3>1, <3>2, <3>4 DEF FreshCopyIsModel
    <3> QED BY <2>4, <3>3, <3>4 DEF CallbackWrite, MergeRequest
  <2> QED BY <1>5, <2>2, <2>3, <2>4 DEF Handler
<1> QED BY <1>1, <1>2, <1>3, <1>4, <1>5 DEF Next, Finished

(***************************************************************************)
(* Both sides of an exchange.                                              *)
(***************************************************************************)

LEMMA MergedStep ==
  ASSUME TypeOK, PeersAreOthers, MergedBeforeAnswer, BothUpdated, [Next]_vars
  PROVE  MergedBeforeAnswer' /\ BothUpdated'
<1> SUFFICES ASSUME NEW y \in Exchange, <<y[1], y[3]>> \notin Static, ~Garbling
             PROVE  /\ conn'[y].key = "ecies"
                    /\ conn'[y].st \in {"reply", "answered"} => conn'[y].merge # "none"
                    /\ conn'[y].cli = "merged" => conn'[y].merge # "none"
  BY DEF MergedBeforeAnswer, BothUpdated
<1> DEFINE Goal == /\ conn'[y].key = "ecies"
                   /\ conn'[y].st \in {"reply", "answered"} => conn'[y].merge # "none"
                   /\ conn'[y].cli = "merged" => conn'[y].merge # "none"
<1>0. /\ main \in [Node -> Main] /\ conn \in [Exchange -> Conn] /\ conn[y] \in Conn
      /\ conn[y].key = "ecies"
      /\ conn[y].st \in {"reply", "answered"} => conn[y].merge # "none"
      /\ conn[y].cli = "merged" => conn[y].merge # "none"
  BY DEF TypeOK, MergedBeforeAnswer, BothUpdated
<1>1. CASE UNCHANGED conn
  BY <1>0, <1>1
<1>2. ASSUME NEW i \in Node, NEW p \in Node, BeginExchange(i, p)
      PROVE  Goal
  <2>1. CASE y = <<i, main[i].round, p>>
    <3>1. InitiatorKey(i, p) = "ecies"
      BY <2>1 DEF InitiatorKey
    <3>2. conn'[y] = [NoConn EXCEPT !.st = "sent", !.cli = "open",
                                    !.key = InitiatorKey(i, p), !.req = model[i]]
      BY <1>0, <1>2, <2>1 DEF BeginExchange
    <3> QED BY <3>1, <3>2 DEF NoConn
  <2>2. CASE y # <<i, main[i].round, p>>
    <3>1. conn'[y] = conn[y]
      BY <1>0, <1>2, <2>2 DEF BeginExchange
    <3> QED BY <1>0, <3>1
  <2> QED BY <2>1, <2>2
<1>3. ASSUME NEW i \in Node, ApplyResponse(i) \/ ExchangeFails(i) \/ Crash(i)
      PROVE  Goal
  <2>1. /\ conn'[y].key = conn[y].key /\ conn'[y].merge = conn[y].merge
        /\ conn'[y].st \in {"reply", "answered"} => conn'[y].st = conn[y].st
        /\ conn'[y].cli = "merged" => conn[y].cli = "merged" \/ conn[y].st = "answered"
    BY <1>0, <1>3, ClosedType DEF ApplyResponse, ExchangeFails, Crash, Conn
  <2> QED BY <1>0, <2>1
<1>4. ASSUME NEW x \in Exchange, Handler(x)
      PROVE  Goal
  <2>1. CASE x # y
    <3>1. conn'[y] = conn[y]
      BY <1>0, <1>4, <2>1
      DEF Handler, OpenRequest, CallbackRead, CallbackWrite, MergeRequest, Reply,
        HandlerDrops
    <3> QED BY <1>0, <3>1
  <2>2. CASE x = y
    <3>1. CASE OpenRequest(y)
      BY <1>0, <3>1 DEF OpenRequest, HandlerKey, Conn
    <3>2. CASE CallbackRead(y) \/ CallbackWrite(y)
      BY <1>0, <3>2 DEF CallbackRead, CallbackWrite, MergeRequest, Conn
    <3>3. CASE Reply(y) \/ HandlerDrops(y)
      BY <1>0, <3>3, ClosedType DEF Reply, HandlerDrops, Conn
    <3> QED BY <1>4, <2>2, <3>1, <3>2, <3>3 DEF Handler
  <2> QED BY <2>1, <2>2
<1>5. ASSUME NEW i \in Node,
             \/ Train(i) \/ SelectPeers(i) \/ EndRound(i) \/ Restart(i)
             \/ \E p \in Node : ConnectFails(i, p)
      PROVE  UNCHANGED conn
  BY <1>5 DEF Train, SelectPeers, EndRound, Restart, ConnectFails
<1> QED BY <1>1, <1>2, <1>3, <1>4, <1>5 DEF Next, Loop, Finished, vars

(***************************************************************************)
(* The theorems.                                                           *)
(***************************************************************************)

LEMMA InitIInv == Init => IInv
<1> SUFFICES ASSUME Init PROVE IInv
  OBVIOUS
<1>1. TypeOK
  BY InitType
<1>2. \A x \in Exchange : conn[x] = NoConn
  BY DEF Init
<1>3. \A i \in Node : main[i].pc = "sleep" /\ main[i].todo = {}
  BY DEF Init
<1>4. PeersAreOthers
  BY <1>3 DEF PeersAreOthers
<1>5. OneOpenConnection
  BY <1>2, <1>3, ExchangeParts DEF OneOpenConnection, NoConn
<1>6. FreshCopyIsModel
  BY <1>2, <1>3 DEF FreshCopyIsModel, NoConn
<1>7. MergedBeforeAnswer /\ BothUpdated
  BY <1>2 DEF MergedBeforeAnswer, BothUpdated, NoConn
<1> QED BY <1>1, <1>4, <1>5, <1>6, <1>7 DEF IInv

LEMMA StepIInv == IInv /\ [Next]_vars => IInv'
<1> SUFFICES ASSUME IInv, [Next]_vars PROVE IInv'
  OBVIOUS
<1> USE DEF IInv
<1>1. TypeOK'
  <2>1. CASE UNCHANGED vars
    BY <2>1 DEF vars, TypeOK
  <2> QED BY <2>1, LoopType, HandlerType, CrashType DEF Next, Finished
<1> QED BY <1>1, PeersStep, OneOpenStep, FreshStep, MergedStep

(* The inductive invariant holds in every reachable state.                 *)
THEOREM Invariance == Spec => []IInv
  BY InitIInv, StepIInv, PTL DEF Spec

(* Every variable keeps its type: no thread ever leaves a half-built       *)
(* connection record, a peer that is not a node, or weights that are not   *)
(* contributions of real rounds.                                           *)
THEOREM TypeCorrect == Spec => []TypeOK
<1>1. IInv => TypeOK
  BY DEF IInv
<1> QED BY <1>1, Invariance, PTL

(* The initiator of an exchange between nodes that know each other's keys  *)
(* merges an answer only after its peer has merged the request or its      *)
(* merge has raised an exception (controller.py:283).                      *)
THEOREM BothUpdatedHolds == Spec => []BothUpdated
<1>1. IInv => BothUpdated
  BY DEF IInv
<1> QED BY <1>1, Invariance, PTL

(* A loop has one open socket while it waits and none otherwise.           *)
THEOREM OneOpenConnectionHolds == Spec => []OneOpenConnection
<1>1. IInv => OneOpenConnection
  BY DEF IInv
<1> QED BY <1>1, Invariance, PTL

(* A copy of the weights no other thread has overwritten is the model.     *)
THEOREM FreshCopyHolds == Spec => []FreshCopyIsModel
<1>1. IInv => FreshCopyIsModel
  BY DEF IInv
<1> QED BY <1>1, Invariance, PTL

(* A merge of a copy nobody has overwritten only adds to the model.        *)
LEMMA LossStep ==
  ASSUME IInv, [Next]_vars, NEW i \in Node
  PROVE  \/ model[i] \subseteq model'[i]
         \/ main'[i].pc = "down"
         \/ \E t \in Readers(i) : t \in outdated /\ t \notin outdated'
<1> DEFINE Goal == \/ model[i] \subseteq model'[i]
                   \/ main'[i].pc = "down"
                   \/ \E t \in Readers(i) : t \in outdated /\ t \notin outdated'
<1>0. /\ main \in [Node -> Main] /\ conn \in [Exchange -> Conn]
      /\ model \in [Node -> Weights]
  BY DEF IInv, TypeOK
<1>1. CASE model' = model
  BY <1>1
<1>2. ASSUME NEW j \in Node, Train(j)
      PROVE  Goal
  BY <1>0, <1>2 DEF Train, SetWeights
<1>3. ASSUME NEW j \in Node, ApplyResponse(j)
      PROVE  Goal
  <2>1. CASE j # i
    BY <1>0, <1>3, <2>1 DEF ApplyResponse, SetWeights
  <2>2. CASE j = i /\ i \notin outdated
    <3>1. main[i].base = model[i]
      BY <1>3, <2>2 DEF ApplyResponse, IInv, FreshCopyIsModel
    <3> QED BY <1>0, <1>3, <2>2, <3>1 DEF ApplyResponse, SetWeights, Aggregate
  <2>3. CASE j = i /\ i \in outdated
    <3>1. i \in Readers(i) /\ i \notin outdated'
      BY <1>3, <2>3 DEF ApplyResponse, SetWeights, Readers
    <3> QED BY <2>3, <3>1
  <2> QED BY <2>1, <2>2, <2>3
<1>4. ASSUME NEW j \in Node, Crash(j)
      PROVE  Goal
  BY <1>0, <1>4 DEF Crash, Main
<1>5. ASSUME NEW x \in Exchange, CallbackWrite(x)
      PROVE  Goal
  <2>0. CASE UNCHANGED model
    BY <2>0
  <2> SUFFICES ASSUME SetWeights(x, x[3], Aggregate(conn[x].base, conn[x].req))
               PROVE  Goal
    BY <1>5, <2>0 DEF CallbackWrite, MergeRequest
  <2>1. CASE x[3] # i
    BY <1>0, <2>1 DEF SetWeights
  <2>2. CASE x[3] = i /\ x \notin outdated
    <3>1. conn[x].base = model[i]
      BY <1>5, <2>2 DEF CallbackWrite, IInv, FreshCopyIsModel
    <3> QED BY <1>0, <2>2, <3>1 DEF SetWeights, Aggregate
  <2>3. CASE x[3] = i /\ x \in outdated
    <3>1. x \in Readers(i) /\ x \notin outdated'
      BY <1>5, <2>3 DEF CallbackWrite, SetWeights, Readers
    <3> QED BY <2>3, <3>1
  <2> QED BY <2>1, <2>2, <2>3
<1>6. \/ model' = model
      \/ \E j \in Node : Train(j) \/ ApplyResponse(j) \/ Crash(j)
      \/ \E x \in Exchange : CallbackWrite(x)
  <2>1. ASSUME NEW j \in Node, Loop(j)
        PROVE  model' = model \/ Train(j) \/ ApplyResponse(j)
    BY <2>1 DEF Loop, SelectPeers, BeginExchange, ConnectFails, ExchangeFails, EndRound
  <2>2. ASSUME NEW x \in Exchange, Handler(x)
        PROVE  model' = model \/ CallbackWrite(x)
    BY <2>2 DEF Handler, OpenRequest, CallbackRead, Reply, HandlerDrops
  <2>3. ASSUME NEW j \in Node, Restart(j) PROVE model' = model
    BY <2>3 DEF Restart
  <2>4. Finished \/ UNCHANGED vars => model' = model
    BY DEF Finished, vars
  <2> QED BY <2>1, <2>2, <2>3, <2>4 DEF Next
<1> QED BY <1>1, <1>2, <1>3, <1>4, <1>5, <1>6

(* A node loses contributions only by writing back a merge of a copy that  *)
(* another of its threads has overwritten: without overlapping merges the  *)
(* gossip protocol is loss-free.                                           *)
THEOREM LossNeedsOverlapHolds == Spec => LossNeedsOverlap
<1>1. IInv /\ [Next]_vars =>
        [\A i \in Node :
           \/ model[i] \subseteq model'[i]
           \/ main'[i].pc = "down"
           \/ \E t \in Readers(i) : t \in outdated /\ t \notin outdated']_vars
  BY LossStep
<1> QED BY <1>1, Invariance, PTL DEF Spec, LossNeedsOverlap

=============================================================================
