--------------------------- MODULE GossipExchange ---------------------------
(***************************************************************************)
(* The gossip exchange of a BloomFL node: the learning loop that trains    *)
(* and initiates exchanges (node/controller.py, gossip/engine.py), the     *)
(* connection threads that answer the exchanges of other nodes             *)
(* (IncomingHandlerV2, _on_gossip_received) and the one-request,           *)
(* one-response TCP connection between them (transport/tcp_transport.py).  *)
(*                                                                         *)
(* A node has one learning-loop thread and one thread per accepted         *)
(* connection.  All of them read and write the same model, and no lock     *)
(* protects it: a thread that merges copies the weights (get_weights),     *)
(* aggregates, and copies the result back (set_weights).                   *)
(*                                                                         *)
(* Abstractions.  Weights are the set of local training updates they       *)
(* reflect: training in round r of node i adds the update <<i, r>>, and    *)
(* every aggregation strategy combines the contributions of both sides.    *)
(* The schedule (train or not, gossip or not) is any schedule, which       *)
(* covers every decision of AdaptationManager.  Round numbers keep         *)
(* counting across a restart so that <<i, r, p>> names one exchange.       *)
(***************************************************************************)
EXTENDS Naturals, FiniteSets

CONSTANTS
  Node,        \* the nodes
  Static,      \* pairs <<i, p>>: i knows p only as a configured address,
               \* so its PeerInfo of p carries no identity key
  FanOut,      \* gossip_fan_out
  MaxRounds,   \* bound: MaxRounds[i] learning rounds of node i
  MaxCrashes,  \* bound: process crashes, all nodes together
  Garbling     \* may a frame arrive altered or fail to decode?

ASSUME GossipAssumption ==
  /\ Static \subseteq Node \X Node
  /\ FanOut \in Nat \ {0}
  /\ MaxRounds \in [Node -> Nat]
  /\ MaxCrashes \in Nat
  /\ Garbling \in BOOLEAN

Round    == UNION { 1 .. MaxRounds[i] : i \in Node }
Update   == Node \X Round
Weights  == SUBSET Update
Exchange == { x \in Node \X Round \X Node : x[1] # x[3] }  \* initiator, round, peer
Thread   == Node \cup Exchange     \* a learning loop, or the handler of an exchange

ASSUME ThreadAssumption == Node \cap Exchange = {}

VARIABLES
  model,     \* model[i]: the weights of node i
  main,      \* main[i]: the learning-loop thread of node i
  conn,      \* conn[x]: the connection of exchange x, with its handler thread
  crashes,   \* number of crashes so far
  outdated   \* history: the threads whose snapshot another thread overwrote

vars == <<model, main, conn, crashes, outdated>>

Main == [pc    : {"sleep", "select", "gossip", "await", "down"},
         round : {0} \cup Round,
         todo  : SUBSET Node,       \* selected peers not yet contacted
         peer  : Node,              \* the peer of the current exchange
         base  : Weights]           \* current_weights of the current exchange

Conn == [st   : {"none", "sent", "opened", "merging", "reply", "answered", "closed"},
         cli  : {"none", "open", "merged", "failed"},   \* the initiator's end
         key  : {"ecies", "psk"},   \* the key the initiator encrypted with
         req  : Weights,            \* weights in the request
         base : Weights,            \* current_weights of the handler's callback
         resp : Weights,            \* weights in the response
         merge : {"none", "applied", "raised"}]  \* what the callback came to

NoConn == [st |-> "none", cli |-> "none", key |-> "ecies", req |-> {},
           base |-> {}, resp |-> {}, merge |-> "none"]

TypeOK ==
  /\ model \in [Node -> Weights]
  /\ main \in [Node -> Main]
  /\ conn \in [Exchange -> Conn]
  /\ crashes \in 0 .. MaxCrashes
  /\ outdated \subseteq Thread

Init ==
  /\ model = [i \in Node |-> {}]
  /\ main = [i \in Node |-> [pc |-> "sleep", round |-> 0, todo |-> {},
                             peer |-> i, base |-> {}]]
  /\ conn = [x \in Exchange |-> NoConn]
  /\ crashes = 0
  /\ outdated = {}

-----------------------------------------------------------------------------
(* Helpers.                                                                *)

(* The weights a connection carried are gone with it.                      *)
Closed(c) == [c EXCEPT !.st = "closed", !.req = {}, !.base = {}, !.resp = {}]

Current(i) == <<i, main[i].round, main[i].peer>>

(* Mutations of Aggregate: the peer's weights replace the local ones; the  *)
(* peer's updates are taken for those of the next round.                   *)
AggregateReplaces(local, peer) == peer
AggregateAhead(local, peer) == local \cup { <<u[1], u[2] + 1>> : u \in peer }

(* aggregate(): all strategies mix the local and the peer weights.         *)
Aggregate(local, peer) == local \cup peer

(* Mutation of HandlerKey: make_incoming_handler without the key manager.  *)
HandlerKeyWithoutManager(p) == "psk"

(* The key the initiator encrypts with, and the one the server decrypts    *)
(* with: NodeController always creates a KeyManager, so the handler always *)
(* takes the ECIES branch.                                                 *)
InitiatorKey(i, p) == IF <<i, p>> \in Static THEN "psk" ELSE "ecies"
HandlerKey(p) == "ecies"

(* The threads of node i that hold a copy of its weights they will merge   *)
(* into and write back.                                                    *)
Readers(i) == { t \in Node : t = i /\ main[t].pc = "await" }
              \cup { x \in Exchange : x[3] = i /\ conn[x].st = "merging" }

(* Thread t sets the weights of node i: the copies the other threads of    *)
(* the node hold are outdated from here on, its own is used up.            *)
SetWeights(t, i, w) ==
  /\ model' = [model EXCEPT ![i] = w]
  /\ outdated' = (outdated \cup Readers(i)) \ {t}

-----------------------------------------------------------------------------
(* The learning loop (NodeController._run_round).                          *)

(* A new round: monitors, schedule, and local training unless the schedule *)
(* has no epochs.  Training updates the parameters in place.               *)
Train(i) ==
  /\ main[i].pc = "sleep"
  /\ main[i].round < MaxRounds[i]
  /\ main' = [main EXCEPT ![i].pc = "select", ![i].round = @ + 1]
  /\ \/ SetWeights(i, i, model[i] \cup {<<i, main[i].round + 1>>})
     \/ UNCHANGED <<model, outdated>>
  /\ UNCHANGED <<conn, crashes>>

(* Peer selection: nobody when gossip is disabled or no peer is known,     *)
(* otherwise min(fan_out, #known) of the known peers.  Discovery may know  *)
(* any of the other nodes, so any set of at most FanOut of them is drawn.  *)
SelectPeers(i) ==
  /\ main[i].pc = "select"
  /\ \E S \in SUBSET (Node \ {i}) :
       /\ Cardinality(S) <= FanOut
       /\ main' = [main EXCEPT ![i].pc = "gossip", ![i].todo = S]
  /\ UNCHANGED <<model, conn, crashes, outdated>>

(* run_round up to the sent request: copy the weights, encrypt them,       *)
(* connect, send.                                                          *)
BeginExchange(i, p) ==
  LET x == <<i, main[i].round, p>> IN
  /\ main[i].pc = "gossip"
  /\ p \in main[i].todo
  /\ main[p].pc # "down"
  /\ main' = [main EXCEPT ![i].pc = "await", ![i].peer = p,
                          ![i].todo = @ \ {p}, ![i].base = model[i]]
  /\ conn' = [conn EXCEPT ![x] = [NoConn EXCEPT !.st = "sent", !.cli = "open",
                                                !.key = InitiatorKey(i, p),
                                                !.req = model[i]]]
  /\ outdated' = outdated \ {i}
  /\ UNCHANGED <<model, crashes>>

(* send_parameters cannot connect or send: a TransportError, and the next  *)
(* selected peer is tried.                                                 *)
ConnectFails(i, p) ==
  /\ main[i].pc = "gossip"
  /\ p \in main[i].todo
  /\ main' = [main EXCEPT ![i].todo = @ \ {p}]
  /\ UNCHANGED <<model, conn, crashes, outdated>>

(* A decoded response: aggregate with the copy taken before the request    *)
(* and set the merged weights.                                             *)
ApplyResponse(i) ==
  LET x == Current(i) IN
  /\ main[i].pc = "await"
  /\ conn[x].st = "answered"
  /\ SetWeights(i, i, Aggregate(main[i].base, conn[x].resp))
  /\ main' = [main EXCEPT ![i].pc = "gossip", ![i].base = {}]
  /\ conn' = [conn EXCEPT ![x] = [Closed(@) EXCEPT !.cli = "merged"]]
  /\ UNCHANGED crashes

(* Mutation of ExchangeFails: only an answer that has arrived ends it.     *)
ExchangeFailsOnAnswerOnly(i) ==
  LET x == Current(i) IN
  /\ main[i].pc = "await"
  /\ conn[x].st = "answered"
  /\ main' = [main EXCEPT ![i].pc = "gossip", ![i].base = {}]
  /\ conn' = [conn EXCEPT ![x] = [Closed(@) EXCEPT !.cli = "failed"]]
  /\ outdated' = outdated \ {i}
  /\ UNCHANGED <<model, crashes>>

(* The exchange fails on the initiator's side: its timeout expires, the    *)
(* server hangs up, the response cannot be decrypted, verified or decoded, *)
(* or aggregating it raises, which the round catches.  The socket is       *)
(* closed and the model is left alone.                                     *)
ExchangeFails(i) ==
  LET x == Current(i) IN
  /\ main[i].pc = "await"
  /\ main' = [main EXCEPT ![i].pc = "gossip", ![i].base = {}]
  /\ conn' = [conn EXCEPT ![x] = [(IF @.st = "answered" THEN Closed(@) ELSE @)
                                     EXCEPT !.cli = "failed"]]
  /\ outdated' = outdated \ {i}
  /\ UNCHANGED <<model, crashes>>

(* All selected peers tried: evaluation, metrics, and the interval sleep.  *)
EndRound(i) ==
  /\ main[i].pc = "gossip"
  /\ main[i].todo = {}
  /\ main' = [main EXCEPT ![i].pc = "sleep"]
  /\ UNCHANGED <<model, conn, crashes, outdated>>

-----------------------------------------------------------------------------
(* The connection thread of exchange x at its peer                         *)
(* (_handle_connection, IncomingHandlerV2.__call__).                       *)

(* Read the request, derive the key, decrypt, compare the hash.  A request *)
(* that fails any of it skips the callback and is answered all the same.   *)
OpenRequest(x) ==
  /\ conn[x].st = "sent"
  /\ \/ /\ conn[x].key = HandlerKey(x[3])
        /\ conn' = [conn EXCEPT ![x].st = "opened"]
     \/ /\ conn[x].key # HandlerKey(x[3]) \/ Garbling
        /\ conn' = [conn EXCEPT ![x].st = "reply"]
  /\ UNCHANGED <<model, main, crashes, outdated>>

(* _on_gossip_received, first half: copy the current weights.              *)
CallbackRead(x) ==
  /\ conn[x].st = "opened"
  /\ conn' = [conn EXCEPT ![x].st = "merging", ![x].base = model[x[3]]]
  /\ UNCHANGED <<model, main, crashes, outdated>>

(* _on_gossip_received, second half: aggregate and set, or an exception of *)
(* either (no samples on both sides, another number of tensors), which is  *)
(* logged and swallowed before a tensor is written.  The request is        *)
(* answered both ways.                                                     *)
MergeRequest(x) ==
  \/ /\ SetWeights(x, x[3], Aggregate(conn[x].base, conn[x].req))
     /\ conn' = [conn EXCEPT ![x].st = "reply", ![x].merge = "applied"]
  \/ /\ conn' = [conn EXCEPT ![x].st = "reply", ![x].merge = "raised"]
     /\ outdated' = outdated \ {x}
     /\ UNCHANGED model

(* Mutation of CallbackWrite: it waits for an initiator still connected.   *)
CallbackWriteWaits(x) ==
  /\ conn[x].st = "merging"
  /\ conn[x].cli = "open"
  /\ MergeRequest(x)
  /\ UNCHANGED <<main, crashes>>

CallbackWrite(x) ==
  /\ conn[x].st = "merging"
  /\ MergeRequest(x)
  /\ UNCHANGED <<main, crashes>>

(* Copy the weights again, encrypt and send the response.  The send fails  *)
(* when the initiator has closed its end.                                  *)
Reply(x) ==
  /\ conn[x].st = "reply"
  /\ conn' = IF conn[x].cli = "open"
             THEN [conn EXCEPT ![x].st = "answered", ![x].resp = model[x[3]]]
             ELSE [conn EXCEPT ![x] = Closed(@)]
  /\ UNCHANGED <<model, main, crashes, outdated>>

(* The request never comes through: the receive fails or times out, the    *)
(* frame is not decodable, or sending the response fails.                  *)
HandlerDrops(x) ==
  /\ conn[x].st \in {"sent", "reply"}
  /\ conn' = [conn EXCEPT ![x] = Closed(@)]
  /\ UNCHANGED <<model, main, crashes, outdated>>

-----------------------------------------------------------------------------
(* The process of node i dies and is started again with fresh weights.     *)
(* Its sockets are closed: the exchanges it was serving end without an     *)
(* answer, those it had initiated are abandoned.                           *)
Crash(i) ==
  /\ main[i].pc # "down"
  /\ crashes < MaxCrashes
  /\ crashes' = crashes + 1
  /\ model' = [model EXCEPT ![i] = {}]
  /\ main' = [main EXCEPT ![i].pc = "down", ![i].todo = {}, ![i].base = {}]
  /\ conn' = [x \in Exchange |->
       [(IF \/ x[3] = i /\ conn[x].st \in {"sent", "opened", "merging", "reply"}
            \/ x[1] = i /\ conn[x].st = "answered"
           THEN Closed(conn[x]) ELSE conn[x])
        EXCEPT !.cli = IF x[1] = i /\ @ = "open" THEN "failed" ELSE @]]
  /\ outdated' = outdated \ ({i} \cup { x \in Exchange : x[3] = i })

Restart(i) ==
  /\ main[i].pc = "down"
  /\ main' = [main EXCEPT ![i].pc = "sleep"]
  /\ UNCHANGED <<model, conn, crashes, outdated>>

(* Every loop has used up its rounds and every connection is closed.       *)
Finished ==
  /\ \A i \in Node : main[i].pc = "sleep" /\ main[i].round = MaxRounds[i]
  /\ \A x \in Exchange : conn[x].st \in {"none", "closed"}
  /\ UNCHANGED vars

-----------------------------------------------------------------------------
Loop(i) ==
  \/ Train(i)
  \/ SelectPeers(i)
  \/ \E p \in Node : BeginExchange(i, p) \/ ConnectFails(i, p)
  \/ ApplyResponse(i)
  \/ ExchangeFails(i)
  \/ EndRound(i)

Handler(x) ==
  \/ OpenRequest(x)
  \/ CallbackRead(x)
  \/ CallbackWrite(x)
  \/ Reply(x)
  \/ HandlerDrops(x)

Next ==
  \/ \E i \in Node : Loop(i) \/ Crash(i) \/ Restart(i)
  \/ \E x \in Exchange : Handler(x)
  \/ Finished

Spec == Init /\ [][Next]_vars

(* Every thread of a running process is scheduled, and every blocking call *)
(* of both threads has a timeout (gossip_timeout, conn.settimeout).        *)
(* Nothing obliges a process to crash or to be restarted.                  *)
Fairness ==
  /\ \A i \in Node : WF_vars(Loop(i))
  /\ \A x \in Exchange : WF_vars(Handler(x))

FairSpec == Spec /\ Fairness
-----------------------------------------------------------------------------
(* Properties.                                                             *)

(* "Model A trains, gossips with B, both models updated", as far as it is  *)
(* true: when both sides use the identity key and frames arrive intact, an *)
(* initiator merges an answer only of a peer that has merged its request   *)
(* or whose merge raised an exception.  The initiator cannot tell the two  *)
(* apart; every other way for one side alone to be updated - a wrong key,  *)
(* a request skipped before the callback, a crash in the callback, a late  *)
(* answer of an earlier exchange - is excluded.                            *)
BothUpdated ==
  \A x \in Exchange :
    conn[x].cli = "merged" /\ <<x[1], x[3]>> \notin Static /\ ~Garbling
      => conn[x].merge # "none"

(* A learning loop waits on exactly the one connection it has open: no     *)
(* timeout, failure or crash leaves behind a socket on which a late answer *)
(* could still be taken for the answer of a later exchange.                *)
OneOpenConnection ==
  \A x \in Exchange :
    conn[x].cli = "open" <=> (main[x[1]].pc = "await" /\ x = Current(x[1]))

(* A copy of the weights that no other thread of the node has written over *)
(* since is the model: the learning loop and the connection threads change *)
(* the weights nowhere but in set_weights and in training.                 *)
FreshCopyIsModel ==
  /\ \A i \in Node :
       main[i].pc = "await" /\ i \notin outdated => main[i].base = model[i]
  /\ \A x \in Exchange :
       conn[x].st = "merging" /\ x \notin outdated => conn[x].base = model[x[3]]

(* A node loses a contribution only when a thread writes back a merge of a *)
(* copy that another of its threads has overwritten meanwhile: neither a   *)
(* failed exchange, nor a second peer of the same round, nor an answer to  *)
(* another node costs it anything by itself.                               *)
LossNeedsOverlap ==
  [][\A i \in Node :
       \/ model[i] \subseteq model'[i]
       \/ main'[i].pc = "down"
       \/ \E t \in Readers(i) : t \in outdated /\ t \notin outdated']_vars

(* What the proofs need beyond the properties above.  A loop past the      *)
(* start of a round has a round number and only contacts other nodes; an   *)
(* undamaged request under the identity key reaches the merge before it is *)
(* answered.                                                               *)
PeersAreOthers ==
  \A i \in Node :
    /\ main[i].pc \in {"select", "gossip", "await"} => main[i].round \in Round
    /\ i \notin main[i].todo
    /\ main[i].pc = "await" => main[i].peer # i

MergedBeforeAnswer ==
  \A x \in Exchange : <<x[1], x[3]>> \notin Static /\ ~Garbling =>
    /\ conn[x].key = "ecies"
    /\ conn[x].st \in {"reply", "answered"} => conn[x].merge # "none"

IInv ==
  /\ TypeOK
  /\ PeersAreOthers
  /\ OneOpenConnection
  /\ FreshCopyIsModel
  /\ MergedBeforeAnswer
  /\ BothUpdated

(* "Triggers server-side aggregation so the server also benefits from the  *)
(* exchange" (gossip/engine.py:34): applying the answer to its own request *)
(* does not take away what the node's connection threads have merged.      *)
ServerMergeKept ==
  [][\A i \in Node : ApplyResponse(i) => model[i] \subseteq model'[i]]_vars

(* "Both parties compute the same K_psk independently" (gossip/engine.py): *)
(* the handler of an exchange decrypts with the key the initiator used.    *)
SameSessionKey ==
  \A x \in Exchange : conn[x].st # "none" => conn[x].key = HandlerKey(x[3])

(* No learning loop is blocked for good by an exchange, whatever the peers *)
(* do - two nodes that gossip with each other at the same time, a peer     *)
(* that is itself waiting, a peer that dies.                               *)
LoopNeverStuck ==
  \A i \in Node : <>[](main[i].pc = "down" \/
                       (main[i].pc = "sleep" /\ main[i].round = MaxRounds[i]))

(* Every accepted connection is closed again, also when its initiator has  *)
(* given up: connection threads do not accumulate.                         *)
HandlersEnd ==
  \A x \in Exchange : conn[x].st = "sent" ~> conn[x].st = "closed"
=============================================================================
