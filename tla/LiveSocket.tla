----------------------------- MODULE LiveSocket -----------------------------
(***************************************************************************)
(* One page's use of useWebSocket (frontend/src/hooks/useWebSocket.ts),    *)
(* the connections it opens over time, the server's endpoint of each       *)
(* (api/main.py) and the connection manager that broadcasts to them        *)
(* (api/websocket/manager.py).                                             *)
(*                                                                         *)
(* A connection keeps the handler it was opened with, because onmessage    *)
(* and the reconnect timer are closures over it.  When the page passes     *)
(* another handler, the hook closes its connection and opens a new one;    *)
(* the close event of the old one comes later.                             *)
(*                                                                         *)
(* Abstractions.  The back-off delay and its counter are left out: a       *)
(* pending timer fires at any time.  onerror is followed by onclose.       *)
(***************************************************************************)
EXTENDS Integers, Sequences, FiniteSets

CONSTANTS
  MaxSockets,    \* bound: connections that exist at a time
  MaxEvents,     \* bound: lost connections and changes of the handler
  Handler,       \* the handlers a page passes to the hook
  Message        \* what is broadcast

ASSUME SocketAssumption ==
  /\ MaxSockets \in Nat \ {0}
  /\ MaxEvents \in Nat

Socket == 1 .. MaxSockets
None   == 0                 \* no socket

VARIABLES
  sock,      \* the two ends of each connection
  timer,     \* the closed sockets whose reconnect timer is pending
  hook,      \* the refs and the state of the hook, and its handler
  channel,   \* ConnectionManager._connections of the channel
  cast,      \* the broadcast in progress
  changes,   \* number of handler changes
  events     \* number of events that are bounded

socketVars == <<sock, timer, hook, channel, cast, changes, events>>

Connection == [client  : {"none", "connecting", "open", "closing", "closed"},
               server  : {"none", "accepting", "member", "over"},
               handler : Handler,
               inbox   : Seq(Message)]

Hook == [mounted : BOOLEAN, handler : Handler, ref : {None} \cup Socket,
         retry : {None} \cup Socket, status : {"connecting", "connected", "disconnected"}]

Cast == [msg : Message, left : SUBSET Socket, dead : SUBSET Socket]

SocketTypeOK ==
  /\ sock \in [Socket -> Connection]
  /\ timer \subseteq Socket
  /\ hook \in Hook
  /\ channel \subseteq Socket
  /\ cast \in {<<>>} \cup { <<c>> : c \in Cast }
  /\ events \in 0 .. MaxEvents
  /\ changes \in 0 .. events

Connecting(h) == [client |-> "connecting", server |-> "none", handler |-> h, inbox |-> <<>>]
Unused(h)     == [client |-> "none", server |-> "none", handler |-> h, inbox |-> <<>>]

(* The page is mounted with handler h and connects.                        *)
SocketInit(h) ==
  /\ sock = [s \in Socket |-> IF s = 1 THEN Connecting(h) ELSE Unused(h)]
  /\ timer = {}
  /\ hook = [mounted |-> TRUE, handler |-> h, ref |-> 1, retry |-> None,
             status |-> "connecting"]
  /\ channel = {}
  /\ cast = <<>>
  /\ changes = 0
  /\ events = 0

Event == events < MaxEvents /\ events' = events + 1

-----------------------------------------------------------------------------
(* The hook.                                                               *)

(* The number of a connection is used again when nothing refers to it.     *)
Free(s) ==
  /\ \/ sock[s].client = "none"
     \/ sock[s].client = "closed" /\ sock[s].server \in {"none", "over"}
  /\ s \notin channel
  /\ cast # <<>> => s \notin cast[1].left \cup cast[1].dead

(* wsRef.current?.close()                                                  *)
RefClosed ==
  IF hook.ref # None /\ sock[hook.ref].client \in {"connecting", "open"}
  THEN [sock EXCEPT ![hook.ref].client = "closing"]
  ELSE sock

(* connect() of the closure over handler h, when the sockets are sk and    *)
(* the page passes handler page.                                           *)
Connect(h, sk, page) ==
  \E s \in Socket :
    /\ Free(s) /\ s \notin timer'
    /\ \A r \in 1 .. s - 1 : ~Free(r) \/ r \in timer'
    /\ sock' = [sk EXCEPT ![s] = Connecting(h)]
    /\ hook' = [hook EXCEPT !.handler = page, !.ref = s, !.status = "connecting"]

(* The page passes handler h: the effect is cleaned up and runs again.     *)
HandlerChanges(h) ==
  /\ hook.mounted /\ h # hook.handler
  /\ Event
  /\ changes' = changes + 1
  /\ timer' = timer \ {hook.retry}
  /\ Connect(h, RefClosed, h)
  /\ UNCHANGED <<channel, cast>>

(* mountedRef is false; the state of the component has gone with it.       *)
Gone == [mounted |-> FALSE, handler |-> hook.handler, ref |-> None, retry |-> None,
         status |-> "disconnected"]

(* The user leaves the page.                                               *)
Unmount ==
  /\ hook.mounted
  /\ hook' = Gone
  /\ timer' = timer \ {hook.retry}
  /\ sock' = RefClosed
  /\ UNCHANGED <<channel, cast, changes, events>>

TimerFires(s) ==
  /\ s \in timer
  /\ timer' = timer \ {s}
  /\ UNCHANGED <<channel, cast, changes, events>>
  /\ IF hook.mounted THEN Connect(sock[s].handler, sock, hook.handler) ELSE UNCHANGED <<sock, hook>>

(* Mutation of OnClose: no reconnect is scheduled.                         *)
OnCloseNoRetry(s) ==
  /\ sock' = [sock EXCEPT ![s].client = "closed", ![s].inbox = <<>>]
  /\ UNCHANGED timer
  /\ hook' = IF hook.mounted
             THEN [hook EXCEPT !.ref = None, !.status = "disconnected"] ELSE hook

(* ws.onclose of socket s.                                                 *)
OnClose(s) ==
  /\ sock' = [sock EXCEPT ![s].client = "closed", ![s].inbox = <<>>]
  /\ IF hook.mounted
     THEN /\ timer' = timer \cup {s}
          /\ hook' = [hook EXCEPT !.ref = None, !.retry = s, !.status = "disconnected"]
     ELSE UNCHANGED <<timer, hook>>

(* ws.onopen                                                               *)
Opened(s) ==
  /\ sock[s].client = "connecting"
  /\ sock[s].server \in {"accepting", "member"}
  /\ sock' = [sock EXCEPT ![s].client = "open"]
  /\ hook' = IF hook.mounted THEN [hook EXCEPT !.status = "connected"] ELSE hook
  /\ UNCHANGED <<timer, channel, cast, changes, events>>

(* A close() of the client completes.                                      *)
Closed(s) ==
  /\ sock[s].client = "closing"
  /\ OnClose(s)
  /\ UNCHANGED <<channel, cast, changes, events>>

(* The server has gone: the client is told.                                *)
Disconnected(s) ==
  /\ sock[s].client \in {"connecting", "open"}
  /\ sock[s].server = "over"
  /\ OnClose(s)
  /\ UNCHANGED <<channel, cast, changes, events>>

(* The network loses a connection, and the client sees it first.           *)
Dropped(s) ==
  /\ Event
  /\ sock[s].client \in {"connecting", "open"}
  /\ sock[s].server # "over"
  /\ OnClose(s)
  /\ UNCHANGED <<channel, cast, changes>>

-----------------------------------------------------------------------------
(* The server: one coroutine per connection, and the broadcast.            *)

(* await ws.accept()                                                       *)
Accept(s) ==
  /\ sock[s].server = "none"
  /\ sock[s].client \in {"connecting", "closing"}
  /\ sock' = [sock EXCEPT ![s].server = "accepting"]
  /\ UNCHANGED <<timer, hook, channel, cast, changes, events>>

(* self._connections[channel].add(ws)                                      *)
Join(s) ==
  /\ sock[s].server = "accepting"
  /\ sock' = [sock EXCEPT ![s].server = "member"]
  /\ channel' = channel \cup {s}
  /\ UNCHANGED <<timer, hook, cast, changes, events>>

(* Mutation of Leave: the endpoint ends and the set is left alone.         *)
LeaveSilently(s) ==
  /\ sock[s].server = "member"
  /\ sock[s].client \in {"closing", "closed"}
  /\ sock' = [sock EXCEPT ![s].server = "over"]
  /\ UNCHANGED <<timer, hook, channel, cast, changes, events>>

(* receive_text raises WebSocketDisconnect.                                *)
Leave(s) ==
  /\ sock[s].server = "member"
  /\ sock[s].client \in {"closing", "closed"}
  /\ sock' = [sock EXCEPT ![s].server = "over"]
  /\ channel' = channel \ {s}
  /\ UNCHANGED <<timer, hook, cast, changes, events>>

(* broadcast(channel, m), up to its first await.                           *)
BroadcastBegins(m) ==
  /\ cast = <<>>
  /\ channel # {}
  /\ cast' = <<[msg |-> m, left |-> channel, dead |-> {}]>>
  /\ UNCHANGED <<sock, timer, hook, channel, changes, events>>

(* await ws.send_text(message): the message is on its way, or the          *)
(* connection turns out to be closed.                                      *)
SendTo(s) ==
  /\ cast # <<>> /\ s \in cast[1].left
  /\ \/ /\ sock[s].server = "member"
        /\ sock' = IF sock[s].client \in {"connecting", "open"}
                   THEN [sock EXCEPT ![s].inbox = Append(@, cast[1].msg)] ELSE sock
        /\ cast' = <<[cast[1] EXCEPT !.left = @ \ {s}]>>
     \/ /\ sock[s].server = "over" \/ sock[s].client \in {"closing", "closed"}
        /\ cast' = <<[cast[1] EXCEPT !.left = @ \ {s}, !.dead = @ \cup {s}]>>
        /\ UNCHANGED sock
  /\ UNCHANGED <<timer, hook, channel, changes, events>>

(* The dead connections are dropped.                                       *)
BroadcastEnds ==
  /\ cast # <<>> /\ cast[1].left = {}
  /\ channel' = channel \ cast[1].dead
  /\ cast' = <<>>
  /\ UNCHANGED <<sock, timer, hook, changes, events>>

(* The server process ends and is started again.                           *)
AllCut ==
  /\ sock' = [s \in Socket |-> IF sock[s].server = "none" THEN sock[s]
                               ELSE [sock[s] EXCEPT !.server = "over"]]
  /\ channel' = {}
  /\ cast' = <<>>
  /\ UNCHANGED <<timer, hook, changes>>

(* The network and the event loops move connection s.                      *)
SocketStep(s) ==
  \/ Opened(s)
  \/ Closed(s)
  \/ Disconnected(s)
  \/ Accept(s)
  \/ Join(s)
  \/ Leave(s)

-----------------------------------------------------------------------------
(* Properties.                                                             *)

Alive == { s \in Socket : sock[s].client \in {"connecting", "open", "closing"} }

(* The hook never gives up - while the page is shown there is a            *)
(* connection or a timer that will open one - and it adds at most one      *)
(* connection for each change of its handler, however closes, drops and    *)
(* timers interleave.  The code does leave that one behind: the close      *)
(* event of the old connection schedules another (useWebSocket.ts:48-56).  *)
ConnectionsBounded ==
  hook.mounted => Cardinality(Alive) + Cardinality(timer) \in 1 .. 1 + changes

(* A connection whose client has gone leaves the set that is broadcast to. *)
GoneLeaves == \A s \in Socket : <>[](sock[s].client = "closed" => s \notin channel)
=============================================================================
