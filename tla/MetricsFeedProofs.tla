-------------------------- MODULE MetricsFeedProofs --------------------------
(***************************************************************************)
(* Proofs about LiveSocket and MetricsFeed for every number of             *)
(* connections, records, polls and lost connections: the inductive         *)
(* invariants SocketInv and FeedInv, and from them what the feed run       *)
(* checks, except for liveness.                                            *)
(***************************************************************************)
EXTENDS MetricsFeed, FiniteSetTheorems, SequenceTheorems, WellFoundedInduction, TLAPS

(***************************************************************************)
(* Recursion over the rounds.  Induction is by the least counterexample.   *)
(***************************************************************************)

LEMMA LeastNumber ==
  ASSUME NEW B, B \subseteq Nat, B # {}
  PROVE  \E m \in B : \A k \in B : m <= k
<1> DEFINE R == {p \in Nat \X Nat : p[1] < p[2]}
<1>1. IsWellFoundedOn(R, Nat)
  BY NatLessThanWellFounded, Zenon DEF OpToRel
<1> HIDE DEF R
<1>2. PICK m \in B : \A k \in B : <<k, m>> \notin R
  BY <1>1, WFMin
<1>3. ASSUME NEW k \in B PROVE m <= k
  <2>1. ~ k < m
    BY <1>2 DEF R
  <2>2. k \in Nat /\ m \in Nat
    OBVIOUS
  <2> QED BY <2>1, <2>2
<1> QED BY <1>3

(* The recursive function in Parsed, as far as round n.                    *)
Upto(s, n, f) ==
  f = [k \in 0 .. n |-> IF k = 0 THEN <<>>
                        ELSE IF HasLine(s, k) THEN Append(f[k - 1], k) ELSE f[k - 1]]

LEMMA UptoExists ==
  ASSUME NEW s, NEW n \in Nat
  PROVE  \E f : Upto(s, n, f)
<1> SUFFICES ASSUME ~ \E f : Upto(s, n, f) PROVE FALSE
  OBVIOUS
<1> DEFINE B == {m \in Nat : ~ \E f : Upto(s, m, f)}
<1>1. PICK m \in B : \A k \in B : m <= k
  BY LeastNumber
<1>2. m \in Nat /\ ~ \E f : Upto(s, m, f)
  OBVIOUS
<1>3. CASE m = 0
  <2> DEFINE f == [k \in 0 .. 0 |-> <<>>]
  <2>1. Upto(s, 0, f)
    BY DEF Upto
  <2> QED BY <1>2, <1>3, <2>1
<1>4. CASE m # 0
  <2>1. m - 1 \in Nat /\ m - 1 \notin B
    BY <1>1, <1>2, <1>4
  <2>2. PICK g : Upto(s, m - 1, g)
    BY <2>1
  <2> DEFINE last == IF HasLine(s, m) THEN Append(g[m - 1], m) ELSE g[m - 1]
             f == [k \in 0 .. m |-> IF k = m THEN last ELSE g[k]]
  <2>3. ASSUME NEW k \in 0 .. m
        PROVE  f[k] = IF k = 0 THEN <<>>
                      ELSE IF HasLine(s, k) THEN Append(f[k - 1], k) ELSE f[k - 1]
    <3>1. CASE k = m
      BY <1>2, <1>4, <3>1
    <3>2. CASE k # m
      <4>1. k \in 0 .. m - 1 /\ f[k] = g[k] /\ (k # 0 => f[k - 1] = g[k - 1])
        BY <1>2, <3>2
      <4>2. g[k] = IF k = 0 THEN <<>>
                   ELSE IF HasLine(s, k) THEN Append(g[k - 1], k) ELSE g[k - 1]
        BY <2>2, <4>1 DEF Upto
      <4> QED BY <4>1, <4>2
    <3> QED BY <3>1, <3>2
  <2>4. Upto(s, m, f)
    BY <2>3 DEF Upto
  <2> QED BY <1>2, <2>4
<1> QED BY <1>3, <1>4

(* What the recursion collects up to round k.                              *)
Collects(s, k, q) ==
  /\ q \in Seq(1 .. k)
  /\ \A r \in 1 .. k : HasLine(s, r) <=> \E i \in 1 .. Len(q) : q[i] = r

LEMMA CollectsAll ==
  ASSUME NEW s, NEW n \in Nat, NEW f, Upto(s, n, f), NEW k \in 0 .. n
  PROVE  Collects(s, k, f[k])
<1> SUFFICES ASSUME ~ Collects(s, k, f[k]) PROVE FALSE
  OBVIOUS
<1> DEFINE B == {m \in 0 .. n : ~ Collects(s, m, f[m])}
<1>0. B \subseteq Nat /\ k \in B
  OBVIOUS
<1>1. PICK m \in B : \A j \in B : m <= j
  BY <1>0, LeastNumber
<1>2. m \in 0 .. n /\ ~ Collects(s, m, f[m])
  OBVIOUS
<1>3. CASE m = 0
  <2>1. f[m] = <<>>
    BY <1>2, <1>3 DEF Upto
  <2> QED BY <1>2, <1>3, <2>1 DEF Collects
<1>4. CASE m # 0
  <2>1. m - 1 \in 0 .. n /\ m - 1 \notin B
    BY <1>1, <1>2, <1>4
  <2>2. Collects(s, m - 1, f[m - 1])
    BY <2>1
  <2>3. f[m] = IF HasLine(s, m) THEN Append(f[m - 1], m) ELSE f[m - 1]
    BY <1>2, <1>4 DEF Upto
  <2> DEFINE q == f[m - 1]
  <2>4. q \in Seq(1 .. m - 1) /\ q \in Seq(1 .. m)
    BY <1>2, <2>2 DEF Collects
  <2>5. \A r \in 1 .. m - 1 : HasLine(s, r) <=> \E i \in 1 .. Len(q) : q[i] = r
    BY <2>2 DEF Collects
  <2>6. \A i \in 1 .. Len(q) : q[i] \in 1 .. m - 1
    BY <2>4
  <2> HIDE DEF q
  <2>7. CASE HasLine(s, m)
    <3>1. f[m] = Append(q, m)
      BY <2>3, <2>7 DEF q
    <3>2. /\ Append(q, m) \in Seq(1 .. m)
          /\ Len(Append(q, m)) = Len(q) + 1 /\ Append(q, m)[Len(q) + 1] = m
          /\ \A i \in 1 .. Len(q) : Append(q, m)[i] = q[i]
      BY <1>2, <1>4, <2>4
    <3>3. ASSUME NEW r \in 1 .. m
          PROVE  HasLine(s, r) <=> \E i \in 1 .. Len(Append(q, m)) : Append(q, m)[i] = r
      <4>1. CASE r = m
        BY <2>4, <2>7, <3>2, <4>1
      <4>2. CASE r # m
        <5>1. r \in 1 .. m - 1
          BY <1>2, <4>2
        <5>2. (\E i \in 1 .. Len(Append(q, m)) : Append(q, m)[i] = r)
                <=> \E i \in 1 .. Len(q) : q[i] = r
          BY <2>4, <3>2, <4>2
        <5> QED BY <2>5, <5>1, <5>2
      <4> QED BY <4>1, <4>2
    <3> QED BY <1>2, <3>1, <3>2, <3>3 DEF Collects
  <2>8. CASE ~ HasLine(s, m)
    <3>1. f[m] = q
      BY <2>3, <2>8 DEF q
    <3>2. ASSUME NEW r \in 1 .. m
          PROVE  HasLine(s, r) <=> \E i \in 1 .. Len(q) : q[i] = r
      <4>1. CASE r = m
        BY <1>2, <2>6, <2>8, <4>1
      <4>2. CASE r # m
        BY <1>2, <2>5, <4>2
      <4> QED BY <4>1, <4>2
    <3> QED BY <1>2, <2>4, <3>1, <3>2 DEF Collects
  <2> QED BY <2>7, <2>8
<1> QED BY <1>3, <1>4

(* Exactly the records that have a line are parsed.                        *)
LEMMA ParsedRecords ==
  ASSUME NEW s
  PROVE  /\ Parsed(s) \in Seq(Round)
         /\ Range(Parsed(s)) = {r \in Round : HasLine(s, r)}
<1> DEFINE upTo == CHOOSE f : Upto(s, MaxRounds, f)
<1>1. Parsed(s) = upTo[MaxRounds]
  BY DEF Parsed, Upto
<1>2. Upto(s, MaxRounds, upTo)
  BY UptoExists, FeedAssumption
<1> HIDE DEF upTo
<1>3. Collects(s, MaxRounds, Parsed(s))
  BY <1>1, <1>2, CollectsAll, FeedAssumption
<1> DEFINE q == Parsed(s)
<1>4. q \in Seq(Round) /\ \A r \in Round : HasLine(s, r) <=> \E i \in 1 .. Len(q) : q[i] = r
  BY <1>3 DEF Collects, Round
<1> HIDE DEF q
<1>5. Range(q) = {q[i] : i \in 1 .. Len(q)} /\ \A i \in 1 .. Len(q) : q[i] \in Round
  BY <1>4 DEF Range
<1>6. Range(q) = {r \in Round : HasLine(s, r)}
  BY <1>4, <1>5
<1> QED BY <1>4, <1>6 DEF q

(***************************************************************************)
(* The socket.                                                             *)
(***************************************************************************)

Clients == {"connecting", "open", "closing"}

(* A socket whose timer is pending is closed: what opens a connection      *)
(* again is either the connection or the timer, never both.                *)
TimersClosed == timer \cap Alive = {}

SocketInv == SocketTypeOK /\ TimersClosed /\ ConnectionsBounded

(* The sets that are counted are finite.                                   *)
LEMMA SocketsFinite ==
  ASSUME NEW A \in SUBSET Socket
  PROVE  IsFiniteSet(A) /\ Cardinality(A) \in Nat
<1>1. IsFiniteSet(Socket)
  BY FS_Interval, SocketAssumption DEF Socket
<1> QED BY <1>1, FS_Subset, FS_CardinalityType

LEMMA OneMore ==
  ASSUME NEW A \in SUBSET Socket, NEW s \in Socket, s \notin A
  PROVE  Cardinality(A \cup {s}) = Cardinality(A) + 1
  BY SocketsFinite, FS_AddElement

LEMMA OneLess ==
  ASSUME NEW A \in SUBSET Socket, NEW s \in A
  PROVE  Cardinality(A \ {s}) = Cardinality(A) - 1 /\ Cardinality(A) > 0
<1>1. s \in Socket /\ s \notin A \ {s} /\ A \ {s} \in SUBSET Socket /\ (A \ {s}) \cup {s} = A
  OBVIOUS
<1>2. Cardinality((A \ {s}) \cup {s}) = Cardinality(A \ {s}) + 1
  BY <1>1, OneMore
<1> QED BY <1>1, <1>2, SocketsFinite

LEMMA AliveShape ==
  /\ Alive \in SUBSET Socket
  /\ \A s \in Socket : s \in Alive <=> sock[s].client \in Clients
  BY DEF Alive, Clients

(* A step that leaves the clients, the timers and the hook's counts alone. *)
LEMMA SameClients ==
  ASSUME SocketInv, SocketTypeOK',
         \A s \in Socket : sock'[s].client \in Clients <=> sock[s].client \in Clients,
         timer' = timer, changes' = changes, hook'.mounted = hook.mounted
  PROVE  SocketInv'
<1>1. Alive' = Alive
  BY DEF Alive, Clients
<1> QED BY <1>1 DEF SocketInv, TimersClosed, ConnectionsBounded

(* One connection changes, the others stay.                                *)
LEMMA OneSocket ==
  ASSUME SocketTypeOK, NEW s \in Socket, NEW c \in Connection,
         sock' = [sock EXCEPT ![s] = c]
  PROVE  /\ sock' \in [Socket -> Connection]
         /\ sock'[s] = c
         /\ \A r \in Socket : r # s => sock'[r] = sock[r]
  BY DEF SocketTypeOK

LEMMA ConnectionShape ==
  ASSUME NEW c \in Connection
  PROVE  /\ c.client \in Clients \cup {"none", "closed"}
         /\ c.server \in {"none", "accepting", "member", "over"}
         /\ c.handler \in Handler /\ c.inbox \in Seq(Message)
         /\ \A x \in Clients \cup {"none", "closed"} : [c EXCEPT !.client = x] \in Connection
         /\ \A x \in {"none", "accepting", "member", "over"} : [c EXCEPT !.server = x] \in Connection
         /\ \A x \in Seq(Message) : [c EXCEPT !.inbox = x] \in Connection
         /\ [c EXCEPT !.client = "closed", !.inbox = <<>>] \in Connection
<1> USE DEF Connection, Clients
<1>1. /\ c.client \in Clients \cup {"none", "closed"}
      /\ c.server \in {"none", "accepting", "member", "over"}
      /\ c.handler \in Handler /\ c.inbox \in Seq(Message)
  OBVIOUS
<1>2. \A x \in Clients \cup {"none", "closed"} : [c EXCEPT !.client = x] \in Connection
  OBVIOUS
<1>3. \A x \in {"none", "accepting", "member", "over"} : [c EXCEPT !.server = x] \in Connection
  OBVIOUS
<1>4. \A x \in Seq(Message) : [c EXCEPT !.inbox = x] \in Connection
  OBVIOUS
<1>5. [c EXCEPT !.client = "closed", !.inbox = <<>>] \in Connection
  <2>1. [c EXCEPT !.client = "closed", !.inbox = <<>>]
          = [[c EXCEPT !.client = "closed"] EXCEPT !.inbox = <<>>]
    OBVIOUS
  <2>2. [c EXCEPT !.client = "closed"] \in Connection /\ <<>> \in Seq(Message)
    BY <1>2, EmptySeq
  <2> QED BY <2>1, <2>2
<1> QED BY <1>1, <1>2, <1>3, <1>4, <1>5

LEMMA ConnectingShape ==
  ASSUME NEW h \in Handler
  PROVE  Connecting(h) \in Connection /\ Unused(h) \in Connection
         /\ Connecting(h).client = "connecting" /\ Unused(h).client = "none"
  BY DEF Connecting, Unused, Connection

LEMMA SocketInitInv ==
  ASSUME NEW h \in Handler, SocketInit(h)
  PROVE  SocketInv
<1>1. 1 \in Socket
  BY SocketAssumption DEF Socket
<1>2. SocketTypeOK
  BY <1>1, ConnectingShape, SocketAssumption DEF SocketInit, SocketTypeOK, Hook
<1>3. Alive = {1} /\ timer = {}
  BY <1>1 DEF SocketInit, Alive, Connecting, Unused
<1>4. Cardinality(Alive) = 1 /\ Cardinality(timer) = 0
  BY <1>3, FS_Singleton, FS_EmptySet
<1> QED BY <1>2, <1>3, <1>4 DEF SocketInv, TimersClosed, ConnectionsBounded, SocketInit

(* Each step of the endpoint or the broadcast.                             *)
LEMMA OpenedInv == ASSUME SocketInv, NEW s \in Socket, Opened(s) PROVE SocketInv'
<1>1. sock[s] \in Connection /\ sock' = [sock EXCEPT ![s] = [sock[s] EXCEPT !.client = "open"]]
  BY DEF SocketInv, SocketTypeOK, Opened
<1>2. [sock[s] EXCEPT !.client = "open"] \in Connection
  BY <1>1, ConnectionShape DEF Clients
<1>3. /\ sock' \in [Socket -> Connection]
      /\ \A r \in Socket : r # s => sock'[r] = sock[r]
      /\ sock'[s].client = "open"
  BY <1>1, <1>2, OneSocket DEF SocketInv, Connection
<1>4. hook' \in Hook /\ hook'.mounted = hook.mounted
  BY DEF SocketInv, SocketTypeOK, Opened, Hook
<1>5. SocketTypeOK'
  BY <1>3, <1>4 DEF SocketInv, SocketTypeOK, Opened
<1> QED BY <1>3, <1>4, <1>5, SameClients DEF Opened, Clients

LEMMA ServerMoves ==
  ASSUME SocketInv, NEW s \in Socket, NEW x \in {"accepting", "member", "over"},
         sock' = [sock EXCEPT ![s].server = x],
         channel' \in SUBSET Socket,
         UNCHANGED <<timer, hook, cast, changes, events>>
  PROVE  SocketInv'
<1>1. sock[s] \in Connection /\ sock' = [sock EXCEPT ![s] = [sock[s] EXCEPT !.server = x]]
  BY DEF SocketInv, SocketTypeOK
<1>2. [sock[s] EXCEPT !.server = x] \in Connection
  BY <1>1, ConnectionShape
<1>3. /\ sock' \in [Socket -> Connection]
      /\ \A r \in Socket : r # s => sock'[r] = sock[r]
      /\ sock'[s].client = sock[s].client
  BY <1>1, <1>2, OneSocket DEF SocketInv, Connection
<1>4. SocketTypeOK'
  BY <1>3 DEF SocketInv, SocketTypeOK
<1> QED BY <1>3, <1>4, SameClients

LEMMA EndpointInv ==
  ASSUME SocketInv, NEW s \in Socket, Accept(s) \/ Join(s) \/ Leave(s)
  PROVE  SocketInv'
<1> USE DEF SocketInv, SocketTypeOK
<1>1. CASE Accept(s)
  BY <1>1, ServerMoves DEF Accept
<1>2. CASE Join(s)
  BY <1>2, ServerMoves DEF Join
<1>3. CASE Leave(s)
  BY <1>3, ServerMoves DEF Leave
<1> QED BY <1>1, <1>2, <1>3

LEMMA BroadcastBeginsInv ==
  ASSUME SocketInv, NEW m \in Message, BroadcastBegins(m)
  PROVE  SocketInv'
<1>1. cast' \in { <<c>> : c \in Cast }
  BY DEF SocketInv, SocketTypeOK, BroadcastBegins, Cast
<1>2. SocketTypeOK'
  BY <1>1 DEF SocketInv, SocketTypeOK, BroadcastBegins
<1> QED BY <1>2, SameClients DEF BroadcastBegins

LEMMA CastShape ==
  ASSUME SocketTypeOK, cast # <<>>
  PROVE  cast[1] \in Cast /\ cast = <<cast[1]>>
  BY DEF SocketTypeOK

LEMMA SendToInv == ASSUME SocketInv, NEW s \in Socket, SendTo(s) PROVE SocketInv'
<1>1. cast[1] \in Cast
  BY CastShape DEF SocketInv, SendTo
<1>2. cast' \in { <<c>> : c \in Cast }
  <2>1. [cast[1] EXCEPT !.left = @ \ {s}] \in Cast
    BY <1>1 DEF Cast
  <2>2. [cast[1] EXCEPT !.left = @ \ {s}, !.dead = @ \cup {s}] \in Cast
    BY <1>1 DEF Cast
  <2> QED BY <2>1, <2>2 DEF SendTo
<1>3. /\ sock' \in [Socket -> Connection]
      /\ \A r \in Socket : sock'[r].client = sock[r].client
  <2>1. CASE UNCHANGED sock
    BY <2>1 DEF SocketInv, SocketTypeOK
  <2>2. CASE sock' = [sock EXCEPT ![s].inbox = Append(@, cast[1].msg)]
    <3> DEFINE box == Append(sock[s].inbox, cast[1].msg)
    <3>1. sock[s] \in Connection /\ sock' = [sock EXCEPT ![s] = [sock[s] EXCEPT !.inbox = box]]
      BY <2>2 DEF SocketInv, SocketTypeOK
    <3>2. box \in Seq(Message)
      <4>1. cast[1].msg \in Message
        BY <1>1 DEF Cast
      <4>2. sock[s].inbox \in Seq(Message)
        BY <3>1, ConnectionShape
      <4> QED BY <4>1, <4>2, AppendProperties
    <3> HIDE DEF box
    <3>3. [sock[s] EXCEPT !.inbox = box] \in Connection
      BY <3>1, <3>2, ConnectionShape
    <3> QED BY <3>1, <3>3, OneSocket DEF SocketInv, Connection
  <2> QED BY <2>1, <2>2 DEF SendTo
<1>4. SocketTypeOK'
  BY <1>2, <1>3 DEF SocketInv, SocketTypeOK, SendTo
<1> QED BY <1>3, <1>4, SameClients DEF SendTo

LEMMA BroadcastEndsInv == ASSUME SocketInv, BroadcastEnds PROVE SocketInv'
<1>1. SocketTypeOK'
  BY DEF SocketInv, SocketTypeOK, BroadcastEnds
<1> QED BY <1>1, SameClients DEF BroadcastEnds

(* The restart of the server, which the clients do not notice at once.     *)
LEMMA AllCutInv == ASSUME SocketInv, Event, AllCut PROVE SocketInv'
<1>1. ASSUME NEW s \in Socket
      PROVE  sock'[s] \in Connection /\ sock'[s].client = sock[s].client
  <2>1. sock[s] \in Connection
    BY DEF SocketInv, SocketTypeOK
  <2>2. sock'[s] = IF sock[s].server = "none" THEN sock[s] ELSE [sock[s] EXCEPT !.server = "over"]
    BY DEF AllCut
  <2> QED BY <2>1, <2>2 DEF Connection
<1>2. sock' \in [Socket -> Connection]
  <2>1. sock' = [s \in Socket |-> sock'[s]]
    BY DEF AllCut
  <2> QED BY <1>1, <2>1
<1>3. SocketTypeOK'
  BY <1>2, SocketAssumption DEF SocketInv, SocketTypeOK, AllCut, Event
<1> QED BY <1>1, <1>3, SameClients DEF AllCut

(* A lost event elsewhere.                                                 *)
LEMMA OnlyEvent ==
  ASSUME SocketInv, Event, UNCHANGED links
  PROVE  SocketInv'
<1>1. SocketTypeOK'
  BY SocketAssumption DEF SocketInv, SocketTypeOK, links, Event
<1> QED BY <1>1, SameClients DEF links

(* Each step of the hook.  A close event takes a connection away and adds  *)
(* a timer, a timer that fires is replaced by a connection.                *)
LEMMA OnCloseInv ==
  ASSUME SocketInv, NEW s \in Socket, sock[s].client \in Clients, OnClose(s),
         UNCHANGED <<channel, cast, changes>>, events' \in changes .. MaxEvents
  PROVE  SocketInv'
<1> DEFINE c == [sock[s] EXCEPT !.client = "closed", !.inbox = <<>>]
<1>1. sock[s] \in Connection
  BY DEF SocketInv, SocketTypeOK
<1>2. c \in Connection /\ c.client = "closed"
  <2>1. c \in Connection
    BY <1>1, ConnectionShape
  <2> QED BY <1>1, <2>1 DEF Connection
<1>3. sock' = [sock EXCEPT ![s] = c]
  BY <1>1 DEF OnClose, SocketInv, SocketTypeOK
<1> HIDE DEF c
<1>4. /\ sock' \in [Socket -> Connection]
      /\ sock'[s].client = "closed"
      /\ \A r \in Socket : r # s => sock'[r] = sock[r]
  BY <1>2, <1>3, OneSocket DEF SocketInv
<1>5. SocketTypeOK'
  <2>1. timer' \in SUBSET Socket /\ hook' \in Hook
    BY DEF SocketInv, SocketTypeOK, OnClose, Hook
  <2>2. events' \in 0 .. MaxEvents /\ changes' \in 0 .. events'
    BY SocketAssumption DEF SocketInv, SocketTypeOK
  <2> QED BY <1>4, <2>1, <2>2 DEF SocketInv, SocketTypeOK
<1>6. s \in Alive /\ s \notin timer /\ timer \in SUBSET Socket
  BY AliveShape DEF SocketInv, SocketTypeOK, TimersClosed
<1>7. Alive' = Alive \ {s}
  BY <1>4 DEF Alive
<1>8. CASE hook.mounted
  <2>1. timer' = timer \cup {s} /\ hook'.mounted
    BY <1>8 DEF OnClose, SocketInv, SocketTypeOK, Hook
  <2>2. Cardinality(Alive') + Cardinality(timer') = Cardinality(Alive) + Cardinality(timer)
    BY <1>6, <1>7, <2>1, OneMore, OneLess, AliveShape, SocketsFinite
  <2> QED BY <1>5, <1>7, <1>8, <2>1, <2>2 DEF SocketInv, TimersClosed, ConnectionsBounded
<1>9. CASE ~hook.mounted
  <2>1. timer' = timer /\ ~hook'.mounted
    BY <1>9 DEF OnClose
  <2> QED BY <1>5, <1>7, <2>1 DEF SocketInv, TimersClosed, ConnectionsBounded
<1> QED BY <1>8, <1>9

LEMMA LosesInv ==
  ASSUME SocketInv, NEW s \in Socket, Closed(s) \/ Disconnected(s) \/ Dropped(s)
  PROVE  SocketInv'
<1>1. events \in changes .. MaxEvents /\ events + 1 \in changes .. MaxEvents + 1
  BY SocketAssumption DEF SocketInv, SocketTypeOK
<1>2. events' \in changes .. MaxEvents
  BY <1>1, SocketAssumption DEF Closed, Disconnected, Dropped, Event, SocketInv, SocketTypeOK
<1> QED BY <1>2, OnCloseInv DEF Closed, Disconnected, Dropped, Clients

LEMMA RefClosedShape ==
  ASSUME SocketTypeOK
  PROVE  /\ RefClosed \in [Socket -> Connection]
         /\ \A s \in Socket : RefClosed[s].client \in Clients <=> sock[s].client \in Clients
<1>1. CASE hook.ref # None /\ sock[hook.ref].client \in {"connecting", "open"}
  <2> DEFINE c == [sock[hook.ref] EXCEPT !.client = "closing"]
  <2>1. hook.ref \in Socket /\ sock[hook.ref] \in Connection
    BY <1>1 DEF SocketTypeOK, Hook
  <2>2. c \in Connection /\ c.client = "closing"
    <3>1. \A x \in Clients \cup {"none", "closed"} :
            [sock[hook.ref] EXCEPT !.client = x] \in Connection
      BY <2>1, ConnectionShape
    <3>2. c \in Connection
      BY <3>1 DEF Clients
    <3>3. c.client = "closing"
      BY <2>1 DEF Connection
    <3> QED BY <3>2, <3>3
  <2>3. RefClosed = [sock EXCEPT ![hook.ref] = c]
    BY <1>1, <2>1 DEF RefClosed, SocketTypeOK
  <2> HIDE DEF c
  <2> QED BY <1>1, <2>1, <2>2, <2>3 DEF SocketTypeOK, Clients
<1>2. CASE ~(hook.ref # None /\ sock[hook.ref].client \in {"connecting", "open"})
  BY <1>2 DEF RefClosed, SocketTypeOK
<1> QED BY <1>1, <1>2

(* A connection is opened on a number that is free.                        *)
LEMMA ConnectShape ==
  ASSUME SocketTypeOK, NEW h \in Handler, NEW now \in Handler,
         NEW sk \in [Socket -> Connection],
         \A s \in Socket : sk[s].client \in Clients <=> sock[s].client \in Clients,
         Connect(h, sk, now)
  PROVE  \E n \in Socket :
           /\ n \notin Alive /\ n \notin timer'
           /\ sock' \in [Socket -> Connection]
           /\ Alive' = Alive \cup {n}
           /\ hook' \in Hook /\ hook'.mounted = hook.mounted
<1>1. PICK n \in Socket : /\ Free(n) /\ n \notin timer'
                          /\ sock' = [sk EXCEPT ![n] = Connecting(h)]
                          /\ hook' = [hook EXCEPT !.handler = now, !.ref = n,
                                                  !.status = "connecting"]
  BY DEF Connect
<1>2. n \notin Alive
  BY <1>1 DEF Free, Alive
<1>3. sock' \in [Socket -> Connection] /\ sock'[n].client = "connecting"
  BY <1>1, ConnectingShape
<1>4. \A s \in Socket : s # n => sock'[s] = sk[s]
  BY <1>1
<1>5. Alive' = Alive \cup {n}
  BY <1>3, <1>4 DEF Alive, Clients
<1>6. hook' \in Hook /\ hook'.mounted = hook.mounted
  BY <1>1 DEF SocketTypeOK, Hook
<1> QED BY <1>1, <1>2, <1>3, <1>5, <1>6

LEMMA HandlerChangesInv ==
  ASSUME SocketInv, NEW h \in Handler, HandlerChanges(h)
  PROVE  SocketInv'
<1>1. Connect(h, RefClosed, h) /\ hook.mounted
  BY DEF HandlerChanges
<1>2. PICK n \in Socket :
           /\ n \notin Alive /\ n \notin timer'
           /\ sock' \in [Socket -> Connection]
           /\ Alive' = Alive \cup {n}
           /\ hook' \in Hook /\ hook'.mounted = hook.mounted
  BY <1>1, RefClosedShape, ConnectShape DEF SocketInv
<1>3. /\ timer' \in SUBSET timer /\ timer \in SUBSET Socket
      /\ events' \in 0 .. MaxEvents /\ changes' \in 0 .. events' /\ changes' = changes + 1
  BY SocketAssumption DEF SocketInv, SocketTypeOK, HandlerChanges, Event
<1>4. SocketTypeOK'
  BY <1>2, <1>3 DEF SocketInv, SocketTypeOK, HandlerChanges
<1>5. Cardinality(timer') \in 0 .. Cardinality(timer)
  BY <1>3, FS_Subset, SocketsFinite
<1>6. Cardinality(Alive') = Cardinality(Alive) + 1
  BY <1>2, OneMore, AliveShape
<1>7. Cardinality(Alive) \in Nat /\ Cardinality(timer) \in Nat /\ changes \in Nat
  BY <1>3, AliveShape, SocketsFinite DEF SocketInv, SocketTypeOK
<1>8. ConnectionsBounded'
  BY <1>1, <1>3, <1>5, <1>6, <1>7 DEF SocketInv, ConnectionsBounded
<1>9. TimersClosed'
  BY <1>2, <1>3 DEF SocketInv, TimersClosed
<1> QED BY <1>4, <1>8, <1>9 DEF SocketInv

LEMMA UnmountInv == ASSUME SocketInv, Unmount PROVE SocketInv'
<1>1. /\ sock' \in [Socket -> Connection]
      /\ \A s \in Socket : sock'[s].client \in Clients <=> sock[s].client \in Clients
  BY RefClosedShape DEF SocketInv, Unmount
<1>2. Alive' = Alive
  BY <1>1 DEF Alive, Clients
<1>3. hook' \in Hook /\ ~hook'.mounted
  BY DEF Unmount, Gone, Hook, SocketInv, SocketTypeOK
<1>4. SocketTypeOK'
  BY <1>1, <1>3 DEF SocketInv, SocketTypeOK, Unmount
<1> QED BY <1>2, <1>3, <1>4 DEF SocketInv, TimersClosed, ConnectionsBounded, Unmount

LEMMA TimerFiresInv == ASSUME SocketInv, NEW s \in Socket, TimerFires(s) PROVE SocketInv'
<1>1. CASE hook.mounted
  <2>1. Connect(sock[s].handler, sock, hook.handler)
    BY <1>1 DEF TimerFires
  <2>2. sock[s].handler \in Handler /\ hook.handler \in Handler /\ sock \in [Socket -> Connection]
    BY DEF SocketInv, SocketTypeOK, Connection, Hook
  <2>3. PICK n \in Socket :
             /\ n \notin Alive /\ n \notin timer'
             /\ sock' \in [Socket -> Connection]
             /\ Alive' = Alive \cup {n}
             /\ hook' \in Hook /\ hook'.mounted = hook.mounted
    BY <2>1, <2>2, ConnectShape DEF SocketInv
  <2>4. timer' = timer \ {s} /\ s \in timer /\ timer \in SUBSET Socket
    BY DEF SocketInv, SocketTypeOK, TimerFires
  <2>5. SocketTypeOK'
    BY <2>3, <2>4 DEF SocketInv, SocketTypeOK, TimerFires
  <2>6. Cardinality(Alive') + Cardinality(timer') = Cardinality(Alive) + Cardinality(timer)
    BY <2>3, <2>4, OneMore, OneLess, AliveShape, SocketsFinite
  <2>7. TimersClosed'
    BY <2>3, <2>4 DEF SocketInv, TimersClosed
  <2> QED BY <1>1, <2>5, <2>6, <2>7 DEF SocketInv, ConnectionsBounded, TimerFires
<1>2. CASE ~hook.mounted
  <2>1. SocketTypeOK' /\ ~hook'.mounted /\ Alive' = Alive
    BY <1>2 DEF SocketInv, SocketTypeOK, TimerFires, Alive
  <2> QED BY <2>1 DEF SocketInv, TimersClosed, ConnectionsBounded, TimerFires
<1> QED BY <1>1, <1>2

LEMMA SocketStepInv == ASSUME SocketInv, NEW s \in Socket, SocketStep(s) PROVE SocketInv'
  BY OpenedInv, LosesInv, EndpointInv DEF SocketStep

LEMMA SocketStutters == ASSUME SocketInv, UNCHANGED socketVars PROVE SocketInv'
  BY DEF SocketInv, SocketTypeOK, TimersClosed, ConnectionsBounded, Alive, socketVars

(***************************************************************************)
(* The feed.                                                               *)
(***************************************************************************)

Before(u, v) == u[1] < v[1] \/ (u[1] = v[1] /\ u[2] < v[2])

(* The units of the file, followed by what is on its way into it, come in  *)
(* the order of the rounds, whatever was dropped.                          *)
FileAscends ==
  /\ \A i, j \in 1 .. Len(file) : i < j => Before(file[i], file[j])
  /\ \A i, j \in 1 .. Len(out) : i < j => Before(out[i], out[j])
  /\ \A i \in 1 .. Len(file), j \in 1 .. Len(out) : Before(file[i], out[j])
  /\ \A i \in 1 .. Len(file) : file[i][1] <= done
  /\ \A i \in 1 .. Len(out) : out[i][1] <= done

NodeInv ==
  /\ file \in Seq(Unit) /\ out \in Seq(Unit)
  /\ done \in 0 .. MaxRounds
  /\ FileAscends

(* A read that ended within a line has the record among the torn ones.     *)
TornLast == pos > 0 /\ file[pos][2] = 1 => file[pos][1] \in torn

(* What was taken lies before the position.                                *)
TakenRead == \A q \in taken : \E i \in 1 .. pos : file[i] = <<q, 2>>

(* What is being broadcast is the head of the queue.                       *)
CastQueued == cast # <<>> => queue # <<>>

TailInv ==
  /\ changed \in BOOLEAN
  /\ pos \in 0 .. Len(file)
  /\ queue \in Seq(Round)
  /\ taken \subseteq Round /\ torn \subseteq Round
  /\ TornLast /\ TakenRead /\ SkippedWasTorn /\ CastQueued

PageInv ==
  /\ page \in [recs : Seq(Round), top : 0 .. MaxRounds, shown : 0 .. MaxRounds]
  /\ poll \in [Poll -> PollCall]

FeedInv == SocketInv /\ NodeInv /\ TailInv /\ PageInv

(* Nothing changes for one of the parts.                                   *)
LEMMA NodeSame == ASSUME NodeInv, UNCHANGED nodeVars PROVE NodeInv'
  BY DEF NodeInv, FileAscends, nodeVars

LEMMA TailSame ==
  ASSUME TailInv, UNCHANGED <<file, pos, taken, torn>>, changed' \in BOOLEAN,
         queue' \in Seq(Round), cast' # <<>> => queue' # <<>>
  PROVE  TailInv'
  BY DEF TailInv, TornLast, TakenRead, SkippedWasTorn, CastQueued

LEMMA PageSame == ASSUME PageInv, UNCHANGED <<page, poll>> PROVE PageInv'
  BY DEF PageInv

(***************************************************************************)
(* The node.                                                               *)
(***************************************************************************)

LEMMA LinesAscend ==
  ASSUME NEW last \in Nat, NEW n \in Nat, last + n <= MaxRounds
  PROVE  /\ Lines(last, n) \in Seq(Unit) /\ Len(Lines(last, n)) = 2 * n
         /\ \A i \in 1 .. 2 * n : Lines(last, n)[i][1] \in last + 1 .. last + n
         /\ \A i, j \in 1 .. 2 * n : i < j => Before(Lines(last, n)[i], Lines(last, n)[j])
<1> DEFINE l == Lines(last, n)
<1>1. l = [k \in 1 .. 2 * n |-> <<last + ((k + 1) \div 2), 2 - (k % 2)>>]
  BY DEF Lines
<1>2. ASSUME NEW k \in 1 .. 2 * n
      PROVE  /\ l[k] \in Unit
             /\ l[k][1] \in last + 1 .. last + n
             /\ 2 * (l[k][1] - last - 1) + l[k][2] = k
  <2>1. (k + 1) \div 2 \in 1 .. n /\ 2 - (k % 2) \in {1, 2}
        /\ 2 * ((k + 1) \div 2 - 1) + 2 - (k % 2) = k
    OBVIOUS
  <2>2. last + ((k + 1) \div 2) \in Round
    BY <2>1, FeedAssumption DEF Round
  <2>3. l[k] = <<last + ((k + 1) \div 2), 2 - (k % 2)>>
    BY <1>1
  <2> DEFINE a == (k + 1) \div 2
             b == 2 - (k % 2)
  <2> HIDE DEF l, a, b
  <2>4. a \in 1 .. n /\ b \in {1, 2} /\ 2 * (a - 1) + b = k /\ last + a \in Round
        /\ l[k] = <<last + a, b>>
    BY <2>1, <2>2, <2>3 DEF a, b
  <2>5. l[k][1] = last + a /\ l[k][2] = b
    BY <2>4
  <2> QED BY <2>4, <2>5 DEF Unit
<1> HIDE DEF l
<1>3. l \in [1 .. 2 * n -> Unit]
  BY <1>1, <1>2
<1>4. l \in Seq(Unit) /\ Len(l) = 2 * n
  BY <1>3, 2 * n \in Nat, IsASeq, LenProperties
<1>5. ASSUME NEW i \in 1 .. 2 * n, NEW j \in 1 .. 2 * n, i < j
      PROVE  Before(l[i], l[j])
  <2>1. l[i] \in Unit /\ l[j] \in Unit
    BY <1>2
  <2>2. l[i][1] \in Nat /\ l[j][1] \in Nat /\ l[i][2] \in {1, 2} /\ l[j][2] \in {1, 2}
    BY <2>1, FeedAssumption DEF Unit, Round
  <2>3. 2 * (l[i][1] - last - 1) + l[i][2] < 2 * (l[j][1] - last - 1) + l[j][2]
    BY <1>2, <1>5
  <2> QED BY <2>2, <2>3 DEF Before
<1> QED BY <1>2, <1>4, <1>5 DEF l

LEMMA FlushInv == ASSUME FeedInv, Flush PROVE FeedInv'
<1>1. PICK n \in 1 .. MaxBatch : /\ done + n <= MaxRounds /\ done' = done + n
                                 /\ out' = Lines(done, n)
  BY DEF Flush
<1>2. n \in Nat /\ done \in Nat /\ done' \in 0 .. MaxRounds
  BY <1>1, FeedAssumption DEF FeedInv, NodeInv
<1>3. /\ out' \in Seq(Unit) /\ Len(out') = 2 * n
      /\ \A i \in 1 .. Len(out') : out'[i][1] \in done + 1 .. done'
      /\ \A i, j \in 1 .. Len(out') : i < j => Before(out'[i], out'[j])
  BY <1>1, <1>2, LinesAscend
<1>4. file' = file /\ file \in Seq(Unit) /\ \A i \in 1 .. Len(file) : file[i] \in Unit
  BY DEF Flush, FeedInv, NodeInv
<1>5. \A i \in 1 .. Len(file') : file'[i][1] <= done /\ file'[i][1] \in Nat
  BY <1>4, FeedAssumption DEF FeedInv, NodeInv, FileAscends, Unit, Round
<1>6. FileAscends'
  <2>1. \A i, j \in 1 .. Len(file') : i < j => Before(file'[i], file'[j])
    BY <1>4 DEF FeedInv, NodeInv, FileAscends
  <2>2. \A i \in 1 .. Len(file'), j \in 1 .. Len(out') : Before(file'[i], out'[j])
    BY <1>2, <1>3, <1>5 DEF Before
  <2>3. \A i \in 1 .. Len(file') : file'[i][1] <= done'
    BY <1>1, <1>2, <1>5
  <2>4. \A i \in 1 .. Len(out') : out'[i][1] <= done'
    BY <1>2, <1>3
  <2> QED BY <1>3, <2>1, <2>2, <2>3, <2>4 DEF FileAscends
<1>7. NodeInv'
  BY <1>2, <1>3, <1>4, <1>6 DEF NodeInv
<1>8. TailInv' /\ PageInv' /\ SocketInv'
  BY TailSame, PageSame, SocketStutters
  DEF Flush, FeedInv, TailInv, tailVars, CastQueued, socketVars
<1> QED BY <1>7, <1>8 DEF FeedInv

LEMMA WrittenInv == ASSUME FeedInv, Written PROVE FeedInv'
<1>1. /\ file \in Seq(Unit) /\ out \in Seq(Unit) /\ out # <<>>
      /\ file' = Append(file, Head(out)) /\ out' = Tail(out) /\ done' = done
  BY DEF Written, FeedInv, NodeInv
<1>2. /\ Len(file) \in Nat /\ Len(out) \in Nat /\ Len(out) > 0
      /\ file' \in Seq(Unit) /\ Len(file') = Len(file) + 1
      /\ out' \in Seq(Unit) /\ Len(out') = Len(out) - 1
      /\ file'[Len(file) + 1] = out[1]
      /\ \A i \in 1 .. Len(file) : file'[i] = file[i]
      /\ \A i \in 1 .. Len(out') : out'[i] = out[i + 1]
  BY <1>1
<1>3. FileAscends'
  <2>0. /\ \A i, j \in 1 .. Len(file) : i < j => Before(file[i], file[j])
        /\ \A i, j \in 1 .. Len(out) : i < j => Before(out[i], out[j])
        /\ \A i \in 1 .. Len(file), j \in 1 .. Len(out) : Before(file[i], out[j])
        /\ \A i \in 1 .. Len(file) : file[i][1] <= done
        /\ \A i \in 1 .. Len(out) : out[i][1] <= done
        /\ 1 \in 1 .. Len(out)
    BY <1>2 DEF FeedInv, NodeInv, FileAscends
  <2>1. ASSUME NEW i \in 1 .. Len(file'), NEW j \in 1 .. Len(file'), i < j
        PROVE  Before(file'[i], file'[j])
    <3>1. i \in 1 .. Len(file) /\ file'[i] = file[i]
      BY <1>2, <2>1
    <3>2. CASE j = Len(file) + 1
      BY <1>2, <2>0, <3>1, <3>2
    <3>3. CASE j # Len(file) + 1
      <4>1. j \in 1 .. Len(file) /\ file'[j] = file[j]
        BY <1>2, <3>3
      <4> QED BY <2>0, <2>1, <3>1, <4>1
    <3> QED BY <3>2, <3>3
  <2>2. ASSUME NEW i \in 1 .. Len(out'), NEW j \in 1 .. Len(out'), i < j
        PROVE  Before(out'[i], out'[j])
    <3>1. i + 1 \in 1 .. Len(out) /\ j + 1 \in 1 .. Len(out) /\ i + 1 < j + 1
      BY <1>2, <2>2
    <3> QED BY <1>2, <2>0, <3>1
  <2>3. ASSUME NEW i \in 1 .. Len(file'), NEW j \in 1 .. Len(out')
        PROVE  Before(file'[i], out'[j])
    <3>1. j + 1 \in 1 .. Len(out) /\ 1 < j + 1 /\ out'[j] = out[j + 1]
      BY <1>2
    <3>2. CASE i = Len(file) + 1
      BY <1>2, <2>0, <3>1, <3>2
    <3>3. CASE i # Len(file) + 1
      <4>1. i \in 1 .. Len(file) /\ file'[i] = file[i]
        BY <1>2, <3>3
      <4> QED BY <2>0, <3>1, <4>1
    <3> QED BY <3>2, <3>3
  <2>4. ASSUME NEW i \in 1 .. Len(file') PROVE file'[i][1] <= done'
    <3>1. CASE i = Len(file) + 1
      BY <1>1, <1>2, <2>0, <3>1
    <3>2. CASE i # Len(file) + 1
      BY <1>1, <1>2, <2>0, <3>2
    <3> QED BY <3>1, <3>2
  <2>5. ASSUME NEW i \in 1 .. Len(out') PROVE out'[i][1] <= done'
    BY <1>1, <1>2, <2>0
  <2> QED BY <2>1, <2>2, <2>3, <2>4, <2>5 DEF FileAscends
<1>4. NodeInv'
  BY <1>1, <1>2, <1>3 DEF FeedInv, NodeInv
<1>5. TailInv'
  <2>1. /\ UNCHANGED <<pos, queue, taken, torn>> /\ changed' = TRUE
        /\ pos \in 0 .. Len(file)
    BY DEF Written, FeedInv, TailInv, tailVars
  <2>2. \A i \in 1 .. pos : file'[i] = file[i]
    BY <1>2, <2>1
  <2>3. SubSeq(file', 1, pos) = SubSeq(file, 1, pos)
    <3>1. /\ SubSeq(file, 1, pos) \in Seq(Unit) /\ Len(SubSeq(file, 1, pos)) = pos
          /\ SubSeq(file', 1, pos) \in Seq(Unit) /\ Len(SubSeq(file', 1, pos)) = pos
          /\ \A i \in 1 .. pos : SubSeq(file, 1, pos)[i] = file[i]
          /\ \A i \in 1 .. pos : SubSeq(file', 1, pos)[i] = file'[i]
      BY <1>1, <1>2, <2>1
    <3> QED BY <2>2, <3>1, SeqEqual
  <2>4. TornLast'
    <3>1. pos > 0 => pos \in 1 .. pos
      BY <1>2, <2>1
    <3> QED BY <2>1, <2>2, <3>1 DEF TornLast, FeedInv, TailInv
  <2>5. TakenRead'
    BY <2>1, <2>2 DEF TakenRead, FeedInv, TailInv
  <2>6. SkippedWasTorn'
    BY <2>1, <2>3 DEF SkippedWasTorn, FeedInv, TailInv
  <2>7. CastQueued'
    BY <2>1 DEF CastQueued, FeedInv, TailInv, Written, socketVars
  <2> QED BY <1>2, <2>1, <2>4, <2>5, <2>6, <2>7 DEF FeedInv, TailInv
<1>6. PageInv' /\ SocketInv'
  BY PageSame, SocketStutters DEF Written, FeedInv
<1> QED BY <1>4, <1>5, <1>6 DEF FeedInv

LEMMA WriteFailsInv == ASSUME FeedInv, WriteFails PROVE FeedInv'
<1>1. NodeInv'
  BY DEF WriteFails, FeedInv, NodeInv, FileAscends
<1>2. TailInv' /\ PageInv'
  BY TailSame, PageSame DEF WriteFails, FeedInv, TailInv, tailVars, CastQueued, links
<1>3. SocketInv'
  BY OnlyEvent DEF WriteFails, FeedInv
<1> QED BY <1>1, <1>2, <1>3 DEF FeedInv

(***************************************************************************)
(* The broadcaster.                                                        *)
(***************************************************************************)

LEMMA UnreadUnits ==
  ASSUME FeedInv
  PROVE  /\ file \in Seq(Unit) /\ Len(file) \in Nat /\ pos \in 0 .. Len(file)
         /\ Unread \in Seq(Unit) /\ Len(Unread) = Len(file) - pos
         /\ \A i \in 1 .. Len(Unread) : Unread[i] = file[pos + i]
<1>1. file \in Seq(Unit) /\ Len(file) \in Nat /\ pos \in 0 .. Len(file)
  BY DEF FeedInv, NodeInv, TailInv
<1>2. CASE pos = Len(file)
  BY <1>1, <1>2 DEF Unread
<1>3. CASE pos # Len(file)
  BY <1>1, <1>3 DEF Unread
<1> QED BY <1>1, <1>2, <1>3

(* A line that is found lies behind the position, and what it says is new. *)
LEMMA UnreadLine ==
  ASSUME FeedInv, NEW r \in Round, HasLine(Unread, r)
  PROVE  /\ \E i \in pos + 1 .. Len(file) : file[i] = <<r, 2>>
         /\ \A q \in taken : r > q
<1>1. PICK i \in 1 .. Len(Unread) - 1 : Unread[i] = <<r, 1>> /\ Unread[i + 1] = <<r, 2>>
  BY DEF HasLine
<1>2. /\ pos + i \in pos + 1 .. Len(file) /\ pos + i + 1 \in pos + 1 .. Len(file)
      /\ file[pos + i] = <<r, 1>> /\ file[pos + i + 1] = <<r, 2>>
  BY <1>1, UnreadUnits
<1>3. ASSUME NEW q \in taken PROVE r > q
  <2>1. PICK k \in 1 .. pos : file[k] = <<q, 2>>
    BY DEF FeedInv, TailInv, TakenRead
  <2>2. k \in 1 .. Len(file) /\ k < pos + i /\ pos + i \in 1 .. Len(file)
    <3>1. pos \in Nat /\ Len(file) \in Nat /\ pos <= Len(file)
      BY UnreadUnits
    <3> QED BY <1>2, <2>1, <3>1
  <2>3. Before(<<q, 2>>, <<r, 1>>)
    BY <1>2, <2>1, <2>2 DEF FeedInv, NodeInv, FileAscends
  <2>4. q \in Nat /\ r \in Nat
    BY FeedAssumption DEF FeedInv, TailInv, Round
  <2> QED BY <2>3, <2>4 DEF Before
<1> QED BY <1>2, <1>3

(* A line that ends within the file ends before the position, was cut by   *)
(* it, or is one of the unread.                                            *)
LEMMA LineWhere ==
  ASSUME FeedInv, NEW r \in Round, HasLine(file, r)
  PROVE  HasLine(SubSeq(file, 1, pos), r) \/ r \in torn \/ HasLine(Unread, r)
<1>1. PICK i \in 1 .. Len(file) - 1 :
           /\ file[i] = <<r, 1>> /\ file[i + 1] = <<r, 2>>
           /\ i = 1 \/ file[i - 1][2] = 2
  BY DEF HasLine
<1>2. /\ Len(file) \in Nat /\ pos \in 0 .. Len(file) /\ Len(Unread) = Len(file) - pos
      /\ \A k \in 1 .. Len(Unread) : Unread[k] = file[pos + k]
  BY UnreadUnits
<1>3. CASE i + 1 <= pos
  <2> DEFINE s == SubSeq(file, 1, pos)
  <2>1. Len(s) = pos /\ \A k \in 1 .. pos : s[k] = file[k]
    BY <1>2, UnreadUnits
  <2> HIDE DEF s
  <2>2. i \in 1 .. Len(s) - 1 /\ s[i] = file[i] /\ s[i + 1] = file[i + 1]
        /\ (i # 1 => s[i - 1] = file[i - 1])
    BY <1>2, <1>3, <2>1
  <2>3. HasLine(s, r)
    BY <1>1, <2>2 DEF HasLine
  <2> QED BY <2>3 DEF s
<1>4. CASE i = pos
  BY <1>1, <1>4 DEF FeedInv, TailInv, TornLast
<1>5. CASE i > pos
  <2> DEFINE k == i - pos
  <2>1. k \in 1 .. Len(Unread) - 1 /\ pos + k = i /\ pos + (k + 1) = i + 1 /\ pos + (k - 1) = i - 1
    BY <1>2, <1>5
  <2> HIDE DEF k
  <2>2. k \in 1 .. Len(Unread) /\ k + 1 \in 1 .. Len(Unread) /\ (k # 1 => k - 1 \in 1 .. Len(Unread))
    BY <1>2, <2>1
  <2>3. k # 1 => i # 1
    BY <1>2, <2>1
  <2>4. /\ k \in 1 .. Len(Unread) - 1 /\ Unread[k] = file[i] /\ Unread[k + 1] = file[i + 1]
        /\ k # 1 => Unread[k - 1] = file[i - 1] /\ i # 1
    BY <1>2, <2>1, <2>2, <2>3
  <2>5. k = 1 \/ Unread[k - 1][2] = 2
    BY <1>1, <2>4
  <2> QED BY <1>1, <2>4, <2>5 DEF HasLine
<1> QED BY <1>2, <1>3, <1>4, <1>5

LEMMA TailReadsInv == ASSUME FeedInv, TailReads PROVE FeedInv'
<1>1. /\ changed' = FALSE /\ pos' = Len(file) /\ file' = file
      /\ queue' = Parsed(Unread) /\ taken' = taken \cup Range(Parsed(Unread))
      /\ torn' = torn \cup { r \in Round : Last(file) = <<r, 1>> }
  BY DEF TailReads, Takes, nodeVars
<1>2. /\ queue' \in Seq(Round)
      /\ taken' = taken \cup { r \in Round : HasLine(Unread, r) }
  BY <1>1, ParsedRecords
<1>3. file \in Seq(Unit) /\ Len(file) \in Nat /\ pos' \in 0 .. Len(file')
  BY <1>1, UnreadUnits
<1>4. TornLast'
  <2> SUFFICES ASSUME pos' > 0, file'[pos'][2] = 1 PROVE file'[pos'][1] \in torn'
    BY DEF TornLast
  <2>1. Last(file) \in Unit /\ Last(file) = file'[pos']
    BY <1>1, <1>3 DEF Last
  <2>2. Last(file) = <<Last(file)[1], 1>> /\ Last(file)[1] \in Round
    BY <2>1 DEF Unit
  <2> QED BY <1>1, <2>1, <2>2
<1>5. TakenRead'
  <2> SUFFICES ASSUME NEW q \in taken' PROVE \E i \in 1 .. pos' : file'[i] = <<q, 2>>
    BY DEF TakenRead
  <2>1. CASE q \in taken
    <3>1. PICK i \in 1 .. pos : file[i] = <<q, 2>>
      BY <2>1 DEF FeedInv, TailInv, TakenRead
    <3> QED BY <1>1, <3>1, UnreadUnits
  <2>2. CASE q \in Round /\ HasLine(Unread, q)
    <3>1. PICK i \in pos + 1 .. Len(file) : file[i] = <<q, 2>>
      BY <2>2, UnreadLine
    <3>2. i \in 1 .. pos'
      BY <1>1, UnreadUnits
    <3> QED BY <1>1, <3>1, <3>2
  <2> QED BY <1>2, <2>1, <2>2
<1>6. SkippedWasTorn'
  <2>1. SubSeq(file', 1, pos') = file
    BY <1>1, <1>3, SubSeqFull
  <2>2. ASSUME NEW r \in Round, HasLine(file, r) PROVE r \in taken' \cup torn'
    <3>1. CASE HasLine(SubSeq(file, 1, pos), r)
      <4>1. r \in Range(Parsed(SubSeq(file, 1, pos)))
        BY <3>1, ParsedRecords
      <4> QED BY <1>1, <4>1 DEF FeedInv, TailInv, SkippedWasTorn
    <3>2. CASE r \in torn
      BY <1>1, <3>2
    <3>3. CASE HasLine(Unread, r)
      BY <1>2, <3>3
    <3> QED BY <2>2, <3>1, <3>2, <3>3, LineWhere
  <2> QED BY <2>1, <2>2, ParsedRecords DEF SkippedWasTorn
<1>7. TailInv'
  <2>1. CastQueued'
    BY DEF CastQueued, TailReads, TailIdle, socketVars
  <2> QED BY <1>1, <1>2, <1>3, <1>4, <1>5, <1>6, <2>1 DEF FeedInv, TailInv
<1>8. NodeInv' /\ PageInv' /\ SocketInv'
  BY NodeSame, PageSame, SocketStutters DEF TailReads, FeedInv
<1> QED BY <1>7, <1>8 DEF FeedInv

LEMMA TailReadFailsInv == ASSUME FeedInv, TailReadFails PROVE FeedInv'
<1>1. NodeInv' /\ TailInv' /\ PageInv'
  BY NodeSame, TailSame, PageSame
  DEF TailReadFails, FeedInv, TailInv, nodeVars, tailVars, CastQueued, links
<1>2. SocketInv'
  BY OnlyEvent DEF TailReadFails, FeedInv
<1> QED BY <1>1, <1>2 DEF FeedInv

LEMMA RangeOfList ==
  ASSUME NEW S, NEW q \in Seq(S)
  PROVE  Range(q) = {q[i] : i \in 1 .. Len(q)}
  BY DEF Range

LEMMA QueueShape ==
  ASSUME TailInv, queue # <<>>
  PROVE  /\ Head(queue) \in Round /\ Tail(queue) \in Seq(Round)
         /\ Range(Tail(queue)) \subseteq Range(queue)
<1>1. /\ queue \in Seq(Round) /\ Tail(queue) \in Seq(Round) /\ Head(queue) \in Round
      /\ Len(Tail(queue)) = Len(queue) - 1 /\ Len(queue) \in Nat
      /\ \A i \in 1 .. Len(Tail(queue)) : Tail(queue)[i] = queue[i + 1]
  BY DEF TailInv
<1>2. /\ Range(queue) = {queue[i] : i \in 1 .. Len(queue)}
      /\ Range(Tail(queue)) = {Tail(queue)[i] : i \in 1 .. Len(Tail(queue))}
  BY <1>1, RangeOfList
<1> QED BY <1>1, <1>2

LEMMA TailSendsInv == ASSUME FeedInv, TailSends PROVE FeedInv'
<1>1. queue' \in Seq(Round) /\ (cast' # <<>> => queue' # <<>>)
  BY QueueShape DEF TailSends, FeedInv, TailInv, socketVars
<1>2. NodeInv' /\ TailInv' /\ PageInv'
  BY <1>1, NodeSame, TailSame, PageSame DEF TailSends, FeedInv, TailInv, nodeVars
<1>3. SocketInv'
  <2>1. Head(queue) \in Message
    BY QueueShape, FeedAssumption DEF TailSends, FeedInv, Round
  <2> QED BY <2>1, BroadcastBeginsInv, SocketStutters DEF TailSends, FeedInv
<1> QED BY <1>2, <1>3 DEF FeedInv

(* Steps of the connections that the rest does not see.                    *)
LEMMA OnlySockets ==
  ASSUME FeedInv, SocketInv', UNCHANGED feedVars, cast' # <<>> => cast # <<>>
  PROVE  FeedInv'
<1>1. NodeInv' /\ TailInv' /\ PageInv'
  BY NodeSame, TailSame, PageSame DEF FeedInv, TailInv, feedVars, nodeVars, tailVars, CastQueued
<1> QED BY <1>1 DEF FeedInv

LEMMA TailSentInv == ASSUME FeedInv, TailSent PROVE FeedInv'
<1>1. queue' \in Seq(Round)
  <2>1. queue # <<>>
    BY DEF FeedInv, TailInv, CastQueued, TailSent, BroadcastEnds
  <2> QED BY <2>1, QueueShape DEF TailSent, FeedInv
<1>2. NodeInv' /\ TailInv' /\ PageInv'
  BY <1>1, NodeSame, TailSame, PageSame
  DEF TailSent, BroadcastEnds, FeedInv, TailInv, nodeVars
<1>3. SocketInv'
  BY BroadcastEndsInv DEF TailSent, FeedInv
<1> QED BY <1>2, <1>3 DEF FeedInv

LEMMA TailSendsToInv == ASSUME FeedInv, NEW s \in Socket, TailSendsTo(s) PROVE FeedInv'
  BY SendToInv, OnlySockets DEF TailSendsTo, SendTo, FeedInv

(***************************************************************************)
(* The page.                                                               *)
(***************************************************************************)

LEMMA CallShape ==
  /\ Idle \in PollCall
  /\ \A l \in BOOLEAN : Asked(l) \in PollCall /\ Asked(l).pc = "asked" /\ Asked(l).live = l
  /\ \A c \in PollCall : /\ c.pc \in {"idle", "asked", "answered"} /\ c.live \in BOOLEAN
                         /\ c.recs \in Seq(Round)
<1>1. Idle \in PollCall
  BY DEF Idle, PollCall
<1>2. ASSUME NEW l \in BOOLEAN
      PROVE  Asked(l) \in PollCall /\ Asked(l).pc = "asked" /\ Asked(l).live = l
  BY <1>1 DEF Asked, PollCall
<1> QED BY <1>1, <1>2 DEF PollCall

LEMMA HighestType ==
  ASSUME NEW recs \in Seq(Round)
  PROVE  Highest(recs) \in 0 .. MaxRounds
<1>1. CASE recs = <<>>
  BY <1>1, FeedAssumption DEF Highest
<1>2. CASE recs # <<>>
  BY <1>2, FeedAssumption DEF Highest, Last, Round
<1> QED BY <1>1, <1>2

PageState == [recs : Seq(Round), top : 0 .. MaxRounds, shown : 0 .. MaxRounds]

LEMMA PageShape ==
  /\ Blank \in PageState
  /\ \A q \in Seq(Round), t, n \in 0 .. MaxRounds : [recs |-> q, top |-> t, shown |-> n] \in PageState
  /\ \A p \in PageState : /\ p.recs \in Seq(Round)
                          /\ p.top \in 0 .. MaxRounds /\ p.shown \in 0 .. MaxRounds
  BY FeedAssumption DEF Blank, PageState

LEMMA MergeType ==
  ASSUME PageInv, NEW r \in Round, NEW live \in BOOLEAN, Merge(r, live)
  PROVE  page' \in PageState /\ (~live => page'.shown = page.shown)
<1> DEFINE q == IF Highest(page.recs) = r THEN page.recs ELSE Append(page.recs, r)
           t == IF live /\ r > page.top THEN r ELSE page.top
           n == IF live /\ r > page.shown THEN r ELSE page.shown
<1>1. page \in PageState
  BY DEF PageInv, PageState
<1>2. r \in 0 .. MaxRounds
  BY FeedAssumption DEF Round
<1>3. q \in Seq(Round)
  BY <1>1, PageShape, AppendProperties
<1>4. t \in 0 .. MaxRounds /\ n \in 0 .. MaxRounds
  BY <1>1, <1>2, PageShape
<1>5. page' = [recs |-> q, top |-> t, shown |-> n]
  BY DEF Merge
<1>6. ~live => n = page.shown
  OBVIOUS
<1> HIDE DEF q, t, n
<1>7. page' \in PageState /\ page'.shown = n
  BY <1>3, <1>4, <1>5, PageShape
<1> QED BY <1>6, <1>7

LEMMA LoadedType ==
  ASSUME PageInv, NEW p \in Poll, Loaded(p)
  PROVE  page' \in PageState /\ (~poll[p].live => page'.shown = page.shown)
<1> DEFINE q == poll[p].recs
           t == Highest(q)
           n == IF poll[p].live THEN Highest(q) ELSE page.shown
<1>1. page \in PageState /\ q \in Seq(Round)
  BY CallShape DEF PageInv, PageState
<1>2. t \in 0 .. MaxRounds
  BY <1>1, HighestType
<1>3. n \in 0 .. MaxRounds /\ (~poll[p].live => n = page.shown)
  BY <1>1, <1>2, PageShape
<1>4. page' = [recs |-> q, top |-> t, shown |-> n]
  BY DEF Loaded
<1> HIDE DEF q, t, n
<1>5. page' \in PageState /\ page'.shown = n
  BY <1>1, <1>2, <1>3, <1>4, PageShape
<1> QED BY <1>3, <1>5

(* Steps of the page leave the node and the tail alone.                    *)
LEMMA OnlyPage ==
  ASSUME FeedInv, SocketInv', PageInv', UNCHANGED <<nodeVars, changed, tailVars, cast>>
  PROVE  FeedInv'
<1>1. NodeInv' /\ TailInv'
  BY NodeSame, TailSame DEF FeedInv, TailInv, nodeVars, tailVars, CastQueued
<1> QED BY <1>1 DEF FeedInv

LEMMA ReceiveInv ==
  ASSUME FeedInv, NEW s \in Socket, Receive(s)
  PROVE  /\ FeedInv'
         /\ sock'[s].inbox # sock[s].inbox
         /\ ~sock[s].handler => page'.shown = page.shown
<1>1. /\ sock[s] \in Connection /\ sock[s].inbox \in Seq(Message) /\ sock[s].inbox # <<>>
      /\ sock[s].handler \in BOOLEAN
  BY FeedAssumption, ConnectionShape DEF FeedInv, SocketInv, SocketTypeOK, Receive
<1> DEFINE box == Tail(sock[s].inbox)
<1>2. /\ box \in Seq(Message) /\ box # sock[s].inbox
      /\ Head(sock[s].inbox) \in Message
  <2>1. Len(box) = Len(sock[s].inbox) - 1 /\ Len(sock[s].inbox) \in Nat
    BY <1>1, HeadTailProperties
  <2>2. box \in Seq(Message) /\ Head(sock[s].inbox) \in Message
    BY <1>1, HeadTailProperties
  <2> HIDE DEF box
  <2>3. box # sock[s].inbox
    BY <2>1
  <2> QED BY <2>2, <2>3
<1>3. sock' = [sock EXCEPT ![s] = [sock[s] EXCEPT !.inbox = box]]
  BY <1>1 DEF Receive, FeedInv, SocketInv, SocketTypeOK
<1> HIDE DEF box
<1>4. [sock[s] EXCEPT !.inbox = box] \in Connection
  BY <1>1, <1>2, ConnectionShape
<1>5. /\ sock' \in [Socket -> Connection] /\ sock'[s] = [sock[s] EXCEPT !.inbox = box]
      /\ \A r \in Socket : r # s => sock'[r] = sock[r]
  BY <1>3, <1>4, OneSocket DEF FeedInv, SocketInv
<1>6. sock'[s].client = sock[s].client /\ sock'[s].inbox = box
  BY <1>1, <1>5 DEF Connection
<1>7. SocketInv'
  <2>1. SocketTypeOK'
    BY <1>5 DEF FeedInv, SocketInv, SocketTypeOK, Receive
  <2> QED BY <1>5, <1>6, <2>1, SameClients DEF FeedInv, Receive
<1>8. page' \in PageState /\ (~sock[s].handler => page'.shown = page.shown)
  <2>1. CASE hook.mounted
    <3>1. Head(sock[s].inbox) \in Round
      BY <1>2, FeedAssumption DEF Round
    <3> QED BY <1>1, <2>1, <3>1, MergeType DEF Receive, FeedInv
  <2>2. CASE ~hook.mounted
    BY <2>2 DEF Receive, FeedInv, PageInv, PageState
  <2> QED BY <2>1, <2>2
<1>9. PageInv'
  BY <1>8 DEF PageInv, FeedInv, Receive, PageState
<1>10. FeedInv'
  BY <1>7, <1>9, OnlyPage DEF Receive
<1> QED BY <1>2, <1>6, <1>8, <1>10

(* One poll changes.                                                       *)
LEMMA OnePoll ==
  ASSUME PageInv, NEW p \in Poll, NEW c \in PollCall, poll' = [poll EXCEPT ![p] = c],
         page' \in PageState
  PROVE  PageInv' /\ poll'[p] = c
  BY DEF PageInv, PageState

LEMMA PollInv ==
  ASSUME FeedInv, NEW p \in Poll, Ask(p) \/ Answer(p) \/ PollFails(p)
  PROVE  FeedInv'
<1>1. poll[p] \in PollCall /\ page \in PageState /\ hook.handler \in BOOLEAN
  BY FeedAssumption DEF FeedInv, PageInv, PageState, SocketInv, SocketTypeOK, Hook
<1>2. CASE Ask(p)
  <2>1. PageInv'
    BY <1>1, <1>2, CallShape, OnePoll DEF FeedInv, Ask
  <2> QED BY <1>2, <2>1, SocketStutters, OnlyPage DEF Ask, FeedInv, socketVars
<1>3. CASE Answer(p)
  <2>1. PageInv'
    <3> DEFINE q == Parsed(file)
    <3>1. q \in Seq(Round)
      BY ParsedRecords
    <3> HIDE DEF q
    <3>2. [poll[p] EXCEPT !.pc = "answered", !.recs = q] \in PollCall
      BY <1>1, <3>1 DEF PollCall
    <3>3. poll' = [poll EXCEPT ![p] = [poll[p] EXCEPT !.pc = "answered", !.recs = q]]
      BY <1>3 DEF q, Answer, FeedInv, PageInv
    <3> QED BY <1>1, <1>3, <3>2, <3>3, OnePoll DEF FeedInv, Answer
  <2> QED BY <1>3, <2>1, SocketStutters, OnlyPage DEF Answer, FeedInv, socketVars
<1>4. CASE PollFails(p)
  <2>1. PageInv'
    BY <1>1, <1>4, CallShape, OnePoll DEF FeedInv, PollFails
  <2> QED BY <1>4, <2>1, OnlyEvent, OnlyPage DEF PollFails, FeedInv, links
<1> QED BY <1>2, <1>3, <1>4

LEMMA ArriveInv ==
  ASSUME FeedInv, NEW p \in Poll, Arrive(p)
  PROVE  /\ FeedInv'
         /\ poll'[p] # poll[p]
         /\ ~poll[p].live => page'.shown = page.shown
<1>1. page' \in PageState /\ (~poll[p].live => page'.shown = page.shown)
  BY LoadedType DEF FeedInv, Arrive
<1>2. PageInv' /\ poll'[p] = Idle
  BY <1>1, CallShape, OnePoll DEF FeedInv, Arrive
<1>3. poll'[p] # poll[p]
  BY <1>2 DEF Arrive, Idle
<1>4. FeedInv'
  BY <1>2, SocketStutters, OnlyPage DEF Arrive, FeedInv, socketVars
<1> QED BY <1>1, <1>3, <1>4

LEMMA SwitchInv == ASSUME FeedInv, Switch PROVE FeedInv' /\ (~hook.handler => hook'.handler)
<1>1. hook \in Hook /\ hook.handler \in BOOLEAN /\ (~hook.handler) \in Handler
  BY FeedAssumption DEF FeedInv, SocketInv, SocketTypeOK, Hook
<1>2. SocketInv'
  BY <1>1, HandlerChangesInv DEF FeedInv, Switch
<1>3. page' \in PageState
  <2>1. page \in PageState
    BY DEF FeedInv, PageInv, PageState
  <2>2. [page EXCEPT !.shown = page.top] \in PageState
    BY <2>1 DEF PageState
  <2> QED BY <2>1, <2>2 DEF Switch
<1>4. PageInv'
  <2>1. PICK p \in Poll : poll' = [poll EXCEPT ![p] = Asked(~hook.handler)]
    BY DEF Switch
  <2>2. Asked(~hook.handler) \in PollCall
    BY <1>1, CallShape
  <2> QED BY <1>3, <2>1, <2>2, OnePoll DEF FeedInv
<1>5. FeedInv'
  BY <1>2, <1>4, OnlyPage DEF Switch, HandlerChanges
<1>6. ~hook.handler => hook'.handler
  BY <1>1 DEF Switch, HandlerChanges, Connect, Hook
<1> QED BY <1>5, <1>6

LEMMA LeavePageInv == ASSUME FeedInv, LeavePage PROVE FeedInv' /\ ~hook'.mounted
<1>1. SocketInv'
  BY UnmountInv DEF FeedInv, LeavePage
<1>2. PageInv'
  BY CallShape, PageShape DEF LeavePage, PageInv, PageState
<1>3. UNCHANGED cast /\ ~hook'.mounted
  BY DEF LeavePage, Unmount, Gone
<1> QED BY <1>1, <1>2, <1>3, OnlyPage DEF LeavePage

LEMMA LinksInv ==
  ASSUME FeedInv, NEW s \in Socket, Link(s) \/ Reconnect(s) \/ Lose(s)
  PROVE  FeedInv'
<1>1. SocketInv' /\ UNCHANGED feedVars
  BY SocketStepInv, TimerFiresInv, LosesInv DEF FeedInv, Link, Reconnect, Lose
<1>2. cast' = cast
  BY DEF Link, Reconnect, Lose, SocketStep, Opened, Closed, Disconnected, Accept, Join, Leave,
         TimerFires, Dropped
<1> QED BY <1>1, <1>2, OnlySockets

(* The positions go with the server, the file stays.                       *)
LEMMA RestartInv == ASSUME FeedInv, Restart PROVE FeedInv'
<1>1. NodeInv'
  BY NodeSame DEF Restart, FeedInv
<1>2. SocketInv'
  BY AllCutInv DEF Restart, FeedInv
<1>3. TailInv'
  <2>1. /\ pos' = 0 /\ queue' = <<>> /\ taken' = {} /\ torn' = {} /\ changed' = FALSE
        /\ cast' = <<>> /\ file' = file
    BY DEF Restart, AllCut, nodeVars
  <2>2. file \in Seq(Unit) /\ Len(file) \in Nat
    BY UnreadUnits
  <2>3. SubSeq(file', 1, pos') = <<>>
    BY <2>1, <2>2
  <2>4. SkippedWasTorn'
    <3>1. \A r \in Round : ~HasLine(<<>>, r)
      BY DEF HasLine
    <3> QED BY <2>3, <3>1, ParsedRecords DEF SkippedWasTorn
  <2>5. TornLast' /\ TakenRead' /\ CastQueued'
    BY <2>1 DEF TornLast, TakenRead, CastQueued
  <2>6. changed' \in BOOLEAN /\ pos' \in 0 .. Len(file') /\ queue' \in Seq(Round)
        /\ taken' \subseteq Round /\ torn' \subseteq Round
    <3>1. pos' \in 0 .. Len(file')
      BY <2>1, <2>2
    <3>2. queue' \in Seq(Round) /\ taken' \subseteq Round /\ torn' \subseteq Round
      BY <2>1, EmptySeq
    <3> QED BY <2>1, <3>1, <3>2
  <2> QED BY <2>4, <2>5, <2>6 DEF TailInv
<1>4. PageInv'
  <2>1. \A p \in Poll : poll'[p] \in PollCall
    BY CallShape DEF Restart, FeedInv, PageInv
  <2>2. poll' \in [Poll -> PollCall]
    BY <2>1 DEF Restart
  <2> QED BY <2>2 DEF Restart, FeedInv, PageInv
<1> QED BY <1>1, <1>2, <1>3, <1>4 DEF FeedInv

LEMMA FeedInitInv == Init => FeedInv
<1> SUFFICES ASSUME Init PROVE FeedInv
  OBVIOUS
<1>1. SocketInv
  BY SocketInitInv, FeedAssumption DEF Init
<1>2. file \in Seq(Unit) /\ out \in Seq(Unit) /\ Len(file) = 0 /\ Len(out) = 0
  BY EmptySeq DEF Init
<1>3. NodeInv
  BY <1>2, FeedAssumption DEF NodeInv, FileAscends, Init
<1>4. SkippedWasTorn
  <2>1. SubSeq(file, 1, pos) = <<>>
    BY DEF Init
  <2>2. \A r \in Round : ~HasLine(<<>>, r)
    BY DEF HasLine
  <2> QED BY <2>1, <2>2, ParsedRecords DEF SkippedWasTorn
<1>5. TornLast /\ TakenRead /\ CastQueued
  BY DEF TornLast, TakenRead, CastQueued, Init, SocketInit
<1>6. TailInv
  <2>1. changed \in BOOLEAN /\ pos \in 0 .. Len(file)
    <3>1. changed \in BOOLEAN
      BY DEF Init
    <3>2. pos = 0 /\ 0 \in 0 .. Len(file)
      BY <1>2 DEF Init
    <3> QED BY <3>1, <3>2
  <2>2. queue \in Seq(Round) /\ taken \subseteq Round /\ torn \subseteq Round
    BY EmptySeq DEF Init
  <2> QED BY <1>4, <1>5, <2>1, <2>2 DEF TailInv
<1>7. PageInv
  <2>1. \A p \in Poll : poll[p] \in PollCall
    <3>1. [Idle EXCEPT !.pc = "asked", !.live = TRUE] = Asked(TRUE)
      BY DEF Asked
    <3> QED BY <3>1, CallShape DEF Init
  <2>2. poll \in [Poll -> PollCall]
    BY <2>1 DEF Init
  <2> QED BY <2>2, PageShape DEF PageInv, PageState, Init
<1> QED BY <1>1, <1>3, <1>6, <1>7 DEF FeedInv

LEMMA FeedNextInv == FeedInv /\ [Next]_vars => FeedInv'
<1> SUFFICES ASSUME FeedInv, [Next]_vars PROVE FeedInv'
  OBVIOUS
<1>1. CASE Next
  BY <1>1, FlushInv, WrittenInv, WriteFailsInv, TailReadsInv, TailReadFailsInv, TailSendsInv,
     TailSentInv, RestartInv, SwitchInv, LeavePageInv, TailSendsToInv, ReceiveInv, LinksInv,
     PollInv, ArriveInv
  DEF Next
<1>2. CASE UNCHANGED vars
  BY <1>2, SocketStutters, OnlySockets DEF vars, socketVars, FeedInv
<1> QED BY <1>1, <1>2

(***************************************************************************)
(* The theorems.                                                           *)
(***************************************************************************)

(* The inductive invariant: the socket's part, a file that ascends with    *)
(* what is on its way into it, and a tail that has taken or torn whatever  *)
(* lies before its position.                                               *)
THEOREM FeedInvariant == Spec => []FeedInv
  BY FeedInitInv, FeedNextInv, PTL DEF Spec

(* Connections, file, positions, polls and page keep their types, however  *)
(* often the socket is lost, the server restarted and the mode switched.   *)
THEOREM FeedTypeCorrect == Spec => []TypeOK
<1>1. FeedInv => TypeOK
  BY DEF FeedInv, SocketInv, NodeInv, TailInv, PageInv, TypeOK
<1> QED BY <1>1, FeedInvariant, PTL

(* While the page is shown the hook has a connection or a timer, and at    *)
(* most one more for each change of the handler (useWebSocket's onclose).  *)
THEOREM ConnectionsBoundedHolds == Spec => []ConnectionsBounded
<1>1. FeedInv => ConnectionsBounded
  BY DEF FeedInv, SocketInv
<1> QED BY <1>1, FeedInvariant, PTL

(* The tail skips only records whose line it met half-written              *)
(* (_process_new_lines saves the position behind what it has read).        *)
THEOREM SkippedWasTornHolds == Spec => []SkippedWasTorn
<1>1. FeedInv => SkippedWasTorn
  BY DEF FeedInv, TailInv
<1> QED BY <1>1, FeedInvariant, PTL

(* What one step of the feed may do to the queue.                          *)
LEMMA QueueStep ==
  ASSUME FeedInv, [Next]_vars
  PROVE  Range(queue') \subseteq Range(queue) \/ \A r \in Range(queue'), q \in taken : r > q
<1>1. CASE TailReads
  <2>1. Range(queue') = {r \in Round : HasLine(Unread, r)}
    BY <1>1, ParsedRecords DEF TailReads, Takes
  <2> QED BY <2>1, UnreadLine
<1>2. CASE TailSends \/ TailSent
  <2>1. queue' = queue \/ queue' = Tail(queue)
    BY <1>2 DEF TailSends, TailSent
  <2>2. queue # <<>>
    BY <1>2 DEF TailSends, TailSent, BroadcastEnds, FeedInv, TailInv, CastQueued
  <2> QED BY <2>1, <2>2, QueueShape DEF FeedInv
<1>3. CASE Restart
  <2>1. queue' = <<>>
    BY <1>3 DEF Restart
  <2> QED BY <2>1 DEF Range
<1>4. CASE UNCHANGED queue
  BY <1>4
<1> QED
  BY <1>1, <1>2, <1>3, <1>4
  DEF Next, Flush, Written, WriteFails, TailReadFails, Switch, LeavePage, TailSendsTo, Receive,
      Link, Reconnect, Lose, Ask, Answer, PollFails, Arrive, feedVars, tailVars, vars

(* Between two starts of the server each record is broadcast at most once  *)
(* and in the order of the rounds, also when reads meet flushes halfway.   *)
THEOREM PushedInOrderHolds == Spec => PushedInOrder
<1>1. FeedInv /\ [Next]_vars =>
        [Range(queue') \subseteq Range(queue) \/ \A r \in Range(queue'), q \in taken : r > q]_vars
  BY QueueStep
<1> QED BY <1>1, FeedInvariant, PTL DEF Spec, PushedInOrder

(* What one step of the feed may do to the page in playback.               *)
StaysStep ==
  hook'.mounted /\ ~hook.handler /\ ~hook'.handler /\ page'.shown # page.shown =>
    \/ \E s \in Socket : sock'[s].inbox # sock[s].inbox /\ sock[s].handler
    \/ \E p \in Poll : poll'[p] # poll[p] /\ poll[p].live

LEMMA PlaybackStep == ASSUME FeedInv, [Next]_vars PROVE StaysStep
<1>1. ASSUME NEW s \in Socket, Receive(s) PROVE StaysStep
  BY <1>1, ReceiveInv DEF StaysStep
<1>2. ASSUME NEW p \in Poll, Arrive(p) PROVE StaysStep
  BY <1>2, ArriveInv DEF StaysStep
<1>3. CASE Switch
  BY <1>3, SwitchInv DEF StaysStep
<1>4. CASE LeavePage
  BY <1>4, LeavePageInv DEF StaysStep
<1>5. CASE UNCHANGED page
  BY <1>5 DEF StaysStep
<1> QED
  BY <1>1, <1>2, <1>3, <1>4, <1>5
  DEF Next, Flush, Written, WriteFails, TailReads, TailReadFails, TailSends, TailSent, Restart,
      TailSendsTo, Link, Reconnect, Lose, Ask, Answer, PollFails, feedVars, vars

(* In playback only an answer or a connection with the handler of live     *)
(* mode moves the page (handleLive and loadHistory are closures over it).  *)
THEOREM PlaybackStaysHolds == Spec => PlaybackStays
<1>1. FeedInv /\ [Next]_vars =>
        [hook'.mounted /\ ~hook.handler /\ ~hook'.handler /\ page'.shown # page.shown =>
           \/ \E s \in Socket : sock'[s].inbox # sock[s].inbox /\ sock[s].handler
           \/ \E p \in Poll : poll'[p] # poll[p] /\ poll[p].live]_vars
  BY PlaybackStep DEF StaysStep
<1> QED BY <1>1, FeedInvariant, PTL DEF Spec, PlaybackStays
=============================================================================
