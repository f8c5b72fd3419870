---------------------------- MODULE NodeLifecycle ----------------------------
(***************************************************************************)
(* Start and stop of a BloomFL node: NodeController.start_and_run with its *)
(* signal handlers and the metrics buffer (node/controller.py), the        *)
(* listening half of the TCP transport (transport/tcp_transport.py), and   *)
(* the thread of zeroconf's browser, which shares a lock with the main     *)
(* thread (discovery/mdns.py).                                             *)
(*                                                                         *)
(* The signal handler runs in the main thread, on top of whatever that     *)
(* thread is doing: handlers is the stack of the handlers in progress, and *)
(* only the topmost frame moves.  None of the locks is reentrant.  A frame *)
(* is numbered by its depth, the learning loop being 1.                    *)
(*                                                                         *)
(* Abstractions.  A metrics record is its round.  Of what a round does     *)
(* before it records, the two reads of the peer registry are steps;        *)
(* GossipExchange has the exchanges of a round and the connection threads, *)
(* and Discovery what the callbacks do to the registry.                    *)
(***************************************************************************)
EXTENDS Integers, Sequences

CONSTANTS
  FlushEvery,    \* flush_every
  MaxRounds,     \* bound: rounds of the learning loop
  MaxSignals     \* bound: signals delivered

ASSUME LifecycleAssumption ==
  /\ FlushEvery \in Nat \ {0}
  /\ MaxRounds \in Nat
  /\ MaxSignals \in Nat

Lock  == {"event", "server", "metrics", "registry"}
Free  == 0
Frame == 1 .. MaxSignals + 1
Round == 1 .. MaxRounds

VARIABLES
  loop,      \* pc of the main thread below the handlers
  round,     \* round_num
  handlers,  \* the stack of signal handlers, each at a pc of stop()
  signals,   \* number of signals delivered
  lock,      \* the frame that holds each lock, or Free
  stopping,  \* _stop_event is set
  buffer,    \* NodeMetrics._buffer
  file,      \* the metrics file
  lost,      \* history: records a failed write has dropped
  server,    \* the TCP server
  browser    \* the thread of the mDNS browser

vars == <<loop, round, handlers, signals, lock, stopping, buffer, file, lost, server, browser>>

LoopPc == {"new", "bound", "served", "check", "work", "peers", "evaluate", "count",
           "record", "append", "write", "clear", "unlock", "wait", "armed", "sleep",
           "woken", "exited", "killed"}

StopPc == {"event", "set", "server", "close", "join", "browser", "flush", "write",
           "clear", "unlock"}

(* A thread in "callback" has looked a service up and wants the lock of    *)
(* the registry; callbacks queued behind that one want it as well.         *)
Browser == {"none", "idle", "callback", "over"}

Server == [sock : {"none", "listening", "closed"}, running : BOOLEAN,
           thread : {"none", "check", "select", "accept", "over"}]

TypeOK ==
  /\ loop \in LoopPc
  /\ round \in 0 .. MaxRounds
  /\ handlers \in Seq(StopPc) /\ Len(handlers) <= MaxSignals
  /\ signals \in 0 .. MaxSignals
  /\ lock \in [Lock -> {Free} \cup Frame]
  /\ stopping \in BOOLEAN
  /\ buffer \in Seq(Round) /\ Len(buffer) <= FlushEvery
  /\ file \in Seq(Round)
  /\ lost \subseteq Round
  /\ server \in Server
  /\ browser \in Browser

Init ==
  /\ loop = "new"
  /\ round = 0
  /\ handlers = <<>>
  /\ signals = 0
  /\ lock = [l \in Lock |-> Free]
  /\ stopping = FALSE
  /\ buffer = <<>>
  /\ file = <<>>
  /\ lost = {}
  /\ server = [sock |-> "none", running |-> FALSE, thread |-> "none"]
  /\ browser = "none"

-----------------------------------------------------------------------------
(* Helpers.                                                                *)

Depth == Len(handlers)
Top   == Depth + 1

Acquire(l) == lock[l] = Free /\ lock' = [lock EXCEPT ![l] = Top]
Release(l) == lock' = [lock EXCEPT ![l] = Free]

(* The learning loop moves from pc p to pc q.                              *)
LoopStep(p, q) ==
  /\ handlers = <<>>
  /\ loop = p
  /\ loop' = q
  /\ UNCHANGED <<handlers, signals>>

(* The topmost handler moves from pc p to pc q.                            *)
StopStep(p, q) ==
  /\ handlers # <<>>
  /\ handlers[Depth] = p
  /\ handlers' = [handlers EXCEPT ![Depth] = q]
  /\ UNCHANGED <<loop, signals>>

Elements(s) == { s[n] : n \in 1 .. Len(s) }

(* Mutation of WriteBuffer: the buffer is cleared before it is written.    *)
WriteBufferCleared ==
  /\ buffer' = <<>>
  /\ UNCHANGED <<file, lost>>

(* _write_and_clear up to its finally clause: the buffer is appended to    *)
(* the file, or an OSError leaves only some first records there.           *)
WriteBuffer ==
  /\ \E n \in 0 .. Len(buffer) :
       /\ file' = file \o SubSeq(buffer, 1, n)
       /\ lost' = lost \cup Elements(SubSeq(buffer, n + 1, Len(buffer)))
  /\ UNCHANGED buffer

(* Mutation of ClearBuffer: the buffer is kept.                            *)
ClearBufferNever == UNCHANGED buffer

ClearBuffer == buffer' = <<>>

-----------------------------------------------------------------------------
(* start_and_run.                                                          *)

(* start_server: bind and listen, then start the accept thread.            *)
Bind ==
  /\ LoopStep("new", "bound")
  /\ server' = [server EXCEPT !.sock = "listening", !.running = TRUE]
  /\ UNCHANGED <<round, lock, stopping, buffer, file, lost, browser>>

(* The address is in use: the exception ends the process.                  *)
BindFails ==
  /\ LoopStep("new", "killed")
  /\ UNCHANGED <<round, lock, stopping, buffer, file, lost, server, browser>>

StartThread ==
  /\ LoopStep("bound", "served")
  /\ server' = [server EXCEPT !.thread = "check"]
  /\ UNCHANGED <<round, lock, stopping, buffer, file, lost, browser>>

(* Discovery is started, or fails to and is only logged; then the signal   *)
(* handlers are installed.                                                 *)
InstallHandlers ==
  /\ LoopStep("served", "check")
  /\ browser' \in {"idle", "none"}
  /\ UNCHANGED <<round, lock, stopping, buffer, file, lost, server>>

(* A signal before that has its default effect.                            *)
SignalKills ==
  /\ loop \in {"new", "bound", "served"}
  /\ signals < MaxSignals
  /\ signals' = signals + 1
  /\ loop' = "killed"
  /\ server' = [server EXCEPT !.sock = "closed", !.thread = "over"]
  /\ UNCHANGED <<round, handlers, lock, stopping, buffer, file, lost, browser>>

-----------------------------------------------------------------------------
(* The learning loop (run, _run_round).                                    *)

(* Mutation of CheckStop: the loop is left only by an exception.           *)
CheckStopNever ==
  /\ round < MaxRounds
  /\ LoopStep("check", "work")
  /\ round' = round + 1
  /\ UNCHANGED <<lock, stopping, buffer, file, lost, server, browser>>

(* Another round, or run() returns and with it main(): the process ends,   *)
(* and what is in its buffer was never written.                            *)
CheckStop ==
  /\ \/ /\ ~stopping
        /\ round < MaxRounds
        /\ LoopStep("check", "work")
        /\ round' = round + 1
        /\ UNCHANGED buffer
     \/ /\ stopping
        /\ LoopStep("check", "exited")
        /\ buffer' = <<>>
        /\ UNCHANGED round
  /\ UNCHANGED <<lock, stopping, file, lost, server, browser>>

(* Training, gossip and evaluation; or an exception that skips the rest of *)
(* the round, its record and its sleep.  A round with gossip reads the     *)
(* registry (get_peers), and every round does before it records            *)
(* (peer_count).                                                           *)
Work ==
  /\ \/ LoopStep("work", "evaluate")
     \/ LoopStep("work", "check")
     \/ LoopStep("evaluate", "check")
  /\ UNCHANGED <<round, lock, stopping, buffer, file, lost, server, browser>>

RegistryLocks ==
  /\ \/ LoopStep("work", "peers")
     \/ LoopStep("evaluate", "count")
  /\ Acquire("registry")
  /\ UNCHANGED <<round, stopping, buffer, file, lost, server, browser>>

RegistryUnlocks ==
  /\ \/ LoopStep("peers", "evaluate")
     \/ LoopStep("count", "record")
  /\ Release("registry")
  /\ UNCHANGED <<round, stopping, buffer, file, lost, server, browser>>

(* NodeMetrics.record.                                                     *)
RecordLocks ==
  /\ LoopStep("record", "append")
  /\ Acquire("metrics")
  /\ UNCHANGED <<round, stopping, buffer, file, lost, server, browser>>

(* Mutation of RecordAppends: the threshold is tested before the append.   *)
RecordAppendsLate ==
  /\ LoopStep("append", IF Len(buffer) >= FlushEvery THEN "write" ELSE "unlock")
  /\ buffer' = Append(buffer, round)
  /\ UNCHANGED <<round, lock, stopping, file, lost, server, browser>>

RecordAppends ==
  /\ LoopStep("append", IF Len(buffer) + 1 >= FlushEvery THEN "write" ELSE "unlock")
  /\ buffer' = Append(buffer, round)
  /\ UNCHANGED <<round, lock, stopping, file, lost, server, browser>>

RecordWrites ==
  /\ LoopStep("write", "clear")
  /\ WriteBuffer
  /\ UNCHANGED <<round, lock, stopping, server, browser>>

RecordClears ==
  /\ LoopStep("clear", "unlock")
  /\ ClearBuffer
  /\ UNCHANGED <<round, lock, stopping, file, lost, server, browser>>

RecordUnlocks ==
  /\ LoopStep("unlock", "wait")
  /\ Release("metrics")
  /\ UNCHANGED <<round, stopping, buffer, file, lost, server, browser>>

(* _stop_event.wait(timeout): the lock of the event is held while its flag *)
(* is tested, released for the wait, and taken again after it.             *)
WaitLocks ==
  /\ \/ LoopStep("wait", "armed")
     \/ LoopStep("sleep", "woken")
  /\ Acquire("event")
  /\ UNCHANGED <<round, stopping, buffer, file, lost, server, browser>>

WaitReleases ==
  /\ \/ LoopStep("armed", IF stopping THEN "check" ELSE "sleep")
     \/ LoopStep("woken", "check")
  /\ Release("event")
  /\ UNCHANGED <<round, stopping, buffer, file, lost, server, browser>>

-----------------------------------------------------------------------------
(* The signal handler: NodeController.stop.                                *)

Signal ==
  /\ loop \notin {"new", "bound", "served", "exited", "killed"}
  /\ signals < MaxSignals
  /\ signals' = signals + 1
  /\ handlers' = Append(handlers, "event")
  /\ UNCHANGED <<loop, round, lock, stopping, buffer, file, lost, server, browser>>

StopLocksEvent ==
  /\ StopStep("event", "set")
  /\ Acquire("event")
  /\ UNCHANGED <<round, stopping, buffer, file, lost, server, browser>>

StopSetsEvent ==
  /\ StopStep("set", "server")
  /\ stopping' = TRUE
  /\ Release("event")
  /\ UNCHANGED <<round, buffer, file, lost, server, browser>>

(* stop_server.                                                            *)
StopLocksServer ==
  /\ StopStep("server", "close")
  /\ Acquire("server")
  /\ UNCHANGED <<round, stopping, buffer, file, lost, server, browser>>

StopCloses ==
  /\ StopStep("close", "join")
  /\ server' = [server EXCEPT !.running = FALSE, !.sock = "closed"]
  /\ Release("server")
  /\ UNCHANGED <<round, stopping, buffer, file, lost, browser>>

(* join(timeout=5.0), then cancel() of the browser asks its thread to end  *)
(* after the callbacks it still has.                                       *)
StopJoins ==
  /\ StopStep("join", "browser")
  /\ browser' = IF browser = "idle" THEN "over" ELSE browser
  /\ UNCHANGED <<round, lock, stopping, buffer, file, lost, server>>

(* cancel() joins the thread without a timeout; then the service is        *)
(* withdrawn.                                                              *)
StopCancels ==
  /\ StopStep("browser", "flush")
  /\ browser \in {"none", "over"}
  /\ UNCHANGED <<round, lock, stopping, buffer, file, lost, server, browser>>

(* NodeMetrics.flush.                                                      *)
StopLocksMetrics ==
  /\ StopStep("flush", IF buffer = <<>> THEN "unlock" ELSE "write")
  /\ Acquire("metrics")
  /\ UNCHANGED <<round, stopping, buffer, file, lost, server, browser>>

StopWrites ==
  /\ StopStep("write", "clear")
  /\ WriteBuffer
  /\ UNCHANGED <<round, lock, stopping, server, browser>>

StopClears ==
  /\ StopStep("clear", "unlock")
  /\ ClearBuffer
  /\ UNCHANGED <<round, lock, stopping, file, lost, server, browser>>

(* The handler returns to the frame it interrupted.                        *)
StopReturns ==
  /\ handlers # <<>>
  /\ handlers[Depth] = "unlock"
  /\ handlers' = SubSeq(handlers, 1, Depth - 1)
  /\ Release("metrics")
  /\ UNCHANGED <<loop, round, signals, stopping, buffer, file, lost, server, browser>>

-----------------------------------------------------------------------------
(* The accept thread (_accept_loop).                                       *)

(* Mutation of AcceptChecks: it ends only with the socket.                 *)
AcceptChecksNothing ==
  /\ server.thread = "check"
  /\ server' = [server EXCEPT !.thread = "select"]
  /\ UNCHANGED <<loop, round, handlers, signals, lock, stopping, buffer, file, lost, browser>>

AcceptChecks ==
  /\ server.thread = "check"
  /\ server' = [server EXCEPT !.thread =
                  IF server.running /\ server.sock = "listening" THEN "select" ELSE "over"]
  /\ UNCHANGED <<loop, round, handlers, signals, lock, stopping, buffer, file, lost, browser>>

(* select() times out, reports a connection, or fails on a closed socket.  *)
AcceptSelects ==
  /\ server.thread = "select"
  /\ \/ server' = [server EXCEPT !.thread = "check"]
     \/ server.sock = "listening" /\ server' = [server EXCEPT !.thread = "accept"]
     \/ server.sock = "closed" /\ server' = [server EXCEPT !.thread = "over"]
  /\ UNCHANGED <<loop, round, handlers, signals, lock, stopping, buffer, file, lost, browser>>

(* accept() hands the connection to a thread of its own, or an OSError -   *)
(* no more descriptors, the socket closed - ends the loop.                 *)
Accepts ==
  /\ server.thread = "accept"
  /\ \/ /\ server.sock = "listening"
        /\ server' = [server EXCEPT !.thread = "check"]
     \/ server' = [server EXCEPT !.thread = "over"]
  /\ UNCHANGED <<loop, round, handlers, signals, lock, stopping, buffer, file, lost, browser>>

-----------------------------------------------------------------------------
(* The browser's thread (_BloomFLListener): a service appears, changes or  *)
(* goes, and the callback changes the registry under its lock.             *)

BrowserCalls ==
  /\ browser = "idle"
  /\ browser' = "callback"
  /\ UNCHANGED <<loop, round, handlers, signals, lock, stopping, buffer, file, lost, server>>

BrowserUpdates ==
  /\ browser = "callback"
  /\ lock["registry"] = Free
  /\ browser' = IF \E i \in 1 .. Depth : handlers[i] = "browser" THEN "over" ELSE "idle"
  /\ UNCHANGED <<loop, round, handlers, signals, lock, stopping, buffer, file, lost, server>>

-----------------------------------------------------------------------------
StartUp == Bind \/ BindFails \/ StartThread \/ InstallHandlers

LearningLoop == \/ CheckStop \/ Work \/ RegistryLocks \/ RegistryUnlocks
                \/ RecordLocks \/ RecordAppends \/ RecordWrites \/ RecordClears
                \/ RecordUnlocks \/ WaitLocks \/ WaitReleases

StopCall == \/ StopLocksEvent \/ StopSetsEvent
            \/ StopLocksServer \/ StopCloses \/ StopJoins \/ StopCancels
            \/ StopLocksMetrics \/ StopWrites \/ StopClears \/ StopReturns

AcceptThread == AcceptChecks \/ AcceptSelects \/ Accepts

(* The topmost frame waits for a lock that a frame below it holds, or for  *)
(* the browser's thread, which does.                                       *)
SelfDeadlock ==
  \/ /\ handlers = <<>>
     /\ \/ loop = "record" /\ lock["metrics"] # Free
        \/ loop \in {"wait", "sleep"} /\ lock["event"] # Free
  \/ /\ handlers # <<>>
     /\ \/ handlers[Depth] = "event" /\ lock["event"] # Free
        \/ handlers[Depth] = "server" /\ lock["server"] # Free
        \/ handlers[Depth] = "browser" /\ browser = "callback" /\ lock["registry"] # Free
        \/ handlers[Depth] = "flush" /\ lock["metrics"] # Free

(* The process has ended, is deadlocked, or has used up its rounds.        *)
Ended ==
  /\ \/ loop \in {"exited", "killed"}
     \/ SelfDeadlock
     \/ loop = "check" /\ round = MaxRounds /\ handlers = <<>>
  /\ UNCHANGED vars

Next ==
  \/ StartUp \/ SignalKills \/ LearningLoop
  \/ Signal \/ StopCall
  \/ AcceptThread
  \/ BrowserCalls \/ BrowserUpdates
  \/ Ended

Spec == Init /\ [][Next]_vars

(* The three threads are scheduled; select() and wait() have timeouts.     *)
(* Nothing obliges a service to appear.                                    *)
Fairness ==
  /\ WF_vars(StartUp)
  /\ WF_vars(LearningLoop)
  /\ WF_vars(StopCall)
  /\ WF_vars(AcceptThread)
  /\ WF_vars(BrowserUpdates)

FairSpec == Spec /\ Fairness
-----------------------------------------------------------------------------
(* Properties.                                                             *)

(* The metrics file has every round at most once and in order, however     *)
(* flushes by the loop, by a signal handler and by a nested one interleave *)
(* with each other and with failing writes.                                *)
FileInOrder ==
  \A m, n \in 1 .. Len(file) : m < n => file[m] < file[n]

(* What has been handed to record() is in the buffer or in the file from   *)
(* then on; only a failed write drops records, and no flush - not one that *)
(* finds the buffer of another frame's flush - drops any besides.  The end *)
(* of the process takes one record at most: that of the round the signal   *)
(* interrupted, recorded after the handler's "flush any buffered metrics   *)
(* before exit" (node/controller.py:243).                                  *)
Accounted == Elements(file) \cup Elements(buffer) \cup lost
NothingVanishes ==
  [][\A r \in Accounted : r \in Accounted' \/ (loop' = "exited" /\ r = round)]_vars

(* A node that was told to stop does stop, unless the signal hit the main  *)
(* thread inside a lock that its handler needs as well, or inside that of  *)
(* the registry while zeroconf's thread waited for it: the handler joins   *)
(* that thread.                                                            *)
StopEnds == stopping ~> (loop = "exited" \/ SelfDeadlock)

(* The accept thread ends once the server is told to stop.                 *)
AcceptThreadEnds ==
  (server.thread # "none" /\ ~server.running) ~> server.thread = "over"

(* "Handlers for graceful shutdown" (node/controller.py:441): a signal     *)
(* never leaves the main thread waiting for itself.                        *)
GracefulShutdown == ~SelfDeadlock
=============================================================================
