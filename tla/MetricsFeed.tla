---------------------------- MODULE MetricsFeed ----------------------------
(***************************************************************************)
(* The way of a metrics record from a node to a page of the dashboard: the *)
(* node appends to its file (node/controller.py), the broadcaster tails    *)
(* the file and pushes what it finds (api/websocket/broadcaster.py), the   *)
(* page also polls the whole history (api/services/metrics_service.py) and *)
(* merges both (frontend/src/app/(app)/gossip/page.tsx).                   *)
(*                                                                         *)
(* Abstractions.  One node and one page: files and pages are independent   *)
(* of each other.  A record is its round.  A line of the file is two       *)
(* units, since a reader may find any first part of what is being written; *)
(* the second half is the one with the newline.  The handler a page passes *)
(* to LiveSocket is its switch, TRUE for live mode, FALSE for playback.    *)
(* The slider, which only the user moves, is left out.                     *)
(***************************************************************************)
EXTENDS LiveSocket, SequencesExt

CONSTANTS
  MaxRounds,     \* bound: records written
  MaxBatch,      \* records in one flush
  MaxPolls       \* bound: polls under way at a time

ASSUME FeedAssumption ==
  /\ MaxRounds \in Nat /\ MaxBatch \in Nat \ {0}
  /\ MaxPolls \in Nat \ {0}
  /\ Handler = BOOLEAN /\ Message = 1 .. MaxRounds

Round == 1 .. MaxRounds
Poll  == 1 .. MaxPolls

Unit == Round \X {1, 2}

(* What is written of the n records after the last one.                    *)
Lines(last, n) == [k \in 1 .. 2 * n |-> <<last + ((k + 1) \div 2), 2 - (k % 2)>>]

VARIABLES
  file,      \* the metrics file
  out,       \* what the node is still to write of a flush
  done,      \* the last round that was flushed
  changed,   \* awatch has a change to report
  pos,       \* positions[path]
  queue,     \* records read and not yet broadcast
  taken,     \* history: records the tail has read since the server's start
  torn,      \* history: records of which it read only the first half
  page,      \* allHistory, maxRound and round of the page
  poll       \* the requests of loadHistory

nodeVars == <<file, out, done>>
tailVars == <<pos, queue, taken, torn>>
feedVars == <<nodeVars, changed, tailVars, page, poll>>
vars == <<socketVars, feedVars>>

PollCall == [pc : {"idle", "asked", "answered"}, live : BOOLEAN, recs : Seq(Round)]

TypeOK ==
  /\ SocketTypeOK
  /\ file \in Seq(Unit) /\ out \in Seq(Unit)
  /\ done \in 0 .. MaxRounds
  /\ changed \in BOOLEAN
  /\ pos \in 0 .. Len(file)
  /\ queue \in Seq(Round)
  /\ taken \subseteq Round /\ torn \subseteq Round
  /\ page \in [recs : Seq(Round), top : 0 .. MaxRounds, shown : 0 .. MaxRounds]
  /\ poll \in [Poll -> PollCall]

Idle == [pc |-> "idle", live |-> FALSE, recs |-> <<>>]
Blank == [recs |-> <<>>, top |-> 0, shown |-> 0]

Init ==
  /\ SocketInit(TRUE)
  /\ file = <<>> /\ out = <<>> /\ done = 0
  /\ changed = FALSE /\ pos = 0 /\ queue = <<>>
  /\ taken = {} /\ torn = {}
  /\ page = Blank
  /\ poll = [p \in Poll |-> IF p = 1 THEN [Idle EXCEPT !.pc = "asked", !.live = TRUE] ELSE Idle]

-----------------------------------------------------------------------------
(* Helpers.                                                                *)

(* Record r is a line of s by itself.                                      *)
HasLine(s, r) ==
  \E i \in 1 .. Len(s) - 1 :
    /\ s[i] = <<r, 1>> /\ s[i + 1] = <<r, 2>>
    /\ i = 1 \/ s[i - 1][2] = 2

(* The records that json.loads finds in the lines of s.                    *)
Parsed(s) ==
  LET upTo[n \in 0 .. MaxRounds] ==
        IF n = 0 THEN <<>>
        ELSE IF HasLine(s, n) THEN Append(upTo[n - 1], n) ELSE upTo[n - 1]
  IN  upTo[MaxRounds]

Highest(recs) == IF recs = <<>> THEN 0 ELSE Last(recs)

(* Everything of LiveSocket but its count of bounded events.               *)
links == <<sock, timer, hook, channel, cast, changes>>

-----------------------------------------------------------------------------
(* The node.                                                               *)

(* A flush of the next records: "\n".join(buffer) + "\n".                  *)
Flush ==
  /\ out = <<>>
  /\ \E n \in 1 .. MaxBatch :
       /\ done + n <= MaxRounds
       /\ done' = done + n
       /\ out' = Lines(done, n)
  /\ UNCHANGED <<socketVars, file, changed, tailVars, page, poll>>

(* Some more of it reaches the file.                                       *)
Written ==
  /\ out # <<>>
  /\ file' = Append(file, Head(out))
  /\ out' = Tail(out)
  /\ changed' = TRUE
  /\ UNCHANGED <<socketVars, done, tailVars, page, poll>>

(* An OSError: the rest is dropped.                                        *)
WriteFails ==
  /\ out # <<>>
  /\ Event
  /\ out' = <<>>
  /\ UNCHANGED <<links, file, done, changed, tailVars, page, poll>>

-----------------------------------------------------------------------------
(* The broadcaster.                                                        *)

TailIdle == queue = <<>> /\ cast = <<>>

(* Mutation of Unread: every read starts at the beginning of the file.     *)
UnreadAll == file

(* What a read from the saved position finds.                              *)
Unread == SubSeq(file, pos + 1, Len(file))

(* Mutation of Takes: only the last record of a read is broadcast.         *)
TakesLatest(recs) ==
  /\ queue' = IF recs = <<>> THEN recs ELSE <<Last(recs)>>
  /\ taken' = taken \cup Range(queue')

Takes(recs) == queue' = recs /\ taken' = taken \cup Range(recs)

(* _process_new_lines, up to the first broadcast: read from the saved      *)
(* position to the end, a half-written line included.                      *)
TailReads ==
  /\ TailIdle /\ changed
  /\ changed' = FALSE
  /\ pos' = Len(file)
  /\ Takes(Parsed(Unread))
  /\ torn' = torn \cup { r \in Round : Last(file) = <<r, 1>> }
  /\ UNCHANGED <<socketVars, nodeVars, page, poll>>

(* An OSError: until the next change, nothing is read.                     *)
TailReadFails ==
  /\ TailIdle /\ changed
  /\ Event
  /\ changed' = FALSE
  /\ UNCHANGED <<links, nodeVars, tailVars, page, poll>>

(* broadcast() of the next record; with nobody connected it returns.       *)
TailSends ==
  /\ queue # <<>> /\ cast = <<>>
  /\ \/ BroadcastBegins(Head(queue)) /\ UNCHANGED queue
     \/ channel = {} /\ queue' = Tail(queue) /\ UNCHANGED socketVars
  /\ UNCHANGED <<nodeVars, changed, pos, taken, torn, page, poll>>

TailSendsTo(s) ==
  /\ SendTo(s)
  /\ UNCHANGED feedVars

TailSent ==
  /\ BroadcastEnds
  /\ queue' = Tail(queue)
  /\ UNCHANGED <<nodeVars, changed, pos, taken, torn, page, poll>>

(* The API server is restarted: connections, positions and polls are gone. *)
Restart ==
  /\ Event
  /\ AllCut
  /\ changed' = FALSE
  /\ pos' = 0 /\ queue' = <<>> /\ taken' = {} /\ torn' = {}
  /\ poll' = [p \in Poll |-> IF poll[p].pc = "asked" THEN Idle ELSE poll[p]]
  /\ UNCHANGED <<nodeVars, page>>

-----------------------------------------------------------------------------
(* The page.                                                               *)

(* Mutation of Merge: the mode is not looked at.                           *)
MergeAlways(r, live) ==
  page' = [recs  |-> IF Highest(page.recs) = r THEN page.recs ELSE Append(page.recs, r),
           top   |-> IF r > page.top THEN r ELSE page.top,
           shown |-> IF r > page.shown THEN r ELSE page.shown]

(* handleLive of record r, by the handler of the given mode.               *)
Merge(r, live) ==
  page' = [recs  |-> IF Highest(page.recs) = r THEN page.recs ELSE Append(page.recs, r),
           top   |-> IF live /\ r > page.top THEN r ELSE page.top,
           shown |-> IF live /\ r > page.shown THEN r ELSE page.shown]

(* ws.onmessage                                                            *)
Receive(s) ==
  /\ sock[s].client = "open" /\ sock[s].inbox # <<>>
  /\ sock' = [sock EXCEPT ![s].inbox = Tail(@)]
  /\ IF hook.mounted THEN Merge(Head(sock[s].inbox), sock[s].handler) ELSE UNCHANGED page
  /\ UNCHANGED <<timer, hook, channel, cast, changes, events>>
  /\ UNCHANGED <<nodeVars, changed, tailVars, poll>>

Asked(live) == [Idle EXCEPT !.pc = "asked", !.live = live]

(* loadHistory, by its interval.                                           *)
Ask(p) ==
  /\ hook.mounted
  /\ poll[p].pc = "idle"
  /\ poll' = [poll EXCEPT ![p] = Asked(hook.handler)]
  /\ UNCHANGED <<socketVars, nodeVars, changed, tailVars, page>>

(* The server reads the file: get_node_history.                            *)
Answer(p) ==
  /\ poll[p].pc = "asked"
  /\ poll' = [poll EXCEPT ![p].pc = "answered", ![p].recs = Parsed(file)]
  /\ UNCHANGED <<socketVars, nodeVars, changed, tailVars, page>>

PollFails(p) ==
  /\ poll[p].pc # "idle"
  /\ Event
  /\ poll' = [poll EXCEPT ![p] = Idle]
  /\ UNCHANGED <<links, nodeVars, changed, tailVars, page>>

(* Mutation of Loaded: the records on display win over the answer's.       *)
LoadedIfLonger(p) ==
  page' = [recs  |-> IF Len(poll[p].recs) > Len(page.recs) THEN poll[p].recs ELSE page.recs,
           top   |-> Highest(poll[p].recs),
           shown |-> IF poll[p].live THEN Highest(poll[p].recs) ELSE page.shown]

(* Mutation of Loaded: the number of rounds counts one too many.           *)
LoadedOneAhead(p) ==
  page' = [recs  |-> poll[p].recs,
           top   |-> Highest(poll[p].recs) + 1,
           shown |-> IF poll[p].live THEN Highest(poll[p].recs) ELSE page.shown]

(* The answer replaces what the page has.                                  *)
Loaded(p) ==
  page' = [recs  |-> poll[p].recs,
           top   |-> Highest(poll[p].recs),
           shown |-> IF poll[p].live THEN Highest(poll[p].recs) ELSE page.shown]

Arrive(p) ==
  /\ poll[p].pc = "answered"
  /\ poll' = [poll EXCEPT ![p] = Idle]
  /\ Loaded(p)
  /\ UNCHANGED <<socketVars, nodeVars, changed, tailVars>>

(* The switch: both effects that depend on the mode run again, and the     *)
(* history is asked for at once.                                           *)
Switch ==
  /\ HandlerChanges(~hook.handler)
  /\ \E p \in Poll :
       /\ poll[p].pc = "idle"
       /\ poll' = [poll EXCEPT ![p] = Asked(~hook.handler)]
  /\ page' = IF hook.handler THEN page ELSE [page EXCEPT !.shown = page.top]
  /\ UNCHANGED <<nodeVars, changed, tailVars>>

(* A step of the hook or of a connection that the page does not see.       *)
Link(s)      == SocketStep(s) /\ UNCHANGED feedVars
Reconnect(s) == TimerFires(s) /\ UNCHANGED feedVars
Lose(s)      == Dropped(s) /\ UNCHANGED feedVars

(* The state of the page goes with it, and answers to it are not looked at. *)
LeavePage ==
  /\ Unmount
  /\ page' = Blank
  /\ poll' = [p \in Poll |-> Idle]
  /\ UNCHANGED <<nodeVars, changed, tailVars>>

Server == TailReads \/ TailSends \/ (\E s \in Socket : TailSendsTo(s)) \/ TailSent

Next ==
  \/ Flush \/ Written \/ WriteFails
  \/ TailReads \/ TailReadFails \/ TailSends \/ TailSent \/ Restart
  \/ Switch \/ LeavePage
  \/ \E s \in Socket : TailSendsTo(s) \/ Receive(s) \/ Link(s) \/ Reconnect(s) \/ Lose(s)
  \/ \E p \in Poll : Ask(p) \/ Answer(p) \/ PollFails(p) \/ Arrive(p)

Spec == Init /\ [][Next]_vars

(* The server's event loop and the browser's are scheduled, intervals and  *)
(* timers fire, and requests are answered.  Nothing is assumed of the node *)
(* or of the user.                                                         *)
Fairness ==
  /\ WF_vars(Server)
  /\ \A s \in Socket : WF_vars(Link(s) \/ Reconnect(s) \/ Receive(s))
  /\ \A p \in Poll : WF_vars(Ask(p) \/ Answer(p) \/ Arrive(p))

FairSpec == Spec /\ Fairness

-----------------------------------------------------------------------------
(* Properties.                                                             *)

(* Between two starts of the server the tail broadcasts each record at     *)
(* most once and in the order of the rounds, also when lines are torn or   *)
(* a read meets a flush.                                                   *)
PushedInOrder ==
  [][Range(queue') \subseteq Range(queue) \/ \A r \in Range(queue'), q \in taken : r > q]_vars

(* The tail skips nothing but the records whose line it met half-written:  *)
(* what it has read past and not taken was torn by a read.                 *)
SkippedWasTorn == Range(Parsed(SubSeq(file, 1, pos))) \subseteq taken \cup torn

(* In playback the round on display is not moved, except by an answer or a *)
(* connection that still has the handler of live mode.  The connection     *)
(* that outlives a switch keeps that handler for good, so that the code    *)
(* does not promise more.                                                  *)
PlaybackStays ==
  [][hook'.mounted /\ ~hook.handler /\ ~hook'.handler /\ page'.shown # page.shown =>
       \/ \E s \in Socket : sock'[s].inbox # sock[s].inbox /\ sock[s].handler
       \/ \E p \in Poll : poll'[p] # poll[p] /\ poll[p].live]_vars

(* Polling heals: whatever the tail skipped, a glued line hid or a lost    *)
(* connection missed, the page ends up with the history that the file      *)
(* holds, and in live mode at its last round.                              *)
PageCatchesUp ==
  <>[](hook.mounted =>
         /\ page.recs = Parsed(file)
         /\ hook.handler => page.shown = Highest(Parsed(file)))
=============================================================================
