---------------------------- MODULE GossipPlayback ----------------------------
(***************************************************************************)
(* The gossip page (frontend/src/app/(app)/gossip/page.tsx): the exchanges *)
(* of one round, which follow the newest round in live mode and the slider *)
(* or the clock in playback.  Its loads are those of NodePages.  Loads and *)
(* connections keep the mode they were begun in, being closures: a switch  *)
(* of the mode opens a new connection, and the one before may come to be   *)
(* opened again with its own handler (LiveSocket, PlaybackStays).          *)
(*                                                                         *)
(* Abstractions.  The k-th record of a node is that of round k.  In every  *)
(* round a node exchanges with one other.  The effect that stops the       *)
(* playback at the end is taken together with what makes it run.  Of       *)
(* several connections one is ahead, and the others are together behind.   *)
(***************************************************************************)
EXTENDS NodePages

CONSTANT
  Partner          \* Partner[n]: whom n exchanges with

ASSUME PartnerAssumption == Partner \in [Node -> Node]

VARIABLES
  play,     \* the state of the page beside the histories
  asLive    \* asLive[s]: was the load begun in live mode?
playVars == <<pagesVars, play, asLive>>

Played == 0 .. MaxRecords
Mode   == {"live", "playback"}

PlayTypeOK ==
  /\ play \in [live : BOOLEAN, playing : BOOLEAN, round : Played, top : Played, error : BOOLEAN,
               left : SUBSET Mode,    \* the modes of which connections may be left over
               behind : Records]      \* the last of each node on those behind
  /\ asLive \in [Slot -> BOOLEAN]

PlayBlank == [live |-> TRUE, playing |-> FALSE, round |-> 0, top |-> 0, error |-> FALSE,
              left |-> {}, behind |-> Zero]
AllLive   == [s \in Slot |-> TRUE]

-----------------------------------------------------------------------------
(* What is shown.                                                          *)

GossipShows ==
  CASE view.loading -> "skeleton"
    [] play.error   -> "error"
    [] OTHER        -> "round"

(* The controls beside the switch are there in playback only.              *)
Timeline == GossipShows = "round" /\ ~play.live

GraphNodes == { n \in Node : Shown("histories")[n] >= play.round /\ play.round > 0 }
GraphEdges == { <<n, Partner[n]>> : n \in GraphNodes }

(* The canvas leaves out an exchange with a node that is not in the round. *)
DrawnEdges == { e \in GraphEdges : e[2] \in GraphNodes }

-----------------------------------------------------------------------------
Highest(history) == CHOOSE r \in Played : /\ \A n \in Node : history[n] <= r
                                          /\ r = 0 \/ \E n \in Node : history[n] = r

(* The effect of playback: nothing is left to play.                        *)
Settled(p) == IF p.playing /\ ~p.live /\ p.round >= p.top
              THEN [p EXCEPT !.playing = FALSE] ELSE p

HistoryAsked(s) ==
  /\ LoadStarts("gossip", s)
  /\ asLive' = [asLive EXCEPT ![s] = play.live]
  /\ UNCHANGED play

(* Mutation of HistoryArrives: the mode is not looked at.                  *)
HistoryArrivesAnyMode(s) ==
  /\ view.page = "gossip"
  /\ LoadArrives(s)
  /\ LET top == Highest(load[s].got["histories"])
     IN  play' = Settled([play EXCEPT !.top = top, !.round = top, !.error = FALSE])
  /\ UNCHANGED asLive

(* loadHistory: with the mode of its closure, not the one of now.          *)
HistoryArrives(s) ==
  /\ view.page = "gossip"
  /\ LoadArrives(s)
  /\ LET top == Highest(load[s].got["histories"])
     IN  play' = Settled([play EXCEPT !.top = top, !.error = FALSE,
                                      !.round = IF asLive[s] THEN top ELSE @])
  /\ UNCHANGED asLive

(* Nothing but the error is shown until a load succeeds; playback goes on. *)
HistoryFails(s) ==
  /\ view.page = "gossip"
  /\ LoadFails(s)
  /\ play' = [play EXCEPT !.error = TRUE]
  /\ UNCHANGED asLive

(* The mode of a handler: that of the page, or of a connection left over.  *)
ModeNow  == IF play.live THEN "live" ELSE "playback"
Handlers == {ModeNow} \cup play.left

(* A record comes first on the connection that is ahead, then on others.   *)
ComesFirst(n, r) == r > pushed[n]
ComesAgain(n, r) == ~ComesFirst(n, r) /\ play.left # {} /\ r > play.behind[n]

(* What the handler makes of it: the mode is that of its closure.          *)
Handled(p, mode, r) ==
  IF mode = "live" THEN [p EXCEPT !.round = IF r > @ THEN r ELSE @,
                                  !.top   = IF r > @ THEN r ELSE @]
                   ELSE p

(* handleLive: with the handler of playback, the new record waits for the  *)
(* slider's end to be moved by a load.                                     *)
HandleLive(n) ==
  /\ view.page = "gossip"
  /\ \E r \in 1 .. records[n], mode \in Handlers :
       /\ ComesFirst(n, r) \/ ComesAgain(n, r)
       /\ pushed' = [pushed EXCEPT ![n] = IF r > @ THEN r ELSE @]
       /\ view' = [view EXCEPT !.shown["histories"] =
                                  [Shown("histories") EXCEPT ![n] = IF r > @ THEN r ELSE @]]
       /\ play' = LET p == IF ComesFirst(n, r) THEN play ELSE [play EXCEPT !.behind[n] = r]
                  IN  Settled(Handled(p, mode, r))
  /\ load' = [s \in Slot |-> IF load[s].loader = "gossip" THEN [load[s] EXCEPT !.overtaken = TRUE]
                                                          ELSE load[s]]
  /\ UNCHANGED <<tableVars, records, loadFaults, asLive>>

Tick ==
  /\ play.playing /\ ~play.live /\ play.round < play.top
  /\ play' = Settled([play EXCEPT !.round = @ + 1])
  /\ UNCHANGED <<pagesVars, asLive>>

-----------------------------------------------------------------------------
(* The controls.                                                           *)

Control(p) ==
  /\ Act
  /\ play' = Settled(p)
  /\ UNCHANGED <<table, records, pushed, view, load, loadFaults, asLive>>

(* A connection of the mode before may be left over from now on.           *)
Switched(p) == [p EXCEPT !.left = @ \cup {ModeNow},
                         !.behind = IF p.left = {} THEN pushed ELSE @]

SetLive(on) ==
  /\ GossipShows = "round" /\ on # play.live
  /\ LET p == Switched(play)
     IN  Control(IF on THEN [p EXCEPT !.live = TRUE, !.playing = FALSE, !.round = play.top]
                       ELSE [p EXCEPT !.live = FALSE])

(* At the end, playback starts over.                                       *)
TogglePlayback ==
  /\ Timeline
  /\ Control([play EXCEPT !.round = IF @ >= play.top /\ ~play.playing THEN 0 ELSE @,
                          !.playing = ~@])

PreviousRound ==
  /\ Timeline /\ play.round # 0 /\ ~play.playing
  /\ Control([play EXCEPT !.round = @ - 1])

(* From beyond the end - after a late answer - this goes back to it.       *)
NextRound ==
  /\ Timeline /\ play.round # play.top /\ ~play.playing
  /\ Control([play EXCEPT !.round = IF @ + 1 < play.top THEN @ + 1 ELSE play.top])

HandleSliderChange(r) ==
  /\ Timeline /\ r <= play.top /\ r # play.round
  /\ Control([play EXCEPT !.round = r, !.playing = FALSE])

LoadServed(s) == (\E part \in Part : Served(s, part)) /\ UNCHANGED <<play, asLive>>

GossipStep(s) == HistoryAsked(s) \/ LoadServed(s) \/ HistoryArrives(s) \/ HistoryFails(s)
PlayNext ==
  \/ \E s \in Slot : GossipStep(s)
  \/ \E n \in Node : HandleLive(n)
  \/ Tick
  \/ \E on \in BOOLEAN : SetLive(on)
  \/ TogglePlayback \/ PreviousRound \/ NextRound
  \/ \E r \in Played : HandleSliderChange(r)

-----------------------------------------------------------------------------
(* Properties.                                                             *)

(* While it plays, round after round is shown: whatever loads and pushes   *)
(* arrive meanwhile, only the user skips or repeats one - or what was      *)
(* begun in live mode, which moves the page to a newer round behind the    *)
(* user's back: an answer to a load, or a push to a connection left over.  *)
LiveAnswer == \E s \in Slot : load[s].loader = "gossip" /\ asLive[s] /\ load'[s] = NoLoad
LivePush   == "live" \in play.left /\ <<pushed, play.behind>>' # <<pushed, play.behind>>
PlaybackSkipsNothing ==
  [][play.playing /\ play'.round # play.round /\ tableClicks' = tableClicks /\ Stays
       => play'.round = play.round + 1 \/ LiveAnswer \/ LivePush]_<<play, load, tableClicks>>

(* What a page shows goes back - fewer records of a node, a message that   *)
(* there is nothing, an exchange of the same round less in the graph, an   *)
(* error in place of the graph - only by an answer or a push that was      *)
(* overtaken on its way.  A failing load takes away nothing that is on     *)
(* display, but for the gossip page, where the error covers what the page  *)
(* still holds.                                                            *)
GraphLoses   == play'.round = play.round /\ ~(DrawnEdges \subseteq DrawnEdges')
HoldsLess    == GoesBack \/ GraphLoses
RoundShown   == view.page = "gossip" /\ GossipShows = "round"
RoundGoes    == RoundShown /\ ~RoundShown'
GossipFails  == \E s \in Slot : /\ load[s].loader = "gossip" /\ load'[s] = NoLoad
                                /\ loadFaults' = loadFaults + 1
GoesBackNeedsOverlap ==
  [][/\ HoldsLess /\ Stays => LateArrives
     /\ RoundGoes /\ Stays => GossipFails]_<<view, load, play>>
=============================================================================
