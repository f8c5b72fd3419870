------------------------------- MODULE Dashboard -------------------------------
(***************************************************************************)
(* One tab of a browser at the dashboard.  It has one page mounted at a    *)
(* time; leaving it forgets its state and the answers it waits for, while  *)
(* the layout around it and the server go on: what the simulation service  *)
(* does, what the nodes record, and the configuration, which other tabs    *)
(* change, too.                                                            *)
(*                                                                         *)
(* Abstractions.  A tour is the pages that are visited, the same page      *)
(* twice standing for a reload.  A page is not left before the server has  *)
(* taken a request that changes something.  What no page of the rest of a  *)
(* tour reads is left alone.  A restart that the configuration prevents is *)
(* followed at the configuration's page only.                              *)
(***************************************************************************)
EXTENDS AppShell, GossipPlayback, SimulationPage, ConfigPage, FastSamPage

CONSTANTS
  Tour,        \* bound: the sequences of pages that are visited
  Here,        \* this tab
  ShellPage    \* bound: the pages where the sidebar and the window are touched

Page == NodePage \cup {"simulation", "config", "yolo", "fastsam"}

ASSUME DashboardAssumption ==
  /\ Here \in Tab /\ ShellPage \subseteq Page
  /\ \A t \in Tour : t \in Seq(Page) /\ t # <<>>

VARIABLE tour    \* the rest of the tour
vars == <<tour, shellVars, apiVars, simVars, configVars, samVars, playVars>>

TypeOK ==
  /\ \E t \in Tour : \E i \in DOMAIN t : tour = SubSeq(t, i, Len(t))
  /\ ShellTypeOK /\ SimTypeOK /\ ConfigTypeOK /\ SamTypeOK
  /\ PagesTypeOK /\ PlayTypeOK

page == Head(tour)
Reads(pages) == Range(tour) \cap pages # {}

(* The clicks at the detection pages: some for the FastSAM page, which has *)
(* the code of the YOLO page, and none after other pages.                  *)
DetSpent ==
  CASE tour = <<"yolo">>    -> [clicks |-> 0, picks |-> 0]
    [] tour = <<"fastsam">> -> [clicks |-> 1, picks |-> 0]
    [] OTHER                -> [clicks |-> MaxClicks, picks |-> MaxPicks]

Init ==
  /\ tour \in Tour
  /\ ShellInit /\ (shell.mobile => page \in ShellPage)
  /\ ApiInit /\ simPage = SimBlank /\ simPoll = SimNoPolls /\ faults = 0
  /\ ConfigInit
  /\ det = DetBlank /\ asked = NoneAsked /\ list = ListMounted /\ crossed = FALSE
  /\ detCount = DetSpent
  /\ sam = IF page = "fastsam" THEN SamMounted ELSE SamBlank
  /\ PagesInit(page, shell.mobile)
  /\ play = PlayBlank /\ asLive = AllLive

-----------------------------------------------------------------------------
(* The pages.                                                              *)

OtherThanSimulation == <<tour, shellVars, configVars, samVars, playVars>>
OtherThanConfig     == <<tour, shellVars, apiVars, simVars, samVars, playVars>>
OtherThanDetection  == <<tour, shellVars, apiVars, simVars, configVars, playVars>>
OtherThanNodes      == <<tour, shellVars, apiVars, simVars, configVars, samVars>>

AtSimulation == page = "simulation" /\ SimNext /\ UNCHANGED OtherThanSimulation
AtConfig     == page = "config" /\ TabStep(Here) /\ UNCHANGED OtherThanConfig
AtYolo       == page = "yolo" /\ DetNext /\ UNCHANGED <<sam, OtherThanDetection>>
AtFastSam    == page = "fastsam" /\ SamNext /\ UNCHANGED OtherThanDetection
AtNodes      == page \in NodePage \ {"gossip"} /\ PagesNext
                  /\ UNCHANGED <<play, asLive, OtherThanNodes>>
AtGossip     == page = "gossip" /\ PlayNext /\ UNCHANGED OtherThanNodes

-----------------------------------------------------------------------------
(* What goes on whatever page is shown.                                    *)

NodesGoOn ==
  /\ Reads(NodePage)
  /\ \E n \in Node : NodeRecords(n)
  /\ UNCHANGED <<play, asLive, OtherThanNodes>>

ServiceGoesOn == Reads({"simulation"}) /\ ServiceRuns /\ UNCHANGED OtherThanSimulation

SimulationStarts ==
  Reads({"config"}) /\ (SimulationReads \/ NodeReads) /\ UNCHANGED OtherThanConfig

OtherTabs ==
  /\ Reads({"config"})
  /\ \E t \in Tab \ {Here} : TabStep(t)
  /\ UNCHANGED OtherThanConfig

(* The server is one process: all its services start again.                *)
Restart ==
  /\ Reads({"simulation", "config"})
  /\ ServerRestarts
  /\ Reads(Page \ {"config"}) => apiConfig' # Unread
  /\ IF Reads({"simulation"}) THEN ServiceRestarts ELSE UNCHANGED <<apiVars, simVars>>
  /\ UNCHANGED <<tour, shellVars, samVars, playVars>>

-----------------------------------------------------------------------------
(* The shell, and going from page to page.                                 *)

AroundPage == <<tour, apiVars, simVars, configVars, samVars, play, asLive,
                tableVars, records, pushed, load, loadFaults>>

Sidebar == page \in ShellPage /\ (Trigger \/ Shortcut \/ SheetCloses)
             /\ UNCHANGED <<AroundPage, view>>

(* The dashboard's chart takes another range when the window gets narrow.  *)
WindowResized ==
  /\ page \in ShellPage
  /\ Resize
  /\ view' = IF page = "dashboard" THEN [view EXCEPT !.range = RangeAt(shell'.mobile, @)] ELSE view
  /\ UNCHANGED AroundPage

(* The page is mounted, and what was mounted is gone.                      *)
Mount(next, n) ==
  /\ tour' = Tail(tour)
  /\ simPage' = SimBlank /\ simPoll' = SimNoPolls
  /\ TabOpens(Here)
  /\ det' = DetBlank /\ asked' = NoneAsked /\ list' = ListMounted /\ crossed' = FALSE
  /\ sam' = IF next = "fastsam" THEN SamMounted ELSE SamBlank
  /\ PageOpened(next, n, shell'.mobile)
  /\ play' = PlayBlank /\ asLive' = AllLive
  /\ UNCHANGED <<shellClicks, apiVars, faults, detCount, tableClicks, records, loadFaults>>

(* The server has taken what the page has sent.                            *)
Taken == simPage.click \notin {"start", "stop"} /\ form[Here].pc # "saving"

(* Links lead to the pages of the sidebar, from the lists to a node, from  *)
(* an empty list to the simulations, and from a node to the detection page *)
(* - with a checkpoint that is dropped.                                    *)
LeadsTo(next, n) ==
  \/ next \in Links(page) /\ n = 1
  \/ page = "nodes" /\ NodesShow = "no nodes" /\ next = "simulation" /\ n = 1
  \/ next = "detail" /\ n \in LinksToNodes
  \/ page = "detail" /\ DetailShows = "node" /\ next = Redirected("inference") /\ n = 1

(* The table's links are not the router's: the document is loaded.         *)
PlainLink(next) == page = "dashboard" /\ next = "detail"

(* The sheet of a phone stays open over the page that was chosen in it.    *)
Navigate ==
  /\ Len(tour) > 1 /\ Taken
  /\ \E n \in Node :
       /\ LeadsTo(tour[2], n) /\ tour[2] # page
       /\ IF PlainLink(tour[2]) THEN Reloaded ELSE UNCHANGED shell
       /\ Mount(tour[2], n)

Reload ==
  /\ Len(tour) > 1 /\ Taken
  /\ tour[2] = page
  /\ Reloaded
  /\ Mount(page, view.node)

Next ==
  \/ AtSimulation \/ AtConfig \/ AtYolo \/ AtFastSam \/ AtNodes \/ AtGossip
  \/ NodesGoOn \/ ServiceGoesOn \/ SimulationStarts \/ OtherTabs \/ Restart
  \/ Sidebar \/ WindowResized \/ Navigate \/ Reload

(* The timer of the page fires, and the network and the server answer: at   *)
(* least one of the polls comes through.                                   *)
Polled == AtSimulation /\ \E p \in Poll : PollStep(p)
Spec == Init /\ [][Next]_vars /\ WF_vars(Polled)

-----------------------------------------------------------------------------
(* Properties.                                                             *)

(* When the service is through and the user stays, the page comes to show  *)
(* the result - also when it was left and opened again, and whatever       *)
(* answers to older polls arrive in between.                               *)
ResultShows ==
  \A r \in 1 .. MaxRuns :
    <>[](page = "simulation" /\ status = "finished" /\ result = r) => <>[](simPage.result = r)
=============================================================================
