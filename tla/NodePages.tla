------------------------------ MODULE NodePages ------------------------------
(***************************************************************************)
(* The pages that show what the nodes have recorded                        *)
(* (frontend/src/app/(app)/dashboard, nodes, nodes/[nodeId], metrics and   *)
(* convergence, with hooks/useNodes.ts and the components they use; the    *)
(* loads of gossip too, whose playback is in GossipPlayback).              *)
(*                                                                         *)
(* Each page has loads: requests of one or more parts, which the server    *)
(* answers one by one and of which the page waits for all.  A timer        *)
(* repeats most loads without waiting for the one before; metrics and      *)
(* convergence are loaded once.  A failure is ignored, but for the         *)
(* skeleton, which goes.  The hook also gets what the server pushes (see   *)
(* LiveSocket and MetricsFeed), where something may be lost.               *)
(*                                                                         *)
(* Abstractions.  What is known of a node is the number of its records,    *)
(* 0 for no file.  Statistics are a function of all records, so that what  *)
(* they are computed from stands for them.                                 *)
(***************************************************************************)
EXTENDS NodeTable

CONSTANTS
  MaxRecords,      \* bound: records of all nodes together
  MaxLoaders,      \* bound: loaders of a page that come to start
  MaxLoads,        \* bound: loads that each page has under way at a time
  MaxLoadFaults,   \* bound: loads that fail
  TimeRange        \* the choices of the chart

NodePage == {"dashboard", "nodes", "detail", "metrics", "convergence", "gossip"}
Loader   == {"hook", "summary", "rounds", "table", "history", "metrics", "convergence", "gossip"}

ASSUME PagesAssumption ==
  /\ {MaxRecords, MaxLoaders, MaxLoadFaults} \subseteq Nat
  /\ MaxLoads \in [NodePage -> Nat \ {0}]
  /\ {"10", "all"} \subseteq TimeRange

Part     == {"hook", "summary", "rounds", "table", "history",
             "stats", "list", "histories", "band", "report"}

LoadersOf(page) ==
  CASE page = "dashboard"   -> {"hook", "summary", "rounds", "table"}
    [] page = "nodes"       -> {"hook"}
    [] page = "detail"      -> {"history"}
    [] page \in {"metrics", "convergence", "gossip"} -> {page}
    [] OTHER                -> {}

PartsOf(loader) ==
  CASE loader = "metrics"     -> {"stats", "list", "histories"}
    [] loader = "convergence" -> {"band", "report"}
    [] loader = "gossip"      -> {"list", "histories"}
    [] OTHER                  -> {loader}

Slot == 1 .. Max({ MaxLoads[p] : p \in NodePage })
Records == [Node -> 0 .. MaxRecords]
NoAnswer == <<>>
Seen     == Records \cup {NoAnswer}

VARIABLES
  records,    \* records[n]: how many records node n has written
  pushed,     \* pushed[n]: the last of them that was pushed to the page
  view,       \* what the page shows
  load,       \* the loads under way
  loadFaults  \* number of failures
pagesVars == <<tableVars, records, pushed, view, load, loadFaults>>

NoLoad == [loader |-> "none", first |-> FALSE, got |-> [p \in Part |-> NoAnswer],
           overtaken |-> FALSE]
NoLoads == [s \in Slot |-> NoLoad]

PagesTypeOK ==
  /\ TableTypeOK
  /\ records \in Records /\ pushed \in Records
  /\ view \in [page : NodePage \cup {"other"}, node : Node, loading : BOOLEAN,
               shown : [Part -> Seen], begun : SUBSET Loader,
               picked : SUBSET Node,          \* selectedNodes of the metrics page
               range : TimeRange]             \* timeRange of the chart
  /\ load \in [Slot -> [loader : Loader \cup {"none"}, first : BOOLEAN, got : [Part -> Seen],
                        overtaken : BOOLEAN]]  \* history: has a later answer come before?
  /\ loadFaults \in 0 .. MaxLoadFaults

Zero == [n \in Node |-> 0]

Mounted(page, n, range) ==
  [page |-> IF page \in NodePage THEN page ELSE "other", node |-> n, loading |-> TRUE,
   shown |-> [p \in Part |-> NoAnswer], begun |-> {}, picked |-> {}, range |-> range]

(* The effect of the chart when the window is, or gets, narrow.            *)
RangeAt(mobile, range) == IF mobile THEN "10" ELSE range

PageOpened(page, n, mobile) ==
  /\ view' = Mounted(page, n, RangeAt(mobile, "all"))
  /\ load' = NoLoads
  /\ table' = TableBlank
  /\ pushed' = records

PagesInit(page, mobile) ==
  /\ TableInit
  /\ records = Zero /\ pushed = Zero
  /\ view = Mounted(page, 1, RangeAt(mobile, "all"))
  /\ load = NoLoads
  /\ loadFaults = 0

-----------------------------------------------------------------------------
(* What is shown.                                                          *)

Shown(part) == IF view.shown[part] = NoAnswer THEN Zero ELSE view.shown[part]
Known(part) == { n \in Node : Shown(part)[n] > 0 }

(* The cards of the dashboard: a dash stands for what is not known.        *)
CardsShow == [nodes |-> Known("hook") # {}, summary |-> Known("summary") # {}]
ChartShows == IF Known("rounds") = {} THEN "empty" ELSE "graph"

NodesShow ==
  CASE view.loading         -> "skeleton"
    [] Known("hook") = {}   -> "no nodes"
    [] OTHER                -> "nodes"

DetailShows ==
  CASE view.loading             -> "skeleton"
    [] view.node \notin Known("history") -> "not found"
    [] OTHER                    -> "node"

(* The filter by node, the charts of the selected nodes, and the band.     *)
MetricsShow ==
  IF view.loading THEN [skeleton |-> TRUE]
  ELSE [filter |-> Known("histories") # {}, band |-> Known("stats") # {}]

ConvergenceShows ==
  IF view.loading THEN [skeleton |-> TRUE]
  ELSE [cards |-> Known("report") # {}, charts |-> Known("band") # {}]

-----------------------------------------------------------------------------
(* The nodes and the server.                                               *)

Recorded == { r \in Node \X (1 .. MaxRecords) : r[2] <= records[r[1]] }

NodeRecords(n) ==
  /\ Cardinality(Recorded) < MaxRecords
  /\ records' = [records EXCEPT ![n] = @ + 1]
  /\ UNCHANGED <<tableVars, pushed, view, load, loadFaults>>

(* The server answers one part of a load; the histories are asked for when *)
(* the list is there, and are those of the nodes in it.                    *)
Served(s, part) ==
  /\ load[s].loader # "none" /\ part \in PartsOf(load[s].loader)
  /\ load[s].got[part] = NoAnswer
  /\ part = "histories" => load[s].got["list"] # NoAnswer
  /\ part = "history" => records[view.node] > 0
  /\ load' = [load EXCEPT ![s].got[part] =
                IF part = "histories"
                THEN [n \in Node |-> IF load[s].got["list"][n] > 0 THEN records[n] ELSE 0]
                ELSE records]
  /\ UNCHANGED <<tableVars, records, pushed, view, loadFaults>>

-----------------------------------------------------------------------------
(* The loads of the page.                                                  *)

(* The effect of the page, and then its interval timer.                    *)
Due(loader) ==
  /\ loader \in LoadersOf(view.page)
  /\ loader \in view.begun => loader \notin {"metrics", "convergence"}
  /\ Cardinality(view.begun \cup {loader}) <= MaxLoaders

LoadStarts(loader, s) ==
  /\ Due(loader)
  /\ s <= MaxLoads[view.page]
  /\ load[s].loader = "none" /\ \A r \in 1 .. s - 1 : load[r].loader # "none"
  /\ load' = [load EXCEPT ![s] = [NoLoad EXCEPT !.loader = loader,
                                                !.first = loader \notin view.begun]]
  /\ view' = [view EXCEPT !.begun = @ \cup {loader}]
  /\ UNCHANGED <<tableVars, records, pushed, loadFaults>>

(* Does the end of load l take the skeleton away?  The hook and the node's *)
(* page look at their first load only.                                     *)
EndsLoading(l) ==
  l.loader = "gossip" \/ (l.first /\ l.loader \in {"hook", "history", "metrics", "convergence"})

(* The other loads of the same parts are now behind.                       *)
Overtaken(s) ==
  [r \in Slot |-> IF r = s THEN NoLoad
                  ELSE IF load[r].loader = load[s].loader THEN [load[r] EXCEPT !.overtaken = TRUE]
                  ELSE load[r]]

(* All parts are there: the page shows them, and the dashboard's table     *)
(* gets its rows.                                                          *)
LoadArrives(s) ==
  /\ load[s].loader # "none"
  /\ \A part \in PartsOf(load[s].loader) : load[s].got[part] # NoAnswer
  /\ view' = [view EXCEPT
       !.shown = [p \in Part |-> IF p \in PartsOf(load[s].loader) THEN load[s].got[p] ELSE @[p]],
       !.loading = @ /\ ~EndsLoading(load[s]),
       !.picked = IF load[s].loader = "metrics"
                  THEN { n \in Node : load[s].got["histories"][n] > 0 } ELSE @]
  /\ load' = Overtaken(s)
  /\ IF load[s].loader = "table"
     THEN TableGets({ n \in Node : load[s].got["table"][n] > 0 }) /\ UNCHANGED tableClicks
     ELSE UNCHANGED tableVars
  /\ UNCHANGED <<records, pushed, loadFaults>>

(* Mutation of LoadFails: a failure empties the page.                      *)
LoadFailsBlank(s) ==
  /\ load[s].loader # "none"
  /\ loadFaults < MaxLoadFaults /\ loadFaults' = loadFaults + 1
  /\ view' = [view EXCEPT !.loading = @ /\ ~EndsLoading(load[s]),
                          !.shown = [p \in Part |-> NoAnswer]]
  /\ load' = [load EXCEPT ![s] = NoLoad]
  /\ UNCHANGED <<tableVars, records, pushed>>

(* One part cannot be had: 404 for a node without records, or a failure.   *)
LoadFails(s) ==
  /\ load[s].loader # "none"
  /\ \/ load[s].loader = "history" /\ records[view.node] = 0 /\ UNCHANGED loadFaults
     \/ loadFaults < MaxLoadFaults /\ loadFaults' = loadFaults + 1
  /\ view' = [view EXCEPT !.loading = @ /\ ~EndsLoading(load[s])]
  /\ load' = [load EXCEPT ![s] = NoLoad]
  /\ UNCHANGED <<tableVars, records, pushed>>

(* handleMessage: the newest record of one node, or an earlier one.        *)
PushArrives(n) ==
  /\ "hook" \in LoadersOf(view.page)
  /\ \E r \in pushed[n] + 1 .. records[n] :
       /\ pushed' = [pushed EXCEPT ![n] = r]
       /\ view' = [view EXCEPT !.shown["hook"] = [Shown("hook") EXCEPT ![n] = r]]
  /\ load' = [s \in Slot |-> IF load[s].loader = "hook" THEN [load[s] EXCEPT !.overtaken = TRUE]
                                                        ELSE load[s]]
  /\ UNCHANGED <<tableVars, records, loadFaults>>

-----------------------------------------------------------------------------
(* The user.                                                               *)

SetTimeRange(r) ==
  /\ Act
  /\ view.page = "dashboard" /\ r # view.range
  /\ view' = [view EXCEPT !.range = r]
  /\ UNCHANGED <<table, records, pushed, load, loadFaults>>

SelectNode(n) ==
  /\ Act
  /\ view.page = "metrics" /\ ~view.loading /\ n \in Known("histories")
  /\ view' = [view EXCEPT !.picked = IF n \in @ THEN @ \ {n} ELSE @ \cup {n}]
  /\ UNCHANGED <<table, records, pushed, load, loadFaults>>

InTable ==
  /\ view.page = "dashboard"
  /\ TableClick
  /\ UNCHANGED <<records, pushed, view, load, loadFaults>>

(* The links to a node's page.                                             *)
LinksToNodes ==
  CASE view.page = "nodes" /\ NodesShow = "nodes" -> Known("hook")
    [] view.page = "dashboard" -> { r.node : r \in PageRows(table) }
    [] OTHER -> {}

LoadStep(s) ==
  (\E part \in Part : Served(s, part)) \/ LoadArrives(s) \/ LoadFails(s)

PagesNext ==
  \/ \E n \in Node : PushArrives(n) \/ SelectNode(n)
  \/ \E loader \in Loader, s \in Slot : LoadStarts(loader, s)
  \/ \E s \in Slot : LoadStep(s)
  \/ \E r \in TimeRange : SetTimeRange(r)
  \/ InTable

-----------------------------------------------------------------------------
(* What the properties of the pages are made of.                           *)

(* Is there anything but a skeleton, dashes and messages?  (For the gossip *)
(* page, whose error takes the place of all else, this is RoundShown.)     *)
HasContent ==
  CASE view.page = "dashboard"   -> CardsShow.nodes \/ CardsShow.summary \/ ChartShows = "graph"
    [] view.page = "nodes"       -> NodesShow = "nodes"
    [] view.page = "detail"      -> DetailShows = "node"
    [] view.page = "metrics"     -> ~view.loading /\ (MetricsShow.filter \/ MetricsShow.band)
    [] view.page = "convergence" ->
         ~view.loading /\ (ConvergenceShows.cards \/ ConvergenceShows.charts)
    [] OTHER                     -> FALSE

(* The page goes back to fewer records of a node, or to a message that     *)
(* there is nothing.                                                       *)
GoesBack ==
  \/ \E part \in Part, n \in Node : Shown(part)'[n] < Shown(part)[n]
  \/ HasContent /\ ~HasContent'

(* An answer arrives that another answer or a push has overtaken, or a     *)
(* push, which an answer may have overtaken.                               *)
LateArrives == \/ \E s \in Slot : load[s].overtaken /\ load'[s] = NoLoad
               \/ \E n \in Node : pushed'[n] # pushed[n]

(* The page is neither left nor loaded again.                              *)
Stays == view'.page = view.page /\ view'.begun # {}
=============================================================================
