---------------------------- MODULE DashboardProofs ----------------------------
(***************************************************************************)
(* Proofs about Dashboard, that is about the pages while the user goes     *)
(* from one to another and the server, the nodes and other tabs go on, for *)
(* every set of tours and every bound.  What is proved of the              *)
(* configuration and of the detection page alone carries over, as their    *)
(* variables take only steps of theirs here, or are set back when a page   *)
(* is mounted.                                                             *)
(***************************************************************************)
EXTENDS Dashboard, PageProofs

(***************************************************************************)
(* The configuration: Dashboard implements ConfigPage.                     *)
(***************************************************************************)

LEMMA ConfigSteps == [Next]_vars => [ConfigNext]_configVars
<1> SUFFICES ASSUME [Next]_vars PROVE [ConfigNext]_configVars
  OBVIOUS
<1> USE DashboardAssumption
<1>1. CASE AtSimulation
  BY <1>1 DEF AtSimulation, OtherThanSimulation
<1>2. CASE AtConfig
  BY <1>2 DEF AtConfig, ConfigNext
<1>3. CASE AtYolo
  BY <1>3 DEF AtYolo, OtherThanDetection
<1>4. CASE AtFastSam
  BY <1>4 DEF AtFastSam, OtherThanDetection
<1>5. CASE AtNodes \/ AtGossip
  BY <1>5 DEF AtNodes, AtGossip, OtherThanNodes
<1>6. CASE NodesGoOn \/ ServiceGoesOn
  BY <1>6 DEF NodesGoOn, ServiceGoesOn, OtherThanNodes, OtherThanSimulation
<1>7. CASE SimulationStarts
  BY <1>7 DEF SimulationStarts, ConfigNext
<1>8. CASE OtherTabs
  BY <1>8 DEF OtherTabs, ConfigNext
<1>9. CASE Restart
  BY <1>9 DEF Restart, ConfigNext
<1>10. CASE Sidebar \/ WindowResized
  BY <1>10 DEF Sidebar, WindowResized, AroundPage
<1>11. ASSUME NEW next, NEW n, Mount(next, n) PROVE ConfigNext
  BY <1>11 DEF Mount, ConfigNext
<1>12. CASE Navigate \/ Reload
  BY <1>11, <1>12 DEF Navigate, Reload
<1>13. CASE UNCHANGED vars
  BY <1>13 DEF vars
<1> QED BY <1>1, <1>2, <1>3, <1>4, <1>5, <1>6, <1>7, <1>8, <1>9, <1>10, <1>12, <1>13 DEF Next

(* Every behaviour of the dashboard is one of the configuration.           *)
THEOREM DashboardIsConfig == Spec => ConfigSpec
<1>1. Init => ConfigInit
  BY DEF Init
<1> QED BY <1>1, ConfigSteps, PTL DEF Spec, ConfigSpec

(* Whatever else goes on, a simulation keeps its keys where .env says,     *)
(* unless a write was cut short, its nodes read what .env holds, and its   *)
(* metrics go where .env said as the server started (simulation_service.py *)
(* and runner.py, each with a Config of its own).                          *)
THEOREM DashboardUsesSaved == Spec => SimulationsUseSaved
  BY DashboardIsConfig, SimulationsUseSavedHolds, PTL

(* Whatever else goes on, .env is what one tab has sent, unless a write    *)
(* was cut short.                                                          *)
THEOREM DashboardSavesOneForm == Spec => []EnvIsOneForm
  BY DashboardIsConfig, EnvIsOneFormHolds, PTL

(***************************************************************************)
(* The detection pages.                                                    *)
(***************************************************************************)

(* A detection page that has just been mounted.                            *)
JustMounted ==
  /\ det = DetBlank /\ asked = NoneAsked /\ list = ListMounted /\ crossed = FALSE
  /\ detCount \in [clicks : 0 .. MaxClicks, picks : 0 .. MaxPicks]

LEMMA MountedInv == JustMounted => DetInv
  BY BlankInv DEF JustMounted

(* The FastSAM page has the steps of the other one.                        *)
LEMMA SamSteps == SamNext => [DetNext]_detVars
  BY DEF SamNext, DetNext, CapabilitiesArrive, SamFetchCheckpoints, SamCheckpoints, SamSelectOne,
         SamToggleCheckpoint, SamSelectAll, SamSetMultiMode, SamHandleFile, SamRunInference,
         SamHandleClear, SamAnswer

LEMMA DetSteps == [Next]_vars => [DetNext]_detVars \/ \E next, n : Mount(next, n)
<1> SUFFICES ASSUME [Next]_vars, ~ \E next, n : Mount(next, n) PROVE [DetNext]_detVars
  OBVIOUS
<1>1. CASE UNCHANGED samVars
  BY <1>1 DEF samVars
<1>2. CASE AtSimulation \/ ServiceGoesOn
  BY <1>1, <1>2 DEF AtSimulation, ServiceGoesOn, OtherThanSimulation
<1>3. CASE AtConfig \/ SimulationStarts \/ OtherTabs
  BY <1>1, <1>3 DEF AtConfig, SimulationStarts, OtherTabs, OtherThanConfig
<1>4. CASE AtYolo
  BY <1>4 DEF AtYolo
<1>5. CASE AtFastSam
  BY <1>5, SamSteps DEF AtFastSam
<1>6. CASE AtNodes \/ AtGossip \/ NodesGoOn
  BY <1>1, <1>6 DEF AtNodes, AtGossip, NodesGoOn, OtherThanNodes
<1>7. CASE Restart
  BY <1>1, <1>7 DEF Restart
<1>8. CASE Sidebar \/ WindowResized
  BY <1>1, <1>8 DEF Sidebar, WindowResized, AroundPage
<1>9. CASE UNCHANGED vars
  BY <1>1, <1>9 DEF vars
<1> QED BY <1>2, <1>3, <1>4, <1>5, <1>6, <1>7, <1>8, <1>9 DEF Next, Navigate, Reload

LEMMA DashboardDetInv == Spec => []DetInv
<1>1. Init => DetInv
  <2> SUFFICES ASSUME Init PROVE DetInv
    OBVIOUS
  <2>1. DetSpent \in [clicks : 0 .. MaxClicks, picks : 0 .. MaxPicks]
    BY DetectionAssumption DEF DetSpent
  <2> QED BY <2>1, MountedInv DEF Init, JustMounted
<1>2. (JustMounted => DetInv)'
  BY MountedInv, PTL
<1>3. DetInv /\ [Next]_vars => DetInv'
  <2> SUFFICES ASSUME DetInv, [Next]_vars PROVE DetInv'
    OBVIOUS
  <2>1. CASE [DetNext]_detVars
    BY <2>1, DetNextInv
  <2>2. ASSUME NEW next, NEW n, Mount(next, n) PROVE DetInv'
    BY <1>2, <2>2 DEF Mount, JustMounted, DetInv, DetTypeOK
  <2> QED BY <2>1, <2>2, DetSteps
<1> QED BY <1>1, <1>3, PTL DEF Spec

(* Also when pages are left and mounted again, what was found in one image *)
(* is never shown with another one (the buttons of the detection pages are *)
(* disabled while loading).                                                *)
THEOREM DashboardImages == Spec => []ResultsOfImage
  BY DashboardDetInv, ImageFollows, PTL

(* And the model chosen in single mode is replaced by an answer with the   *)
(* list only when the list was asked for while it was asked for            *)
(* (fetchCheckpoints); a page that is mounted has no model.                *)
THEOREM DashboardPicks == Spec => PickNeedsOverlap
<1>1. DetInv /\ [Next]_vars
        => [det.one # NoModel /\ det'.one \notin {NoModel, det.one} => crossed \/ UNCHANGED list]_detVars
  <2> SUFFICES ASSUME DetInv, [Next]_vars,
                      det.one # NoModel, det'.one \notin {NoModel, det.one}
               PROVE  crossed \/ UNCHANGED list
    OBVIOUS
  <2>1. CASE [DetNext]_detVars
    BY <2>1, PickFollows DEF PickKept
  <2>2. ASSUME NEW next, NEW n, Mount(next, n) PROVE FALSE
    BY <2>2 DEF Mount, DetBlank
  <2> QED BY <2>1, <2>2, DetSteps
<1> QED BY <1>1, DashboardDetInv, PTL DEF Spec, PickNeedsOverlap

(***************************************************************************)
(* The simulation page.                                                    *)
(***************************************************************************)

(* While a launch is on its way, or the simulation runs, nothing that      *)
(* comes from an earlier one is left, unless a poll was under way.         *)
NothingOld ==
  /\ simPage.click = "start" /\ ~simPage.late =>
       simPage.result = 0 /\ \A p \in Poll : simPoll[p].pc = "none"
  /\ status = "running" /\ ~simPage.late =>
       /\ simPage.result = 0
       /\ \A p \in Poll : \/ simPoll[p].pc \in {"none", "status?"}
                          \/ simPoll[p].pc = "status!" /\ simPoll[p].status = "running"

SimInv == SimTypeOK /\ NothingOld

LEMMA SimBlankType ==
  ASSUME ApiTypeOK, simPage = SimBlank, simPoll = SimNoPolls, faults \in 0 .. MaxFaults
  PROVE  SimInv
<1>1. 0 \in 0 .. latest
  BY DEF ApiTypeOK
<1>2. SimTypeOK
  BY <1>1 DEF SimTypeOK, SimBlank, SimNoPolls, NoPoll
<1>3. NothingOld
  BY DEF NothingOld, SimBlank, SimNoPolls, NoPoll
<1> QED BY <1>2, <1>3 DEF SimInv

LEMMA PollStartsInv == ASSUME SimInv, NEW p \in Poll, PollStarts(p) PROVE SimInv'
<1>1. SimTypeOK'
  <2>1. ApiTypeOK' /\ latest' = latest
    BY DEF SimInv, SimTypeOK, ApiTypeOK, apiVars, PollStarts
  <2> DEFINE late == simPage.late \/ simPage.click = "start"
  <2>2. late \in BOOLEAN
    OBVIOUS
  <2>3. simPage' = [simPage EXCEPT !.late = late] /\ UNCHANGED faults
    BY DEF PollStarts, SimInv, SimTypeOK
  <2> HIDE DEF late
  <2>4. simPoll' = [simPoll EXCEPT ![p].pc = "status?"]
    BY DEF PollStarts
  <2> QED BY <2>1, <2>2, <2>3, <2>4 DEF SimInv, SimTypeOK
<1>2. NothingOld'
  BY DEF SimInv, SimTypeOK, NothingOld, apiVars, PollStarts
<1> QED BY <1>1, <1>2 DEF SimInv

LEMMA PollServedInv == ASSUME SimInv, NEW p \in Poll, PollServed(p) PROVE SimInv'
<1>1. SimTypeOK'
  BY DEF SimInv, SimTypeOK, ApiTypeOK, apiVars, PollServed
<1>2. NothingOld'
  BY DEF SimInv, SimTypeOK, NothingOld, apiVars, PollServed
<1> QED BY <1>1, <1>2 DEF SimInv

LEMMA StatusArrivesInv == ASSUME SimInv, NEW p \in Poll, StatusArrives(p) PROVE SimInv'
<1>1. SimTypeOK'
  BY DEF SimInv, SimTypeOK, ApiTypeOK, apiVars, StatusArrives, NoPoll
<1>2. NothingOld'
  BY DEF SimInv, SimTypeOK, NothingOld, apiVars, StatusArrives, NoPoll
<1> QED BY <1>1, <1>2 DEF SimInv

LEMMA ResultArrivesInv == ASSUME SimInv, NEW p \in Poll, ResultArrives(p) PROVE SimInv'
<1>1. SimTypeOK'
  BY DEF SimInv, SimTypeOK, ApiTypeOK, apiVars, ResultArrives, NoPoll
<1>2. NothingOld'
  BY DEF SimInv, SimTypeOK, NothingOld, apiVars, ResultArrives, NoPoll
<1> QED BY <1>1, <1>2 DEF SimInv

LEMMA PollFailsInv == ASSUME SimInv, NEW p \in Poll, PollFails(p) PROVE SimInv'
<1>1. SimTypeOK'
  BY PollAssumption DEF SimInv, SimTypeOK, ApiTypeOK, apiVars, PollFails, NoPoll
<1>2. NothingOld'
  BY DEF SimInv, SimTypeOK, NothingOld, apiVars, PollFails, NoPoll
<1> QED BY <1>1, <1>2 DEF SimInv

LEMMA ClicksInv ==
  ASSUME SimInv, Launch \/ Halt \/ ClickAnswered \/ ClickFails
  PROVE  SimInv'
<1>1. SimTypeOK'
  <2>1. CASE Launch
    <3>1. PollUnderWay \in BOOLEAN
      BY DEF PollUnderWay
    <3>2. 0 \in 0 .. latest
      BY DEF SimInv, SimTypeOK, ApiTypeOK
    <3> QED BY <2>1, <3>1, <3>2 DEF SimInv, SimTypeOK, ApiTypeOK, apiVars, Launch
  <2>2. CASE Halt \/ ClickAnswered
    BY <2>2 DEF SimInv, SimTypeOK, ApiTypeOK, apiVars, Halt, ClickAnswered
  <2>3. CASE ClickFails
    BY <2>3, PollAssumption DEF SimInv, SimTypeOK, ApiTypeOK, apiVars, ClickFails
  <2> QED BY <2>1, <2>2, <2>3
<1>2. CASE Launch
  BY <1>1, <1>2 DEF SimInv, SimTypeOK, NothingOld, apiVars, Launch, PollUnderWay
<1>3. CASE Halt \/ ClickAnswered \/ ClickFails
  BY <1>1, <1>3 DEF SimInv, SimTypeOK, NothingOld, apiVars, Halt, ClickAnswered, ClickFails
<1> QED BY <1>2, <1>3

LEMMA ClickServedInv == ASSUME SimInv, ClickServed PROVE SimInv'
<1>1. ApiTypeOK' /\ 0 .. latest \subseteq 0 .. latest'
  <2>1. ApiTypeOK
    BY DEF SimInv, SimTypeOK
  <2>2. CASE ApiStart
    BY <2>1, <2>2, RunsAssumption DEF ApiTypeOK, ApiStart
  <2>3. CASE UNCHANGED apiVars \/ ApiStop
    BY <2>1, <2>3 DEF ApiTypeOK, apiVars, ApiStop
  <2> QED BY <2>2, <2>3 DEF ClickServed
<1>2. SimTypeOK'
  BY <1>1 DEF SimInv, SimTypeOK, ClickServed
<1>3. NothingOld'
  BY DEF SimInv, SimTypeOK, NothingOld, apiVars, ClickServed, ApiStart, ApiStop
<1> QED BY <1>2, <1>3 DEF SimInv

LEMMA ServiceInv == ASSUME SimInv, ServiceRuns \/ ServiceRestarts PROVE SimInv'
<1>1. ApiTypeOK' /\ latest' = latest
  BY DEF SimInv, SimTypeOK, ApiTypeOK, ServiceRuns, ServiceRestarts, ApiFinish, ApiFail, ApiRestart
<1>2. SimTypeOK'
  BY <1>1, PollAssumption DEF SimInv, SimTypeOK, ServiceRuns, ServiceRestarts
<1>3. NothingOld'
  BY DEF SimInv, NothingOld, ServiceRuns, ServiceRestarts, ApiFinish, ApiFail, ApiRestart
<1> QED BY <1>2, <1>3 DEF SimInv

LEMMA SimNextInv == ASSUME SimInv, SimNext PROVE SimInv'
  BY PollStartsInv, PollServedInv, StatusArrivesInv, ResultArrivesInv, PollFailsInv, ClicksInv,
     ClickServedInv
  DEF SimNext, PollStep

LEMMA DashboardSimInv == Spec => []SimInv
<1>1. Init => SimInv
  <2> SUFFICES ASSUME Init PROVE SimInv
    OBVIOUS
  <2>1. ApiTypeOK /\ faults \in 0 .. MaxFaults
    BY RunsAssumption, PollAssumption DEF Init, ApiInit, ApiTypeOK
  <2> QED BY <2>1, SimBlankType DEF Init
<1>2. (ApiTypeOK /\ simPage = SimBlank /\ simPoll = SimNoPolls /\ faults \in 0 .. MaxFaults
         => SimInv)'
  BY SimBlankType, PTL
<1>3. SimInv /\ [Next]_vars => SimInv'
  <2> SUFFICES ASSUME SimInv, [Next]_vars PROVE SimInv'
    OBVIOUS
  <2>1. CASE UNCHANGED <<apiVars, simVars>>
    BY <2>1 DEF apiVars, simVars, SimInv, SimTypeOK, ApiTypeOK, NothingOld
  <2>2. CASE AtSimulation
    BY <2>2, SimNextInv DEF AtSimulation
  <2>3. CASE ServiceGoesOn
    BY <2>3, ServiceInv DEF ServiceGoesOn
  <2>4. CASE Restart
    BY <2>1, <2>4, ServiceInv DEF Restart
  <2>5. CASE AtConfig \/ SimulationStarts \/ OtherTabs
    BY <2>1, <2>5 DEF AtConfig, SimulationStarts, OtherTabs, OtherThanConfig
  <2>6. CASE AtYolo \/ AtFastSam
    BY <2>1, <2>6 DEF AtYolo, AtFastSam, OtherThanDetection
  <2>7. CASE AtNodes \/ AtGossip \/ NodesGoOn
    BY <2>1, <2>7 DEF AtNodes, AtGossip, NodesGoOn, OtherThanNodes
  <2>8. CASE Sidebar \/ WindowResized
    BY <2>1, <2>8 DEF Sidebar, WindowResized, AroundPage
  <2>9. ASSUME NEW next, NEW n, Mount(next, n) PROVE SimInv'
    <3>1. ApiTypeOK' /\ faults' \in 0 .. MaxFaults
      BY <2>9 DEF Mount, SimInv, SimTypeOK, ApiTypeOK, apiVars
    <3> QED BY <1>2, <2>9, <3>1 DEF Mount
  <2>10. CASE Navigate \/ Reload
    BY <2>9, <2>10 DEF Navigate, Reload
  <2>11. CASE UNCHANGED vars
    BY <2>1, <2>11 DEF vars
  <2> QED BY <2>2, <2>3, <2>4, <2>5, <2>6, <2>7, <2>8, <2>10, <2>11 DEF Next
<1> QED BY <1>1, <1>3, PTL DEF Spec

(* A result is shown over a running simulation only if a poll was under    *)
(* way around the launch, whatever page the user has been at meanwhile     *)
(* (onSubmit clears the result, the polls carry no number).                *)
THEOREM DashboardResults == Spec => []OldResultNeedsOverlap
<1>1. SimInv => OldResultNeedsOverlap
  BY DEF SimInv, NothingOld, OldResultNeedsOverlap, SimShows
<1> QED BY <1>1, DashboardSimInv, PTL

(***************************************************************************)
(* The sidebar.                                                            *)
(***************************************************************************)

ShellInv == ShellTypeOK /\ CookieAgrees

LEMMA ToggledInv == ASSUME ShellInv, shell' = Toggled(shell) PROVE CookieAgrees'
  BY DEF ShellInv, ShellTypeOK, CookieAgrees, Toggled

LEMMA ShellStepInv ==
  ASSUME ShellInv, Trigger \/ Shortcut \/ SheetCloses \/ Resize \/ Reloaded
  PROVE  ShellInv'
<1>1. shellClicks' \in 0 .. MaxShellClicks
  BY ShellAssumption
  DEF ShellInv, ShellTypeOK, Trigger, Shortcut, SheetCloses, Resize, Reloaded, ShellClick
<1>2. CASE Trigger \/ Shortcut
  <2>1. ShellTypeOK'
    BY <1>1, <1>2 DEF ShellInv, ShellTypeOK, Trigger, Shortcut, Toggled
  <2> QED BY <1>2, <2>1, ToggledInv DEF ShellInv, Trigger, Shortcut
<1>3. CASE SheetCloses \/ Resize
  BY <1>1, <1>3 DEF ShellInv, ShellTypeOK, CookieAgrees, SheetCloses, Resize
<1>4. CASE Reloaded
  BY <1>1, <1>4 DEF ShellInv, ShellTypeOK, CookieAgrees, Reloaded, ShellMounted
<1> QED BY <1>2, <1>3, <1>4

LEMMA DashboardShellInv == Spec => []ShellInv
<1>1. Init => ShellInv
  BY ShellAssumption DEF Init, ShellInit, ShellInv, ShellTypeOK, CookieAgrees, ShellMounted
<1>2. ShellInv /\ [Next]_vars => ShellInv'
  <2> SUFFICES ASSUME ShellInv, [Next]_vars PROVE ShellInv'
    OBVIOUS
  <2>1. CASE UNCHANGED shellVars
    BY <2>1 DEF shellVars, ShellInv, ShellTypeOK, CookieAgrees
  <2>2. CASE AtSimulation \/ ServiceGoesOn
    BY <2>1, <2>2 DEF AtSimulation, ServiceGoesOn, OtherThanSimulation
  <2>3. CASE AtConfig \/ SimulationStarts \/ OtherTabs
    BY <2>1, <2>3 DEF AtConfig, SimulationStarts, OtherTabs, OtherThanConfig
  <2>4. CASE AtYolo \/ AtFastSam
    BY <2>1, <2>4 DEF AtYolo, AtFastSam, OtherThanDetection
  <2>5. CASE AtNodes \/ AtGossip \/ NodesGoOn
    BY <2>1, <2>5 DEF AtNodes, AtGossip, NodesGoOn, OtherThanNodes
  <2>6. CASE Restart
    BY <2>1, <2>6 DEF Restart
  <2>7. CASE Sidebar \/ WindowResized
    BY <2>7, ShellStepInv DEF Sidebar, WindowResized
  <2>8. CASE Navigate
    <3>1. CASE Reloaded
      BY <3>1, ShellStepInv
    <3>2. CASE UNCHANGED shell
      BY <2>1, <2>8, <3>2 DEF Navigate, Mount, shellVars
    <3> QED BY <2>8, <3>1, <3>2 DEF Navigate
  <2>9. CASE Reload
    BY <2>9, ShellStepInv DEF Reload
  <2>10. CASE UNCHANGED vars
    BY <2>1, <2>10 DEF vars
  <2> QED BY <2>2, <2>3, <2>4, <2>5, <2>6, <2>7, <2>8, <2>9, <2>10 DEF Next
<1> QED BY <1>1, <1>2, PTL DEF Spec

(* The cookie has the state of the sidebar, until the document is loaded   *)
(* again (setOpen in ui/sidebar.tsx; nothing reads the cookie).            *)
THEOREM CookieAgreesHolds == Spec => []CookieAgrees
<1>1. ShellInv => CookieAgrees
  BY DEF ShellInv
<1> QED BY <1>1, DashboardShellInv, PTL

(***************************************************************************)
(* The pages that show what the nodes have recorded.                       *)
(***************************************************************************)

LEMMA MountKeeps ==
  ASSUME PlayInv, NEW next, NEW n \in Node, Mount(next, n)
  PROVE  PlayKeeps
<1>1. PICK mobile : PageOpened(next, n, mobile)
  BY DEF Mount
<1> QED BY <1>1, OpenedKeeps DEF Mount

LEMMA DashboardKeeps == ASSUME PlayInv, [Next]_vars PROVE PlayKeeps
<1>1. CASE UNCHANGED playVars
  BY <1>1, SamePlayKeeps
<1>2. CASE AtSimulation \/ ServiceGoesOn
  BY <1>1, <1>2 DEF AtSimulation, ServiceGoesOn, OtherThanSimulation
<1>3. CASE AtConfig \/ SimulationStarts \/ OtherTabs
  BY <1>1, <1>3 DEF AtConfig, SimulationStarts, OtherTabs, OtherThanConfig
<1>4. CASE AtYolo \/ AtFastSam
  BY <1>1, <1>4 DEF AtYolo, AtFastSam, OtherThanDetection
<1>5. CASE AtNodes
  BY <1>5, PagesNextKeeps DEF AtNodes
<1>6. CASE AtGossip
  BY <1>6, PlayNextKeeps DEF AtGossip
<1>7. CASE NodesGoOn
  BY <1>7, NodeRecordsKeeps DEF NodesGoOn
<1>8. CASE Restart
  BY <1>1, <1>8 DEF Restart
<1>9. CASE Sidebar
  BY <1>1, <1>9 DEF Sidebar, AroundPage, playVars, pagesVars
<1>10. CASE WindowResized
  <2>1. UNCHANGED <<tableVars, records, pushed, load, loadFaults, play, asLive>>
    BY <1>10 DEF WindowResized, AroundPage
  <2>2. PICK mobile : \/ view' = [view EXCEPT !.range = RangeAt(mobile, @)]
                      \/ UNCHANGED view
    BY <1>10 DEF WindowResized
  <2> QED BY <2>1, <2>2, RangeKeeps
<1>11. CASE Navigate
  BY <1>11, MountKeeps DEF Navigate
<1>12. CASE Reload
  <2>1. view.node \in Node
    BY DEF PlayInv, PagesInv, ViewState
  <2> QED BY <1>12, <2>1, MountKeeps DEF Reload
<1>13. CASE UNCHANGED vars
  BY <1>1, <1>13 DEF vars
<1> QED BY <1>2, <1>3, <1>4, <1>5, <1>6, <1>7, <1>8, <1>9, <1>10, <1>11, <1>12, <1>13 DEF Next

LEMMA DashboardPlayInv == Spec => []PlayInv
<1>1. Init => PlayInv
  <2> SUFFICES ASSUME Init PROVE PlayInv
    OBVIOUS
  <2>1. PagesInv
    <3>1. PICK on, mobile : PagesInit(on, mobile)
      BY DEF Init
    <3> QED BY <3>1, PagesInitInv
  <2> QED BY <2>1, PlayBlankType DEF Init, PlayInv
<1>2. PlayInv /\ [Next]_vars => PlayInv'
  BY DashboardKeeps DEF PlayKeeps
<1> QED BY <1>1, <1>2, PTL DEF Spec

(* While it plays, round after round is shown, unless the user goes        *)
(* elsewhere, or an answer to a load begun in live mode, or a push to a    *)
(* connection of live mode that was left over (loadHistory and handleLive, *)
(* which are closures over the mode).                                      *)
THEOREM PlaybackSkipsNothingHolds == Spec => PlaybackSkipsNothing
<1>1. PlayInv /\ [Next]_vars =>
        [play.playing /\ play'.round # play.round /\ tableClicks' = tableClicks /\ Stays
           => play'.round = play.round + 1 \/ LiveAnswer \/ LivePush]_<<play, load, tableClicks>>
  BY DashboardKeeps DEF PlayKeeps, SkipsNothing
<1> QED BY <1>1, DashboardPlayInv, PTL DEF Spec, PlaybackSkipsNothing

(* Whatever answers and pushes arrive in whatever order, and whatever      *)
(* fails, no page comes to hold less than before, unless what arrives was  *)
(* overtaken on its way (useNodes.ts and the loaders of the pages, which   *)
(* show every answer as it comes); and the gossip page covers its graph    *)
(* only with the error of a load that failed (its loadHistory).            *)
THEOREM GoesBackNeedsOverlapHolds == Spec => GoesBackNeedsOverlap
<1>1. PlayInv /\ [Next]_vars =>
        [/\ HoldsLess /\ Stays => LateArrives
         /\ RoundGoes /\ Stays => GossipFails]_<<view, load, play>>
  BY DashboardKeeps DEF PlayKeeps, LosesNothing
<1> QED BY <1>1, DashboardPlayInv, PTL DEF Spec, GoesBackNeedsOverlap

(* In the table of nodes the selection stays with each node that keeps its *)
(* place in the server's list, wherever its row has been dragged to        *)
(* (data-table.tsx, where rows are known by that place).                   *)
THEOREM SelectionStaysHolds == Spec => SelectionStays
<1>1. PlayInv /\ [Next]_vars =>
        [table'.rows # table.rows =>
           \A n \in NodesIn(table) \cap NodesIn(table') :
             Place(NodesIn(table), n) = Place(NodesIn(table'), n)
               => (IsChosen(table, n) <=> IsChosen(table', n))]_table
  BY DashboardKeeps DEF PlayKeeps, KeepsSelection
<1> QED BY <1>1, DashboardPlayInv, PTL DEF Spec, SelectionStays

(***************************************************************************)
(* The type invariant.                                                     *)
(***************************************************************************)

TourOK == \E t \in Tour : \E i \in DOMAIN t : tour = SubSeq(t, i, Len(t))

SamOK == sam \in [available : BOOLEAN, query : BOOLEAN]

LEMMA TourShortens ==
  ASSUME TourOK, Len(tour) > 1, tour' = Tail(tour)
  PROVE  TourOK'
<1>1. PICK t \in Tour : \E i \in DOMAIN t : tour = SubSeq(t, i, Len(t))
  BY DEF TourOK
<1>2. t \in Seq(Page) /\ DOMAIN t = 1 .. Len(t)
  BY DashboardAssumption
<1>3. PICK i \in 1 .. Len(t) : tour = SubSeq(t, i, Len(t))
  BY <1>1, <1>2
<1>4. Len(t) \in Nat /\ i + 1 \in Int /\ Len(tour) = Len(t) - i + 1
  BY <1>2, <1>3, SubSeqProperties
<1>5. i + 1 \in 1 .. Len(t)
  BY <1>4
<1>6. Tail(tour) = SubSeq(t, i + 1, Len(t))
  BY <1>2, <1>3, <1>4, HeadTailOfSubSeq
<1>7. t \in Tour /\ tour' = SubSeq(t, i + 1, Len(t)) /\ i + 1 \in DOMAIN t
  BY <1>2, <1>5, <1>6
<1> QED BY <1>7 DEF TourOK

LEMMA MountTypes ==
  ASSUME TourOK, NEW next, NEW n, Mount(next, n), Len(tour) > 1
  PROVE  TourOK' /\ SamOK'
<1>1. TourOK'
  BY TourShortens DEF Mount
<1>2. SamOK'
  BY DEF Mount, SamOK, SamMounted, SamBlank
<1> QED BY <1>1, <1>2

LEMMA DashboardTour == Spec => [](TourOK /\ SamOK)
<1>1. Init => TourOK /\ SamOK
  <2> SUFFICES ASSUME Init PROVE TourOK /\ SamOK
    OBVIOUS
  <2>1. tour \in Tour /\ tour \in Seq(Page) /\ tour # <<>>
    BY DashboardAssumption DEF Init
  <2>2. 1 \in DOMAIN tour /\ tour = SubSeq(tour, 1, Len(tour))
    BY <2>1, SubSeqFull
  <2>3. SamOK
    BY DEF Init, SamOK, SamMounted, SamBlank
  <2> QED BY <2>1, <2>2, <2>3 DEF TourOK
<1>2. TourOK /\ SamOK /\ [Next]_vars => (TourOK /\ SamOK)'
  <2> SUFFICES ASSUME TourOK, SamOK, [Next]_vars PROVE TourOK' /\ SamOK'
    OBVIOUS
  <2>1. CASE UNCHANGED <<tour, sam>>
    BY <2>1 DEF TourOK, SamOK
  <2>2. CASE AtSimulation \/ ServiceGoesOn
    BY <2>1, <2>2 DEF AtSimulation, ServiceGoesOn, OtherThanSimulation, samVars
  <2>3. CASE AtConfig \/ SimulationStarts \/ OtherTabs
    BY <2>1, <2>3 DEF AtConfig, SimulationStarts, OtherTabs, OtherThanConfig, samVars
  <2>4. CASE AtYolo
    BY <2>1, <2>4 DEF AtYolo, OtherThanDetection
  <2>5. CASE AtFastSam
    <3>1. UNCHANGED tour
      BY <2>5 DEF AtFastSam, OtherThanDetection
    <3>2. CapabilitiesArrive \/ UNCHANGED sam
      BY <2>5 DEF AtFastSam, SamNext, SamFetchCheckpoints, SamCheckpoints, SamSelectOne,
                  SamToggleCheckpoint, SamSelectAll, SamSetMultiMode, SamHandleFile,
                  SamRunInference, SamHandleClear, SamAnswer
    <3>3. CapabilitiesArrive => SamOK'
      BY DEF CapabilitiesArrive, SamOK
    <3> QED BY <3>1, <3>2, <3>3 DEF TourOK, SamOK
  <2>6. CASE AtNodes \/ AtGossip \/ NodesGoOn
    BY <2>1, <2>6 DEF AtNodes, AtGossip, NodesGoOn, OtherThanNodes, samVars
  <2>7. CASE Restart
    BY <2>1, <2>7 DEF Restart, samVars
  <2>8. CASE Sidebar \/ WindowResized
    BY <2>1, <2>8 DEF Sidebar, WindowResized, AroundPage, samVars
  <2>9. CASE Navigate \/ Reload
    BY <2>9, MountTypes DEF Navigate, Reload
  <2>10. CASE UNCHANGED vars
    BY <2>1, <2>10 DEF vars, samVars
  <2> QED BY <2>2, <2>3, <2>4, <2>5, <2>6, <2>7, <2>8, <2>9, <2>10 DEF Next
<1> QED BY <1>1, <1>2, PTL DEF Spec

(* Every variable of every page, mounted or not, keeps its type, whatever  *)
(* the user, the server, the nodes and other tabs do.                      *)
THEOREM DashboardTypes == Spec => []TypeOK
<1>1. Spec => []ConfigTypeOK
  BY DashboardIsConfig, ConfigTypeHolds, PTL
<1>2. TourOK /\ SamOK /\ ShellInv /\ SimInv /\ ConfigTypeOK /\ DetInv /\ PlayInv => TypeOK
  BY PagesTypes, PlayTypes
  DEF TypeOK, TourOK, SamOK, ShellInv, SimInv, DetInv, SamTypeOK, PlayInv
<1> QED BY <1>1, <1>2, DashboardTour, DashboardShellInv, DashboardSimInv, DashboardDetInv,
           DashboardPlayInv, PTL
=============================================================================
