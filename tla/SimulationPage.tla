---------------------------- MODULE SimulationPage ----------------------------
(***************************************************************************)
(* The page that launches simulations                                      *)
(* (frontend/src/app/(app)/simulation/page.tsx) over the promise of the    *)
(* service.  It polls the status every two seconds without waiting for the *)
(* answer to the poll before, and asks for the result when that answer     *)
(* says "finished".  The user is the service's only client and does not    *)
(* click again before a click is answered.                                 *)
(*                                                                         *)
(* Abstractions.  A result is the run it comes from.  The form's values,   *)
(* which are checked field by field and sent as they are, the progress     *)
(* numbers and the toasts are left out.                                    *)
(***************************************************************************)
EXTENDS SimulationApi

CONSTANTS
  MaxPolls,     \* bound: polls under way at a time
  MaxFaults     \* bound: failed polls, restarts of the service

ASSUME PollAssumption == MaxPolls \in Nat \ {0} /\ MaxFaults \in Nat

Poll == 1 .. MaxPolls

VARIABLES
  simPage,   \* status and result on the page, and the click under way
  simPoll,   \* the polls under way
  faults     \* number of failures
simVars == <<simPage, simPoll, faults>>

NoPoll == [pc |-> "none", status |-> "none", result |-> 0]
SimBlank == [status |-> "none", result |-> 0, click |-> "none", late |-> FALSE]

SimTypeOK ==
  /\ ApiTypeOK
  /\ simPage \in [status : {"none", "idle", "running", "finished", "error"},
                  result : 0 .. latest,
                  click  : {"none", "start", "stop", "answered"},
                  late   : BOOLEAN]    \* history: was a poll under way with the last launch?
  /\ simPoll \in [Poll -> [pc : {"none", "status?", "status!", "results?", "results!"},
                           status : {"none", "idle", "running", "finished", "error"},
                           result : 0 .. latest]]
  /\ faults \in 0 .. MaxFaults

SimNoPolls == [p \in Poll |-> NoPoll]

-----------------------------------------------------------------------------
(* What is shown.                                                          *)

Running == simPage.status = "running"

(* The area to the right: nothing yet, the progress, or a result.          *)
SimShows ==
  CASE simPage.result # 0      -> "result"
    [] simPage.status = "none" -> "waiting for a simulation"
    [] OTHER                   -> "progress"

-----------------------------------------------------------------------------
(* poll()                                                                  *)

PollStarts(p) ==
  /\ simPoll[p].pc = "none"
  /\ \A q \in 1 .. p - 1 : simPoll[q].pc # "none"
  /\ simPoll' = [simPoll EXCEPT ![p].pc = "status?"]
  /\ simPage' = [simPage EXCEPT !.late = @ \/ simPage.click = "start"]
  /\ UNCHANGED <<apiVars, faults>>

(* The server answers with what it knows now.                              *)
PollServed(p) ==
  /\ \/ /\ simPoll[p].pc = "status?"
        /\ simPoll' = [simPoll EXCEPT ![p].pc = "status!", ![p].status = status]
     \/ /\ simPoll[p].pc = "results?"
        /\ simPoll' = [simPoll EXCEPT ![p].pc = "results!", ![p].result = result]
  /\ UNCHANGED <<apiVars, simPage, faults>>

(* Mutation of StatusArrives: the results are not asked for.               *)
StatusArrivesOnly(p) ==
  /\ simPoll[p].pc = "status!"
  /\ simPage' = [simPage EXCEPT !.status = simPoll[p].status]
  /\ simPoll' = [simPoll EXCEPT ![p] = NoPoll]
  /\ UNCHANGED <<apiVars, faults>>

StatusArrives(p) ==
  /\ simPoll[p].pc = "status!"
  /\ simPage' = [simPage EXCEPT !.status = simPoll[p].status]
  /\ simPoll' = [simPoll EXCEPT ![p] = IF @.status = "finished"
                                       THEN [NoPoll EXCEPT !.pc = "results?"] ELSE NoPoll]
  /\ UNCHANGED <<apiVars, faults>>

(* A result is kept until another arrives or a simulation is launched; 404 *)
(* is no result.                                                           *)
ResultArrives(p) ==
  /\ simPoll[p].pc = "results!"
  /\ simPage' = [simPage EXCEPT !.result = IF simPoll[p].result = 0 THEN @ ELSE simPoll[p].result]
  /\ simPoll' = [simPoll EXCEPT ![p] = NoPoll]
  /\ UNCHANGED <<apiVars, faults>>

PollFails(p) ==
  /\ simPoll[p].pc # "none" /\ faults < MaxFaults
  /\ faults' = faults + 1
  /\ simPoll' = [simPoll EXCEPT ![p] = NoPoll]
  /\ UNCHANGED <<apiVars, simPage>>

-----------------------------------------------------------------------------
(* The two buttons.                                                        *)

PollUnderWay == \E p \in Poll : simPoll[p].pc # "none"

(* Mutation of Launch: the old result is left.                             *)
LaunchKeepsResult ==
  /\ simPage.click = "none" /\ ~Running
  /\ simPage' = [simPage EXCEPT !.click = "start", !.late = PollUnderWay]
  /\ UNCHANGED <<apiVars, simPoll, faults>>

(* onSubmit up to its await; the button is disabled while running.         *)
Launch ==
  /\ simPage.click = "none" /\ ~Running
  /\ simPage' = [simPage EXCEPT !.result = 0, !.click = "start", !.late = PollUnderWay]
  /\ UNCHANGED <<apiVars, simPoll, faults>>

(* onStop; the button is there only while running.                         *)
Halt ==
  /\ simPage.click = "none" /\ Running
  /\ simPage' = [simPage EXCEPT !.click = "stop"]
  /\ UNCHANGED <<apiVars, simPoll, faults>>

(* The server carries the click out, or refuses it.                        *)
ClickServed ==
  /\ \/ simPage.click = "start" /\ ApiStart
     \/ simPage.click = "start" /\ status = "running" /\ UNCHANGED apiVars
     \/ simPage.click = "stop" /\ ApiStop
  /\ simPage' = [simPage EXCEPT !.click = "answered"]
  /\ UNCHANGED <<simPoll, faults>>

(* The toast: nothing else changes, the status comes with a poll.          *)
ClickAnswered ==
  /\ simPage.click = "answered"
  /\ simPage' = [simPage EXCEPT !.click = "none"]
  /\ UNCHANGED <<apiVars, simPoll, faults>>

(* The click is lost on its way: a toast, and no result any more.          *)
ClickFails ==
  /\ simPage.click \in {"start", "stop"} /\ faults < MaxFaults
  /\ faults' = faults + 1
  /\ simPage' = [simPage EXCEPT !.click = "none"]
  /\ UNCHANGED <<apiVars, simPoll>>

ServiceRuns == (ApiFinish \/ ApiFail) /\ UNCHANGED <<simPage, simPoll, faults>>

ServiceRestarts ==
  /\ ApiRestart
  /\ faults < MaxFaults /\ faults' = faults + 1
  /\ UNCHANGED <<simPage, simPoll>>

PollStep(p) == PollStarts(p) \/ PollServed(p) \/ StatusArrives(p) \/ ResultArrives(p)
SimNext ==
  \/ \E p \in Poll : PollStep(p) \/ PollFails(p)
  \/ (Launch /\ latest < MaxRuns) \/ Halt
  \/ ClickServed \/ ClickAnswered \/ ClickFails

-----------------------------------------------------------------------------
(* Properties.                                                             *)

(* "Completed Successfully" with the numbers of an earlier simulation is   *)
(* shown over a running one - where it hides the progress until that one   *)
(* has finished, since only a launch removes a result - only if a poll was *)
(* under way at some moment between the click and the start.               *)
OldResultNeedsOverlap ==
  status = "running" /\ SimShows = "result" => simPage.late
=============================================================================
