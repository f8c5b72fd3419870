---------------------------- MODULE SimulationApi ----------------------------
(***************************************************************************)
(* What the simulation service promises to a client that sends one request *)
(* at a time (api/routers/simulation.py): a status and the result of the   *)
(* simulation started last.  SimulationService, with its coroutines,       *)
(* threads and processes, implements it; SimulationPage relies on it.      *)
(***************************************************************************)
EXTENDS Naturals

CONSTANT MaxRuns       \* bound: simulations started

ASSUME RunsAssumption == MaxRuns \in Nat

VARIABLES
  status,   \* of the service
  result,   \* the run whose result is kept, or 0
  latest    \* number of simulations started

apiVars == <<status, result, latest>>

ApiTypeOK ==
  /\ status \in {"idle", "running", "finished", "error"}
  /\ latest \in 0 .. MaxRuns
  /\ result \in 0 .. latest

ApiInit == status = "idle" /\ result = 0 /\ latest = 0

(* POST /start; while the status is running it is answered with 409.       *)
ApiStart ==
  /\ status # "running" /\ latest < MaxRuns
  /\ status' = "running" /\ result' = 0 /\ latest' = latest + 1

ApiFinish ==
  /\ status = "running"
  /\ status' = "finished" /\ result' = latest /\ UNCHANGED latest

ApiFail ==
  /\ status = "running"
  /\ status' = "error" /\ UNCHANGED <<result, latest>>

(* POST /stop, whatever the status; the result of a finished run stays.    *)
ApiStop == status' = "idle" /\ UNCHANGED <<result, latest>>

(* The server starts again with what it saved last, or with nothing.       *)
ApiRestart ==
  /\ \/ status' = "finished" /\ result' \in 1 .. latest
     \/ status' \in {"idle", "error"} /\ result' = 0
  /\ UNCHANGED latest

ApiNext == ApiStart \/ ApiFinish \/ ApiFail \/ ApiStop \/ ApiRestart
ApiSpec == ApiInit /\ [][ApiNext]_apiVars
=============================================================================
