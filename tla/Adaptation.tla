----------------------------- MODULE Adaptation -----------------------------
(***************************************************************************)
(* How a node adapts its rounds to battery and temperature: the monitors   *)
(* (monitoring/energy.py, monitoring/thermal.py), the hysteresis and the   *)
(* decision table of AdaptationManager (adaptation/manager.py), and the    *)
(* part of NodeController._run_round that follows the schedule.            *)
(*                                                                         *)
(* A battery reading is its percentage, or OnMains when the machine has no *)
(* battery or is plugged in; a temperature is in degrees, or NoSensor.     *)
(* The sleep of a schedule is in percent of the gossip interval.  With     *)
(* adaptation_enabled off every round has the nominal schedule; that is    *)
(* not modelled.                                                           *)
(***************************************************************************)
EXTENDS Integers

CONSTANTS
  Batteries, Temperatures,   \* the readings the sensors may return
  Epochs,                    \* train_epochs_per_round
  Batch,                     \* batch_size
  HysteresisRounds           \* adaptation_hysteresis_rounds

ASSUME AdaptationAssumption ==
  /\ Batteries \subseteq Int
  /\ Temperatures \subseteq Int
  /\ Epochs \in Nat \ {0}
  /\ Batch \in Nat \ {0}
  /\ HysteresisRounds \in Int

Energy  == {"HIGH", "MEDIUM", "LOW", "CRITICAL"}
Thermal == {"NORMAL", "WARM", "HOT", "CRITICAL"}
Reading == Energy \X Thermal

OnMains  == 101
NoSensor == -1

(* EnergyMonitor.get_state and ThermalMonitor.get_state with the default   *)
(* thresholds; compute_schedule takes an UNKNOWN temperature as NORMAL.    *)
EnergyState(percent) ==
  CASE percent >= 50                   -> "HIGH"
    [] percent >= 20 /\ percent < 50   -> "MEDIUM"
    [] percent >= 10 /\ percent < 20   -> "LOW"
    [] percent < 10                    -> "CRITICAL"

ThermalState(degrees) ==
  CASE degrees >= 90                   -> "CRITICAL"
    [] degrees >= 80 /\ degrees < 90   -> "HOT"
    [] degrees >= 70 /\ degrees < 80   -> "WARM"
    [] degrees < 70                    -> "NORMAL"    \* also NoSensor

(* AdaptationManager._decide.                                              *)
AtLeast(low, n) == IF n < low THEN low ELSE n

Schedule(epochs, gossip, sleep, batch) ==
  [epochs |-> epochs, gossip |-> gossip, sleep |-> sleep, batch |-> batch]

(* Mutations of MediumEpochs: the two reductions are swapped; the share is *)
(* added instead of taken off.                                             *)
MediumEpochsSwapped(t) ==
  AtLeast(1, IF t = "WARM" THEN (3 * Epochs) \div 4 ELSE Epochs \div 2)
MediumEpochsRaised(t) ==
  AtLeast(1, IF t = "WARM" THEN Epochs \div 2 ELSE (5 * Epochs) \div 4)

MediumEpochs(t) ==
  AtLeast(1, IF t = "WARM" THEN Epochs \div 2 ELSE (3 * Epochs) \div 4)

BatchSizes == 1 .. AtLeast(16, Batch)
Schedules  == [epochs : 0 .. Epochs, gossip : BOOLEAN, sleep : 100 .. 600,
               batch : BatchSizes]

Decide(e, t) ==
  CASE e = "CRITICAL" ->
         Schedule(0, FALSE, 600, Batch)
    [] e # "CRITICAL" /\ t = "CRITICAL" ->
         Schedule(0, e # "LOW", 400, Batch)
    [] e = "LOW" /\ t # "CRITICAL" ->
         Schedule(0, TRUE, 300, Batch)
    [] e \in {"HIGH", "MEDIUM"} /\ t = "HOT" ->
         Schedule(Epochs \div 2, TRUE, 200, AtLeast(16, Batch \div 2))
    [] e = "MEDIUM" /\ t \in {"WARM", "NORMAL"} ->
         Schedule(MediumEpochs(t), TRUE, IF t = "WARM" THEN 150 ELSE 125, Batch)
    [] e = "HIGH" /\ t = "WARM" ->
         Schedule(Epochs, TRUE, 110, AtLeast(16, (3 * Batch) \div 4))
    [] e = "HIGH" /\ t = "NORMAL" ->
         Schedule(Epochs, TRUE, 100, Batch)

Nominal == Schedule(Epochs, TRUE, 100, Batch)

-----------------------------------------------------------------------------
VARIABLES
  committed,   \* _committed_energy, _committed_thermal
  candidate,   \* _candidate_energy, _candidate_thermal
  count,       \* _candidate_count, counted no further than Hysteresis
  schedule,    \* the schedule of the last round
  current,     \* _current_batch_size
  loader,      \* batch size of the training loader in use
  recent       \* history: the last Hysteresis readings, the newest last

vars == <<committed, candidate, count, schedule, current, loader, recent>>

Hysteresis == AtLeast(1, HysteresisRounds)

Initial == <<"HIGH", "NORMAL">>
Nothing == <<"NONE", "NONE">>

TypeOK ==
  /\ committed \in Reading
  /\ candidate \in Reading
  /\ count \in 0 .. Hysteresis
  /\ schedule \in Schedules
  /\ current \in BatchSizes
  /\ loader \in BatchSizes
  /\ recent \in [1 .. Hysteresis -> Reading \cup {Nothing}]

Init ==
  /\ committed = Initial
  /\ candidate = Initial
  /\ count = 0
  /\ schedule = Nominal
  /\ current = Batch
  /\ loader = Batch
  /\ recent = [k \in 1 .. Hysteresis |-> Nothing]

(* Mutation of ComputeSchedule: any reading other than the committed one   *)
(* counts for the transition.                                              *)
ComputeScheduleAnyChange(r) ==
  /\ count' = IF r = committed THEN 0
              ELSE IF count < Hysteresis THEN count + 1 ELSE count
  /\ candidate' = r
  /\ committed' = IF count' >= Hysteresis THEN r ELSE committed
  /\ schedule' = Decide(committed'[1], committed'[2])

(* compute_schedule: count the candidate, commit it when it has been seen  *)
(* often enough in a row, decide from the committed state.                 *)
ComputeSchedule(r) ==
  /\ count' = IF r # candidate THEN 1
              ELSE IF count < Hysteresis THEN count + 1 ELSE count
  /\ candidate' = r
  /\ committed' = IF count' >= Hysteresis THEN r ELSE committed
  /\ schedule' = Decide(committed'[1], committed'[2])

(* The training step of a round: the loader is rebuilt only when the batch *)
(* size differs from the one last built for.                               *)
FollowSchedule ==
  IF schedule'.epochs > 0 /\ schedule'.batch # current
  THEN current' = schedule'.batch /\ loader' = schedule'.batch
  ELSE UNCHANGED <<current, loader>>

(* One round with the given sensor readings.                               *)
RunRound(battery, temperature) ==
  LET r == <<EnergyState(battery), ThermalState(temperature)>> IN
  /\ ComputeSchedule(r)
  /\ FollowSchedule
  /\ recent' = [k \in 1 .. Hysteresis |-> IF k < Hysteresis THEN recent[k + 1] ELSE r]

Next == \E battery \in Batteries, temperature \in Temperatures :
          RunRound(battery, temperature)

Spec == Init /\ [][Next]_vars

-----------------------------------------------------------------------------
(* Properties.                                                             *)

(* The counter and candidate implement debouncing of the joint reading: a  *)
(* transition needs Hysteresis equal readings in a row, and happens with   *)
(* the last of them.                                                       *)
Debounced == INSTANCE Debounce WITH Depth <- Hysteresis, accepted <- committed
DebounceSpec == Debounced!Spec

(* What makes the counter right: it is the length of the run of equal      *)
(* readings that ends the history, and candidate is that reading.          *)
CountIsRun ==
  /\ \A k \in 1 .. Hysteresis : k > Hysteresis - count => recent[k] = candidate
  /\ count = 0 => recent[Hysteresis] = Nothing
  /\ count \in 1 .. Hysteresis - 1 => recent[Hysteresis - count] # candidate

EnergyRank  == [HIGH |-> 0, MEDIUM |-> 1, LOW |-> 2, CRITICAL |-> 3]
ThermalRank == [NORMAL |-> 0, WARM |-> 1, HOT |-> 2, CRITICAL |-> 3]

NoBetter(r, s) == /\ EnergyRank[r[1]] >= EnergyRank[s[1]]
                  /\ ThermalRank[r[2]] >= ThermalRank[s[2]]

(* A committed state that is no better in battery and in temperature never *)
(* gets a schedule that trains more, sleeps less, or gossips where the     *)
(* better state did not.                                                   *)
LessWorkWhenWorse ==
  [][NoBetter(committed', committed) =>
       /\ schedule'.epochs <= schedule.epochs
       /\ schedule'.sleep >= schedule.sleep
       /\ schedule'.gossip => schedule.gossip]_vars

(* Training always runs on a loader built for the batch size of the        *)
(* schedule, through any sequence of size changes and skipped trainings.   *)
LoaderFollowsSchedule == schedule.epochs > 0 => loader = schedule.batch

(* "Critical energy suspends everything" (tests/test_integration.py:126),  *)
(* as far as the code goes: battery and temperature are debounced as a     *)
(* pair, so that it takes a critical battery at one state of the           *)
(* temperature for the hysteresis rounds - each change of the temperature  *)
(* postpones it - and then lasts while the battery is critical, whatever   *)
(* the temperature does.                                                   *)
Suspended   == schedule.epochs = 0 /\ ~schedule.gossip
CriticalFor == \E t \in Thermal : \A k \in 1 .. Hysteresis : recent[k] = <<"CRITICAL", t>>
CriticalSuspends ==
  /\ [](CriticalFor => Suspended)
  /\ [][committed[1] = "CRITICAL" /\ recent'[Hysteresis][1] = "CRITICAL" => Suspended']_vars

(* The inductive invariant of the proofs: the schedule is the decision for *)
(* the committed state, a candidate that has been counted to the end is    *)
(* committed, and the loader has the batch size noted for it.              *)
IInv ==
  /\ TypeOK
  /\ CountIsRun
  /\ schedule = Decide(committed[1], committed[2])
  /\ count = Hysteresis => committed = candidate
  /\ loader = current
  /\ LoaderFollowsSchedule
=============================================================================
