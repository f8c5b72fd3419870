-------------------------- MODULE AdaptationProofs --------------------------
(***************************************************************************)
(* Proofs about Adaptation for every hysteresis, every configured number   *)
(* of epochs and batch size, and every range of sensor readings: the       *)
(* counters implement Debounce, and the decision table never asks a node   *)
(* in a worse state for more work.                                         *)
(***************************************************************************)
EXTENDS Adaptation, TLAPS

LEMMA HysteresisNat == Hysteresis \in Nat \ {0}
  BY AdaptationAssumption DEF Hysteresis, AtLeast

LEMMA NothingIsNoReading == Nothing \notin Reading
  BY DEF Nothing, Reading, Energy, Thermal

LEMMA EnergyStateType == ASSUME NEW n \in Int PROVE EnergyState(n) \in Energy
  BY DEF EnergyState, Energy

LEMMA ThermalStateType == ASSUME NEW n \in Int PROVE ThermalState(n) \in Thermal
  BY DEF ThermalState, Thermal

(* The rows of the decision table, one by one.                             *)
LEMMA Rows ==
  /\ \A t \in Thermal : Decide("CRITICAL", t) = Schedule(0, FALSE, 600, Batch)
  /\ \A e \in {"HIGH", "MEDIUM"} :
       /\ Decide(e, "CRITICAL") = Schedule(0, TRUE, 400, Batch)
       /\ Decide(e, "HOT") = Schedule(Epochs \div 2, TRUE, 200, AtLeast(16, Batch \div 2))
  /\ Decide("LOW", "CRITICAL") = Schedule(0, FALSE, 400, Batch)
  /\ \A t \in {"NORMAL", "WARM", "HOT"} :
       Decide("LOW", t) = Schedule(0, TRUE, 300, Batch)
  /\ Decide("MEDIUM", "WARM") = Schedule(MediumEpochs("WARM"), TRUE, 150, Batch)
  /\ Decide("MEDIUM", "NORMAL") = Schedule(MediumEpochs("NORMAL"), TRUE, 125, Batch)
  /\ Decide("HIGH", "WARM") = Schedule(Epochs, TRUE, 110, AtLeast(16, (3 * Batch) \div 4))
  /\ Decide("HIGH", "NORMAL") = Schedule(Epochs, TRUE, 100, Batch)
<1>1. \A t \in Thermal : Decide("CRITICAL", t) = Schedule(0, FALSE, 600, Batch)
  BY DEF Decide
<1>2. \A e \in {"HIGH", "MEDIUM"} :
        Decide(e, "CRITICAL") = Schedule(0, TRUE, 400, Batch)
  <2> SUFFICES ASSUME NEW e \in {"HIGH", "MEDIUM"}
               PROVE  Decide(e, "CRITICAL") = Schedule(0, TRUE, 400, Batch)
    OBVIOUS
  <2>1. (e # "LOW") = TRUE /\ e # "CRITICAL"
    OBVIOUS
  <2> QED BY <2>1 DEF Decide
<1>3. \A e \in {"HIGH", "MEDIUM"} :
        Decide(e, "HOT") = Schedule(Epochs \div 2, TRUE, 200, AtLeast(16, Batch \div 2))
  BY DEF Decide
<1>4. Decide("LOW", "CRITICAL") = Schedule(0, FALSE, 400, Batch)
  <2>1. ("LOW" # "LOW") = FALSE
    OBVIOUS
  <2> QED BY <2>1 DEF Decide
<1>5. \A t \in {"NORMAL", "WARM", "HOT"} :
       Decide("LOW", t) = Schedule(0, TRUE, 300, Batch)
  BY DEF Decide
<1>6. Decide("MEDIUM", "WARM") = Schedule(MediumEpochs("WARM"), TRUE, 150, Batch)
  BY DEF Decide
<1>7. Decide("MEDIUM", "NORMAL") = Schedule(MediumEpochs("NORMAL"), TRUE, 125, Batch)
  BY DEF Decide
<1>8. Decide("HIGH", "WARM") = Schedule(Epochs, TRUE, 110, AtLeast(16, (3 * Batch) \div 4))
  BY DEF Decide
<1>9. Decide("HIGH", "NORMAL") = Schedule(Epochs, TRUE, 100, Batch)
  BY DEF Decide
<1> QED BY <1>1, <1>2, <1>3, <1>4, <1>5, <1>6, <1>7, <1>8, <1>9 DEF Schedule

LEMMA DecideType ==
  ASSUME NEW e \in Energy, NEW t \in Thermal
  PROVE  Decide(e, t) \in Schedules
<1>1. /\ Epochs \div 2 \in 0 .. Epochs
      /\ MediumEpochs("WARM") \in 0 .. Epochs
      /\ MediumEpochs("NORMAL") \in 0 .. Epochs
      /\ Batch \in BatchSizes
      /\ AtLeast(16, Batch \div 2) \in BatchSizes
      /\ AtLeast(16, (3 * Batch) \div 4) \in BatchSizes
      /\ Epochs \in 0 .. Epochs /\ 0 \in 0 .. Epochs
  BY AdaptationAssumption DEF AtLeast, BatchSizes, MediumEpochs
<1>2. CASE t = "CRITICAL"
  BY <1>1, <1>2 DEF Decide, Schedule, Schedules, Energy
<1>3. CASE t = "HOT"
  BY <1>1, <1>3 DEF Decide, Schedule, Schedules, Energy
<1>4. CASE t = "WARM"
  BY <1>1, <1>4 DEF Decide, Schedule, Schedules, Energy
<1>5. CASE t = "NORMAL"
  BY <1>1, <1>5 DEF Decide, Schedule, Schedules, Energy
<1> QED BY <1>2, <1>3, <1>4, <1>5 DEF Thermal

(* A worse state never gets more epochs, less sleep, or gossip that the    *)
(* better one did not get.                                                 *)
LEMMA DecideMonotone ==
  ASSUME NEW r \in Reading, NEW s \in Reading, NoBetter(r, s)
  PROVE  /\ Decide(r[1], r[2]).epochs <= Decide(s[1], s[2]).epochs
         /\ Decide(r[1], r[2]).sleep >= Decide(s[1], s[2]).sleep
         /\ Decide(r[1], r[2]).gossip => Decide(s[1], s[2]).gossip
<1>1. /\ r[1] \in Energy /\ r[2] \in Thermal /\ s[1] \in Energy /\ s[2] \in Thermal
      /\ EnergyRank[r[1]] >= EnergyRank[s[1]]
      /\ ThermalRank[r[2]] >= ThermalRank[s[2]]
  BY DEF Reading, NoBetter
<1>2. /\ EnergyRank["HIGH"] = 0 /\ EnergyRank["MEDIUM"] = 1
      /\ EnergyRank["LOW"] = 2 /\ EnergyRank["CRITICAL"] = 3
      /\ ThermalRank["NORMAL"] = 0 /\ ThermalRank["WARM"] = 1
      /\ ThermalRank["HOT"] = 2 /\ ThermalRank["CRITICAL"] = 3
  BY DEF EnergyRank, ThermalRank
<1>3. /\ 0 <= Epochs \div 2
      /\ Epochs \div 2 <= MediumEpochs("WARM")
      /\ MediumEpochs("WARM") <= MediumEpochs("NORMAL")
      /\ MediumEpochs("NORMAL") <= Epochs
      /\ MediumEpochs("WARM") \in Int /\ MediumEpochs("NORMAL") \in Int
      /\ Epochs \in Int /\ Epochs \div 2 \in Int
  BY AdaptationAssumption DEF AtLeast, MediumEpochs
<1>4. CASE s[1] = "HIGH"
  BY <1>1, <1>2, <1>3, <1>4, Rows DEF Schedule, Energy, Thermal
<1>5. CASE s[1] = "MEDIUM"
  BY <1>1, <1>2, <1>3, <1>5, Rows DEF Schedule, Energy, Thermal
<1>6. CASE s[1] = "LOW"
  BY <1>1, <1>2, <1>3, <1>6, Rows DEF Schedule, Energy, Thermal
<1>7. CASE s[1] = "CRITICAL"
  BY <1>1, <1>2, <1>3, <1>7, Rows DEF Schedule, Energy, Thermal
<1> QED BY <1>1, <1>4, <1>5, <1>6, <1>7 DEF Energy

(* The inductive invariant.                                                *)
LEMMA InitIInv == Init => IInv
<1> SUFFICES ASSUME Init PROVE IInv
  OBVIOUS
<1>1. Initial \in Reading /\ Initial[1] = "HIGH" /\ Initial[2] = "NORMAL"
  BY DEF Initial, Reading, Energy, Thermal
<1>2. Nominal = Decide("HIGH", "NORMAL")
  BY Rows DEF Nominal
<1>3. Nominal \in Schedules
  BY <1>2, DecideType DEF Energy, Thermal
<1>4. Batch \in BatchSizes
  BY AdaptationAssumption DEF AtLeast, BatchSizes
<1>5. TypeOK
  BY <1>1, <1>3, <1>4, HysteresisNat DEF Init, TypeOK
<1>6. CountIsRun
  BY HysteresisNat DEF Init, CountIsRun
<1>7. LoaderFollowsSchedule
  BY DEF Init, LoaderFollowsSchedule, Nominal, Schedule
<1> QED BY <1>1, <1>2, <1>5, <1>6, <1>7, HysteresisNat DEF IInv, Init

LEMMA StepIInv ==
  ASSUME IInv, NEW r \in Reading, ComputeSchedule(r), FollowSchedule,
         recent' = [k \in 1 .. Hysteresis |-> IF k < Hysteresis THEN recent[k + 1] ELSE r]
  PROVE  IInv'
<1> USE DEF IInv, ComputeSchedule
<1>0. Hysteresis' = Hysteresis
  OBVIOUS
<1>1. r[1] \in Energy /\ r[2] \in Thermal /\ r # Nothing
  BY NothingIsNoReading DEF Reading
<1>2. count \in 0 .. Hysteresis /\ count' \in 1 .. Hysteresis
  BY HysteresisNat DEF TypeOK
<1>3. committed' \in Reading
  BY DEF TypeOK
<1>4. schedule' \in Schedules
  <2>1. committed'[1] \in Energy /\ committed'[2] \in Thermal
    BY <1>3 DEF Reading
  <2>2. schedule' = Decide(committed'[1], committed'[2])
    OBVIOUS
  <2> QED BY <2>1, <2>2, DecideType
<1>5. /\ loader' = current'
      /\ current' \in BatchSizes
      /\ schedule'.epochs > 0 => loader' = schedule'.batch
  <2>1. schedule'.batch \in BatchSizes
    BY <1>4 DEF Schedules
  <2>2. loader = current /\ current \in BatchSizes
    BY DEF TypeOK
  <2> HIDE DEF IInv, ComputeSchedule
  <2>3. CASE schedule'.epochs > 0 /\ schedule'.batch # current
    BY <2>1, <2>3 DEF FollowSchedule
  <2>4. CASE ~(schedule'.epochs > 0 /\ schedule'.batch # current)
    BY <2>2, <2>4 DEF FollowSchedule
  <2> QED BY <2>3, <2>4
<1>6. recent' \in [1 .. Hysteresis -> Reading \cup {Nothing}]
  BY HysteresisNat DEF TypeOK
<1>7. TypeOK'
  <2>1. candidate' \in Reading /\ count' \in 0 .. Hysteresis /\ loader' \in BatchSizes
    BY <1>2, <1>5
  <2> QED BY <1>3, <1>4, <1>5, <1>6, <2>1 DEF TypeOK
<1>8. CountIsRun'
  <2>1. recent'[Hysteresis] = r
    BY HysteresisNat
  <2>2. \A k \in 1 .. Hysteresis : k < Hysteresis => recent'[k] = recent[k + 1]
    BY HysteresisNat
  <2>3. CASE r # candidate
    <3>1. count' = 1 /\ candidate' = r
      BY <2>3
    <3>2. Hysteresis > 1 => recent[Hysteresis] # r
      BY <1>1, <1>2, <2>3, HysteresisNat DEF CountIsRun
    <3>3. Hysteresis > 1 => recent'[Hysteresis - 1] # r
      BY <2>2, <3>2, HysteresisNat
    <3> QED BY <2>1, <3>1, <3>3, HysteresisNat DEF CountIsRun
  <2>4. CASE r = candidate /\ count < Hysteresis
    <3>1. count' = count + 1 /\ candidate' = candidate
      BY <2>4
    <3>2. \A k \in 1 .. Hysteresis : k > Hysteresis - count' => recent'[k] = candidate
      BY <1>2, <2>1, <2>2, <2>4, <3>1, HysteresisNat DEF CountIsRun
    <3>3. count' < Hysteresis => recent[Hysteresis - count] # candidate
      BY <1>1, <1>2, <2>4, <3>1, HysteresisNat DEF CountIsRun
    <3>4. count' < Hysteresis => recent'[Hysteresis - count'] # candidate
      BY <1>2, <2>2, <3>1, <3>3, HysteresisNat
    <3>5. count' # 0 /\ candidate' = candidate
      BY <1>2, <3>1, HysteresisNat
    <3>6. count' \in 1 .. Hysteresis - 1 => count' < Hysteresis
      BY HysteresisNat
    <3> QED BY <3>2, <3>4, <3>5, <3>6 DEF CountIsRun
  <2>5. CASE r = candidate /\ count = Hysteresis
    <3>1. count' = Hysteresis /\ candidate' = candidate
      BY <2>5, HysteresisNat
    <3>2. \A k \in 1 .. Hysteresis : recent'[k] = candidate
      BY <2>1, <2>2, <2>5, HysteresisNat DEF CountIsRun
    <3> QED BY <3>1, <3>2, HysteresisNat DEF CountIsRun
  <2> QED BY <1>2, <2>3, <2>4, <2>5, HysteresisNat
<1>9. count' = Hysteresis => committed' = candidate'
  BY HysteresisNat
<1> QED BY <1>5, <1>7, <1>8, <1>9 DEF LoaderFollowsSchedule

LEMMA NextIInv == IInv /\ [Next]_vars => IInv'
<1> SUFFICES ASSUME IInv, [Next]_vars PROVE IInv'
  OBVIOUS
<1>1. CASE UNCHANGED vars
  BY <1>1 DEF vars, IInv, TypeOK, CountIsRun, LoaderFollowsSchedule
<1>2. ASSUME NEW b \in Batteries, NEW t \in Temperatures, RunRound(b, t)
      PROVE  IInv'
  <2>1. <<EnergyState(b), ThermalState(t)>> \in Reading
    BY AdaptationAssumption, EnergyStateType, ThermalStateType DEF Reading
  <2> QED BY <1>2, <2>1, StepIInv DEF RunRound
<1> QED BY <1>1, <1>2 DEF Next

THEOREM Invariance == Spec => []IInv
  BY InitIInv, NextIInv, PTL DEF Spec

(* Type correctness.                                                       *)
THEOREM TypeCorrect == Spec => []TypeOK
<1>1. IInv => TypeOK
  BY DEF IInv
<1> QED BY <1>1, Invariance, PTL

(* A loader of the scheduled batch size whenever the round trains.         *)
THEOREM LoaderHolds == Spec => []LoaderFollowsSchedule
<1>1. IInv => LoaderFollowsSchedule
  BY DEF IInv
<1> QED BY <1>1, Invariance, PTL

(* A history that shows one reading throughout has been counted to the     *)
(* end, so that reading is committed.                                      *)
LEMMA SteadyIsCommitted ==
  ASSUME IInv, NEW r \in Reading, \A k \in 1 .. Hysteresis : recent[k] = r
  PROVE  count = Hysteresis /\ candidate = r /\ committed = r
<1>1. count # 0
  BY HysteresisNat, NothingIsNoReading DEF IInv, CountIsRun
<1>2. count \in 1 .. Hysteresis
  BY <1>1, HysteresisNat DEF IInv, TypeOK
<1>3. candidate = r
  BY <1>2, HysteresisNat DEF IInv, CountIsRun
<1>4. count = Hysteresis
  BY <1>2, <1>3, HysteresisNat DEF IInv, CountIsRun
<1> QED BY <1>3, <1>4 DEF IInv

(* A battery that is critical at one state of the temperature for the      *)
(* hysteresis rounds suspends training and gossip, and from then on does   *)
(* so at any temperature (the candidate of compute_schedule is the pair).  *)
THEOREM CriticalSuspendsHolds == Spec => CriticalSuspends
<1>1. ASSUME IInv, committed[1] = "CRITICAL" PROVE Suspended
  <2>1. committed[2] \in Thermal
    BY <1>1 DEF IInv, TypeOK, Reading
  <2>2. schedule = Decide("CRITICAL", committed[2])
    BY <1>1 DEF IInv
  <2>3. \A t \in Thermal : Decide("CRITICAL", t) = Schedule(0, FALSE, 600, Batch)
    BY Rows
  <2>4. schedule = Schedule(0, FALSE, 600, Batch)
    BY <2>1, <2>2, <2>3, Zenon
  <2> QED BY <2>4 DEF Schedule, Suspended
<1>2. ASSUME IInv PROVE CriticalFor => Suspended
  <2> SUFFICES ASSUME NEW t \in Thermal,
                      \A k \in 1 .. Hysteresis : recent[k] = <<"CRITICAL", t>>
               PROVE  Suspended
    BY DEF CriticalFor
  <2>1. <<"CRITICAL", t>> \in Reading
    BY DEF Reading, Energy
  <2>2. committed = <<"CRITICAL", t>>
    BY <1>2, <2>1, SteadyIsCommitted
  <2> QED BY <1>1, <1>2, <2>2
<1>3. ASSUME IInv, [Next]_vars, committed[1] = "CRITICAL", recent'[Hysteresis][1] = "CRITICAL"
      PROVE  committed'[1] = "CRITICAL"
  <2>1. CASE UNCHANGED vars
    BY <1>3, <2>1 DEF vars
  <2>2. ASSUME NEW b, NEW t, RunRound(b, t) PROVE committed'[1] = "CRITICAL"
    <3> DEFINE r == <<EnergyState(b), ThermalState(t)>>
    <3>1. committed' \in {r, committed}
      BY <2>2 DEF RunRound, ComputeSchedule
    <3>2. recent'[Hysteresis] = r
      BY <2>2, HysteresisNat DEF RunRound
    <3> HIDE DEF r
    <3> QED BY <1>3, <3>1, <3>2
  <2> QED BY <1>3, <2>1, <2>2 DEF Next
<1>4. (IInv /\ committed[1] = "CRITICAL" => Suspended)'
  BY <1>1, PTL
<1>5. IInv /\ IInv' /\ [Next]_vars =>
        [committed[1] = "CRITICAL" /\ recent'[Hysteresis][1] = "CRITICAL" => Suspended']_vars
  BY <1>3, <1>4
<1> QED BY <1>2, <1>5, Invariance, PTL DEF Spec, CriticalSuspends

(* The node never works harder because its state got worse.                *)
THEOREM LessWorkHolds == Spec => LessWorkWhenWorse
<1>1. ASSUME IInv, IInv', NoBetter(committed', committed)
      PROVE  /\ schedule'.epochs <= schedule.epochs
             /\ schedule'.sleep >= schedule.sleep
             /\ schedule'.gossip => schedule.gossip
  <2>1. /\ committed \in Reading /\ committed' \in Reading
        /\ schedule = Decide(committed[1], committed[2])
        /\ schedule' = Decide(committed'[1], committed'[2])
    BY <1>1 DEF IInv, TypeOK
  <2> QED BY <1>1, <2>1, DecideMonotone
<1>2. IInv /\ IInv' =>
        [NoBetter(committed', committed) =>
           /\ schedule'.epochs <= schedule.epochs
           /\ schedule'.sleep >= schedule.sleep
           /\ schedule'.gossip => schedule.gossip]_vars
  BY <1>1
<1> QED BY <1>2, Invariance, PTL DEF LessWorkWhenWorse

(* Candidate and counter implement Debounce.                               *)
THEOREM Refinement == Spec => DebounceSpec
<1>1. Init => Debounced!Init
  BY DEF Init, Debounced!Init
<1>2. ASSUME IInv, IInv', NEW r \in Reading, ComputeSchedule(r),
             recent' = [k \in 1 .. Hysteresis |-> IF k < Hysteresis THEN recent[k + 1] ELSE r]
      PROVE  Debounced!Observe(r)
  <2>1. recent' = Debounced!Shifted(r)
    BY <1>2 DEF Debounced!Shifted
  <2>2. ASSUME \A k \in 1 .. Hysteresis : recent'[k] = r
        PROVE  committed' = r
    <3>1. /\ count' = 0 => recent'[Hysteresis] = Nothing
          /\ count' \in 1 .. Hysteresis - 1 => recent'[Hysteresis - count'] # candidate'
      BY <1>2 DEF IInv, CountIsRun
    <3>2. count' # 0
      BY <2>2, <3>1, HysteresisNat, NothingIsNoReading
    <3>3. count' \in 1 .. Hysteresis
      BY <1>2, <3>2, HysteresisNat DEF IInv, TypeOK
    <3>4. candidate' = r
      BY <1>2 DEF ComputeSchedule
    <3>5. count' = Hysteresis
      BY <2>2, <3>1, <3>3, <3>4, HysteresisNat
    <3> QED BY <1>2, <3>5, HysteresisNat DEF ComputeSchedule
  <2>3. ASSUME ~ \A k \in 1 .. Hysteresis : recent'[k] = r
        PROVE  committed' = committed
    <3>1. candidate' = r
      BY <1>2 DEF ComputeSchedule
    <3>2. count' # Hysteresis
      <4>1. \A k \in 1 .. Hysteresis : k > Hysteresis - count' => recent'[k] = candidate'
        BY <1>2 DEF IInv, CountIsRun
      <4> QED BY <2>3, <3>1, <4>1, HysteresisNat
    <3>3. count' \in 0 .. Hysteresis
      BY <1>2 DEF IInv, TypeOK
    <3> QED BY <1>2, <3>2, <3>3, HysteresisNat DEF ComputeSchedule
  <2> QED BY <2>1, <2>2, <2>3 DEF Debounced!Observe
<1>3. IInv /\ IInv' /\ [Next]_vars => [Debounced!Next]_(Debounced!vars)
  <2> SUFFICES ASSUME IInv, IInv', [Next]_vars
               PROVE  [Debounced!Next]_(Debounced!vars)
    OBVIOUS
  <2>1. CASE UNCHANGED vars
    BY <2>1 DEF vars, Debounced!vars
  <2>2. ASSUME NEW b \in Batteries, NEW t \in Temperatures, RunRound(b, t)
        PROVE  Debounced!Next
    <3>1. <<EnergyState(b), ThermalState(t)>> \in Reading
      BY AdaptationAssumption, EnergyStateType, ThermalStateType DEF Reading
    <3>2. Debounced!Observe(<<EnergyState(b), ThermalState(t)>>)
      BY <1>2, <2>2, <3>1 DEF RunRound
    <3> QED BY <3>1, <3>2 DEF Debounced!Next
  <2> QED BY <2>1, <2>2 DEF Next
<1> QED BY <1>1, <1>3, Invariance, PTL DEF Spec, DebounceSpec, Debounced!Spec
=============================================================================
