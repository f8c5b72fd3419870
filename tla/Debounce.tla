------------------------------ MODULE Debounce ------------------------------
(***************************************************************************)
(* What debouncing promises, stated without counters: the accepted state   *)
(* changes to a reading exactly when the last Depth readings were that     *)
(* reading.  ("Minimum consecutive rounds a new state must be observed     *)
(* before a transition is accepted", adaptation/manager.py:73.)            *)
(***************************************************************************)
EXTENDS Naturals

CONSTANTS
  Reading,   \* what is observed
  Initial,   \* the state accepted before any observation
  Nothing,   \* placeholder for an observation not yet made
  Depth      \* consecutive equal readings required

VARIABLES recent, accepted

vars == <<recent, accepted>>

Init ==
  /\ recent = [k \in 1 .. Depth |-> Nothing]
  /\ accepted = Initial

Shifted(r) == [k \in 1 .. Depth |-> IF k < Depth THEN recent[k + 1] ELSE r]

Observe(r) ==
  /\ recent' = Shifted(r)
  /\ accepted' = IF \A k \in 1 .. Depth : Shifted(r)[k] = r THEN r ELSE accepted

Next == \E r \in Reading : Observe(r)

Spec == Init /\ [][Next]_vars
=============================================================================
