---------------------------- MODULE MCSimulation ----------------------------
(* Instances of SimulationService for TLC.                                 *)
EXTENDS SimulationService, TLC

\* node processes and stop requests are interchangeable
Symmetry == Permutations(Node) \cup Permutations(Stopper)
=============================================================================
