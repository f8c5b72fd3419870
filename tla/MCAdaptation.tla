---------------------------- MODULE MCAdaptation ----------------------------
(* Instances of Adaptation for TLC: readings on both sides of every        *)
(* threshold of the monitors.                                              *)
EXTENDS Adaptation

EdgeBatteries    == {OnMains, 50, 49, 20, 19, 10, 9}
EdgeTemperatures == {NoSensor, 69, 70, 79, 80, 89, 90}
=============================================================================
