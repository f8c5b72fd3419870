------------------------------ MODULE MCFeed ------------------------------
(* Instances of MetricsFeed for TLC.                                       *)
EXTENDS MetricsFeed

Rounds == 1 .. MaxRounds
=============================================================================
