------------------------------ MODULE MCGossip ------------------------------
(* Instances of GossipExchange for TLC: who knows whom, and how many       *)
(* rounds each node runs.                                                  *)
EXTENDS GossipExchange

CONSTANTS a, b, c

NoStatic == {}
AKnowsBStatically == { <<a, b>> }

OneEach  == [i \in Node |-> 1]

\* node c only answers
AllButC   == [i \in Node |-> IF i = c THEN 0 ELSE 1]
=============================================================================
