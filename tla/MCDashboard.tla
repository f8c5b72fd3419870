----------------------------- MODULE MCDashboard -----------------------------
(* An instance of Dashboard for TLC: the tours.                            *)
EXTENDS Dashboard

CONSTANTS hysteresis, zero

\* the form accepts a hysteresis of no rounds (config/page.tsx:65), Config
\* does not (config.py:127)
NoHysteresis == { <<hysteresis, zero>> }

Tours == { <<"simulation", "simulation">>, <<"config">>, <<"yolo">>, <<"fastsam">>,
           <<"gossip", "metrics">>, <<"dashboard", "detail">>, <<"nodes", "detail", "yolo">>, <<"detail">>,
           <<"convergence", "metrics">> }

\* the second node's name matches what is typed
SecondOnly == { Node, {2} }

Other == [n \in Node |-> (n % MaxNodes) + 1]

\* loads overlap at the page with the least besides
Overlaps == [p \in NodePage |-> IF p = "nodes" THEN 2 ELSE 1]
=============================================================================
