---------------------------- MODULE MCDiscovery ----------------------------
(* Instances of Discovery for TLC.                                         *)
EXTENDS Discovery

CONSTANTS a, b

\* replicas that share a directory, as in docker-compose.yml
OneDirectory == [n \in Node |-> "keys"]
=============================================================================
