-------------------------- MODULE MCIncidentScreen --------------------------
(***************************************************************************)
(* Instance of IncidentScreen for TLC: two incidents, which are            *)
(* interchangeable, two sessions and a few things the user asks for.       *)
(***************************************************************************)
EXTENDS IncidentScreen, TLC

CONSTANTS i1, i2

\* The account left one of the incidents in conflict.
OneConflict == {[i \in Incidents |-> IF i = j THEN "conflict" ELSE "none"] : j \in Incidents}
Symmetric == Permutations(Incidents)
==============================================================================
