--------------------------- MODULE MCIncidentSync ---------------------------
(***************************************************************************)
(* Instances of IncidentSync for TLC: up to two technicians and a          *)
(* coordinator, one or two incidents, two or three operation identities.   *)
(***************************************************************************)
EXTENDS IncidentSync, TLC

CONSTANTS t1, t2, c1

MCRole == [a \in Actors |-> IF a = c1 THEN "coordinator" ELSE "technician"]
MCReporter == [i \in Incidents |-> t1]

\* Operation identities are interchangeable.
Symmetric == Permutations(OpIds)
=============================================================================
