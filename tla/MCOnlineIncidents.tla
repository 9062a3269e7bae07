--------------------------- MODULE MCOnlineIncidents ---------------------------
(***************************************************************************)
(* Instance of OnlineIncidents for TLC: an incident there was and room for *)
(* two new ones, which are interchangeable; one account of each role.      *)
(***************************************************************************)
EXTENDS OnlineIncidents, TLC

CONSTANTS i1, i2, i3, r1, t1, k1, x1, x2

MCRole == [a \in Actors |-> IF a = r1 THEN "reporter" ELSE IF a = k1 THEN "coordinator" ELSE "technician"]
MCTextOf == [c \in Calls |-> IF c = 1 THEN x1 ELSE x2]
Symmetric == Permutations(Incidents \ First)
================================================================================
