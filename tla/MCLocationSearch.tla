-------------------------- MODULE MCLocationSearch --------------------------
(***************************************************************************)
(* Instance of LocationSearch for TLC: two spellings of one query, two     *)
(* others and a blank one, and a cache of two places.                      *)
(***************************************************************************)
EXTENDS LocationSearch, TLC

CONSTANTS q1, q2, q3, q4, blank, k1, k2, k3, l1

Spellings == q1 :> k1 @@ q2 :> k1 @@ q3 :> k2 @@ q4 :> k3 @@ blank :> NoKey
==============================================================================
