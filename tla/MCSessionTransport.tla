------------------------- MODULE MCSessionTransport -------------------------
(***************************************************************************)
(* Instance of SessionTransport for TLC: one request that names its        *)
(* session and one without a stable key, and a clock of a few units.       *)
(***************************************************************************)
EXTENDS SessionTransport

CONSTANTS r1, r2, a1
==============================================================================
