------------------------------ MODULE AnsweredCall ------------------------------
(***************************************************************************)
(* What the operations that need a connection promise of one call, however *)
(* its request travels: it has its effect once at most and only after it   *)
(* was asked for; its effect stays what it is; and its one answer is true  *)
(* for good.  "failed" says nothing of the effect, which may be there or   *)
(* still come.                                                             *)
(***************************************************************************)

VARIABLES
  effects,   \* the versions of incidents that the call made
  told       \* "idle", "waiting", then the answer the user has

Init == effects = {} /\ told = "idle"

Ask == told = "idle" /\ told' = "waiting" /\ UNCHANGED effects

\* An answer, given once: a confirmation is of an effect that is there, a refusal
\* of one that is not.
Tell ==
  /\ told = "waiting" /\ told' \in {"confirmed", "refused", "failed"}
  /\ told' = "confirmed" => effects' # {}
  /\ told' = "refused" => effects' = {}
Answer == Tell /\ UNCHANGED effects

\* The effect of a call that was asked for and not refused, answered at once or not.
Execute ==
  /\ told \notin {"idle", "refused"} /\ effects = {}
  /\ \E version \in effects' : effects' = {version}
  /\ Tell \/ UNCHANGED told

Next == Ask \/ Answer \/ Execute
Spec == Init /\ [][Next]_<<told, effects>>
=================================================================================
