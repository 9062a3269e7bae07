---------------------------- MODULE IntentLedger ----------------------------
(***************************************************************************)
(* What the offline workspace promises about the user's intentions, with   *)
(* no sessions, snapshots, requests or failures: an operation is recorded  *)
(* on the device, executed on the server only if it was recorded, and      *)
(* forgotten by the device only after that.  An identity handed in again   *)
(* may be recorded again; its execution is not repeated.                   *)
(***************************************************************************)
VARIABLES
  outstanding,  \* the operations the device keeps
  executed      \* the operations the server has executed

Init == outstanding = {} /\ executed = {}

\* A new intention, or the reformulation of one.
Record(op) ==
  /\ op \notin outstanding
  /\ outstanding' = outstanding \union {op}
  /\ UNCHANGED executed

Execute(op) ==
  /\ op \in outstanding \ executed
  /\ executed' = executed \union {op}
  /\ UNCHANGED outstanding

Forget(op) ==
  /\ op \in outstanding \intersect executed
  /\ outstanding' = outstanding \ {op}
  /\ UNCHANGED executed

Next ==
  \/ \E op \in outstanding' : Record(op)
  \/ \E op \in outstanding : Execute(op) \/ Forget(op)

Spec == Init /\ [][Next]_<<outstanding, executed>>
=============================================================================
