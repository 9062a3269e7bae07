---------------------------- MODULE AtomicStore ----------------------------
(***************************************************************************)
(* What LocalWorkspace promises its callers.  Requests are served one at a *)
(* time, in the order they came.  One that is answered `done' has taken    *)
(* effect as a whole, with the answer: the snapshot of an incident and the *)
(* row of its operation together, and nothing for an operation that is     *)
(* there already.  One that is refused, or cut short, has changed nothing. *)
(* IncidentSync changes its store by Save, Change and Acknowledge.         *)
(***************************************************************************)
EXTENDS Naturals, Sequences, SequencesExt

CONSTANT NoOp  \* the operation of a write that has none

VARIABLES
  saved,    \* [incident -> the write its snapshot comes from, 0 for none]
  pending,  \* the rows not yet acknowledged, oldest first
  waiting,  \* the requests handed in and not begun
  serving,  \* the request under way, if any
  answer    \* what the last request was answered

store == <<saved, pending>>
vars == <<saved, pending, waiting, serving, answer>>

Known(id) == \E k \in 1..Len(pending) : pending[k].id = id
IsRowOf(row, op) == row.id = op.id /\ row.incident = op.incident
Holds(op) == \E k \in 1..Len(pending) : IsRowOf(pending[k], op)
\* A row goes behind all others, with an identity none of them has.
IsNew(row) ==
  \A k \in 1..Len(pending) : pending[k].row < row.row /\ pending[k].id # row.id

-----------------------------------------------------------------------------
(* What a request may do to the store. *)

Save(i, write) ==
  /\ saved' = [saved EXCEPT ![i] = write]
  /\ UNCHANGED pending

Change(row, write) ==
  /\ IsNew(row)
  /\ saved' = [saved EXCEPT ![row.incident] = write]
  /\ pending' = Append(pending, row)

Enqueue(row) ==
  /\ IsNew(row) /\ saved[row.incident] # 0
  /\ pending' = Append(pending, row)
  /\ UNCHANGED saved

Acknowledge(id) ==
  \/ \E k \in 1..Len(pending) :
       pending[k].id = id /\ pending' = RemoveAt(pending, k) /\ UNCHANGED saved
  \/ ~Known(id) /\ UNCHANGED store

Replay(op) == Holds(op) /\ UNCHANGED store

\* The row a request adds is the last of the queue.
AddsRow(op) == pending' # <<>> /\ IsRowOf(Last(pending'), op)

Perform(r) ==
  \/ r.kind \in {"open", "close"} /\ UNCHANGED store
  \/ r.kind = "write" /\ r.op = NoOp /\ Save(r.incident, r.number)
  \/ r.kind \in {"write", "enqueue"} /\ r.op # NoOp /\ Replay(r.op)
  \/ r.kind = "write" /\ r.op # NoOp /\ AddsRow(r.op) /\ Change(Last(pending'), r.number)
  \/ r.kind = "enqueue" /\ AddsRow(r.op) /\ Enqueue(Last(pending'))
  \/ r.kind = "acknowledge" /\ Acknowledge(r.id)

-----------------------------------------------------------------------------
Init == waiting = <<>> /\ serving = {} /\ answer = "none"

Ask ==
  /\ waiting' # <<>> /\ waiting = Front(waiting')
  /\ UNCHANGED <<saved, pending, serving, answer>>

Begin ==
  /\ serving = {} /\ waiting # <<>>
  /\ serving' = {Head(waiting)} /\ waiting' = Tail(waiting) /\ answer' = "none"
  /\ UNCHANGED store

Done(r) == Perform(r) /\ serving' = {} /\ answer' = "done" /\ UNCHANGED waiting

Refuse == serving' = {} /\ answer' = "refused" /\ UNCHANGED <<saved, pending, waiting>>

\* The app dies; what was answered stands, what was not asks no more.
Stop == waiting' = <<>> /\ serving' = {} /\ answer' = "none" /\ UNCHANGED store

Next == Ask \/ Begin \/ (\E r \in serving : Done(r) \/ Refuse) \/ Stop
Spec == Init /\ [][Next]_vars
==============================================================================
