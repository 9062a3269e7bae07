----------------------------- MODULE LocalStore -----------------------------
(***************************************************************************)
(* SqliteLocalWorkspace over its database and the attachment directory of  *)
(* createExpoWorkspace.  Tasks of all callers run one at a time in a queue.*)
(* A transaction of SQLite is atomic (external); the photo files a write   *)
(* copies are not part of it: they appear one by one before the commit and *)
(* are removed one by one when it fails, and the app can die in between.   *)
(***************************************************************************)
EXTENDS Integers, Sequences, FiniteSets, SequencesExt

CONSTANTS
  Incidents,
  OpIds, NoOp,     \* identities of operations; a write without operation
  Files,           \* names a copied photo may take
  FirstDbs,        \* the databases the app may find, of any schema
  MaxPhotos,       \* bound on the new photos of one write
  MaxTasks         \* bound on the tasks submitted

Operations == [id : OpIds, incident : Incidents]
ASSUME StoreAssumption ==
  /\ Incidents # {} /\ OpIds # {} /\ NoOp \notin Operations
  /\ MaxPhotos \in Nat /\ MaxTasks \in Nat

VARIABLES
  db,         \* durable: version, snapshots, rows, next sequence
  files,      \* durable: the files of the attachment directory
  opened,     \* the connection is open
  queue,      \* tail: the tasks waiting
  task,       \* the task in progress
  submitted,  \* how many tasks callers have submitted
  kept,       \* history: the files a committed snapshot has referred to
  leaked      \* history: the files a crash or a failed delete left behind

vars == <<db, files, opened, queue, task, submitted, kept, leaked>>

-----------------------------------------------------------------------------
(* Data. *)

Version == 2  \* WORKSPACE_VERSION
NoSnapshot == [write |-> 0, photos |-> {}]
Snapshots == [write : 0..MaxTasks + 1, photos : SUBSET Files]
\* filled: actor_id and base_version are stored (schema 2).  sound: the stored
\* JSON passes validateOperation and agrees with the row's columns.
Rows == [sequence : Nat \ {0}, op : Operations, filled : BOOLEAN, sound : BOOLEAN]
Databases ==
  [version : 0..Version, snapshots : [Incidents -> Snapshots], rows : Seq(Rows),
   next : Nat \ {0}]
\* What the tables guarantee: sequences ascend below the next one, identities
\* are unique, and a row fits the schema and is of a stored snapshot.
InOrder(d) ==
  /\ \A j, k \in 1..Len(d.rows) : j < k =>
       /\ d.rows[j].sequence < d.rows[k].sequence
       /\ d.rows[j].op.id # d.rows[k].op.id
  /\ \A k \in 1..Len(d.rows) : d.rows[k].sequence < d.next
Consistent(d) ==
  \A k \in 1..Len(d.rows) :
    /\ d.rows[k].filled <=> d.version = Version
    /\ d.snapshots[d.rows[k].op.incident].write # 0
ASSUME FirstDbsAssumption ==
  \A d \in FirstDbs : d \in Databases /\ InOrder(d) /\ Consistent(d)
Kinds == {"open", "close", "write", "enqueue", "acknowledge"}
Tasks ==
  [kind : Kinds, incident : Incidents, op : Operations \union {NoOp}, id : OpIds,
   photos : SUBSET Files,  \* photos the snapshot already refers to
   fresh : 0..MaxPhotos,   \* photos the camera just took
   number : 0..MaxTasks + 1] \* a snapshot is known by the number of its write

Referred(d) == UNION {d.snapshots[i].photos : i \in Incidents}
HasRow(id) == \E k \in 1..Len(db.rows) : db.rows[k].op.id = id
OpOf(id) == (CHOOSE r \in ToSet(db.rows) : r.op.id = id).op
NewRow(op) ==
  [sequence |-> db.next, op |-> op, filled |-> db.version = Version, sound |-> TRUE]
Plain(kind, i, id) ==
  [kind |-> kind, incident |-> i, op |-> NoOp, id |-> id, photos |-> {}, fresh |-> 0,
   number |-> submitted + 2]
AnyIncident == CHOOSE i \in Incidents : TRUE
AnyId == CHOOSE o \in OpIds : TRUE
NoTask ==
  [kind |-> "open", incident |-> AnyIncident, op |-> NoOp, id |-> AnyId, photos |-> {},
   fresh |-> 0, number |-> 0]
\* Between two tasks: how the last one settled is what its promise says.
Answers == {"none", "done", "refused"}
Idle(answer) == [phase |-> "idle", task |-> NoTask, copies |-> <<>>, answer |-> answer]
Running(phase) == task.phase = phase

-----------------------------------------------------------------------------
(* Callers submit tasks, with their input captured, and get a promise. *)

Submit(t) ==
  /\ submitted < MaxTasks
  /\ submitted' = submitted + 1
  /\ queue' = Append(queue, t)
  /\ UNCHANGED <<db, files, opened, task, kept, leaked>>

SubmitOpen == Submit(Plain("open", AnyIncident, AnyId))
SubmitClose == Submit(Plain("close", AnyIncident, AnyId))
SubmitAcknowledge(id) == Submit(Plain("acknowledge", AnyIncident, id))
SubmitEnqueue(op) == Submit([Plain("enqueue", op.incident, op.id) EXCEPT !.op = op])
\* saveSnapshot (no operation) and commitChange: the caller keeps the photos of
\* the snapshot it read and adds new ones.
SubmitWrite(i, op, fresh) ==
  /\ op # NoOp => op.incident = i
  /\ Submit([Plain("write", i, AnyId) EXCEPT !.op = op, !.fresh = fresh,
             !.photos = db.snapshots[i].photos])

-----------------------------------------------------------------------------
(* One task at a time. *)

\* Mutated form: a rejected task leaves the queue rejected.
BlocksQueue(failed) == ~failed
QueueGoesOn(failed) == TRUE
\* The task settles; the next one begins.
Settles(failed) ==
  /\ LET idle == Idle(IF failed THEN "refused" ELSE "done")
     IN  task' = IF QueueGoesOn(failed) THEN idle ELSE [idle EXCEPT !.phase = "blocked"]
  /\ UNCHANGED queue

Take ==
  /\ Running("idle") /\ queue # <<>>
  /\ task' = [phase |-> Head(queue).kind, task |-> Head(queue), copies |-> <<>>,
               answer |-> "none"]
  /\ queue' = Tail(queue)
  /\ UNCHANGED <<db, files, opened, submitted, kept, leaked>>

\* A statement fails, the workspace is closed, the data is refused: the
\* transaction is rolled back and nothing had been copied yet.
Refused ==
  /\ task.phase \in Kinds
  /\ Settles(TRUE)
  /\ UNCHANGED <<db, files, opened, submitted, kept, leaked>>

\* The rows of schema 1 are copied with their sequences and their columns
\* filled from the operation; invalid ones stop the migration.
Migratable == db.version = Version \/ \A r \in ToSet(db.rows) : r.sound
\* Mutated form: the copied rows are numbered anew, newest first.
Renumbered(rows) ==
  [k \in 1..Len(rows) |-> [rows[Len(rows) + 1 - k] EXCEPT !.filled = TRUE, !.sequence = k]]
Filled(rows) == [k \in 1..Len(rows) |-> [rows[k] EXCEPT !.filled = TRUE]]
\* SQLite numbers the new table's next row after its greatest sequence.
NextAfter(rows) == IF rows = <<>> THEN 1 ELSE Last(rows).sequence + 1
Migrated(d) ==
  IF d.version = Version THEN d
  ELSE [d EXCEPT !.version = Version, !.rows = Filled(d.rows), !.next = NextAfter(d.rows)]

Open ==
  /\ Running("open")
  /\ \/ opened /\ UNCHANGED <<db, opened>>
     \/ ~opened /\ Migratable /\ opened' = TRUE /\ db' = Migrated(db)
  /\ Settles(FALSE)
  /\ UNCHANGED <<files, submitted, kept, leaked>>

Close ==
  /\ Running("close")
  /\ opened' = FALSE
  /\ Settles(FALSE)
  /\ UNCHANGED <<db, files, submitted, kept, leaked>>

WithRow(d, op) == [d EXCEPT !.rows = Append(@, NewRow(op)), !.next = @ + 1]
\* insertOperation looks for a duplicate again.
WithOperation(d, op) == IF op = NoOp \/ HasRow(op.id) THEN d ELSE WithRow(d, op)

Enqueue ==
  LET op == task.task.op IN
  /\ Running("enqueue") /\ opened
  /\ \/ HasRow(op.id) /\ OpOf(op.id) = op /\ UNCHANGED db
     \/ ~HasRow(op.id) /\ db.snapshots[op.incident].write # 0 /\ db' = WithRow(db, op)
  /\ Settles(FALSE)
  /\ UNCHANGED <<files, opened, submitted, kept, leaked>>

\* The identity is UNIQUE: at most one row is deleted.
Acknowledge ==
  LET id == task.task.id IN
  /\ Running("acknowledge") /\ opened
  /\ \/ ~HasRow(id) /\ UNCHANGED db
     \/ \E k \in 1..Len(db.rows) :
          db.rows[k].op.id = id /\ db' = [db EXCEPT !.rows = RemoveAt(@, k)]
  /\ Settles(FALSE)
  /\ UNCHANGED <<files, opened, submitted, kept, leaked>>

-----------------------------------------------------------------------------
(* A write: look for a duplicate, retain the photos, store, or clean up. *)

\* Mutated form: the snapshot of an operation handed in again is stored.
NeverReplayed(op) == FALSE
Replayed(op) == op # NoOp /\ HasRow(op.id)

WriteBegins ==
  LET t == task.task IN
  /\ Running("write") /\ opened
  /\ \/ Replayed(t.op) /\ OpOf(t.op.id) = t.op /\ Settles(FALSE)
     \/ /\ ~Replayed(t.op) /\ t.photos \subseteq files
        /\ task' = [task EXCEPT !.phase = "retain"] /\ UNCHANGED queue
  /\ UNCHANGED <<db, files, opened, submitted, kept, leaked>>

\* Mutated form: the clean-up also covers the photos that were already there.
OwnAndReused(t, f) == SetToSeq(t.photos) \o <<f>>
CleansUp(t, f) == <<f>>

Retain(f) ==
  /\ Running("retain") /\ Len(task.copies) < task.task.fresh
  /\ f \notin files
  /\ files' = files \union {f}
  /\ task' = [task EXCEPT !.copies = @ \o CleansUp(task.task, f)]
  /\ UNCHANGED <<db, opened, queue, submitted, kept, leaked>>

\* A copy that fails is deleted at once, if that succeeds; the write fails.
RetainFails ==
  /\ Running("retain") /\ Len(task.copies) < task.task.fresh
  /\ task' = [task EXCEPT !.phase = "rollback"]
  /\ \/ UNCHANGED <<files, leaked>>
     \/ \E f \in Files \ files : files' = files \union {f} /\ leaked' = leaked \union {f}
  /\ UNCHANGED <<db, opened, queue, submitted, kept>>

Stored(t) ==
  [db EXCEPT !.snapshots[t.incident] =
     [write |-> t.number, photos |-> t.photos \union ToSet(task.copies)]]

Commit ==
  LET t == task.task IN
  /\ Running("retain") /\ Len(task.copies) >= t.fresh
  /\ db' = WithOperation(Stored(t), t.op)
  /\ kept' = kept \union db'.snapshots[t.incident].photos
  /\ Settles(FALSE)
  /\ UNCHANGED <<files, opened, submitted, leaked>>

\* Mutated form: the upsert is stored outside of the transaction.
SnapshotStays(t) == Stored(t)
RolledBack(t) == db
\* The upsert, the insert or the commit fails.
CommitFails ==
  /\ Running("retain") /\ Len(task.copies) >= task.task.fresh
  /\ db' = RolledBack(task.task)
  /\ task' = [task EXCEPT !.phase = "rollback"]
  /\ UNCHANGED <<files, opened, queue, submitted, kept, leaked>>

Others(copies) == Front(copies)

RollBack ==
  /\ Running("rollback") /\ task.copies # <<>>
  /\ files' = files \ {Last(task.copies)}
  /\ task' = [task EXCEPT !.copies = Others(task.copies)]
  /\ UNCHANGED <<db, opened, queue, submitted, kept, leaked>>

\* A delete that throws ends the clean-up.
RollBackFails ==
  /\ Running("rollback") /\ task.copies # <<>>
  /\ leaked' = leaked \union ToSet(task.copies)
  /\ Settles(TRUE)
  /\ UNCHANGED <<db, files, opened, submitted, kept>>

WriteFailed ==
  /\ Running("rollback") /\ task.copies = <<>>
  /\ Settles(TRUE)
  /\ UNCHANGED <<db, files, opened, submitted, kept, leaked>>

\* The app dies: SQLite drops the open transaction, copied files stay.
Crash ==
  /\ leaked' = leaked \union (files \ kept)
  /\ opened' = FALSE /\ queue' = <<>> /\ task' = Idle("none")
  /\ UNCHANGED <<db, files, submitted, kept>>

-----------------------------------------------------------------------------
Init ==
  /\ db \in FirstDbs /\ files = Referred(db) /\ opened = FALSE
  /\ queue = <<>> /\ task = Idle("none") /\ submitted = 0
  /\ kept = files /\ leaked = {}

Submits ==
  \/ SubmitOpen \/ SubmitClose
  \/ \E id \in OpIds : SubmitAcknowledge(id)
  \/ \E op \in Operations : SubmitEnqueue(op)
  \/ \E i \in Incidents, op \in Operations \union {NoOp}, n \in 0..MaxPhotos :
       SubmitWrite(i, op, n)
Steps ==
  \/ Take \/ Refused \/ Open \/ Close \/ Enqueue \/ Acknowledge
  \/ WriteBegins \/ (\E f \in Files : Retain(f)) \/ RetainFails
  \/ Commit \/ CommitFails \/ RollBack \/ RollBackFails \/ WriteFailed

Next == Submits \/ Steps \/ Crash
Spec == Init /\ [][Next]_vars

\* Every promise of the database and of the file system settles.
FairSpec == Spec /\ WF_vars(Steps)

-----------------------------------------------------------------------------
(* Properties. *)

\* Every variable keeps its shape; the rows are in the order of their
\* sequences, with one row per identity, whatever is deleted or migrated.
TypeOK ==
  /\ db \in Databases /\ files \subseteq Files /\ opened \in BOOLEAN
  /\ queue \in Seq(Tasks) /\ task.copies \in Seq(Files) /\ task.answer \in Answers
  /\ submitted \in 0..MaxTasks /\ kept \subseteq Files /\ leaked \subseteq Files
  /\ InOrder(db)

\* Nothing refers to what is not there.  Every row fits the schema of the
\* database and is of a stored snapshot; every photo of a stored snapshot is a
\* file, after any failed write, clean-up or crash; and a write that failed
\* leaves no copies: without a crash or a failed delete, every file belongs to
\* a snapshot that was stored.
NothingDangles ==
  /\ TypeOK /\ Consistent(db)
  /\ Referred(db) \subseteq files
  /\ Running("idle") => files \subseteq kept \union leaked

\* The store implements the atomic store its callers build on.  Every task
\* takes effect in one step, the step that answers it: the snapshot and the row
\* of its operation together, at the end of the queue, or, for an operation
\* that is there already, nothing; a task that is refused, whose clean-up
\* fails, or that a crash cuts short, has stored nothing.  No migration loses,
\* reorders or renumbers a row.
Saved == [i \in Incidents |-> db.snapshots[i].write]
Pending ==
  [k \in 1..Len(db.rows) |->
     [id |-> db.rows[k].op.id, incident |-> db.rows[k].op.incident,
      row |-> db.rows[k].sequence]]
Serving == IF Running("idle") THEN {} ELSE {task.task}
Abstract == INSTANCE AtomicStore
              WITH saved <- Saved, pending <- Pending, waiting <- queue,
                   serving <- Serving, answer <- task.answer
AtomicSpec == Abstract!Spec

\* Every task submitted settles: a failed one does not stop those behind it.
TasksSettle == []<>(queue = <<>> /\ Running("idle"))
==============================================================================
