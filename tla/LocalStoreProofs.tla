--------------------------- MODULE LocalStoreProofs ---------------------------
(***************************************************************************)
(* What is proved of the local store for every number of incidents,        *)
(* identities, files and tasks, and every database the app may find: what  *)
(* is stored refers to nothing that is not there, a failed write leaves no *)
(* copies behind, and to its callers the store is the atomic one.          *)
(***************************************************************************)
EXTENDS LocalStore, SequenceTheorems, TLAPS

(***************************************************************************)
(* The inductive invariant.                                                *)
(***************************************************************************)

\* What the callers hand in: a write stores something and its operation is of
\* the incident written; what is enqueued is an operation.
HandedIn(t) ==
  /\ t.kind = "write" => t.number # 0 /\ (t.op # NoOp => t.op.incident = t.incident)
  /\ t.kind = "enqueue" => t.op \in Operations

Writing == {"retain", "rollback"}
Progress ==
  [phase : Kinds \union Writing \union {"idle"}, task : Tasks, copies : Seq(Files),
   answer : Answers]

\* The task in progress is the one that was taken; only a write has copies.
TaskInv ==
  /\ queue \in Seq(Tasks) /\ \A k \in 1..Len(queue) : HandedIn(queue[k])
  /\ submitted \in 0..MaxTasks
  /\ task \in Progress
  /\ task.phase \in Kinds => task.task.kind = task.phase
  /\ task.phase \in Writing => task.task.kind = "write"
  /\ task.phase # "idle" => HandedIn(task.task)
  /\ task.phase \notin Writing => task.copies = <<>>

RowsInv == db \in Databases /\ InOrder(db) /\ Consistent(db)

\* The copies of a write are files no snapshot refers to; every other file was
\* stored or given up.  A write that goes on found no row of its operation.
FilesInv ==
  /\ files \subseteq Files /\ kept \subseteq Files /\ leaked \subseteq Files
  /\ opened \in BOOLEAN
  /\ Referred(db) \subseteq files
  /\ files \subseteq kept \union leaked \union ToSet(task.copies)
  /\ Referred(db) \intersect ToSet(task.copies) = {}
  /\ task.phase = "retain" =>
       /\ task.task.photos \subseteq files /\ ToSet(task.copies) \subseteq files
       /\ ~Replayed(task.task.op)

StoreInv == TaskInv /\ RowsInv /\ FilesInv

-----------------------------------------------------------------------------
(* Sequences. *)

\* What RemoveAt leaves: the elements before the index and those behind it.
LEMMA RemovedAt ==
  ASSUME NEW S, NEW s \in Seq(S), NEW k \in 1..Len(s)
  PROVE  /\ RemoveAt(s, k) \in Seq(S)
         /\ Len(RemoveAt(s, k)) = Len(s) - 1
         /\ \A j \in 1..Len(s) - 1 : RemoveAt(s, k)[j] = IF j < k THEN s[j] ELSE s[j + 1]
<1> DEFINE a == SubSeq(s, 1, k - 1)
           b == SubSeq(s, k + 1, Len(s))
<1>1. Len(s) \in Nat /\ k \in Int /\ 1 \in Int /\ k - 1 \in Int /\ k + 1 \in Int /\ Len(s) \in Int
  BY LenProperties
<1>2. /\ \A i \in 1..k - 1 : s[i] \in S
      /\ \A i \in k + 1..Len(s) : s[i] \in S
  BY <1>1, ElementOfSeq
<1>3. /\ a \in Seq(S) /\ Len(a) = k - 1
      /\ \A i \in 1..k - 1 : a[i] = s[i]
  <2>1. /\ a \in Seq(S) /\ Len(a) = IF 1 <= k - 1 THEN (k - 1) - 1 + 1 ELSE 0
        /\ \A i \in 1..(k - 1) - 1 + 1 : a[i] = s[1 + i - 1]
    BY <1>1, <1>2, SubSeqProperties
  <2> QED  BY <1>1, <2>1
<1>4. /\ b \in Seq(S) /\ Len(b) = Len(s) - k
      /\ \A i \in 1..Len(s) - k : b[i] = s[k + i]
  <2>1. /\ b \in Seq(S) /\ Len(b) = IF k + 1 <= Len(s) THEN Len(s) - (k + 1) + 1 ELSE 0
        /\ \A i \in 1..Len(s) - (k + 1) + 1 : b[i] = s[(k + 1) + i - 1]
    BY <1>1, <1>2, SubSeqProperties
  <2> QED  BY <1>1, <2>1
<1> HIDE DEF a, b
<1>5. /\ a \o b \in Seq(S) /\ Len(a \o b) = Len(a) + Len(b)
      /\ \A i \in 1..Len(a) + Len(b) : (a \o b)[i] = IF i <= Len(a) THEN a[i] ELSE b[i - Len(a)]
  BY <1>3, <1>4, ConcatProperties
<1>6. RemoveAt(s, k) = a \o b
  BY DEF RemoveAt, a, b
<1>7. \A j \in 1..Len(s) - 1 : (a \o b)[j] = IF j < k THEN s[j] ELSE s[j + 1]
  BY <1>1, <1>3, <1>4, <1>5
<1> QED  BY <1>1, <1>3, <1>4, <1>5, <1>6, <1>7

LEMMA FrontAndLast ==
  ASSUME NEW S, NEW s \in Seq(S), s # <<>>
  PROVE  Front(s) \in Seq(S) /\ ToSet(s) = ToSet(Front(s)) \union {Last(s)}
<1>1. Len(s) \in Nat /\ Len(s) >= 1 /\ DOMAIN s = 1..Len(s)
  BY LenProperties, EmptySeq
<1>2. /\ Front(s) \in Seq(S) /\ Len(Front(s)) = Len(s) - 1
      /\ \A i \in 1..Len(s) - 1 : Front(s)[i] = s[i]
  <2>1. \A i \in 1..Len(s) - 1 : s[i] \in S
    BY <1>1, ElementOfSeq
  <2>2. /\ SubSeq(s, 1, Len(s) - 1) \in Seq(S)
        /\ Len(SubSeq(s, 1, Len(s) - 1)) =
             IF 1 <= Len(s) - 1 THEN (Len(s) - 1) - 1 + 1 ELSE 0
        /\ \A i \in 1..(Len(s) - 1) - 1 + 1 : SubSeq(s, 1, Len(s) - 1)[i] = s[1 + i - 1]
    BY <1>1, <2>1, SubSeqProperties
  <2> QED  BY <1>1, <2>2 DEF Front
<1>3. DOMAIN Front(s) = 1..Len(s) - 1
  BY <1>2, LenProperties
<1> QED  BY <1>1, <1>2, <1>3 DEF ToSet, Last

LEMMA SetOf ==
  ASSUME NEW S, NEW s \in Seq(S)
  PROVE  ToSet(s) = {s[k] : k \in 1..Len(s)} /\ ToSet(s) \subseteq S
BY LenProperties, ElementOfSeq DEF ToSet

LEMMA EmptySet == ToSet(<<>>) = {}
BY DEF ToSet

LEMMA SetOfAppended ==
  ASSUME NEW S, NEW s \in Seq(S), NEW e \in S
  PROVE  /\ s \o <<e>> = Append(s, e) /\ Append(s, e) \in Seq(S)
         /\ ToSet(Append(s, e)) = ToSet(s) \union {e}
<1>1. s \o <<e>> = Append(s, e)
  BY AppendIsConcat
<1>2. /\ Append(s, e) \in Seq(S) /\ Len(Append(s, e)) = Len(s) + 1
      /\ \A i \in 1..Len(s) : Append(s, e)[i] = s[i]
      /\ Append(s, e)[Len(s) + 1] = e
  BY AppendProperties
<1>3. Len(s) \in Nat
  BY LenProperties
<1>4. ToSet(Append(s, e)) = {Append(s, e)[k] : k \in 1..Len(s) + 1}
      /\ ToSet(s) = {s[k] : k \in 1..Len(s)}
  BY <1>2, SetOf
<1> QED  BY <1>1, <1>2, <1>3, <1>4

-----------------------------------------------------------------------------
(* What the operations do to the tables. *)

LEMMA Reading ==
  ASSUME RowsInv
  PROVE  /\ db.version \in 0..Version /\ db.next \in Nat \ {0}
         /\ db.rows \in Seq(Rows) /\ Len(db.rows) \in Nat
         /\ db.snapshots \in [Incidents -> Snapshots]
         /\ \A k \in 1..Len(db.rows) : /\ db.rows[k] \in Rows /\ db.rows[k].op \in Operations
                                       /\ db.rows[k].sequence \in Nat \ {0}
<1>1. db \in Databases
  BY DEF RowsInv
<1>2. db.rows \in Seq(Rows) /\ Len(db.rows) \in Nat
  BY <1>1, LenProperties DEF Databases
<1>3. \A k \in 1..Len(db.rows) : db.rows[k] \in Rows
  BY <1>2, ElementOfSeq
<1> QED  BY <1>1, <1>2, <1>3 DEF Databases, Rows

\* Reading what a snapshot refers to.
LEMMA ReferredTo ==
  ASSUME NEW d, NEW i \in Incidents
  PROVE  d.snapshots[i].photos \subseteq Referred(d)
BY DEF Referred

LEMMA Inserted ==
  ASSUME RowsInv, NEW op \in Operations, NEW snapshots \in [Incidents -> Snapshots],
         snapshots[op.incident].write # 0, ~HasRow(op.id),
         \A i \in Incidents : db.snapshots[i].write # 0 => snapshots[i].write # 0,
         NEW d, d \in Databases, d.snapshots = snapshots, d.version = db.version,
         d.rows = Append(db.rows, NewRow(op)), d.next = db.next + 1
  PROVE  InOrder(d) /\ Consistent(d)
<1>1. NewRow(op) \in Rows
  BY Reading DEF NewRow, Rows
<1>2. /\ Len(d.rows) = Len(db.rows) + 1
      /\ \A k \in 1..Len(db.rows) : d.rows[k] = db.rows[k]
      /\ d.rows[Len(db.rows) + 1] = NewRow(op)
  BY <1>1, Reading, AppendProperties
<1>3. /\ NewRow(op).sequence = db.next /\ NewRow(op).op = op
      /\ NewRow(op).filled <=> db.version = Version
  BY DEF NewRow
<1>4. \A k \in 1..Len(db.rows) : /\ db.rows[k].op.id # op.id
                                 /\ db.rows[k].sequence < db.next
                                 /\ db.snapshots[db.rows[k].op.incident].write # 0
                                 /\ db.rows[k].op.incident \in Incidents
                                 /\ db.rows[k].filled <=> db.version = Version
  BY Reading DEF HasRow, RowsInv, InOrder, Consistent, Operations
<1>5. InOrder(d)
  <2>1. \A j, k \in 1..Len(db.rows) : j < k =>
          /\ db.rows[j].sequence < db.rows[k].sequence
          /\ db.rows[j].op.id # db.rows[k].op.id
    BY DEF RowsInv, InOrder
  <2>2. ASSUME NEW j \in 1..Len(d.rows), NEW k \in 1..Len(d.rows), j < k
        PROVE  /\ d.rows[j].sequence < d.rows[k].sequence
               /\ d.rows[j].op.id # d.rows[k].op.id
    <3>1. j \in 1..Len(db.rows) /\ d.rows[j] = db.rows[j]
      BY <1>2, <2>2, Reading
    <3>2. CASE k \in 1..Len(db.rows)
      BY <1>2, <2>1, <2>2, <3>1, <3>2
    <3>3. CASE k \notin 1..Len(db.rows)
      <4>1. k = Len(db.rows) + 1
        BY <1>2, <3>3, Reading
      <4> QED  BY <1>2, <1>3, <1>4, <3>1, <4>1
    <3> QED  BY <3>2, <3>3
  <2>3. ASSUME NEW k \in 1..Len(d.rows) PROVE d.rows[k].sequence < d.next
    <3>1. CASE k \in 1..Len(db.rows)
      <4>1. d.rows[k].sequence < db.next /\ d.rows[k].sequence \in Nat
        BY <1>2, <1>4, <3>1, Reading
      <4> QED  BY <4>1, Reading
    <3>2. CASE k \notin 1..Len(db.rows)
      <4>1. k = Len(db.rows) + 1
        BY <1>2, <3>2, Reading
      <4> QED  BY <1>2, <1>3, <4>1, Reading
    <3> QED  BY <3>1, <3>2
  <2> QED  BY <2>2, <2>3 DEF InOrder
<1>6. Consistent(d)
  <2>1. \A k \in 1..Len(db.rows) : /\ d.rows[k].filled <=> d.version = Version
                                   /\ d.snapshots[d.rows[k].op.incident].write # 0
    BY <1>2, <1>4
  <2>2. LET k == Len(db.rows) + 1 IN /\ d.rows[k].filled <=> d.version = Version
                                     /\ d.snapshots[d.rows[k].op.incident].write # 0
    BY <1>2, <1>3
  <2> QED  BY <1>2, <2>1, <2>2, Reading DEF Consistent
<1> QED  BY <1>5, <1>6

\* A row inserted next to the snapshots there are.
LEMMA EnqueuedOk ==
  ASSUME RowsInv, NEW op \in Operations, ~HasRow(op.id), db.snapshots[op.incident].write # 0,
         db' = WithRow(db, op)
  PROVE  RowsInv' /\ db'.version = db.version /\ db'.snapshots = db.snapshots
         /\ db'.rows = Append(db.rows, NewRow(op))
<1>1. /\ db'.version = db.version /\ db'.snapshots = db.snapshots /\ db'.next = db.next + 1
      /\ db'.rows = Append(db.rows, NewRow(op))
  BY DEF WithRow, RowsInv, Databases
<1>2. NewRow(op) \in Rows
  BY Reading DEF NewRow, Rows
<1>3. Append(db.rows, NewRow(op)) \in Seq(Rows) /\ db.next + 1 \in Nat \ {0}
  BY <1>2, Reading, AppendProperties
<1>4. db' \in Databases
  BY <1>3 DEF WithRow, RowsInv, Databases
<1>5. InOrder(db') /\ Consistent(db')
  BY <1>1, <1>4, Inserted, Reading
<1> QED  BY <1>1, <1>4, <1>5 DEF RowsInv

\* A snapshot stored, alone or with a row.
LEMMA StoredOk ==
  ASSUME RowsInv, NEW t \in Tasks, HandedIn(t), t.kind = "write", ~Replayed(t.op),
         task.copies \in Seq(Files),
         db' = WithOperation(Stored(t), t.op)
  PROVE  /\ RowsInv' /\ db'.version = db.version
         /\ db'.snapshots = [db.snapshots EXCEPT ![t.incident] =
              [write |-> t.number, photos |-> t.photos \union ToSet(task.copies)]]
         /\ db'.rows = IF t.op = NoOp THEN db.rows ELSE Append(db.rows, NewRow(t.op))
<1> DEFINE snap == [write |-> t.number, photos |-> t.photos \union ToSet(task.copies)]
           snapshots == [db.snapshots EXCEPT ![t.incident] = snap]
<1>1. snap \in Snapshots /\ snap.write # 0 /\ t.incident \in Incidents
  BY SetOf DEF Snapshots, Tasks, HandedIn
<1>2. /\ snapshots \in [Incidents -> Snapshots] /\ snapshots[t.incident].write # 0
      /\ \A i \in Incidents : db.snapshots[i].write # 0 => snapshots[i].write # 0
  BY <1>1, Reading
<1>3. Stored(t) = [db EXCEPT !.snapshots = snapshots]
  BY DEF Stored
<1> HIDE DEF snap, snapshots
<1>4. /\ Stored(t).version = db.version /\ Stored(t).snapshots = snapshots
      /\ Stored(t).rows = db.rows /\ Stored(t).next = db.next /\ Stored(t) \in Databases
  BY <1>2, <1>3 DEF RowsInv, Databases
<1>5. CASE t.op = NoOp
  <2>0. db' = Stored(t)
    BY <1>5 DEF WithOperation
  <2>2. /\ db'.version = db.version /\ db'.snapshots = snapshots /\ db'.next = db.next
        /\ db'.rows = db.rows /\ db' \in Databases
    BY <1>4, <2>0 DEF Stored
  <2>1. InOrder(db') /\ Consistent(db')
    BY <1>2, <2>2, Reading DEF RowsInv, InOrder, Consistent, Operations
  <2> QED  BY <1>5, <2>2, <2>1 DEF RowsInv, snapshots, snap
<1>6. CASE t.op # NoOp
  <2>1. t.op \in Operations /\ t.op.incident = t.incident /\ ~HasRow(t.op.id)
    BY <1>6 DEF Tasks, HandedIn, Replayed
  <2>0. db' = WithRow(Stored(t), t.op)
    BY <1>6, <2>1 DEF WithOperation
  <2>2. /\ db'.version = db.version /\ db'.snapshots = snapshots /\ db'.next = db.next + 1
        /\ db'.rows = Append(db.rows, NewRow(t.op))
    BY <1>4, <2>0 DEF WithRow, Databases
  <2>3. NewRow(t.op) \in Rows
    BY <2>1, Reading DEF NewRow, Rows
  <2>4. Append(db.rows, NewRow(t.op)) \in Seq(Rows) /\ db.next + 1 \in Nat \ {0}
    BY <2>3, Reading, AppendProperties
  <2>5. db' \in Databases
    BY <1>4, <2>0, <2>4 DEF WithRow, Databases
  <2>6. InOrder(db') /\ Consistent(db')
    BY <1>2, <2>1, <2>2, <2>5, Inserted
  <2> QED  BY <1>6, <2>2, <2>5, <2>6 DEF RowsInv, snapshots, snap
<1> QED  BY <1>5, <1>6

\* One row deleted.
LEMMA AcknowledgedOk ==
  ASSUME RowsInv, NEW k \in 1..Len(db.rows), db' = [db EXCEPT !.rows = RemoveAt(@, k)]
  PROVE  RowsInv' /\ db'.version = db.version /\ db'.snapshots = db.snapshots
         /\ db'.rows = RemoveAt(db.rows, k)
<1>1. /\ db'.version = db.version /\ db'.snapshots = db.snapshots /\ db'.next = db.next
      /\ db'.rows = RemoveAt(db.rows, k)
  BY DEF RowsInv, Databases
<1>2. /\ db'.rows \in Seq(Rows) /\ Len(db'.rows) = Len(db.rows) - 1
      /\ \A j \in 1..Len(db.rows) - 1 :
           db'.rows[j] = IF j < k THEN db.rows[j] ELSE db.rows[j + 1]
  BY <1>1, Reading, RemovedAt
<1>3. db' \in Databases
  BY <1>1, <1>2 DEF RowsInv, Databases
<1> DEFINE before(j) == IF j < k THEN j ELSE j + 1
<1>4. \A j \in 1..Len(db'.rows) :
        before(j) \in 1..Len(db.rows) /\ db'.rows[j] = db.rows[before(j)]
  BY <1>2, Reading
<1>5. \A i, j \in 1..Len(db'.rows) : i < j => before(i) < before(j)
  BY <1>2, Reading
<1> HIDE DEF before
<1>6. InOrder(db')
  <2>1. ASSUME NEW i \in 1..Len(db'.rows), NEW j \in 1..Len(db'.rows), i < j
        PROVE  /\ db'.rows[i].sequence < db'.rows[j].sequence
               /\ db'.rows[i].op.id # db'.rows[j].op.id
    <3>1. /\ db'.rows[i] = db.rows[before(i)] /\ before(i) \in 1..Len(db.rows)
          /\ db'.rows[j] = db.rows[before(j)] /\ before(j) \in 1..Len(db.rows)
          /\ before(i) < before(j)
      BY <1>4, <1>5, <2>1
    <3> QED  BY <3>1 DEF RowsInv, InOrder
  <2>2. ASSUME NEW j \in 1..Len(db'.rows) PROVE db'.rows[j].sequence < db'.next
    BY <1>1, <1>4 DEF RowsInv, InOrder
  <2> QED  BY <2>1, <2>2 DEF InOrder
<1>7. Consistent(db')
  <2>1. ASSUME NEW j \in 1..Len(db'.rows)
        PROVE  /\ db'.rows[j].filled <=> db'.version = Version
               /\ db'.snapshots[db'.rows[j].op.incident].write # 0
    <3>1. db'.rows[j] = db.rows[before(j)] /\ before(j) \in 1..Len(db.rows)
      BY <1>4
    <3>2. /\ db.rows[before(j)].filled <=> db.version = Version
          /\ db.snapshots[db.rows[before(j)].op.incident].write # 0
      BY <3>1 DEF RowsInv, Consistent
    <3> QED  BY <1>1, <3>1, <3>2
  <2> QED  BY <2>1 DEF Consistent
<1> QED  BY <1>1, <1>3, <1>6, <1>7 DEF RowsInv

\* A migration fills the rows' columns and keeps all else of them.
LEMMA MigratedOk ==
  ASSUME RowsInv, db' = Migrated(db)
  PROVE  /\ RowsInv' /\ db'.snapshots = db.snapshots /\ Len(db'.rows) = Len(db.rows)
         /\ \A k \in 1..Len(db.rows) : /\ db'.rows[k].op = db.rows[k].op
                                       /\ db'.rows[k].sequence = db.rows[k].sequence
<1>1. CASE db.version = Version
  BY <1>1, Reading DEF Migrated, RowsInv
<1>2. CASE db.version # Version
  <2> DEFINE filled == Filled(db.rows)
  <2>1. /\ db'.version = Version /\ db'.snapshots = db.snapshots
        /\ db'.next = NextAfter(db.rows) /\ db'.rows = filled
    BY <1>2 DEF Migrated, RowsInv, Databases
  <2>2. filled = [k \in 1..Len(db.rows) |-> [db.rows[k] EXCEPT !.filled = TRUE]]
    BY DEF Filled
  <2> HIDE DEF filled
  <2>3. \A k \in 1..Len(db.rows) :
          /\ filled[k] \in Rows /\ filled[k].op = db.rows[k].op
          /\ filled[k].sequence = db.rows[k].sequence /\ filled[k].filled = TRUE
    BY <2>2, Reading DEF Rows
  <2>4. filled \in Seq(Rows) /\ Len(filled) = Len(db.rows)
    <3>1. filled \in [1..Len(db.rows) -> Rows]
      BY <2>2, <2>3
    <3> QED  BY <3>1, Reading
  <2>5. /\ NextAfter(db.rows) \in Nat \ {0}
        /\ \A k \in 1..Len(db.rows) : db.rows[k].sequence < NextAfter(db.rows)
    <3>1. CASE db.rows = <<>>
      BY <3>1, EmptySeq DEF NextAfter
    <3>2. CASE db.rows # <<>>
      <4>1. Len(db.rows) \in 1..Len(db.rows)
        BY <3>2, Reading, EmptySeq
      <4>2. NextAfter(db.rows) = db.rows[Len(db.rows)].sequence + 1
        BY <3>2 DEF NextAfter, Last
      <4>3. \A k \in 1..Len(db.rows) :
              k < Len(db.rows) => db.rows[k].sequence < db.rows[Len(db.rows)].sequence
        BY <4>1 DEF RowsInv, InOrder
      <4>4. \A k \in 1..Len(db.rows) : k < Len(db.rows) \/ k = Len(db.rows)
        BY Reading
      <4>5. /\ \A k \in 1..Len(db.rows) : db.rows[k].sequence \in Nat
            /\ db.rows[Len(db.rows)].sequence \in Nat
        BY <4>1, Reading
      <4> QED  BY <4>2, <4>3, <4>4, <4>5
    <3> QED  BY <3>1, <3>2
  <2>6. db' \in Databases
    <3>1. db' = [db EXCEPT !.version = Version, !.rows = filled, !.next = NextAfter(db.rows)]
      BY <1>2 DEF Migrated, filled
    <3>2. Version \in 0..Version
      BY DEF Version
    <3> QED  BY <2>4, <2>5, <3>1, <3>2 DEF RowsInv, Databases
  <2>7. InOrder(db')
    BY <2>1, <2>3, <2>4, <2>5 DEF RowsInv, InOrder
  <2>8. Consistent(db')
    BY <2>1, <2>3, <2>4 DEF RowsInv, Consistent
  <2> QED  BY <2>1, <2>3, <2>4, <2>6, <2>7, <2>8 DEF RowsInv
<1> QED  BY <1>1, <1>2

-----------------------------------------------------------------------------
(* The initial state, and the steps of callers and of the queue. *)

LEMMA NoTaskIsATask == NoTask \in Tasks /\ AnyIncident \in Incidents /\ AnyId \in OpIds
<1>1. AnyIncident \in Incidents /\ AnyId \in OpIds
  BY StoreAssumption DEF AnyIncident, AnyId
<1> QED  BY <1>1, StoreAssumption DEF NoTask, Tasks, Kinds

LEMMA IdleIs ==
  ASSUME NEW a \in Answers
  PROVE  /\ Idle(a) \in Progress /\ Idle(a).phase = "idle" /\ Idle(a).copies = <<>>
         /\ Idle(a).phase \notin Kinds /\ Idle(a).phase \notin Writing
         /\ Idle(a).answer = a
BY NoTaskIsATask, EmptySeq DEF Idle, Progress, Kinds, Writing

LEMMA StoreInvInit == Init => StoreInv
<1> SUFFICES ASSUME Init PROVE StoreInv
  OBVIOUS
<1>1. RowsInv
  BY FirstDbsAssumption DEF Init, RowsInv
<1>0. "none" \in Answers
  BY DEF Answers
<1>2. TaskInv
  BY <1>0, IdleIs, EmptySeq, StoreAssumption DEF Init, TaskInv
<1>3. Referred(db) \subseteq Files
  BY <1>1, Reading DEF Referred, Snapshots
<1>4. FilesInv
  BY <1>0, <1>3, IdleIs, EmptySet DEF Init, FilesInv, Writing
<1> QED  BY <1>1, <1>2, <1>4 DEF StoreInv

LEMMA SubmitKeeps ==
  ASSUME StoreInv, NEW t \in Tasks, HandedIn(t), Submit(t)
  PROVE  StoreInv'
<1>1. /\ queue' \in Seq(Tasks) /\ Len(queue') = Len(queue) + 1
      /\ \A k \in 1..Len(queue) : queue'[k] = queue[k]
      /\ queue'[Len(queue) + 1] = t
  BY AppendProperties DEF StoreInv, TaskInv, Submit
<1>2. \A k \in 1..Len(queue') : HandedIn(queue'[k])
  BY <1>1, LenProperties DEF StoreInv, TaskInv
<1>3. submitted' \in 0..MaxTasks
  BY StoreAssumption DEF StoreInv, TaskInv, Submit
<1>4. TaskInv'
  BY <1>1, <1>2, <1>3 DEF StoreInv, TaskInv, Submit
<1>5. RowsInv' /\ FilesInv'
  BY DEF StoreInv, RowsInv, FilesInv, Submit, Replayed, HasRow
<1> QED  BY <1>4, <1>5 DEF StoreInv

\* The number a write would have is one of the numbers.
LEMMA Numbered ==
  ASSUME TaskInv, submitted < MaxTasks, NEW kind \in Kinds, NEW i \in Incidents, NEW id \in OpIds
  PROVE  Plain(kind, i, id) \in Tasks /\ Plain(kind, i, id).number # 0
<1>1. submitted + 2 \in 0..MaxTasks + 1 /\ submitted + 2 # 0 /\ 0 \in 0..MaxPhotos
  BY StoreAssumption DEF TaskInv
<1> QED  BY <1>1 DEF Plain, Tasks

\* What is submitted is a task as callers hand it in.
LEMMA SubmitIsOfATask ==
  ASSUME StoreInv, Submits
  PROVE  \E t \in Tasks : HandedIn(t) /\ Submit(t)
<1> DEFINE goal == \E t \in Tasks : HandedIn(t) /\ Submit(t)
<1> USE NoTaskIsATask
<1>0. TaskInv /\ submitted < MaxTasks
  BY DEF StoreInv, Submits, SubmitOpen, SubmitClose, SubmitAcknowledge, SubmitEnqueue,
         SubmitWrite, Submit
<1>1. CASE SubmitOpen
  <2>1. LET t == Plain("open", AnyIncident, AnyId) IN t \in Tasks /\ HandedIn(t)
    BY <1>0, Numbered DEF HandedIn, Plain, Kinds
  <2> QED  BY <1>1, <2>1 DEF SubmitOpen
<1>2. CASE SubmitClose
  <2>1. LET t == Plain("close", AnyIncident, AnyId) IN t \in Tasks /\ HandedIn(t)
    BY <1>0, Numbered DEF HandedIn, Plain, Kinds
  <2> QED  BY <1>2, <2>1 DEF SubmitClose
<1>3. ASSUME NEW id \in OpIds, SubmitAcknowledge(id) PROVE goal
  <2>1. LET t == Plain("acknowledge", AnyIncident, id) IN t \in Tasks /\ HandedIn(t)
    BY <1>0, Numbered DEF HandedIn, Plain, Kinds
  <2> QED  BY <1>3, <2>1 DEF SubmitAcknowledge
<1>4. ASSUME NEW op \in Operations, SubmitEnqueue(op) PROVE goal
  <2> DEFINE p == Plain("enqueue", op.incident, op.id)
             t == [p EXCEPT !.op = op]
  <2>1. p \in Tasks /\ p.kind = "enqueue"
    BY <1>0, Numbered DEF Plain, Kinds, Operations
  <2>2. t \in Tasks /\ HandedIn(t)
    BY <2>1 DEF HandedIn, Tasks
  <2> QED  BY <1>4, <2>2 DEF SubmitEnqueue
<1>5. ASSUME NEW i \in Incidents, NEW op \in Operations \union {NoOp}, NEW n \in 0..MaxPhotos,
             SubmitWrite(i, op, n)
      PROVE  goal
  <2> DEFINE p == Plain("write", i, AnyId)
             t == [p EXCEPT !.op = op, !.fresh = n, !.photos = db.snapshots[i].photos]
  <2>1. p \in Tasks /\ p.kind = "write" /\ p.number # 0 /\ p.incident = i
    <3>1. "write" \in Kinds
      BY DEF Kinds
    <3>2. p \in Tasks /\ p.number # 0
      BY <1>0, <3>1, Numbered
    <3> QED  BY <3>2 DEF Plain
  <2>2. db.snapshots[i].photos \subseteq Files
    BY Reading DEF StoreInv, Snapshots
  <2>3. /\ t \in Tasks /\ t.kind = "write" /\ t.number # 0 /\ t.op = op /\ t.incident = i
    BY <2>1, <2>2 DEF Tasks
  <2>4. HandedIn(t)
    BY <1>5, <2>3 DEF HandedIn, SubmitWrite
  <2> QED  BY <1>5, <2>3, <2>4 DEF SubmitWrite
<1> QED  BY <1>1, <1>2, <1>3, <1>4, <1>5 DEF Submits

LEMMA SubmitsKeep ==
  ASSUME StoreInv, Submits
  PROVE  StoreInv'
BY SubmitIsOfATask, SubmitKeeps

\* A task that settles leaves the queue free.
LEMMA SettlesKeeps ==
  ASSUME TaskInv, NEW failed \in BOOLEAN, Settles(failed), UNCHANGED submitted
  PROVE  /\ TaskInv' /\ task'.phase = "idle" /\ task'.copies = <<>> /\ UNCHANGED queue
         /\ task'.answer = IF failed THEN "refused" ELSE "done"
<1> DEFINE a == IF failed THEN "refused" ELSE "done"
<1>1. task' = Idle(a) /\ UNCHANGED queue
  BY DEF Settles, QueueGoesOn
<1>2. a \in Answers
  BY DEF Answers
<1> HIDE DEF a
<1>3. TaskInv' /\ task'.phase = "idle" /\ task'.copies = <<>> /\ task'.answer = a
  BY <1>1, <1>2, IdleIs DEF TaskInv
<1> QED  BY <1>1, <1>3 DEF a

\* What a task that had no copies leaves of the files.
LEMMA FilesStay ==
  ASSUME StoreInv, task.copies = <<>>, task'.copies = <<>>, task'.phase # "retain",
         db'.snapshots = db.snapshots, opened' \in BOOLEAN, UNCHANGED <<files, kept, leaked>>
  PROVE  FilesInv'
BY EmptySet DEF StoreInv, FilesInv, Referred

LEMMA TakeKeeps ==
  ASSUME StoreInv, Take
  PROVE  StoreInv'
<1>1. queue \in Seq(Tasks) /\ queue # <<>> /\ Len(queue) \in Nat /\ 1 \in 1..Len(queue)
  BY LenProperties, EmptySeq DEF StoreInv, TaskInv, Take
<1>2. /\ Head(queue) \in Tasks /\ Head(queue) = queue[1] /\ Tail(queue) \in Seq(Tasks)
      /\ Len(Tail(queue)) = Len(queue) - 1
      /\ \A k \in 1..Len(Tail(queue)) : Tail(queue)[k] = queue[k + 1]
  BY <1>1, HeadTailProperties
<1>3. /\ \A k \in 1..Len(Tail(queue)) : HandedIn(Tail(queue)[k])
      /\ HandedIn(Head(queue))
  BY <1>1, <1>2 DEF StoreInv, TaskInv
<1>4. /\ task'.phase = Head(queue).kind /\ task'.task = Head(queue) /\ task'.copies = <<>>
      /\ task'.phase \in Kinds /\ task'.phase \notin Writing /\ task' \in Progress
  BY <1>2, EmptySeq DEF Take, Progress, Tasks, Kinds, Writing, Answers
<1>5. TaskInv'
  BY <1>2, <1>3, <1>4 DEF StoreInv, TaskInv, Take, Kinds, Writing
<1>6. task.copies = <<>> /\ task'.phase # "retain"
  BY <1>4 DEF StoreInv, TaskInv, Take, Running, Writing
<1>7. FilesInv'
  BY <1>4, <1>6, FilesStay DEF Take, StoreInv, FilesInv
<1> QED  BY <1>5, <1>7 DEF StoreInv, RowsInv, Take

\* A task that ends without having copied anything.
LEMMA TaskDone ==
  ASSUME StoreInv, NEW failed \in BOOLEAN, Settles(failed), task.phase \in Kinds, RowsInv',
         db'.snapshots = db.snapshots, opened' \in BOOLEAN,
         UNCHANGED <<files, submitted, kept, leaked>>
  PROVE  StoreInv'
<1>1. TaskInv' /\ task'.phase = "idle" /\ task'.copies = <<>>
  BY SettlesKeeps DEF StoreInv
<1>2. task.copies = <<>>
  BY DEF StoreInv, TaskInv, Kinds, Writing
<1>3. FilesInv'
  BY <1>1, <1>2, FilesStay
<1> QED  BY <1>1, <1>3 DEF StoreInv

LEMMA TasksKeep ==
  ASSUME StoreInv, Refused \/ Open \/ Close \/ Enqueue \/ Acknowledge
  PROVE  StoreInv'
<1>1. CASE Refused
  BY <1>1, TaskDone DEF Refused, StoreInv, RowsInv, FilesInv
<1>2. CASE Open
  <2>1. task.phase \in Kinds /\ Settles(FALSE) /\ opened' \in BOOLEAN
    BY <1>2 DEF Open, Running, Kinds, StoreInv, FilesInv
  <2>2. RowsInv' /\ db'.snapshots = db.snapshots
    BY <1>2, MigratedOk DEF Open, StoreInv, RowsInv
  <2> QED  BY <1>2, <2>1, <2>2, TaskDone DEF Open
<1>3. CASE Close
  BY <1>3, TaskDone DEF Close, Running, Kinds, StoreInv, RowsInv
<1>4. CASE Enqueue
  <2> DEFINE op == task.task.op
  <2>1. task.phase \in Kinds /\ Settles(FALSE) /\ op \in Operations
    BY <1>4 DEF Enqueue, Running, Kinds, StoreInv, TaskInv, HandedIn
  <2>2. RowsInv' /\ db'.snapshots = db.snapshots
    BY <1>4, <2>1, EnqueuedOk DEF Enqueue, StoreInv, RowsInv
  <2> QED  BY <1>4, <2>1, <2>2, TaskDone DEF Enqueue, StoreInv, FilesInv
<1>5. CASE Acknowledge
  <2>1. task.phase \in Kinds /\ Settles(FALSE)
    BY <1>5 DEF Acknowledge, Running, Kinds
  <2>2. RowsInv' /\ db'.snapshots = db.snapshots
    BY <1>5, AcknowledgedOk DEF Acknowledge, StoreInv, RowsInv
  <2> QED  BY <1>5, <2>1, <2>2, TaskDone DEF Acknowledge, StoreInv, FilesInv
<1> QED  BY <1>1, <1>2, <1>3, <1>4, <1>5

-----------------------------------------------------------------------------
(* The steps of a write. *)

\* A write that goes on keeps its task.
LEMMA WriteGoesOn ==
  ASSUME TaskInv, task.task.kind = "write", HandedIn(task.task), NEW phase \in Writing,
         NEW copies \in Seq(Files), UNCHANGED <<queue, submitted>>,
         task' = [task EXCEPT !.phase = phase, !.copies = copies]
  PROVE  /\ TaskInv' /\ task'.phase = phase /\ task'.task = task.task
         /\ task'.copies = copies
<1>1. /\ task' \in Progress /\ task'.phase = phase /\ task'.task = task.task
      /\ task'.copies = copies
  BY DEF TaskInv, Progress
<1> QED  BY <1>1 DEF TaskInv, Writing, Kinds

LEMMA WriteBeginsKeeps ==
  ASSUME StoreInv, WriteBegins
  PROVE  StoreInv'
<1>1. /\ task.phase = "write" /\ task.phase \in Kinds /\ task.copies = <<>>
      /\ task.task.kind = "write" /\ HandedIn(task.task)
  BY DEF StoreInv, TaskInv, WriteBegins, Running, Kinds, Writing
<1>2. CASE Settles(FALSE)
  BY <1>1, <1>2, TaskDone DEF WriteBegins, StoreInv, RowsInv, FilesInv
<1>3. CASE /\ ~Replayed(task.task.op) /\ task.task.photos \subseteq files
           /\ task' = [task EXCEPT !.phase = "retain"] /\ UNCHANGED queue
  <2>1. task' = [task EXCEPT !.phase = "retain", !.copies = task.copies]
    BY <1>3 DEF StoreInv, TaskInv, Progress
  <2>2. TaskInv' /\ task'.phase = "retain" /\ task'.task = task.task /\ task'.copies = task.copies
    <3>1. task.copies \in Seq(Files) /\ "retain" \in Writing
      BY DEF StoreInv, TaskInv, Progress, Writing
    <3> QED  BY <1>1, <1>3, <2>1, <3>1, WriteGoesOn DEF StoreInv, WriteBegins
  <2>3. FilesInv'
    BY <1>1, <1>3, <2>2, EmptySet
    DEF StoreInv, FilesInv, WriteBegins, Replayed, HasRow, Referred
  <2> QED  BY <2>2, <2>3 DEF StoreInv, RowsInv, WriteBegins
<1> QED  BY <1>2, <1>3 DEF WriteBegins

LEMMA RetainKeeps ==
  ASSUME StoreInv, NEW f \in Files, Retain(f)
  PROVE  StoreInv'
<1>1. /\ task.phase = "retain" /\ task.task.kind = "write" /\ HandedIn(task.task)
      /\ task.copies \in Seq(Files) /\ "retain" \in Writing
  BY DEF StoreInv, TaskInv, Progress, Retain, Running, Writing
<1> DEFINE copies == Append(task.copies, f)
<1>2. copies \in Seq(Files) /\ ToSet(copies) = ToSet(task.copies) \union {f}
      /\ task.copies \o <<f>> = copies
  BY <1>1, SetOfAppended
<1>3. task' = [task EXCEPT !.phase = "retain", !.copies = copies]
  BY <1>1, <1>2 DEF Retain, CleansUp, StoreInv, TaskInv, Progress
<1>4. TaskInv' /\ task'.phase = "retain" /\ task'.task = task.task /\ task'.copies = copies
  BY <1>1, <1>2, <1>3, WriteGoesOn DEF StoreInv, Retain
<1>5. FilesInv'
  <2>1. /\ db' = db /\ files' = files \union {f} /\ f \notin files
        /\ UNCHANGED <<opened, kept, leaked>>
    BY DEF Retain
  <2>2. Referred(db)' = Referred(db) /\ Replayed(task.task.op)' = Replayed(task.task.op)
    BY <1>4, <2>1 DEF Referred, Replayed, HasRow
  <2>3. ToSet(task'.copies) = ToSet(task.copies) \union {f}
    BY <1>2, <1>4
  <2> QED  BY <1>1, <1>4, <2>1, <2>2, <2>3 DEF StoreInv, FilesInv
<1> QED  BY <1>4, <1>5 DEF StoreInv, RowsInv, Retain

LEMMA FailureKeeps ==
  ASSUME StoreInv, RetainFails \/ CommitFails
  PROVE  StoreInv'
<1>1. /\ task.phase = "retain" /\ task.task.kind = "write" /\ HandedIn(task.task)
      /\ task.copies \in Seq(Files) /\ "rollback" \in Writing
  BY DEF StoreInv, TaskInv, Progress, RetainFails, CommitFails, Running, Writing
<1>0. UNCHANGED <<db, opened, submitted, kept>>
  BY DEF RetainFails, CommitFails, RolledBack
<1>2. task' = [task EXCEPT !.phase = "rollback", !.copies = task.copies]
  BY DEF RetainFails, CommitFails, StoreInv, TaskInv, Progress
<1>3. TaskInv' /\ task'.phase = "rollback" /\ task'.copies = task.copies
  BY <1>0, <1>1, <1>2, WriteGoesOn DEF StoreInv, RetainFails, CommitFails
<1>4. FilesInv'
  <2>1. CASE UNCHANGED <<files, leaked>>
    BY <1>0, <1>3, <2>1 DEF StoreInv, FilesInv, Referred
  <2>2. ASSUME NEW f \in Files \ files,
               files' = files \union {f}, leaked' = leaked \union {f}
        PROVE  FilesInv'
    BY <1>0, <1>3, <2>2 DEF StoreInv, FilesInv, Referred
  <2> QED  BY <2>1, <2>2 DEF RetainFails, CommitFails
<1> QED  BY <1>0, <1>3, <1>4 DEF StoreInv, RowsInv

LEMMA CommitKeeps ==
  ASSUME StoreInv, Commit
  PROVE  StoreInv'
<1> DEFINE t == task.task
<1>1. /\ task.phase = "retain" /\ t \in Tasks /\ t.kind = "write" /\ HandedIn(t)
      /\ ~Replayed(t.op) /\ task.copies \in Seq(Files) /\ t.incident \in Incidents
  BY DEF StoreInv, TaskInv, FilesInv, Progress, Commit, Running, Writing, Tasks
<1>2. /\ RowsInv'
      /\ db'.snapshots = [db.snapshots EXCEPT ![t.incident] =
           [write |-> t.number, photos |-> t.photos \union ToSet(task.copies)]]
  BY <1>1, StoredOk DEF StoreInv, Commit
<1>3. TaskInv' /\ task'.phase = "idle" /\ task'.copies = <<>>
  BY SettlesKeeps DEF StoreInv, Commit
<1> HIDE DEF t
<1>4. /\ db'.snapshots[t.incident].photos = t.photos \union ToSet(task.copies)
      /\ \A i \in Incidents \ {t.incident} : db'.snapshots[i] = db.snapshots[i]
  BY <1>1, <1>2, Reading DEF StoreInv
<1>5. Referred(db') \subseteq Referred(db) \union t.photos \union ToSet(task.copies)
  BY <1>4 DEF Referred
<1>6. kept' = kept \union t.photos \union ToSet(task.copies)
  BY <1>4 DEF Commit, t
<1>7. t.photos \subseteq files /\ ToSet(task.copies) \subseteq files
  BY <1>1 DEF StoreInv, FilesInv, t
<1>8. FilesInv'
  BY <1>3, <1>5, <1>6, <1>7, EmptySet DEF StoreInv, FilesInv, Commit
<1> QED  BY <1>2, <1>3, <1>8 DEF StoreInv

LEMMA RollBackKeeps ==
  ASSUME StoreInv, RollBack
  PROVE  StoreInv'
<1>1. /\ task.phase = "rollback" /\ task.task.kind = "write" /\ HandedIn(task.task)
      /\ task.copies \in Seq(Files) /\ task.copies # <<>> /\ "rollback" \in Writing
  BY DEF StoreInv, TaskInv, Progress, RollBack, Running, Writing
<1> DEFINE copies == Front(task.copies)
<1>2. copies \in Seq(Files) /\ ToSet(task.copies) = ToSet(copies) \union {Last(task.copies)}
  BY <1>1, FrontAndLast
<1>3. task' = [task EXCEPT !.phase = "rollback", !.copies = copies]
  BY <1>1 DEF RollBack, Others, StoreInv, TaskInv, Progress
<1> HIDE DEF copies
<1>4. TaskInv' /\ task'.phase = "rollback" /\ task'.copies = copies
  BY <1>1, <1>2, <1>3, WriteGoesOn DEF StoreInv, RollBack
<1>5. FilesInv'
  <2>1. /\ files' = files \ {Last(task.copies)}
        /\ opened' = opened /\ db' = db /\ kept' = kept /\ leaked' = leaked
    BY DEF RollBack
  <2>2. /\ files \subseteq Files /\ kept \subseteq Files /\ leaked \subseteq Files
        /\ opened \in BOOLEAN /\ Referred(db) \subseteq files
        /\ files \subseteq kept \union leaked \union ToSet(task.copies)
        /\ Referred(db) \intersect ToSet(task.copies) = {}
    BY DEF StoreInv, FilesInv
  <2>3. Referred(db') = Referred(db)
    BY <2>1
  <2> QED  BY <1>2, <1>4, <2>1, <2>2, <2>3 DEF FilesInv
<1> QED  BY <1>4, <1>5 DEF StoreInv, RowsInv, RollBack

LEMMA WriteEndsKeeps ==
  ASSUME StoreInv, RollBackFails \/ WriteFailed
  PROVE  StoreInv'
<1>1. TaskInv' /\ task'.phase = "idle" /\ task'.copies = <<>>
  BY SettlesKeeps DEF StoreInv, RollBackFails, WriteFailed
<1>2. ToSet(task.copies) \subseteq Files
  BY SetOf DEF StoreInv, TaskInv, Progress
<1>3. FilesInv'
  BY <1>1, <1>2, EmptySet DEF StoreInv, FilesInv, RollBackFails, WriteFailed, Referred
<1> QED  BY <1>1, <1>3 DEF StoreInv, RowsInv, RollBackFails, WriteFailed

LEMMA CrashKeeps ==
  ASSUME StoreInv, Crash
  PROVE  StoreInv'
<1>0. "none" \in Answers
  BY DEF Answers
<1>1. TaskInv'
  BY <1>0, IdleIs, EmptySeq DEF StoreInv, TaskInv, Crash
<1>2. task'.phase = "idle" /\ task'.copies = <<>>
  BY <1>0, IdleIs DEF Crash
<1>3. FilesInv'
  BY <1>2, EmptySet DEF StoreInv, FilesInv, Crash, Referred
<1> QED  BY <1>1, <1>3 DEF StoreInv, RowsInv, Crash

LEMMA StoreInvNext == StoreInv /\ [Next]_vars => StoreInv'
<1> SUFFICES ASSUME StoreInv, [Next]_vars PROVE StoreInv'
  OBVIOUS
<1>1. CASE Submits
  BY <1>1, SubmitsKeep
<1>2. CASE Take
  BY <1>2, TakeKeeps
<1>3. CASE Refused \/ Open \/ Close \/ Enqueue \/ Acknowledge
  BY <1>3, TasksKeep
<1>4. CASE WriteBegins
  BY <1>4, WriteBeginsKeeps
<1>5. ASSUME NEW f \in Files, Retain(f) PROVE StoreInv'
  BY <1>5, RetainKeeps
<1>6. CASE RetainFails \/ CommitFails
  BY <1>6, FailureKeeps
<1>7. CASE Commit
  BY <1>7, CommitKeeps
<1>8. CASE RollBack
  BY <1>8, RollBackKeeps
<1>9. CASE RollBackFails \/ WriteFailed
  BY <1>9, WriteEndsKeeps
<1>10. CASE Crash
  BY <1>10, CrashKeeps
<1>11. CASE UNCHANGED vars
  BY <1>11 DEF vars, StoreInv, TaskInv, RowsInv, FilesInv, Replayed, HasRow, Referred
<1> QED
  BY <1>1, <1>2, <1>3, <1>4, <1>5, <1>6, <1>7, <1>8, <1>9, <1>10, <1>11 DEF Next, Steps

LEMMA StoreInvAlways == Spec => []StoreInv
BY StoreInvInit, StoreInvNext, PTL DEF Spec

\* Nothing stored refers to what is not there, whatever database was found and
\* whatever writes, clean-ups and crashes followed: rows are in order, one per
\* identity, of the schema and of a stored snapshot; the photos of every
\* snapshot are files; and a write that failed leaves none of its own behind.
THEOREM NothingIsDangling == Spec => []NothingDangles
<1>1. StoreInv => NothingDangles
  <2> SUFFICES ASSUME StoreInv PROVE NothingDangles
    OBVIOUS
  <2>1. TypeOK
    BY DEF StoreInv, TaskInv, RowsInv, FilesInv, Progress, TypeOK
  <2>2. Running("idle") => files \subseteq kept \union leaked
    BY EmptySet DEF StoreInv, TaskInv, FilesInv, Running, Writing
  <2> QED  BY <2>1, <2>2 DEF StoreInv, RowsInv, FilesInv, NothingDangles
<1> QED  BY <1>1, StoreInvAlways, PTL

-----------------------------------------------------------------------------
(* The atomic store. *)

\* What the callers see of a row.
Seen == [id : OpIds, incident : Incidents, row : Nat \ {0}]
SeenOf(r) == [id |-> r.op.id, incident |-> r.op.incident, row |-> r.sequence]

LEMMA PendingIs ==
  ASSUME NEW d, d \in Databases, NEW s, s = [k \in 1..Len(d.rows) |-> SeenOf(d.rows[k])]
  PROVE  /\ s \in Seq(Seen) /\ Len(s) = Len(d.rows)
         /\ \A k \in 1..Len(d.rows) : s[k] = SeenOf(d.rows[k])
<1>1. d.rows \in Seq(Rows)
  BY DEF Databases
<1>2. Len(d.rows) \in Nat /\ \A k \in 1..Len(d.rows) : d.rows[k] \in Rows
  BY <1>1, ElementOfSeq, LenProperties
<1>3. \A k \in 1..Len(d.rows) : s[k] = SeenOf(d.rows[k]) /\ s[k] \in Seen
  BY <1>2 DEF Rows, Operations, Seen, SeenOf
<1>4. s \in [1..Len(d.rows) -> Seen]
  BY <1>3
<1> QED  BY <1>2, <1>3, <1>4

LEMMA PendingNow ==
  ASSUME RowsInv
  PROVE  /\ Pending \in Seq(Seen) /\ Len(Pending) = Len(db.rows)
         /\ \A k \in 1..Len(db.rows) : Pending[k] = SeenOf(db.rows[k])
BY PendingIs DEF RowsInv, Pending, SeenOf

LEMMA PendingThen ==
  ASSUME RowsInv'
  PROVE  /\ Pending' \in Seq(Seen) /\ Len(Pending') = Len(db'.rows)
         /\ \A k \in 1..Len(db'.rows) : Pending'[k] = SeenOf(db'.rows[k])
BY PendingIs DEF RowsInv, Pending, SeenOf

\* A step of the tables the callers do not see.
LEMMA Unseen ==
  ASSUME Len(db'.rows) = Len(db.rows),
         \A i \in Incidents : db'.snapshots[i].write = db.snapshots[i].write,
         \A k \in 1..Len(db.rows) : /\ db'.rows[k].op = db.rows[k].op
                                    /\ db'.rows[k].sequence = db.rows[k].sequence
  PROVE  UNCHANGED <<Saved, Pending>>
BY DEF Saved, Pending

\* The row of an operation is seen as one.
LEMMA HoldsIs ==
  ASSUME RowsInv, NEW op \in Operations, HasRow(op.id), OpOf(op.id) = op
  PROVE  Abstract!Holds(op)
<1>1. PICK k \in 1..Len(db.rows) : db.rows[k].op.id = op.id
  BY DEF HasRow
<1>2. \E r \in ToSet(db.rows) : r.op.id = op.id
  BY <1>1, SetOf, Reading
<1>3. PICK r \in ToSet(db.rows) : r.op.id = op.id /\ r.op = op
  BY <1>2 DEF OpOf
<1>4. PICK j \in 1..Len(db.rows) : db.rows[j] = r
  BY <1>3, SetOf, Reading
<1>5. j \in 1..Len(Pending) /\ Pending[j].id = op.id /\ Pending[j].incident = op.incident
  <2>1. j \in 1..Len(Pending) /\ Pending[j] = SeenOf(db.rows[j]) /\ db.rows[j].op = op
    BY <1>3, <1>4, PendingNow
  <2> QED  BY <2>1 DEF SeenOf
<1> QED  BY <1>5 DEF Abstract!Holds, Abstract!IsRowOf

\* A row inserted is one appended, new and of its operation.
LEMMA Appended ==
  ASSUME RowsInv, RowsInv', NEW op \in Operations, ~HasRow(op.id),
         db'.rows = Append(db.rows, NewRow(op))
  PROVE  LET row == SeenOf(NewRow(op)) IN
         /\ Pending' = Append(Pending, row) /\ Pending' # <<>> /\ Abstract!Last(Pending') = row
         /\ Abstract!IsNew(row) /\ Abstract!IsRowOf(row, op) /\ row.incident = op.incident
<1> DEFINE row == SeenOf(NewRow(op))
<1>1. NewRow(op) \in Rows /\ NewRow(op).op = op /\ NewRow(op).sequence = db.next
  BY Reading DEF NewRow, Rows
<1>2. /\ Len(db'.rows) = Len(db.rows) + 1
      /\ \A k \in 1..Len(db.rows) : db'.rows[k] = db.rows[k]
      /\ db'.rows[Len(db.rows) + 1] = NewRow(op)
  BY <1>1, Reading, AppendProperties
<1>3. row \in Seen /\ row.id = op.id /\ row.incident = op.incident /\ row.row = db.next
  BY <1>1 DEF SeenOf, Seen, Rows, Operations
<1> HIDE DEF row
<1>4. /\ Append(Pending, row) \in Seq(Seen) /\ Len(Append(Pending, row)) = Len(Pending) + 1
      /\ \A k \in 1..Len(Pending) : Append(Pending, row)[k] = Pending[k]
      /\ Append(Pending, row)[Len(Pending) + 1] = row
  BY <1>3, PendingNow, AppendProperties
<1>5. \A k \in 1..Len(Pending') : Pending'[k] = Append(Pending, row)[k]
  <2>1. ASSUME NEW k \in 1..Len(Pending') PROVE Pending'[k] = Append(Pending, row)[k]
    <3>1. CASE k \in 1..Len(db.rows)
      BY <1>2, <1>4, <3>1, PendingNow, PendingThen
    <3>2. CASE k \notin 1..Len(db.rows)
      <4>1. k = Len(db.rows) + 1 /\ k \in 1..Len(db'.rows)
        BY <1>2, <3>2, PendingThen, Reading
      <4> QED  BY <1>2, <1>4, <4>1, PendingNow, PendingThen DEF row
    <3> QED  BY <3>1, <3>2
  <2> QED  BY <2>1
<1>6. Pending' = Append(Pending, row)
  BY <1>2, <1>4, <1>5, PendingNow, PendingThen, SeqEqual
<1>7. Pending' # <<>> /\ Abstract!Last(Pending') = row
  BY <1>4, <1>6, PendingNow, Reading DEF Abstract!Last
<1>8. Abstract!IsNew(row)
  <2>1. ASSUME NEW k \in 1..Len(Pending)
        PROVE  Pending[k].row < row.row /\ Pending[k].id # row.id
    <3>1. k \in 1..Len(db.rows) /\ Pending[k] = SeenOf(db.rows[k])
      BY PendingNow
    <3>2. db.rows[k].sequence < db.next /\ db.rows[k].op.id # op.id
      BY <3>1 DEF RowsInv, InOrder, HasRow
    <3> QED  BY <1>3, <3>1, <3>2 DEF SeenOf
  <2> QED  BY <2>1 DEF Abstract!IsNew
<1> QED  BY <1>3, <1>6, <1>7, <1>8 DEF Abstract!IsRowOf, row

\* A row deleted is one removed.
LEMMA Removed ==
  ASSUME RowsInv, RowsInv', NEW k \in 1..Len(db.rows), db'.rows = RemoveAt(db.rows, k)
  PROVE  /\ Pending' = RemoveAt(Pending, k) /\ k \in 1..Len(Pending)
         /\ Pending[k].id = db.rows[k].op.id
<1>1. /\ Len(db'.rows) = Len(db.rows) - 1 /\ Len(db.rows) \in Nat
      /\ \A j \in 1..Len(db.rows) - 1 :
           db'.rows[j] = IF j < k THEN db.rows[j] ELSE db.rows[j + 1]
  BY Reading, RemovedAt
<1>2. /\ Pending \in Seq(Seen) /\ Len(Pending) = Len(db.rows)
      /\ \A j \in 1..Len(db.rows) : Pending[j] = SeenOf(db.rows[j])
  BY PendingNow
<1>3. /\ Pending' \in Seq(Seen) /\ Len(Pending') = Len(db'.rows)
      /\ \A j \in 1..Len(db'.rows) : Pending'[j] = SeenOf(db'.rows[j])
  BY PendingThen
<1>4. /\ RemoveAt(Pending, k) \in Seq(Seen) /\ Len(RemoveAt(Pending, k)) = Len(Pending) - 1
      /\ \A j \in 1..Len(Pending) - 1 :
           RemoveAt(Pending, k)[j] = IF j < k THEN Pending[j] ELSE Pending[j + 1]
  BY <1>2, RemovedAt
<1>5. \A j \in 1..Len(Pending') : Pending'[j] = RemoveAt(Pending, k)[j]
  <2>1. ASSUME NEW j \in 1..Len(Pending') PROVE Pending'[j] = RemoveAt(Pending, k)[j]
    <3>1. /\ j \in 1..Len(db.rows) - 1 /\ j \in 1..Len(db.rows) /\ j + 1 \in 1..Len(db.rows)
          /\ j \in 1..Len(db'.rows)
      BY <1>1, <1>3, <2>1
    <3>2. Pending'[j] = IF j < k THEN SeenOf(db.rows[j]) ELSE SeenOf(db.rows[j + 1])
      BY <1>1, <1>3, <3>1
    <3>3. RemoveAt(Pending, k)[j] = IF j < k THEN SeenOf(db.rows[j]) ELSE SeenOf(db.rows[j + 1])
      BY <1>2, <1>4, <3>1
    <3> QED  BY <3>2, <3>3
  <2> QED  BY <2>1
<1>6. Pending[k].id = db.rows[k].op.id
  <2>1. Pending[k] = SeenOf(db.rows[k])
    BY <1>2
  <2> QED  BY <2>1 DEF SeenOf
<1> QED  BY <1>1, <1>2, <1>3, <1>4, <1>5, <1>6, SeqEqual

\* A snapshot stored is what the callers see of the snapshots.
LEMMA SavedIs ==
  ASSUME NEW i \in Incidents, NEW snap, db.snapshots \in [Incidents -> Snapshots],
         db'.snapshots = [db.snapshots EXCEPT ![i] = snap]
  PROVE  Saved' = [Saved EXCEPT ![i] = snap.write]
<1>1. \A j \in Incidents : db'.snapshots[j].write =
        IF j = i THEN snap.write ELSE db.snapshots[j].write
  OBVIOUS
<1> QED  BY <1>1 DEF Saved

-----------------------------------------------------------------------------
(* Every step is one of the atomic store, or leaves it alone. *)

\* The task that settles is the request that is answered.
LEMMA AnsweredIs ==
  ASSUME StoreInv, NEW failed \in BOOLEAN, Settles(failed), UNCHANGED submitted,
         task.phase # "idle"
  PROVE  /\ Serving = {task.task} /\ Serving' = {} /\ UNCHANGED queue
         /\ task'.answer = IF failed THEN "refused" ELSE "done"
BY SettlesKeeps DEF StoreInv, Serving, Running

LEMMA DoneIs ==
  ASSUME StoreInv, Settles(FALSE), UNCHANGED submitted, task.phase # "idle",
         Abstract!Perform(task.task)
  PROVE  Abstract!Next
<1>1. /\ task.task \in Serving /\ Serving' = {} /\ UNCHANGED queue
      /\ task'.answer = "done"
  BY AnsweredIs
<1>2. Abstract!Done(task.task)
  BY <1>1 DEF Abstract!Done
<1> QED  BY <1>1, <1>2 DEF Abstract!Next

LEMMA RefusedIs ==
  ASSUME StoreInv, Settles(TRUE), UNCHANGED <<submitted, db>>, task.phase # "idle"
  PROVE  Abstract!Next
<1>1. /\ task.task \in Serving /\ Serving' = {} /\ UNCHANGED queue
      /\ task'.answer = "refused"
  BY AnsweredIs
<1>2. UNCHANGED <<Saved, Pending>>
  BY DEF Saved, Pending
<1>3. Abstract!Refuse
  BY <1>1, <1>2 DEF Abstract!Refuse
<1> QED  BY <1>1, <1>3 DEF Abstract!Next

LEMMA AskIs ==
  ASSUME StoreInv, NEW t \in Tasks, Submit(t)
  PROVE  Abstract!Next
<1>1. queue \in Seq(Tasks)
  BY DEF StoreInv, TaskInv
<1>2. /\ queue' \in Seq(Tasks) /\ Len(queue') = Len(queue) + 1 /\ Len(queue) \in Nat
      /\ \A k \in 1..Len(queue) : queue'[k] = queue[k]
  BY <1>1, AppendProperties, LenProperties DEF Submit
<1>3. queue' # <<>>
  BY <1>2, EmptySeq
<1> DEFINE front == SubSeq(queue', 1, Len(queue') - 1)
<1>4. front \in Seq(Tasks) /\ Len(front) = Len(queue)
      /\ \A k \in 1..Len(queue) : front[k] = queue'[k]
  <2>1. \A k \in 1..Len(queue') - 1 : queue'[k] \in Tasks
    BY <1>2, ElementOfSeq
  <2>2. /\ front \in Seq(Tasks)
        /\ Len(front) = IF 1 <= Len(queue') - 1 THEN (Len(queue') - 1) - 1 + 1 ELSE 0
        /\ \A k \in 1..(Len(queue') - 1) - 1 + 1 : front[k] = queue'[1 + k - 1]
    BY <1>2, <2>1, SubSeqProperties
  <2> HIDE DEF front
  <2> QED  BY <1>2, <2>2
<1>5. queue = front
  <2> HIDE DEF front
  <2> QED  BY <1>1, <1>2, <1>4, SeqEqual
<1>6. UNCHANGED <<Saved, Pending, Serving, task.answer>>
  BY DEF Submit, Saved, Pending, Serving, Running
<1>7. Abstract!Ask
  BY <1>3, <1>5, <1>6 DEF Abstract!Ask, Abstract!Front
<1> QED  BY <1>7 DEF Abstract!Next

LEMMA BeginIs ==
  ASSUME StoreInv, Take
  PROVE  Abstract!Next
<1>1. queue \in Seq(Tasks) /\ queue # <<>> /\ Head(queue) \in Tasks
  BY HeadTailProperties, EmptySeq DEF StoreInv, TaskInv, Take
<1>2. Head(queue).kind # "idle"
  BY <1>1 DEF Tasks, Kinds
<1>3. /\ Serving = {} /\ Serving' = {Head(queue)} /\ task'.answer = "none"
      /\ queue' = Tail(queue)
  BY <1>2 DEF Take, Serving, Running
<1>4. UNCHANGED <<Saved, Pending>>
  BY DEF Take, Saved, Pending
<1>5. Abstract!Begin
  BY <1>1, <1>3, <1>4 DEF Abstract!Begin, Abstract!store
<1> QED  BY <1>5 DEF Abstract!Next

LEMMA CommitIsAtomic ==
  ASSUME StoreInv, StoreInv', Commit
  PROVE  Abstract!Next
<1> DEFINE t == task.task
           snap == [write |-> t.number, photos |-> t.photos \union ToSet(task.copies)]
<1>1. /\ t \in Tasks /\ t.kind = "write" /\ HandedIn(t) /\ task.phase # "idle"
      /\ ~Replayed(t.op) /\ task.copies \in Seq(Files) /\ t.incident \in Incidents
  BY DEF StoreInv, TaskInv, FilesInv, Progress, Commit, Running, Writing, Tasks
<1>2. /\ db'.snapshots = [db.snapshots EXCEPT ![t.incident] = snap]
      /\ db'.rows = IF t.op = NoOp THEN db.rows ELSE Append(db.rows, NewRow(t.op))
  BY <1>1, StoredOk DEF StoreInv, Commit
<1>3. Saved' = [Saved EXCEPT ![t.incident] = t.number]
  BY <1>1, <1>2, SavedIs, Reading DEF StoreInv
<1>4. CASE t.op = NoOp
  <2>1. Pending' = Pending
    BY <1>2, <1>4 DEF Pending
  <2>2. Abstract!Save(t.incident, t.number)
    BY <1>3, <2>1 DEF Abstract!Save
  <2>3. Abstract!Perform(t)
    BY <1>1, <1>4, <2>2 DEF Abstract!Perform
  <2> QED  BY <1>1, <2>3, DoneIs DEF Commit
<1>5. CASE t.op # NoOp
  <2> DEFINE row == SeenOf(NewRow(t.op))
  <2>1. t.op \in Operations /\ t.op.incident = t.incident /\ ~HasRow(t.op.id)
    BY <1>1, <1>5 DEF Tasks, HandedIn, Replayed
  <2>2. /\ Pending' = Append(Pending, row) /\ Pending' # <<>> /\ Abstract!Last(Pending') = row
        /\ Abstract!IsNew(row) /\ Abstract!IsRowOf(row, t.op) /\ row.incident = t.op.incident
    BY <1>2, <1>5, <2>1, Appended DEF StoreInv
  <2> HIDE DEF row
  <2>3. Abstract!AddsRow(t.op) /\ Abstract!Change(Abstract!Last(Pending'), t.number)
    BY <1>3, <2>1, <2>2 DEF Abstract!AddsRow, Abstract!Change
  <2>4. Abstract!Perform(t)
    BY <1>1, <1>5, <2>3 DEF Abstract!Perform
  <2> QED  BY <1>1, <2>4, DoneIs DEF Commit
<1> QED  BY <1>4, <1>5

LEMMA EnqueueIsAtomic ==
  ASSUME StoreInv, StoreInv', Enqueue
  PROVE  Abstract!Next
<1> DEFINE op == task.task.op
           row == SeenOf(NewRow(op))
<1>1. /\ op \in Operations /\ op # NoOp /\ task.phase # "idle" /\ task.task.kind = "enqueue"
  BY StoreAssumption DEF Enqueue, Running, Kinds, StoreInv, TaskInv, HandedIn
<1>2. CASE HasRow(op.id) /\ OpOf(op.id) = op /\ UNCHANGED db
  <2>1. Abstract!Replay(op)
    BY <1>1, <1>2, HoldsIs DEF StoreInv, Abstract!Replay, Abstract!store, Saved, Pending
  <2>2. Abstract!Perform(task.task)
    BY <1>1, <2>1 DEF Abstract!Perform
  <2> QED  BY <1>1, <2>2, DoneIs DEF Enqueue
<1>3. CASE ~HasRow(op.id) /\ db.snapshots[op.incident].write # 0 /\ db' = WithRow(db, op)
  <2>1. /\ db'.snapshots = db.snapshots /\ db'.rows = Append(db.rows, NewRow(op))
    BY <1>1, <1>3, EnqueuedOk DEF StoreInv
  <2>2. /\ Pending' = Append(Pending, row) /\ Pending' # <<>> /\ Abstract!Last(Pending') = row
        /\ Abstract!IsNew(row) /\ Abstract!IsRowOf(row, op) /\ row.incident = op.incident
    BY <1>1, <1>3, <2>1, Appended DEF StoreInv
  <2>3. Saved' = Saved /\ Saved[op.incident] # 0
    BY <1>1, <1>3, <2>1 DEF Saved, Operations
  <2> HIDE DEF row
  <2>4. Abstract!AddsRow(op) /\ Abstract!Enqueue(Abstract!Last(Pending'))
    BY <2>2, <2>3 DEF Abstract!AddsRow, Abstract!Enqueue
  <2>5. Abstract!Perform(task.task)
    BY <1>1, <2>4 DEF Abstract!Perform
  <2> QED  BY <1>1, <2>5, DoneIs DEF Enqueue
<1> QED  BY <1>2, <1>3 DEF Enqueue

LEMMA AcknowledgeIsAtomic ==
  ASSUME StoreInv, StoreInv', Acknowledge
  PROVE  Abstract!Next
<1> DEFINE id == task.task.id
<1>1. task.phase # "idle" /\ task.task.kind = "acknowledge"
  BY DEF Acknowledge, Running, Kinds, StoreInv, TaskInv
<1>2. CASE ~HasRow(id) /\ UNCHANGED db
  <2>1. ~Abstract!Known(id)
    <3>1. ASSUME NEW k \in 1..Len(Pending) PROVE Pending[k].id # id
      <4>1. k \in 1..Len(db.rows) /\ Pending[k] = SeenOf(db.rows[k]) /\ db.rows[k].op.id # id
        BY <1>2, PendingNow DEF StoreInv, HasRow
      <4> QED  BY <4>1 DEF SeenOf
    <3> QED  BY <3>1 DEF Abstract!Known
  <2>2. Abstract!Acknowledge(id)
    BY <1>2, <2>1 DEF Abstract!Acknowledge, Abstract!store, Saved, Pending
  <2> QED  BY <1>1, <2>2, DoneIs DEF Acknowledge, Abstract!Perform
<1>3. ASSUME NEW k \in 1..Len(db.rows), db.rows[k].op.id = id,
             db' = [db EXCEPT !.rows = RemoveAt(@, k)]
      PROVE  Abstract!Next
  <2>1. db'.snapshots = db.snapshots /\ db'.rows = RemoveAt(db.rows, k)
    BY <1>3, AcknowledgedOk DEF StoreInv
  <2>2. Pending' = RemoveAt(Pending, k) /\ k \in 1..Len(Pending) /\ Pending[k].id = id
    BY <1>3, <2>1, Removed DEF StoreInv
  <2>3. Saved' = Saved
    BY <2>1 DEF Saved
  <2>4. Abstract!Acknowledge(id)
    BY <2>2, <2>3 DEF Abstract!Acknowledge, Abstract!RemoveAt, RemoveAt
  <2>5. Abstract!Perform(task.task)
    BY <1>1, <2>4 DEF Abstract!Perform
  <2> QED  BY <1>1, <2>5, DoneIs DEF Acknowledge
<1> QED  BY <1>2, <1>3 DEF Acknowledge

\* Opening migrates what was found, and shows nothing of it; closing shows nothing.
LEMMA OpenIsAtomic ==
  ASSUME StoreInv, Open \/ Close
  PROVE  Abstract!Next
<1>1. task.phase # "idle" /\ task.task.kind \in {"open", "close"} /\ Settles(FALSE)
      /\ UNCHANGED submitted
  BY DEF Open, Close, Running, Kinds, StoreInv, TaskInv
<1>2. UNCHANGED <<Saved, Pending>>
  <2>1. CASE UNCHANGED db
    BY <2>1 DEF Saved, Pending
  <2>2. CASE db' = Migrated(db)
    BY <2>2, MigratedOk, Unseen DEF StoreInv
  <2> QED  BY <2>1, <2>2 DEF Open, Close
<1>3. Abstract!Perform(task.task)
  BY <1>1, <1>2 DEF Abstract!Perform, Abstract!store
<1> QED  BY <1>1, <1>3, DoneIs

\* A write that finds its operation there is answered; one that goes on, copies,
\* fails or cleans up shows nothing before it is answered.
LEMMA WriteIsAtomic ==
  ASSUME StoreInv, WriteBegins \/ (\E f \in Files : Retain(f)) \/ RetainFails \/ CommitFails
                     \/ RollBack
  PROVE  Abstract!Next \/ UNCHANGED Abstract!vars
<1>0. task \in Progress
  BY DEF StoreInv, TaskInv
<1>1. CASE WriteBegins /\ Settles(FALSE)
  <2> DEFINE op == task.task.op
  <2>1. /\ task.phase # "idle" /\ task.task.kind = "write" /\ task.task.op \in Operations \union {NoOp}
    BY <1>0, <1>1 DEF WriteBegins, Running, StoreInv, TaskInv, Kinds, Progress, Tasks
  <2>2. HasRow(op.id) /\ OpOf(op.id) = op /\ op \in Operations /\ op # NoOp
    BY <1>1, <2>1 DEF WriteBegins, Replayed, Settles, QueueGoesOn, Idle
  <2>3. Abstract!Replay(op)
    BY <1>1, <2>2, HoldsIs
    DEF StoreInv, WriteBegins, Abstract!Replay, Abstract!store, Saved, Pending
  <2>4. Abstract!Perform(task.task)
    BY <2>1, <2>2, <2>3 DEF Abstract!Perform
  <2> QED  BY <1>1, <2>1, <2>4, DoneIs DEF WriteBegins
<1>2. ASSUME task.phase # "idle", NEW phase, NEW copies, phase # "idle",
             task' = [task EXCEPT !.phase = phase, !.copies = copies], UNCHANGED <<db, queue>>
      PROVE  UNCHANGED Abstract!vars
  <2>1. task'.phase # "idle" /\ task'.task = task.task /\ task'.answer = task.answer
    BY <1>0, <1>2 DEF Progress
  <2> QED  BY <1>2, <2>1 DEF Abstract!vars, Saved, Pending, Serving, Running
<1>3. CASE WriteBegins /\ task' = [task EXCEPT !.phase = "retain"] /\ UNCHANGED queue
  <2>1. task' = [task EXCEPT !.phase = "retain", !.copies = task.copies]
    BY <1>0, <1>3 DEF Progress
  <2> QED  BY <1>2, <1>3, <2>1 DEF WriteBegins, Running
<1>4. ASSUME NEW f \in Files, Retain(f) PROVE UNCHANGED Abstract!vars
  <2>1. task' = [task EXCEPT !.phase = "retain", !.copies = task.copies \o <<f>>]
    BY <1>0, <1>4 DEF Retain, CleansUp, Running, Progress
  <2> QED  BY <1>2, <1>4, <2>1 DEF Retain, Running
<1>5. CASE RetainFails \/ CommitFails
  <2>1. task' = [task EXCEPT !.phase = "rollback", !.copies = task.copies]
    BY <1>0, <1>5 DEF RetainFails, CommitFails, Progress
  <2> QED  BY <1>2, <1>5, <2>1 DEF RetainFails, CommitFails, RolledBack, Running
<1>6. CASE RollBack
  <2>1. task' = [task EXCEPT !.phase = "rollback", !.copies = Front(task.copies)]
    BY <1>0, <1>6 DEF RollBack, Others, Running, Progress
  <2> QED  BY <1>2, <1>6, <2>1 DEF RollBack, Running
<1> QED  BY <1>1, <1>3, <1>4, <1>5, <1>6 DEF WriteBegins

LEMMA SubmitsAsk ==
  ASSUME StoreInv, Submits
  PROVE  Abstract!Next
<1>1. PICK t \in Tasks : Submit(t)
  BY SubmitIsOfATask
<1> QED  BY <1>1, AskIs

LEMMA StepIsAtomic ==
  ASSUME StoreInv, StoreInv', [Next]_vars
  PROVE  [Abstract!Next]_Abstract!vars
<1>1. CASE Submits
  BY <1>1, SubmitsAsk
<1>2. CASE Take
  BY <1>2, BeginIs
<1>3. CASE Refused \/ RollBackFails \/ WriteFailed
  <2>1. task.phase # "idle" /\ Settles(TRUE) /\ UNCHANGED <<submitted, db>>
    BY <1>3 DEF Refused, RollBackFails, WriteFailed, Running, Kinds
  <2> QED  BY <2>1, RefusedIs
<1>4. CASE Open \/ Close
  BY <1>4, OpenIsAtomic
<1>5. CASE Enqueue
  BY <1>5, EnqueueIsAtomic
<1>6. CASE Acknowledge
  BY <1>6, AcknowledgeIsAtomic
<1>7. CASE Commit
  BY <1>7, CommitIsAtomic
<1>8. CASE WriteBegins \/ (\E f \in Files : Retain(f)) \/ RetainFails \/ CommitFails \/ RollBack
  BY <1>8, WriteIsAtomic
<1>9. CASE Crash
  <2>1. "none" \in Answers
    BY DEF Answers
  <2>2. task'.phase = "idle" /\ task'.answer = "none" /\ queue' = <<>> /\ db' = db
    BY <1>9, <2>1, IdleIs DEF Crash
  <2>3. Abstract!Stop
    BY <2>2 DEF Abstract!Stop, Abstract!store, Serving, Running, Saved, Pending
  <2> QED  BY <2>3 DEF Abstract!Next
<1>10. CASE UNCHANGED vars
  BY <1>10 DEF vars, Abstract!vars, Saved, Pending, Serving, Running
<1> QED
  BY <1>1, <1>2, <1>3, <1>4, <1>5, <1>6, <1>7, <1>8, <1>9, <1>10 DEF Next, Steps

\* To its callers the store is the atomic store: a request is served after those
\* before it, takes effect as a whole in the step that answers it, a snapshot
\* with its operation, or changes nothing, when it is a replay, is refused or is
\* cut short by a crash; and no migration shows.
THEOREM StoreIsAtomic == Spec => AtomicSpec
<1>1. Init => Abstract!Init
  <2>1. "none" \in Answers
    BY DEF Answers
  <2> QED  BY <2>1, IdleIs DEF Init, Abstract!Init, Serving, Running
<1>2. StoreInv /\ StoreInv' /\ [Next]_vars => [Abstract!Next]_Abstract!vars
  BY StepIsAtomic
<1> QED  BY <1>1, <1>2, StoreInvAlways, PTL DEF Spec, AtomicSpec, Abstract!Spec
==============================================================================
