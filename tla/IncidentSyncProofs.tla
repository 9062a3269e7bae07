------------------------- MODULE IncidentSyncProofs -------------------------
(***************************************************************************)
(* What is proved of IncidentSync, for every number of incidents, accounts, *)
(* identities, other clients and session changes:                          *)
(*   1. type correctness, with what the data operators return (TypeInv);   *)
(*   2. no saved intention is lost, receipts tell the truth, pending rows  *)
(*      stay with their author, an identity is executed once (IndInv);     *)
(*   3. the device and the server implement IntentLedger;                  *)
(*   4. copies are states of the server and show what is pending; decisions *)
(*      are final; a cycle sends only what is active, and publishes only what *)
(*      is newer (CopyInv); an intention is executed once (OnceInv);       *)
(*   5. a cycle is bounded (Bounded);                                      *)
(*   6. the workflows use the store as AtomicStore allows (StoreSteps).     *)
(***************************************************************************)
EXTENDS IncidentSync, FiniteSetTheorems, SequenceTheorems, WellFoundedInduction, TLAPS

-----------------------------------------------------------------------------
(***************************************************************************)
(* 1. Types: what the data operators return, one lemma per group of actions, *)
(* then the theorem.                                                       *)
(***************************************************************************)

-----------------------------------------------------------------------------
(* Data. *)

LEMMA FirstRecordType == FirstRecord \in Records
<1>1. FirstAssignee \in Actors
  BY ActorAssumption DEF Technicians
<1>2. FirstFields \in Fields
  BY <1>1 DEF FirstFields, Fields, Works, Statuses, Priorities
<1> QED  BY <1>2 DEF FirstRecord, Records

LEMMA FreshType ==
  ASSUME NEW actor \in Actors \union {NoActor}, NEW record \in Records,
         NEW confirmed \in SUBSET Operations
  PROVE  Fresh(actor, record, confirmed) \in Snapshots
BY DEF Fresh, Snapshots, OpStates

LEMMA NoSnapshotType == NoSnapshot \in Snapshots
BY FirstRecordType, FreshType DEF NoSnapshot

LEMMA NoJobType ==
  /\ NoJob \in Jobs
  /\ NoJob.op = NoOp /\ NoJob.phase = "idle"
BY NoSnapshotType DEF NoJob, Jobs, NoReply, Replies

LEMMA NoCallType == NoCall \in Calls
BY DEF NoCall, Calls

LEMMA WithStateType ==
  ASSUME NEW snap \in Snapshots, NEW id \in OpIds, NEW state \in OpStates
  PROVE  /\ WithState(snap, id, state) \in Snapshots
         /\ WithState(snap, id, state).owner = snap.owner
         /\ WithState(snap, id, state).confirmed = snap.confirmed
BY DEF WithState, Snapshots

LEMMA EffectType ==
  ASSUME NEW fields \in Fields, NEW op \in Operations
  PROVE  Effect(fields, op) \in Fields
<1>1. op.intent \in Entries /\ op.action \in Actions
  BY DEF Operations, Entries
<1>2. fields.work \in Works /\ fields.notes \in Seq(Entries) /\ fields.evidence \in Seq(Entries)
  BY DEF Fields
<1>3. CASE op.action = "start"
  <2>1. [fields.work EXCEPT !.status = "in_progress"] \in Works
    BY <1>2 DEF Works, Statuses
  <2>2. Effect(fields, op) = [fields EXCEPT !.work = [fields.work EXCEPT !.status = "in_progress"]]
    BY <1>3 DEF Effect, Fields
  <2> QED  BY <2>1, <2>2 DEF Fields
<1>4. CASE op.action = "comment"
  <2>1. Append(fields.notes, op.intent) \in Seq(Entries)
    BY <1>1, <1>2
  <2> QED  BY <2>1, <1>4 DEF Effect, Fields
<1>5. CASE op.action = "add_evidence"
  <2>1. Append(fields.evidence, op.intent) \in Seq(Entries)
    BY <1>1, <1>2
  <2> QED  BY <2>1, <1>5 DEF Effect, Fields
<1> QED  BY <1>1, <1>3, <1>4, <1>5 DEF Actions

\* Three records with the same fields merge into one with those fields.
LEMMA MergedFieldsType ==
  ASSUME NEW b \in Fields, NEW l \in Fields, NEW r \in Fields
  PROVE  MergedFields(b, l, r) \in Fields
<1> DEFINE N == {"work", "notes", "evidence", "priority"}
<1>1. DOMAIN b = N /\ DOMAIN l = N /\ DOMAIN r = N
  BY DEF Fields
<1>2. \A name \in N : Source(b, l, r, name) \in {l, r}
  BY DEF Source
<1>3. MergedFields(b, l, r) = [name \in N |-> Source(b, l, r, name)[name]]
  BY <1>1, <1>2 DEF MergedFields, Names, HasField
<1>4. Source(b, l, r, "work").work \in Works /\ Source(b, l, r, "priority").priority \in Priorities
  BY <1>2 DEF Fields
<1>5. /\ Source(b, l, r, "notes").notes \in Seq(Entries)
      /\ Source(b, l, r, "evidence").evidence \in Seq(Entries)
  BY <1>2 DEF Fields
<1> QED  BY <1>3, <1>4, <1>5 DEF Fields

\* The intents of operations in row order are a sequence of entries.
LEMMA IntentsType ==
  ASSUME NEW ops \in SUBSET Operations, IsFiniteSet(ops), NEW action,
         NEW order \in InRowOrder(ops, action)
  PROVE  Intents(order) \in Seq(Entries)
<1> DEFINE chosen == {op \in ops : op.action = action}
<1>1. Cardinality(chosen) \in Nat
  BY FS_Subset, FS_CardinalityType
<1>2. order \in [1..Cardinality(chosen) -> chosen]
  BY DEF InRowOrder
<1>3. Len(order) = Cardinality(chosen)
  BY <1>1, <1>2
<1>4. \A k \in 1..Len(order) : order[k].intent \in Entries
  BY <1>2, <1>3 DEF Operations, Entries
<1> QED  BY <1>1, <1>3, <1>4 DEF Intents

\* The sets of the type invariant.
LEMMA VersionType ==
  ASSUME TypeOK, NEW i \in Incidents
  PROVE  /\ Version(i) \in Nat
         /\ \A v \in 1..Version(i) :
              /\ server[i][v] \in Versions
              /\ FieldsAt(i, v) \in Fields
              /\ RecordAt(i, v) \in Records
<1>1. server[i] \in Seq(Versions)
  BY DEF TypeOK
<1>2. Version(i) \in Nat /\ \A v \in 1..Version(i) : server[i][v] \in Versions
  BY <1>1 DEF Version
<1> QED  BY <1>2 DEF FieldsAt, RecordAt, Versions, Records

\* A version is added to one incident.
Appends ==
  \E i \in Incidents, version \in Versions : server' = [server EXCEPT ![i] = Append(@, version)]

\* What that does to every incident.
LEMMA AppendType ==
  ASSUME TypeOK, Appends
  PROVE  /\ server' \in [Incidents -> Seq(Versions)]
         /\ \A i \in Incidents : /\ Len(server[i]) \in Nat /\ Len(server[i]) <= Len(server'[i])
                                 /\ \A v \in 1..Len(server[i]) : server'[i][v] = server[i][v]
<1>1. PICK i \in Incidents, version \in Versions : server' = [server EXCEPT ![i] = Append(@, version)]
  BY DEF Appends
<1>2. \A j \in Incidents : server[j] \in Seq(Versions)
  BY DEF TypeOK
<1>3. /\ Append(server[i], version) \in Seq(Versions)
      /\ Len(server[i]) <= Len(Append(server[i], version))
      /\ \A v \in 1..Len(server[i]) : Append(server[i], version)[v] = server[i][v]
  BY <1>2
<1> QED  BY <1>1, <1>2, <1>3 DEF TypeOK

\* The earliest operation of a cycle's list exists, and is in it.
LEMMA EarliestType ==
  ASSUME TypeOK, job.todo # {}
  PROVE  Earliest \in job.todo
<1> DEFINE rows == {op.row : op \in job.todo}
<1>1. job.todo \subseteq Operations
  BY DEF TypeOK, Jobs
<1>2. rows \subseteq Nat /\ rows # {}
  BY <1>1 DEF Operations
<1>3. PICK least \in rows : \A row \in rows : ~(<<row, least>> \in OpToRel(<, Nat))
  <2> HIDE DEF rows
  <2> QED  BY <1>2, WFMin, NatLessThanWellFounded
<1>4. \A row \in rows : least <= row
  <2>1. TAKE row \in rows
  <2>2. row \in Nat /\ least \in Nat
    BY <1>2
  <2>3. ~(row < least)
    BY <1>3, <2>1, <2>2 DEF OpToRel
  <2> QED  BY <2>2, <2>3
<1>5. \E op \in job.todo : \A other \in job.todo : op.row <= other.row
  BY <1>4
<1> QED  BY <1>5 DEF Earliest

LEMMA TargetType ==
  ASSUME TypeOK, job.todo # {}
  PROVE  Target \subseteq job.todo /\ Sendable \subseteq job.todo
BY EarliestType DEF Target, Sendable

-----------------------------------------------------------------------------
(* Sessions and the server. *)

LEMMA SessionTypes ==
  ASSUME TypeOK, SessionStep
  PROVE  TypeOK'
<1>1. CASE EndSession
  BY <1>1, NoCallType DEF EndSession, TypeOK, device
<1>2. ASSUME NEW actor \in Actors, BeginSession(actor)
      PROVE  TypeOK'
  BY <1>2 DEF BeginSession, TypeOK, device
<1>3. CASE Crash
  BY <1>3, NoCallType, NoJobType DEF Crash, TypeOK, device
<1> QED  BY <1>1, <1>2, <1>3 DEF SessionStep

LEMMA AnswerType ==
  ASSUME TypeOK, NEW op \in Operations
  PROVE  Answer(op) \in Replies
<1>1. op.incident \in Incidents
  BY DEF Operations
<1>2. Version(op.incident) \in Nat
  BY <1>1, VersionType
<1>3. \A v \in Stored(op) : v \in Nat
  BY <1>2 DEF Stored
<1> QED  BY <1>2, <1>3 DEF Answer, Replies

LEMMA DeliverPostTypes ==
  ASSUME TypeOK, NonEmpty, NEW op \in posts, DeliverPost(op)
  PROVE  TypeOK' /\ (UNCHANGED server \/ Appends)
<1> DEFINE i == op.incident
<1>1. op \in Operations /\ i \in Incidents
  BY DEF TypeOK, Operations
<1>2. UNCHANGED server \/ Appends
  <2>1. CASE ~Executes(op)
    BY <2>1 DEF DeliverPost
  <2>2. CASE Executes(op)
    <3> DEFINE version == [fields |-> Effect(FieldsAt(i, Version(i)), op), event |-> op]
    <3>1. FieldsAt(i, Version(i)) \in Fields
      BY <1>1, VersionType DEF NonEmpty
    <3>2. version \in Versions
      BY <1>1, <3>1, EffectType DEF Versions
    <3>3. server' = [server EXCEPT ![i] = Append(@, version)]
      BY <2>2 DEF DeliverPost
    <3> HIDE DEF version, i
    <3> QED  BY <1>1, <3>2, <3>3 DEF Appends
  <2> QED  BY <2>1, <2>2
<1>3. job' \in Jobs /\ job'.op = job.op /\ job'.phase = job.phase
  BY <1>1, AnswerType DEF DeliverPost, TypeOK, Jobs
<1>4. server' \in [Incidents -> Seq(Versions)]
  BY <1>2, AppendType DEF TypeOK
<1> QED  BY <1>2, <1>3, <1>4 DEF DeliverPost, TypeOK, device

\* Another client's version has no event of this device's operations.
LEMMA OtherClientAppends ==
  ASSUME TypeOK, NonEmpty, NEW i \in Incidents, NEW action \in External,
         OtherClient(i, action)
  PROVE  \E version \in Versions :
           server' = [server EXCEPT ![i] = Append(@, version)] /\ version.event = NoOp
<1> DEFINE now == FieldsAt(i, Version(i))
<1>1. now \in Fields
  BY VersionType DEF NonEmpty
<1>2. \E fields \in Fields :
        server' = [server EXCEPT ![i] = Append(@, [fields |-> fields, event |-> NoOp])]
  <2>1. now.work \in Works /\ now.notes \in Seq(Entries)
    BY <1>1 DEF Fields
  <2>2. \A status \in Statuses :
          /\ [now EXCEPT !.work.status = status] \in Fields
    <3>1. TAKE status \in Statuses
    <3>2. [now.work EXCEPT !.status = status] \in Works
      BY <2>1 DEF Works
    <3>3. [now EXCEPT !.work.status = status]
            = [now EXCEPT !.work = [now.work EXCEPT !.status = status]]
      BY <1>1 DEF Fields
    <3> HIDE DEF now
    <3> QED  BY <1>1, <3>2, <3>3 DEF Fields
  <2>3. \A t \in Technicians : [now EXCEPT !.work = [assignee |-> t, status |-> "assigned"]] \in Fields
    <3>1. TAKE t \in Technicians
    <3>2. [assignee |-> t, status |-> "assigned"] \in Works
      BY <3>1 DEF Works, Statuses, Technicians
    <3> HIDE DEF now
    <3> QED  BY <1>1, <3>2 DEF Fields
  <2>4. \A p \in Priorities : [now EXCEPT !.priority = p] \in Fields
    BY <1>1 DEF Fields
  <2>5. [now EXCEPT !.notes = Append(@, OtherEntry)] \in Fields
    <3>1. Append(now.notes, OtherEntry) \in Seq(Entries)
      BY <2>1 DEF Entries
    <3> HIDE DEF now
    <3> QED  BY <1>1, <3>1 DEF Fields
  <2>6. /\ "in_progress" \in Statuses /\ "resolved" \in Statuses /\ "closed" \in Statuses
        /\ (IF now.work.assignee = NoActor THEN "open" ELSE "assigned") \in Statuses
    BY DEF Statuses
  <2> QED  BY <2>2, <2>3, <2>4, <2>5, <2>6 DEF OtherClient
<1>3. PICK fields \in Fields :
        server' = [server EXCEPT ![i] = Append(@, [fields |-> fields, event |-> NoOp])]
  BY <1>2
<1>4. [fields |-> fields, event |-> NoOp] \in Versions
  BY DEF Versions
<1> QED  BY <1>3, <1>4

LEMMA OtherClientTypes ==
  ASSUME TypeOK, NonEmpty, NEW i \in Incidents, NEW action \in External,
         OtherClient(i, action)
  PROVE  TypeOK' /\ Appends
<1>1. Appends
  BY OtherClientAppends DEF Appends
<1>2. server' \in [Incidents -> Seq(Versions)]
  BY <1>1, AppendType
<1> QED  BY <1>1, <1>2 DEF OtherClient, TypeOK, device

-----------------------------------------------------------------------------
(* Local workflows. *)

\* Saving a snapshot of the right shape keeps the type of all snapshots.
LEMMA SaveType ==
  ASSUME TypeOK, NEW i \in Incidents, NEW snap \in Snapshots,
         snapshots' = [snapshots EXCEPT ![i] = snap]
  PROVE  snapshots' \in [Incidents -> Snapshots]
BY DEF TypeOK

LEMMA CommitType ==
  ASSUME TypeOK, NEW i \in Incidents, NEW snap \in Snapshots, NEW op \in Operations,
         op.row = nextRow, Commit(i, snap, op)
  PROVE  /\ snapshots' \in [Incidents -> Snapshots]
         /\ queue' \in SUBSET Operations /\ IsFiniteSet(queue')
         /\ nextRow' \in Nat /\ \A o \in queue' : o.row < nextRow'
         /\ recorded' \in SUBSET Operations
<1>1. snapshots' \in [Incidents -> Snapshots]
  BY SaveType DEF Commit
<1>2. IsFiniteSet(queue \union {op})
  BY FS_AddElement DEF TypeOK
<1>3. \A o \in queue : o.row \in Nat
  BY DEF TypeOK, Operations
<1> QED  BY <1>1, <1>2, <1>3 DEF Commit, TypeOK

LEMMA NewOperationType ==
  ASSUME TypeOK, SignedIn, NEW i \in Incidents, NEW action \in Actions, NEW id \in OpIds
  PROVE  NewOperation(i, action, id) \in Operations
<1>1. session.actor \in Actors /\ nextRow \in Nat
  BY DEF TypeOK, SignedIn
<1>2. snapshots[i].base.version \in Nat
  BY DEF TypeOK, Snapshots, Records
<1> QED  BY <1>1, <1>2 DEF NewOperation, Operations

LEMMA RecordAsType ==
  ASSUME TypeOK, SignedIn, NEW i \in Incidents, NEW action \in Actions, NEW id \in OpIds,
         RecordAs(i, action, id)
  PROVE  /\ snapshots' \in [Incidents -> Snapshots]
         /\ queue' \in SUBSET Operations /\ IsFiniteSet(queue')
         /\ nextRow' \in Nat /\ \A o \in queue' : o.row < nextRow'
         /\ recorded' \in SUBSET Operations
<1> DEFINE op == NewOperation(i, action, id)
           local == [snapshots[i].local EXCEPT !.fields = Effect(@, op)]
           snap == [WithState(snapshots[i], id, "pending") EXCEPT !.local = local]
<1>1. op \in Operations /\ op.row = nextRow
  BY NewOperationType DEF NewOperation
<1>2. snapshots[i] \in Snapshots /\ snapshots[i].local \in Records
  BY DEF TypeOK, Snapshots
<1>3. Effect(snapshots[i].local.fields, op) \in Fields
  BY <1>1, <1>2, EffectType DEF Records
<1>4. local \in Records
  BY <1>2, <1>3 DEF Records
<1>5. WithState(snapshots[i], id, "pending") \in Snapshots
  BY <1>2, WithStateType DEF OpStates
<1>6. snap \in Snapshots
  BY <1>4, <1>5 DEF Snapshots
<1>7. Commit(i, snap, op)
  BY DEF RecordAs
<1> HIDE DEF snap, op
<1> QED  BY <1>1, <1>6, <1>7, CommitType

LEMMA CacheTypes ==
  ASSUME TypeOK, NEW i \in Incidents, NEW v \in 1..MaxVersion, Cache(i, v)
  PROVE  TypeOK'
<1>1. session.actor \in Actors /\ RecordAt(i, v) \in Records
  BY VersionType DEF Cache, May, SignedIn, TypeOK
<1>2. snapshots[i].confirmed \in SUBSET Operations
  BY DEF TypeOK, Snapshots
<1>3. Fresh(session.actor, RecordAt(i, v), IF Own(i) THEN snapshots[i].confirmed ELSE {}) \in Snapshots
  BY <1>1, <1>2, FreshType
<1>4. snapshots' \in [Incidents -> Snapshots]
  BY <1>3, SaveType DEF Cache
<1> QED  BY <1>4 DEF Cache, TypeOK

LEMMA RecordTypes ==
  ASSUME TypeOK, NEW i \in Incidents, NEW action \in Recordable, NEW id \in OpIds,
         Record(i, action, id)
  PROVE  TypeOK'
<1>1. SignedIn /\ action \in Actions
  BY ChoiceAssumption DEF Record, May, Actions
<1> QED  BY <1>1, RecordAsType DEF Record, TypeOK

-----------------------------------------------------------------------------
(* The start request. *)

LEMMA StartTypes ==
  ASSUME TypeOK, NonEmpty, CallBelongs, StartStep
  PROVE  TypeOK' /\ CallBelongs'
<1> USE DEF TypeOK, CallBelongs, SignedIn
<1>1. ASSUME NEW i \in Incidents, NEW expected \in 1..MaxVersion, NEW id \in OpIds,
             StartCall(i, expected, id)
      PROVE  TypeOK' /\ CallBelongs'
  BY <1>1 DEF StartCall, Calls, device
<1>2. CASE StartPrepare
  <2> DEFINE i == call.incident
             snap == IF Own(i) THEN snapshots[i]
                     ELSE Fresh(session.actor, RecordAt(i, Version(i)), {})
  <2>1. i \in Incidents
    BY <1>2 DEF StartPrepare
  <2>2. snap \in Snapshots
    BY SMTT(30), <2>1, VersionType, FreshType DEF NonEmpty
  <2>3. snapshots' \in [Incidents -> Snapshots]
    BY <1>2, <2>1, <2>2, SaveType DEF StartPrepare
  <2>4. Prepared(snap) \in {"sync", "record", "none"}
    BY DEF Prepared
  <2>5. call' = NoCall \/ call' = [call EXCEPT !.phase = "sync"] \/ call' = [call EXCEPT !.phase = "record"]
    <3>1. call' = IF Prepared(snap) = "none" THEN NoCall ELSE [call EXCEPT !.phase = Prepared(snap)]
      BY <1>2 DEF StartPrepare
    <3> HIDE DEF snap
    <3> QED  BY <2>4, <3>1
  <2>6. call' \in Calls
    BY <2>5, NoCallType DEF Calls
  <2>7. CallBelongs'
    BY <1>2, <2>5 DEF StartPrepare, NoCall, Calls
  <2> QED  BY <1>2, <2>3, <2>6, <2>7 DEF StartPrepare
<1>3. CASE StartRecord
  <2>1. call.incident \in Incidents /\ call.id \in OpIds /\ "start" \in Actions /\ SignedIn
    BY <1>3 DEF StartRecord, Actions
  <2>2. call' \in Calls /\ CallBelongs'
    BY <1>3 DEF StartRecord, Calls
  <2> QED  BY <1>3, <2>1, <2>2, RecordAsType DEF StartRecord
<1>4. CASE StartSync
  <2>1. job' \in Jobs /\ job'.op = NoOp /\ job'.phase = "next"
    BY <1>4, NoJobType DEF StartSync, Begin, Jobs
  <2> QED  BY <1>4, <2>1, NoCallType DEF StartSync, device, NoCall
<1>5. CASE StartFails
  BY <1>5, NoCallType DEF StartFails, device, NoCall
<1> QED  BY <1>1, <1>2, <1>3, <1>4, <1>5 DEF StartStep

-----------------------------------------------------------------------------
(* synchronize. *)

LEMMA StopTypes ==
  ASSUME TypeOK, job.op \in Operations, NEW snap \in Snapshots, NEW outcome \in OpStates,
         Stop(snap, outcome)
  PROVE  TypeOK'
<1>1. job.op.incident \in Incidents /\ job.op.id \in OpIds
  BY DEF Operations
<1>2. snapshots' \in [Incidents -> Snapshots]
  BY <1>1, WithStateType, SaveType DEF Stop
<1>3. job' \in Jobs /\ job'.op = NoOp /\ job'.phase = "next"
  BY <1>1, NoJobType DEF Stop, TypeOK, Jobs
<1> QED  BY <1>2, <1>3 DEF Stop, TypeOK

\* The operation of the workflow in progress, while it has one.
LEMMA JobOpType ==
  ASSUME TypeOK, job.phase \in {"read", "post", "ack"}
  PROVE  /\ job.op \in Operations /\ job.op.incident \in Incidents /\ job.op.id \in OpIds
         /\ job.snap \in Snapshots
<1>1. job.op # NoOp /\ job \in Jobs
  BY DEF TypeOK
<1>2. job.op \in Operations /\ job.snap \in Snapshots
  BY <1>1 DEF Jobs
<1> QED  BY <1>2 DEF Operations

LEMMA SyncReadTypes ==
  ASSUME TypeOK, NonEmpty, SyncRead
  PROVE  TypeOK'
<1> DEFINE op == job.op
           snap == job.snap
           seen == Version(op.incident)
           remote == FieldsAt(op.incident, seen)
           merged == IsMerged(snap.base.fields, snap.local.fields, remote)
           fields == MergedFields(snap.base.fields, snap.local.fields, remote)
           kept == IF merged THEN fields ELSE snap.local.fields
<1>1. op \in Operations /\ op.incident \in Incidents /\ snap \in Snapshots
  BY JobOpType DEF SyncRead
<1>2. seen \in Nat /\ remote \in Fields
  BY <1>1, VersionType DEF NonEmpty
<1>3. snap.base.fields \in Fields /\ snap.local \in Records /\ snap.local.fields \in Fields
  BY <1>1 DEF Snapshots, Records
<1>4. kept \in Fields
  BY <1>2, <1>3, MergedFieldsType
<1>5. CASE Stop(snap, "conflict")
  BY <1>1, <1>5, StopTypes DEF OpStates
<1>6. CASE ~Stop(snap, "conflict")
  <2>1. /\ job' = [job EXCEPT !.phase = "post", !.seen = seen, !.snap.local.fields = kept]
        /\ posts' = posts \union {op}
        /\ UNCHANGED <<session, device, call, server, recorded>>
    BY <1>6 DEF SyncRead
  <2>2. [snap.local EXCEPT !.fields = kept] \in Records
    BY <1>3, <1>4 DEF Records
  <2>3. [snap EXCEPT !.local = [snap.local EXCEPT !.fields = kept]] \in Snapshots
    BY <1>1, <2>2 DEF Snapshots
  <2>4. [job EXCEPT !.phase = "post", !.seen = seen, !.snap.local.fields = kept]
          = [job EXCEPT !.phase = "post", !.seen = seen,
               !.snap = [snap EXCEPT !.local = [snap.local EXCEPT !.fields = kept]]]
    BY DEF TypeOK, Jobs
  <2> HIDE DEF kept, seen
  <2>5. job' \in Jobs /\ job'.op = job.op /\ job'.phase = "post"
    BY <1>2, <2>1, <2>3, <2>4 DEF TypeOK, Jobs
  <2>6. job.op # NoOp
    BY <1>1, NoneAssumption
  <2> QED  BY <1>1, <2>1, <2>5, <2>6 DEF TypeOK, device
<1> QED  BY <1>5, <1>6

LEMMA SyncFailTypes ==
  ASSUME TypeOK, SyncReadFails \/ SyncPostFails
  PROVE  TypeOK'
<1>1. job.op \in Operations /\ job.snap \in Snapshots
  BY JobOpType DEF SyncReadFails, SyncPostFails
<1>2. \E outcome \in {"retry", "forbidden", "conflict"} : Stop(job.snap, outcome)
  BY DEF SyncReadFails, SyncPostFails
<1> QED  BY <1>1, <1>2, StopTypes DEF OpStates


LEMMA SyncConfirmTypes ==
  ASSUME TypeOK, ReadsExist, SyncConfirm
  PROVE  TypeOK'
<1> DEFINE op == job.op
           latest == RecordAt(op.incident, Latest(job.seen, job.reply.version))
           receipt == [job.snap EXCEPT !.confirmed = AddConfirmed(@, op)]
           snap == IF {o \in PendingOn(op.incident) : o.id # op.id /\ Active(job.snap, o)} = {}
                   THEN [receipt EXCEPT !.base = latest, !.local = latest] ELSE receipt
<1>1. op \in Operations /\ op.incident \in Incidents /\ job.snap \in Snapshots
  BY JobOpType DEF SyncConfirm
<1>2. latest \in Records
  <2>1. Latest(job.seen, job.reply.version) \in 1..Version(op.incident)
    BY DEF SyncConfirm, ReadsExist, Confirms, Latest
  <2> QED  BY <1>1, <2>1, VersionType
<1>3. receipt \in Snapshots
  BY <1>1 DEF AddConfirmed, Snapshots
<1>4. snap \in Snapshots
  <2> HIDE DEF receipt, latest
  <2>1. [receipt EXCEPT !.base = latest, !.local = latest] \in Snapshots
    BY <1>2, <1>3 DEF Snapshots
  <2> QED  BY <1>3, <2>1
<1>5. snapshots' = [snapshots EXCEPT ![op.incident] = snap]
  BY DEF SyncConfirm
<1>6. snapshots' \in [Incidents -> Snapshots]
  <2> HIDE DEF snap
  <2> QED  BY <1>1, <1>4, <1>5, SaveType
<1>7. job' \in Jobs /\ job'.op = job.op /\ job'.phase = "ack"
  BY NoSnapshotType DEF SyncConfirm, TypeOK, Jobs, NoReply, Replies
<1>8. job.op # NoOp
  BY <1>1, NoneAssumption
<1> QED  BY <1>6, <1>7, <1>8 DEF SyncConfirm, TypeOK

LEMMA SyncAckTypes ==
  ASSUME TypeOK, SyncAck
  PROVE  TypeOK'
<1>1. queue' \subseteq queue /\ IsFiniteSet(queue')
  BY FS_Subset DEF SyncAck, TypeOK
<1>2. job' \in Jobs /\ job'.op = NoOp /\ job'.phase = "next"
  BY DEF SyncAck, TypeOK, Jobs
<1> QED  BY <1>1, <1>2 DEF SyncAck, TypeOK

LEMMA SyncTurnTypes ==
  ASSUME TypeOK, SyncSkip \/ SyncPick
  PROVE  TypeOK'
<1>1. job \in Jobs /\ job.todo \subseteq Operations /\ job.processed \subseteq OpIds
  BY DEF TypeOK, Jobs
<1>2. Target \subseteq Operations /\ Sendable \subseteq Operations /\ Rest \subseteq Operations
  BY <1>1, TargetType DEF SyncSkip, SyncPick, Rest
<1>3. CASE SyncSkip
  <2>1. {op.id : op \in Target} \subseteq OpIds
    BY <1>2 DEF Operations
  <2>2. job' \in Jobs /\ job'.op = job.op /\ job'.phase = job.phase
    BY <1>1, <1>2, <1>3, <2>1 DEF SyncSkip, Jobs
  <2> QED  BY <1>3, <2>2 DEF SyncSkip, TypeOK, device
<1>4. CASE SyncPick
  <2>1. PICK op \in Sendable :
          job' = [job EXCEPT !.phase = "read", !.todo = Rest, !.op = op,
                    !.processed = @ \union {op.id}, !.snap = snapshots[op.incident]]
    BY <1>4 DEF SyncPick
  <2>2. op \in Operations /\ op.id \in OpIds /\ op # NoOp /\ snapshots[op.incident] \in Snapshots
    BY <1>2, NoneAssumption DEF Operations, TypeOK
  <2>3. job' \in Jobs /\ job'.op = op /\ job'.phase = "read"
    BY <1>1, <1>2, <2>1, <2>2 DEF Jobs
  <2> QED  BY <1>4, <2>2, <2>3 DEF SyncPick, TypeOK, device
<1> QED  BY <1>3, <1>4

\* The steps that begin a cycle, or leave it as none.
LEMMA CycleBoundsTypes ==
  ASSUME TypeOK, SyncBegin \/ SyncEnd \/ SyncRejected \/ StorageFails
  PROVE  TypeOK'
<1>1. CASE SyncBegin
  <2>1. job' \in Jobs /\ job'.op = NoOp /\ job'.phase = "next"
    BY <1>1, NoJobType DEF SyncBegin, Begin, Jobs, TypeOK
  <2> QED  BY <1>1, <2>1 DEF SyncBegin, TypeOK, device
<1>2. CASE SyncEnd \/ SyncRejected \/ StorageFails
  BY <1>2, NoJobType DEF SyncEnd, SyncRejected, StorageFails, TypeOK, device
<1> QED  BY <1>1, <1>2

-----------------------------------------------------------------------------
(* Reviews. *)

LEMMA MarkActiveType ==
  ASSUME TypeOK, NEW i \in Incidents, NEW state \in OpStates
  PROVE  MarkActive(i, state) \in Snapshots
<1> DEFINE marked == [id \in OpIds |-> IF \E op \in ActiveOn(i) : op.id = id THEN state
                                      ELSE snapshots[i].states[id]]
<1>1. snapshots[i] \in Snapshots
  BY DEF TypeOK
<1>2. marked \in [OpIds -> OpStates]
  BY <1>1 DEF Snapshots
<1>3. MarkActive(i, state) = [snapshots[i] EXCEPT !.states = marked]
  BY DEF MarkActive
<1> HIDE DEF marked
<1> QED  BY <1>1, <1>2, <1>3 DEF Snapshots

LEMMA DecisionTypes ==
  ASSUME TypeOK, NEW i \in Incidents,
         Inspect(i) \/ \E expected \in 1..MaxVersion : KeepRemote(i, expected)
  PROVE  TypeOK'
<1>1. \E state \in {"conflict", "reviewed"} :
        snapshots' = [snapshots EXCEPT ![i] = MarkActive(i, state)]
  BY DEF Inspect, KeepRemote
<1>2. snapshots' \in [Incidents -> Snapshots]
  BY <1>1, MarkActiveType, SaveType DEF OpStates
<1> QED  BY <1>2 DEF Inspect, KeepRemote, TypeOK

LEMMA ReformulateTypes ==
  ASSUME TypeOK, NonEmpty, NEW original \in queue, NEW expected \in 1..MaxVersion,
         NEW id \in OpIds, Reformulate(original, expected, id)
  PROVE  TypeOK'
<1> DEFINE i == original.incident
           remote == RecordAt(i, Version(i))
           replacement == [original EXCEPT !.id = id, !.base = remote.version, !.row = nextRow]
           others == OthersOf(original)
           kept(notes, evidence) ==
             [remote.fields EXCEPT
                !.work.status = IF \E op \in others : op.action = "start" THEN "in_progress" ELSE @,
                !.notes = @ \o Intents(notes), !.evidence = @ \o Intents(evidence)]
           local(notes, evidence) ==
             [remote EXCEPT !.fields = Effect(kept(notes, evidence), replacement)]
           snap(notes, evidence) ==
             [WithState(snapshots[i], original.id, "superseded")
                EXCEPT !.replacement[original.id] = id,
                       !.base = remote, !.local = local(notes, evidence)]
<1>1. original \in Operations /\ i \in Incidents /\ original.id \in OpIds
  BY DEF TypeOK, Operations
<1>2. remote \in Records /\ remote.fields \in Fields /\ remote.version \in Nat
  BY <1>1, VersionType DEF NonEmpty, Records
<1>3. replacement \in Operations /\ replacement.row = nextRow
  BY <1>1, <1>2 DEF Operations, TypeOK
<1>4. others \subseteq Operations /\ IsFiniteSet(others)
  <2>1. others \subseteq queue
    BY DEF OthersOf, ActiveOn, PendingOn
  <2> QED  BY <2>1, FS_Subset DEF TypeOK
<1>5. PICK notes \in InRowOrder(others, "comment"), evidence \in InRowOrder(others, "add_evidence") :
        Commit(i, snap(notes, evidence), replacement)
  BY DEF Reformulate
<1>6. kept(notes, evidence) \in Fields
  <2> DEFINE status == IF \E op \in others : op.action = "start" THEN "in_progress"
                       ELSE remote.fields.work.status
  <2>1. Intents(notes) \in Seq(Entries) /\ Intents(evidence) \in Seq(Entries)
    BY <1>4, IntentsType
  <2>2. /\ remote.fields.notes \o Intents(notes) \in Seq(Entries)
        /\ remote.fields.evidence \o Intents(evidence) \in Seq(Entries)
    <3>1. remote.fields.notes \in Seq(Entries) /\ remote.fields.evidence \in Seq(Entries)
      BY <1>2 DEF Fields
    <3> HIDE DEF remote
    <3> QED  BY <2>1, <3>1
  <2>3. [remote.fields.work EXCEPT !.status = status] \in Works
    BY <1>2 DEF Fields, Works, Statuses
  <2>4. kept(notes, evidence)
          = [remote.fields EXCEPT
               !.work = [remote.fields.work EXCEPT !.status = status],
               !.notes = remote.fields.notes \o Intents(notes),
               !.evidence = remote.fields.evidence \o Intents(evidence)]
    BY <1>2 DEF Fields
  <2> HIDE DEF status, remote, kept, others
  <2> QED  BY <1>2, <2>2, <2>3, <2>4 DEF Fields
<1>7. local(notes, evidence) \in Records
  <2>1. Effect(kept(notes, evidence), replacement) \in Fields
    <3> HIDE DEF kept, replacement
    <3> QED  BY <1>3, <1>6, EffectType
  <2> HIDE DEF kept, replacement, remote
  <2> QED  BY <1>2, <2>1 DEF Records
<1>8. snap(notes, evidence) \in Snapshots
  <2>1. WithState(snapshots[i], original.id, "superseded") \in Snapshots
    BY <1>1, WithStateType DEF TypeOK, OpStates
  <2> HIDE DEF local, remote
  <2> QED  BY <1>1, <1>2, <1>7, <2>1 DEF Snapshots
<1>9. UNCHANGED <<session, job, call, posts, server>>
  BY DEF Reformulate
<1> HIDE DEF snap, replacement, i
<1> QED  BY <1>1, <1>3, <1>5, <1>8, <1>9, CommitType DEF TypeOK

-----------------------------------------------------------------------------
(* The theorem. *)

TypeInv == TypeOK /\ NonEmpty /\ CallBelongs /\ ReadsExist

LEMMA TypeInit == Init => TypeInv
<1> SUFFICES ASSUME Init PROVE TypeInv
  OBVIOUS
<1> USE DEF Init
<1>1. snapshots \in [Incidents -> Snapshots]
  BY NoSnapshotType
<1>2. queue \in SUBSET Operations /\ IsFiniteSet(queue)
  BY FS_EmptySet
<1>3. /\ server \in [Incidents -> Seq(Versions)]
      /\ \A i \in Incidents : Len(server[i]) = 1
  BY FirstRecordType DEF FirstRecord, Records, Versions
<1>4. TypeOK
  BY <1>1, <1>2, <1>3, NoJobType, NoCallType DEF TypeOK
<1> QED  BY <1>3, <1>4 DEF TypeInv, NonEmpty, Version, CallBelongs, NoCall, ReadsExist, NoJob

\* Every step keeps the shape of the variables.
LEMMA TypeStep == TypeInv /\ Next => TypeOK'
<1> SUFFICES ASSUME TypeInv, Next PROVE TypeOK'
  OBVIOUS
<1> USE DEF TypeInv
<1>1. CASE SessionStep
  BY <1>1, SessionTypes
<1>2. CASE ServerStep
  BY <1>2, DeliverPostTypes, OtherClientTypes DEF ServerStep
<1>3. CASE LocalStep
  BY <1>3, CacheTypes, RecordTypes DEF LocalStep
<1>4. CASE StartStep
  BY <1>4, StartTypes
<1>5. CASE SyncBegin \/ StorageFails
  BY <1>5, CycleBoundsTypes
<1>6. CASE SyncStep
  BY <1>6, SyncTurnTypes, SyncReadTypes, SyncFailTypes, SyncConfirmTypes, SyncAckTypes,
     CycleBoundsTypes DEF SyncStep
<1>7. CASE ReviewStep
  BY <1>7, DecisionTypes, ReformulateTypes DEF ReviewStep
<1> QED  BY <1>1, <1>2, <1>3, <1>4, <1>5, <1>6, <1>7 DEF Next

\* The server only ever appends a version.
LEMMA ServerGrows ==
  ASSUME TypeInv, Next
  PROVE  \A i \in Incidents :
           /\ Version(i) \in Nat /\ Version(i)' \in Nat /\ Version(i) <= Version(i)'
           /\ \A v \in 1..Version(i) : server'[i][v] = server[i][v]
<1>1. UNCHANGED server \/ Appends
  <2>1. CASE ServerStep
    BY <2>1, DeliverPostTypes, OtherClientTypes DEF ServerStep, TypeInv
  <2>2. CASE SessionStep \/ LocalStep \/ StartStep
    BY <2>2 DEF SessionStep, EndSession, BeginSession, Crash, LocalStep, Cache, Record,
       StartStep, StartCall, StartPrepare, StartRecord, StartSync, StartFails
  <2>3. CASE SyncBegin \/ SyncStep \/ StorageFails \/ ReviewStep
    BY <2>3 DEF SyncBegin, StorageFails, SyncStep, SyncSkip, SyncPick, SyncRead, SyncReadFails,
       SyncConfirm, SyncAck, SyncPostFails, SyncEnd, SyncRejected, Stop,
       ReviewStep, Inspect, KeepRemote, Reformulate
  <2> QED  BY <2>1, <2>2, <2>3 DEF Next
<1>2. TypeOK /\ TypeOK'
  BY TypeStep DEF TypeInv
<1>3. \A i \in Incidents : Version(i) \in Nat /\ Version(i)' \in Nat
  BY <1>2 DEF Version, TypeOK
<1> QED  BY <1>1, <1>2, <1>3, AppendType DEF Version

LEMMA CallStep == TypeInv /\ Next => CallBelongs'
<1> SUFFICES ASSUME TypeInv, Next PROVE CallBelongs'
  OBVIOUS
<1> USE DEF TypeInv
<1>1. CASE StartStep
  BY <1>1, StartTypes
<1>2. CASE SessionStep
  BY <1>2 DEF SessionStep, EndSession, BeginSession, Crash, CallBelongs, NoCall
<1>3. CASE ServerStep \/ LocalStep
  BY <1>3 DEF ServerStep, DeliverPost, OtherClient, LocalStep, Cache, Record, CallBelongs, SignedIn
<1>4. CASE SyncBegin \/ SyncStep \/ StorageFails \/ ReviewStep
  <2>1. UNCHANGED <<session, call>>
    <3>1. CASE SyncRead \/ SyncReadFails \/ SyncPostFails
      BY <3>1 DEF SyncRead, SyncReadFails, SyncPostFails, Stop
    <3>2. CASE SyncSkip \/ SyncPick \/ SyncConfirm \/ SyncAck \/ SyncEnd \/ SyncRejected
      BY <3>2 DEF SyncSkip, SyncPick, SyncConfirm, SyncAck, SyncEnd, SyncRejected
    <3>3. CASE SyncBegin \/ StorageFails \/ ReviewStep
      BY <3>3 DEF SyncBegin, StorageFails, ReviewStep, Inspect, KeepRemote, Reformulate
    <3> QED  BY <1>4, <3>1, <3>2, <3>3 DEF SyncStep
  <2> QED  BY <2>1 DEF CallBelongs, SignedIn
<1> QED  BY <1>1, <1>2, <1>3, <1>4 DEF Next

LEMMA ReadsStep == TypeInv /\ Next => ReadsExist'
<1> SUFFICES ASSUME TypeInv, Next PROVE ReadsExist'
  OBVIOUS
<1> USE DEF TypeInv
<1>1. \A i \in Incidents : Version(i) \in Nat /\ Version(i)' \in Nat /\ Version(i) <= Version(i)'
  BY ServerGrows
<1>2. CASE UNCHANGED job
  <2>1. job.phase = "post" => job.op.incident \in Incidents
    BY JobOpType
  <2> QED  BY <1>1, <1>2, <2>1 DEF ReadsExist
<1>3. ASSUME NEW op \in posts, DeliverPost(op), job' # job
      PROVE  ReadsExist'
  <2>1. job.phase = "post" /\ job.op = op /\ job' = [job EXCEPT !.reply = Answer(op)]
    BY <1>3 DEF DeliverPost
  <2>2. op \in Operations /\ op.incident \in Incidents /\ job'.op = op /\ job'.phase = "post"
    BY <2>1, JobOpType DEF TypeOK, Jobs
  <2>3. job'.seen = job.seen /\ job'.reply = Answer(op)
    BY <2>1 DEF TypeOK, Jobs
  <2>4. job.seen \in 1..Version(op.incident)
    BY <2>1 DEF ReadsExist
  <2>5. Answer(op).outcome = "ok" => Answer(op).version \in 1..Version(op.incident)'
    <3>1. CASE Stored(op) # {}
      <4>1. \A v \in Stored(op) : v \in 1..Version(op.incident)
        BY DEF Stored
      <4> QED  BY <1>1, <2>2, <3>1, <4>1 DEF Answer
    <3>2. CASE Stored(op) = {} /\ Authorized(op) /\ Accepts(op)
      <4>1. Executes(op)
        BY <3>2 DEF Executes
      <4>2. PICK version : server' = [server EXCEPT ![op.incident] = Append(@, version)]
        BY <1>3, <4>1 DEF DeliverPost
      <4>3. server[op.incident] \in Seq(Versions)
        BY <2>2 DEF TypeOK
      <4>4. Version(op.incident)' = Version(op.incident) + 1
        <5>1. server'[op.incident] = Append(server[op.incident], version)
          BY <2>2, <4>2 DEF TypeOK
        <5>2. server'[op.incident] \in Seq(Versions)
          BY <2>2, TypeStep DEF TypeOK
        <5> QED  BY <4>3, <5>1, <5>2 DEF Version
      <4>5. Answer(op).version = Version(op.incident) + 1
        BY <3>2 DEF Answer
      <4> QED  BY <1>1, <2>2, <4>4, <4>5
    <3>3. CASE Stored(op) = {} /\ ~(Authorized(op) /\ Accepts(op))
      BY <3>3 DEF Answer
    <3> QED  BY <3>1, <3>2, <3>3
  <2> QED  BY <1>1, <2>2, <2>3, <2>4, <2>5 DEF ReadsExist
<1>4. CASE SyncRead
  <2> DEFINE seen == Version(job.op.incident)
  <2>1. job.op.incident \in Incidents /\ job.reply = NoReply
    BY <1>4, JobOpType DEF SyncRead, ReadsExist
  <2>2. UNCHANGED server
    BY <1>4 DEF SyncRead, Stop
  <2>3. CASE Stop(job.snap, "conflict")
    BY <2>3 DEF Stop, NoJob, ReadsExist
  <2>4. CASE ~Stop(job.snap, "conflict")
    <3>1. /\ job'.phase = "post" /\ job'.seen = seen
          /\ job'.op = job.op /\ job'.reply = job.reply
      BY <1>4, <2>4 DEF SyncRead, TypeOK, Jobs
    <3>2. seen >= 1 /\ seen \in Nat /\ Version(job.op.incident)' = seen
      BY <1>1, <2>1, <2>2, <3>1 DEF NonEmpty, Version
    <3> HIDE DEF seen
    <3> QED  BY <2>1, <3>1, <3>2 DEF NoReply, ReadsExist
  <2> QED  BY <2>3, <2>4
<1>5. CASE SyncSkip \/ SyncPick
  <2>1. job'.phase \in {"next", "read"} /\ job'.reply = job.reply /\ job.phase = "next"
    BY <1>5 DEF SyncSkip, SyncPick, TypeOK, Jobs
  <2> QED  BY <2>1 DEF ReadsExist
<1>6. CASE SyncConfirm \/ SyncAck
  <2>1. job'.phase \in {"ack", "next"} /\ job'.reply = NoReply
    BY <1>6 DEF SyncConfirm, SyncAck, TypeOK, Jobs, ReadsExist
  <2> QED  BY <2>1 DEF ReadsExist
<1>7. CASE SyncReadFails \/ SyncPostFails
  BY <1>7 DEF SyncReadFails, SyncPostFails, Stop, NoJob, ReadsExist
<1>8. CASE SyncBegin \/ SyncEnd \/ SyncRejected \/ StorageFails \/ Crash \/ StartSync
  <2>1. CASE SyncBegin \/ StartSync
    BY <2>1 DEF SyncBegin, Begin, StartSync, NoJob, ReadsExist
  <2>2. CASE SyncEnd \/ SyncRejected \/ StorageFails \/ Crash
    BY <2>2 DEF SyncEnd, SyncRejected, StorageFails, Crash, NoJob, ReadsExist
  <2> QED  BY <1>8, <2>1, <2>2
<1>9. CASE UNCHANGED job
  BY <1>2, <1>9
<1>10. \/ UNCHANGED job
       \/ \E op \in posts : DeliverPost(op) /\ job' # job
       \/ SyncBegin \/ SyncStep \/ StorageFails \/ Crash \/ StartSync
  <2>1. CASE SessionStep \/ ServerStep
    BY <2>1 DEF SessionStep, EndSession, BeginSession, ServerStep, OtherClient
  <2>2. CASE LocalStep \/ ReviewStep
    BY <2>2 DEF LocalStep, Cache, Record, ReviewStep, Inspect, KeepRemote, Reformulate
  <2>3. CASE StartStep
    BY <2>3 DEF StartStep, StartCall, StartPrepare, StartRecord, StartFails
  <2> QED  BY <2>1, <2>2, <2>3 DEF Next
<1> QED  BY <1>3, <1>4, <1>5, <1>6, <1>7, <1>8, <1>9, <1>10 DEF SyncStep

\* Every variable keeps its shape, and the strengthening.
THEOREM TypesInvariant == Spec => []TypeInv
<1>1. TypeInv /\ [Next]_vars => TypeInv'
  <2>1. CASE UNCHANGED vars
    BY <2>1 DEF vars, device, TypeInv, TypeOK, NonEmpty, Version, CallBelongs, SignedIn, ReadsExist
  <2>2. ASSUME TypeInv, Next PROVE TypeInv'
    <3>1. NonEmpty'
      BY <2>2, ServerGrows DEF TypeInv, NonEmpty
    <3> QED  BY <2>2, <3>1, TypeStep, CallStep, ReadsStep DEF TypeInv
  <2> QED  BY <2>1, <2>2
<1> QED  BY TypeInit, <1>1, PTL DEF Spec

\* The variables always have the shape the code gives them, and a cycle holds
\* an operation exactly while it reads, sends or acknowledges it.
THEOREM TypeCorrect == Spec => []TypeOK
<1>1. TypeInv => TypeOK
  BY DEF TypeInv
<1> QED  BY TypesInvariant, <1>1, PTL

-----------------------------------------------------------------------------
(***************************************************************************)
(* 2. No saved intention is ever lost, receipts tell the truth and pending *)
(* operations stay with their author: IndInv is inductive.                 *)
(***************************************************************************)

\* The part of IndInv that is about operations, not about shapes.
Safe ==
  /\ NoIntentLost /\ ConfirmedWereExecuted
  /\ FromRecorded /\ EventsRecorded /\ IdentitiesUnique /\ CycleCoherent
  /\ PendingBelongToOwner

LEMMA IndInvParts == IndInv <=> TypeInv /\ Safe
BY DEF IndInv, TypeInv, Safe

\* The operations the proofs speak of are on an incident.
LEMMA RecordedType ==
  ASSUME TypeOK, NEW op \in recorded
  PROVE  op \in Operations /\ op.incident \in Incidents /\ op.id \in OpIds
BY DEF TypeOK, Operations

\* What was executed stays executed.
LEMMA ExecutedStays ==
  ASSUME TypeInv, Next, NEW op, op.incident \in Incidents, Executed(op)
  PROVE  Executed(op)'
<1>1. PICK v \in 1..Version(op.incident) :
        server[op.incident][v].event # NoOp /\ Request(server[op.incident][v].event) = Request(op)
  BY DEF Executed
<1>2. v \in 1..Version(op.incident)' /\ server'[op.incident][v] = server[op.incident][v]
  BY <1>1, ServerGrows
<1> QED  BY <1>1, <1>2 DEF Executed

LEMMA ExecutedSame ==
  ASSUME UNCHANGED server, NEW op, Executed(op)
  PROVE  Executed(op)'
BY DEF Executed, Version

\* Saving a snapshot: it must keep its owner unless nothing is pending on it,
\* and its receipts must be of executed operations.
LEMMA SaveKeeps ==
  ASSUME TypeOK, Safe, NEW i \in Incidents, NEW snap,
         snapshots' = [snapshots EXCEPT ![i] = snap],
         UNCHANGED <<server, queue>>,
         snap.owner = snapshots[i].owner \/ PendingOn(i) = {},
         \A op \in snap.confirmed : Executed(op)
  PROVE  ConfirmedWereExecuted' /\ PendingBelongToOwner'
<1>1. /\ snapshots'[i] = snap
      /\ \A j \in Incidents \ {i} : snapshots'[j] = snapshots[j]
  BY DEF TypeOK
<1>2. ConfirmedWereExecuted'
  <2>1. \A j \in Incidents : \A op \in snapshots'[j].confirmed : Executed(op)
    BY <1>1 DEF Safe, ConfirmedWereExecuted
  <2> QED  BY <2>1, ExecutedSame DEF ConfirmedWereExecuted
<1>3. PendingBelongToOwner'
  <2>1. ASSUME NEW op \in queue PROVE snapshots'[op.incident].owner = op.actor
    <3>1. op.incident \in Incidents /\ snapshots[op.incident].owner = op.actor
      BY RecordedType DEF Safe, FromRecorded, PendingBelongToOwner
    <3>2. op.incident = i => op \in PendingOn(i)
      BY DEF PendingOn
    <3> QED  BY <1>1, <3>1, <3>2
  <2> QED  BY <2>1 DEF PendingBelongToOwner
<1> QED  BY <1>2, <1>3

\* What follows when neither the queue nor the server changes.
LEMMA SameLedger ==
  ASSUME Safe, UNCHANGED <<server, queue, recorded>>
  PROVE  /\ NoIntentLost' /\ EventsRecorded'
         /\ queue' \subseteq recorded'
         /\ \A op : Executed(op) <=> Executed(op)'
<1>1. \A op : Executed(op) <=> Executed(op)'
  BY DEF Executed, Version
<1> QED  BY <1>1 DEF Safe, NoIntentLost, EventsRecorded, FromRecorded, Version

\* While no workflow is in progress, the cycle's part of the invariant is void.
LEMMA IdleCycle ==
  ASSUME TypeOK, Safe, Idle, UNCHANGED job, queue \subseteq queue'
  PROVE  CycleCoherent'
<1>1. job.op = NoOp /\ job.phase = "idle"
  BY DEF TypeOK, Idle
<1> QED  BY <1>1 DEF Safe, CycleCoherent

LEMMA NoCycle ==
  ASSUME job'.phase \in {"idle", "next"}, job'.op = NoOp,
         \A op \in job'.todo : op \in queue' \/ op.id \in job'.processed
  PROVE  CycleCoherent'
BY DEF CycleCoherent

-----------------------------------------------------------------------------
(* Sessions and the server. *)

LEMMA SessionSafe ==
  ASSUME TypeOK, Safe, SessionStep
  PROVE  Safe'
<1>1. /\ UNCHANGED <<device, posts, server, recorded>>
      /\ call' \in {call, NoCall} /\ job' \in {job, NoJob}
  BY DEF SessionStep, EndSession, BeginSession, Crash
<1>2. /\ NoIntentLost' /\ EventsRecorded' /\ \A op : Executed(op) <=> Executed(op)'
  BY <1>1, SameLedger DEF device
<1>3. ConfirmedWereExecuted' /\ PendingBelongToOwner'
  BY <1>1, <1>2 DEF Safe, ConfirmedWereExecuted, PendingBelongToOwner, device
<1>4. FromRecorded' /\ IdentitiesUnique'
  BY <1>1 DEF Safe, FromRecorded, IdentitiesUnique, device, NoJob, NoCall
<1>5. CycleCoherent'
  <2>1. CASE job' = NoJob
    BY <2>1, NoCycle DEF NoJob
  <2>2. CASE job' = job
    BY <1>1, <1>2, <2>2 DEF Safe, CycleCoherent, device
  <2> QED  BY <1>1, <2>1, <2>2
<1> QED  BY <1>2, <1>3, <1>4, <1>5 DEF Safe

\* Both kinds of server step: what the new version's event must be.
LEMMA ServerSafe ==
  ASSUME TypeInv, Safe, Next, UNCHANGED <<device, call, posts, recorded>>,
         job' = job \/ \E reply : job' = [job EXCEPT !.reply = reply],
         \/ UNCHANGED server
         \/ \E i \in Incidents, version \in Versions :
              /\ server' = [server EXCEPT ![i] = Append(@, version)]
              /\ version.event # NoOp =>
                   /\ version.event \in recorded /\ version.event.incident = i
                   /\ version.event.base = Version(i)
  PROVE  Safe'
<1>1. \A op : op.incident \in Incidents /\ Executed(op) => Executed(op)'
  BY ExecutedStays
<1>2. \A op \in recorded : op.incident \in Incidents
  BY RecordedType DEF TypeInv
<1>3. NoIntentLost' /\ PendingBelongToOwner'
  BY <1>1, <1>2 DEF Safe, NoIntentLost, PendingBelongToOwner, device
<1>4. \A i \in Incidents : \A op \in snapshots[i].confirmed : op.incident \in Incidents
  BY DEF TypeInv, TypeOK, Snapshots, Operations
<1>5. ConfirmedWereExecuted'
  BY <1>1, <1>4 DEF Safe, ConfirmedWereExecuted, device
<1>6. /\ job'.todo = job.todo /\ job'.op = job.op /\ job'.phase = job.phase
      /\ job'.processed = job.processed /\ job'.snap = job.snap
  BY DEF TypeInv, TypeOK, Jobs
<1>7. FromRecorded' /\ IdentitiesUnique'
  BY <1>6 DEF Safe, FromRecorded, IdentitiesUnique, device
<1>8. CycleCoherent'
  <2>1. job.phase \in {"read", "post", "ack"} =>
          /\ job.op.incident \in Incidents
          /\ \A op \in job.snap.confirmed : op.incident \in Incidents
    BY JobOpType DEF TypeInv, Snapshots, Operations
  <2>2. job.phase = "ack" => Executed(job.op)'
    <3> DEFINE op == job.op
    <3>1. job'.op = op
      BY <1>6
    <3> QED  BY <1>1, <1>6, <2>1 DEF Safe, CycleCoherent, Executed
  <2>3. job.phase \in {"read", "post"} => \A op \in job.snap.confirmed : Executed(op)'
    BY <1>1, <2>1 DEF Safe, CycleCoherent
  <2> QED  BY <1>6, <2>2, <2>3 DEF Safe, CycleCoherent, device
<1>9. EventsRecorded'
  <2>1. CASE UNCHANGED server
    BY <2>1 DEF Safe, EventsRecorded, Version
  <2>2. ASSUME NEW i \in Incidents, NEW version \in Versions,
               server' = [server EXCEPT ![i] = Append(@, version)],
               version.event # NoOp =>
                 /\ version.event \in recorded /\ version.event.incident = i
                 /\ version.event.base = Version(i)
        PROVE  EventsRecorded'
    <3>1. \A j \in Incidents : server[j] \in Seq(Versions)
      BY DEF TypeInv, TypeOK
    <3>2. server' = [j \in Incidents |-> IF j = i THEN Append(server[i], version) ELSE server[j]]
      BY <2>2 DEF TypeInv, TypeOK
    <3>3. /\ Len(server'[i]) = Version(i) + 1 /\ Version(i) \in Nat
          /\ server'[i][Version(i) + 1] = version
          /\ \A v \in 1..Version(i) : server'[i][v] = server[i][v]
      BY <3>1, <3>2 DEF Version
    <3>4. ASSUME NEW j \in Incidents, NEW v \in 1..Len(server'[j]), server'[j][v].event # NoOp
          PROVE  /\ server'[j][v].event \in recorded /\ server'[j][v].event.incident = j
                 /\ v = server'[j][v].event.base + 1
      <4>1. CASE j = i /\ v = Version(i) + 1
        BY <2>2, <3>3, <3>4, <4>1
      <4>2. CASE j = i /\ v # Version(i) + 1
        BY <3>3, <3>4, <4>2 DEF Safe, EventsRecorded
      <4>3. CASE j # i
        BY <3>2, <3>4, <4>3 DEF Safe, EventsRecorded, Version
      <4> QED  BY <4>1, <4>2, <4>3
    <3> QED  BY <3>4 DEF EventsRecorded, Version
  <2> QED  BY <2>1, <2>2
<1> QED  BY <1>3, <1>5, <1>7, <1>8, <1>9 DEF Safe

LEMMA ServerStepSafe ==
  ASSUME TypeInv, Safe, Next, ServerStep
  PROVE  Safe'
<1>1. ASSUME NEW op \in posts, DeliverPost(op) PROVE Safe'
  <2> DEFINE i == op.incident
             version == [fields |-> Effect(FieldsAt(i, Version(i)), op), event |-> op]
  <2>1. op \in recorded /\ op \in Operations /\ i \in Incidents
    BY RecordedType DEF Safe, FromRecorded, TypeInv
  <2>2. FieldsAt(i, Version(i)) \in Fields
    BY <2>1, VersionType DEF TypeInv, NonEmpty
  <2>3. version \in Versions
    BY <2>1, <2>2, EffectType DEF Versions
  <2>4. CASE Executes(op)
    <3>1. server' = [server EXCEPT ![i] = Append(@, version)]
      BY <1>1, <2>4 DEF DeliverPost
    <3>2. version.event = op /\ op.base = Version(i)
      BY <2>4 DEF Executes, Accepts
    <3>3. /\ UNCHANGED <<device, call, posts, recorded>>
          /\ job' = job \/ \E reply : job' = [job EXCEPT !.reply = reply]
      BY <1>1 DEF DeliverPost
    <3> HIDE DEF version
    <3> QED  BY <2>1, <2>3, <3>1, <3>2, <3>3, ServerSafe
  <2>5. CASE ~Executes(op)
    BY <1>1, <2>5, ServerSafe DEF DeliverPost
  <2> QED  BY <2>4, <2>5
<1>2. ASSUME NEW i \in Incidents, NEW action \in External, OtherClient(i, action) PROVE Safe'
  <2>1. \E version \in Versions :
          server' = [server EXCEPT ![i] = Append(@, version)] /\ version.event = NoOp
    BY <1>2, OtherClientAppends DEF TypeInv
  <2>2. UNCHANGED <<session, device, job, call, posts, recorded>>
    BY <1>2 DEF OtherClient
  <2> QED  BY <2>1, <2>2, ServerSafe
<1> QED  BY <1>1, <1>2 DEF ServerStep

-----------------------------------------------------------------------------
(* Workflows of one step. *)

\* A step that only saves a snapshot, or begins a request.
LEMMA OnlySnapshotSafe ==
  ASSUME TypeOK, Safe, Idle, UNCHANGED <<queue, job, posts, server, recorded>>,
         ConfirmedWereExecuted', PendingBelongToOwner',
         call'.phase # "none" =>
           \A op \in recorded : op.id = call'.id => op.action = "start"
  PROVE  Safe'
<1>1. FromRecorded' /\ IdentitiesUnique'
  BY DEF Safe, FromRecorded, IdentitiesUnique
<1> QED  BY <1>1, SameLedger, IdleCycle DEF Safe

LEMMA CacheSafe ==
  ASSUME TypeOK, Safe, NEW i \in Incidents, NEW v \in 1..MaxVersion, Cache(i, v)
  PROVE  Safe'
<1> DEFINE snap == Fresh(session.actor, RecordAt(i, v), IF Own(i) THEN snapshots[i].confirmed ELSE {})
<1>1. snapshots' = [snapshots EXCEPT ![i] = snap] /\ PendingOn(i) = {}
  BY DEF Cache, Blocked
<1>2. \A op \in snap.confirmed : Executed(op)
  BY DEF Fresh, Safe, ConfirmedWereExecuted
<1>3. ConfirmedWereExecuted' /\ PendingBelongToOwner'
  <2> HIDE DEF snap
  <2> QED  BY <1>1, <1>2, SaveKeeps DEF Cache
<1> QED  BY <1>3, OnlySnapshotSafe DEF Cache, May, Safe, IdentitiesUnique

LEMMA DecisionSafe ==
  ASSUME TypeOK, Safe, NEW i \in Incidents,
         Inspect(i) \/ \E expected \in 1..MaxVersion : KeepRemote(i, expected)
  PROVE  Safe'
<1>1. PICK state \in {"conflict", "reviewed"} :
        snapshots' = [snapshots EXCEPT ![i] = MarkActive(i, state)]
  BY DEF Inspect, KeepRemote
<1>2. /\ MarkActive(i, state).owner = snapshots[i].owner
      /\ MarkActive(i, state).confirmed = snapshots[i].confirmed
  BY DEF MarkActive, TypeOK, Snapshots
<1>3. \A op \in MarkActive(i, state).confirmed : Executed(op)
  BY <1>2 DEF Safe, ConfirmedWereExecuted
<1>4. UNCHANGED <<session, queue, nextRow, job, call, posts, server, recorded>> /\ Idle
  BY DEF Inspect, KeepRemote, May
<1>5. ConfirmedWereExecuted' /\ PendingBelongToOwner'
  BY <1>1, <1>2, <1>3, <1>4, SaveKeeps
<1> QED  BY <1>4, <1>5, OnlySnapshotSafe DEF Safe, IdentitiesUnique

\* Committing a change: the operation is new, or a start whose identity is only
\* known from other starts; it belongs to the owner of the snapshot.
LEMMA CommitSafe ==
  ASSUME TypeOK, Safe, Idle, NEW i \in Incidents, NEW snap, NEW op \in Operations,
         Commit(i, snap, op), op.incident = i,
         UNCHANGED <<job, posts, server>>,
         snap.owner = snapshots[i].owner, snap.confirmed = snapshots[i].confirmed,
         op.actor = snapshots[i].owner,
         \A o \in recorded : o.id = op.id => op.action = "start" /\ o.action = "start",
         \A o \in queue : o.id # op.id,
         call'.phase # "none" =>
           \A o \in recorded \union {op} : o.id = call'.id => o.action = "start"
  PROVE  Safe'
<1>1. /\ queue' = queue \union {op} /\ recorded' = recorded \union {op}
      /\ snapshots' = [snapshots EXCEPT ![i] = snap]
  BY DEF Commit
<1>2. /\ snapshots'[i] = snap
      /\ \A j \in Incidents \ {i} : snapshots'[j] = snapshots[j]
  BY <1>1 DEF TypeOK
<1>3. NoIntentLost' /\ EventsRecorded' /\ FromRecorded'
  <2>1. \A o \in recorded' : o \in queue' \/ Executed(o)
    BY <1>1 DEF Safe, NoIntentLost
  <2>2. NoIntentLost'
    BY <2>1, ExecutedSame DEF NoIntentLost
  <2> QED  BY <1>1, <2>2 DEF Safe, EventsRecorded, Version, FromRecorded
<1>4. ConfirmedWereExecuted'
  <2>1. \A j \in Incidents : \A o \in snapshots'[j].confirmed : Executed(o)
    BY <1>2 DEF Safe, ConfirmedWereExecuted
  <2> QED  BY <2>1, ExecutedSame DEF ConfirmedWereExecuted
<1>5. PendingBelongToOwner'
  <2>1. ASSUME NEW o \in queue' PROVE snapshots'[o.incident].owner = o.actor
    <3>1. CASE o = op
      BY <1>2, <3>1
    <3>2. CASE o \in queue
      <4>1. o.incident \in Incidents /\ snapshots[o.incident].owner = o.actor
        BY <3>2, RecordedType DEF Safe, FromRecorded, PendingBelongToOwner
      <4> QED  BY <1>2, <4>1
    <3> QED  BY <1>1, <3>1, <3>2
  <2> QED  BY <2>1 DEF PendingBelongToOwner
<1>6. IdentitiesUnique'
  <2>1. \A a, b \in recorded' : a.id = b.id => a = b \/ (a.action = "start" /\ b.action = "start")
    BY <1>1 DEF Safe, IdentitiesUnique
  <2>2. \A a, b \in queue' : a.id = b.id => a = b
    BY <1>1 DEF Safe, IdentitiesUnique
  <2> QED  BY <1>1, <2>1, <2>2 DEF IdentitiesUnique
<1>7. CycleCoherent'
  BY <1>1, IdleCycle
<1> QED  BY <1>3, <1>4, <1>5, <1>6, <1>7 DEF Safe

LEMMA RecordAsSafe ==
  ASSUME TypeOK, Safe, Idle, SignedIn, UNCHANGED <<job, posts, server>>,
         NEW i \in Incidents, NEW action \in Actions, NEW id \in OpIds,
         RecordAs(i, action, id),
         \A o \in recorded : o.id = id => action = "start" /\ o.action = "start",
         call'.phase # "none" =>
           /\ \A o \in recorded : o.id = call'.id => o.action = "start"
           /\ id = call'.id => action = "start"
  PROVE  Safe'
<1> DEFINE op == NewOperation(i, action, id)
           local == [snapshots[i].local EXCEPT !.fields = Effect(@, op)]
           snap == [WithState(snapshots[i], id, "pending") EXCEPT !.local = local]
<1>1. op \in Operations
  BY NewOperationType
<1>2. /\ op.id = id /\ op.incident = i /\ op.action = action /\ op.actor = session.actor
      /\ snapshots[i].owner = session.actor
  BY DEF NewOperation, RecordAs, CanRecord, Own
<1>3. snap.owner = snapshots[i].owner /\ snap.confirmed = snapshots[i].confirmed
  BY DEF WithState, TypeOK, Snapshots
<1>4. \A o \in queue : o.id # id
  BY DEF RecordAs, CanRecord, KnownIds
<1>5. Commit(i, snap, op)
  BY DEF RecordAs
<1> HIDE DEF op, snap
<1> QED  BY <1>1, <1>2, <1>3, <1>4, <1>5, CommitSafe

LEMMA RecordSafe ==
  ASSUME TypeOK, Safe, NEW i \in Incidents, NEW action \in Recordable, NEW id \in OpIds,
         Record(i, action, id)
  PROVE  Safe'
<1>1. \A o \in recorded : o.id # id
  BY DEF Record, NewIds
<1>2. id # call.id
  BY DEF Record, NewIds
<1>3. action \in Actions /\ Idle /\ SignedIn
  BY ChoiceAssumption DEF Record, May, Actions
<1> QED  BY <1>1, <1>2, <1>3, RecordAsSafe DEF Record, Safe, IdentitiesUnique

LEMMA ReformulateSafe ==
  ASSUME TypeInv, Safe, NEW original \in queue, NEW expected \in 1..MaxVersion,
         NEW id \in OpIds, Reformulate(original, expected, id)
  PROVE  Safe'
<1> DEFINE i == original.incident
           remote == RecordAt(i, Version(i))
           replacement == [original EXCEPT !.id = id, !.base = remote.version, !.row = nextRow]
<1>1. original \in Operations /\ i \in Incidents /\ Version(i) \in Nat
  BY VersionType DEF TypeInv, TypeOK, Operations
<1>2. /\ replacement \in Operations /\ replacement.id = id /\ replacement.incident = i
      /\ replacement.actor = original.actor
  <2>1. remote.version \in Nat /\ nextRow \in Nat
    BY <1>1 DEF RecordAt, TypeInv, TypeOK
  <2> HIDE DEF remote
  <2> QED  BY <1>1, <2>1 DEF Operations
<1>3. original.actor = snapshots[i].owner
  BY DEF Safe, PendingBelongToOwner
<1>4. /\ \A o \in recorded : o.id # id
      /\ id # call.id
  BY DEF Reformulate, NewIds
<1>5. \A o \in queue : o.id # id
  BY <1>4 DEF Safe, FromRecorded
<1>6. PICK local :
        Commit(i, [WithState(snapshots[i], original.id, "superseded")
                     EXCEPT !.replacement[original.id] = id, !.base = remote, !.local = local],
               replacement)
  BY DEF Reformulate
<1> DEFINE snap == [WithState(snapshots[i], original.id, "superseded")
                      EXCEPT !.replacement[original.id] = id, !.base = remote, !.local = local]
<1>7. snap.owner = snapshots[i].owner /\ snap.confirmed = snapshots[i].confirmed
  BY <1>1 DEF WithState, TypeInv, TypeOK, Snapshots
<1>8. UNCHANGED <<session, job, call, posts, server>> /\ Idle
  BY DEF Reformulate, May
<1>9. call'.phase # "none" =>
        \A o \in recorded \union {replacement} : o.id = call'.id => o.action = "start"
  BY <1>2, <1>4, <1>8 DEF Safe, IdentitiesUnique
<1> HIDE DEF snap, replacement, i
<1> QED  BY <1>1, <1>2, <1>3, <1>4, <1>5, <1>6, <1>7, <1>8, <1>9, CommitSafe DEF TypeInv, snap

-----------------------------------------------------------------------------
(* The start request. *)

LEMMA StartSafe ==
  ASSUME TypeInv, Safe, StartStep
  PROVE  Safe'
<1> USE DEF TypeInv
<1>1. ASSUME NEW i \in Incidents, NEW expected \in 1..MaxVersion, NEW id \in OpIds,
             StartCall(i, expected, id)
      PROVE  Safe'
  <2>1. \A o \in recorded : o.id = id => o.action = "start"
    BY <1>1 DEF StartCall, NewIds, Safe, IdentitiesUnique
  <2>2. call'.id = id /\ UNCHANGED <<session, device, job, posts, server, recorded>>
    BY <1>1 DEF StartCall
  <2>3. \A op : Executed(op) <=> Executed(op)'
    BY <2>2, SameLedger DEF device
  <2>4. IdentitiesUnique' /\ FromRecorded' /\ PendingBelongToOwner'
    BY <2>1, <2>2 DEF Safe, IdentitiesUnique, FromRecorded, PendingBelongToOwner, device
  <2>5. NoIntentLost' /\ EventsRecorded' /\ ConfirmedWereExecuted' /\ CycleCoherent'
    BY <2>2, <2>3, SameLedger DEF Safe, ConfirmedWereExecuted, CycleCoherent, device
  <2> QED  BY <2>4, <2>5 DEF Safe
<1>2. CASE StartPrepare
  <2> DEFINE i == call.incident
             snap == IF Own(i) THEN snapshots[i]
                     ELSE Fresh(session.actor, RecordAt(i, Version(i)), {})
  <2>1. i \in Incidents
    BY <1>2 DEF StartPrepare, CallBelongs
  <2>2. /\ snapshots' = [snapshots EXCEPT ![i] = snap]
        /\ UNCHANGED <<session, queue, nextRow, job, posts, server, recorded>> /\ Idle
    BY <1>2 DEF StartPrepare
  <2>3. snap.owner = snapshots[i].owner \/ PendingOn(i) = {}
    BY <1>2 DEF StartPrepare, Blocked
  <2>4. \A op \in snap.confirmed : Executed(op)
    BY <2>1 DEF Safe, ConfirmedWereExecuted, Fresh
  <2>5. ConfirmedWereExecuted' /\ PendingBelongToOwner'
    <3> HIDE DEF snap, i
    <3> QED  BY <2>1, <2>2, <2>3, <2>4, SaveKeeps
  <2>6. call' = NoCall \/ (call'.id = call.id /\ call.phase # "none")
    BY <1>2 DEF StartPrepare, TypeOK, Calls
  <2>7. call'.phase # "none" => \A op \in recorded : op.id = call'.id => op.action = "start"
    BY <2>6 DEF NoCall, Safe, IdentitiesUnique
  <2> QED  BY <2>2, <2>5, <2>7, OnlySnapshotSafe
<1>3. CASE StartRecord
  <2>1. call.incident \in Incidents /\ call.id \in OpIds /\ "start" \in Actions /\ SignedIn
    BY <1>3 DEF StartRecord, CallBelongs, Actions
  <2>2. call'.id = call.id /\ call.phase # "none"
    BY <1>3 DEF StartRecord, TypeOK, Calls
  <2>3. \A o \in recorded : o.id = call.id => o.action = "start"
    BY <2>2 DEF Safe, IdentitiesUnique
  <2> QED  BY <1>3, <2>1, <2>2, <2>3, RecordAsSafe DEF StartRecord
<1>4. CASE StartSync \/ StartFails
  <2>1. /\ UNCHANGED <<device, posts, server, recorded>> /\ call' = NoCall /\ Idle
    BY <1>4 DEF StartSync, StartFails
  <2>2. \A op : Executed(op) <=> Executed(op)'
    BY <2>1, SameLedger DEF device
  <2>3. IdentitiesUnique' /\ PendingBelongToOwner'
    BY <2>1 DEF Safe, IdentitiesUnique, PendingBelongToOwner, device, NoCall
  <2>4. NoIntentLost' /\ EventsRecorded' /\ ConfirmedWereExecuted'
    BY <2>1, <2>2, SameLedger DEF Safe, ConfirmedWereExecuted, device
  <2>5. FromRecorded' /\ CycleCoherent'
    <3>1. CASE StartSync
      <4>1. job'.phase = "next" /\ job'.op = NoOp /\ job'.todo = queue
        BY <3>1 DEF StartSync, Begin, NoJob
      <4> QED  BY <2>1, <4>1, NoCycle DEF Safe, FromRecorded, device
    <3>2. CASE StartFails
      BY <2>1, <3>2, IdleCycle DEF StartFails, Safe, FromRecorded, device
    <3> QED  BY <1>4, <3>1, <3>2
  <2> QED  BY <2>3, <2>4, <2>5 DEF Safe
<1> QED  BY <1>1, <1>2, <1>3, <1>4 DEF StartStep

-----------------------------------------------------------------------------
(* synchronize. *)

\* What the cycle's part of the invariant says of the operation in progress.
LEMMA InProgress ==
  ASSUME TypeInv, Safe, job.phase \in {"read", "post", "ack"}
  PROVE  /\ job.op \in Operations /\ job.op.incident \in Incidents /\ job.op.id \in OpIds
         /\ job.op \in queue /\ job.op \in recorded /\ job.op.id \in job.processed
<1>1. job.op \in Operations /\ job.op.incident \in Incidents /\ job.op.id \in OpIds
  BY JobOpType DEF TypeInv
<1>2. job.op # NoOp
  BY <1>1, NoneAssumption
<1> QED  BY <1>1, <1>2 DEF Safe, CycleCoherent, FromRecorded

\* Every way a cycle saves the snapshot of its operation.
LEMMA SyncSaveKeeps ==
  ASSUME TypeInv, Safe, job.phase \in {"read", "post"}, NEW snap,
         snapshots' = [snapshots EXCEPT ![job.op.incident] = snap],
         UNCHANGED <<server, queue>>,
         snap.owner = job.snap.owner,
         \A op \in snap.confirmed : op \in job.snap.confirmed \/ Executed(op)
  PROVE  ConfirmedWereExecuted' /\ PendingBelongToOwner'
<1>1. job.op.incident \in Incidents
  BY InProgress
<1>2. snap.owner = snapshots[job.op.incident].owner /\ \A op \in snap.confirmed : Executed(op)
  BY DEF Safe, CycleCoherent
<1> QED  BY <1>1, <1>2, SaveKeeps DEF TypeInv

LEMMA StopSafe ==
  ASSUME TypeInv, Safe, job.phase \in {"read", "post"}, NEW outcome \in OpStates,
         Stop(job.snap, outcome)
  PROVE  Safe'
<1>1. /\ snapshots' = [snapshots EXCEPT ![job.op.incident] = WithState(job.snap, job.op.id, outcome)]
      /\ UNCHANGED <<session, queue, nextRow, call, posts, server, recorded>>
  BY DEF Stop
<1>2. /\ WithState(job.snap, job.op.id, outcome).owner = job.snap.owner
      /\ WithState(job.snap, job.op.id, outcome).confirmed = job.snap.confirmed
  BY InProgress, JobOpType, WithStateType DEF TypeInv
<1>3. ConfirmedWereExecuted' /\ PendingBelongToOwner'
  BY <1>1, <1>2, SyncSaveKeeps
<1>4. job'.phase = "next" /\ job'.op = NoOp /\ job'.todo = job.todo /\ job'.processed = job.processed
  BY DEF Stop, NoJob
<1>5. FromRecorded' /\ CycleCoherent' /\ IdentitiesUnique'
  <2>1. CycleCoherent'
    BY <1>1, <1>4, NoCycle DEF Safe, CycleCoherent
  <2> QED  BY <1>1, <1>4, <2>1 DEF Safe, FromRecorded, IdentitiesUnique
<1> QED  BY <1>1, <1>3, <1>5, SameLedger DEF Safe

LEMMA SyncReadSafe ==
  ASSUME TypeInv, Safe, SyncRead
  PROVE  Safe'
<1>1. CASE Stop(job.snap, "conflict")
  BY <1>1, StopSafe DEF SyncRead, OpStates
<1>2. CASE ~Stop(job.snap, "conflict")
  <2>1. PICK fields :
          /\ job' = [job EXCEPT !.phase = "post", !.seen = Version(job.op.incident),
                       !.snap.local.fields = fields]
          /\ posts' = posts \union {job.op}
          /\ UNCHANGED <<session, device, call, server, recorded>>
    BY <1>2 DEF SyncRead
  <2>2. /\ job'.phase = "post" /\ job'.op = job.op /\ job'.todo = job.todo
        /\ job'.processed = job.processed
        /\ job'.snap.owner = job.snap.owner /\ job'.snap.confirmed = job.snap.confirmed
    BY <2>1 DEF TypeInv, TypeOK, Jobs, Snapshots
  <2>3. job.phase = "read" /\ job.op \in recorded
    BY InProgress DEF SyncRead
  <2>4. \A op : Executed(op) <=> Executed(op)'
    BY <2>1, SameLedger DEF device
  <2>5. FromRecorded' /\ IdentitiesUnique' /\ PendingBelongToOwner'
    BY <2>1, <2>2, <2>3 DEF Safe, FromRecorded, IdentitiesUnique, PendingBelongToOwner, device
  <2>6. CycleCoherent' /\ ConfirmedWereExecuted'
    BY <2>1, <2>2, <2>3, <2>4 DEF Safe, CycleCoherent, ConfirmedWereExecuted, device
  <2> QED  BY <2>1, <2>5, <2>6, SameLedger DEF Safe, device
<1> QED  BY <1>1, <1>2

\* The gateway's check of a receipt is exact: what it accepts is this very
\* request, although it compares identity, author, action and version only.
LEMMA ReceiptIsExact ==
  ASSUME TypeInv, Safe, job.phase = "post", Confirms(job.op, job.reply)
  PROVE  /\ Executed(job.op) /\ job.reply.version \in 1..Version(job.op.incident)
         /\ LET e == server[job.op.incident][job.reply.version].event
            IN  e # NoOp /\ Request(e) = Request(job.op)
<1> DEFINE op == job.op
           v == job.reply.version
           e == server[op.incident][v].event
<1>1. op \in Operations /\ op.incident \in Incidents /\ op \in recorded
  BY InProgress
<1>2. /\ v = op.base + 1 /\ e # NoOp
      /\ e.id = op.id /\ e.actor = op.actor /\ e.action = op.action
  BY DEF Confirms
<1>3. v \in 1..Version(op.incident)
  BY DEF TypeInv, ReadsExist, Confirms
<1>4. e \in recorded /\ e.incident = op.incident /\ v = e.base + 1
  BY <1>1, <1>2, <1>3 DEF Safe, EventsRecorded
<1>5. e.base = op.base
  <2>1. e.base \in Nat /\ op.base \in Nat
    BY <1>1, <1>4 DEF TypeInv, TypeOK, Operations
  <2> QED  BY <1>2, <1>4, <2>1
<1>6. e = op \/ op.action = "start"
  BY <1>1, <1>2, <1>4 DEF Safe, IdentitiesUnique
<1>7. Request(e) = Request(op)
  BY <1>2, <1>4, <1>5, <1>6 DEF Request
<1> QED  BY <1>2, <1>3, <1>7 DEF Executed

LEMMA SyncConfirmSafe ==
  ASSUME TypeInv, Safe, SyncConfirm
  PROVE  Safe'
<1> DEFINE op == job.op
           latest == RecordAt(op.incident, Latest(job.seen, job.reply.version))
           receipt == [job.snap EXCEPT !.confirmed = AddConfirmed(@, op)]
           snap == IF {o \in PendingOn(op.incident) : o.id # op.id /\ Active(job.snap, o)} = {}
                   THEN [receipt EXCEPT !.base = latest, !.local = latest] ELSE receipt
<1>1. /\ snapshots' = [snapshots EXCEPT ![op.incident] = snap]
      /\ UNCHANGED <<session, queue, nextRow, call, posts, server, recorded>>
      /\ job.phase = "post"
  BY DEF SyncConfirm
<1>2. Executed(op)
  BY ReceiptIsExact DEF SyncConfirm
<1>3. /\ snap.owner = job.snap.owner
      /\ \A o \in snap.confirmed : o \in job.snap.confirmed \/ o = op
  <2>1. job.snap \in Snapshots
    BY DEF TypeInv, TypeOK, Jobs
  <2>2. \A o \in AddConfirmed(job.snap.confirmed, op) : o \in job.snap.confirmed \/ o = op
    BY DEF AddConfirmed
  <2> QED  BY <2>1, <2>2 DEF Snapshots
<1>4. ConfirmedWereExecuted' /\ PendingBelongToOwner'
  <2> HIDE DEF snap, op
  <2>1. \A o \in snap.confirmed : o \in job.snap.confirmed \/ Executed(o)
    BY <1>2, <1>3
  <2> QED  BY <1>1, <1>3, <2>1, SyncSaveKeeps DEF op
<1>5. /\ job'.phase = "ack" /\ job'.op = op /\ job'.todo = job.todo
      /\ job'.processed = job.processed
  BY DEF SyncConfirm, TypeInv, TypeOK, Jobs
<1>6. Executed(op)'
  BY <1>1, <1>2, <1>5 DEF Executed, Version
<1>7. CycleCoherent' /\ FromRecorded' /\ IdentitiesUnique'
  BY <1>1, <1>5, <1>6 DEF Safe, CycleCoherent, FromRecorded, IdentitiesUnique
<1> QED  BY <1>1, <1>4, <1>7, SameLedger DEF Safe

\* The row that acknowledge deletes is that of an executed operation, and no
\* other row has its identity.
LEMMA SyncAckSafe ==
  ASSUME TypeInv, Safe, SyncAck
  PROVE  Safe'
<1>1. /\ queue' = {op \in queue : op.id # job.op.id}
      /\ UNCHANGED <<session, snapshots, nextRow, call, posts, server, recorded>>
      /\ job.phase = "ack"
  BY DEF SyncAck
<1>2. job.op \in queue /\ Executed(job.op) /\ job.op.id \in job.processed
  BY <1>1, InProgress DEF Safe, CycleCoherent
<1>3. \A op \in queue \ queue' : op = job.op
  BY <1>1, <1>2 DEF Safe, IdentitiesUnique
<1>4. NoIntentLost'
  <2>1. \A op \in recorded : op \in queue' \/ Executed(op)
    BY <1>2, <1>3 DEF Safe, NoIntentLost
  <2> QED  BY <1>1, <2>1, ExecutedSame DEF NoIntentLost
<1>5. ConfirmedWereExecuted'
  <2>1. \A i \in Incidents : \A op \in snapshots[i].confirmed : Executed(op)
    BY DEF Safe, ConfirmedWereExecuted
  <2> QED  BY <1>1, <2>1, ExecutedSame DEF ConfirmedWereExecuted
<1>6. /\ job'.phase = "next" /\ job'.op = NoOp /\ job'.todo = job.todo
      /\ job'.processed = job.processed
  BY DEF SyncAck, TypeInv, TypeOK, Jobs
<1>7. CycleCoherent'
  <2>1. \A op \in job.todo : op \in queue' \/ op.id \in job.processed
    BY <1>2, <1>3 DEF Safe, CycleCoherent
  <2> QED  BY <1>6, <2>1, NoCycle
<1>8. FromRecorded' /\ IdentitiesUnique' /\ PendingBelongToOwner' /\ EventsRecorded'
  BY <1>1, <1>6 DEF Safe, FromRecorded, IdentitiesUnique, PendingBelongToOwner, EventsRecorded,
     Version
<1> QED  BY <1>4, <1>5, <1>7, <1>8 DEF Safe

\* The steps that leave queue, snapshots and server alone.
LEMMA SyncTurnSafe ==
  ASSUME TypeInv, Safe,
         SyncBegin \/ SyncSkip \/ SyncPick \/ SyncEnd \/ SyncRejected \/ StorageFails
  PROVE  Safe'
<1>1. UNCHANGED <<session, device, call, posts, server, recorded>>
  BY DEF SyncBegin, SyncSkip, SyncPick, SyncEnd, SyncRejected, StorageFails
<1>2. \A op : Executed(op) <=> Executed(op)'
  BY <1>1, SameLedger DEF device
<1>3. NoIntentLost' /\ EventsRecorded' /\ ConfirmedWereExecuted' /\ IdentitiesUnique'
      /\ PendingBelongToOwner'
  BY <1>1, <1>2, SameLedger DEF Safe, ConfirmedWereExecuted, IdentitiesUnique,
     PendingBelongToOwner, device
<1>4. job'.todo \subseteq recorded /\ CycleCoherent'
  <2>1. CASE SyncBegin
    <3>1. job'.phase = "next" /\ job'.op = NoOp /\ job'.todo = queue
      BY <2>1 DEF SyncBegin, Begin, NoJob
    <3> QED  BY <1>1, <3>1, NoCycle DEF Safe, FromRecorded, device
  <2>2. CASE SyncEnd \/ SyncRejected \/ StorageFails
    <3>1. job' = NoJob
      BY <2>2 DEF SyncEnd, SyncRejected, StorageFails
    <3> QED  BY <3>1, NoCycle DEF NoJob
  <2>3. CASE SyncSkip
    <3>1. /\ job'.todo \subseteq job.todo /\ job.processed \subseteq job'.processed
          /\ job'.phase = "next" /\ job'.op = NoOp
      BY <2>3 DEF SyncSkip, Rest, TypeInv, TypeOK, Jobs
    <3> QED  BY <1>1, <3>1, NoCycle DEF Safe, CycleCoherent, FromRecorded, device
  <2>4. CASE SyncPick
    <3>1. PICK op \in Sendable :
            job' = [job EXCEPT !.phase = "read", !.todo = Rest, !.op = op,
                      !.processed = @ \union {op.id}, !.snap = snapshots[op.incident]]
      BY <2>4 DEF SyncPick
    <3>2. op \in job.todo /\ op.id \notin job.processed
      BY <2>4, TargetType DEF SyncPick, Sendable, TypeInv
    <3>3. op \in queue /\ op.incident \in Incidents
      BY <3>2, RecordedType DEF Safe, CycleCoherent, FromRecorded, TypeInv
    <3>4. /\ job'.todo \subseteq job.todo /\ job'.op = op /\ job'.phase = "read"
          /\ job'.processed = job.processed \union {op.id}
          /\ job'.snap = snapshots[op.incident]
      BY <3>1 DEF Rest, TypeInv, TypeOK, Jobs
    <3>5. \A o \in snapshots[op.incident].confirmed : Executed(o)'
      BY <1>2, <3>3 DEF Safe, ConfirmedWereExecuted
    <3> QED  BY <1>1, <3>3, <3>4, <3>5 DEF Safe, CycleCoherent, FromRecorded, device
  <2> QED  BY <2>1, <2>2, <2>3, <2>4
<1>5. FromRecorded'
  BY <1>1, <1>4 DEF Safe, FromRecorded, device
<1> QED  BY <1>3, <1>4, <1>5 DEF Safe

LEMMA SyncFailSafe ==
  ASSUME TypeInv, Safe, SyncReadFails \/ SyncPostFails
  PROVE  Safe'
<1>1. PICK outcome \in {"retry", "forbidden", "conflict"} : Stop(job.snap, outcome)
  BY DEF SyncReadFails, SyncPostFails
<1>2. job.phase \in {"read", "post"} /\ outcome \in OpStates
  BY DEF SyncReadFails, SyncPostFails, OpStates
<1> QED  BY <1>1, <1>2, StopSafe

-----------------------------------------------------------------------------
(* The theorems. *)

LEMMA SafeInit == Init => Safe
BY FirstRecordType DEF Init, Safe, NoIntentLost, ConfirmedWereExecuted, FromRecorded,
   EventsRecorded, IdentitiesUnique, CycleCoherent, PendingBelongToOwner, NoSnapshot, Fresh,
   NoJob, NoCall, Version

LEMMA SafeStep == TypeInv /\ Safe /\ Next => Safe'
<1> SUFFICES ASSUME TypeInv, Safe, Next PROVE Safe'
  OBVIOUS
<1>1. TypeOK
  BY DEF TypeInv
<1>2. CASE SessionStep
  BY <1>1, <1>2, SessionSafe
<1>3. CASE ServerStep
  BY <1>3, ServerStepSafe
<1>4. CASE LocalStep
  BY <1>1, <1>4, CacheSafe, RecordSafe DEF LocalStep
<1>5. CASE StartStep
  BY <1>5, StartSafe
<1>6. CASE SyncBegin \/ SyncStep \/ StorageFails
  BY <1>6, SyncTurnSafe, SyncReadSafe, SyncFailSafe, SyncConfirmSafe, SyncAckSafe DEF SyncStep
<1>7. CASE ReviewStep
  BY <1>1, <1>7, DecisionSafe, ReformulateSafe DEF ReviewStep
<1> QED  BY <1>2, <1>3, <1>4, <1>5, <1>6, <1>7 DEF Next

\* The inductive invariant holds in every reachable state.
THEOREM Inductive == Spec => []IndInv
<1>1. Init => TypeInv /\ Safe
  BY TypeInit, SafeInit
<1>2. TypeInv /\ Safe /\ [Next]_vars => Safe'
  <2>1. CASE UNCHANGED vars
    <3>1. TypeInv /\ Safe => Safe'
      BY <2>1, SameLedger DEF vars, device, Safe, ConfirmedWereExecuted, FromRecorded,
         IdentitiesUnique, CycleCoherent, PendingBelongToOwner
    <3> QED  BY <3>1
  <2> QED  BY <2>1, SafeStep
<1>3. TypeInv /\ Safe => IndInv
  BY IndInvParts
<1> QED  BY TypesInvariant, <1>1, <1>2, <1>3, PTL DEF Spec

\* A saved intention stays in the queue until the server has executed it,
\* through crashes, account changes, lost answers and failed statements.
THEOREM NoIntentIsLost == Spec => []NoIntentLost
<1>1. IndInv => NoIntentLost
  BY DEF IndInv
<1> QED  BY Inductive, <1>1, PTL

\* The receipts kept on the device are of executed operations.
THEOREM ReceiptsAreTrue == Spec => []ConfirmedWereExecuted
<1>1. IndInv => ConfirmedWereExecuted
  BY DEF IndInv
<1> QED  BY Inductive, <1>1, PTL

\* No account's workflow takes the copy from under another's pending operation.
THEOREM PendingStayWithOwner == Spec => []PendingBelongToOwner
<1>1. IndInv => PendingBelongToOwner
  BY DEF IndInv
<1> QED  BY Inductive, <1>1, PTL

-----------------------------------------------------------------------------
(* Executed at most once. *)

\* A version that a step adds carries no event, or that of a request in flight
\* which the server accepts, and had not stored for its author and identity.
LEMMA AddedVersion ==
  ASSUME TypeInv, Next
  PROVE  \/ UNCHANGED server
         \/ \E i \in Incidents, version \in Versions :
              /\ server' = [server EXCEPT ![i] = Append(@, version)]
              /\ \/ version.event = NoOp
                 \/ /\ version.event.incident = i /\ Stored(version.event) = {}
                    /\ version.event \in posts /\ Accepts(version.event)
<1>1. ASSUME NEW op \in posts, DeliverPost(op), Executes(op)
      PROVE  \E version \in Versions :
               /\ server' = [server EXCEPT ![op.incident] = Append(@, version)]
               /\ version.event = op
  <2> DEFINE version == [fields |-> Effect(FieldsAt(op.incident, Version(op.incident)), op),
                         event |-> op]
  <2>1. op \in Operations /\ op.incident \in Incidents
    BY DEF TypeInv, TypeOK, Operations
  <2>2. FieldsAt(op.incident, Version(op.incident)) \in Fields
    BY <2>1, VersionType DEF TypeInv, NonEmpty
  <2>3. version \in Versions
    BY <2>1, <2>2, EffectType DEF Versions
  <2>4. server' = [server EXCEPT ![op.incident] = Append(@, version)]
    BY <1>1 DEF DeliverPost
  <2> QED  BY <2>3, <2>4
<1>2. ASSUME NEW op \in posts, DeliverPost(op), Executes(op)
      PROVE  op.incident \in Incidents /\ Stored(op) = {} /\ Accepts(op)
  BY <1>2 DEF TypeInv, TypeOK, Operations, Executes
<1>3. CASE ServerStep
  <2>1. ASSUME NEW op \in posts, DeliverPost(op), ~Executes(op) PROVE UNCHANGED server
    BY <2>1 DEF DeliverPost
  <2>2. ASSUME NEW i \in Incidents, NEW action \in External, OtherClient(i, action)
        PROVE  \E version \in Versions :
                 server' = [server EXCEPT ![i] = Append(@, version)] /\ version.event = NoOp
    BY <2>2, OtherClientAppends DEF TypeInv
  <2> QED  BY <1>1, <1>2, <1>3, <2>1, <2>2 DEF ServerStep
<1>4. CASE SessionStep \/ LocalStep \/ StartStep
  BY <1>4 DEF SessionStep, EndSession, BeginSession, Crash, LocalStep, Cache, Record,
     StartStep, StartCall, StartPrepare, StartRecord, StartSync, StartFails
<1>5. CASE SyncBegin \/ SyncStep \/ StorageFails \/ ReviewStep
  BY <1>5 DEF SyncBegin, StorageFails, SyncStep, SyncSkip, SyncPick, SyncRead, SyncReadFails,
     SyncConfirm, SyncAck, SyncPostFails, SyncEnd, SyncRejected, Stop,
     ReviewStep, Inspect, KeepRemote, Reformulate
<1> QED  BY <1>3, <1>4, <1>5 DEF Next

\* An operation identity is executed at most once for its author, however
\* often and however late its request arrives.
THEOREM ExecutedAtMostOnce == Spec => []OperationsExecutedOnce
<1>1. Init => OperationsExecutedOnce
  <2> SUFFICES ASSUME Init PROVE OperationsExecutedOnce
    OBVIOUS
  <2>1. \A i \in Incidents : Version(i) = 1
    BY DEF Init, Version
  <2> QED  BY <2>1 DEF OperationsExecutedOnce
<1>2. TypeInv /\ OperationsExecutedOnce /\ [Next]_vars => OperationsExecutedOnce'
  <2> SUFFICES ASSUME TypeInv, OperationsExecutedOnce, Next PROVE OperationsExecutedOnce'
    BY DEF OperationsExecutedOnce, vars, Version
  <2>1. CASE UNCHANGED server
    BY <2>1 DEF OperationsExecutedOnce, Version
  <2>2. ASSUME NEW i \in Incidents, NEW version \in Versions,
               server' = [server EXCEPT ![i] = Append(@, version)],
               \/ version.event = NoOp
               \/ version.event.incident = i /\ Stored(version.event) = {}
        PROVE  OperationsExecutedOnce'
    <3> DEFINE n == Version(i) + 1
    <3>1. server[i] \in Seq(Versions) /\ DOMAIN server = Incidents
      BY DEF TypeInv, TypeOK
    <3>2. /\ Version(i)' = n /\ Version(i) \in Nat /\ server'[i][n] = version
          /\ \A v \in 1..Version(i) : server'[i][v] = server[i][v]
      BY <2>2, <3>1 DEF Version
    <3>3. \A j \in Incidents \ {i} : server'[j] = server[j] /\ Version(j)' = Version(j)
      BY <2>2, <3>1 DEF Version
    <3>4. \A k \in 1..Version(i) :
            LET e == server[i][k].event
                f == version.event
            IN  ~(e # NoOp /\ f # NoOp /\ e.id = f.id /\ e.actor = f.actor)
      BY <2>2 DEF Stored
    <3>5. ASSUME NEW j \in 1..n, NEW k \in 1..n,
                 server'[i][j].event # NoOp, server'[i][k].event # NoOp,
                 server'[i][j].event.id = server'[i][k].event.id,
                 server'[i][j].event.actor = server'[i][k].event.actor
          PROVE  j = k
      <4>1. CASE j \in 1..Version(i) /\ k \in 1..Version(i)
        BY <3>2, <3>5, <4>1 DEF OperationsExecutedOnce
      <4>2. CASE j = n /\ k \in 1..Version(i)
        BY <3>2, <3>4, <3>5, <4>2
      <4>3. CASE k = n /\ j \in 1..Version(i)
        BY <3>2, <3>4, <3>5, <4>3
      <4>4. CASE j = n /\ k = n
        BY <4>4
      <4>5. \A v \in 1..n : v = n \/ v \in 1..Version(i)
        BY <3>2
      <4> QED  BY <4>1, <4>2, <4>3, <4>4, <4>5
    <3> HIDE DEF n
    <3> QED  BY <3>2, <3>3, <3>5 DEF OperationsExecutedOnce
  <2> QED  BY <2>1, <2>2, AddedVersion
<1> QED  BY <1>1, <1>2, TypesInvariant, PTL DEF Spec

-----------------------------------------------------------------------------
(***************************************************************************)
(* 3. Every step of the device and of the server is a step of the ledger of *)
(* intentions, or does not touch it.                                       *)
(***************************************************************************)

Outstanding == Requests(queue)
AllEvents == UNION {EventsOf(i) : i \in Incidents}
ExecutedRequests == Requests(AllEvents)

\* Being executed, seen from the ledger.
LEMMA ExecutedInLedger ==
  ASSUME TypeInv, NEW op, op.incident \in Incidents, Executed(op)
  PROVE  Request(op) \in ExecutedRequests
<1>1. PICK v \in 1..Version(op.incident) :
        server[op.incident][v].event # NoOp /\ Request(server[op.incident][v].event) = Request(op)
  BY DEF Executed
<1>2. server[op.incident][v].event \in AllEvents
  BY <1>1 DEF EventsOf, AllEvents
<1> QED  BY <1>1, <1>2 DEF ExecutedRequests, Requests

\* A row with a new identity is a new entry of the ledger.
LEMMA CommitRecords ==
  ASSUME UNCHANGED server, NEW op, NEW i, NEW snap, Commit(i, snap, op),
         \A o \in queue : o.id # op.id
  PROVE  Ledger!Record(Request(op)) /\ Request(op) \in Outstanding'
<1>1. queue' = queue \union {op}
  BY DEF Commit
<1>2. \A o \in queue : Request(o) # Request(op)
  BY DEF Request
<1>3. Outstanding' = Outstanding \union {Request(op)} /\ Request(op) \notin Outstanding
  BY <1>1, <1>2 DEF Outstanding, Requests
<1>4. UNCHANGED ExecutedRequests
  BY DEF ExecutedRequests, AllEvents, EventsOf, Requests, Version
<1> QED  BY <1>3, <1>4 DEF Ledger!Record, Outstanding, ExecutedRequests, AllEvents

\* Neither rows nor events change: the ledger does not either.
LEMMA LedgerUntouched ==
  ASSUME UNCHANGED <<queue, server>>
  PROVE  UNCHANGED <<Outstanding, ExecutedRequests>>
BY DEF Outstanding, ExecutedRequests, AllEvents, EventsOf, Requests, Version

\* The events of an incident, when a version is appended to it.
LEMMA EventsAppended ==
  ASSUME NEW i \in Incidents, NEW version \in Versions,
         server[i] \in Seq(Versions), server'[i] = Append(server[i], version)
  PROVE  EventsOf(i)' = (EventsOf(i) \union {version.event}) \ {NoOp}
<1> DEFINE s == server[i]
           t == server'[i]
<1>1. EventsOf(i)' = {t[v].event : v \in 1..Len(t)} \ {NoOp}
  BY DEF EventsOf, Version
<1>2. EventsOf(i) = {s[v].event : v \in 1..Len(s)} \ {NoOp}
  BY DEF EventsOf, Version
<1>3. s \in Seq(Versions) /\ t = Append(s, version)
  OBVIOUS
<1> HIDE DEF s, t
<1>4. /\ Len(t) = Len(s) + 1 /\ Len(s) \in Nat
      /\ \A v \in 1..Len(s) : t[v] = s[v]
      /\ t[Len(s) + 1] = version
  BY <1>3
<1>5. \A v \in 1..Len(t) : v \in 1..Len(s) \/ v = Len(s) + 1
  BY <1>4
<1>6. {t[v].event : v \in 1..Len(t)} = {s[v].event : v \in 1..Len(s)} \union {version.event}
  <2>1. \A v \in 1..Len(t) :
          t[v].event \in {s[w].event : w \in 1..Len(s)} \union {version.event}
    BY <1>4, <1>5
  <2>2. \A v \in 1..Len(s) : s[v].event \in {t[w].event : w \in 1..Len(t)}
    <3>1. \A v \in 1..Len(s) : v \in 1..Len(t)
      BY <1>4
    <3>2. \A v \in 1..Len(s) : t[v].event = s[v].event
      BY <1>4
    <3> QED  BY <3>1, <3>2, Zenon
  <2>3. version.event \in {t[w].event : w \in 1..Len(t)}
    <3>1. Len(s) + 1 \in 1..Len(t) /\ t[Len(s) + 1].event = version.event
      BY <1>4
    <3> QED  BY <3>1, Zenon
  <2> QED  BY <2>1, <2>2, <2>3
<1> QED  BY <1>1, <1>2, <1>6

\* The identity of a reformulation, or of a start, is not in the queue.
LEMMA RecordingRefines ==
  ASSUME TypeInv, Safe,
         \/ \E i \in Incidents, action \in Actions, id \in OpIds :
              RecordAs(i, action, id) /\ UNCHANGED server
         \/ \E original \in queue, expected \in 1..MaxVersion, id \in OpIds :
              Reformulate(original, expected, id)
  PROVE  \E request \in Outstanding' : Ledger!Record(request)
<1>1. ASSUME NEW i \in Incidents, NEW action \in Actions, NEW id \in OpIds,
             RecordAs(i, action, id), UNCHANGED server
      PROVE  \E request \in Outstanding' : Ledger!Record(request)
  <2> DEFINE op == NewOperation(i, action, id)
  <2>1. PICK snap : Commit(i, snap, op)
    BY <1>1 DEF RecordAs
  <2>2. \A o \in queue : o.id # op.id
    BY <1>1 DEF RecordAs, CanRecord, KnownIds, NewOperation
  <2> HIDE DEF op
  <2> QED  BY <1>1, <2>1, <2>2, CommitRecords
<1>2. ASSUME NEW original \in queue, NEW expected \in 1..MaxVersion, NEW id \in OpIds,
             Reformulate(original, expected, id)
      PROVE  \E request \in Outstanding' : Ledger!Record(request)
  <2> DEFINE i == original.incident
             remote == RecordAt(i, Version(i))
             op == [original EXCEPT !.id = id, !.base = remote.version, !.row = nextRow]
  <2>1. PICK snap : Commit(i, snap, op)
    BY <1>2 DEF Reformulate
  <2>2. op.id = id
    BY DEF TypeInv, TypeOK, Operations
  <2>3. \A o \in queue : o.id # id
    BY <1>2 DEF Reformulate, NewIds, Safe, FromRecorded
  <2>4. UNCHANGED server
    BY <1>2 DEF Reformulate
  <2> HIDE DEF op, i
  <2> QED  BY <2>1, <2>2, <2>3, <2>4, CommitRecords
<1> QED  BY <1>1, <1>2

\* A late request can still be executed only while its row is in the queue:
\* NoIntentLost says that a row which is gone was executed, and the server
\* answers those from its store.
LEMMA DeliveryRefines ==
  ASSUME TypeInv, Safe, Next, NEW op \in posts, DeliverPost(op)
  PROVE  \/ \E request \in Outstanding : Ledger!Execute(request)
         \/ UNCHANGED <<Outstanding, ExecutedRequests>>
<1> DEFINE i == op.incident
<1>1. op \in recorded /\ op \in Operations /\ i \in Incidents
  BY RecordedType DEF Safe, FromRecorded, TypeInv
<1>2. CASE ~Executes(op)
  BY <1>2, LedgerUntouched DEF DeliverPost, device
<1>3. CASE Executes(op)
  <2>1. Request(op) \notin ExecutedRequests
    <3>1. SUFFICES ASSUME NEW e \in AllEvents, Request(e) = Request(op) PROVE FALSE
      BY DEF ExecutedRequests, Requests
    <3>2. PICK j \in Incidents : e \in EventsOf(j)
      BY DEF AllEvents
    <3>3. PICK v \in 1..Version(j) : e = server[j][v].event /\ e # NoOp
      BY <3>2 DEF EventsOf
    <3>4. e.incident = j
      BY <3>3 DEF Safe, EventsRecorded
    <3>5. e.id = op.id /\ e.actor = op.actor /\ e.incident = op.incident
      BY <3>1 DEF Request
    <3>6. v \in Stored(op)
      BY <3>3, <3>4, <3>5 DEF Stored
    <3> QED  BY <1>3, <3>6 DEF Executes
  <2>2. op \in queue
    BY <1>1, <2>1, ExecutedInLedger DEF Safe, NoIntentLost
  <2>3. Request(op) \in Outstanding /\ UNCHANGED Outstanding
    BY <2>2 DEF Outstanding, Requests, DeliverPost, device
  <2>4. ExecutedRequests' = ExecutedRequests \union {Request(op)}
    <3> DEFINE version == [fields |-> Effect(FieldsAt(i, Version(i)), op), event |-> op]
    <3>1. server' = [server EXCEPT ![i] = Append(@, version)]
      BY <1>3 DEF DeliverPost
    <3>2. server[i] \in Seq(Versions) /\ DOMAIN server = Incidents
      BY <1>1 DEF TypeInv, TypeOK
    <3>3. version \in Versions
      <4>1. Version(i) \in 1..Version(i) /\ FieldsAt(i, Version(i)) \in Fields
        BY <1>1, VersionType DEF TypeInv, NonEmpty
      <4>2. Effect(FieldsAt(i, Version(i)), op) \in Fields
        BY <1>1, <4>1, EffectType
      <4> QED  BY <1>1, <4>2 DEF Versions
    <3>4. version.event = op /\ op # NoOp
      BY <1>1, NoneAssumption
    <3> HIDE DEF version
    <3>5. server'[i] = Append(server[i], version)
      BY <1>1, <3>1, <3>2
    <3>6. \A j \in Incidents \ {i} : server'[j] = server[j]
      BY <3>1, <3>2
    <3>7. EventsOf(i)' = EventsOf(i) \union {op}
      <4>1. EventsOf(i)' = (EventsOf(i) \union {version.event}) \ {NoOp}
        BY <1>1, <3>2, <3>3, <3>5, EventsAppended
      <4> QED  BY <3>4, <4>1 DEF EventsOf
    <3>8. \A j \in Incidents \ {i} : EventsOf(j)' = EventsOf(j)
      BY <3>6 DEF EventsOf, Version
    <3>9. AllEvents' = AllEvents \union {op}
      <4> HIDE DEF i
      <4>1. AllEvents' = UNION {EventsOf(j)' : j \in Incidents}
        BY DEF AllEvents
      <4> QED  BY <1>1, <3>7, <3>8, <4>1 DEF AllEvents
    <3> QED  BY <3>9 DEF ExecutedRequests, Requests
  <2>5. Ledger!Execute(Request(op))
    BY <2>1, <2>3, <2>4 DEF Ledger!Execute, Outstanding, ExecutedRequests, AllEvents
  <2> QED  BY <2>3, <2>5
<1> QED  BY <1>2, <1>3

\* acknowledge forgets one executed request.
LEMMA AckRefines ==
  ASSUME TypeInv, Safe, SyncAck
  PROVE  \E request \in Outstanding : Ledger!Forget(request)
<1> DEFINE op == job.op
<1>1. /\ queue' = {o \in queue : o.id # op.id} /\ UNCHANGED server
      /\ job.phase = "ack"
  BY DEF SyncAck
<1>2. op \in queue /\ op.incident \in Incidents /\ Executed(op)
  BY <1>1, InProgress DEF Safe, CycleCoherent
<1>3. Request(op) \in ExecutedRequests /\ UNCHANGED ExecutedRequests
  BY <1>1, <1>2, ExecutedInLedger DEF ExecutedRequests, AllEvents, EventsOf, Requests, Version
<1>4. Outstanding' = Outstanding \ {Request(op)}
  <2> DEFINE gone == op
  <2>1. queue' = queue \ {gone}
    BY <1>1, <1>2 DEF Safe, IdentitiesUnique
  <2>2. \A o \in queue \ {gone} : Request(o) # Request(gone)
    BY <1>2 DEF Safe, IdentitiesUnique, Request
  <2>3. Outstanding' = {Request(o) : o \in queue'}
    BY DEF Outstanding, Requests
  <2> HIDE DEF gone, op
  <2>4. Outstanding' = Outstanding \ {Request(gone)}
    BY <1>2, <2>1, <2>2, <2>3 DEF Outstanding, Requests, gone
  <2> QED  BY <2>4 DEF gone
<1>5. Request(op) \in Outstanding
  BY <1>2 DEF Outstanding, Requests
<1>6. Ledger!Forget(Request(op))
  BY <1>3, <1>4, <1>5 DEF Ledger!Forget, Outstanding, ExecutedRequests, AllEvents
<1> QED  BY <1>5, <1>6

-----------------------------------------------------------------------------
\* An event of another client is not one of the ledger's.
LEMMA OtherClientRefines ==
  ASSUME TypeInv, NEW i \in Incidents, NEW action \in External, OtherClient(i, action)
  PROVE  UNCHANGED <<Outstanding, ExecutedRequests>>
<1>1. PICK version \in Versions :
        server' = [server EXCEPT ![i] = Append(@, version)] /\ version.event = NoOp
  BY OtherClientAppends DEF TypeInv
<1>2. server[i] \in Seq(Versions) /\ DOMAIN server = Incidents
  BY DEF TypeInv, TypeOK
<1>3. server'[i] = Append(server[i], version) /\ \A j \in Incidents \ {i} : server'[j] = server[j]
  BY <1>1, <1>2
<1>4. EventsOf(i)' = EventsOf(i)
  <2>1. EventsOf(i)' = (EventsOf(i) \union {version.event}) \ {NoOp}
    BY <1>2, <1>3, EventsAppended
  <2> QED  BY <1>1, <2>1 DEF EventsOf
<1>5. \A j \in Incidents : EventsOf(j)' = EventsOf(j)
  <2>1. TAKE j \in Incidents
  <2>2. CASE j = i
    BY <1>4, <2>2
  <2>3. CASE j # i
    <3>1. server'[j] = server[j]
      BY <1>3, <2>3
    <3> QED  BY <3>1 DEF EventsOf, Version
  <2> QED  BY <2>2, <2>3
<1>6. AllEvents' = AllEvents
  <2>1. AllEvents' = UNION {EventsOf(j)' : j \in Incidents}
    BY DEF AllEvents
  <2> QED  BY <1>5, <2>1 DEF AllEvents
<1>7. UNCHANGED queue
  BY DEF OtherClient, device
<1> QED  BY <1>6, <1>7 DEF Outstanding, ExecutedRequests, Requests

-----------------------------------------------------------------------------
LEMMA LedgerInit == TypeInv /\ Init => Ledger!Init
<1> SUFFICES ASSUME TypeInv, Init PROVE Outstanding = {} /\ ExecutedRequests = {}
  BY DEF Ledger!Init, Outstanding, ExecutedRequests, AllEvents
<1>1. Outstanding = {}
  BY DEF Init, Outstanding, Requests
<1>2. ASSUME NEW i \in Incidents, NEW v \in 1..Version(i) PROVE server[i][v].event = NoOp
  <2>1. server[i] = <<[fields |-> FirstFields, event |-> NoOp]>>
    BY DEF Init
  <2> QED  BY <2>1, <1>2 DEF Version
<1>3. AllEvents = {}
  BY <1>2 DEF AllEvents, EventsOf
<1> QED  BY <1>1, <1>3 DEF ExecutedRequests, Requests

LEMMA LedgerStep ==
  TypeInv /\ Safe /\ [Next]_vars
    => [Ledger!Next]_<<Requests(queue), Requests(UNION {EventsOf(i) : i \in Incidents})>>
<1> SUFFICES ASSUME TypeInv, Safe, [Next]_vars
             PROVE  Ledger!Next \/ UNCHANGED <<Outstanding, ExecutedRequests>>
  BY DEF Outstanding, ExecutedRequests, AllEvents
<1>1. ASSUME \E request \in Outstanding' : Ledger!Record(request) PROVE Ledger!Next
  BY <1>1 DEF Ledger!Next, Outstanding
<1>2. ASSUME \E request \in Outstanding : Ledger!Execute(request) \/ Ledger!Forget(request)
      PROVE  Ledger!Next
  BY <1>2 DEF Ledger!Next, Outstanding
<1>3. CASE UNCHANGED <<queue, server>>
  BY <1>3, LedgerUntouched
<1>4. CASE ServerStep
  <2>1. ASSUME NEW op \in posts, DeliverPost(op)
        PROVE  Ledger!Next \/ UNCHANGED <<Outstanding, ExecutedRequests>>
    BY <1>2, <1>4, <2>1, DeliveryRefines DEF Next
  <2>2. ASSUME NEW i \in Incidents, NEW action \in External, OtherClient(i, action)
        PROVE  UNCHANGED <<Outstanding, ExecutedRequests>>
    BY <2>2, OtherClientRefines
  <2> QED  BY <1>4, <2>1, <2>2 DEF ServerStep
<1>5. ASSUME NEW i \in Incidents, NEW action \in Actions, NEW id \in OpIds,
             RecordAs(i, action, id), UNCHANGED server
      PROVE  Ledger!Next
  BY <1>1, <1>5, RecordingRefines
<1>6. CASE LocalStep
  <2>1. ASSUME NEW i \in Incidents, NEW v \in 1..MaxVersion, Cache(i, v)
        PROVE  UNCHANGED <<queue, server>>
    BY <2>1 DEF Cache
  <2>2. ASSUME NEW i \in Incidents, NEW action \in Recordable, NEW id \in OpIds,
               Record(i, action, id)
        PROVE  Ledger!Next
    <3>1. action \in Actions
      BY <2>2, ChoiceAssumption DEF Actions
    <3> QED  BY <1>5, <2>2, <3>1 DEF Record
  <2> QED  BY <1>3, <1>6, <2>1, <2>2 DEF LocalStep
<1>7. CASE StartStep
  <2>1. CASE StartRecord
    <3>1. call.incident \in Incidents /\ call.id \in OpIds /\ "start" \in Actions
      BY <2>1 DEF StartRecord, TypeInv, CallBelongs, Actions
    <3> QED  BY <1>5, <2>1, <3>1 DEF StartRecord
  <2>2. CASE ~StartRecord
    BY <1>3, <1>7, <2>2 DEF StartStep, StartCall, StartPrepare, StartSync, StartFails, device
  <2> QED  BY <2>1, <2>2
<1>8. CASE SyncStep
  <2>1. CASE SyncAck
    BY <1>2, <2>1, AckRefines
  <2>2. CASE ~SyncAck
    BY <1>3, <1>8, <2>2 DEF SyncStep, SyncSkip, SyncPick, SyncRead, SyncReadFails, SyncConfirm,
         SyncPostFails, SyncEnd, SyncRejected, Stop, device
  <2> QED  BY <2>1, <2>2
<1>9. CASE ReviewStep
  <2>1. ASSUME NEW original \in queue, NEW expected \in 1..MaxVersion, NEW id \in OpIds,
               Reformulate(original, expected, id)
        PROVE  Ledger!Next
    BY <1>1, <2>1, RecordingRefines
  <2>2. ASSUME NEW i \in Incidents,
               Inspect(i) \/ \E expected \in 1..MaxVersion : KeepRemote(i, expected)
        PROVE  UNCHANGED <<queue, server>>
    BY <2>2 DEF Inspect, KeepRemote
  <2> QED  BY <1>3, <1>9, <2>1, <2>2 DEF ReviewStep
<1>10. CASE SessionStep \/ SyncBegin \/ StorageFails \/ UNCHANGED vars
  BY <1>3, <1>10 DEF SessionStep, EndSession, BeginSession, Crash, SyncBegin, StorageFails,
       device, vars
<1> QED  BY <1>4, <1>6, <1>7, <1>8, <1>9, <1>10 DEF Next

\* The device and the server together implement the ledger of intentions: an
\* operation is recorded, executed only while it is recorded and only once,
\* and its row is deleted only after the server executed it, for every number
\* of incidents, accounts, identities and versions.
THEOREM Implements == Spec => LedgerSpec
<1>1. Init /\ TypeInv => Ledger!Init
  BY LedgerInit
<1>2. IndInv /\ [Next]_vars
        => [Ledger!Next]_<<Requests(queue), Requests(UNION {EventsOf(i) : i \in Incidents})>>
  BY LedgerStep, IndInvParts
<1>3. IndInv => TypeInv
  BY IndInvParts
<1> QED  BY <1>1, <1>2, <1>3, Inductive, PTL DEF Spec, LedgerSpec, Ledger!Spec

-----------------------------------------------------------------------------
(***************************************************************************)
(* 4. What the device shows and decides.  CopyInv is about a copy, the rows *)
(* that lie over it, and the copy the cycle in progress holds in memory;   *)
(* OnceInv is about the operations of one intention.                       *)
(***************************************************************************)

EntriesIn(list) == {list[k] : k \in 1..Len(list)}

\* The entry of a comment or of a photo is among the fields.
Shows(fields, op) ==
  /\ op.action = "comment" => op.intent \in EntriesIn(fields.notes)
  /\ op.action = "add_evidence" => op.intent \in EntriesIn(fields.evidence)

\* No entry of the earlier fields is missing in the later ones.
Keeps(earlier, later) ==
  /\ EntriesIn(earlier.notes) \subseteq EntriesIn(later.notes)
  /\ EntriesIn(earlier.evidence) \subseteq EntriesIn(later.evidence)

\* The server's notes and photos only grow, and show what was executed.
EntriesKept ==
  \A i \in Incidents : \A v \in 1..Version(i) :
    /\ \A w \in v..Version(i) : Keeps(FieldsAt(i, v), FieldsAt(i, w))
    /\ server[i][v].event # NoOp => Shows(FieldsAt(i, v), server[i][v].event)

\* A snapshot of incident i that lies under the rows q, with the server at s.
BaseReal(i, snap, q, s) ==
  snap.owner # NoActor =>
    /\ snap.base.version \in 1..Len(s[i])
    /\ snap.base.fields = s[i][snap.base.version].fields
    /\ snap.local.version = snap.base.version
    /\ \A op \in q : op.incident = i => op.base <= snap.base.version
Shown(i, snap, fields, q) ==
  \A op \in q : op.incident = i /\ Active(snap, op) => Shows(fields, op)
\* States are kept of recorded identities only.
StatesRecorded(snap, ops) ==
  \A id \in OpIds : snap.states[id] # "pending" => \E op \in ops : op.id = id
CopyHolds(i, snap, q, ops, s) ==
  /\ BaseReal(i, snap, q, s)
  /\ Shown(i, snap, snap.local.fields, q)
  /\ StatesRecorded(snap, ops)

\* The snapshot in the cycle's memory is the stored one, but for the fields it
\* merged from what it read; its operation is active, and of its account.
MemoryHolds(j, copies, q) ==
  j.phase \in {"read", "post"} =>
    LET i == j.op.incident IN
    /\ j.op.actor = j.actor /\ Active(copies[i], j.op)
    /\ j.snap.base = copies[i].base /\ j.snap.states = copies[i].states
    /\ j.snap.owner = copies[i].owner
    /\ j.snap.local.version = copies[i].local.version
    /\ Shown(i, j.snap, j.snap.local.fields, q)
    /\ j.phase = "post" => copies[i].base.version <= j.seen

CopyInv ==
  /\ EntriesKept
  /\ \A i \in Incidents : CopyHolds(i, snapshots[i], queue, recorded, server)
  /\ MemoryHolds(job, snapshots, queue)

-----------------------------------------------------------------------------
(* Entries, and the server's history of them. *)

LEMMA AppendedEntries ==
  ASSUME NEW S, NEW list \in Seq(S), NEW entry \in S
  PROVE  EntriesIn(Append(list, entry)) = EntriesIn(list) \union {entry}
<1> DEFINE t == Append(list, entry)
<1>1. /\ Len(list) \in Nat /\ Len(t) = Len(list) + 1
      /\ \A k \in 1..Len(list) : t[k] = list[k]
      /\ t[Len(list) + 1] = entry
  OBVIOUS
<1> DEFINE n == Len(list)
<1> HIDE DEF t
<1>2. \A k \in 1..Len(t) : k \in 1..n \/ k = n + 1
  BY <1>1
<1>3. \A k \in 1..n : k \in 1..Len(t)
  BY <1>1
<1>4. n + 1 \in 1..Len(t)
  BY <1>1
<1>5. EntriesIn(t) \subseteq EntriesIn(list) \union {entry}
  BY <1>1, <1>2 DEF EntriesIn
<1>6. ASSUME NEW k \in 1..n PROVE list[k] \in EntriesIn(t)
  BY <1>1, <1>3 DEF EntriesIn
<1>7. entry \in EntriesIn(t)
  BY <1>1, <1>4 DEF EntriesIn
<1>8. EntriesIn(list) \subseteq EntriesIn(t)
  BY <1>6 DEF EntriesIn
<1>9. EntriesIn(t) = EntriesIn(list) \union {entry}
  BY <1>5, <1>7, <1>8
<1> QED  BY <1>9 DEF t

LEMMA JoinedEntries ==
  ASSUME NEW S, NEW left \in Seq(S), NEW right \in Seq(S)
  PROVE  /\ EntriesIn(left) \subseteq EntriesIn(left \o right)
         /\ EntriesIn(right) \subseteq EntriesIn(left \o right)
<1> DEFINE t == left \o right
           n == Len(left)
           m == Len(right)
<1>1. /\ n \in Nat /\ m \in Nat /\ Len(t) = n + m
      /\ \A k \in 1..n : t[k] = left[k]
      /\ \A k \in 1..m : t[n + k] = right[k]
  OBVIOUS
<1> HIDE DEF t, n, m
<1>2. /\ \A k \in 1..n : k \in 1..Len(t)
      /\ \A k \in 1..m : n + k \in 1..Len(t)
  BY <1>1
<1>3. ASSUME NEW k \in 1..n PROVE left[k] \in EntriesIn(t)
  BY <1>1, <1>2 DEF EntriesIn
<1>4. ASSUME NEW k \in 1..m PROVE right[k] \in EntriesIn(t)
  <2>1. n + k \in 1..Len(t) /\ t[n + k] = right[k]
    BY <1>1, <1>2
  <2> QED  BY <2>1 DEF EntriesIn
<1> QED  BY <1>3, <1>4 DEF EntriesIn, t, n, m

LEMMA KeepsOrder ==
  /\ \A f : Keeps(f, f)
  /\ \A f, g, h : Keeps(f, g) /\ Keeps(g, h) => Keeps(f, h)
  /\ \A f, g, op : Keeps(f, g) /\ Shows(f, op) => Shows(g, op)
BY DEF Keeps, Shows

\* An operation's effect adds its entry and removes none.
LEMMA EffectShows ==
  ASSUME NEW fields \in Fields, NEW op \in Operations
  PROVE  Keeps(fields, Effect(fields, op)) /\ Shows(Effect(fields, op), op)
<1>1. op.intent \in Entries /\ op.action \in Actions
  BY DEF Operations, Entries
<1>2. fields.notes \in Seq(Entries) /\ fields.evidence \in Seq(Entries)
  BY DEF Fields
<1>3. CASE op.action = "start"
  <2>1. /\ Effect(fields, op).notes = fields.notes
        /\ Effect(fields, op).evidence = fields.evidence
    BY <1>3 DEF Effect, Fields
  <2> QED  BY <1>3, <2>1 DEF Keeps, Shows
<1>4. CASE op.action = "comment"
  <2>1. /\ Effect(fields, op).notes = Append(fields.notes, op.intent)
        /\ Effect(fields, op).evidence = fields.evidence
    BY <1>4 DEF Effect, Fields
  <2>2. EntriesIn(Append(fields.notes, op.intent)) = EntriesIn(fields.notes) \union {op.intent}
    BY <1>1, <1>2, AppendedEntries
  <2> QED  BY <1>4, <2>1, <2>2 DEF Keeps, Shows
<1>5. CASE op.action = "add_evidence"
  <2>1. /\ Effect(fields, op).evidence = Append(fields.evidence, op.intent)
        /\ Effect(fields, op).notes = fields.notes
    BY <1>5 DEF Effect, Fields
  <2>2. EntriesIn(Append(fields.evidence, op.intent))
          = EntriesIn(fields.evidence) \union {op.intent}
    BY <1>1, <1>2, AppendedEntries
  <2> QED  BY <1>5, <2>1, <2>2 DEF Keeps, Shows
<1> QED  BY <1>1, <1>3, <1>4, <1>5 DEF Actions

\* What a merge takes from the server has what the copy showed: an entry that
\* only the device has makes the list a local change.
LEMMA MergeShows ==
  ASSUME NEW base \in Fields, NEW local \in Fields, NEW remote \in Fields,
         Keeps(base, remote), NEW op, Shows(local, op)
  PROVE  Shows(MergedFields(base, local, remote), op)
<1> DEFINE N == {"work", "notes", "evidence", "priority"}
           merged == MergedFields(base, local, remote)
<1>1. DOMAIN base = N /\ DOMAIN local = N /\ DOMAIN remote = N
  BY DEF Fields
<1>2. \A name \in N : Source(base, local, remote, name) \in {local, remote}
  BY DEF Source
<1>3. merged = [name \in N |-> Source(base, local, remote, name)[name]]
  BY <1>1, <1>2 DEF MergedFields, Names, HasField
<1>4. \A name \in N : merged[name] = local[name]
                        \/ (merged[name] = remote[name] /\ local[name] = base[name])
  BY <1>1, <1>3 DEF Source, SameField, HasField
<1>5. /\ merged.notes = local.notes
           \/ (merged.notes = remote.notes /\ local.notes = base.notes)
      /\ merged.evidence = local.evidence
           \/ (merged.evidence = remote.evidence /\ local.evidence = base.evidence)
  BY <1>4
<1> HIDE DEF merged
<1>6. Shows(merged, op)
  BY <1>5 DEF Shows, Keeps
<1> QED  BY <1>6 DEF merged

\* The version a step adds keeps the entries of the one before it, and shows
\* what its event executed.
Grows ==
  \E i \in Incidents, version \in Versions :
    /\ server' = [server EXCEPT ![i] = Append(@, version)]
    /\ Keeps(FieldsAt(i, Version(i)), version.fields)
    /\ version.event # NoOp => Shows(version.fields, version.event)

LEMMA OtherClientGrows ==
  ASSUME TypeInv, NEW i \in Incidents, NEW action \in External, OtherClient(i, action)
  PROVE  Grows
<1> DEFINE now == FieldsAt(i, Version(i))
<1>1. now \in Fields
  BY VersionType DEF TypeInv, NonEmpty
<1>2. PICK version \in Versions :
        server' = [server EXCEPT ![i] = Append(@, version)] /\ version.event = NoOp
  BY OtherClientAppends DEF TypeInv
<1> DEFINE Kept(fields) ==
             /\ fields.notes = now.notes \/ fields.notes = Append(now.notes, OtherEntry)
             /\ fields.evidence = now.evidence
<1>3. \E fields :
        /\ server' = [server EXCEPT ![i] = Append(@, [fields |-> fields, event |-> NoOp])]
        /\ fields.notes = now.notes \/ fields.notes = Append(now.notes, OtherEntry)
        /\ fields.evidence = now.evidence
  <2>1. \A status : Kept([now EXCEPT !.work.status = status])
    BY <1>1 DEF Fields
  <2>2. \A work : Kept([now EXCEPT !.work = work])
    BY <1>1 DEF Fields
  <2>3. \A p : Kept([now EXCEPT !.priority = p])
    BY <1>1 DEF Fields
  <2>4. Kept([now EXCEPT !.notes = Append(now.notes, OtherEntry)])
    BY <1>1 DEF Fields
  <2> HIDE DEF Kept
  <2>5. \E fields :
          /\ server' = [server EXCEPT ![i] = Append(@, [fields |-> fields, event |-> NoOp])]
          /\ Kept(fields)
    BY <2>1, <2>2, <2>3, <2>4 DEF OtherClient
  <2> QED  BY <2>5 DEF Kept
<1>4. PICK fields :
        /\ server' = [server EXCEPT ![i] = Append(@, [fields |-> fields, event |-> NoOp])]
        /\ fields.notes = now.notes \/ fields.notes = Append(now.notes, OtherEntry)
        /\ fields.evidence = now.evidence
  BY <1>3
<1>5. version = [fields |-> fields, event |-> NoOp]
  <2>1. server[i] \in Seq(Versions) /\ DOMAIN server = Incidents
    BY DEF TypeInv, TypeOK
  <2>2. Append(server[i], version) = Append(server[i], [fields |-> fields, event |-> NoOp])
    BY <1>2, <1>4, <2>1
  <2> QED  BY <2>1, <2>2
<1>6. Keeps(now, fields)
  <2>1. now.notes \in Seq(Entries) /\ OtherEntry \in Entries
    BY <1>1 DEF Fields, Entries
  <2>2. EntriesIn(Append(now.notes, OtherEntry)) = EntriesIn(now.notes) \union {OtherEntry}
    BY <2>1, AppendedEntries
  <2> HIDE DEF now
  <2> QED  BY <1>4, <2>2 DEF Keeps
<1> QED  BY <1>2, <1>5, <1>6 DEF Grows

LEMMA DeliveryGrows ==
  ASSUME TypeInv, NEW op \in posts, DeliverPost(op)
  PROVE  UNCHANGED server \/ Grows
<1> DEFINE i == op.incident
           now == FieldsAt(i, Version(i))
           version == [fields |-> Effect(now, op), event |-> op]
<1>1. op \in Operations /\ i \in Incidents
  BY DEF TypeInv, TypeOK, Operations
<1>2. now \in Fields
  BY <1>1, VersionType DEF TypeInv, NonEmpty
<1>3. /\ version \in Versions /\ version.fields = Effect(now, op) /\ version.event = op
  BY <1>1, <1>2, EffectType DEF Versions
<1>4. Keeps(now, Effect(now, op)) /\ Shows(Effect(now, op), op)
  BY <1>1, <1>2, EffectShows
<1>5. CASE Executes(op)
  <2>1. server' = [server EXCEPT ![i] = Append(@, version)]
    BY <1>5 DEF DeliverPost
  <2> HIDE DEF version
  <2> QED  BY <1>1, <1>3, <1>4, <2>1 DEF Grows
<1>6. CASE ~Executes(op)
  BY <1>6 DEF DeliverPost
<1> QED  BY <1>5, <1>6

LEMMA HistoryGrows ==
  ASSUME TypeInv, Next
  PROVE  UNCHANGED server \/ Grows
<1>1. CASE ServerStep
  BY <1>1, DeliveryGrows, OtherClientGrows DEF ServerStep
<1>2. CASE SessionStep \/ LocalStep \/ StartStep
  BY <1>2 DEF SessionStep, EndSession, BeginSession, Crash, LocalStep, Cache, Record,
     StartStep, StartCall, StartPrepare, StartRecord, StartSync, StartFails
<1>3. CASE SyncBegin \/ SyncStep \/ StorageFails \/ ReviewStep
  BY <1>3 DEF SyncBegin, StorageFails, SyncStep, SyncSkip, SyncPick, SyncRead, SyncReadFails,
     SyncConfirm, SyncAck, SyncPostFails, SyncEnd, SyncRejected, Stop,
     ReviewStep, Inspect, KeepRemote, Reformulate
<1> QED  BY <1>1, <1>2, <1>3 DEF Next

LEMMA EntriesStay ==
  ASSUME TypeInv, EntriesKept, Next
  PROVE  EntriesKept'
<1>1. CASE UNCHANGED server
  BY <1>1 DEF EntriesKept, FieldsAt, Version
<1>2. ASSUME NEW i \in Incidents, NEW version \in Versions,
             server' = [server EXCEPT ![i] = Append(@, version)],
             Keeps(FieldsAt(i, Version(i)), version.fields),
             version.event # NoOp => Shows(version.fields, version.event)
      PROVE  EntriesKept'
  <2> DEFINE n == Version(i)
  <2>1. server[i] \in Seq(Versions) /\ DOMAIN server = Incidents
    BY DEF TypeInv, TypeOK
  <2>2. /\ n \in Nat /\ n >= 1 /\ Version(i)' = n + 1 /\ server'[i][n + 1] = version
        /\ \A v \in 1..n : server'[i][v] = server[i][v]
    BY <1>2, <2>1 DEF Version, TypeInv, NonEmpty
  <2>3. \A j \in Incidents \ {i} : server'[j] = server[j]
    BY <1>2, <2>1
  <2>4. ASSUME NEW v \in 1..n PROVE Keeps(server[i][v].fields, version.fields)
    <3>1. n \in v..n /\ n = Version(i)
      BY <2>2
    <3>2. Keeps(FieldsAt(i, v), FieldsAt(i, n))
      BY <3>1 DEF EntriesKept
    <3> QED  BY <1>2, <3>2, KeepsOrder DEF FieldsAt
  <2>5. ASSUME NEW v \in 1..n + 1, NEW w \in v..n + 1
        PROVE  Keeps(server'[i][v].fields, server'[i][w].fields)
    <3>1. CASE w \in 1..n
      <4>1. v \in 1..n /\ w \in v..n
        BY <2>2, <3>1
      <4>2. Keeps(server[i][v].fields, server[i][w].fields)
        BY <4>1 DEF EntriesKept, FieldsAt
      <4> QED  BY <2>2, <3>1, <4>1, <4>2
    <3>2. CASE w = n + 1 /\ v \in 1..n
      BY <2>2, <2>4, <3>2
    <3>3. CASE w = n + 1 /\ v = n + 1
      BY <3>3, KeepsOrder
    <3> QED  BY <2>2, <3>1, <3>2, <3>3
  <2>6. ASSUME NEW v \in 1..n + 1, server'[i][v].event # NoOp
        PROVE  Shows(server'[i][v].fields, server'[i][v].event)
    <3>1. CASE v \in 1..n
      BY <2>2, <2>6, <3>1 DEF EntriesKept, FieldsAt
    <3>2. CASE v = n + 1
      BY <1>2, <2>2, <2>6, <3>2
    <3> QED  BY <2>2, <3>1, <3>2
  <2> HIDE DEF n
  <2>7. ASSUME NEW j \in Incidents PROVE
          \A v \in 1..Version(j)' :
            /\ \A w \in v..Version(j)' : Keeps(server'[j][v].fields, server'[j][w].fields)
            /\ server'[j][v].event # NoOp => Shows(server'[j][v].fields, server'[j][v].event)
    <3>1. CASE j = i
      BY <2>2, <2>5, <2>6, <3>1
    <3>2. CASE j # i
      BY <2>3, <3>2 DEF EntriesKept, FieldsAt, Version
    <3> QED  BY <3>1, <3>2
  <2> QED  BY <2>7 DEF EntriesKept, FieldsAt
<1> QED  BY <1>1, <1>2, HistoryGrows DEF Grows

-----------------------------------------------------------------------------
(* Copies. *)

\* A copy that no row is added over stays as it is while the server goes on.
LEMMA CopyStays ==
  ASSUME NEW i, NEW snap, NEW q, NEW ops, NEW s, CopyHolds(i, snap, q, ops, s),
         NEW q2, NEW ops2, NEW s2,
         \A op \in q2 : op.incident = i => op \in q,
         ops \subseteq ops2,
         Len(s[i]) \in Nat, Len(s2[i]) \in Nat, Len(s[i]) <= Len(s2[i]),
         \A v \in 1..Len(s[i]) : s2[i][v] = s[i][v]
  PROVE  CopyHolds(i, snap, q2, ops2, s2)
<1>1. BaseReal(i, snap, q2, s2)
  BY DEF CopyHolds, BaseReal
<1>2. Shown(i, snap, snap.local.fields, q2)
  BY DEF CopyHolds, Shown
<1>3. StatesRecorded(snap, ops2)
  BY DEF CopyHolds, StatesRecorded
<1> QED  BY <1>1, <1>2, <1>3 DEF CopyHolds

Copies == \A i \in Incidents : CopyHolds(i, snapshots[i], queue, recorded, server)

LEMMA ServerKeeps ==
  ASSUME TypeInv, Next
  PROVE  \A i \in Incidents :
           /\ Len(server[i]) \in Nat /\ Len(server'[i]) \in Nat
           /\ Len(server[i]) <= Len(server'[i])
           /\ \A v \in 1..Len(server[i]) : server'[i][v] = server[i][v]
BY ServerGrows DEF Version

LEMMA CopiesSame ==
  ASSUME TypeInv, Next, Copies, snapshots' = snapshots, queue' \subseteq queue,
         recorded \subseteq recorded'
  PROVE  Copies'
<1>1. ASSUME NEW i \in Incidents
      PROVE  CopyHolds(i, snapshots[i], queue', recorded', server')
  BY ServerKeeps, CopyStays DEF Copies
<1> QED  BY <1>1 DEF Copies

LEMMA CopiesSave ==
  ASSUME TypeInv, Next, Copies, NEW i \in Incidents, NEW snap,
         snapshots' = [snapshots EXCEPT ![i] = snap],
         \A op \in queue' : op.incident # i => op \in queue,
         recorded \subseteq recorded',
         CopyHolds(i, snap, queue', recorded', server')
  PROVE  Copies'
<1>1. DOMAIN snapshots = Incidents
  BY DEF TypeInv, TypeOK
<1>2. ASSUME NEW j \in Incidents
      PROVE  CopyHolds(j, snapshots'[j], queue', recorded', server')
  <2>1. CASE j = i
    BY <1>1, <2>1
  <2>2. CASE j # i
    <3>1. CopyHolds(j, snapshots[j], queue', recorded', server')
      BY <2>2, ServerKeeps, CopyStays DEF Copies
    <3> QED  BY <1>1, <2>2, <3>1
  <2> QED  BY <2>1, <2>2
<1> QED  BY <1>2 DEF Copies

\* A copy just taken from the server, with no row over it.
LEMMA FreshHolds ==
  ASSUME TypeInv, NEW i \in Incidents, NEW v \in 1..Version(i), PendingOn(i) = {},
         NEW actor, NEW confirmed
  PROVE  CopyHolds(i, Fresh(actor, RecordAt(i, v), confirmed), queue, recorded, server)
<1> DEFINE snap == Fresh(actor, RecordAt(i, v), confirmed)
<1>1. \A op \in queue : op.incident # i
  BY DEF PendingOn
<1>2. /\ snap.base = RecordAt(i, v) /\ snap.local = RecordAt(i, v)
      /\ \A id \in OpIds : snap.states[id] = "pending"
  BY DEF Fresh
<1>3. RecordAt(i, v).version = v /\ RecordAt(i, v).fields = server[i][v].fields
  BY DEF RecordAt, FieldsAt
<1> HIDE DEF snap
<1>4. CopyHolds(i, snap, queue, recorded, server)
  BY <1>1, <1>2, <1>3 DEF CopyHolds, BaseReal, Shown, StatesRecorded, Version
<1> QED  BY <1>4 DEF snap

LEMMA CacheCopies ==
  ASSUME TypeInv, Copies, Next, NEW i \in Incidents, NEW v \in 1..MaxVersion, Cache(i, v)
  PROVE  Copies'
<1> DEFINE confirmed == IF Own(i) THEN snapshots[i].confirmed ELSE {}
           snap == Fresh(session.actor, RecordAt(i, v), confirmed)
<1>1. /\ snapshots' = [snapshots EXCEPT ![i] = snap] /\ PendingOn(i) = {}
      /\ v \in 1..Version(i) /\ UNCHANGED <<queue, recorded, server>>
  BY DEF Cache, Blocked
<1> HIDE DEF confirmed
<1>2. CopyHolds(i, snap, queue, recorded, server)
  BY <1>1, FreshHolds
<1> HIDE DEF snap
<1> QED  BY <1>1, <1>2, CopiesSave

LEMMA StartPrepareCopies ==
  ASSUME TypeInv, Copies, Next, StartPrepare
  PROVE  Copies'
<1> DEFINE i == call.incident
           fresh == Fresh(session.actor, RecordAt(i, Version(i)), {})
<1>1. /\ i \in Incidents /\ UNCHANGED <<queue, recorded, server>>
  BY DEF StartPrepare, TypeInv, CallBelongs
<1>2. CASE Own(i)
  <2>1. snapshots' = [snapshots EXCEPT ![i] = snapshots[i]]
    BY <1>2 DEF StartPrepare
  <2>2. snapshots' = snapshots
    BY <1>1, <2>1 DEF TypeInv, TypeOK
  <2> QED  BY <1>1, <2>2, CopiesSame
<1>3. CASE ~Own(i)
  <2>1. snapshots' = [snapshots EXCEPT ![i] = fresh] /\ PendingOn(i) = {}
    BY <1>3 DEF StartPrepare, Blocked
  <2>2. Version(i) \in 1..Version(i)
    BY <1>1, VersionType DEF TypeInv, NonEmpty
  <2>3. CopyHolds(i, fresh, queue, recorded, server)
    BY <1>1, <2>1, <2>2, FreshHolds
  <2> HIDE DEF fresh, i
  <2> QED  BY <1>1, <2>1, <2>3, CopiesSave
<1> QED  BY <1>2, <1>3

\* A new intention: its entry is added to what the copy shows.
LEMMA RecordAsCopies ==
  ASSUME TypeInv, Copies, Next, SignedIn, UNCHANGED server,
         NEW i \in Incidents, NEW action \in Actions, NEW id \in OpIds,
         RecordAs(i, action, id)
  PROVE  Copies'
<1> DEFINE op == NewOperation(i, action, id)
           fields == snapshots[i].local.fields
           local == [snapshots[i].local EXCEPT !.fields = Effect(fields, op)]
           snap == [WithState(snapshots[i], id, "pending") EXCEPT !.local = local]
<1>1. /\ op \in Operations /\ op.id = id /\ op.incident = i
      /\ op.base = snapshots[i].base.version
  BY NewOperationType DEF NewOperation, TypeInv
<1>2. /\ snapshots[i] \in Snapshots /\ snapshots[i].local \in Records /\ fields \in Fields
      /\ snapshots[i].base.version \in Nat
  BY DEF TypeInv, TypeOK, Snapshots, Records
<1>3. /\ snapshots' = [snapshots EXCEPT ![i] = snap] /\ queue' = queue \union {op}
      /\ recorded' = recorded \union {op} /\ Commit(i, snap, op)
  BY DEF RecordAs, Commit
<1>4. \A o \in queue : o.id # id
  BY DEF RecordAs, CanRecord, KnownIds
<1>5. /\ snap.owner = snapshots[i].owner /\ snap.base = snapshots[i].base
      /\ snap.local = local /\ local.version = snapshots[i].local.version
      /\ local.fields = Effect(fields, op)
      /\ snap.states = [snapshots[i].states EXCEPT ![id] = "pending"]
  BY <1>2 DEF WithState, Snapshots, Records
<1>6. snapshots[i].owner # NoActor
  BY DEF RecordAs, CanRecord, Own, SignedIn
<1>7. /\ CopyHolds(i, snapshots[i], queue, recorded, server)
      /\ DOMAIN snapshots[i].states = OpIds
      /\ Keeps(fields, Effect(fields, op)) /\ Shows(Effect(fields, op), op)
  BY <1>1, <1>2, EffectShows DEF Copies, Snapshots
<1> HIDE DEF op, snap, local, fields
<1>8. /\ BaseReal(i, snapshots[i], queue, server)
      /\ Shown(i, snapshots[i], fields, queue) /\ StatesRecorded(snapshots[i], recorded)
  BY <1>7 DEF CopyHolds, fields
<1>9. BaseReal(i, snap, queue', server)
  BY <1>1, <1>2, <1>3, <1>5, <1>6, <1>8 DEF BaseReal
<1>10. Shown(i, snap, snap.local.fields, queue')
  <2>1. ASSUME NEW o \in queue, o.incident = i, Active(snap, o)
        PROVE  Shows(snap.local.fields, o)
    <3>1. o.id # id
      BY <1>4, <2>1
    <3>2. snap.states[o.id] = snapshots[i].states[o.id]
      BY <1>5, <3>1
    <3>3. Shows(fields, o)
      BY <1>8, <2>1, <3>2 DEF Shown, Active
    <3> QED  BY <1>5, <1>7, <3>3, KeepsOrder
  <2>2. Shows(snap.local.fields, op)
    BY <1>5, <1>7
  <2> QED  BY <1>3, <2>1, <2>2 DEF Shown
<1>11. StatesRecorded(snap, recorded')
  BY <1>3, <1>5, <1>7, <1>8 DEF StatesRecorded
<1>12. CopyHolds(i, snap, queue', recorded', server')
  BY <1>9, <1>10, <1>11 DEF CopyHolds
<1> QED  BY <1>1, <1>3, <1>12, CopiesSave

\* A decision on the active rows: none of them becomes active by it.
LEMMA DecisionCopies ==
  ASSUME TypeInv, Safe, Copies, Next, NEW i \in Incidents,
         Inspect(i) \/ \E expected \in 1..MaxVersion : KeepRemote(i, expected)
  PROVE  Copies'
<1>1. PICK state \in {"conflict", "reviewed"} :
        snapshots' = [snapshots EXCEPT ![i] = MarkActive(i, state)]
  BY DEF Inspect, KeepRemote
<1> DEFINE snap == MarkActive(i, state)
<1>2. UNCHANGED <<queue, recorded, server>>
  BY DEF Inspect, KeepRemote
<1>3. /\ snap.owner = snapshots[i].owner /\ snap.base = snapshots[i].base
      /\ snap.local = snapshots[i].local
      /\ \A id \in OpIds : snap.states[id] = IF \E op \in ActiveOn(i) : op.id = id
                                             THEN state ELSE snapshots[i].states[id]
  BY DEF MarkActive, TypeInv, TypeOK, Snapshots
<1>4. \A op \in queue : op.id \in OpIds /\ op \in recorded
  BY RecordedType DEF Safe, FromRecorded, TypeInv
<1> HIDE DEF snap
<1>5. CopyHolds(i, snapshots[i], queue, recorded, server)
  BY DEF Copies
<1>6. ASSUME NEW op \in queue, op.incident = i, Active(snap, op)
      PROVE  Active(snapshots[i], op)
  <2>1. CASE \E o \in ActiveOn(i) : o.id = op.id
    BY <2>1 DEF ActiveOn, PendingOn, Active
  <2>2. CASE ~\E o \in ActiveOn(i) : o.id = op.id
    BY <1>3, <1>4, <1>6, <2>2 DEF Active
  <2> QED  BY <2>1, <2>2
<1>7. BaseReal(i, snap, queue, server) /\ Shown(i, snap, snap.local.fields, queue)
  BY <1>3, <1>5, <1>6 DEF CopyHolds, BaseReal, Shown
<1>8. StatesRecorded(snap, recorded)
  <2>1. ASSUME NEW id \in OpIds, snap.states[id] # "pending"
        PROVE  \E op \in recorded : op.id = id
    <3>1. CASE \E o \in ActiveOn(i) : o.id = id
      BY <1>4, <3>1 DEF ActiveOn, PendingOn
    <3>2. CASE ~\E o \in ActiveOn(i) : o.id = id
      BY <1>3, <1>5, <2>1, <3>2 DEF CopyHolds, StatesRecorded
    <3> QED  BY <3>1, <3>2
  <2> QED  BY <2>1 DEF StatesRecorded
<1>9. CopyHolds(i, snap, queue', recorded', server')
  BY <1>2, <1>7, <1>8 DEF CopyHolds
<1> QED  BY <1>1, <1>2, <1>9, CopiesSave DEF snap

-----------------------------------------------------------------------------
(* The cycle. *)

Memory == MemoryHolds(job, snapshots, queue)

LEMMA MemoryNone ==
  ASSUME job'.phase \notin {"read", "post"}
  PROVE  Memory'
BY DEF Memory, MemoryHolds

\* The steps beside the cycle, which at most bring it an answer.
LEMMA MemorySame ==
  ASSUME TypeInv, Memory, UNCHANGED device,
         job' = job \/ job' = NoJob \/ \E reply : job' = [job EXCEPT !.reply = reply]
  PROVE  Memory'
<1>1. CASE job' = NoJob
  BY <1>1, MemoryNone DEF NoJob
<1>2. CASE job' # NoJob
  <2>1. /\ job'.phase = job.phase /\ job'.op = job.op /\ job'.actor = job.actor
        /\ job'.snap = job.snap /\ job'.seen = job.seen
    BY <1>2 DEF TypeInv, TypeOK, Jobs
  <2> QED  BY <2>1 DEF Memory, MemoryHolds, device
<1> QED  BY <1>1, <1>2

\* What the memory of a cycle says of its operation's incident.
LEMMA InMemory ==
  ASSUME TypeInv, Safe, Copies, Memory, job.phase \in {"read", "post"}
  PROVE  LET i == job.op.incident IN
         /\ i \in Incidents /\ job.op \in queue /\ job.op \in recorded /\ job.op.id \in OpIds
         /\ job.op \in Operations /\ job.snap \in Snapshots /\ snapshots[i] \in Snapshots
         /\ job.op.actor = job.actor /\ Active(snapshots[i], job.op)
         /\ job.snap.base = snapshots[i].base /\ job.snap.states = snapshots[i].states
         /\ job.snap.owner = snapshots[i].owner
         /\ job.snap.local.version = snapshots[i].local.version
         /\ Shown(i, job.snap, job.snap.local.fields, queue)
         /\ CopyHolds(i, snapshots[i], queue, recorded, server)
         /\ snapshots[i].owner # NoActor
         /\ snapshots[i].base.version \in 1..Version(i)
<1>1. /\ job.op.incident \in Incidents /\ job.op \in queue /\ job.op \in recorded
      /\ job.op.id \in OpIds /\ job.op \in Operations /\ job.snap \in Snapshots
  BY InProgress, JobOpType DEF TypeInv
<1>2. snapshots[job.op.incident].owner # NoActor
  BY <1>1, ActorAssumption DEF Safe, PendingBelongToOwner, Operations
<1>3. snapshots[job.op.incident] \in Snapshots
  BY <1>1 DEF TypeInv, TypeOK
<1> QED  BY <1>1, <1>2, <1>3 DEF Copies, Memory, MemoryHolds, CopyHolds, BaseReal, Version

\* The snapshot saved with an outcome is the one in memory.
LEMMA StopCopies ==
  ASSUME TypeInv, Safe, Copies, Memory, Next, job.phase \in {"read", "post"},
         NEW outcome \in OpStates, Stop(job.snap, outcome)
  PROVE  Copies' /\ Memory'
<1> DEFINE i == job.op.incident
           op == job.op
           snap == WithState(job.snap, op.id, outcome)
<1>1. /\ snapshots' = [snapshots EXCEPT ![i] = snap]
      /\ UNCHANGED <<queue, recorded, server>>
      /\ job'.phase = "next"
  BY DEF Stop, NoJob
<1>2. /\ i \in Incidents /\ op \in queue /\ op \in recorded /\ op.id \in OpIds
      /\ job.snap \in Snapshots /\ Active(snapshots[i], op)
      /\ job.snap.base = snapshots[i].base /\ job.snap.states = snapshots[i].states
      /\ job.snap.owner = snapshots[i].owner
      /\ job.snap.local.version = snapshots[i].local.version
      /\ Shown(i, job.snap, job.snap.local.fields, queue)
      /\ CopyHolds(i, snapshots[i], queue, recorded, server)
  BY InMemory
<1>3. /\ snap.owner = job.snap.owner /\ snap.base = job.snap.base
      /\ snap.local = job.snap.local
      /\ snap.states = [job.snap.states EXCEPT ![op.id] = outcome]
      /\ DOMAIN job.snap.states = OpIds
  BY <1>2 DEF WithState, Snapshots
<1> HIDE DEF snap, op
<1>4. BaseReal(i, snap, queue, server)
  BY <1>2, <1>3 DEF CopyHolds, BaseReal
<1>5. ASSUME NEW o \in queue, o.incident = i, Active(snap, o)
      PROVE  Shows(snap.local.fields, o)
  <2>1. CASE o.id = op.id
    <3>1. o = op
      BY <1>2, <2>1 DEF Safe, IdentitiesUnique
    <3>2. Active(job.snap, o)
      BY <1>2, <3>1 DEF Active
    <3> QED  BY <1>2, <1>3, <1>5, <3>2 DEF Shown
  <2>2. CASE o.id # op.id
    <3>1. Active(job.snap, o)
      BY <1>3, <1>5, <2>2 DEF Active
    <3> QED  BY <1>2, <1>3, <1>5, <3>1 DEF Shown
  <2> QED  BY <2>1, <2>2
<1>6. Shown(i, snap, snap.local.fields, queue)
  BY <1>5 DEF Shown
<1>7. StatesRecorded(snap, recorded)
  BY <1>2, <1>3 DEF CopyHolds, StatesRecorded
<1>8. CopyHolds(i, snap, queue', recorded', server')
  BY <1>1, <1>4, <1>6, <1>7 DEF CopyHolds
<1> HIDE DEF i
<1> QED  BY <1>1, <1>2, <1>8, CopiesSave, MemoryNone

LEMMA SyncReadCopies ==
  ASSUME TypeInv, Safe, EntriesKept, Copies, Memory, Next, SyncRead
  PROVE  Copies' /\ Memory'
<1> DEFINE op == job.op
           i == op.incident
           snap == job.snap
           seen == Version(i)
           remote == FieldsAt(i, seen)
           merged == IsMerged(snap.base.fields, snap.local.fields, remote)
           kept == IF merged THEN MergedFields(snap.base.fields, snap.local.fields, remote)
                   ELSE snap.local.fields
<1>1. job.phase = "read"
  BY DEF SyncRead
<1>2. CASE Stop(snap, "conflict")
  BY <1>1, <1>2, StopCopies DEF OpStates
<1>3. CASE ~Stop(snap, "conflict")
  <2>1. /\ job' = [job EXCEPT !.phase = "post", !.seen = seen, !.snap.local.fields = kept]
        /\ UNCHANGED <<device, server, recorded>>
    BY <1>3 DEF SyncRead
  <2>2. Copies'
    BY <2>1, CopiesSame DEF device
  <2>3. /\ i \in Incidents /\ snap \in Snapshots /\ op.actor = job.actor
        /\ Active(snapshots[i], op)
        /\ snap.base = snapshots[i].base /\ snap.states = snapshots[i].states
        /\ snap.owner = snapshots[i].owner
        /\ snap.local.version = snapshots[i].local.version
        /\ Shown(i, snap, snap.local.fields, queue)
        /\ CopyHolds(i, snapshots[i], queue, recorded, server)
        /\ snapshots[i].owner # NoActor /\ snapshots[i].base.version \in 1..seen
    BY <1>1, InMemory
  <2>4. /\ snap.base.fields \in Fields /\ snap.local.fields \in Fields
        /\ snap.local \in Records
    BY <2>3 DEF Snapshots, Records
  <2>5. seen \in Nat /\ seen >= 1 /\ remote \in Fields
    BY <2>3, VersionType DEF TypeInv, NonEmpty
  <2>6. Keeps(snap.base.fields, remote)
    <3> DEFINE v == snapshots[i].base.version
    <3>1. v \in 1..seen /\ seen \in v..seen
      BY <2>3, <2>5
    <3>2. snap.base.fields = FieldsAt(i, v)
      BY <2>3 DEF CopyHolds, BaseReal, FieldsAt
    <3> QED  BY <2>3, <3>1, <3>2 DEF EntriesKept
  <2>7. \A o : Shows(snap.local.fields, o) => Shows(kept, o)
    BY <2>4, <2>5, <2>6, MergeShows
  <2>8. /\ job'.phase = "post" /\ job'.op = op /\ job'.actor = job.actor /\ job'.seen = seen
        /\ job'.snap.base = snap.base /\ job'.snap.states = snap.states
        /\ job'.snap.owner = snap.owner /\ job'.snap.local.version = snap.local.version
        /\ job'.snap.local.fields = kept
    <3> HIDE DEF kept, seen
    <3> QED  BY <2>1, <2>3, <2>4 DEF TypeInv, TypeOK, Jobs, Snapshots, Records
  <2> HIDE DEF kept
  <2>9. Shown(i, job'.snap, kept, queue)
    BY <2>3, <2>7, <2>8 DEF Shown, Active
  <2>10. snapshots[i].base.version <= seen
    BY <2>3, <2>5
  <2> HIDE DEF seen
  <2>11. Memory'
    BY <2>1, <2>3, <2>8, <2>9, <2>10 DEF Memory, MemoryHolds, device
  <2> QED  BY <2>2, <2>11
<1> QED  BY <1>2, <1>3

LEMMA SyncPickCopies ==
  ASSUME TypeInv, Safe, Copies, Next, SyncPick
  PROVE  Copies' /\ Memory'
<1>1. PICK op \in Sendable :
        job' = [job EXCEPT !.phase = "read", !.todo = Rest, !.op = op,
                  !.processed = @ \union {op.id}, !.snap = snapshots[op.incident]]
  BY DEF SyncPick
<1>2. UNCHANGED <<device, server, recorded>>
  BY DEF SyncPick
<1>3. /\ op \in job.todo /\ op.id \notin job.processed /\ Active(snapshots[op.incident], op)
      /\ op \in Target
  BY TargetType DEF SyncPick, Sendable, TypeInv
<1>4. op \in recorded /\ op.incident \in Incidents
  BY <1>3, RecordedType DEF Safe, FromRecorded, TypeInv
<1>5. op.actor = job.actor
  BY <1>3 DEF Target, SyncPick, PassedOver
<1>6. /\ job'.phase = "read" /\ job'.op = op /\ job'.actor = job.actor
      /\ job'.snap = snapshots[op.incident]
  BY <1>1 DEF TypeInv, TypeOK, Jobs
<1>7. Shown(op.incident, snapshots[op.incident], snapshots[op.incident].local.fields, queue)
  BY <1>4 DEF Copies, CopyHolds
<1>8. Memory'
  BY <1>2, <1>3, <1>5, <1>6, <1>7 DEF Memory, MemoryHolds, device
<1>9. Copies'
  BY <1>2, CopiesSame DEF device
<1> QED  BY <1>8, <1>9

\* A copy replaced by the confirmed state: only the operation's own row can
\* still be active over it, and the state shows what it executed.
LEMMA SyncConfirmCopies ==
  ASSUME TypeInv, Safe, EntriesKept, Copies, Memory, Next, SyncConfirm
  PROVE  Copies' /\ Memory'
<1> DEFINE op == job.op
           i == op.incident
           rv == job.reply.version
           lv == Latest(job.seen, rv)
           latest == RecordAt(i, lv)
           receipt == [job.snap EXCEPT !.confirmed = AddConfirmed(@, op)]
           remaining == {o \in PendingOn(i) : o.id # op.id /\ Active(job.snap, o)}
           snap == IF remaining = {} THEN [receipt EXCEPT !.base = latest, !.local = latest]
                   ELSE receipt
<1>1. /\ snapshots' = [snapshots EXCEPT ![i] = snap]
      /\ UNCHANGED <<queue, recorded, server>>
      /\ job.phase = "post"
  BY DEF SyncConfirm
<1>2. job'.phase = "ack"
  BY DEF SyncConfirm, TypeInv, TypeOK, Jobs
<1>3. /\ i \in Incidents /\ op \in queue /\ job.snap \in Snapshots
      /\ job.snap.base = snapshots[i].base /\ job.snap.states = snapshots[i].states
      /\ job.snap.owner = snapshots[i].owner
      /\ job.snap.local.version = snapshots[i].local.version
      /\ Shown(i, job.snap, job.snap.local.fields, queue)
      /\ CopyHolds(i, snapshots[i], queue, recorded, server)
      /\ snapshots[i].owner # NoActor /\ snapshots[i].base.version \in 1..Version(i)
      /\ op \in Operations
  BY <1>1, InMemory
<1>4. /\ rv \in 1..Version(i) /\ server[i][rv].event # NoOp
      /\ Request(server[i][rv].event) = Request(op)
  BY <1>1, ReceiptIsExact DEF SyncConfirm
<1>5. /\ snapshots[i].base.version <= job.seen /\ job.seen \in 1..Version(i)
  BY <1>1 DEF Memory, MemoryHolds, TypeInv, ReadsExist
<1>6. /\ lv \in 1..Version(i) /\ lv \in rv..Version(i) /\ snapshots[i].base.version <= lv
  BY <1>3, <1>4, <1>5 DEF Latest
<1>7. Shows(latest.fields, op)
  <2> DEFINE e == server[i][rv].event
  <2>1. Shows(FieldsAt(i, rv), e) /\ Keeps(FieldsAt(i, rv), FieldsAt(i, lv))
    BY <1>3, <1>4, <1>6 DEF EntriesKept
  <2>2. e.action = op.action /\ (op.action # "start" => e.intent = op.intent)
    BY <1>4 DEF Request
  <2>3. Shows(FieldsAt(i, rv), op)
    BY <2>1, <2>2 DEF Shows
  <2> QED  BY <2>1, <2>3, KeepsOrder DEF RecordAt
<1>8. latest.version = lv /\ latest.fields = server[i][lv].fields
  BY DEF RecordAt, FieldsAt
<1>9. /\ receipt.owner = job.snap.owner /\ receipt.base = job.snap.base
      /\ receipt.local = job.snap.local /\ receipt.states = job.snap.states
      /\ receipt.confirmed = AddConfirmed(job.snap.confirmed, op)
  BY <1>3 DEF Snapshots
<1>10. DOMAIN receipt = DOMAIN job.snap
  OBVIOUS
<1> HIDE DEF latest, lv
<1>11. remaining = {} => /\ snap.owner = receipt.owner /\ snap.states = receipt.states
                         /\ snap.base = latest /\ snap.local = latest
  BY <1>3, <1>10 DEF Snapshots
<1> HIDE DEF receipt
<1>12. remaining # {} => snap = receipt
  OBVIOUS
<1> HIDE DEF snap
<1>13. snap.owner = snapshots[i].owner /\ snap.states = snapshots[i].states
  BY <1>3, <1>9, <1>11, <1>12
<1>14. BaseReal(i, snapshots[i], queue, server) /\ StatesRecorded(snapshots[i], recorded)
  BY <1>3 DEF CopyHolds
<1>15. ASSUME remaining = {}
       PROVE  BaseReal(i, snap, queue, server) /\ Shown(i, snap, snap.local.fields, queue)
  <2>1. BaseReal(i, snap, queue, server)
    <3>1. \A o \in queue : o.incident = i => o.base <= lv
      <4>1. ASSUME NEW o \in queue, o.incident = i PROVE o.base <= lv
        <5>1. o.base \in Nat /\ snapshots[i].base.version \in Nat /\ lv \in Nat
          BY <1>3, <1>6, <4>1 DEF TypeInv, TypeOK, Operations
        <5>2. o.base <= snapshots[i].base.version
          BY <1>3, <1>14, <4>1 DEF BaseReal
        <5> QED  BY <1>6, <5>1, <5>2
      <4> QED  BY <4>1
    <3> QED  BY <1>6, <1>8, <1>11, <1>15, <3>1 DEF BaseReal, Version
  <2>2. ASSUME NEW o \in queue, o.incident = i, Active(snap, o)
        PROVE  Shows(snap.local.fields, o)
    <3>1. o.id = op.id
      BY <1>3, <1>13, <1>15, <2>2 DEF PendingOn, Active
    <3>2. o = op
      BY <1>3, <3>1 DEF Safe, IdentitiesUnique
    <3> QED  BY <1>7, <1>11, <1>15, <3>2
  <2> QED  BY <2>1, <2>2 DEF Shown
<1>16. ASSUME remaining # {}
       PROVE  BaseReal(i, snap, queue, server) /\ Shown(i, snap, snap.local.fields, queue)
  <2>1. BaseReal(i, snap, queue, server)
    BY <1>3, <1>9, <1>12, <1>14, <1>16 DEF BaseReal
  <2>2. Shown(i, snap, snap.local.fields, queue)
    BY <1>3, <1>9, <1>12, <1>16 DEF Shown, Active
  <2> QED  BY <2>1, <2>2
<1>17. BaseReal(i, snap, queue, server) /\ Shown(i, snap, snap.local.fields, queue)
  BY <1>15, <1>16
<1>18. StatesRecorded(snap, recorded)
  BY <1>13, <1>14 DEF StatesRecorded
<1>19. CopyHolds(i, snap, queue', recorded', server')
  BY <1>1, <1>17, <1>18 DEF CopyHolds
<1> HIDE DEF i
<1> QED  BY <1>1, <1>2, <1>3, <1>19, CopiesSave, MemoryNone

\* The turns of a cycle that save no copy.
LEMMA SyncTurnCopies ==
  ASSUME TypeInv, Copies, Next,
         SyncBegin \/ SyncSkip \/ SyncAck \/ SyncEnd \/ SyncRejected \/ StorageFails
           \/ StartSync \/ Crash
  PROVE  Copies' /\ Memory'
<1>1. snapshots' = snapshots /\ queue' \subseteq queue /\ recorded' = recorded
  BY DEF SyncBegin, SyncSkip, SyncAck, SyncEnd, SyncRejected, StorageFails, StartSync, Crash,
     device
<1>2. job'.phase \notin {"read", "post"}
  <2>1. CASE SyncBegin \/ StartSync
    BY <2>1 DEF SyncBegin, StartSync, Begin, NoJob
  <2>2. CASE SyncSkip \/ SyncAck
    BY <2>2 DEF SyncSkip, SyncAck, TypeInv, TypeOK, Jobs
  <2>3. CASE SyncEnd \/ SyncRejected \/ StorageFails \/ Crash
    BY <2>3 DEF SyncEnd, SyncRejected, StorageFails, Crash, NoJob
  <2> QED  BY <2>1, <2>2, <2>3
<1> QED  BY <1>1, <1>2, CopiesSame, MemoryNone

-----------------------------------------------------------------------------
(* Reformulation. *)

\* The rows in order are all the rows.
LEMMA OrderIsComplete ==
  ASSUME NEW ops \in SUBSET Operations, IsFiniteSet(ops), NEW action,
         NEW order \in InRowOrder(ops, action), NEW op \in ops, op.action = action
  PROVE  op.intent \in EntriesIn(Intents(order))
<1> DEFINE chosen == {o \in ops : o.action = action}
           n == Cardinality(chosen)
<1>1. IsFiniteSet(chosen) /\ n \in Nat
  BY FS_Subset, FS_CardinalityType
<1>2. /\ order \in [1..n -> chosen]
      /\ \A j, k \in 1..n : j < k => order[j].row < order[k].row
  BY DEF InRowOrder
<1>3. \A o \in chosen : o.row \in Nat
  BY DEF Operations
<1> HIDE DEF n, chosen
<1>4. ASSUME NEW j \in 1..n, NEW k \in 1..n, order[j] = order[k]
      PROVE  j = k
  <2>1. order[j].row \in Nat /\ order[k].row = order[j].row
    BY <1>2, <1>3, <1>4
  <2>2. ~(j < k) /\ ~(k < j)
    BY <1>2, <2>1
  <2> QED  BY <1>1, <2>2
<1>5. order \in Injection(1..n, chosen)
  BY <1>2, <1>4 DEF Injection, IsInjective
<1>6. Cardinality(1..n) = n
  BY <1>1, FS_Interval
<1>7. order \in Surjection(1..n, chosen)
  BY <1>1, <1>5, <1>6, FS_Injection DEF n
<1>8. PICK k \in 1..n : order[k] = op
  BY <1>7 DEF Surjection, chosen
<1>9. Len(order) = n
  BY <1>1, <1>2
<1>10. k \in 1..Len(Intents(order)) /\ Intents(order)[k] = op.intent
  BY <1>1, <1>8, <1>9 DEF Intents
<1> QED  BY <1>10 DEF EntriesIn

\* The new copy shows the server's state, every other active intention of the
\* author, and the reformulated one.
LEMMA ReformulateCopies ==
  ASSUME TypeInv, Safe, Copies, Next, NEW original \in queue, NEW expected \in 1..MaxVersion,
         NEW id \in OpIds, Reformulate(original, expected, id)
  PROVE  Copies'
<1> DEFINE i == original.incident
           remote == RecordAt(i, Version(i))
           op == [original EXCEPT !.id = id, !.base = remote.version, !.row = nextRow]
           others == OthersOf(original)
           kept(notes, evidence) ==
             [remote.fields EXCEPT
                !.work.status = IF \E o \in others : o.action = "start" THEN "in_progress" ELSE @,
                !.notes = @ \o Intents(notes), !.evidence = @ \o Intents(evidence)]
           local(notes, evidence) ==
             [remote EXCEPT !.fields = Effect(kept(notes, evidence), op)]
           snap(notes, evidence) ==
             [WithState(snapshots[i], original.id, "superseded")
                EXCEPT !.replacement[original.id] = id,
                       !.base = remote, !.local = local(notes, evidence)]
<1>1. original \in Operations /\ i \in Incidents /\ original.id \in OpIds
  BY DEF TypeInv, TypeOK, Operations
<1>2. /\ remote \in Records /\ remote.fields \in Fields /\ Version(i) \in Nat /\ Version(i) >= 1
      /\ remote.version = Version(i) /\ remote.fields = server[i][Version(i)].fields
  BY <1>1, VersionType DEF TypeInv, NonEmpty, Records, RecordAt, FieldsAt
<1>3. /\ op \in Operations /\ op.id = id /\ op.incident = i /\ op.base = Version(i)
  <2>1. nextRow \in Nat /\ remote.version \in Nat
    BY <1>2 DEF TypeInv, TypeOK
  <2> HIDE DEF remote
  <2> QED  BY <1>1, <1>2, <2>1 DEF Operations
<1>4. others \subseteq Operations /\ IsFiniteSet(others)
  <2>1. others \subseteq queue
    BY DEF OthersOf, ActiveOn, PendingOn
  <2> QED  BY <2>1, FS_Subset DEF TypeInv, TypeOK
<1>5. PICK notes \in InRowOrder(others, "comment"), evidence \in InRowOrder(others, "add_evidence") :
        Commit(i, snap(notes, evidence), op)
  BY DEF Reformulate
<1> DEFINE fields == kept(notes, evidence)
           copy == snap(notes, evidence)
<1>6. /\ Own(i) /\ original.actor = session.actor /\ SignedIn /\ id \in NewIds
      /\ UNCHANGED server
  BY DEF Reformulate, May
<1>7. \A o \in recorded : o.id # id
  BY <1>6 DEF NewIds
<1>8. /\ fields \in Fields
      /\ fields.notes = remote.fields.notes \o Intents(notes)
      /\ fields.evidence = remote.fields.evidence \o Intents(evidence)
      /\ Intents(notes) \in Seq(Entries) /\ Intents(evidence) \in Seq(Entries)
      /\ remote.fields.notes \in Seq(Entries) /\ remote.fields.evidence \in Seq(Entries)
  <2> DEFINE status == IF \E o \in others : o.action = "start" THEN "in_progress"
                       ELSE remote.fields.work.status
  <2>1. Intents(notes) \in Seq(Entries) /\ Intents(evidence) \in Seq(Entries)
    BY <1>4, IntentsType
  <2>2. remote.fields.notes \in Seq(Entries) /\ remote.fields.evidence \in Seq(Entries)
    BY <1>2 DEF Fields
  <2>3. /\ remote.fields.notes \o Intents(notes) \in Seq(Entries)
        /\ remote.fields.evidence \o Intents(evidence) \in Seq(Entries)
    <3> HIDE DEF remote
    <3> QED  BY <2>1, <2>2
  <2>4. [remote.fields.work EXCEPT !.status = status] \in Works
    BY <1>2 DEF Fields, Works, Statuses
  <2>5. fields = [remote.fields EXCEPT
                    !.work = [remote.fields.work EXCEPT !.status = status],
                    !.notes = remote.fields.notes \o Intents(notes),
                    !.evidence = remote.fields.evidence \o Intents(evidence)]
    BY <1>2 DEF Fields
  <2> HIDE DEF status, remote, kept, others, fields
  <2> QED  BY <1>2, <2>1, <2>2, <2>3, <2>4, <2>5 DEF Fields
<1>9. Keeps(fields, Effect(fields, op)) /\ Shows(Effect(fields, op), op)
  <2> HIDE DEF fields, op
  <2> QED  BY <1>3, <1>8, EffectShows
<1>10. ASSUME NEW o \in others PROVE Shows(fields, o)
  <2>1. CASE o.action = "comment"
    <3>1. o.intent \in EntriesIn(Intents(notes))
      BY <1>4, <2>1, OrderIsComplete
    <3>2. EntriesIn(Intents(notes)) \subseteq EntriesIn(remote.fields.notes \o Intents(notes))
      BY <1>8, JoinedEntries
    <3> HIDE DEF fields
    <3> QED  BY <1>8, <2>1, <3>1, <3>2 DEF Shows
  <2>2. CASE o.action = "add_evidence"
    <3>1. o.intent \in EntriesIn(Intents(evidence))
      BY <1>4, <2>2, OrderIsComplete
    <3>2. EntriesIn(Intents(evidence))
            \subseteq EntriesIn(remote.fields.evidence \o Intents(evidence))
      BY <1>8, JoinedEntries
    <3> HIDE DEF fields
    <3> QED  BY <1>8, <2>2, <3>1, <3>2 DEF Shows
  <2> QED  BY <2>1, <2>2 DEF Shows
<1>11. /\ snapshots[i] \in Snapshots /\ CopyHolds(i, snapshots[i], queue, recorded, server)
       /\ DOMAIN snapshots[i].states = OpIds
  BY <1>1 DEF TypeInv, TypeOK, Copies, Snapshots
<1>12. /\ copy.owner = snapshots[i].owner /\ copy.base = remote
       /\ copy.local = local(notes, evidence)
       /\ copy.states = [snapshots[i].states EXCEPT ![original.id] = "superseded"]
  <2> HIDE DEF local, remote
  <2> QED  BY <1>1, <1>11 DEF WithState, Snapshots
<1>13. /\ copy.local.version = Version(i) /\ copy.local.fields = Effect(fields, op)
  <2> HIDE DEF remote, kept, op, fields
  <2>1. local(notes, evidence) = [remote EXCEPT !.fields = Effect(fields, op)]
    BY DEF fields
  <2> HIDE DEF local, copy
  <2> QED  BY <1>2, <1>12, <2>1 DEF Records
<1>14. /\ snapshots' = [snapshots EXCEPT ![i] = copy] /\ queue' = queue \union {op}
       /\ recorded' = recorded \union {op}
  BY <1>5 DEF Commit
<1> HIDE DEF copy, fields, local, kept, snap, op, remote
<1>15. BaseReal(i, copy, queue', server)
  <2>1. snapshots[i].owner # NoActor
    BY <1>6 DEF Own, SignedIn
  <2>2. ASSUME NEW o \in queue', o.incident = i PROVE o.base <= Version(i)
    <3>1. CASE o \in queue
      <4>1. /\ o.base <= snapshots[i].base.version
            /\ snapshots[i].base.version \in 1..Version(i)
        BY <1>11, <2>1, <2>2, <3>1 DEF CopyHolds, BaseReal, Version
      <4>2. o.base \in Nat
        BY <3>1 DEF TypeInv, TypeOK, Operations
      <4> QED  BY <1>2, <4>1, <4>2
    <3>2. CASE o = op
      BY <1>2, <1>3, <3>2
    <3> QED  BY <1>14, <2>2, <3>1, <3>2
  <2> QED  BY <1>2, <1>12, <1>13, <2>2 DEF BaseReal, Version
<1>16. Shown(i, copy, copy.local.fields, queue')
  <2>1. ASSUME NEW o \in queue, o.incident = i, Active(copy, o)
        PROVE  o \in others
    <3>1. o.id # original.id
      BY <1>1, <1>11, <1>12, <2>1 DEF Active, Archived
    <3>2. Active(snapshots[i], o)
      BY <1>12, <2>1, <3>1 DEF Active
    <3>3. o.actor = session.actor
      BY <1>6, <2>1 DEF Safe, PendingBelongToOwner, Own
    <3> QED  BY <2>1, <3>1, <3>2, <3>3 DEF OthersOf, ActiveOn, PendingOn
  <2>2. ASSUME NEW o \in queue, o.incident = i, Active(copy, o)
        PROVE  Shows(copy.local.fields, o)
    <3> HIDE DEF others
    <3>1. Shows(fields, o)
      BY <1>10, <2>1, <2>2
    <3> QED  BY <1>9, <1>13, <3>1, KeepsOrder
  <2>3. Shows(copy.local.fields, op)
    BY <1>9, <1>13
  <2> QED  BY <1>14, <2>2, <2>3 DEF Shown
<1>17. StatesRecorded(copy, recorded')
  <2>1. original \in recorded
    BY DEF Safe, FromRecorded
  <2> QED  BY <1>11, <1>12, <1>14, <2>1 DEF CopyHolds, StatesRecorded
<1>18. CopyHolds(i, copy, queue', recorded', server')
  BY <1>6, <1>15, <1>16, <1>17 DEF CopyHolds
<1> HIDE DEF i, others
<1> QED  BY <1>1, <1>3, <1>14, <1>18, CopiesSave

-----------------------------------------------------------------------------
(* The invariant. *)

LEMMA CopyInvInit == Init => CopyInv
<1> SUFFICES ASSUME Init PROVE CopyInv
  OBVIOUS
<1> USE DEF Init
<1>1. ASSUME NEW i \in Incidents
      PROVE  Version(i) = 1 /\ server[i][1].event = NoOp
  BY DEF Version
<1>2. ASSUME NEW i \in Incidents, NEW v \in 1..Version(i)
      PROVE  /\ \A w \in v..Version(i) : Keeps(FieldsAt(i, v), FieldsAt(i, w))
             /\ server[i][v].event # NoOp => Shows(FieldsAt(i, v), server[i][v].event)
  <2>1. v = 1 /\ \A w \in v..Version(i) : w = v
    BY <1>1, <1>2
  <2> QED  BY <1>1, <2>1, KeepsOrder
<1>3. EntriesKept
  BY <1>2 DEF EntriesKept
<1>4. ASSUME NEW i \in Incidents
      PROVE  CopyHolds(i, snapshots[i], queue, recorded, server)
  <2>1. snapshots[i].owner = NoActor /\ \A id \in OpIds : snapshots[i].states[id] = "pending"
    BY DEF NoSnapshot, Fresh
  <2> QED  BY <2>1 DEF CopyHolds, BaseReal, Shown, StatesRecorded
<1>5. MemoryHolds(job, snapshots, queue)
  BY DEF MemoryHolds, NoJob
<1> QED  BY <1>3, <1>4, <1>5 DEF CopyInv

LEMMA CopyInvStep == TypeInv /\ Safe /\ CopyInv /\ Next => CopyInv'
<1> SUFFICES ASSUME TypeInv, Safe, EntriesKept, Copies, Memory, Next
             PROVE  Copies' /\ Memory'
  <2>1. CopyInv <=> EntriesKept /\ Copies /\ Memory
    BY DEF CopyInv, Copies, Memory
  <2>2. CopyInv' <=> EntriesKept' /\ Copies' /\ Memory'
    BY DEF CopyInv, Copies, Memory
  <2> QED  BY <2>1, <2>2, EntriesStay
<1>1. ASSUME UNCHANGED <<device, recorded>>,
             job' = job \/ \E reply : job' = [job EXCEPT !.reply = reply]
      PROVE  Copies' /\ Memory'
  BY <1>1, CopiesSame, MemorySame DEF device
<1>2. ASSUME Copies', Idle, UNCHANGED job
      PROVE  Copies' /\ Memory'
  BY <1>2, MemoryNone DEF Idle
<1>3. CASE SessionStep
  BY <1>1, <1>3, SyncTurnCopies DEF SessionStep, EndSession, BeginSession
<1>4. CASE ServerStep
  BY <1>1, <1>4 DEF ServerStep, DeliverPost, OtherClient
<1>5. CASE LocalStep
  <2>1. ASSUME NEW i \in Incidents, NEW v \in 1..MaxVersion, Cache(i, v)
        PROVE  Copies' /\ Memory'
    BY <1>2, <2>1, CacheCopies DEF Cache, May
  <2>2. ASSUME NEW i \in Incidents, NEW action \in Recordable, NEW id \in OpIds,
               Record(i, action, id)
        PROVE  Copies' /\ Memory'
    <3>1. SignedIn /\ Idle /\ action \in Actions /\ UNCHANGED <<job, server>>
      BY <2>2, ChoiceAssumption DEF Record, May, Actions
    <3>2. Copies'
      BY <2>2, <3>1, RecordAsCopies DEF Record
    <3> QED  BY <1>2, <3>1, <3>2
  <2> QED  BY <1>5, <2>1, <2>2 DEF LocalStep
<1>6. CASE StartStep
  <2>1. CASE StartRecord
    <3>1. /\ call.incident \in Incidents /\ call.id \in OpIds /\ "start" \in Actions
          /\ SignedIn /\ Idle /\ UNCHANGED <<job, server>>
      BY <2>1 DEF StartRecord, TypeInv, CallBelongs, Actions
    <3>2. Copies'
      BY <2>1, <3>1, RecordAsCopies DEF StartRecord
    <3> QED  BY <1>2, <3>1, <3>2
  <2>2. CASE StartPrepare
    BY <1>2, <2>2, StartPrepareCopies DEF StartPrepare
  <2>3. CASE StartFails \/ \E i \in Incidents, expected \in 1..MaxVersion, id \in OpIds :
                             StartCall(i, expected, id)
    BY <1>1, <2>3 DEF StartFails, StartCall
  <2> QED  BY <1>6, <2>1, <2>2, <2>3, SyncTurnCopies DEF StartStep
<1>7. CASE SyncBegin \/ StorageFails
  BY <1>7, SyncTurnCopies
<1>8. CASE SyncStep
  <2>1. ASSUME SyncReadFails \/ SyncPostFails
        PROVE  Copies' /\ Memory'
    <3>1. PICK outcome \in {"retry", "forbidden", "conflict"} : Stop(job.snap, outcome)
      BY <2>1 DEF SyncReadFails, SyncPostFails
    <3>2. job.phase \in {"read", "post"} /\ outcome \in OpStates
      BY <2>1 DEF SyncReadFails, SyncPostFails, OpStates
    <3> QED  BY <3>1, <3>2, StopCopies
  <2> QED  BY <1>8, <2>1, SyncPickCopies, SyncReadCopies, SyncConfirmCopies, SyncTurnCopies
       DEF SyncStep
<1>9. CASE ReviewStep
  <2>1. Idle /\ UNCHANGED job
    BY <1>9 DEF ReviewStep, Inspect, KeepRemote, Reformulate, May
  <2>2. Copies'
    BY <1>9, DecisionCopies, ReformulateCopies DEF ReviewStep
  <2> QED  BY <1>2, <2>1, <2>2
<1> QED  BY <1>3, <1>4, <1>5, <1>6, <1>7, <1>8, <1>9 DEF Next

\* The inductive invariant of copies, with that of operations.
THEOREM CopiesInductive == Spec => [](TypeInv /\ Safe /\ CopyInv)
<1>1. IndInv <=> TypeInv /\ Safe
  BY IndInvParts
<1>2. CopyInv /\ UNCHANGED vars => CopyInv'
  <2> SUFFICES ASSUME CopyInv, UNCHANGED vars PROVE CopyInv'
    OBVIOUS
  <2>1. /\ job' = job /\ snapshots' = snapshots /\ queue' = queue /\ recorded' = recorded
        /\ server' = server
    BY DEF vars, device
  <2> QED  BY <2>1 DEF CopyInv, EntriesKept, FieldsAt, Version
<1>3. TypeInv /\ Safe /\ CopyInv /\ [Next]_vars => CopyInv'
  BY <1>2, CopyInvStep
<1> QED  BY <1>1, <1>3, CopyInvInit, Inductive, PTL DEF Spec

\* The base of every copy is a state the server really had, the local record
\* carries its version, and no row is based on a later one: what cache, start,
\* merge, confirmation and reformulation write, for any number of clients.
THEOREM CopiesAreCoherent == Spec => []CopiesCoherent
<1>1. TypeInv /\ CopyInv => CopiesCoherent
  <2> SUFFICES ASSUME TypeInv, CopyInv, NEW i \in Incidents, snapshots[i].owner # NoActor
               PROVE  /\ snapshots[i].base.version \in 1..Version(i)
                      /\ snapshots[i].base = RecordAt(i, snapshots[i].base.version)
                      /\ snapshots[i].local.version = snapshots[i].base.version
                      /\ \A op \in PendingOn(i) : op.base <= snapshots[i].base.version
    BY DEF CopiesCoherent
  <2>1. BaseReal(i, snapshots[i], queue, server)
    BY DEF CopyInv, CopyHolds
  <2>2. snapshots[i].base \in Records
    BY DEF TypeInv, TypeOK, Snapshots
  <2>3. snapshots[i].base = [version |-> snapshots[i].base.version,
                             fields |-> snapshots[i].base.fields]
    BY <2>2 DEF Records
  <2> QED  BY <2>1, <2>3 DEF BaseReal, Version, RecordAt, FieldsAt, PendingOn
<1> QED  BY <1>1, CopiesInductive, PTL

\* The note or photo of every intention still to be decided is in the local
\* record, through merges, outcomes, receipts, decisions and reformulations.
THEOREM ActiveAreShown == Spec => []ActiveEntriesShown
<1>1. CopyInv => ActiveEntriesShown
  <2> SUFFICES ASSUME CopyInv, NEW i \in Incidents, NEW op \in ActiveOn(i)
               PROVE  Shows(snapshots[i].local.fields, op)
    BY DEF ActiveEntriesShown, Shows, EntriesIn
  <2> QED  BY DEF CopyInv, CopyHolds, Shown, ActiveOn, PendingOn
<1> QED  BY <1>1, CopiesInductive, PTL

-----------------------------------------------------------------------------
(* Decisions: how the states of rows move.                                 *)

RowState(copies, op) == copies[op.incident].states[op.id]

\* Why a cycle or a review may set an operation to "conflict".
Refused(op) ==
  \/ MalformedBodies
  \/ op.base < Version(op.incident)
  \/ /\ op = job.op /\ job.phase = "post"
     /\ \/ job.reply.outcome = "conflict"
        \/ job.reply.outcome = "ok" /\ ~Confirms(op, job.reply)

\* Only a row still to be decided changes its state.  It is superseded only from
\* a conflict, unless its server has it, by a row of its intention that waits.
Moves(op) ==
  RowState(snapshots', op) # RowState(snapshots, op) =>
    /\ RowState(snapshots, op) \notin Archived
    /\ RowState(snapshots', op) = "conflict" => Refused(op)
    /\ RowState(snapshots', op) = "superseded" =>
         /\ RowState(snapshots, op) = "conflict"
         /\ ~AlreadyExecuted(op, Version(op.incident))
         /\ \E r \in queue' : /\ r.intent = op.intent
                              /\ RowState(snapshots', r) = "pending"
StatesMove == \A op \in queue \intersect queue' : Moves(op)
\* A row enters the queue to be sent.
NewRowsWait ==
  \A op \in recorded' \ recorded : op \in queue' /\ RowState(snapshots', op) = "pending"

\* A copy that does not merge is behind the server, and so are its rows.
LEMMA UnmergedIsBehind ==
  ASSUME TypeInv, NEW i \in Incidents, CopyHolds(i, snapshots[i], queue, recorded, server),
         snapshots[i].owner # NoActor, NEW local,
         ~IsMerged(snapshots[i].base.fields, local, FieldsAt(i, Version(i)))
  PROVE  \A op \in queue : op.incident = i => op.base < Version(i)
<1> DEFINE v == snapshots[i].base.version
           base == snapshots[i].base.fields
<1>1. /\ v \in 1..Version(i) /\ base = FieldsAt(i, v)
      /\ \A op \in queue : op.incident = i => op.base <= v
  BY DEF CopyHolds, BaseReal, Version, FieldsAt
<1>2. IsMerged(base, local, base)
  BY DEF IsMerged, Conflicts, FieldConflicts, SameField, Names
<1>3. v # Version(i)
  BY <1>1, <1>2
<1>4. \A op \in queue : op.base \in Nat
  BY DEF TypeInv, TypeOK, Operations
<1>5. Version(i) \in Nat
  BY DEF TypeInv, TypeOK, Version
<1> QED  BY <1>1, <1>3, <1>4, <1>5

\* A step that leaves the copies, or saves one with the states it had, or one
\* of an incident without rows.
LEMMA QuietMoves ==
  ASSUME TypeInv, UNCHANGED recorded,
         \/ UNCHANGED snapshots
         \/ \E i \in Incidents : \E snap :
              /\ snapshots' = [snapshots EXCEPT ![i] = snap]
              /\ snap.states = snapshots[i].states \/ PendingOn(i) = {}
  PROVE  StatesMove /\ NewRowsWait
<1>1. CASE UNCHANGED snapshots
  BY <1>1 DEF StatesMove, NewRowsWait, Moves, RowState
<1>2. ASSUME NEW i \in Incidents, NEW snap, snapshots' = [snapshots EXCEPT ![i] = snap],
             snap.states = snapshots[i].states \/ PendingOn(i) = {}
      PROVE  StatesMove /\ NewRowsWait
  <2>1. \A j : snapshots'[j].states # snapshots[j].states => j = i
    BY <1>2 DEF TypeInv, TypeOK
  <2>2. \A op \in queue : RowState(snapshots', op) = RowState(snapshots, op)
    BY <1>2, <2>1 DEF RowState, PendingOn, TypeInv, TypeOK
  <2> QED  BY <2>2 DEF StatesMove, NewRowsWait, Moves
<1> QED  BY <1>1, <1>2

\* One identity of an incident's copy gets a state.
MovesOne(i, id, state) ==
  /\ \A op \in queue : RowState(snapshots', op) # RowState(snapshots, op) =>
                         op.incident = i /\ op.id = id
  /\ \A op : op.incident = i /\ op.id = id => RowState(snapshots', op) = state

LEMMA OneStateMoves ==
  ASSUME TypeInv, NEW i \in Incidents, NEW snap, NEW id \in OpIds, NEW state,
         snapshots' = [snapshots EXCEPT ![i] = snap],
         snap.states = [snapshots[i].states EXCEPT ![id] = state]
  PROVE  MovesOne(i, id, state)
<1>1. /\ snapshots'[i] = snap
      /\ \A j \in Incidents \ {i} : snapshots'[j] = snapshots[j]
      /\ DOMAIN snapshots[i].states = OpIds
  BY DEF TypeInv, TypeOK, Snapshots
<1>2. \A op \in queue : op.incident \in Incidents /\ op.id \in OpIds
  BY DEF TypeInv, TypeOK, Operations
<1> QED  BY <1>1, <1>2 DEF MovesOne, RowState

LEMMA StopMoves ==
  ASSUME TypeInv, Safe, Copies, Memory, job.phase \in {"read", "post"},
         NEW outcome \in {"retry", "forbidden", "conflict"}, Stop(job.snap, outcome),
         outcome = "conflict" => Refused(job.op)
  PROVE  StatesMove /\ NewRowsWait
<1> DEFINE i == job.op.incident
           snap == WithState(job.snap, job.op.id, outcome)
<1>1. /\ i \in Incidents /\ job.op.id \in OpIds /\ job.op \in queue
      /\ job.snap \in Snapshots /\ Active(snapshots[i], job.op)
      /\ job.snap.states = snapshots[i].states
  BY InMemory
<1>2. snap.states = [snapshots[i].states EXCEPT ![job.op.id] = outcome]
  BY <1>1 DEF WithState, Snapshots
<1>3. snapshots' = [snapshots EXCEPT ![i] = snap] /\ UNCHANGED recorded
  BY DEF Stop
<1> HIDE DEF snap
<1>4. MovesOne(i, job.op.id, outcome)
  BY <1>1, <1>2, <1>3, OneStateMoves
<1>5. RowState(snapshots, job.op) \notin Archived
  BY <1>1 DEF RowState, Active
<1>6. \A op \in queue : RowState(snapshots', op) # RowState(snapshots, op) =>
                          op = job.op /\ RowState(snapshots', op) = outcome
  BY <1>1, <1>4 DEF MovesOne, Safe, IdentitiesUnique
<1> QED  BY <1>3, <1>5, <1>6 DEF StatesMove, NewRowsWait, Moves

LEMMA RecordAsMoves ==
  ASSUME TypeInv, NEW i \in Incidents, NEW action \in Actions, NEW id \in OpIds,
         RecordAs(i, action, id)
  PROVE  StatesMove /\ NewRowsWait
<1> DEFINE op == NewOperation(i, action, id)
           local == [snapshots[i].local EXCEPT !.fields = Effect(@, op)]
           snap == [WithState(snapshots[i], id, "pending") EXCEPT !.local = local]
<1>1. /\ snapshots' = [snapshots EXCEPT ![i] = snap] /\ queue' = queue \union {op}
      /\ recorded' = recorded \union {op} /\ op.id = id /\ op.incident = i
      /\ \A o \in queue : o.id # id
  BY DEF RecordAs, Commit, CanRecord, KnownIds, NewOperation
<1>2. snapshots[i] \in Snapshots
  BY DEF TypeInv, TypeOK
<1>3. snap.states = [snapshots[i].states EXCEPT ![id] = "pending"]
  BY <1>2 DEF WithState, Snapshots
<1> HIDE DEF snap, op
<1>4. MovesOne(i, id, "pending")
  BY <1>1, <1>3, OneStateMoves
<1> QED  BY <1>1, <1>4 DEF StatesMove, NewRowsWait, Moves, MovesOne

LEMMA DecisionMoves ==
  ASSUME TypeInv, Safe, Copies, NEW i \in Incidents,
         Inspect(i) \/ \E expected \in 1..MaxVersion : KeepRemote(i, expected)
  PROVE  StatesMove /\ NewRowsWait
<1>1. PICK state \in {"conflict", "reviewed"} :
        /\ snapshots' = [snapshots EXCEPT ![i] = MarkActive(i, state)]
        /\ state = "conflict" => Inspect(i)
  BY DEF Inspect, KeepRemote
<1>2. UNCHANGED <<queue, recorded>> /\ snapshots[i] \in Snapshots
  BY DEF Inspect, KeepRemote, TypeInv, TypeOK
<1>3. \A id \in OpIds : snapshots'[i].states[id] =
        IF \E op \in ActiveOn(i) : op.id = id THEN state ELSE snapshots[i].states[id]
  BY <1>1, <1>2 DEF MarkActive, Snapshots, TypeInv, TypeOK
<1>4. \A j \in Incidents \ {i} : snapshots'[j] = snapshots[j]
  BY <1>1 DEF TypeInv, TypeOK
<1>5. ASSUME NEW op \in queue, RowState(snapshots', op) # RowState(snapshots, op)
      PROVE  /\ RowState(snapshots, op) \notin Archived /\ RowState(snapshots', op) = state
             /\ op.incident = i
  <2>1. op.incident \in Incidents /\ op.id \in OpIds
    BY DEF TypeInv, TypeOK, Operations
  <2>2. op.incident = i
    BY <1>4, <1>5, <2>1 DEF RowState
  <2>3. PICK o \in ActiveOn(i) : o.id = op.id
    BY <1>3, <1>5, <2>1, <2>2 DEF RowState
  <2> QED  BY <1>3, <2>1, <2>2, <2>3 DEF RowState, ActiveOn, Active
<1>6. Inspect(i) => \A op \in queue : op.incident = i => op.base < Version(i)
  BY UnmergedIsBehind DEF Inspect, MayReview, Copies
<1> QED  BY <1>1, <1>2, <1>5, <1>6 DEF StatesMove, NewRowsWait, Moves, Refused

LEMMA ReformulateMoves ==
  ASSUME TypeInv, Safe, Copies, NEW original \in queue, NEW expected \in 1..MaxVersion,
         NEW id \in OpIds, Reformulate(original, expected, id)
  PROVE  StatesMove /\ NewRowsWait
<1> DEFINE i == original.incident
           remote == RecordAt(i, Version(i))
           new == [original EXCEPT !.id = id, !.base = remote.version, !.row = nextRow]
<1>1. original \in Operations /\ i \in Incidents /\ original.id \in OpIds
  BY DEF TypeInv, TypeOK, Operations
<1>2. new.id = id /\ new.incident = i /\ new.intent = original.intent
  BY <1>1 DEF Operations
<1> HIDE DEF new
<1>3. PICK local :
        Commit(i, [WithState(snapshots[i], original.id, "superseded")
                     EXCEPT !.replacement[original.id] = id,
                            !.base = remote, !.local = local], new)
  BY DEF Reformulate, new
<1> DEFINE snap == [WithState(snapshots[i], original.id, "superseded")
                      EXCEPT !.replacement[original.id] = id,
                             !.base = remote, !.local = local]
<1>4. /\ snapshots' = [snapshots EXCEPT ![i] = snap] /\ queue' = queue \union {new}
      /\ recorded' = recorded \union {new}
  BY <1>3 DEF Commit
<1>5. snapshots[i] \in Snapshots
  BY <1>1 DEF TypeInv, TypeOK
<1>6. snap.states = [snapshots[i].states EXCEPT ![original.id] = "superseded"]
  BY <1>5 DEF WithState, Snapshots
<1>7. /\ Active(snapshots[i], original) /\ id \notin {o.id : o \in recorded}
      /\ snapshots[i].states[original.id] = "conflict"
      /\ ~AlreadyExecuted(original, Version(i))
  BY DEF Reformulate, ActiveOn, NewIds, RecordAt
<1> HIDE DEF snap
<1>8. MovesOne(i, original.id, "superseded")
  BY <1>1, <1>4, <1>6, OneStateMoves
<1>9. RowState(snapshots', new) = "pending"
  <2>1. id # original.id
    BY <1>7 DEF Safe, FromRecorded
  <2>2. snapshots[i].states[id] = "pending"
    BY <1>1, <1>7 DEF Copies, CopyHolds, StatesRecorded
  <2>3. snapshots'[i].states[id] = snapshots[i].states[id]
    BY <1>1, <1>4, <1>5, <1>6, <2>1 DEF TypeInv, TypeOK, Snapshots
  <2> QED  BY <1>2, <2>2, <2>3 DEF RowState
<1>10. ASSUME NEW op \in queue, RowState(snapshots', op) # RowState(snapshots, op)
       PROVE  /\ RowState(snapshots, op) = "conflict" /\ op.intent = new.intent
              /\ RowState(snapshots', op) = "superseded"
              /\ ~AlreadyExecuted(op, Version(op.incident))
  <2>1. op = original
    BY <1>8, <1>10 DEF Safe, IdentitiesUnique, MovesOne
  <2> QED  BY <1>2, <1>7, <1>8, <2>1 DEF RowState, MovesOne
<1> QED  BY <1>4, <1>9, <1>10 DEF StatesMove, NewRowsWait, Moves, Archived

LEMMA SyncConfirmMoves ==
  ASSUME TypeInv, Safe, Copies, Memory, SyncConfirm
  PROVE  StatesMove /\ NewRowsWait
<1> DEFINE i == job.op.incident
           latest == RecordAt(i, Latest(job.seen, job.reply.version))
           receipt == [job.snap EXCEPT !.confirmed = AddConfirmed(@, job.op)]
           snap == IF {o \in PendingOn(i) : o.id # job.op.id /\ Active(job.snap, o)} = {}
                   THEN [receipt EXCEPT !.base = latest, !.local = latest] ELSE receipt
<1>1. /\ snapshots' = [snapshots EXCEPT ![i] = snap] /\ UNCHANGED recorded
      /\ job.phase = "post"
  BY DEF SyncConfirm
<1>2. i \in Incidents /\ job.snap \in Snapshots /\ job.snap.states = snapshots[i].states
  BY <1>1, InMemory
<1>3. snap.states = snapshots[i].states
  BY <1>2 DEF Snapshots
<1> HIDE DEF snap
<1> QED  BY <1>1, <1>2, <1>3, QuietMoves

LEMMA StepMoves ==
  ASSUME TypeInv, Safe, Copies, Memory, [Next]_vars
  PROVE  StatesMove /\ NewRowsWait
<1>1. ASSUME UNCHANGED <<snapshots, recorded>>
      PROVE  StatesMove /\ NewRowsWait
  BY <1>1, QuietMoves
<1>2. CASE SessionStep \/ ServerStep
  BY <1>1, <1>2 DEF SessionStep, EndSession, BeginSession, Crash, ServerStep, DeliverPost,
     OtherClient, device
<1>3. CASE LocalStep
  <2>1. ASSUME NEW i \in Incidents, NEW v \in 1..MaxVersion, Cache(i, v)
        PROVE  StatesMove /\ NewRowsWait
    BY <2>1, QuietMoves DEF Cache, Blocked
  <2>2. ASSUME NEW i \in Incidents, NEW action \in Recordable, NEW id \in OpIds,
               Record(i, action, id)
        PROVE  StatesMove /\ NewRowsWait
    BY <2>2, RecordAsMoves, ChoiceAssumption DEF Record, Actions
  <2> QED  BY <1>3, <2>1, <2>2 DEF LocalStep
<1>4. CASE StartStep
  <2>1. CASE StartRecord
    BY <2>1, RecordAsMoves DEF StartRecord, TypeInv, CallBelongs, Actions
  <2>2. CASE StartPrepare
    <3> DEFINE i == call.incident
               snap == IF Own(i) THEN snapshots[i]
                       ELSE Fresh(session.actor, RecordAt(i, Version(i)), {})
    <3>1. /\ snapshots' = [snapshots EXCEPT ![i] = snap] /\ UNCHANGED recorded
          /\ i \in Incidents
          /\ ~Own(i) => PendingOn(i) = {}
      BY <2>2 DEF StartPrepare, Blocked, TypeInv, CallBelongs
    <3>2. snap.states = snapshots[i].states \/ PendingOn(i) = {}
      BY <3>1
    <3> HIDE DEF snap, i
    <3> QED  BY <3>1, <3>2, QuietMoves
  <2>3. CASE StartFails \/ StartSync \/ \E i \in Incidents, expected \in 1..MaxVersion,
                                           id \in OpIds : StartCall(i, expected, id)
    BY <1>1, <2>3 DEF StartFails, StartSync, StartCall, device
  <2> QED  BY <1>4, <2>1, <2>2, <2>3 DEF StartStep
<1>5. CASE SyncBegin \/ StorageFails
  BY <1>1, <1>5 DEF SyncBegin, StorageFails, device
<1>6. CASE SyncStep
  <2>1. CASE SyncSkip \/ SyncPick \/ SyncAck \/ SyncEnd \/ SyncRejected
    BY <1>1, <2>1 DEF SyncSkip, SyncPick, SyncAck, SyncEnd, SyncRejected, device
  <2>2. CASE SyncReadFails \/ SyncPostFails
    <3>1. PICK outcome \in {"retry", "forbidden", "conflict"} :
            Stop(job.snap, outcome) /\ (outcome = "conflict" => Refused(job.op))
      BY <2>2 DEF SyncReadFails, SyncPostFails, Refused
    <3> QED  BY <2>2, <3>1, StopMoves DEF SyncReadFails, SyncPostFails
  <2>3. CASE SyncRead
    <3> DEFINE i == job.op.incident
    <3>1. \/ UNCHANGED <<device, recorded>>
          \/ /\ Stop(job.snap, "conflict")
             /\ ~IsMerged(job.snap.base.fields, job.snap.local.fields, FieldsAt(i, Version(i)))
      BY <2>3 DEF SyncRead
    <3>2. job.phase = "read"
      BY <2>3 DEF SyncRead
    <3>3. /\ i \in Incidents /\ job.op \in queue /\ job.snap.base = snapshots[i].base
          /\ CopyHolds(i, snapshots[i], queue, recorded, server)
          /\ snapshots[i].owner # NoActor
      BY <3>2, InMemory
    <3>4. Stop(job.snap, "conflict") => UNCHANGED <<device, recorded>> \/ Refused(job.op)
      BY <3>1, <3>3, UnmergedIsBehind DEF Refused
    <3> QED  BY <1>1, <3>1, <3>2, <3>4, StopMoves DEF device
  <2> QED  BY <1>6, <2>1, <2>2, <2>3, SyncConfirmMoves DEF SyncStep
<1>7. CASE ReviewStep
  BY <1>7, DecisionMoves, ReformulateMoves DEF ReviewStep
<1>8. CASE UNCHANGED vars
  BY <1>1, <1>8 DEF vars, device
<1> QED  BY <1>2, <1>3, <1>4, <1>5, <1>6, <1>7, <1>8 DEF Next

\* Nothing recorded is forgotten.
LEMMA RecordedGrows ==
  ASSUME [Next]_vars
  PROVE  recorded \subseteq recorded'
<1>1. ASSUME NEW i, NEW snap, NEW op, Commit(i, snap, op)
      PROVE  recorded \subseteq recorded'
  BY <1>1 DEF Commit
<1>2. CASE ReviewStep
  <2>1. ASSUME NEW original, NEW expected, NEW id, Reformulate(original, expected, id)
        PROVE  recorded \subseteq recorded'
    <3>1. \E snap, op : Commit(original.incident, snap, op)
      BY <2>1, Zenon DEF Reformulate
    <3> QED  BY <1>1, <3>1
  <2> QED  BY <1>2, <2>1 DEF ReviewStep, Inspect, KeepRemote
<1> QED
BY <1>1, <1>2 DEF Next, vars, SessionStep, EndSession, BeginSession, Crash, ServerStep, DeliverPost,
   OtherClient, LocalStep, Cache, Record, RecordAs, StartStep, StartCall, StartPrepare,
   StartRecord, StartSync, StartFails, SyncBegin, StorageFails, SyncStep, SyncSkip, SyncPick,
   SyncRead, SyncReadFails, SyncConfirm, SyncAck, SyncPostFails, SyncEnd, SyncRejected, Stop

\* Review decisions are final: no cycle, outcome, receipt or later decision
\* changes the state of a row archived as reviewed or superseded.
THEOREM ArchivesAreFinal == Spec => ArchiveIsFinal
<1>1. CopyInv <=> EntriesKept /\ Copies /\ Memory
  BY DEF CopyInv, Copies, Memory
<1>2. TypeInv /\ Safe /\ CopyInv /\ [Next]_vars =>
        [\A op \in queue \intersect queue' :
           snapshots[op.incident].states[op.id] \in Archived =>
             snapshots'[op.incident].states[op.id] = snapshots[op.incident].states[op.id]]_vars
  BY <1>1, StepMoves DEF StatesMove, Moves, RowState
<1> QED  BY <1>2, CopiesInductive, PTL DEF Spec, ArchiveIsFinal

\* An intention always has an operation that was executed, waits, or was
\* archived by a decision: supersession hands it on and never drops it.
THEOREM IntentsAreHandled == Spec => []IntentsStillHandled
<1>1. CopyInv <=> EntriesKept /\ Copies /\ Memory
  BY DEF CopyInv, Copies, Memory
<1>2. Init => IntentsStillHandled
  BY DEF Init, IntentsStillHandled
<1>3. ASSUME TypeInv, Safe, CopyInv, IntentsStillHandled, [Next]_vars, Safe'
      PROVE  IntentsStillHandled'
  <2>1. StatesMove /\ NewRowsWait
    BY <1>1, <1>3, StepMoves
  <2>2. ASSUME NEW r, r \in queue', RowState(snapshots', r) # "superseded"
        PROVE  r \in recorded' /\ snapshots'[r.incident].states[r.id] # "superseded"
    BY <1>3, <2>2 DEF Safe, FromRecorded, RowState
  <2>3. \A op \in recorded : Executed(op) => Executed(op)'
    BY <1>3, ExecutedStays, ExecutedSame, RecordedType DEF TypeInv, vars
  <2>4. recorded \subseteq recorded'
    BY <1>3, RecordedGrows
  <2>5. ASSUME NEW op \in recorded'
        PROVE  \E r \in recorded' :
                 /\ r.intent = op.intent
                 /\ \/ Executed(r)'
                    \/ r \in queue' /\ snapshots'[r.incident].states[r.id] # "superseded"
    <3>1. CASE op \notin recorded
      BY <2>1, <2>2, <3>1 DEF NewRowsWait
    <3>2. CASE op \in recorded
      <4>1. PICK r \in recorded :
              /\ r.intent = op.intent
              /\ Executed(r) \/ (r \in queue /\ RowState(snapshots, r) # "superseded")
        BY <1>3, <3>2 DEF IntentsStillHandled, RowState
      <4>2. CASE Executed(r)'
        BY <2>4, <4>1, <4>2
      <4>3. CASE ~Executed(r)'
        <5>1. r \in queue /\ r \in queue' /\ RowState(snapshots, r) # "superseded"
          BY <1>3, <2>3, <2>4, <4>1, <4>3 DEF Safe, NoIntentLost
        <5>2. PICK s \in queue' : s.intent = r.intent /\ RowState(snapshots', s) # "superseded"
          BY <2>1, <5>1 DEF StatesMove, Moves
        <5> QED  BY <2>2, <4>1, <5>2
      <4> QED  BY <4>2, <4>3
    <3> QED  BY <3>1, <3>2
  <2> QED  BY <2>5 DEF IntentsStillHandled
<1> QED  BY <1>2, <1>3, CopiesInductive, PTL DEF Spec

-----------------------------------------------------------------------------
(* What a cycle sends and publishes.                                       *)

\* Only the read of a cycle sends, and it sends the operation of its turn.
LEMMA SendsItsTurn ==
  ASSUME [Next]_vars, NEW op \in posts' \ posts
  PROVE  SyncRead /\ op = job.op
<1>1. posts' # posts
  OBVIOUS
<1>2. CASE SessionStep \/ ServerStep \/ LocalStep \/ SyncBegin \/ StorageFails \/ UNCHANGED vars
  BY <1>1, <1>2 DEF SessionStep, EndSession, BeginSession, Crash, ServerStep, DeliverPost,
     OtherClient, LocalStep, Cache, Record, SyncBegin, StorageFails, vars
<1>3. CASE StartStep
  BY <1>1, <1>3 DEF StartStep, StartCall, StartPrepare, StartRecord, StartSync, StartFails
<1>4. CASE ReviewStep
  BY <1>1, <1>4 DEF ReviewStep, Inspect, KeepRemote, Reformulate
<1>5. CASE SyncStep
  <2>1. SyncRead
    BY <1>1, <1>5 DEF SyncStep, SyncSkip, SyncPick, SyncReadFails, SyncConfirm, SyncAck,
       SyncPostFails, SyncEnd, SyncRejected, Stop
  <2>2. posts' = posts \/ posts' = posts \union {job.op}
    BY <2>1 DEF SyncRead, Stop
  <2> QED  BY <2>1, <2>2
<1> QED  BY <1>2, <1>3, <1>4, <1>5 DEF Next

\* A cycle sends only what is queued, still to be decided, and its account's:
\* decisions and account changes between pick and read cannot slip under it.
THEOREM ArchivedAreNotSent == Spec => ArchivedNeverSent
<1>1. CopyInv <=> EntriesKept /\ Copies /\ Memory
  BY DEF CopyInv, Copies, Memory
<1>2. ASSUME TypeInv, Safe, CopyInv, [Next]_vars, NEW op \in posts' \ posts
      PROVE  /\ op \in queue /\ op.actor = session.actor
             /\ snapshots[op.incident].states[op.id] \notin Archived
  <2>1. SyncRead /\ op = job.op
    BY <1>2, SendsItsTurn
  <2>2. job.phase \in {"read", "post"} /\ session.actor = job.actor
    BY <2>1 DEF SyncRead, Current
  <2>3. op \in queue /\ op.actor = job.actor /\ Active(snapshots[op.incident], op)
    BY <1>1, <1>2, <2>1, <2>2, InMemory
  <2> QED  BY <2>2, <2>3 DEF Active
<1>3. TypeInv /\ Safe /\ CopyInv /\ [Next]_vars =>
        [\A op \in posts' \ posts :
           /\ op \in queue /\ op.actor = session.actor
           /\ snapshots[op.incident].states[op.id] \notin Archived]_vars
  BY <1>2
<1> QED  BY <1>3, CopiesInductive, PTL DEF Spec, ArchivedNeverSent

\* A receipt publishes a base that is the one in place or newer, and that the
\* cycle's read does not go beyond.
LEMMA ConfirmAdvances ==
  ASSUME TypeInv, Safe, Copies, Memory, SyncConfirm, NEW i \in Incidents,
         snapshots'[i].base # snapshots[i].base
  PROVE  /\ snapshots'[i].base.version > snapshots[i].base.version
         /\ snapshots'[i].base.version >= job.seen
<1> DEFINE rv == job.reply.version
           lv == Latest(job.seen, rv)
           latest == RecordAt(job.op.incident, lv)
           receipt == [job.snap EXCEPT !.confirmed = AddConfirmed(@, job.op)]
           snap == IF {o \in PendingOn(job.op.incident) :
                         o.id # job.op.id /\ Active(job.snap, o)} = {}
                   THEN [receipt EXCEPT !.base = latest, !.local = latest] ELSE receipt
<1>1. /\ snapshots' = [snapshots EXCEPT ![job.op.incident] = snap] /\ job.phase = "post"
      /\ Confirms(job.op, job.reply)
  BY DEF SyncConfirm
<1>2. /\ job.op.incident \in Incidents /\ job.snap \in Snapshots
      /\ snapshots[job.op.incident] \in Snapshots
      /\ job.snap.base = snapshots[job.op.incident].base
      /\ CopyHolds(job.op.incident, snapshots[job.op.incident], queue, recorded, server)
      /\ snapshots[job.op.incident].owner # NoActor
  BY <1>1, InMemory
<1>3. snap.base = latest \/ snap.base = job.snap.base
  BY <1>2 DEF Snapshots
<1> HIDE DEF snap
<1>4. i = job.op.incident /\ snapshots'[i] = snap
  BY <1>1, <1>2 DEF TypeInv, TypeOK
<1>5. snapshots'[i].base = latest
  BY <1>2, <1>3, <1>4
<1>6. job.seen \in 1..Version(i) /\ rv \in 1..Version(i)
  BY <1>1, <1>4 DEF TypeInv, ReadsExist, Confirms
<1>7. lv >= job.seen /\ lv \in 1..Version(i)
  BY <1>6 DEF Latest
<1>8. snapshots[i].base.version <= job.seen /\ snapshots[i].base.version \in Nat
  BY <1>1, <1>2, <1>4 DEF Memory, MemoryHolds, Snapshots, Records
<1>9. snapshots[i].base.version # lv
  <2> SUFFICES ASSUME snapshots[i].base.version = lv PROVE FALSE
    OBVIOUS
  <2>1. snapshots[i].base.fields = FieldsAt(i, lv)
    BY <1>2, <1>4 DEF CopyHolds, BaseReal, FieldsAt
  <2>2. snapshots[i].base = [version |-> lv, fields |-> FieldsAt(i, lv)]
    BY <1>2, <1>4, <2>1 DEF Snapshots, Records
  <2> QED  BY <1>4, <1>5, <2>2 DEF RecordAt
<1>10. latest.version = lv
  BY DEF RecordAt
<1> HIDE DEF lv, latest
<1> QED  BY <1>5, <1>6, <1>7, <1>8, <1>9, <1>10

\* A cycle's failures and its read keep the base it holds, which is the stored one.
LEMMA StopKeepsBase ==
  ASSUME TypeInv, Safe, Copies, Memory, job.phase \in {"read", "post"},
         NEW outcome, Stop(job.snap, outcome), NEW i \in Incidents
  PROVE  snapshots'[i].base = snapshots[i].base
<1>1. /\ job.op.incident \in Incidents /\ job.snap \in Snapshots
      /\ job.snap.base = snapshots[job.op.incident].base
  BY InMemory
<1>2. WithState(job.snap, job.op.id, outcome).base = job.snap.base
  BY <1>1 DEF WithState, Snapshots
<1> QED  BY <1>1, <1>2 DEF Stop, TypeInv, TypeOK

\* A cycle never takes the copy back: the base it publishes is newer than the
\* one it replaces and than the state it read, although a replayed operation is
\* answered with the receipt of an older version.
THEOREM CyclesNeverRegress == Spec => CycleNeverRegresses
<1>1. CopyInv <=> EntriesKept /\ Copies /\ Memory
  BY DEF CopyInv, Copies, Memory
<1>2. ASSUME TypeInv, Safe, CopyInv, [Next]_vars, ~Idle, NEW i \in Incidents,
             snapshots'[i].base # snapshots[i].base
      PROVE  /\ snapshots'[i].base.version > snapshots[i].base.version
             /\ snapshots'[i].base.version >= job.seen
  <2>1. snapshots' # snapshots
    BY <1>2
  <2>2. SyncStep
    <3>1. ~SessionStep
      BY <1>2, <2>1 DEF device, SessionStep, EndSession, BeginSession, Crash
    <3>2. ~ServerStep
      BY <1>2, <2>1 DEF device, ServerStep, DeliverPost, OtherClient
    <3>3. ~LocalStep
      BY <1>2, <2>1 DEF LocalStep, Cache, Record, May
    <3>4. ~StartStep
      BY <1>2, <2>1 DEF device, StartStep, StartCall, StartPrepare, StartRecord, StartSync,
         StartFails
    <3>5. ~SyncBegin /\ ~StorageFails
      BY <1>2, <2>1 DEF device, SyncBegin, StorageFails, May
    <3>6. ~ReviewStep
      BY <1>2, <2>1 DEF device, ReviewStep, Inspect, KeepRemote, Reformulate, May
    <3>7. ~UNCHANGED vars
      BY <2>1 DEF vars, device
    <3> QED  BY <1>2, <3>1, <3>2, <3>3, <3>4, <3>5, <3>6, <3>7 DEF Next
  <2>3. \A outcome : Stop(job.snap, outcome) => job.phase \notin {"read", "post"}
    BY <1>1, <1>2, StopKeepsBase
  <2>4. SyncConfirm
    BY <2>1, <2>2, <2>3 DEF SyncStep, SyncSkip, SyncPick, SyncRead, SyncReadFails, SyncAck,
       SyncPostFails, SyncEnd, SyncRejected, device
  <2> QED  BY <1>1, <1>2, <2>4, ConfirmAdvances
<1>3. TypeInv /\ Safe /\ CopyInv /\ [Next]_vars =>
        [\A i \in Incidents : ~Idle /\ snapshots'[i].base # snapshots[i].base =>
           /\ snapshots'[i].base.version > snapshots[i].base.version
           /\ snapshots'[i].base.version >= job.seen]_vars
  BY <1>2
<1> QED  BY <1>3, CopiesInductive, PTL DEF Spec, CycleNeverRegresses

-----------------------------------------------------------------------------
(* Executed at most once per intention, under any number of identities.    *)

\* The server will not execute this operation any more: its base is not the
\* last version, it has a result under its identity, or it is not "assigned".
Dead(op) ==
  \/ op.base < Version(op.incident)
  \/ Stored(op) # {}
  \/ /\ op.base = Version(op.incident) /\ op.action = "start"
     /\ FieldsAt(op.incident, op.base).work.status # "assigned"

\* An intention has gone on from this operation, which was not executed.
Left(op) == op \in queue /\ RowState(snapshots, op) = "superseded" /\ ~Executed(op)

SameIntention(a, b) == a.intent = b.intent /\ a.actor = b.actor /\ a.incident = b.incident

\* What makes IntentsExecutedOnce inductive: every intention began under its own
\* name; of two identities of it one was left; and what is left, or may be, or
\* was answered, the server does not execute.
OnceInv ==
  /\ \A op \in recorded : op.row < nextRow
  /\ \A op \in recorded : \E r \in recorded : SameIntention(r, op) /\ r.id = op.intent
  /\ \A op \in queue : RowState(snapshots, op) \in {"conflict", "superseded"} => Dead(op)
  /\ \A a, b \in recorded : SameIntention(a, b) => a.id = b.id \/ Left(a) \/ Left(b)
  /\ job.phase = "post" /\ job.reply.outcome \in {"ok", "conflict"} => Dead(job.op)

LEMMA DeadStays ==
  ASSUME TypeInv, Next, NEW op, op.incident \in Incidents, op.base \in Nat, Dead(op)
  PROVE  Dead(op)'
<1> DEFINE i == op.incident
<1>1. /\ Version(i) \in Nat /\ Version(i)' \in Nat /\ Version(i) <= Version(i)'
      /\ \A v \in 1..Version(i) : server'[i][v] = server[i][v]
  BY ServerGrows
<1>2. Version(i) >= 1
  BY DEF TypeInv, NonEmpty
<1>3. CASE op.base < Version(i)'
  BY <1>3 DEF Dead
<1>4. CASE Stored(op) # {}
  <2>1. PICK v \in Stored(op) : TRUE
    BY <1>4
  <2>2. v \in 1..Version(i) /\ v \in 1..Version(i)' /\ server'[i][v] = server[i][v]
    BY <1>1, <2>1 DEF Stored
  <2>3. Stored(op)' # {}
    BY <2>1, <2>2 DEF Stored
  <2> QED  BY <2>3 DEF Dead
<1>5. CASE ~(op.base < Version(i)') /\ Stored(op) = {}
  <2>1. op.base = Version(i) /\ Version(i)' = Version(i) /\ op.base \in 1..Version(i)
    BY <1>1, <1>2, <1>5 DEF Dead
  <2>2. op.action = "start" /\ FieldsAt(i, op.base).work.status # "assigned"
    BY <1>5, <2>1 DEF Dead
  <2>3. server'[i][op.base].fields = FieldsAt(i, op.base)
    BY <1>1, <2>1 DEF FieldsAt
  <2> QED  BY <2>1, <2>2, <2>3 DEF Dead, FieldsAt
<1> QED  BY <1>3, <1>4, <1>5

\* An operation is executed only while it is not dead.
LEMMA DeadNotExecuted ==
  ASSUME TypeInv, Next, NEW op \in recorded, Dead(op), ~Executed(op)
  PROVE  ~Executed(op)'
<1>1. op.incident \in Incidents /\ op.base \in Nat
  BY RecordedType DEF TypeInv, Operations
<1>2. CASE UNCHANGED server
  BY <1>2 DEF Executed, Version
<1>3. ASSUME NEW i \in Incidents, NEW version \in Versions,
             server' = [server EXCEPT ![i] = Append(@, version)],
             \/ version.event = NoOp
             \/ /\ version.event.incident = i /\ Stored(version.event) = {}
                /\ version.event \in posts /\ Accepts(version.event)
      PROVE  ~Executed(op)'
  <2>1. server[i] \in Seq(Versions) /\ DOMAIN server = Incidents
    BY DEF TypeInv, TypeOK
  <2>2. /\ Len(server'[i]) = Version(i) + 1 /\ Version(i) \in Nat
        /\ server'[i][Version(i) + 1] = version
        /\ \A v \in 1..Version(i) : server'[i][v] = server[i][v]
    BY <1>3, <2>1 DEF Version
  <2>3. \A j \in Incidents \ {i} : server'[j] = server[j]
    BY <1>3, <2>1
  <2> SUFFICES ASSUME NEW v \in 1..Len(server'[op.incident]),
                      server'[op.incident][v].event # NoOp,
                      Request(server'[op.incident][v].event) = Request(op)
               PROVE  FALSE
    BY DEF Executed, Version
  <2>4. op.incident = i /\ v = Version(i) + 1
    BY SMTT(30), <1>1, <2>2, <2>3 DEF Executed, Version
  <2> DEFINE e == version.event
  <2>5. e # NoOp /\ Request(e) = Request(op)
    BY <2>2, <2>4
  <2> HIDE DEF e
  <2>6. /\ e.id = op.id /\ e.incident = op.incident /\ e.actor = op.actor
        /\ e.action = op.action /\ e.base = op.base
    BY <2>5 DEF Request
  <2>7. Stored(e) = {} /\ Accepts(e)
    BY <1>3, <2>5 DEF e
  <2>8. Stored(op) = {} /\ Accepts(op)
    BY <2>6, <2>7 DEF Stored, Accepts
  <2> QED  BY <1>1, <2>2, <2>4, <2>8 DEF Accepts, Dead
<1> QED  BY <1>2, <1>3, AddedVersion

\* What was left stays left.
LEMMA LeftStays ==
  ASSUME TypeInv, Safe, OnceInv, Next, Safe', StatesMove, NEW op \in recorded, Left(op)
  PROVE  Left(op)'
<1>1. Dead(op) /\ ~Executed(op)
  BY DEF OnceInv, Left
<1>2. ~Executed(op)'
  BY <1>1, DeadNotExecuted
<1>3. op \in queue'
  BY <1>2, RecordedGrows DEF Safe, NoIntentLost
<1>4. RowState(snapshots', op) = "superseded"
  BY <1>3 DEF StatesMove, Moves, Left, Archived
<1> QED  BY <1>2, <1>3, <1>4 DEF Left

\* An operation is recorded as a new intention, under an identity that no row
\* has, or goes on from one in conflict that the server does not know.
Begins(op) == op.intent = op.id /\ \A r \in queue : r.id # op.id
GoesOn(op, original) ==
  /\ original \in queue /\ SameIntention(op, original)
  /\ op.id \notin {r.id : r \in recorded}
  /\ RowState(snapshots, original) = "conflict"
  /\ RowState(snapshots', original) = "superseded"
  /\ ~AlreadyExecuted(original, Version(original.incident))
Recording(op) ==
  /\ recorded' = recorded \union {op} /\ queue' = queue \union {op}
  /\ op.row = nextRow /\ nextRow' = nextRow + 1
  /\ Begins(op) \/ \E original \in queue : GoesOn(op, original)

LEMMA NewBegins ==
  ASSUME NEW i, NEW action, NEW id, RecordAs(i, action, id)
  PROVE  Recording(NewOperation(i, action, id))
<1>1. /\ NewOperation(i, action, id).id = id /\ NewOperation(i, action, id).intent = id
      /\ NewOperation(i, action, id).row = nextRow
  BY DEF NewOperation
<1>2. \A r \in queue : r.id # id
  BY DEF RecordAs, CanRecord, KnownIds
<1>3. \E snap : Commit(i, snap, NewOperation(i, action, id))
  BY DEF RecordAs
<1> QED  BY <1>1, <1>2, <1>3 DEF Commit, Recording, Begins

LEMMA ReplacementGoesOn ==
  ASSUME TypeInv, NEW original \in queue, NEW expected, NEW id \in OpIds,
         Reformulate(original, expected, id)
  PROVE  \E op : Recording(op)
<1> DEFINE i == original.incident
           remote == RecordAt(i, Version(i))
           new == [original EXCEPT !.id = id, !.base = remote.version, !.row = nextRow]
           snap(local) == [WithState(snapshots[i], original.id, "superseded")
                             EXCEPT !.replacement[original.id] = id,
                                    !.base = remote, !.local = local]
<1>1. original \in Operations /\ i \in Incidents /\ original.id \in OpIds
  BY DEF TypeInv, TypeOK, Operations
<1>2. new.id = id /\ SameIntention(new, original) /\ new.row = nextRow
  BY <1>1 DEF Operations, SameIntention
<1> HIDE DEF new
<1>3. PICK local : Commit(i, snap(local), new)
  BY DEF Reformulate, new
<1>4. snapshots[i] \in Snapshots
  BY <1>1 DEF TypeInv, TypeOK
<1>5. snap(local).states = [snapshots[i].states EXCEPT ![original.id] = "superseded"]
  BY <1>4 DEF WithState, Snapshots
<1>6. /\ snapshots' = [snapshots EXCEPT ![i] = snap(local)]
      /\ recorded' = recorded \union {new} /\ queue' = queue \union {new}
      /\ nextRow' = nextRow + 1
  BY <1>3 DEF Commit
<1> HIDE DEF snap
<1>7. RowState(snapshots', original) = "superseded"
  BY <1>1, <1>4, <1>5, <1>6 DEF RowState, TypeInv, TypeOK, Snapshots
<1>8. /\ snapshots[i].states[original.id] = "conflict"
      /\ ~AlreadyExecuted(original, Version(i)) /\ id \notin {o.id : o \in recorded}
  BY DEF Reformulate, NewIds, RecordAt
<1>9. GoesOn(new, original)
  BY <1>2, <1>7, <1>8 DEF GoesOn, RowState
<1> QED  BY <1>2, <1>6, <1>9 DEF Recording

LEMMA RecordsNew ==
  ASSUME TypeInv, Next
  PROVE  \/ UNCHANGED <<recorded, nextRow>> /\ queue' \subseteq queue
         \/ \E op : Recording(op)
<1>1. CASE SessionStep \/ ServerStep \/ SyncBegin \/ StorageFails
  BY <1>1 DEF SessionStep, EndSession, BeginSession, Crash, ServerStep, DeliverPost,
     OtherClient, SyncBegin, StorageFails, device
<1>2. CASE SyncStep
  BY <1>2 DEF SyncStep, SyncSkip, SyncPick, SyncRead, SyncReadFails, SyncConfirm, SyncAck,
     SyncPostFails, SyncEnd, SyncRejected, Stop, device
<1>3. CASE StartStep
  BY <1>3, NewBegins DEF StartStep, StartCall, StartPrepare, StartRecord, StartSync, StartFails,
     device
<1>4. CASE LocalStep
  BY <1>4, NewBegins DEF LocalStep, Cache, Record
<1>5. CASE ReviewStep
  BY <1>5, ReplacementGoesOn DEF ReviewStep, Inspect, KeepRemote
<1> QED  BY <1>1, <1>2, <1>3, <1>4, <1>5 DEF Next

\* An answer that settles the operation says that it is not executed any more.
LEMMA AnswerHolds ==
  ASSUME TypeInv, Safe, Copies, Memory, Next, job.phase = "post",
         NEW op \in posts, DeliverPost(op), op = job.op,
         Answer(op).outcome \in {"ok", "conflict"}
  PROVE  Dead(op)'
<1> DEFINE i == op.incident
           n == Version(i)
<1>1. /\ i \in Incidents /\ op \in queue /\ op \in Operations /\ op.base \in Nat
      /\ op.base <= snapshots[i].base.version /\ snapshots[i].base.version \in 1..n
      /\ server[i] \in Seq(Versions) /\ n \in Nat
  BY SMTT(30), InMemory DEF CopyHolds, BaseReal, Operations, TypeInv, TypeOK, Version
<1>2. op.base <= n
  BY <1>1
<1>3. CASE Executes(op)
  <2> DEFINE version == [fields |-> Effect(FieldsAt(i, n), op), event |-> op]
  <2>1. server' = [server EXCEPT ![i] = Append(@, version)]
    BY <1>3 DEF DeliverPost
  <2>2. server'[i] = Append(server[i], version)
    BY <1>1, <2>1 DEF TypeInv, TypeOK
  <2>3. Version(i)' = n + 1
    BY <1>1, <2>2 DEF Version
  <2> QED  BY <1>1, <1>2, <2>3 DEF Dead
<1>4. CASE ~Executes(op)
  <2>1. Stored(op) # {} \/ ~Accepts(op)
    BY <1>4 DEF Executes, Answer
  <2>2. Dead(op)
    BY <1>1, <1>2, <2>1 DEF Accepts, Dead
  <2> QED  BY <1>1, <2>2, DeadStays
<1> QED  BY <1>3, <1>4

LEMMA ReplyStep ==
  ASSUME TypeInv, Safe, OnceInv, Copies, Memory, Next, TypeInv',
         job'.phase = "post", job'.reply.outcome \in {"ok", "conflict"},
         NEW op, op = job'.op
  PROVE  Dead(op)'
<1>1. ASSUME UNCHANGED job PROVE Dead(op)'
  <2>1. op = job.op /\ job.phase = "post" /\ job.reply.outcome \in {"ok", "conflict"}
    BY <1>1
  <2>2. job.op \in Operations
    BY <2>1, JobOpType DEF TypeInv
  <2>3. Dead(op)
    BY <2>1 DEF OnceInv
  <2> QED  BY <2>1, <2>2, <2>3, DeadStays DEF Operations
<1>2. ASSUME NEW o \in posts, DeliverPost(o), job' # job
      PROVE  Dead(op)'
  <2>1. job.phase = "post" /\ job.op = o /\ job' = [job EXCEPT !.reply = Answer(o)]
    BY <1>2 DEF DeliverPost
  <2>2. op = o /\ op = job.op /\ job'.reply = Answer(op)
    BY <2>1 DEF TypeInv, TypeOK, Jobs
  <2> QED  BY <1>2, <2>1, <2>2, AnswerHolds
<1>3. CASE SyncRead
  <2>1. job'.reply = job.reply /\ job.phase = "read"
    BY <1>3 DEF SyncRead, Stop, NoJob, TypeInv, TypeOK, Jobs
  <2>2. job'.reply.outcome = "none"
    BY <2>1 DEF TypeInv, ReadsExist, NoReply
  <2> QED  BY <2>2
<1>4. CASE SyncStep /\ ~SyncRead
  <2>1. CASE SyncSkip \/ SyncPick \/ SyncConfirm \/ SyncAck
    <3>1. job'.phase \in {"next", "read", "ack"}
      BY <2>1 DEF SyncSkip, SyncPick, SyncConfirm, SyncAck, TypeInv, TypeOK, Jobs
    <3> QED  BY <3>1
  <2>2. CASE SyncReadFails \/ SyncPostFails
    BY <2>2 DEF SyncReadFails, SyncPostFails, Stop, NoJob
  <2>3. CASE SyncEnd \/ SyncRejected
    BY <2>3 DEF SyncEnd, SyncRejected, NoJob
  <2> QED  BY <1>4, <2>1, <2>2, <2>3 DEF SyncStep
<1>5. CASE StorageFails \/ SyncBegin \/ StartSync \/ Crash
  <2>1. CASE StorageFails \/ Crash
    BY <2>1 DEF StorageFails, Crash, NoJob
  <2>2. CASE SyncBegin \/ StartSync
    BY <2>2 DEF SyncBegin, StartSync, Begin, NoJob
  <2> QED  BY <1>5, <2>1, <2>2
<1>6. CASE EndSession \/ (\E actor \in Actors : BeginSession(actor)) \/ LocalStep \/ ReviewStep
  BY <1>1, <1>6 DEF EndSession, BeginSession, LocalStep, Cache, Record, ReviewStep, Inspect,
     KeepRemote, Reformulate
<1>7. CASE ServerStep
  BY <1>1, <1>2, <1>7 DEF ServerStep, OtherClient
<1>8. CASE StartStep /\ ~StartSync
  BY <1>1, <1>8 DEF StartStep, StartCall, StartPrepare, StartRecord, StartFails
<1> QED  BY <1>3, <1>4, <1>5, <1>6, <1>7, <1>8 DEF Next, SessionStep

\* A new operation of an intention finds its earlier identities left behind.
LEMMA OthersAreLeft ==
  ASSUME TypeInv, Safe, OnceInv, Next, Safe', StatesMove,
         NEW a, Recording(a), NEW b \in recorded, SameIntention(a, b), a.id # b.id
  PROVE  Left(b)'
<1>1. \A op \in recorded : Left(op) => Left(op)'
  BY LeftStays
<1>2. CASE Begins(a)
  <2>1. PICK r \in recorded : SameIntention(r, b) /\ r.id = b.intent
    BY DEF OnceInv
  <2>2. r.id = a.id
    BY <1>2, <2>1 DEF Begins, SameIntention
  <2>3. r \notin queue
    BY <1>2, <2>2 DEF Begins
  <2>4. Left(b)
    BY <2>1, <2>2, <2>3 DEF OnceInv, Left
  <2> QED  BY <1>1, <2>4
<1>3. ASSUME NEW original \in queue, GoesOn(a, original)
      PROVE  Left(b)'
  <2>1. /\ original \in recorded /\ Dead(original) /\ SameIntention(b, original)
    BY <1>3 DEF Safe, FromRecorded, OnceInv, GoesOn, SameIntention
  <2>2. CASE b.id = original.id
    <3>1. ~Executed(b)
      BY <1>3, <2>1, <2>2 DEF GoesOn, AlreadyExecuted, Executed, Request, SameIntention
    <3>2. b \in queue
      BY <3>1 DEF Safe, NoIntentLost
    <3>3. b = original
      BY <2>2, <3>2 DEF Safe, IdentitiesUnique
    <3>4. ~Executed(b)'
      BY <2>1, <3>1, <3>3, DeadNotExecuted
    <3>5. b \in queue'
      BY <3>4, RecordedGrows DEF Safe, NoIntentLost
    <3> QED  BY <1>3, <3>3, <3>4, <3>5 DEF Left, GoesOn
  <2>3. CASE b.id # original.id
    <3>1. ~Left(original)
      BY <1>3 DEF Left, GoesOn
    <3> QED  BY <1>1, <2>1, <2>3, <3>1 DEF OnceInv
  <2> QED  BY <2>2, <2>3
<1> QED  BY <1>2, <1>3 DEF Recording

LEMMA OnceStep ==
  ASSUME ~MalformedBodies, TypeInv, Safe, OnceInv, Copies, Memory, Next, TypeInv', Safe'
  PROVE  OnceInv'
<1>1. StatesMove /\ NewRowsWait
  BY StepMoves
<1>2. \A op \in recorded : op \in recorded' /\ (Left(op) => Left(op)')
  BY <1>1, LeftStays, RecordedGrows
<1>3. \A op \in recorded : op \in Operations
  BY RecordedType DEF TypeInv
<1>4. nextRow \in Nat
  BY DEF TypeInv, TypeOK
<1>5. ASSUME NEW op \in recorded'
      PROVE  op.row < nextRow'
  BY <1>3, <1>4, <1>5, RecordsNew DEF OnceInv, Recording, Operations
<1>6. ASSUME NEW op \in recorded'
      PROVE  \E r \in recorded' : SameIntention(r, op) /\ r.id = op.intent
  <2>1. CASE op \in recorded
    BY <1>2, <2>1 DEF OnceInv
  <2>2. CASE op \notin recorded
    <3>1. Recording(op)
      BY <2>2, RecordsNew DEF Recording
    <3>2. CASE Begins(op)
      BY <3>2 DEF Begins, SameIntention
    <3>3. ASSUME NEW original \in queue, GoesOn(op, original)
          PROVE  \E r \in recorded' : SameIntention(r, op) /\ r.id = op.intent
      <4>1. original \in recorded /\ SameIntention(op, original)
        BY <3>3 DEF Safe, FromRecorded, GoesOn
      <4>2. PICK r \in recorded : SameIntention(r, original) /\ r.id = original.intent
        BY <4>1 DEF OnceInv
      <4> QED  BY <1>2, <4>1, <4>2 DEF SameIntention
    <3> QED  BY <3>1, <3>2, <3>3 DEF Recording
  <2> QED  BY <2>1, <2>2
<1>7. ASSUME NEW op \in queue', RowState(snapshots', op) \in {"conflict", "superseded"}
      PROVE  Dead(op)'
  <2>1. op \in recorded
    BY <1>1, <1>7 DEF Safe, FromRecorded, NewRowsWait
  <2>2. op \in Operations /\ op.incident \in Incidents /\ op.base \in Nat
    BY <1>3, <2>1 DEF Operations
  <2>3. op \in queue
    <3>1. ASSUME NEW new, Recording(new) PROVE op # new
      BY <1>4, <2>1, <3>1 DEF Recording, OnceInv
    <3> QED  BY <1>7, <3>1, RecordsNew DEF Recording
  <2>4. Dead(op)
    <3>1. CASE RowState(snapshots', op) = RowState(snapshots, op)
      BY <1>7, <2>3, <3>1 DEF OnceInv
    <3>2. CASE RowState(snapshots', op) # RowState(snapshots, op)
      <4>1. RowState(snapshots', op) = "conflict" => Refused(op)
        BY <1>1, <1>7, <2>3, <3>2 DEF StatesMove, Moves
      <4>2. Refused(op) => Dead(op)
        BY DEF Refused, Dead, OnceInv
      <4>3. RowState(snapshots', op) = "superseded" => RowState(snapshots, op) = "conflict"
        BY <1>1, <1>7, <2>3, <3>2 DEF StatesMove, Moves
      <4> QED  BY <1>7, <2>3, <4>1, <4>2, <4>3 DEF OnceInv
    <3> QED  BY <3>1, <3>2
  <2> QED  BY <2>2, <2>4, DeadStays
<1>8. ASSUME NEW a \in recorded', NEW b \in recorded', a \notin recorded, SameIntention(a, b),
             a.id # b.id
      PROVE  Left(b)'
  <2>1. Recording(a)
    BY <1>8, RecordsNew DEF Recording
  <2>2. b \in recorded
    BY <1>8, <2>1 DEF Recording
  <2> QED  BY <1>1, <1>8, <2>1, <2>2, OthersAreLeft
<1>9. ASSUME NEW a \in recorded', NEW b \in recorded', SameIntention(a, b)
      PROVE  a.id = b.id \/ Left(a)' \/ Left(b)'
  <2>1. CASE a \in recorded /\ b \in recorded
    BY <1>2, <1>9, <2>1 DEF OnceInv
  <2>2. SameIntention(b, a)
    BY <1>9 DEF SameIntention
  <2> QED  BY <1>8, <1>9, <2>1, <2>2
<1>10. job'.phase = "post" /\ job'.reply.outcome \in {"ok", "conflict"} =>
         \A op : op = job'.op => Dead(op)'
  BY ReplyStep
<1>11. job'.phase = "post" /\ job'.reply.outcome \in {"ok", "conflict"} => Dead(job.op)'
  BY <1>10
<1> QED  BY <1>5, <1>6, <1>7, <1>9, <1>11 DEF OnceInv

\* An intention has its effect on the server at most once, whatever is resent,
\* delivered late, refused, reviewed, handed in again or reformulated under new
\* identities, as long as the server's answers can be read.
THEOREM IntentsRunOnce ==
  ASSUME ~MalformedBodies
  PROVE  Spec => []IntentsExecutedOnce
<1>1. CopyInv <=> EntriesKept /\ Copies /\ Memory
  BY DEF CopyInv, Copies, Memory
<1>2. OnceInv /\ UNCHANGED vars => OnceInv'
  <2> SUFFICES ASSUME OnceInv, UNCHANGED vars PROVE OnceInv'
    OBVIOUS
  <2>1. UNCHANGED <<recorded, queue, nextRow, snapshots, job, server>>
    BY DEF vars, device
  <2>2. /\ \A op : Dead(op)' <=> Dead(op)
        /\ \A op : Left(op)' <=> Left(op)
    BY <2>1 DEF Dead, Left, RowState, Executed, Version, FieldsAt, Stored
  <2>3. job'.phase = "post" /\ job'.reply.outcome \in {"ok", "conflict"} => Dead(job.op)'
    BY <2>1 DEF OnceInv, Dead, Version, FieldsAt, Stored
  <2> QED  BY <2>1, <2>2, <2>3 DEF OnceInv, RowState
<1>3. /\ TypeInv /\ Safe /\ CopyInv /\ OnceInv /\ [Next]_vars
      /\ (TypeInv /\ Safe /\ CopyInv)'
      => OnceInv'
  BY <1>1, <1>2, OnceStep
<1>4. TypeInv /\ Safe /\ OnceInv /\ OperationsExecutedOnce => IntentsExecutedOnce
  <2> SUFFICES ASSUME TypeInv, Safe, OnceInv, OperationsExecutedOnce, NEW i \in Incidents,
                      NEW j \in 1..Version(i), NEW k \in 1..Version(i),
                      server[i][j].event # NoOp, server[i][k].event # NoOp,
                      server[i][j].event.intent = server[i][k].event.intent,
                      server[i][j].event.actor = server[i][k].event.actor
               PROVE  j = k
    BY DEF IntentsExecutedOnce
  <2> DEFINE e == server[i][j].event
             f == server[i][k].event
  <2>1. /\ e \in recorded /\ e.incident = i /\ f \in recorded /\ f.incident = i
    BY DEF Safe, EventsRecorded
  <2>2. Executed(e) /\ Executed(f)
    BY <2>1 DEF Executed
  <2>3. e.id = f.id
    BY <2>1, <2>2 DEF OnceInv, Left, SameIntention
  <2> QED  BY <2>3 DEF OperationsExecutedOnce
<1>5. Init => OnceInv
  BY DEF Init, OnceInv, NoJob
<1> QED  BY <1>3, <1>4, <1>5, CopiesInductive, ExecutedAtMostOnce, PTL DEF Spec

-----------------------------------------------------------------------------
(***************************************************************************)
(* 5. A cycle is bounded.  What the prover can say of CycleEnds: its steps *)
(* lower a measure that nothing else raises, so that a cycle that goes on  *)
(* ends, whatever the session, other workflows and the server do meanwhile. *)
(***************************************************************************)

\* The steps an operation may still need: from its GET, its POST, its receipt.
Ahead ==
  CASE job.phase = "read" -> 3 [] job.phase = "post" -> 2 [] job.phase = "ack" -> 1 [] OTHER -> 0
StepsLeft == IF Idle THEN 0 ELSE 1 + 4 * Cardinality(job.todo) + Ahead

TodoInv == IsFiniteSet(job.todo)

LEMMA StepsLeftType ==
  ASSUME TypeOK, TodoInv
  PROVE  /\ StepsLeft \in Nat /\ Cardinality(job.todo) \in Nat
         /\ ~Idle => StepsLeft >= 1
<1>1. Cardinality(job.todo) \in Nat /\ Ahead \in Nat
  BY FS_CardinalityType DEF TodoInv, Ahead
<1> QED  BY <1>1 DEF StepsLeft

\* A cycle that begins may take so many steps.
CycleBegins == (SyncBegin \/ StartSync) /\ StepsLeft' = 1 + 4 * Cardinality(queue)

LEMMA BeginBounds ==
  ASSUME TypeOK, SyncBegin \/ StartSync
  PROVE  TodoInv' /\ CycleBegins
<1>1. job'.todo = queue /\ job'.phase = "next"
  BY DEF SyncBegin, StartSync, Begin, NoJob
<1>2. IsFiniteSet(queue) /\ Cardinality(queue) \in Nat
  BY FS_CardinalityType DEF TypeOK
<1>3. StepsLeft' = 1 + 4 * Cardinality(queue)
  BY <1>1, <1>2 DEF StepsLeft, Idle, Ahead
<1> QED  BY <1>1, <1>2, <1>3 DEF TodoInv, CycleBegins

LEMMA EndBounds ==
  ASSUME TypeOK, TodoInv, job' = NoJob
  PROVE  /\ TodoInv' /\ StepsLeft' <= StepsLeft
         /\ ~Idle => StepsLeft' < StepsLeft
<1>1. job'.todo = {} /\ job'.phase = "idle"
  BY DEF NoJob
<1>2. StepsLeft' = 0
  BY <1>1 DEF StepsLeft, Idle
<1> QED  BY <1>1, <1>2, FS_EmptySet, StepsLeftType DEF TodoInv

\* The operation whose turn it is leaves the cycle's list.
LEMMA TurnBounds ==
  ASSUME TypeOK, TodoInv, SyncSkip \/ SyncPick
  PROVE  TodoInv' /\ StepsLeft' < StepsLeft
<1>1. job.phase = "next" /\ job.todo # {}
  BY DEF SyncSkip, SyncPick
<1>2. /\ job'.todo = job.todo \ {Earliest} /\ job'.phase \in {"next", "read"}
  BY DEF SyncSkip, SyncPick, Rest, TypeOK, Jobs
<1>3. /\ IsFiniteSet(job'.todo) /\ Cardinality(job'.todo) = Cardinality(job.todo) - 1
      /\ Cardinality(job.todo) \in Nat /\ Cardinality(job'.todo) \in Nat
  BY <1>1, <1>2, EarliestType, FS_RemoveElement, FS_CardinalityType DEF TodoInv
<1>4. Ahead' <= 3 /\ Ahead' \in Nat /\ Ahead = 0
  BY <1>1, <1>2 DEF Ahead
<1>5. StepsLeft = 1 + 4 * Cardinality(job.todo)
  BY <1>1, <1>3, <1>4 DEF StepsLeft, Idle
<1>6. StepsLeft' = 1 + 4 * Cardinality(job'.todo) + Ahead'
  BY <1>2 DEF StepsLeft, Idle
<1> QED  BY <1>3, <1>4, <1>5, <1>6 DEF TodoInv

\* The operation of the cycle goes on, or is over.
LEMMA PhaseBounds ==
  ASSUME TypeOK, TodoInv, job'.todo = job.todo,
         \/ job.phase = "read" /\ job'.phase \in {"post", "next"}
         \/ job.phase = "post" /\ job'.phase \in {"ack", "next"}
         \/ job.phase = "ack" /\ job'.phase = "next"
  PROVE  TodoInv' /\ StepsLeft' < StepsLeft
<1>1. Ahead' < Ahead /\ Ahead' \in Nat /\ Ahead \in Nat
  BY DEF Ahead
<1>2. /\ StepsLeft = 1 + 4 * Cardinality(job.todo) + Ahead
      /\ StepsLeft' = 1 + 4 * Cardinality(job.todo) + Ahead'
  BY DEF StepsLeft, Idle
<1>3. Cardinality(job.todo) \in Nat
  BY StepsLeftType
<1> QED  BY <1>1, <1>2, <1>3 DEF TodoInv

LEMMA StopBounds ==
  ASSUME TypeOK, NEW snap, NEW outcome, Stop(snap, outcome)
  PROVE  job'.todo = job.todo /\ job'.phase = "next"
  BY DEF Stop, NoJob

LEMMA SyncBounds ==
  ASSUME TypeOK, TodoInv, SyncStep
  PROVE  TodoInv' /\ StepsLeft' < StepsLeft
<1>1. job \in Jobs
  BY DEF TypeOK
<1>2. CASE SyncRead
  <2>1. job.phase = "read" /\ job'.todo = job.todo /\ job'.phase \in {"post", "next"}
    BY <1>1, <1>2, StopBounds DEF SyncRead, Jobs
  <2> QED  BY <2>1, PhaseBounds
<1>3. CASE SyncReadFails
  <2>1. job.phase = "read" /\ job'.todo = job.todo /\ job'.phase = "next"
    BY <1>3, StopBounds DEF SyncReadFails
  <2> QED  BY <2>1, PhaseBounds
<1>4. CASE SyncConfirm
  <2>1. job.phase = "post" /\ job'.todo = job.todo /\ job'.phase = "ack"
    BY <1>1, <1>4 DEF SyncConfirm, Jobs
  <2> QED  BY <2>1, PhaseBounds
<1>5. CASE SyncPostFails
  <2>1. job.phase = "post" /\ job'.todo = job.todo /\ job'.phase = "next"
    BY <1>5, StopBounds DEF SyncPostFails
  <2> QED  BY <2>1, PhaseBounds
<1>6. CASE SyncAck
  <2>1. job.phase = "ack" /\ job'.todo = job.todo /\ job'.phase = "next"
    BY <1>1, <1>6 DEF SyncAck, Jobs
  <2> QED  BY <2>1, PhaseBounds
<1>7. CASE SyncEnd \/ SyncRejected
  BY <1>7, EndBounds DEF SyncEnd, SyncRejected, Idle
<1> QED  BY <1>2, <1>3, <1>4, <1>5, <1>6, <1>7, TurnBounds DEF SyncStep

\* The steps of others, who leave the cycle's list and phase alone.
LEMMA OtherBounds ==
  ASSUME TypeOK, TodoInv, job'.todo = job.todo, job'.phase = job.phase
  PROVE  TodoInv' /\ StepsLeft' = StepsLeft
  BY DEF TodoInv, StepsLeft, Idle, Ahead

Bounded == IF SyncStep THEN StepsLeft' < StepsLeft ELSE CycleBegins \/ StepsLeft' <= StepsLeft

LEMMA StepBounds ==
  ASSUME TypeOK, TodoInv, Next
  PROVE  TodoInv' /\ Bounded
<1> DEFINE Others == TodoInv' /\ (CycleBegins \/ StepsLeft' <= StepsLeft)
<1>1. CASE SyncStep
  BY <1>1, SyncBounds DEF Bounded
<1>2. CASE ~SyncStep
  <2> SUFFICES Others
    BY <1>2 DEF Bounded
  <2>1. ASSUME SyncBegin \/ StartSync PROVE Others
    BY <2>1, BeginBounds
  <2>2. ASSUME job' = NoJob PROVE Others
    BY <2>2, EndBounds
  <2>3. ASSUME job' = job PROVE Others
    BY <2>3, OtherBounds, StepsLeftType
  <2>4. ASSUME NEW op \in posts, DeliverPost(op) PROVE Others
    <3>1. job'.todo = job.todo /\ job'.phase = job.phase
      BY <2>4 DEF DeliverPost, TypeOK, Jobs
    <3> QED  BY <3>1, OtherBounds, StepsLeftType
  <2> HIDE DEF Others
  <2>5. CASE SessionStep
    BY <2>2, <2>3, <2>5 DEF SessionStep, EndSession, BeginSession, Crash
  <2>6. CASE ServerStep
    BY <2>3, <2>4, <2>6 DEF ServerStep, OtherClient
  <2>7. CASE LocalStep
    BY <2>3, <2>7 DEF LocalStep, Cache, Record
  <2>8. CASE ReviewStep
    BY <2>3, <2>8 DEF ReviewStep, Inspect, KeepRemote, Reformulate
  <2>9. CASE StartStep
    BY <2>1, <2>3, <2>9 DEF StartStep, StartCall, StartPrepare, StartRecord, StartFails
  <2>10. CASE SyncBegin \/ StorageFails
    BY <2>1, <2>2, <2>10 DEF StorageFails
  <2> QED  BY <1>2, <2>5, <2>6, <2>7, <2>8, <2>9, <2>10 DEF Next
<1> QED  BY <1>1, <1>2

\* A cycle over n rows takes 4n + 1 steps at most: each step of it leaves fewer to
\* take, and nothing else adds any, rows recorded meanwhile included.
THEOREM CyclesAreBounded == Spec => [](StepsLeft \in Nat) /\ [][Bounded]_vars
<1>1. Init => TodoInv
  BY FS_EmptySet DEF Init, NoJob, TodoInv
<1>2. TypeOK /\ TodoInv /\ [Next]_vars => TodoInv' /\ [Bounded]_vars
  <2>1. TodoInv /\ UNCHANGED vars => TodoInv'
    BY DEF vars, TodoInv
  <2> QED  BY <2>1, StepBounds
<1>3. TypeOK /\ TodoInv => StepsLeft \in Nat
  BY StepsLeftType
<1> QED  BY <1>1, <1>2, <1>3, TypeCorrect, PTL DEF Spec

-----------------------------------------------------------------------------
(***************************************************************************)
(* 6. The store.  The workflows move snapshots and queue only by what a    *)
(* request to AtomicStore may do, the store LocalStore is proved to be.    *)
(***************************************************************************)

\* The place of an operation in the order of the rows.
Rank(ops, op) == Cardinality({o \in ops : o.row <= op.row})
InOrder(ops) == [k \in 1..Cardinality(ops) |-> CHOOSE op \in ops : Rank(ops, op) = k]

\* The workflows await every request: none waits between two steps of theirs.
Store == INSTANCE AtomicStore
           WITH saved <- snapshots, pending <- InOrder(queue),
                waiting <- <<>>, serving <- {}, answer <- "none"

\* One request takes effect: a snapshot is stored, a row with the snapshot of
\* its incident, never a row alone, or one row is taken out.
StoreUsed ==
  \/ \E i \in Incidents : Store!Save(i, snapshots'[i])
  \/ \E op \in queue' : Store!Change(op, snapshots'[op.incident])
  \/ \E op \in queue : Store!Acknowledge(op.id)

\* The rows of a queue are distinct.
Rowed(ops) ==
  /\ ops \in SUBSET Operations /\ IsFiniteSet(ops)
  /\ \A a, b \in ops : a.row = b.row => a = b

\* Ranks are places of the order, one for each operation.
LEMMA RankRange ==
  ASSUME NEW ops, Rowed(ops), NEW op \in ops
  PROVE  Rank(ops, op) \in 1..Cardinality(ops)
<1> DEFINE below == {o \in ops : o.row <= op.row}
<1>1. IsFiniteSet(below) /\ Cardinality(below) \in Nat /\ Cardinality(ops) \in Nat
      /\ Cardinality(below) <= Cardinality(ops)
  BY FS_Subset, FS_CardinalityType DEF Rowed
<1>2. op \in below
  BY DEF Rowed, Operations
<1>3. Cardinality(below) # 0
  BY <1>1, <1>2, FS_EmptySet
<1> QED  BY <1>1, <1>3 DEF Rank

LEMMA RankMonotone ==
  ASSUME NEW ops, Rowed(ops), NEW a \in ops, NEW b \in ops, a.row < b.row
  PROVE  Rank(ops, a) < Rank(ops, b)
<1> DEFINE upTo(op) == {o \in ops : o.row <= op.row}
<1>1. \A o \in ops : o.row \in Nat
  BY DEF Rowed, Operations
<1>2. upTo(a) \subseteq upTo(b) /\ b \in upTo(b) /\ b \notin upTo(a)
  BY <1>1
<1>3. IsFiniteSet(upTo(b)) /\ upTo(b) \in SUBSET ops
  BY FS_Subset DEF Rowed
<1>4. /\ Cardinality(upTo(a)) \in Nat /\ Cardinality(upTo(b)) \in Nat
      /\ Cardinality(upTo(a)) <= Cardinality(upTo(b))
      /\ Cardinality(upTo(a)) # Cardinality(upTo(b))
  <2> DEFINE A == upTo(a)
             B == upTo(b)
  <2>1. A \in SUBSET B /\ A # B /\ IsFiniteSet(B)
    BY <1>2, <1>3
  <2> HIDE DEF A, B
  <2>2. IsFiniteSet(A) /\ Cardinality(A) <= Cardinality(B) /\ Cardinality(A) # Cardinality(B)
    BY <2>1, FS_Subset
  <2>3. Cardinality(A) \in Nat /\ Cardinality(B) \in Nat
    BY <2>1, <2>2, FS_CardinalityType
  <2> QED  BY <2>2, <2>3 DEF A, B
<1> QED  BY <1>4 DEF Rank

\* Ranks are in the order of the rows, so no two operations share one.
LEMMA RankOrder ==
  ASSUME NEW ops, Rowed(ops), NEW a \in ops, NEW b \in ops
  PROVE  /\ a.row < b.row <=> Rank(ops, a) < Rank(ops, b)
         /\ a = b <=> Rank(ops, a) = Rank(ops, b)
<1>1. a.row \in Nat /\ b.row \in Nat
  BY DEF Rowed, Operations
<1>2. Rank(ops, a) \in Int /\ Rank(ops, b) \in Int
  BY RankRange
<1>3. CASE a.row = b.row
  <2>1. a = b
    BY <1>3 DEF Rowed
  <2> QED  BY <1>1, <1>2, <2>1
<1>4. CASE a.row < b.row
  BY <1>1, <1>2, <1>4, RankMonotone
<1>5. CASE b.row < a.row
  BY <1>1, <1>2, <1>5, RankMonotone
<1> QED  BY <1>1, <1>3, <1>4, <1>5

LEMMA RankOnto ==
  ASSUME NEW ops, Rowed(ops), NEW k \in 1..Cardinality(ops)
  PROVE  \E op \in ops : Rank(ops, op) = k
<1> DEFINE n == Cardinality(ops)
           rank == [op \in ops |-> Rank(ops, op)]
<1>1. IsFiniteSet(ops) /\ n \in Nat
  BY FS_CardinalityType DEF Rowed
<1>2. rank \in [ops -> 1..n] /\ \A a, b \in ops : rank[a] = rank[b] => a = b
  BY RankRange, RankOrder
<1> HIDE DEF rank
<1>3. rank \in Injection(ops, 1..n)
  BY <1>2 DEF Injection, IsInjective
<1>4. IsFiniteSet(1..n) /\ Cardinality(1..n) = n
  BY <1>1, FS_Interval
<1>5. rank \in Surjection(ops, 1..n)
  BY <1>3, <1>4, FS_Injection
<1>6. PICK op \in ops : rank[op] = k
  BY <1>5 DEF Surjection
<1> QED  BY <1>6 DEF rank

\* The order has each operation once, at its rank.
LEMMA OrderRanks ==
  ASSUME NEW ops, Rowed(ops)
  PROVE  /\ InOrder(ops) \in Seq(ops) /\ Len(InOrder(ops)) = Cardinality(ops)
         /\ Cardinality(ops) \in Nat
         /\ \A k \in 1..Cardinality(ops) :
              InOrder(ops)[k] \in ops /\ Rank(ops, InOrder(ops)[k]) = k
         /\ \A op \in ops : InOrder(ops)[Rank(ops, op)] = op
<1> DEFINE n == Cardinality(ops)
<1>1. n \in Nat
  BY FS_CardinalityType DEF Rowed
<1>2. \A k \in 1..n : InOrder(ops)[k] \in ops /\ Rank(ops, InOrder(ops)[k]) = k
  BY RankOnto DEF InOrder
<1>3. InOrder(ops) = [k \in 1..n |-> InOrder(ops)[k]]
  BY DEF InOrder
<1>4. InOrder(ops) \in Seq(ops) /\ Len(InOrder(ops)) = n
  BY <1>1, <1>2, <1>3
<1>5. \A op \in ops : InOrder(ops)[Rank(ops, op)] = op
  BY <1>2, RankRange, RankOrder
<1> QED  BY <1>1, <1>2, <1>4, <1>5

\* A sequence that has each operation at its rank is the order.
LEMMA OrderIs ==
  ASSUME NEW ops, Rowed(ops), NEW T, NEW s \in Seq(T), Len(s) = Cardinality(ops),
         \A k \in 1..Cardinality(ops) : s[k] \in ops /\ Rank(ops, s[k]) = k
  PROVE  s = InOrder(ops)
<1>1. \A k \in 1..Len(s) : s[k] = InOrder(ops)[k]
  BY OrderRanks
<1>2. InOrder(ops) \in Seq(ops \union T) /\ s \in Seq(ops \union T)
  BY OrderRanks, SeqMonotonic
<1> QED  BY <1>1, <1>2, OrderRanks, SeqEqual

\* A row behind all others comes last.
LEMMA AddedLast ==
  ASSUME NEW ops, Rowed(ops), NEW op \in Operations, \A o \in ops : o.row < op.row
  PROVE  /\ Rowed(ops \union {op})
         /\ InOrder(ops \union {op}) = Append(InOrder(ops), op)
<1> DEFINE more == ops \union {op}
           n == Cardinality(ops)
           s == InOrder(ops)
<1>1. op.row \in Nat /\ op \notin ops /\ \A o \in ops : o.row \in Nat
  BY DEF Rowed, Operations
<1>2. /\ Rowed(more) /\ Cardinality(more) = n + 1 /\ n \in Nat
  BY <1>1, FS_AddElement, FS_CardinalityType DEF Rowed
<1>3. \A o \in ops : Rank(more, o) = Rank(ops, o)
  <2> TAKE o \in ops
  <2>1. {x \in more : x.row <= o.row} = {x \in ops : x.row <= o.row}
    BY <1>1
  <2> QED  BY <2>1 DEF Rank
<1>4. Rank(more, op) = n + 1
  <2>1. {x \in more : x.row <= op.row} = more
    BY <1>1
  <2> QED  BY <1>2, <2>1 DEF Rank
<1>5. s \in Seq(more) /\ Len(s) = n
  BY OrderRanks, SeqMonotonic
<1>6. /\ Append(s, op) \in Seq(more) /\ Len(Append(s, op)) = n + 1
      /\ \A k \in 1..n : Append(s, op)[k] = s[k]
      /\ Append(s, op)[n + 1] = op
  BY <1>2, <1>5, AppendProperties
<1>7. \A k \in 1..n + 1 : Append(s, op)[k] \in more /\ Rank(more, Append(s, op)[k]) = k
  <2> TAKE k \in 1..n + 1
  <2>1. CASE k = n + 1
    BY <1>4, <1>6, <2>1
  <2>2. CASE k \in 1..n
    BY <1>3, <1>6, <2>2, OrderRanks
  <2>3. k \in 1..n \/ k = n + 1
    BY <1>2
  <2> HIDE DEF more, s, n
  <2> QED  BY <2>1, <2>2, <2>3
<1> HIDE DEF more, n, s
<1>8. Append(s, op) = InOrder(more)
  BY <1>2, <1>6, <1>7, OrderIs
<1> QED  BY <1>2, <1>8 DEF more, s

\* What RemoveAt leaves: the elements before the index and those behind it.
LEMMA RemovedAt ==
  ASSUME NEW S, NEW s \in Seq(S), NEW k \in 1..Len(s)
  PROVE  /\ Store!RemoveAt(s, k) \in Seq(S)
         /\ Len(Store!RemoveAt(s, k)) = Len(s) - 1
         /\ \A j \in 1..Len(s) - 1 :
              Store!RemoveAt(s, k)[j] = IF j < k THEN s[j] ELSE s[j + 1]
<1> DEFINE a == SubSeq(s, 1, k - 1)
           b == SubSeq(s, k + 1, Len(s))
<1>1. Len(s) \in Nat /\ k \in Int /\ 1 \in Int /\ k - 1 \in Int /\ k + 1 \in Int /\ Len(s) \in Int
  BY LenProperties
<1>2. /\ \A i \in 1..k - 1 : s[i] \in S
      /\ \A i \in k + 1..Len(s) : s[i] \in S
  BY <1>1, ElementOfSeq
<1>3. /\ a \in Seq(S) /\ Len(a) = k - 1
      /\ \A i \in 1..k - 1 : a[i] = s[i]
  <2>1. /\ a \in Seq(S) /\ Len(a) = IF 1 <= k - 1 THEN (k - 1) - 1 + 1 ELSE 0
        /\ \A i \in 1..(k - 1) - 1 + 1 : a[i] = s[1 + i - 1]
    BY <1>1, <1>2, SubSeqProperties
  <2> QED  BY <1>1, <2>1
<1>4. /\ b \in Seq(S) /\ Len(b) = Len(s) - k
      /\ \A i \in 1..Len(s) - k : b[i] = s[k + i]
  <2>1. /\ b \in Seq(S) /\ Len(b) = IF k + 1 <= Len(s) THEN Len(s) - (k + 1) + 1 ELSE 0
        /\ \A i \in 1..Len(s) - (k + 1) + 1 : b[i] = s[(k + 1) + i - 1]
    BY <1>1, <1>2, SubSeqProperties
  <2> QED  BY <1>1, <2>1
<1> HIDE DEF a, b
<1>5. /\ a \o b \in Seq(S) /\ Len(a \o b) = Len(a) + Len(b)
      /\ \A i \in 1..Len(a) + Len(b) : (a \o b)[i] = IF i <= Len(a) THEN a[i] ELSE b[i - Len(a)]
  BY <1>3, <1>4, ConcatProperties
<1>6. Store!RemoveAt(s, k) = a \o b
  BY DEF Store!RemoveAt, a, b
<1>7. \A j \in 1..Len(s) - 1 : (a \o b)[j] = IF j < k THEN s[j] ELSE s[j + 1]
  BY <1>1, <1>3, <1>4, <1>5
<1> QED  BY <1>1, <1>3, <1>4, <1>5, <1>6, <1>7

\* A row taken out leaves the others in order.
LEMMA TakenOut ==
  ASSUME NEW ops, Rowed(ops), NEW op \in ops
  PROVE  /\ Rowed(ops \ {op})
         /\ InOrder(ops \ {op}) = Store!RemoveAt(InOrder(ops), Rank(ops, op))
<1> DEFINE less == ops \ {op}
           n == Cardinality(ops)
           s == InOrder(ops)
           k == Rank(ops, op)
           t == Store!RemoveAt(s, k)
<1>1. \A o \in ops : o.row \in Nat
  BY DEF Rowed, Operations
<1>2. /\ Rowed(less) /\ Cardinality(less) = n - 1 /\ n \in Nat /\ k \in 1..n
  BY FS_RemoveElement, FS_CardinalityType, RankRange DEF Rowed
<1>3. \A o \in less : Rank(less, o) = IF Rank(ops, o) < k THEN Rank(ops, o) ELSE Rank(ops, o) - 1
  <2> TAKE o \in less
  <2> DEFINE all == {x \in ops : x.row <= o.row}
             rest == {x \in less : x.row <= o.row}
  <2>1. rest = all \ {op} /\ (op \in all <=> op.row <= o.row) /\ IsFiniteSet(all)
    BY FS_Subset DEF Rowed
  <2>2. o.row # op.row /\ (o.row < op.row <=> Rank(ops, o) < k)
    BY RankOrder DEF Rowed
  <2>3. Cardinality(rest) = IF op \in all THEN Cardinality(all) - 1 ELSE Cardinality(all)
    BY <2>1, FS_RemoveElement
  <2>4. op \in all <=> ~(Rank(ops, o) < k)
    BY <1>1, <2>1, <2>2
  <2> QED  BY <2>3, <2>4 DEF Rank
<1>4. /\ s \in Seq(ops) /\ Len(s) = n
      /\ \A j \in 1..n : s[j] \in ops /\ Rank(ops, s[j]) = j
  BY OrderRanks
<1>5. /\ t \in Seq(ops) /\ Len(t) = n - 1
      /\ \A j \in 1..n - 1 : t[j] = IF j < k THEN s[j] ELSE s[j + 1]
  BY <1>2, <1>4, RemovedAt
<1> HIDE DEF less, n, s, k, t
<1>6. ASSUME NEW j \in 1..n - 1 PROVE t[j] \in less /\ Rank(less, t[j]) = j
  <2> DEFINE p == IF j < k THEN j ELSE j + 1
  <2>1. p \in 1..n /\ p # k /\ (p < k <=> j < k) /\ j = IF p < k THEN p ELSE p - 1
    BY <1>2
  <2> HIDE DEF p
  <2>2. t[j] = s[p]
    BY <1>5 DEF p
  <2>3. s[p] \in ops /\ Rank(ops, s[p]) = p
    BY <1>4, <2>1
  <2>4. s[p] \in less
    BY <2>1, <2>3 DEF less, k
  <2> QED  BY <1>3, <2>1, <2>2, <2>3, <2>4
<1>7. t = InOrder(less)
  BY <1>2, <1>5, <1>6, OrderIs
<1> QED  BY <1>2, <1>7 DEF less, k, s, t
-----------------------------------------------------------------------------
\* What is saved of one incident is a step of the store.
LEMMA Saves ==
  ASSUME TypeOK, NEW i \in Incidents, UNCHANGED queue,
         \A j \in Incidents \ {i} : snapshots'[j] = snapshots[j],
         snapshots' \in [Incidents -> Snapshots]
  PROVE  [StoreUsed]_<<snapshots, queue>>
<1>2. snapshots' = [snapshots EXCEPT ![i] = snapshots'[i]]
  BY DEF TypeOK
<1>3. CASE snapshots'[i] = snapshots[i]
  <2>1. snapshots' = snapshots
    BY <1>2, <1>3 DEF TypeOK
  <2> QED  BY <2>1
<1>4. CASE snapshots'[i] # snapshots[i]
  <2>1. Store!Save(i, snapshots'[i])
    BY <1>2 DEF Store!Save
  <2> QED  BY <2>1 DEF StoreUsed
<1> QED  BY <1>3, <1>4

\* commitChange: the row it adds has the next sequence and a new identity.
LEMMA CommitIsChange ==
  ASSUME TypeOK, TypeOK', Rowed(queue), NEW i \in Incidents, NEW snap, NEW op,
         Commit(i, snap, op), op.incident = i, op.row = nextRow,
         \A o \in queue : o.id # op.id
  PROVE  StoreUsed /\ Rowed(queue)'
<1> DEFINE s == InOrder(queue)
           t == InOrder(queue')
<1>1. /\ snapshots' = [snapshots EXCEPT ![i] = snap] /\ queue' = queue \union {op}
  BY DEF Commit
<1>2. op \in Operations /\ \A o \in queue : o.row < op.row
  BY <1>1 DEF TypeOK
<1>3. Rowed(queue') /\ t = Append(s, op)
  BY <1>1, <1>2, AddedLast
<1>4. s \in Seq(queue) /\ t \in Seq(queue')
  BY <1>3, OrderRanks
<1> HIDE DEF s, t
<1>5. Store!IsNew(op)
  <2>1. \A k \in 1..Len(s) : s[k] \in queue
    BY <1>4, ElementOfSeq
  <2> QED  BY <1>2, <2>1 DEF Store!IsNew, s
<1>6. snapshots'[i] = snap
  BY <1>1 DEF TypeOK
<1>7. Store!Change(op, snapshots'[op.incident])
  BY <1>1, <1>3, <1>5, <1>6 DEF Store!Change, s, t
<1> QED  BY <1>1, <1>3, <1>7 DEF StoreUsed, Rowed

\* acknowledge takes out the one row of the operation's identity.
LEMMA AckIsAcknowledge ==
  ASSUME TypeInv, Safe, Rowed(queue), SyncAck
  PROVE  StoreUsed /\ Rowed(queue)'
<1> DEFINE op == job.op
           k == Rank(queue, op)
<1>1. op \in queue /\ queue' = queue \ {op}
  BY InProgress DEF SyncAck, Safe, CycleCoherent, IdentitiesUnique
<1>2. /\ Rowed(queue') /\ InOrder(queue') = Store!RemoveAt(InOrder(queue), k)
      /\ k \in 1..Len(InOrder(queue)) /\ InOrder(queue)[k] = op
  BY <1>1, TakenOut, RankRange, OrderRanks
<1>3. Store!Acknowledge(op.id)
  BY <1>2 DEF Store!Acknowledge, SyncAck
<1> QED  BY <1>1, <1>2, <1>3 DEF StoreUsed, Rowed

LEMMA RecordIsChange ==
  ASSUME TypeInv, Safe, TypeOK', Rowed(queue), NEW i \in Incidents, NEW action \in Actions,
         NEW id \in OpIds, RecordAs(i, action, id)
  PROVE  StoreUsed /\ Rowed(queue)'
<1> DEFINE op == NewOperation(i, action, id)
<1>1. PICK snap : Commit(i, snap, op)
  BY DEF RecordAs
<1>2. op.incident = i /\ op.row = nextRow /\ \A o \in queue : o.id # op.id
  BY DEF RecordAs, CanRecord, KnownIds, NewOperation
<1> HIDE DEF op
<1> QED  BY <1>1, <1>2, CommitIsChange DEF TypeInv

LEMMA ReformulateIsChange ==
  ASSUME TypeInv, Safe, TypeOK', Rowed(queue), NEW original \in queue,
         NEW expected \in 1..MaxVersion, NEW id \in OpIds, Reformulate(original, expected, id)
  PROVE  StoreUsed /\ Rowed(queue)'
<1> DEFINE i == original.incident
           remote == RecordAt(i, Version(i))
           op == [original EXCEPT !.id = id, !.base = remote.version, !.row = nextRow]
<1>1. PICK snap : Commit(i, snap, op)
  BY DEF Reformulate
<1>2. original \in Operations /\ i \in Incidents
  BY DEF TypeInv, TypeOK, Operations
<1>3. op.id = id /\ op.incident = i /\ op.row = nextRow
  BY <1>2 DEF Operations
<1>4. \A o \in queue : o.id # id
  BY DEF Reformulate, NewIds, Safe, FromRecorded
<1> HIDE DEF op, i
<1> QED  BY <1>1, <1>2, <1>3, <1>4, CommitIsChange DEF TypeInv

LEMMA StopSaves ==
  ASSUME TypeInv, Safe, TypeOK', NEW snap, NEW outcome, Stop(snap, outcome), job.phase \in {"read", "post"}
  PROVE  [StoreUsed]_<<snapshots, queue>> /\ UNCHANGED queue
<1> DEFINE i == job.op.incident
<1>1. i \in Incidents
  BY InProgress
<1>2. snapshots' = [snapshots EXCEPT ![i] = WithState(snap, job.op.id, outcome)]
      /\ UNCHANGED queue
  BY DEF Stop
<1>3. \A j \in Incidents \ {i} : snapshots'[j] = snapshots[j]
  BY <1>2 DEF TypeInv, TypeOK
<1> QED  BY <1>1, <1>2, <1>3, Saves DEF TypeInv, TypeOK

\* What a step of the workflows is to the store.
StoreKept == [StoreUsed]_<<snapshots, queue>> /\ Rowed(queue)'

LEMMA StoreStep ==
  ASSUME TypeInv, Safe, TypeOK', Rowed(queue), Next
  PROVE  StoreKept
<1>1. ASSUME UNCHANGED <<snapshots, queue>> PROVE StoreKept
  BY <1>1 DEF Rowed, StoreKept
<1>2. ASSUME NEW i \in Incidents, NEW snap, snapshots' = [snapshots EXCEPT ![i] = snap],
             UNCHANGED queue
      PROVE  StoreKept
  <2>1. \A j \in Incidents \ {i} : snapshots'[j] = snapshots[j]
    BY <1>2 DEF TypeInv, TypeOK
  <2> QED  BY <1>2, <2>1, Saves DEF TypeInv, TypeOK, Rowed, StoreKept
<1>3. ASSUME StoreUsed /\ Rowed(queue)' PROVE StoreKept
  BY <1>3 DEF StoreKept
<1>4. ASSUME NEW snap, NEW outcome, Stop(snap, outcome), job.phase \in {"read", "post"}
      PROVE  StoreKept
  BY <1>4, StopSaves DEF Rowed, StoreKept
<1>5. CASE SessionStep \/ ServerStep
  BY <1>1, <1>5 DEF SessionStep, EndSession, BeginSession, Crash, ServerStep, DeliverPost,
     OtherClient, device
<1>6. CASE LocalStep
  <2>1. ASSUME NEW i \in Incidents, NEW v \in 1..MaxVersion, Cache(i, v) PROVE StoreKept
    BY <1>2, <2>1 DEF Cache
  <2>2. ASSUME NEW i \in Incidents, NEW action \in Recordable, NEW id \in OpIds,
               Record(i, action, id)
        PROVE  StoreKept
    <3>1. action \in Actions
      BY ChoiceAssumption DEF Actions
    <3> QED  BY <1>3, <2>2, <3>1, RecordIsChange DEF Record
  <2> QED  BY <1>6, <2>1, <2>2 DEF LocalStep
<1>7. CASE StartStep
  <2>1. CASE StartPrepare
    <3>1. call.incident \in Incidents
      BY <2>1 DEF StartPrepare, TypeInv, CallBelongs
    <3> QED  BY <1>2, <2>1, <3>1 DEF StartPrepare
  <2>2. CASE StartRecord
    <3>1. call.incident \in Incidents /\ call.id \in OpIds /\ "start" \in Actions
      BY <2>2 DEF StartRecord, TypeInv, CallBelongs, Actions
    <3> QED  BY <1>3, <2>2, <3>1, RecordIsChange DEF StartRecord
  <2>3. CASE StartSync \/ StartFails
    BY <1>1, <2>3 DEF StartSync, StartFails, device
  <2>4. ASSUME NEW i \in Incidents, NEW expected \in 1..MaxVersion, NEW id \in OpIds,
               StartCall(i, expected, id)
        PROVE  StoreKept
    BY <1>1, <2>4 DEF StartCall, device
  <2> QED  BY <1>7, <2>1, <2>2, <2>3, <2>4 DEF StartStep
<1>8. CASE SyncStep
  <2>1. CASE SyncSkip \/ SyncPick \/ SyncEnd \/ SyncRejected
    <3>1. UNCHANGED <<snapshots, queue>>
      BY <2>1, ZenonT(30) DEF SyncSkip, SyncPick, SyncEnd, SyncRejected, device
    <3> QED  BY <1>1, <3>1
  <2>2. CASE SyncRead
    BY <1>1, <1>4, <2>2 DEF SyncRead, device
  <2>3. CASE SyncReadFails
    BY <1>4, <2>3 DEF SyncReadFails
  <2>4. CASE SyncPostFails
    BY <1>4, <2>4 DEF SyncPostFails
  <2>5. CASE SyncAck
    BY <1>3, <2>5, AckIsAcknowledge
  <2>6. CASE SyncConfirm
    <3>1. job.op.incident \in Incidents
      BY <2>6, InProgress DEF SyncConfirm
    <3> QED  BY <1>2, <2>6, <3>1 DEF SyncConfirm
  <2> QED  BY <1>8, <2>1, <2>2, <2>3, <2>4, <2>5, <2>6 DEF SyncStep
<1>9. CASE SyncBegin \/ StorageFails
  BY <1>1, <1>9 DEF SyncBegin, StorageFails, device
<1>10. CASE ReviewStep
  <2>1. ASSUME NEW i \in Incidents, Inspect(i) PROVE StoreKept
    BY <1>2, <2>1 DEF Inspect
  <2>2. ASSUME NEW i \in Incidents, NEW expected \in 1..MaxVersion, KeepRemote(i, expected)
        PROVE  StoreKept
    BY <1>2, <2>2 DEF KeepRemote
  <2>3. ASSUME NEW original \in queue, NEW expected \in 1..MaxVersion, NEW id \in OpIds,
               Reformulate(original, expected, id)
        PROVE  StoreKept
    BY <1>3, <2>3, ReformulateIsChange
  <2> QED  BY <1>10, <2>1, <2>2, <2>3 DEF ReviewStep
<1> QED  BY <1>5, <1>6, <1>7, <1>8, <1>9, <1>10 DEF Next

\* The workflows are written over a store that stores an operation only with the
\* snapshot of its incident, behind all others, and takes operations out one by
\* one: what AtomicStore lets a request do, its queue being the rows in order.
THEOREM StoreSteps == Spec => [][StoreUsed]_<<snapshots, queue>>
<1>1. Init => Rowed(queue)
  BY FS_EmptySet DEF Init, Rowed
<1>2. TypeInv /\ Safe /\ TypeInv' /\ Rowed(queue) /\ [Next]_vars
        => [StoreUsed]_<<snapshots, queue>> /\ Rowed(queue)'
  <2>1. UNCHANGED vars => UNCHANGED <<snapshots, queue>>
    BY DEF vars, device
  <2>2. Rowed(queue) /\ UNCHANGED queue => Rowed(queue)'
    BY DEF Rowed
  <2> QED  BY <2>1, <2>2, StoreStep DEF StoreKept, TypeInv
<1> QED  BY <1>1, <1>2, CopiesInductive, PTL DEF Spec

=============================================================================
