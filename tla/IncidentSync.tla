---------------------------- MODULE IncidentSync ----------------------------
(***************************************************************************)
(* The offline-first core of CampusOps: the durable workspace of one       *)
(* device (snapshots and the queue of pending operations), the workflows   *)
(* of IncidentWorkspace that change it, the session they run under, the    *)
(* gateway's requests, and the incident backend they talk to.              *)
(*                                                                         *)
(* Workflows are serialized, so the device has at most one in progress.    *)
(* A workflow that awaits only the local database, or reads the server     *)
(* once before it writes, is one action: nobody else writes the database   *)
(* meanwhile, its GET changes nothing, and a session change or a server    *)
(* change during its awaits is a session change before it (its checks      *)
(* reject it) or a server change after it.  synchronize interleaves        *)
(* several requests with its writes: it is a job, one step per await.      *)
(***************************************************************************)
EXTENDS Integers, Sequences, FiniteSets, ThreeWayMerge

CONSTANTS
  Incidents,        \* incident identifiers
  Actors,           \* accounts, of any role
  Role,             \* [Actors -> Roles]
  Reporter,         \* [Incidents -> Actors], who opened each incident
  FirstAssignee,    \* the technician each incident starts assigned to
  OpIds,            \* operation identities
  NoActor, NoId, NoOp, NoIncident, OtherEntry,  \* "none"; another client's note
  Recordable,       \* the local changes the user makes in this instance
  External,         \* the actions other clients perform in this instance
  Workflows,        \* the workflows the user invokes in this instance
  MalformedBodies,  \* TRUE: a response body may be unreadable
  MaxVersion,       \* bound on the versions of an incident
  MaxGeneration     \* bound on session changes

Roles == {"reporter", "technician", "coordinator"}
Technicians == {a \in Actors : Role[a] = "technician"}

ASSUME ActorAssumption ==
  /\ Role \in [Actors -> Roles]
  /\ Reporter \in [Incidents -> Actors]
  /\ FirstAssignee \in Technicians
  /\ NoActor \notin Actors
ASSUME BoundAssumption == MaxVersion \in Nat /\ MaxGeneration \in Nat
ASSUME ChoiceAssumption ==
  /\ Recordable \subseteq {"start", "comment", "add_evidence"}
  /\ MalformedBodies \in BOOLEAN

VARIABLES
  session,    \* [actor, generation]: the identity SessionController publishes
  snapshots,  \* durable: [Incidents -> Snapshot]
  queue,      \* durable: the rows of pending_operations
  nextRow,    \* durable: the next AUTOINCREMENT sequence
  job,        \* the synchronize workflow in progress, or NoJob
  call,       \* the start request in progress, or NoCall
  posts,      \* POST requests that may still reach the server
  server,     \* [Incidents -> Seq(version)]: every version of each incident
  recorded    \* history: every operation ever committed to the queue

device == <<snapshots, queue, nextRow>>
vars == <<session, device, job, call, posts, server, recorded>>

-----------------------------------------------------------------------------
(* Data. *)

Statuses == {"open", "assigned", "in_progress", "resolved", "closed"}
Priorities == {"low", "medium", "high"}
Works == [assignee : Actors \union {NoActor}, status : Statuses]
\* A note or a photo reference is known by the intent it came from: a
\* reformulated operation has a new identity and the same payload.
Entries == OpIds \union {OtherEntry}
Fields == [work : Works, notes : Seq(Entries), evidence : Seq(Entries),
           priority : Priorities]
Records == [version : Nat, fields : Fields]

Actions == {"start", "comment", "add_evidence"}
Operations ==
  [id : OpIds, incident : Incidents, actor : Actors, action : Actions,
   base : Nat, intent : OpIds, row : Nat]
OpStates == {"pending", "retry", "conflict", "forbidden", "reviewed", "superseded"}
ASSUME NoneAssumption ==
  NoOp \notin Operations /\ NoId \notin OpIds /\ OtherEntry \notin OpIds

\* owner = NoActor: no snapshot of the incident.
Snapshots ==
  [owner : Actors \union {NoActor}, base : Records, local : Records,
   states : [OpIds -> OpStates], replacement : [OpIds -> OpIds \union {NoId}],
   confirmed : SUBSET Operations]
Replies == [outcome : {"none", "ok", "forbidden", "conflict"}, version : Nat]
Jobs ==
  [phase : {"idle", "next", "read", "post", "ack"},
   actor : Actors \union {NoActor}, generation : Nat,
   todo : SUBSET Operations, stopped : SUBSET Incidents, processed : SUBSET OpIds,
   op : Operations \union {NoOp}, snap : Snapshots, seen : Nat, reply : Replies]
Calls ==
  [phase : {"none", "prepare", "record", "sync"}, incident : Incidents \union {NoIncident},
   expected : Nat, id : OpIds \union {NoId}]
Versions == [fields : Fields, event : Operations \union {NoOp}]

FirstFields ==
  [work |-> [assignee |-> FirstAssignee, status |-> "assigned"],
   notes |-> <<>>, evidence |-> <<>>, priority |-> "medium"]
FirstRecord == [version |-> 1, fields |-> FirstFields]
Fresh(actor, record, confirmed) ==
  [owner |-> actor, base |-> record, local |-> record,
   states |-> [o \in OpIds |-> "pending"],
   replacement |-> [o \in OpIds |-> NoId], confirmed |-> confirmed]
NoSnapshot == Fresh(NoActor, FirstRecord, {})

NoReply == [outcome |-> "none", version |-> 0]
NoJob ==
  [phase |-> "idle", actor |-> NoActor, generation |-> 0, todo |-> {},
   stopped |-> {}, processed |-> {}, op |-> NoOp, snap |-> NoSnapshot,
   seen |-> 0, reply |-> NoReply]
NoCall == [phase |-> "none", incident |-> NoIncident, expected |-> 0, id |-> NoId]

-----------------------------------------------------------------------------
(* The session and the serialization of workflows. *)

SignedIn == session.actor # NoActor
\* check(identity): the workflow still runs under the session it began with.
Current(j) == session.actor = j.actor /\ session.generation = j.generation

\* Mutated form: workflows are not serialized.
AlwaysIdle == TRUE
Idle == job.phase = "idle"
May(workflow) == workflow \in Workflows /\ Idle /\ SignedIn

-----------------------------------------------------------------------------
(* The server. *)

Version(i) == Len(server[i])
FieldsAt(i, v) == server[i][v].fields
RecordAt(i, v) == [version |-> v, fields |-> FieldsAt(i, v)]

Visible(actor, i, fields) ==
  \/ Role[actor] = "coordinator"
  \/ Role[actor] = "reporter" /\ Reporter[i] = actor
  \/ Role[actor] = "technician" /\ fields.work.assignee = actor
VisibleNow(actor, i) == Visible(actor, i, FieldsAt(i, Version(i)))

\* The history of an incident up to version v has this operation's event.
InHistory(op, v) ==
  \E k \in 1..v : LET e == server[op.incident][k].event
                  IN  /\ e # NoOp
                      /\ e.id = op.id /\ e.actor = op.actor /\ e.action = op.action

\* What an operation does to the fields: the server's transition, and the
\* device's own preview of it (applyIntent).
Effect(fields, op) ==
  CASE op.action = "start" -> [fields EXCEPT !.work.status = "in_progress"]
    [] op.action = "comment" -> [fields EXCEPT !.notes = Append(@, op.intent)]
    [] op.action = "add_evidence" -> [fields EXCEPT !.evidence = Append(@, op.intent)]

\* What an operation says to the server: its row is local order, and a start
\* carries no payload.
Request(op) ==
  [id |-> op.id, incident |-> op.incident, actor |-> op.actor, action |-> op.action,
   base |-> op.base, payload |-> IF op.action = "start" THEN NoId ELSE op.intent]

\* The stored result of a request with this actor, path and idempotency key.
Stored(op) ==
  {v \in 1..Version(op.incident) :
     LET e == server[op.incident][v].event
     IN  e # NoOp /\ e.id = op.id /\ e.actor = op.actor}

Accepts(op) ==
  /\ op.base = Version(op.incident)
  /\ op.action = "start" => FieldsAt(op.incident, Version(op.incident)).work.status = "assigned"
Authorized(op) == VisibleNow(op.actor, op.incident)

Answer(op) ==
  LET version(v) == [outcome |-> "ok", version |-> v]
      refused(outcome) == [outcome |-> outcome, version |-> 0]
  IN  IF Stored(op) # {}
        THEN LET v == CHOOSE v \in Stored(op) : TRUE
             IN  IF Request(server[op.incident][v].event) = Request(op)
                   THEN version(v) ELSE refused("conflict")
      ELSE IF ~Authorized(op) THEN refused("forbidden")
      ELSE IF ~Accepts(op) THEN refused("conflict")
      ELSE version(Version(op.incident) + 1)

\* Mutated form: the server executes a resent request again.
ExecutesAgain(op) ==
  /\ Authorized(op)
  /\ op.action = "start" => FieldsAt(op.incident, Version(op.incident)).work.status = "assigned"
\* The request is new, authorized and on the current version: it is executed.
Executes(op) == Stored(op) = {} /\ Authorized(op) /\ Accepts(op)

\* A POST reaches the server: at once, late, or again (the transport resends
\* it, and gives up on answers that do not come in time).  The answer reaches
\* the device if the workflow that sent it still waits for it.
DeliverPost(op) ==
  LET i == op.incident
      awaited == job.phase = "post" /\ job.op = op /\ job.reply = NoReply
  IN  /\ op \in posts
      /\ Executes(op) => Version(i) < MaxVersion
      /\ server' = IF Executes(op)
                     THEN [server EXCEPT ![i] = Append(@,
                            [fields |-> Effect(FieldsAt(i, Version(i)), op), event |-> op])]
                     ELSE server
      /\ job' = IF awaited THEN [job EXCEPT !.reply = Answer(op)] ELSE job
      /\ UNCHANGED <<session, device, call, posts, recorded>>

\* Another client (or this device, online) changes the incident.
OtherClient(i, action) ==
  LET now == FieldsAt(i, Version(i))
      Put(fields) == server' = [server EXCEPT ![i] =
                                  Append(@, [fields |-> fields, event |-> NoOp])]
      Move(status) == Put([now EXCEPT !.work.status = status])
  IN  /\ action \in External
      /\ Version(i) < MaxVersion
      /\ \/ /\ action = "assign" /\ now.work.status # "closed"
            /\ \E t \in Technicians :
                 Put([now EXCEPT !.work = [assignee |-> t, status |-> "assigned"]])
         \/ /\ action = "prioritize"
            /\ \E p \in Priorities \ {now.priority} : Put([now EXCEPT !.priority = p])
         \/ /\ action = "comment"
            /\ Put([now EXCEPT !.notes = Append(@, OtherEntry)])
         \/ action = "start" /\ now.work.status = "assigned" /\ Move("in_progress")
         \/ action = "resolve" /\ now.work.status = "in_progress" /\ Move("resolved")
         \/ action = "close" /\ now.work.status = "resolved" /\ Move("closed")
         \/ /\ action = "reopen" /\ now.work.status \in {"resolved", "closed"}
            /\ Move(IF now.work.assignee = NoActor THEN "open" ELSE "assigned")
      /\ UNCHANGED <<session, device, job, call, posts, recorded>>

-----------------------------------------------------------------------------
(* Snapshots and pending operations. *)

Archived == {"reviewed", "superseded"}
\* Mutated form: an archived intention counts as active.
AlwaysActive(snap, op) == TRUE
Active(snap, op) == snap.states[op.id] \notin Archived

PendingOn(i) == {op \in queue : op.incident = i}
ActiveOn(i) == {op \in PendingOn(i) : Active(snapshots[i], op)}
Own(i) == snapshots[i].owner = session.actor

\* Mutated form: a cached response replaces whatever is pending.
NeverBlocked(i) == FALSE
\* Any operation of the incident still in the queue keeps its snapshot.
Blocked(i) == PendingOn(i) # {}

WithState(snap, id, state) == [snap EXCEPT !.states[id] = state]

\* authorize: who may record an action on an incident with these fields.
MayRecord(actor, i, fields, action) ==
  IF action = "start"
    THEN Role[actor] = "technician" /\ fields.work.assignee = actor
    ELSE Visible(actor, i, fields)

KnownIds == {op.id : op \in queue}
  \union {op.id : op \in UNION {snapshots[i].confirmed : i \in Incidents}}
\* nextId(): an identity nobody has used.
NewIds == OpIds \ ({op.id : op \in recorded} \union {call.id})

-----------------------------------------------------------------------------
(* Session changes.  The workflow in progress finds out at its next check. *)

EndSession ==
  /\ session.generation < MaxGeneration
  /\ session' = [actor |-> NoActor, generation |-> session.generation + 1]
  /\ call' = NoCall
  /\ UNCHANGED <<device, job, posts, server, recorded>>

BeginSession(actor) ==
  /\ ~SignedIn
  /\ session' = [session EXCEPT !.actor = actor]
  /\ UNCHANGED <<device, job, call, posts, server, recorded>>

\* The app is killed and starts again: only the database survives.
Crash ==
  /\ session.generation < MaxGeneration
  /\ session' = [actor |-> NoActor, generation |-> session.generation + 1]
  /\ job' = NoJob
  /\ call' = NoCall
  /\ UNCHANGED <<device, posts, server, recorded>>

-----------------------------------------------------------------------------
(* Local workflows. *)

\* The app hands over an incident it read some time ago, at version v.
Cache(i, v) ==
  /\ May("cache")
  /\ v \in 1..Version(i) /\ Visible(session.actor, i, FieldsAt(i, v))
  /\ ~Blocked(i)
  /\ snapshots' = [snapshots EXCEPT ![i] =
       Fresh(session.actor, RecordAt(i, v), IF Own(i) THEN @.confirmed ELSE {})]
  /\ UNCHANGED <<session, queue, nextRow, job, call, posts, server, recorded>>

NewOperation(i, action, id) ==
  [id |-> id, incident |-> i, actor |-> session.actor, action |-> action,
   base |-> snapshots[i].base.version, intent |-> id, row |-> nextRow]

CanRecord(i, action, id) ==
  /\ Own(i)
  /\ MayRecord(session.actor, i, snapshots[i].local.fields, action)
  /\ action = "start" => snapshots[i].local.fields.work.status = "assigned"
  /\ id \notin KnownIds

\* commitChange: the snapshot and the queued row, in one transaction.
Commit(i, snap, op) ==
  /\ snapshots' = [snapshots EXCEPT ![i] = snap]
  /\ queue' = queue \union {op}
  /\ nextRow' = nextRow + 1
  /\ recorded' = recorded \union {op}

RecordAs(i, action, id) ==
  LET op == NewOperation(i, action, id)
      local == [snapshots[i].local EXCEPT !.fields = Effect(@, op)]
  IN  /\ CanRecord(i, action, id)
      /\ Commit(i, [WithState(snapshots[i], id, "pending") EXCEPT !.local = local], op)

Record(i, action, id) ==
  /\ May("record")
  /\ action \in Recordable /\ id \in NewIds
  /\ RecordAs(i, action, id)
  /\ UNCHANGED <<session, job, call, posts, server>>

-----------------------------------------------------------------------------
(* start: three workflows of one request (ensure a copy, record the start, *)
(* synchronize); others may run between them.                              *)

\* The button sends the version it shows; pressed again, the same identity.
StartCall(i, expected, id) ==
  /\ "start" \in Workflows /\ SignedIn /\ call = NoCall
  /\ expected \in 1..Version(i)
  /\ id \in NewIds \union {op.id : op \in {o \in recorded : o.action = "start"}}
  /\ call' = [phase |-> "prepare", incident |-> i, expected |-> expected, id |-> id]
  /\ UNCHANGED <<session, device, job, posts, server, recorded>>

\* What becomes of the request, once the device has a copy of its own: an
\* identity already recorded is only synchronized, if it is the same request.
Prepared(snap) ==
  LET existing == {op \in queue \union snap.confirmed : op.id = call.id}
      same(op) == /\ op.incident = call.incident /\ op.actor = session.actor
                  /\ op.action = "start" /\ op.base = call.expected
  IN  IF existing # {}
        THEN IF \E op \in existing : same(op) THEN "sync" ELSE "none"
        ELSE IF snap.local.version = call.expected THEN "record" ELSE "none"

StartPrepare ==
  LET i == call.incident
      snap == IF Own(i) THEN snapshots[i]
              ELSE Fresh(session.actor, RecordAt(i, Version(i)), {})
  IN  /\ call.phase = "prepare" /\ Idle
      /\ ~Own(i) => VisibleNow(session.actor, i) /\ ~Blocked(i)
      /\ snapshots' = [snapshots EXCEPT ![i] = snap]
      /\ call' = IF Prepared(snap) = "none" THEN NoCall
                 ELSE [call EXCEPT !.phase = Prepared(snap)]
      /\ UNCHANGED <<session, queue, nextRow, job, posts, server, recorded>>

StartRecord ==
  /\ call.phase = "record" /\ Idle
  /\ RecordAs(call.incident, "start", call.id)
  /\ call' = [call EXCEPT !.phase = "sync"]
  /\ UNCHANGED <<session, job, posts, server>>

\* Any of the request's workflows is refused, offline, or the storage fails.
StartFails ==
  /\ call.phase # "none" /\ Idle
  /\ call' = NoCall
  /\ UNCHANGED <<session, device, job, posts, server, recorded>>

-----------------------------------------------------------------------------
(* synchronize. *)

Begin ==
  job' = [NoJob EXCEPT !.phase = "next", !.actor = session.actor,
            !.generation = session.generation, !.todo = queue]

SyncBegin ==
  /\ May("sync")
  /\ Begin
  /\ UNCHANGED <<session, device, call, posts, server, recorded>>

StartSync ==
  /\ call.phase = "sync" /\ Idle
  /\ Begin
  /\ call' = NoCall
  /\ UNCHANGED <<session, device, posts, server, recorded>>

\* The queued operation whose turn it is, and what is sent in its place: a
\* superseded operation yields its turn to its replacement, if still queued.
Earliest == CHOOSE op \in job.todo : \A other \in job.todo : op.row <= other.row
Target ==
  LET replacement == snapshots[Earliest.incident].replacement[Earliest.id]
  IN  IF replacement = NoId THEN {Earliest}
      ELSE {op \in job.todo : /\ op.id = replacement /\ op.actor = job.actor
                              /\ op.incident = Earliest.incident}
\* Mutated form: an operation passed over stays at the head of the cycle.
RestWithHead == job.todo
Rest == job.todo \ {Earliest}
PassedOver == Earliest.actor # job.actor \/ Earliest.incident \in job.stopped
Sendable ==
  {op \in Target : op.id \notin job.processed /\ Active(snapshots[op.incident], op)}

SyncSkip ==
  /\ job.phase = "next" /\ job.todo # {} /\ Current(job)
  /\ PassedOver \/ (snapshots[Earliest.incident].owner = job.actor /\ Sendable = {})
  /\ job' = [job EXCEPT !.todo = Rest,
               !.processed = IF PassedOver THEN @ ELSE @ \union {op.id : op \in Target}]
  /\ UNCHANGED <<session, device, call, posts, server, recorded>>

SyncPick ==
  /\ job.phase = "next" /\ job.todo # {} /\ Current(job)
  /\ ~PassedOver /\ snapshots[Earliest.incident].owner = job.actor
  /\ \E op \in Sendable :
       job' = [job EXCEPT !.phase = "read", !.todo = Rest, !.op = op,
                 !.processed = @ \union {op.id}, !.snap = snapshots[op.incident]]
  /\ UNCHANGED <<session, device, call, posts, server, recorded>>

\* The snapshot is saved with the operation's outcome; its incident stops.
Stop(snap, outcome) ==
  /\ snapshots' = [snapshots EXCEPT ![job.op.incident] =
                     WithState(snap, job.op.id, outcome)]
  /\ job' = [NoJob EXCEPT !.phase = "next", !.actor = job.actor,
               !.generation = job.generation, !.todo = job.todo,
               !.processed = job.processed,
               !.stopped = job.stopped \union {job.op.incident}]
  /\ UNCHANGED <<session, queue, nextRow, call, posts, server, recorded>>

\* The GET answers: a conflict without a receipt stops the incident, else the
\* compatible fields are merged into the copy and the operation is sent.
SyncRead ==
  LET op == job.op
      snap == job.snap
      seen == Version(op.incident)
      remote == FieldsAt(op.incident, seen)
      merged == IsMerged(snap.base.fields, snap.local.fields, remote)
      fields == MergedFields(snap.base.fields, snap.local.fields, remote)
  IN  /\ job.phase = "read" /\ Current(job)
      /\ VisibleNow(job.actor, op.incident)
      /\ IF ~merged /\ ~InHistory(op, seen)
           THEN Stop(snap, "conflict")
           ELSE /\ job' = [job EXCEPT !.phase = "post", !.seen = seen,
                     !.snap.local.fields = IF merged THEN fields ELSE @]
                /\ posts' = posts \union {op}
                /\ UNCHANGED <<session, device, call, server, recorded>>

SyncReadFails ==
  /\ job.phase = "read" /\ Current(job)
  /\ \/ Stop(job.snap, "retry")
     \/ ~VisibleNow(job.actor, job.op.incident) /\ Stop(job.snap, "forbidden")
     \/ MalformedBodies /\ Stop(job.snap, "conflict")

\* Mutated form: any answer of the server passes for a receipt.
AnyAnswer(op, reply) == reply.outcome # "none"
\* The gateway's check of the receipt: the first event of this identity in the
\* history is the exact operation's, on the version after its base.
Confirms(op, reply) ==
  LET event(v) == server[op.incident][v].event
      e == event(reply.version)
  IN  /\ reply.outcome = "ok"
      /\ reply.version = op.base + 1
      /\ e # NoOp /\ e.id = op.id /\ e.actor = op.actor /\ e.action = op.action
      /\ \A v \in 1..op.base : event(v) # NoOp => event(v).id # op.id

\* Mutated form: the receipt's record is the latest one.
ReceiptVersion(seen, version) == version
\* A replay returns its old receipt, when the GET saw a newer state.
Latest(seen, version) == IF seen > version THEN seen ELSE version

AddConfirmed(confirmed, op) ==
  IF \E c \in confirmed : c.id = op.id THEN confirmed ELSE confirmed \union {op}

SyncConfirm ==
  LET op == job.op
      latest == RecordAt(op.incident, Latest(job.seen, job.reply.version))
      remaining == {o \in PendingOn(op.incident) : o.id # op.id /\ Active(job.snap, o)}
      receipt == [job.snap EXCEPT !.confirmed = AddConfirmed(@, op)]
      snap == IF remaining = {} THEN [receipt EXCEPT !.base = latest, !.local = latest]
              ELSE receipt
  IN  /\ job.phase = "post" /\ Current(job)
      /\ Confirms(op, job.reply)
      /\ snapshots' = [snapshots EXCEPT ![op.incident] = snap]
      /\ job' = [job EXCEPT !.phase = "ack", !.snap = NoSnapshot, !.seen = 0,
                   !.reply = NoReply]
      /\ UNCHANGED <<session, queue, nextRow, call, posts, server, recorded>>

\* acknowledge: the confirmed row is deleted, after the receipt is saved.
SyncAck ==
  /\ job.phase = "ack" /\ Current(job)
  /\ queue' = {op \in queue : op.id # job.op.id}
  /\ job' = [job EXCEPT !.phase = "next", !.op = NoOp]
  /\ UNCHANGED <<session, snapshots, nextRow, call, posts, server, recorded>>

\* The answer is lost or late, refuses the operation, or is unreadable.
SyncPostFails ==
  /\ job.phase = "post" /\ Current(job)
  /\ \/ Stop(job.snap, "retry")
     \/ job.reply.outcome = "forbidden" /\ Stop(job.snap, "forbidden")
     \/ /\ \/ job.reply.outcome = "conflict" \/ MalformedBodies
           \/ job.reply.outcome = "ok" /\ ~Confirms(job.op, job.reply)
        /\ Stop(job.snap, "conflict")

SyncEnd ==
  /\ job.phase = "next" /\ job.todo = {}
  /\ job' = NoJob
  /\ UNCHANGED <<session, device, call, posts, server, recorded>>

\* A check finds another session, or the operation's snapshot another owner.
Rejected ==
  \/ ~Current(job)
  \/ /\ job.phase = "next" /\ job.todo # {} /\ ~PassedOver
     /\ snapshots[Earliest.incident].owner # job.actor

SyncRejected ==
  /\ ~Idle /\ Rejected
  /\ job' = NoJob
  /\ UNCHANGED <<session, device, call, posts, server, recorded>>

\* A statement of the database fails and its transaction is rolled back.
StorageFails ==
  /\ ~Idle
  /\ job' = NoJob
  /\ UNCHANGED <<session, device, call, posts, server, recorded>>

-----------------------------------------------------------------------------
(* Reviews and decisions, each on a fresh authorized read.                 *)

MayReview(i) ==
  /\ snapshots[i].owner # NoActor
  /\ Own(i) \/ Role[session.actor] = "coordinator"

MarkActive(i, state) ==
  [snapshots[i] EXCEPT !.states =
     [id \in OpIds |-> IF \E op \in ActiveOn(i) : op.id = id THEN state ELSE @[id]]]

\* inspect that finds a conflict; one that finds none changes nothing modelled.
Inspect(i) ==
  LET remote == FieldsAt(i, Version(i))
  IN  /\ May("inspect")
      /\ VisibleNow(session.actor, i) /\ MayReview(i)
      /\ ~IsMerged(snapshots[i].base.fields, snapshots[i].local.fields, remote)
      /\ snapshots' = [snapshots EXCEPT ![i] = MarkActive(i, "conflict")]
      /\ UNCHANGED <<session, queue, nextRow, job, call, posts, server, recorded>>

\* The user keeps the remote state of the version reviewed, which must still
\* be the current one; every active intention is archived, none is removed.
KeepRemote(i, expected) ==
  /\ May("keepRemote")
  /\ VisibleNow(session.actor, i) /\ expected = Version(i) /\ MayReview(i)
  /\ \E op \in ActiveOn(i) : snapshots[i].states[op.id] \in {"conflict", "forbidden"}
  /\ snapshots' = [snapshots EXCEPT ![i] = MarkActive(i, "reviewed")]
  /\ UNCHANGED <<session, queue, nextRow, job, call, posts, server, recorded>>

\* Mutated form: the history is not consulted.
NeverExecuted(op, version) == FALSE
\* The server has executed the operation and the answer was lost: it has to be
\* replayed, not reformulated.
AlreadyExecuted(op, version) ==
  \E k \in 1..version : server[op.incident][k].event # NoOp
                          /\ server[op.incident][k].event.id = op.id

\* The author's other intentions, shown again on the new base.
OthersOf(original) ==
  {op \in ActiveOn(original.incident) : op.actor = session.actor /\ op # original}

\* The operations of a set with one action, in the order of their rows (there
\* is exactly one such sequence: rows are distinct).
InRowOrder(ops, action) ==
  LET chosen == {op \in ops : op.action = action}
  IN  {s \in [1..Cardinality(chosen) -> chosen] :
         \A j, k \in 1..Cardinality(chosen) : j < k => s[j].row < s[k].row}
Intents(order) == [k \in 1..Len(order) |-> order[k].intent]

\* A new intention on the version reviewed, with a new identity; the original
\* stays in the queue as an archive.
Reformulate(original, expected, id) ==
  LET i == original.incident
      remote == RecordAt(i, Version(i))
      replacement == [original EXCEPT !.id = id, !.base = remote.version, !.row = nextRow]
      others == OthersOf(original)
      kept(notes, evidence) ==
        [remote.fields EXCEPT
           !.work.status = IF \E op \in others : op.action = "start" THEN "in_progress" ELSE @,
           !.notes = @ \o Intents(notes), !.evidence = @ \o Intents(evidence)]
  IN  /\ May("reformulate")
      /\ Own(i) /\ original \in ActiveOn(i) /\ original.actor = session.actor
      /\ snapshots[i].states[original.id] = "conflict"
      /\ VisibleNow(session.actor, i) /\ expected = remote.version
      /\ ~AlreadyExecuted(original, remote.version)
      /\ MayRecord(session.actor, i, remote.fields, original.action)
      /\ original.action = "start" => remote.fields.work.status = "assigned"
      /\ id \in NewIds
      /\ \E notes \in InRowOrder(others, "comment"),
            evidence \in InRowOrder(others, "add_evidence") :
           LET local == [remote EXCEPT !.fields = Effect(kept(notes, evidence), replacement)]
           IN  Commit(i, [WithState(snapshots[i], original.id, "superseded")
                            EXCEPT !.replacement[original.id] = id,
                                   !.base = remote, !.local = local], replacement)
      /\ UNCHANGED <<session, job, call, posts, server>>

-----------------------------------------------------------------------------
Init ==
  /\ session = [actor |-> NoActor, generation |-> 0]
  /\ snapshots = [i \in Incidents |-> NoSnapshot]
  /\ queue = {}
  /\ nextRow = 1
  /\ job = NoJob
  /\ call = NoCall
  /\ posts = {}
  /\ server = [i \in Incidents |-> <<[fields |-> FirstFields, event |-> NoOp]>>]
  /\ recorded = {}

SessionStep == EndSession \/ (\E actor \in Actors : BeginSession(actor)) \/ Crash

ServerStep ==
  \/ \E op \in posts : DeliverPost(op)
  \/ \E i \in Incidents, action \in External : OtherClient(i, action)

LocalStep ==
  \/ \E i \in Incidents, v \in 1..MaxVersion : Cache(i, v)
  \/ \E i \in Incidents, action \in Recordable, id \in OpIds : Record(i, action, id)

StartStep ==
  \/ \E i \in Incidents, expected \in 1..MaxVersion, id \in OpIds :
       StartCall(i, expected, id)
  \/ StartPrepare \/ StartRecord \/ StartSync \/ StartFails

SyncStep ==
  \/ SyncSkip \/ SyncPick \/ SyncRead \/ SyncReadFails \/ SyncConfirm \/ SyncAck
  \/ SyncPostFails \/ SyncEnd \/ SyncRejected

ReviewStep ==
  \/ \E i \in Incidents : Inspect(i)
  \/ \E i \in Incidents, expected \in 1..MaxVersion : KeepRemote(i, expected)
  \/ \E original \in queue, expected \in 1..MaxVersion, id \in OpIds :
       Reformulate(original, expected, id)

Next ==
  \/ SessionStep \/ ServerStep \/ LocalStep \/ StartStep
  \/ SyncBegin \/ SyncStep \/ StorageFails \/ ReviewStep

Spec == Init /\ [][Next]_vars

\* A started cycle goes on: each await settles, the requests within the
\* transport's budget of attempts and time, the statements of the database.
FairSpec == Spec /\ WF_vars(SyncStep)

-----------------------------------------------------------------------------
(* Properties. *)

\* Every variable has the shape the code gives it, and the workflow in
\* progress holds an operation exactly while it reads, sends or acknowledges.
TypeOK ==
  /\ session \in [actor : Actors \union {NoActor}, generation : Nat]
  /\ snapshots \in [Incidents -> Snapshots]
  /\ queue \in SUBSET Operations /\ IsFiniteSet(queue)
  /\ nextRow \in Nat /\ \A op \in queue : op.row < nextRow
  /\ job \in Jobs
  /\ job.op = NoOp <=> job.phase \in {"idle", "next"}
  /\ call \in Calls
  /\ posts \in SUBSET Operations
  /\ server \in [Incidents -> Seq(Versions)]
  /\ recorded \in SUBSET Operations

\* The server executed this very request: its version says so.
Executed(op) ==
  \E v \in 1..Version(op.incident) :
    LET e == server[op.incident][v].event IN e # NoOp /\ Request(e) = Request(op)

\* An intention that was saved is never lost: through crashes, account
\* changes, lost answers and failed statements, its row stays in the queue
\* until the server has executed that very operation (acknowledge comes only
\* after an exact receipt).
NoIntentLost == \A op \in recorded : op \in queue \/ Executed(op)

\* confirmedOperations, which later answer a repeated start as already done,
\* holds only operations the server executed.
ConfirmedWereExecuted ==
  \A i \in Incidents : \A op \in snapshots[i].confirmed : Executed(op)

\* The strengthening that makes TypeOK inductive.
\* Every incident has a version.
NonEmpty == \A i \in Incidents : Version(i) >= 1
\* A start request in progress belongs to the session and names an incident.
CallBelongs ==
  call.phase # "none" => SignedIn /\ call.incident \in Incidents /\ call.id \in OpIds
\* The versions a cycle has read or was answered with exist.
ReadsExist ==
  IF job.phase = "post"
    THEN /\ job.seen \in 1..Version(job.op.incident)
         /\ job.reply.outcome = "ok" => job.reply.version \in 1..Version(job.op.incident)
    ELSE job.reply = NoReply

\* The strengthening that makes NoIntentLost inductive.
\* What is queued, sent or in a cycle was recorded.
FromRecorded ==
  /\ queue \subseteq recorded
  /\ posts \subseteq recorded
  /\ job.todo \subseteq recorded
\* An event of an incident is a recorded operation on it, on the next version.
EventsRecorded ==
  \A i \in Incidents : \A v \in 1..Version(i) :
    LET e == server[i][v].event
    IN  e # NoOp => e \in recorded /\ e.incident = i /\ v = e.base + 1
\* An identity names one operation; only a start may be recorded again under
\* its identity, and not while its row is in the queue.
IdentitiesUnique ==
  /\ \A a, b \in recorded : a.id = b.id => a = b \/ (a.action = "start" /\ b.action = "start")
  /\ \A a, b \in queue : a.id = b.id => a = b
  /\ call.phase # "none" => \A op \in recorded : op.id = call.id => op.action = "start"
\* The cycle sends what is still in the queue, each identity once, and deletes
\* only the row of an executed operation; its copy of the snapshot is current.
CycleCoherent ==
  /\ \A op \in job.todo : op \in queue \/ op.id \in job.processed
  /\ job.op # NoOp => job.op \in queue /\ job.op.id \in job.processed
  /\ job.phase = "ack" => Executed(job.op)
  /\ job.phase \in {"read", "post"} =>
       /\ job.snap.owner = snapshots[job.op.incident].owner
       /\ \A op \in job.snap.confirmed : Executed(op)

\* A pending operation lies over a copy owned by its author: no other
\* account's cache or start takes the incident's copy from under it.
PendingBelongToOwner ==
  \A op \in queue : snapshots[op.incident].owner = op.actor

\* The base of a copy is a state the server really had at that version, the
\* local record carries the same version, and no pending operation is based on
\* a later one: merge and optimistic lock compare the same history.
CopiesCoherent ==
  \A i \in Incidents : snapshots[i].owner # NoActor =>
    /\ snapshots[i].base.version \in 1..Version(i)
    /\ snapshots[i].base = RecordAt(i, snapshots[i].base.version)
    /\ snapshots[i].local.version = snapshots[i].base.version
    /\ \A op \in PendingOn(i) : op.base <= snapshots[i].base.version

\* The inductive invariant of the proofs.
IndInv ==
  /\ TypeOK /\ NonEmpty /\ CallBelongs /\ ReadsExist
  /\ NoIntentLost /\ ConfirmedWereExecuted
  /\ FromRecorded /\ EventsRecorded /\ IdentitiesUnique /\ CycleCoherent
  /\ PendingBelongToOwner

\* An intention has its effect on the server at most once, although its
\* request may be resent, arrive after a timeout, or be reformulated under
\* another identity.  (An intention is its author's: an identity that another
\* account hands in again stands for another intention.)
IntentsExecutedOnce ==
  \A i \in Incidents : \A j, k \in 1..Version(i) :
    LET e == server[i][j].event
        f == server[i][k].event
    IN  e # NoOp /\ f # NoOp /\ e.intent = f.intent /\ e.actor = f.actor => j = k

\* An operation identity, resent, delivered twice or handed in again, is
\* executed at most once for its author (also when answers are unreadable).
OperationsExecutedOnce ==
  \A i \in Incidents : \A j, k \in 1..Version(i) :
    LET e == server[i][j].event
        f == server[i][k].event
    IN  e # NoOp /\ f # NoOp /\ e.id = f.id /\ e.actor = f.actor => j = k

\* What the user wrote stays visible: the note or photo of every intention
\* still to be decided is in the local record, whatever a cycle merged, saved
\* or rebased meanwhile.
ActiveEntriesShown ==
  \A i \in Incidents : \A op \in ActiveOn(i) :
    LET shown(entries) == \E k \in 1..Len(entries) : entries[k] = op.intent
    IN  /\ op.action = "comment" => shown(snapshots[i].local.fields.notes)
        /\ op.action = "add_evidence" => shown(snapshots[i].local.fields.evidence)

\* An intention is never left with superseded rows only: one of its
\* operations was executed, waits to be sent, or was archived by a decision.
IntentsStillHandled ==
  \A op \in recorded : \E r \in recorded :
    /\ r.intent = op.intent
    /\ Executed(r) \/ (r \in queue /\ snapshots[r.incident].states[r.id] # "superseded")

\* Review decisions are final: a row archived as reviewed or superseded keeps
\* that state while it is in the queue.
ArchiveIsFinal ==
  [][\A op \in queue \intersect queue' :
       snapshots[op.incident].states[op.id] \in Archived =>
         snapshots'[op.incident].states[op.id] = snapshots[op.incident].states[op.id]]_vars

\* No cycle sends an archived intention by itself, nor one of another author.
ArchivedNeverSent ==
  [][\A op \in posts' \ posts :
       /\ op \in queue /\ op.actor = session.actor
       /\ snapshots[op.incident].states[op.id] \notin Archived]_vars

\* A cycle never takes the copy back: the base it publishes is newer than the
\* one it replaces and not older than the state it read on the way, although a
\* replay answers with the receipt of an older version.
CycleNeverRegresses ==
  [][\A i \in Incidents : ~Idle /\ snapshots'[i].base # snapshots[i].base =>
       /\ snapshots'[i].base.version > snapshots[i].base.version
       /\ snapshots'[i].base.version >= job.seen]_vars

\* Every cycle ends, so that the workflows queued behind it run.
CycleEnds == ~Idle ~> Idle

Requests(ops) == {Request(op) : op \in ops}
EventsOf(i) == {server[i][v].event : v \in 1..Version(i)} \ {NoOp}

\* The device and the server implement the ledger of intentions: operations
\* are recorded, executed only after that, and forgotten only when executed.
Ledger == INSTANCE IntentLedger WITH
  outstanding <- Requests(queue),
  executed <- Requests(UNION {EventsOf(i) : i \in Incidents})
LedgerSpec == Ledger!Spec

\* (Not an invariant.)  A field the device never edits never conflicts: with
\* no local change, the remote content is taken.
UntouchedNeverConflicts ==
  \A i \in Incidents :
    "priority" \notin Conflicts(snapshots[i].base.fields, snapshots[i].local.fields,
                                FieldsAt(i, Version(i)))
=============================================================================
