# CampusOps: a formal model

CampusOps is an Expo/React Native client with which reporters, technicians and
coordinators work on campus incidents, also without a network, and an in-memory
course backend. What a user does offline is saved on the device and sent later,
once, under the account that did it. This directory holds TLA+ specifications of
its components, the TLC configurations that check them on small instances, and the
theorems TLAPS proves about them for instances of every size.

| component | modules | proofs |
|---|---|---|
| three-way merge | `ThreeWayMerge`, `MCThreeWayMerge` | `ThreeWayMergeProofs` |
| offline workflows, gateway, backend | `IncidentSync`, abstract `IntentLedger`, `MCIncidentSync` | `IncidentSyncProofs` |
| session controller | `Session`, abstract `SessionRegister`, `MCSession` | `SessionProofs` |
| session transport and retries | `SessionTransport` (over `SessionRegister`), `MCSessionTransport` | `SessionTransportProofs` |
| local store | `LocalStore`, abstract `AtomicStore`, `MCLocalStore` | `LocalStoreProofs` |
| online repository, use cases, backend | `OnlineIncidents`, abstract `AnsweredCall`, `MCOnlineIncidents` | `OnlineIncidentsProofs` |
| screen | `IncidentScreen`, `MCIncidentScreen` | `IncidentScreenProofs` |
| location search | `LocationSearch`, `MCLocationSearch` | `LocationSearchProofs` |

`PROJECT.json` lists components, runs, mutants, the map from definitions to source
lines, findings, hazards and theorems. Run with `tlc -config <file>.cfg <module>`; check
proofs with `tlapm <module>.tla`.

## 1. Inventory

Paths are relative to the application's source directory; `course-backend/` and `docs/`
are at the root of the repository.

**IncidentWorkspace** (`application/sync/IncidentWorkspace.ts`). State: the promise
`tail` that serializes workflows; everything else is durable. Operations: `cache`,
`recover`, `start`, `record`, `synchronize`, `inspect`, `keepRemote`, `reformulate`.
Each captures the session's identity, waits for its turn and re-checks the identity
after every await. Hard: session changes and crashes between awaits, a cycle of many
requests interleaved with writes, lost and late answers, chains of reformulations.
Correct when: no intention is lost or executed twice, none is sent by another
account, archived decisions stay, and copies are states the server really had.

**Three-way merge** (`application/sync/resolveSync.ts`). Pure. Correct when it keeps
both sides' changes and conflicts exactly when that is impossible.

**Sync gateway** (`infrastructure/sync/HttpIncidentSyncGateway.ts`). Stateless:
`read`, `apply`, and the check that a receipt is the exact operation's.

**Local store** (`infrastructure/persistence/SqliteLocalWorkspace.ts`,
`createExpoWorkspace.ts`). State: tables `snapshots` and `pending_operations`, the schema
version, photo files, the queue of tasks. Operations: `open` (with the migration),
`close`, `saveSnapshot`, `commitChange`, `enqueue`, `acknowledge` and reads. Hard: the
photo files are not part of the transaction; crashes, failed clean-up, migration of
damaged rows, replays. Correct when it is an atomic store to its callers and nothing
stored refers to what is not there.

**Course backend** (`course-backend/campusops.mjs`). State: incidents with version and
history, and results by actor, path and idempotency key. A POST replays a stored
result or is authorized, locked on `baseVersion`, executed and stored.

**Session controller** (`application/session/DefaultSessionController.ts`,
`RefreshCoordinator.ts`, `infrastructure/session/*`). State: state machine, generation,
tokens, the shared refresh promise, the storage queue, the secure store. Operations:
`login`, `refresh`, `logout`, `invalidate`, `restore`, `getSnapshot`. Hard: answers of an
earlier generation, the order of saves and clears, a crash at any await, failing
storage. Correct when the latest decision wins, refresh tokens are presented once and
a closed session never comes back.

**Session transport and retries** (`infrastructure/http/SessionTransportDecorator.ts`,
`IncidentRetryExecutor.ts`, `FetchIncidentTransport.ts`,
`application/resilience/RetryPolicy.ts`). State per request: generation, attempts,
deadline, the token it was sent with. Hard: credentials of another session, one budget
over retries and the replay after a 401, timers that wake early. Correct when every
attempt is allowed, carries its own session's credentials, and every request ends.

**Online repository and use cases** (`infrastructure/incidents/*`,
`application/incidents/*`). Stateless: `findAll`, `findById`, `create`, `performAction`
with one idempotency key per call. Hard: copies of a request that arrive late, answers
that are truncated or about something else. Correct when each call has its effect once
and the user is told the truth about it.

**User interface** (`ui/*`, `application/ui-state/*`). State: the waits for list, detail and
action, the copies shown, locks, the form, the panel. Hard: every answer may come after
the user moved on or the session changed. Correct when what is shown belongs to the
session and the selection, and no lock or wait is left without the call that ends it.

**Location lookup** (`application/location/*`, `infrastructure/location/*`, the search of
`CreateIncidentScreen.tsx`). State: a bounded LRU cache and a provider with a cooldown,
shared by all forms. Correct when a candidate belongs to the form it is shown in and
the provider is left alone as long as it asks.

**Telemetry and diagnostics**: best effort. **AuthenticatedIncidentTransport**: an
earlier transport no longer in the graph. **course-evaluation**: grading adapters.
**Composition root, health check**: wiring, one stateless request.

How they interact: the UI calls the use cases and the workspace; the workspace calls
the local store (transactions) and the gateway; gateway and repository send through
the session transport, which adds the session's credentials and may renew or
invalidate the session; the session publishes `(actorId, generation)`, which the
workspace, the transport and the screen capture and compare. The composition in the
model follows these interfaces: `SessionTransport` runs against the register that
`Session` is proved to implement; `IncidentSync` uses the store as the atomic steps that
`LocalStore` is shown to implement, and sees the transport as requests delivered any
number of times, at any moment, with answers possibly lost; `OnlineIncidents` sees it as
a number of copies of one request; `IncidentScreen` sees the workspace as the state of the
account's copies.

## 2. The models

### 2.1 The offline workflows (`IncidentSync`)

| variable | code |
|---|---|
| `session` | `SessionController.getSnapshot()`: actor and generation |
| `snapshots` | table `snapshots`: owner, base, local, operation states and replacements, confirmed operations |
| `queue`, `nextRow` | table `pending_operations` and its AUTOINCREMENT |
| `job` | the `synchronize` call in progress: remaining operations, stopped incidents, processed identities, its own copy of the snapshot, the version its GET saw, the answer to its POST |
| `call` | the `start` call in progress, between its three workflows |
| `posts` | POSTs sent that may still reach the server |
| `server` | every version of every incident: fields, and the operation whose execution made it (`history` and the idempotency store are read from it) |
| `recorded` | history variable: what was ever committed to the queue |

Grain. Workflows are serialized (`run`), so at most one is in progress. One that only
awaits the database, or reads the server once before it writes, is one action: nobody
else writes meanwhile, and a session or server change in its awaits equals one before
it (its checks reject it) or after it. `synchronize` is a job with one action per await:

| action | code (IncidentWorkspace.ts) |
|---|---|
| `SyncBegin`, `StartSync` | 209-213, the queue is listed |
| `SyncSkip`, `SyncPick` | 214-226, whose turn; replacements, processed, archived, other authors, stopped incidents |
| `SyncRead`, `SyncReadFails` | 230-243, GET, merge or conflict; its errors by kind |
| `DeliverPost` | the backend's POST handler; any number of times, at any moment |
| `SyncConfirm` | 244-257, receipt, choice of the latest record, saved snapshot |
| `SyncAck` | 258, the row is deleted |
| `SyncPostFails` | 260-270, retry, forbidden or conflict |
| `SyncEnd`, `SyncRejected`, `StorageFails` | 272-274; `check`; a failed statement |

`Cache`, `Record`, `Inspect`, `KeepRemote`, `Reformulate` are the other workflows;
`StartCall`, `StartPrepare`, `StartRecord`, `StartSync`, `StartFails` are `start`, whose
three workflows let others in between. `EndSession`, `BeginSession` and `Crash` change
the identity at any moment. `OtherClient` is another device's, or this device's online,
change on the server.

Data. A note, photo or its text is known by the identity of the intention it came from
(`intent`), which a reformulation keeps while its identity changes. `fields` has the
four fields the client and other clients change (`work`, `notes`, `evidence`, `priority`);
the constant `details` is left out. Status, priority and roles are the code's own.

Left out: the `resolutions` log and the `remote` copy (written, never read back by a
workflow); `notes` and `photos` of a snapshot beside the record (display); messages,
diagnostics; restart of the in-memory backend, which loses its history (the documents
declare it unsupported). Recording an empty note and too short an identity are
refusals without effect.

### 2.2 The session (`Session`, `SessionRegister`)

| variable | code |
|---|---|
| `session` | `state`, `actorId`, `tokens`, `generation` of the controller |
| `coordinator` | the `RefreshCoordinator`'s generation and flight |
| `promise` | `refreshPromise` and `refreshPromiseGeneration` |
| `calls` | the calls of `login`, `refresh`, `logout`, `restore` that await something |
| `queue`, `busy` | `storageQueue` and the operation of the secure store that executes |
| `store` | the record in the secure store, the only durable part |
| `lapsed`, `issued` | the clock against `expiresAt`; the tokens the provider has given |
| `logins`, `closed`, `wanted`, `presented`, `reported`, `epoch` | history variables |

Each call advances one step per await. `Login` and `Logout` begin a generation at once;
`LoginAnswered` and `RefreshAnswered` are the provider's answers or failures, which queue a
save or a clean-up; `RefreshBegins` is the microtask that presents the refresh token;
`StorageSkips`, `StorageBegins`, `StorageDone` and `StorageFails` are the queue's operations
with what their call does once they settle; `RestoreReads` reads outside the queue, as
the code does. `Restart` kills the app with a storage operation done or not. `Logout`
and the clearing of account and role are one step: `logout` notifies before it clears
them, but in state `logging-out`, in which no subscriber takes the session for usable,
and it awaits nothing in between. A pair of
tokens is known by its serial number, and remembers its account and login. `invalidate`
is a logout if its generation is still the current one.

`SessionRegister` is what readers of the session may rely on: one account per
generation, which never comes back under it, and renewals that bring newer tokens.

### 2.3 Requests (`SessionTransport`)

It extends `SessionRegister` with `reqs`, the requests of the incident API with everything
the decorator and the executor keep in their closures, and a clock. `Begin`, `Renewed`,
`Prepared`, `Send`, `TimesOut`, `Unavailable`, `Concludes`, `Unauthorized`, `Recovered`,
`Wake` and `Abort` are the stretches of code between awaits; answers may come at any
moment, with any status. The retry configuration is a set of constants under the code's
own validation.

Left out: a restart of the app, which ends every request; a clock that goes back (the
executor then gives up); other paths, which are single sends. Two behaviours worth
knowing: a second 401 of a request that was replayed ends the session of its
generation even when another request has renewed it since; and a 401 of a request whose
attempt carried a newer token than the one it began with is replayed without a renewal.

### 2.4 The local store (`LocalStore`, `AtomicStore`)

| variable | code |
|---|---|
| `db` | the schema version, `snapshots`, `pending_operations`, its AUTOINCREMENT |
| `files` | the attachment directory |
| `opened`, `queue` | the connection, the tasks waiting behind `tail` |
| `task` | the task in progress with the photos copied so far, and how the last one settled (`answer`) |
| `submitted`, `kept`, `leaked` | a counter; history variables |

A transaction is atomic (SQLite, external). The copies of photos are not part of it:
`Retain` and `RollBack` make and remove them one by one, before `Commit` and after
`CommitFails`, and `RetainFails`, `RollBackFails` and `Crash` may happen at each of
them. `Open` migrates a database of schema 0 or 1 or refuses a damaged one.
`AtomicStore` says what the callers get. It serves their requests one at a time, in the
order they came. A request answered `done` has had its whole effect in that very step:
for `commitChange` the snapshot and the row together, the row last and new; for an
operation that is there already, nothing at all, whatever snapshot it was handed in
with. A request refused, or cut short by the end of the app, has changed nothing, and
no step without an answer changes the store. The workflows use it by what such requests
do (`StoreSteps`). The database found at first is any that the program may have left
(`FirstDbsAssumption`: sequences increasing, identities unique, an operation over a
stored snapshot), and the directory holds the photos it refers to. An acknowledgement
deletes the row of its identity, which is UNIQUE.

Known and kept as it is: a crash between the copy of a photo and the commit leaves a
file nobody removes (`leaked`); no code or document promises a sweep.

### 2.5 The online operations (`OnlineIncidents`, `AnsweredCall`)

| variable | code |
|---|---|
| `server` | the backend's incidents: every version, with the key and the call that made it |
| `session`, `shown` | the account, and the version of each incident its screens were last given |
| `calls` | calls of `CreateIncident`, `PerformIncidentAction` and the repository under them |
| `requests` | copies of requests that may still reach the server |

`Create` and `Perform` validate as the use cases do and send the first copy, `Resend` is
the transport's decision to send it again, `Deliver` is the backend's handler for one
copy with its answer (lost, late, or settling the call), `Misanswered` a readable 200
that is about something else and confirms the call nevertheless, `Fail` everything that
leaves the outcome open. `Confirms` is the repository's check of the answer.
`AnsweredCall` says what one call promises: its effects and what the user is told of it.
Every press of a button is a new call with a key of its own; repeating one blindly is
`IncidentScreen`'s matter. A start with a local workspace is `IncidentSync`'s. A
creation reports every refusal as a failure. The first version of an incident stands for
whatever went before (`FirstStatuses`). A confirmed replay may show an older version
than the list did: the next read repairs it.

### 2.6 The screen (`IncidentScreen`)

| variable | code (CampusOpsApp.tsx and the hooks it uses) |
|---|---|
| `gen`, `usable` | the session's generation, `sessionUsable` |
| `list`, `detail`, `attention` | the three waits of `useRemoteRequest` |
| `views` | `localViews` |
| `writing`, `busy` | `writing`/`writeInFlight`, `workspaceBusy`/`running` |
| `view`, `creating`, `createError`, `review` | navigation, the form, the panel's inspection |
| `effect`, `overtaken` | the panel's effect, and caches that an earlier effect queued |
| `calls`, `ids` | calls under way; a counter of requests |
| `device` | the account's copies in the workspace: none, clean (the server's record), pending, conflict, or archived (no operation is active, but the local record still holds changes that `keepRemote` archived) |
| `kept` | incidents with queued operations that no cycle of this account sends: archived, replaced, or another account's |
| `doubt` | history: written, and neither confirmed nor read again |

A handler is one step up to its await, and one per answer after it. Rendering follows
each step at once, so effects are part of it (`Effects`). Which buttons a role and a
status offer is `OnlineIncidents`' and `IncidentSync`'s guard, not repeated here. What
a task may leave in the copies is `Results`: a coordinator may also review a copy of
another account, which its own do not show (allowed whenever it has none of its own, an
over-approximation). A value shown is `sure` if it is the server's record:
`FromServer` takes that from what the task showed, the record reviewed or a copy that
is clean, not from the state it is shown in. Four behaviours worth knowing: a creation
that succeeds takes the user to the list even from another view; a read begun before a
write that was cancelled ends the doubt about it, so the action can be pressed again
and only the server's version check protects it; an old answer never aborts a remote
write; and after a `keepRemote` whose `recover` failed, "Sincronizar" shows the local
record with the archived changes as a success (4).

### 2.7 The location search (`LocationSearch`)

`cache`, `nextAllowed` and `requests` are the cache, the provider's cooldown and its
single flight, shared by all forms; `form` is `CreateIncidentScreen`, whose `requestId` is
the field `wanted` of a request: the form that asked is mounted and has not raised it.
`SearchRejected`, `SearchHits`, `SearchRefused` and `SearchSent` are `execute` up to its
await, `Answered`, `RateLimited` and `Failed` its ends, with the mapping and validation of
places (`Mapped`, `Validated`). The clock goes forward only. `TTL = 0`, which disables the
cache, is modelled and proved about, not run.

## 3. Properties and runs

| run | instance | shows |
|---|---|---|
| `merge` | two optional fields, three values | `MergeHonoursBoth`, `ConflictOnlyWhenNecessary`, `MergeIsStable` against the reference `Honours` |
| `review` | 2 technicians, coordinator, 3 identities, starts and notes, readable bodies, one session change | `NoIntentLost`, `ConfirmedWereExecuted`, `ActiveEntriesShown`, `IntentsExecutedOnce`, `ArchiveIsFinal`, `ArchivedNeverSent`, `CycleNeverRegresses` |
| `accounts` | 2 technicians, photos, the start button, every change of status by others, two session changes | `PendingBelongToOwner`, `CopiesCoherent` |
| `cycle` | technician, coordinator, 2 identities, unreadable bodies, fairness | `OperationsExecutedOnce`, `IntentsStillHandled`, `LedgerSpec` (refinement), `CycleEnds` |
| `duplicate`, `spurious` (violations) | see the findings | `IntentsExecutedOnce`, `UntouchedNeverConflicts` |
| `session` | 2 accounts, 3 calls at a time, 2 generations and tokens, a restart, fairness | `Coherent`, `LatestDecisionWins`, `TokenPresentedOnce`, `NothingLeftBehind`, `RegisterSpec` (refinement), `StatesSettle` |
| `transport` | 2 requests, one tagged with its session and one without a stable key, 2 attempts, fairness | `SendsWhenAllowed`, `CredentialsMatchRequest`, `RequestsRespectSession`, `RequestEnds` |
| `store` | an empty, an old and a damaged database, 2 identities, 3 files, 4 tasks, fairness | `NothingDangles`, `AtomicSpec` (refinement), `TasksSettle` |
| `screen` | 2 incidents, one left in conflict, 2 sessions, 4 requests of the user, 2 calls at once | `ShownIsCurrent`, `WaitsMatchCalls`, `ConfirmedUnlessKept`, `NoBlindRepeat`, `AnswersKeepSelection` |
| `location` | 4 spellings of 3 keys and a blank one, a cache of 2 | `CandidateFitsForm`, `ProviderLeftAlone`, `KeepsMostRecent`, `HitsAreRecent` |
| `online` | one account of each role, 2 calls of 2 copies each, 3 incidents | `AnswersAreTrue`, `CallsAnswered` (refinement) |

Each property's comment in its module says what it means and what would break it. The
type invariant of a new module is a conjunct of one of its properties (`Coherent`,
`NothingDangles`, `ShownIsCurrent`, `KeepsMostRecent`, `AnswersAreTrue`; in
`SessionTransport` the record type in `SendsWhenAllowed`).

What three of them do not say. `ArchivedNeverSent` is about the first send of an
operation: `posts` keeps what was sent, since its copies may arrive at any later time.
`MergeIsStable` merges again with the same server record; what the next change of the
server meets is `UntouchedNeverConflicts`, which does not hold (4). `ConfirmedUnlessKept`
excepts a success of the panel over an incident that still has operations kept in the
queue, since the program does show such a copy as one (4); what it says there is that the
cache, which is given every success shown, does not store it as the server's.

Bounds and why they suffice. *IncidentSync*: versions to 3 or 4 leave room for an
operation, another client's change between its base and its execution, and the execution
of its reformulation; what `IntentsExecutedOnce` is about needs a late request and two
identities, and three make chains. One or two session changes let an account leave in
the middle of a workflow, and another or the same come back and find its rows. One
incident is enough since snapshots, stops and server versions are per incident.
*Session*: three calls make a superseded call, its successor and a third one at the
storage queue at once; two tokens make a rotation; one restart lets what a run stored be
restored. *SessionTransport*: two attempts make a retry and leave the replay after a 401
one to compete for; the budget of two units is spent by one timeout and one wait.
*LocalStore*: two new photos make a second copy fail after the first; the old database's
rows are out of the order of their identities and have gaps. *IncidentScreen*: two
incidents make an answer about the other one; two sessions make an answer of the earlier
one. One incident found in conflict (`OneConflict`) is what the panel's review,
archiving and reformulation start from, and the other is free for actions; two calls at
once make a late answer meet a new call; four requests read, inspect, archive and
synchronize. The queue first found holds nothing else (`FirstKept`): operations are
archived on the way; the proof covers any. *LocationSearch*: three keys overflow the
cache; TTL and wait of two units are crossed by a clock of three. *OnlineIncidents*: two
calls with two copies each make every order of copies, answers and a competing change.

Deadlock. `IncidentSync` and the merge never stop, and their runs check it. The other
instances bound what users may ask for, so they stop once everything asked for has
ended: their configurations say `CHECK_DEADLOCK FALSE`. What deadlock would mean there is
stated as a property instead: `StatesSettle`, `RequestEnds`, `TasksSettle`, and in
`WaitsMatchCalls` that every call under way can be answered.

`MCIncidentSync` makes identities interchangeable (symmetry), `MCIncidentScreen` the
incidents and `MCOnlineIncidents` the new incidents; never in a run with liveness.

Every property has a mutant in `PROJECT.json`: a plausible bug in a definition of the
model (a receipt not checked, workflows or storage operations not serialized, a
generation not compared, a timer trusted, a lock freed by another call, a key made per
attempt, a replay that stores its snapshot, a cache that looks at waiting operations
only) with which TLC finds the property violated. The
mutated forms stand beside the definitions they replace.

Fairness, and why the code justifies it:

- `IncidentSync.FairSpec`: `WF_vars(SyncStep)`. A cycle in progress takes its next step,
  since a request has at most four attempts in a bounded time and each fetch has its
  own timeout, and database statements return or fail.
- `Session.FairSpec`: the storage queue moves on (the secure store's promises settle) and
  a provider call is answered or fails (`FetchIncidentTransport`'s timeout).
- `SessionTransport.TFairSpec`: the clock ticks, timers fire and awaits resume, and a
  renewal settles, which is `StatesSettle`. The server never has to answer.
- `LocalStore.FairSpec`: the promises of the database and the file system settle.
- `IncidentScreen`, `LocationSearch`, `OnlineIncidents`: none. Nothing is assumed of users,
  servers or deliveries anywhere.

## 4. Findings

*A reformulated intention can be executed twice* (run `duplicate`). `reformulate` looks
in the server's history only for the identity it is given
(`IncidentWorkspace.ts:334`). Operation o1 is sent and its answer is unreadable, so it
is marked as a conflict; it is reformulated as o2 on the same version before its
request arrives. Then o1's request arrives and executes, o2 is refused as a version
conflict, and the history has o1, not o2: reformulating o2 as o3 is allowed, and the
note appears twice. `docs/sync-policy.md:184-186` promises that reformulation rejects
an original already in the history, because an ambiguous answer calls for a replay and
not for another operation that repeats the effect. With readable bodies the run
`review` finds no such case.

*A field the user never touched can conflict* (run `spurious`). When a send fails, the
snapshot saved at `IncidentWorkspace.ts:265` contains the merged local record over the
old base. A value of `priority` taken from the server now counts as a local change;
the next change of it on the server is a conflict, though `docs/sync-policy.md:28` says
that a field without a local change takes the remote value.

*An archived change can be shown as a success* (no run of its own: it is the exception
of `ConfirmedUnlessKept`, and without the exception the run `screen` reaches it).
`keepRemote` archives the operations and leaves their changes in the local record
(`IncidentWorkspace.ts:312-318`). If the `recover` after it fails
(`OfflineWorkspacePanel.tsx:80`), the views still say conflict, and "Sincronizar", which
finds nothing active, hands that record to `onRecovered` as a `success` (lines 109-114).
`docs/week-10-baseline.md:44` has `success` for an active answer with data, and
`docs/adr/ADR-001-architecture.md:575` lets only a synchronization that saved and
acknowledged account for a confirmation. Showing it ends the doubt of `NoBlindRepeat` as
any success does. The record is not stored as the server's: `cache` refuses while the
archived rows are queued.

Behaviours that no document contradicts, worth knowing: `keepRemote` does not consult
the history, so an operation that was already executed can be archived as reviewed;
archived rows, which are never purged, keep `cache` from refreshing the copy of their
incident for every account of the device (`docs/sync-policy.md:199` documents them as
retained); after a reformulation an executed note of another pending intention can be
shown twice until the next cycle; and those named in 2.3, 2.4 and 2.6.

## 5. Proofs

Assumptions are those stated in the modules, which TLC evaluates in every run. The
numbers of incidents, accounts, identities, calls, tokens, versions and session changes
are arbitrary. Every safety invariant and action property a run checks has a theorem,
but for the last conjunct of `WaitsMatchCalls`. `IndInv`, `CopyInv`, `OnceInv` and
`TransportInv` were run by TLC on the runs' instances before they were proved.

**IncidentSync.** `IncidentSyncProofs` has six parts. The first proves `Spec => []TypeOK`.
`TypeOK` is not inductive alone: reading the last version needs every incident to have one
(`NonEmpty`), a confirmation reads the version the answer names (`ReadsExist`), and a start
request in progress needs the session it was made in (`CallBelongs`). Choosing the
earliest row of a set uses well-foundedness of the naturals. The second proves `IndInv`,
from which follow `NoIntentLost`, `ConfirmedWereExecuted` and `PendingBelongToOwner`. Why
each part is needed:

- `SyncAck` deletes a row, so the job's phase `ack` must mean *executed*
  (`CycleCoherent`); that comes from the receipt (`ReceiptIsExact`: an event with the
  operation's identity, author and action on the version after its base is this very
  request, because an identity names one operation up to a repeated start, and events
  sit on the version after their base: `IdentitiesUnique`, `EventsRecorded`).
- The row deleted is found by identity: no two rows share one (`IdentitiesUnique`).
- What is sent or in a cycle was recorded (`FromRecorded`), and is still in the queue
  unless this cycle processed it (`CycleCoherent`).
- The snapshot a cycle carries keeps its owner and receipts (`CycleCoherent`), since
  nothing else writes while it runs.

`ExecutedAtMostOnce` proves `OperationsExecutedOnce` from the idempotency store alone. The
third part proves `Implements`: the rows of the queue and the server's
events, seen as requests, follow `IntentLedger`. Recording a row is `Record`, an executed
POST is `Execute` (its request must still be in the queue: otherwise `NoIntentLost` says
it was executed and the server would have answered from its store), acknowledging is
`Forget`, and every other step leaves the ledger alone.

The fourth is about what the device shows and decides. `CopyInv` says of each copy that
its base is a version of the server no row under it is ahead of (`BaseReal`), that its
local record has the entry of every active row (`Shown`) and that states are kept of
recorded identities only (`StatesRecorded`), so a new row starts pending. The copy in a
cycle's memory is the stored one but for the fields merged (`MemoryHolds`): without it
`SyncConfirm`, which stores that copy, could undo a decision. The server's entries only
grow (`EntriesKept`), so a local record replaced by a later base still shows what was
executed. `CopiesCoherent`, `ActiveEntriesShown` and `CycleNeverRegresses` follow.
`ArchiveIsFinal`, `ArchivedNeverSent` and `IntentsStillHandled` add how each action
moves the states of rows: only to archived ones or between active ones, a superseded row
hands its intention to a new row, and what a POST carries is active in memory and on the
device.

`IntentsRunOnce` proves `IntentsExecutedOnce` where bodies are readable, from `OnceInv`:
every intention began under its own name, of two identities of one intention one was
left behind without effect, and what is left, or may be, the server does not execute any
more (`Dead`: its base is no longer the last version, or it has a stored result, or it
starts work that is not assigned). The condition is necessary: an operation whose answer
is unreadable counts as a conflict and may be left while its request is under way, the
first finding. Starts are included, whose identity the caller chooses and may hand in
again once the row is gone: the same account then repeats the same intention, which the
server answers from its store; another account that hands it in has an intention of its
own, which is why the property compares the authors.

The fifth is what the prover can say of `CycleEnds`. `CyclesAreBounded`: a cycle over n
rows takes at most 4n + 1 steps of its own. Its measure counts four steps for each
operation not yet taken up, those left to the present one, and the end; each step of
`SyncStep` lowers it, so no operation is taken up twice, and nothing but the begin of
another cycle raises it: not rows recorded meanwhile, nor late answers or changes of
session.

The sixth joins the workflows to the store under them. `StoreSteps`: with the queue
taken as its rows in their order, the workflows change it and the snapshots only by
`Save`, `Change` and `Acknowledge` of `AtomicStore`, each as a whole in one step.
Recording and reformulating are `Change`: the new row has the last sequence and an
identity the queue does not have, so it is appended (`AddedLast`). `SyncAck` is
`Acknowledge` at the row's rank (`TakenOut`), and everything else saves one snapshot or
leaves the store alone. These are the effects that `AtomicStore` allows a request in the
step that answers it, and `LocalStore` implements it (`StoreIsAtomic`), so what
`IncidentSync` takes for one step is one with the photos, failed writes and crashes of
the real store.

**ThreeWayMerge.** For all records a merge honours both sides, a conflict excludes any
record that would, and an unconfirmed merge merges again into itself; and the same of
every behaviour of `MCThreeWayMerge`.

**Session.** `TokensArePresentedOnce` proves `TokenPresentedOnce`. One refresh of the
published generation is in flight at most, it holds the promise, and until it is
answered it holds the published tokens, which it presents when it begins; while it is
not there they have not been presented (`FlightInv`). New tokens that a call saves were
presented by nobody and are nobody else's (`SerialInv`). A login or logout has its
generation to itself, without tokens (`DecisionInv`), so a login that publishes finds no
refresh of its generation; and generation 0, which a restore leaves, has no tokens
(`FirstInv`). The order of the storage queue plays no part. `RegisterInv` adds what
a call of the present generation knows of the state shown (`Work`, `ViewInv`) and gives
`RegisterImplemented`: a login, logout or clean-up is `Decide`, a published save is
`SignIn` or `RefreshEnds`, a restore is `Restore`, and every other step is one of the small
ones or leaves the register alone. `SessionTransport` stands on this theorem.

What is stored depends on the order of the queue, which `StoreInv` adds. The queue has
each call that waits to write once, in the order of generations (`QueueInv`), so behind
the operation of the present decision stands none of an older one. At most one call owns
the present generation, and while it does there are no tokens (`OwnerInv`). Published
tokens are the stored ones, and only the refresh about to replace them waits to write
(`PublishedInv`); before the first decision a restore holds what it read (`RestoreInv`).
Without tokens either an owner is still to write or the store is empty or its failure
reported (`LeftInv`): that is `NothingLeftBehind`. Logins are numbered as they are asked
for, and what may still be stored or published descends from one no completed logout
closed (`ClosedInv`), which with `WantedInv` gives `LatestDecisionWins`. `Coherent`
follows from all of it with the variables' types (`PlainInv`).

**SessionTransport.** `TransportInv` says of each request what its clocks, attempts and
tokens are while the session only ages (`Fits`). It is proved of one request at a time:
a step changes one request and the session, and the others see no more than a register
that moved on. `SerialsAssumption` of `SessionRegister`, that serials are naturals, is what
lets tokens be compared. `SendsWhenAllowed`, `CredentialsMatchRequest` and
`RequestsRespectSession` follow. `RequestsUseTheRegister` closes the chain: the transport
moves the session by steps of `SessionRegister`, and those the controller implements.

**LocalStore.** `StoreInv`: the task in progress is one that was handed in (`TaskInv`);
rows are in the order of their sequence with an identity each, filled in exactly in the
present schema, over a stored snapshot (`RowsInv`); what the tables refer to is in the
directory, and every other file was given up or is a copy of the write in progress,
which nothing refers to (`FilesInv`). The copies are what makes it hard: a roll-back may
remove them only because no snapshot refers to one, and a write that copies found no row
of its operation, so its commit adds one. The lemmas about `RemoveAt` and the migration
say that both keep order and identities. `StoreIsAtomic` maps the task in progress to
the request served and its settling to the answer. The step in which a task settles
without an error is the one step that changes the tables, by exactly what its kind may
do: a commit stores snapshot and row together (`Change`) because `WriteBegins` found no
row of its identity and nothing else ran since; a task that found one answers without
touching either (`Replay`). `Retain`, `CommitFails` and the clean-up leave the tables as
they were, so what ends in an error, or in a crash, is `Refuse` or `Stop` over an
unchanged store. A commit in two steps, a snapshot that stays after a failed commit, and
a replay that stores its snapshot have no abstract step.

**OnlineIncidents.** `CallsAreExecutedOnce` proves `CallsExecutedOnce` from `OnlineInv`:
a version that is the effect of a call carries its key, and is what it asked for on the
version it was decided on (`EventInv`), so a copy that arrives later finds the stored
result; an action's effect comes on the version after its base, which stays where it is.
`AnswersHold` proves `AnswersAreTrue` with `TruthInv`: a refused action has no effect,
and is refused for good, since what the lock and the authorization looked at can only
change with the version. It assumes that no two creations have the same text
(`TextsDiffer`): a creation is confirmed by its content, so a readable answer about
another creation of the same text would be taken for its own. The run's instance
satisfies it. `EachCallImplements` is the refinement, under the same condition: each
call is an `AnsweredCall`, its effects being the versions it made. Making it is `Ask`; a
copy that executes it is `Execute`, which nothing but the first can be
(`EffectsCounted`), and a refused call no longer; an answer that arrives with or without
that step is `Answer`; other calls, other clients, reads and changes of account are
stutters.

**IncidentScreen.** `ScreenInv`. Calls have numbers of their own (`Numbered`), and a
loading wait has a call of this session that it awaits (`Held`): with the first, no
other call is ever awaited, so an answer that is shown is of this session although
`settleRemoteRequest` does not compare generations. That gives `ShownIsCurrent` with
`Sound` (a value is of the wait's incident) and `Over` (an outcome lies over the detail
of its incident). The locks belong to the calls under way, one action or task and one
creation at a time (`Locks`): `LocksMatchCalls`. Because nothing else changes copies
while an action runs, one that answered a record with changes left still finds them when
its outcome is shown (`Unsure`), which is why a success of an action was confirmed. For
the panel, `SuccessIsConfirmedUnlessKept` follows where the values come from. Only
`keepRemote` leaves a copy with archived changes, and its rows stay queued for as long
as the session lasts (`KeptInv`); a success shown is then the record reviewed, a clean
copy, or of an incident with rows kept (`SureInv`), and so is everything handed to the
effect that caches (`GivenInv`). As `cache` stores nothing of an incident with a queued
row (`Stores`), what it stores is the server's. `NoBlindRepeat` needs that the incident
shown is in doubt only while the detail is a local copy or an outcome other than success
lies over it (`Admitted`); every way to clear that outcome either reads the incident
again or shows a local copy. Effects run in the render after a step, and see only what
`Sound` says of the new waits (`PanelInvEffects`).

**LocationSearch.** `ProviderIsLeftAlone`: one request at most, none before `nextAllowed`,
which covers every wait asked for. `SearchInv` adds the cache and the form. The cache is
the end of the history of uses, where each key stands once (`Matches`), so evicting the
first entry evicts the key unused for longest; each entry is usable and expires at most
`TTL` after the provider gave it (`Good`). A request that is wanted is about the form as
it is, which shows nothing meanwhile (`FormInv`), since every edit, search and new form
raises the requests under way.

Only model-checked. Liveness (`CycleEnds`, `StatesSettle`, `RequestEnds`, `TasksSettle`) is
beyond the prover: of `CycleEnds` it leaves to TLC that a cycle with steps left can take
one. So is `ENABLED`: of `WaitsMatchCalls` the part `LocksMatchCalls` is proved
(`LocksAreHeldByCalls`), that every call can be answered is only checked. What
`UntouchedNeverConflicts` says is false (4).

## 6. Not modelled, and what is left

Not modelled: telemetry and diagnostics (output nobody reads back), the transport of week
6 (superseded, not built by the app), the course's evaluation adapters, the composition
root and the health check, layout and texts, `FakeIncidentRepository` (a stand-in for
tests). Of the backend: its failure scenarios and fixtures are inputs of the models that
meet them; login always succeeds for a known account. One hazard in `PROJECT.json` has no
property, for the reason given there.

What could come next: `IncidentScreen` run with more requests of each kind and with
operations of other accounts queued from the beginning, and a run of its own for the
archived change shown as a success.
