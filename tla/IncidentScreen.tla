---------------------------- MODULE IncidentScreen ----------------------------
(***************************************************************************)
(* The root component CampusOpsApp with its list, detail, form and offline *)
(* panel.  Every call it makes answers later, in any order, after the user *)
(* may have moved on or the session may have changed.  A handler is one    *)
(* step up to its await; React renders at once after each step, so the     *)
(* effects that a change triggers (list, panel) are part of the step.  The *)
(* workspace behind the panel is IncidentSync, seen here as the state of   *)
(* the account's copies; an old answer never aborts a remote write.        *)
(***************************************************************************)
EXTENDS Integers, FiniteSets

CONSTANTS
  Incidents, NoIncident,
  Tasks,                 \* the panel's tasks an instance uses
  FirstCopies,           \* how a session may find the account's copies
  FirstKept,             \* the incidents with other operations it may find queued
  MaxGeneration, MaxIds, MaxCalls  \* bounds on sessions, requests and calls at once

ASSUME ScreenAssumption ==
  /\ NoIncident \notin Incidents /\ MaxGeneration \in Nat \ {0} /\ MaxIds \in Nat
  /\ FirstKept \subseteq SUBSET Incidents
  /\ FirstCopies \subseteq [Incidents -> {"none", "clean", "pending", "conflict", "archived"}]
  /\ Tasks \subseteq {"sync", "record", "inspect", "keep", "reformulate"}

VARIABLES
  gen, usable,    \* the session: its generation, sessionUsable
  list, detail, attention,  \* the three waits of useRemoteRequest
  views,          \* localViews
  writing, busy,  \* writing and writeInFlight; workspaceBusy and running
  view, creating, createError,
  review,         \* inspection: the wait it was made for
  effect, overtaken,  \* the panel's effect; caches an earlier effect queued
  calls, ids,     \* calls under way; requests made so far
  device,         \* the account's copies in the workspace
  kept,           \* incidents with queued operations that no cycle of the account sends
  doubt           \* history: incidents written and neither confirmed nor read again

session == <<gen, usable>>
form == <<view, creating, createError>>
panel == <<effect, overtaken>>
vars == <<session, list, detail, attention, views, writing, busy, form, review, panel,
          calls, ids, device, kept, doubt>>

-----------------------------------------------------------------------------
(* Data. *)

\* A copy is the server's record, waits for its operations as of
\* localAttentionOutcome, or still holds changes that were archived.
CopyStates == {"none", "clean", "pending", "conflict", "archived"}
Copies == [Incidents -> CopyStates]
\* A value shown: its incident, the generation it was obtained under and
\* whether the server confirmed it (a local copy may hold other changes).
Values == [of : Incidents \union {NoIncident}, from : 0..MaxGeneration, sure : BOOLEAN]
NoValue == [of |-> NoIncident, from |-> 0, sure |-> TRUE]
WaitStates == {"none", "loading", "success", "empty", "error", "cancelled", "offline",
               "pending", "conflict"}
Valued == {"success", "offline", "pending", "conflict"}  \* RemoteUiOutcome with a value
Waits == [state : WaitStates, id : Nat, sel : Incidents \union {NoIncident}, value : Values]
NoWait == [state |-> "none", id |-> 0, sel |-> NoIncident, value |-> NoValue]
Views == [from : 0..MaxGeneration, of : Copies]
NoViews == [from |-> 0, of |-> [i \in Incidents |-> "none"]]
Outcome(state, value) == [state |-> state, value |-> value]

\* The id of a call is the one of the wait it begins, or of the detail in which
\* a task shows its result; inspecting shows none.
Kinds == {"list", "read", "write", "create", "sync", "record", "inspect", "keep", "reformulate"}
Calls ==
  [kind : Kinds, id : Nat, gen : 1..MaxGeneration, of : Incidents \union {NoIncident},
   phase : {"remote", "recorded", "recovering"},
   start : BOOLEAN,   \* a write through the workspace: PerformIncidentAction.localStart
   updated : BOOLEAN, sure : BOOLEAN,  \* the write answered, with a confirmed record
   lost : BOOLEAN,    \* the failure is one of connection
   seen : Nat,  \* currentDetail of the render the panel's task began in
   local : BOOLEAN,   \* it had an outcome of its own: localAttentionOutcome
   after : BOOLEAN]   \* refreshIncidents is awaited by handleCreateSubmit
Call(kind, of) ==
  [kind |-> kind, id |-> IF kind = "inspect" THEN 0 ELSE ids + 1, gen |-> gen, of |-> of,
   phase |-> "remote", start |-> FALSE, updated |-> FALSE, sure |-> FALSE, lost |-> FALSE,
   seen |-> 0, local |-> FALSE, after |-> FALSE]

-----------------------------------------------------------------------------
(* useRemoteRequest and what is derived from the waits at each render. *)

Loading(id, sel) == [state |-> "loading", id |-> id, sel |-> sel, value |-> NoValue]
Begins(c) == Loading(c.id, c.of)

\* Mutated form: settleRemoteRequest compares the selection only.
AwaitsSelection(wait, c) == wait.state = "loading" /\ wait.sel = c.of
Awaited(wait, c) == wait.state = "loading" /\ wait.id = c.id /\ wait.sel = c.of
Settled(wait, c, outcome) ==
  IF Awaited(wait, c)
  THEN [wait EXCEPT !.state = outcome.state, !.value = outcome.value] ELSE wait
Cancelled(wait) == [wait EXCEPT !.state = "cancelled"]

\* Mutated form: the generation is not compared.
AlwaysCurrent(c) == TRUE
\* isCurrent(generation)
Current(c) == c.gen = gen

LocalOutcome(i) ==
  IF i # NoIncident /\ views.from # 0 /\ views.of[i] \in {"pending", "conflict"}
  THEN views.of[i] ELSE "none"
Shown == IF attention.value # NoValue THEN attention.value ELSE detail.value
Selected == Shown.of # NoIncident /\ views.of[Shown.of] # "none"
Retryable(wait) == wait.state \in {"empty", "error", "cancelled", "offline"}
Usable == usable /\ ids < MaxIds /\ Cardinality(calls) < MaxCalls
RemoteIncident ==
  IF attention.state = "success" THEN attention
  ELSE IF detail.state = "success" /\ attention.value = NoValue THEN detail
  ELSE NoWait

-----------------------------------------------------------------------------
(* The copies. *)

\* Mutated form: cache is stopped by the operations that wait, not by archived ones.
StoresOverArchived(i) == device[i] \in {"none", "clean", "archived"}
\* No operation of the incident is queued: its record may be stored as base.
Stores(i) == i \notin kept /\ device[i] \in {"none", "clean"}
Stored(i) == IF Stores(i) THEN [device EXCEPT ![i] = "clean"] ELSE device
Recorded(i) == [device EXCEPT ![i] = IF device[i] = "conflict" THEN "conflict" ELSE "pending"]
\* What a cycle may leave: it sends the operations that wait, of every incident.
Synchronized ==
  {d \in Copies : \A i \in Incidents :
     IF device[i] \in {"pending", "conflict"} THEN d[i] \in {"clean", "pending", "conflict"}
     ELSE d[i] = device[i]}

-----------------------------------------------------------------------------
(* The list and the detail. *)

\* refreshIncidents up to its await.
Refreshes(c) == list' = Begins(c) /\ calls' = calls \union {c} /\ ids' = c.id

Refresh ==
  /\ Usable /\ view = "list" /\ Retryable(list)
  /\ Refreshes(Call("list", NoIncident))
  /\ UNCHANGED <<session, detail, attention, views, writing, busy, form, review, device, kept,
                 doubt>>

Obtained(c) == [of |-> c.of, from |-> c.gen, sure |-> TRUE]
Local(c) == [of |-> c.of, from |-> c.gen, sure |-> FALSE]
Answers(c) ==
  {Outcome("success", Obtained(c)), Outcome("empty", NoValue), Outcome("error", NoValue)}
\* recover() after a connection failure, failed or without a copy: an error.
Fallbacks(c, found) ==
  {Outcome("error", NoValue)} \union (IF found THEN {Outcome("offline", Local(c))} ELSE {})
HasCopies == \E i \in Incidents : device[i] # "none"

\* A connection failure of a wait that was not given up goes to the copies.
ReadFails(c, wait) ==
  /\ c.phase = "remote" /\ Awaited(wait, c)
  /\ calls' = (calls \ {c}) \union {[c EXCEPT !.phase = "recovering"]}
  /\ UNCHANGED <<session, list, detail, attention, views, writing, busy, form, review,
                 ids, device, kept, doubt>>

ListFails(c) == c.kind = "list" /\ ReadFails(c, list)
ListAnswered(c) ==
  /\ c.kind = "list"
  /\ \E o \in IF c.phase = "remote" THEN Answers(c) ELSE Fallbacks(c, HasCopies) :
       list' = Settled(list, c, o)
  /\ calls' = calls \ {c}
  /\ IF c.after /\ Current(c)  \* the rest of handleCreateSubmit
     THEN view' = "list" /\ creating' = FALSE /\ UNCHANGED createError
     ELSE UNCHANGED form
  /\ UNCHANGED <<session, detail, attention, views, writing, busy, review, ids, device, kept,
                 doubt>>

DetailFails(c) == c.kind = "read" /\ ReadFails(c, detail)
DetailAnswered(c) ==
  /\ c.kind = "read"
  /\ \E o \in IF c.phase = "remote" THEN Answers(c) ELSE Fallbacks(c, device[c.of] # "none") :
       detail' = Settled(detail, c, o)
  /\ calls' = calls \ {c}
  /\ UNCHANGED <<session, list, attention, views, writing, busy, form, review, ids, device,
                 kept, doubt>>

Opens(i) ==
  LET c == Call("read", i) IN
  /\ attention' = NoWait /\ detail' = Begins(c)
  /\ calls' = calls \union {c} /\ ids' = c.id
  /\ view' = "detail" /\ doubt' = doubt \ {i}
  /\ UNCHANGED <<session, list, views, writing, busy, creating, createError, review, device,
                 kept>>
OpenIncident(i) ==
  \/ Usable /\ view = "list" /\ list.state \in {"success", "offline"} /\ Opens(i)
  \/ /\ Usable /\ view = "detail" /\ detail.sel = i
     /\ Retryable(detail) \/ (Retryable(attention) /\ ~writing /\ ~busy)
     /\ Opens(i)

SelectLocal(i) ==
  /\ Usable /\ ~busy /\ ~writing /\ views.of[i] # "none"
  /\ attention' = NoWait /\ view' = "detail" /\ ids' = ids + 1
  /\ detail' = [Loading(ids + 1, i) EXCEPT
                  !.state = "offline", !.value = [of |-> i, from |-> views.from, sure |-> FALSE]]
  /\ UNCHANGED <<session, list, views, writing, busy, creating, createError, review, calls,
                 device, kept, doubt>>

ReturnToList ==
  /\ usable /\ view = "detail"
  /\ detail' = NoWait /\ attention' = NoWait /\ view' = "list"
  /\ UNCHANGED <<session, list, views, writing, busy, creating, createError, review, calls, ids,
                 device, kept, doubt>>

\* The wait is given up; the call goes on.
Cancel ==
  /\ usable
  /\ \/ /\ view = "list" /\ list.state = "loading" /\ list' = Cancelled(list)
        /\ UNCHANGED <<detail, attention>>
     \/ /\ view = "detail" /\ detail.state = "loading" /\ detail' = Cancelled(detail)
        /\ UNCHANGED <<list, attention>>
     \/ /\ view = "detail" /\ attention.state = "loading" /\ attention' = Cancelled(attention)
        /\ UNCHANGED <<list, detail>>
  /\ UNCHANGED <<session, views, writing, busy, form, review, calls, ids, device, kept, doubt>>

-----------------------------------------------------------------------------
(* handlePerformAction. *)

\* Mutated form: an unsettled or failed attention does not block the next.
WouldContinue == TRUE
MayContinue == attention.state \in {"none", "success"}
MayWrite ==
  /\ view = "detail" /\ Shown # NoValue /\ detail.state # "offline"
  /\ LocalOutcome(Shown.of) = "none" /\ views.from # 0
  /\ ~busy /\ ~writing /\ MayContinue

Write ==
  /\ Usable /\ MayWrite
  /\ \E start \in BOOLEAN :
       LET c == [Call("write", Shown.of) EXCEPT !.start = start] IN
       attention' = Begins(c) /\ calls' = calls \union {c} /\ ids' = c.id
  /\ writing' = TRUE /\ doubt' = doubt \union {Shown.of}
  /\ UNCHANGED <<session, list, detail, views, busy, form, review, device, kept>>

\* IncidentWorkspace.start persists the intention before it synchronizes.
WriteRecorded(c) ==
  /\ c.kind = "write" /\ c.start /\ c.phase = "remote" /\ Current(c)
  /\ device[c.of] = "none" => Stores(c.of)
  /\ calls' = (calls \ {c}) \union {[c EXCEPT !.phase = "recorded"]}
  /\ device' = Recorded(c.of)
  /\ UNCHANGED <<session, list, detail, attention, views, writing, busy, form, review, ids,
                 kept, doubt>>

WriteEnds(c) == writing' = IF Current(c) THEN FALSE ELSE writing

\* performIncidentAction.execute settled.  What a start left in the workspace
\* may still be pending although it answered a record, or it failed midway.
Left(c) ==
  IF ~c.start \/ ~Current(c) THEN {device}
  ELSE IF c.phase = "recorded" THEN Synchronized ELSE {device, Stored(c.of)}
WriteAnswered(c) ==
  /\ c.kind = "write" /\ c.phase \in {"remote", "recorded"}
  /\ device' \in Left(c)
  /\ \E updated, lost \in BOOLEAN :
       /\ updated => ~lost /\ (c.start => c.phase = "recorded" /\ Current(c))
       /\ IF Current(c) /\ Awaited(attention, c)
          THEN /\ calls' = (calls \ {c}) \union
                    {[c EXCEPT !.phase = "recovering", !.updated = updated, !.lost = lost,
                               !.sure = updated /\ (c.start => device'[c.of] = "clean")]}
               /\ UNCHANGED writing
          ELSE calls' = calls \ {c} /\ WriteEnds(c)
  /\ UNCHANGED <<session, list, detail, attention, views, busy, form, review, ids, kept, doubt>>

\* updated && (!incidentSync || recovered)
Confirmed(c, recovered) == c.updated /\ recovered
WriteOutcome(c, recovered) ==
  LET saved == IF recovered THEN device[c.of] ELSE "none"
      value == [Obtained(c) EXCEPT !.sure = c.sure]
      waits == saved \in {"pending", "conflict"}
  IN CASE waits -> Outcome(saved, Local(c))
       [] ~waits /\ Confirmed(c, recovered) -> Outcome("success", value)
       [] ~waits /\ ~Confirmed(c, recovered) /\ saved # "none" /\ c.lost ->
            Outcome("offline", Local(c))
       [] OTHER -> Outcome("error", NoValue)

\* recover() settled: the outcome is shown unless the wait was given up.
WriteRecovered(c) ==
  /\ c.kind = "write" /\ c.phase = "recovering"
  /\ \E recovered \in {FALSE} \union {Current(c)} :
       LET o == WriteOutcome(c, recovered)
           settles == Awaited(attention, c)
           again == Call("list", NoIncident)
       IN /\ attention' = Settled(attention, c, o)
          /\ views' = IF settles /\ recovered THEN [from |-> gen, of |-> device] ELSE views
          /\ doubt' = IF settles /\ o.state = "success" THEN doubt \ {c.of} ELSE doubt
          /\ IF settles /\ o.state = "success"
             THEN list' = Begins(again) /\ ids' = ids + 1
                  /\ calls' = (calls \ {c}) \union {again}
             ELSE calls' = calls \ {c} /\ UNCHANGED <<list, ids>>
  /\ WriteEnds(c)
  /\ UNCHANGED <<session, detail, busy, form, review, device, kept>>

-----------------------------------------------------------------------------
(* The form. *)

OpenCreate ==
  /\ usable /\ view = "list" /\ list.state \in {"success", "empty"}
  /\ view' = "create" /\ createError' = 0
  /\ UNCHANGED <<session, list, detail, attention, views, writing, busy, creating, review, calls,
                 ids, device, kept, doubt>>
CancelCreate ==
  /\ usable /\ view = "create"
  /\ view' = "list" /\ createError' = 0
  /\ UNCHANGED <<session, list, detail, attention, views, writing, busy, creating, review, calls,
                 ids, device, kept, doubt>>
Create ==
  /\ Usable /\ view = "create" /\ ~creating
  /\ creating' = TRUE /\ createError' = 0
  /\ calls' = calls \union {Call("create", NoIncident)} /\ ids' = ids + 1
  /\ UNCHANGED <<session, list, detail, attention, views, writing, busy, view, review, device,
                 kept, doubt>>
CreateFails(c) ==
  /\ c.kind = "create" /\ calls' = calls \ {c}
  /\ IF Current(c) THEN createError' = c.gen /\ creating' = FALSE
     ELSE UNCHANGED <<createError, creating>>
  /\ UNCHANGED <<session, list, detail, attention, views, writing, busy, view, review, ids,
                 device, kept, doubt>>
CreateSucceeds(c) ==
  /\ c.kind = "create"
  /\ IF Current(c)
     THEN LET again == [Call("list", NoIncident) EXCEPT !.after = TRUE] IN
          list' = Begins(again) /\ calls' = (calls \ {c}) \union {again} /\ ids' = ids + 1
     ELSE calls' = calls \ {c} /\ UNCHANGED <<list, ids>>
  /\ UNCHANGED <<session, detail, attention, views, writing, busy, form, review, device, kept,
                 doubt>>

-----------------------------------------------------------------------------
(* The offline panel: perform, its tasks and its effect. *)

Allowed(kind) ==
  CASE kind = "sync" -> TRUE
    [] kind = "record" -> Selected /\ LocalOutcome(Shown.of) # "conflict"
    [] kind = "inspect" -> Shown # NoValue
    [] kind = "keep" -> Shown # NoValue /\ review # 0 /\ review = detail.id
    [] OTHER -> Selected /\ review # 0 /\ review = detail.id /\ views.of[Shown.of] = "conflict"

Perform(kind) ==
  /\ Usable /\ ~busy /\ ~writing /\ Allowed(kind)
  /\ calls' = calls \union {[Call(kind, Shown.of) EXCEPT
                !.seen = detail.id, !.local = kind = "sync" /\ LocalOutcome(Shown.of) # "none"]}
  /\ ids' = (IF kind = "inspect" THEN ids ELSE ids + 1) /\ busy' = TRUE
  /\ UNCHANGED <<session, list, detail, attention, views, writing, form, review, device, kept,
                 doubt>>

\* The copies a task may leave.  A coordinator also archives, or inspects, the
\* operations of another account's copy.
Results(c) ==
  LET own == IF c.of = NoIncident THEN "none" ELSE device[c.of]
      Becomes(states) == {[device EXCEPT ![c.of] = state] : state \in states}
  IN
  CASE c.kind = "sync" -> Synchronized
    [] c.kind = "record" -> IF own # "none" THEN {Recorded(c.of)} ELSE {}
    [] c.kind = "inspect" ->
         {device} \union IF own = "pending" THEN Becomes({"conflict"}) ELSE {}
    [] c.kind = "keep" ->
         CASE own = "conflict" -> Becomes({"archived"}) [] own = "none" -> {device} [] OTHER -> {}
    [] OTHER -> IF own = "conflict" THEN Becomes({"pending", "conflict"}) ELSE {}
\* An operation archived or replaced stays in the queue.
Keeps(c) == kept' = IF c.kind \in {"keep", "reformulate"} THEN kept \union {c.of} ELSE kept
\* The record the task shows: the one reviewed, or the copy it left.
Recovers(c, copies) ==
  /\ c.of # NoIncident /\ c.kind # "inspect"
  /\ c.kind = "keep" \/ copies[c.of] # "none"
FromServer(c, copies) == c.kind = "keep" \/ (c.kind = "sync" /\ copies[c.of] = "clean")
\* 'success' only when nothing of the incident waits any more, and something
\* waited for the views the task began with.
ShownAs(c, copies) ==
  IF \/ c.kind = "keep"
     \/ c.kind = "sync" /\ c.local /\ copies[c.of] \notin {"pending", "conflict"}
  THEN "success" ELSE "offline"
\* Mutated form: whatever detail is shown is replaced.
ShownAtAll(c) == detail.state # "none"
\* onRecovered: the detail shown when the task began is still the one shown.
StillShown(c) == detail.sel = c.of /\ detail.state # "none" /\ detail.id = c.seen

TaskKinds == {"sync", "record", "inspect", "keep", "reformulate"}
TaskAnswered(c) ==
  /\ c.kind \in TaskKinds /\ c.phase = "remote" /\ Current(c)
  /\ \E copies \in Results(c) :
       /\ device' = copies /\ Keeps(c)
       /\ calls' = (calls \ {c}) \union {[c EXCEPT !.phase = "recovering"]}
       /\ review' = IF c.kind = "inspect" THEN c.seen ELSE review
       /\ IF Recovers(c, copies) /\ StillShown(c)
          THEN LET state == ShownAs(c, copies) IN
               /\ attention' = NoWait
               /\ detail' = [Loading(c.id, c.of) EXCEPT
                               !.state = state,
                               !.value = [Local(c) EXCEPT !.sure = FromServer(c, copies)]]
               /\ doubt' = IF state = "success" THEN doubt \ {c.of} ELSE doubt
          ELSE UNCHANGED <<detail, attention, doubt>>
  /\ UNCHANGED <<session, list, views, writing, busy, form, ids>>

\* The task failed, at once or after it stored something, or its recover() did;
\* after a change of session both do.
TaskEnds(c) == busy' = IF Current(c) THEN FALSE ELSE busy
TaskFails(c) ==
  /\ c.kind \in TaskKinds
  /\ calls' = calls \ {c} /\ TaskEnds(c)
  /\ \/ UNCHANGED <<device, kept>>
     \/ /\ c.kind \in {"sync", "record", "reformulate"} /\ c.phase = "remote" /\ Current(c)
        /\ device' \in Results(c) /\ Keeps(c)
  /\ UNCHANGED <<session, list, detail, attention, views, writing, form, review, ids, doubt>>
TaskRecovered(c) ==
  /\ c.kind \in TaskKinds /\ c.phase = "recovering" /\ Current(c)
  /\ views' = [from |-> gen, of |-> device]
  /\ calls' = calls \ {c} /\ TaskEnds(c)
  /\ UNCHANGED <<session, list, detail, attention, writing, form, review, ids, device, kept,
                 doubt>>

\* The panel's effect runs when it is mounted (key: the generation) and when
\* cacheIncident changes; the cache of an overtaken effect is still made.
NoEffect == [due |-> FALSE, value |-> NoValue]
Effects ==
  IF ~usable' THEN effect' = NoEffect /\ overtaken' = {}
  ELSE IF gen' # gen \/ ~usable
  THEN effect' = [due |-> TRUE, value |-> RemoteIncident'.value] /\ overtaken' = {}
  ELSE IF RemoteIncident' # RemoteIncident
  THEN /\ effect' = [due |-> TRUE, value |-> RemoteIncident'.value]
       /\ overtaken' =
            IF effect.value # NoValue THEN overtaken \union {effect.value} ELSE overtaken
  ELSE UNCHANGED panel

Cached(value) == IF value # NoValue THEN Stored(value.of) ELSE device
EffectRuns ==
  /\ effect.due /\ effect' = NoEffect
  /\ \/ device' = Cached(effect.value) /\ views' = [from |-> gen, of |-> Cached(effect.value)]
     \/ device' \in {device, Cached(effect.value)} /\ UNCHANGED views
  /\ UNCHANGED <<session, list, detail, attention, writing, busy, form, review, overtaken, calls,
                 ids, kept, doubt>>
OvertakenCaches ==
  \E value \in overtaken :
    /\ overtaken' = overtaken \ {value} /\ device' \in {device, Cached(value)}
    /\ UNCHANGED <<session, list, detail, attention, views, writing, busy, form, review, effect,
                   calls, ids, kept, doubt>>

-----------------------------------------------------------------------------
(* The session. *)

\* subscribe's listener and the list effect: usable sessions load the list.
Reopens(now, g) ==
  IF now
  THEN LET c == [Call("list", NoIncident) EXCEPT !.gen = g] IN
       list' = Begins(c) /\ calls' = calls \union {c} /\ ids' = c.id
  ELSE list' = NoWait /\ UNCHANGED <<calls, ids>>

\* The queue a session finds may hold operations archived, or of other accounts.
Finds(copies, held) ==
  \E others \in FirstKept : held = others \union {i \in Incidents : copies[i] = "archived"}
SessionChanges ==
  /\ gen < MaxGeneration /\ gen' = gen + 1
  /\ usable' \in BOOLEAN /\ Reopens(usable', gen + 1)
  /\ detail' = NoWait /\ attention' = NoWait /\ views' = NoViews
  /\ writing' = FALSE /\ busy' = FALSE
  /\ view' = "list" /\ creating' = FALSE /\ createError' = 0
  /\ review' = 0 /\ doubt' = {}
  /\ device' \in FirstCopies /\ Finds(device', kept')
BecomesUsable ==
  /\ ~usable /\ usable' = TRUE /\ Reopens(TRUE, gen)
  /\ UNCHANGED <<gen, detail, attention, views, writing, busy, form, review, device, kept, doubt>>

-----------------------------------------------------------------------------
(* Specification. *)

Init ==
  /\ gen = 1 /\ usable = FALSE
  /\ list = NoWait /\ detail = NoWait /\ attention = NoWait
  /\ views = NoViews /\ writing = FALSE /\ busy = FALSE
  /\ view = "list" /\ creating = FALSE /\ createError = 0 /\ review = 0
  /\ effect = NoEffect /\ overtaken = {} /\ calls = {} /\ ids = 0
  /\ device \in FirstCopies /\ Finds(device, kept) /\ doubt = {}

Answer(c) ==
  \/ ListFails(c) \/ ListAnswered(c) \/ DetailFails(c) \/ DetailAnswered(c)
  \/ WriteRecorded(c) \/ WriteAnswered(c) \/ WriteRecovered(c)
  \/ CreateFails(c) \/ CreateSucceeds(c)
  \/ TaskAnswered(c) \/ TaskFails(c) \/ TaskRecovered(c)
User ==
  \/ Refresh \/ ReturnToList \/ Cancel \/ Write \/ OpenCreate \/ CancelCreate \/ Create
  \/ \E i \in Incidents : OpenIncident(i) \/ SelectLocal(i)
  \/ \E kind \in Tasks : Perform(kind)
Next ==
  \/ (User \/ (\E c \in calls : Answer(c)) \/ SessionChanges \/ BecomesUsable) /\ Effects
  \/ EffectRuns \/ OvertakenCaches
Spec == Init /\ [][Next]_vars

-----------------------------------------------------------------------------
(* Properties. *)

TypeOK ==
  /\ gen \in 1..MaxGeneration /\ usable \in BOOLEAN
  /\ \A w \in {list, detail, attention} :
       w \in Waits /\ (w.value # NoValue <=> w.state \in Valued)
  /\ views \in Views
  /\ {writing, busy, creating} \subseteq BOOLEAN
  /\ view \in {"list", "detail", "create"} /\ createError \in 0..MaxGeneration
  /\ review \in Nat /\ ids \in Nat /\ device \in Copies /\ kept \subseteq Incidents
  /\ effect \in [due : BOOLEAN, value : Values] /\ overtaken \subseteq Values
  /\ calls \subseteq Calls /\ doubt \subseteq Incidents

\* What is shown was obtained under this session and for the incident selected:
\* the values of the three waits, the copies, a form's error and what is cached,
\* and an outcome of an action lies over the incident it is about, however late
\* its answer arrives.
ShownIsCurrent ==
  /\ TypeOK
  /\ \A w \in {list, detail, attention} : w.state \in Valued => w.value.from = gen
  /\ views.from \in {0, gen} /\ createError \in {0, gen}
  /\ \A value \in {effect.value} \union overtaken : value # NoValue => value.from = gen
  /\ detail.value # NoValue => detail.value.of = detail.sel
  /\ attention.state # "none" => detail.state # "none" /\ attention.sel = detail.sel
  /\ attention.value # NoValue => attention.value.of = attention.sel

\* What an action shows as a success was confirmed by the server.  A success of
\* the panel too, but for a copy whose changes were archived: the panel shows it
\* as one when its views are older.  The cache never stores such a record as the
\* server's, although it is given every success shown.
ConfirmedUnlessKept ==
  /\ attention.state = "success" => attention.value.sure
  /\ detail.state = "success" => detail.value.sure \/ detail.sel \in kept
  /\ \A value \in ({effect.value} \union overtaken) \ {NoValue} : Stores(value.of) => value.sure

\* An action on an incident is not repeated until the one before it was shown
\* as confirmed or the incident was read again.
NoBlindRepeat ==
  [][\A c \in calls' \ calls :
       c.kind = "write" /\ c.phase = "remote" => c.of \notin doubt]_vars

\* An answer never selects another incident than the one the user selected,
\* although a task of the panel shows its result in the detail.
AnswersKeepSelection ==
  [][(\E c \in calls : Answer(c)) => detail'.sel = detail.sel]_vars

\* A wait shown as loading has a call that will end it; an action, a task of the
\* panel and a creation hold their lock exactly while they are under way, one
\* action or task and one creation at a time, although waits are given up and
\* calls of an earlier session end in between.
LocksMatchCalls ==
  LET Running(kinds) == {c \in calls : c.kind \in kinds /\ c.gen = gen}
      Finishing == {c \in Running({"list"}) : c.after}
  IN
  /\ list.state = "loading" => \E c \in calls : c.kind = "list" /\ Awaited(list, c)
  /\ detail.state = "loading" => \E c \in calls : c.kind = "read" /\ Awaited(detail, c)
  /\ attention.state = "loading" => \E c \in calls : c.kind = "write" /\ Awaited(attention, c)
  /\ writing <=> Running({"write"}) # {}
  /\ busy <=> Running(TaskKinds) # {}
  /\ creating <=> Running({"create"}) \union Finishing # {}
  /\ Cardinality(Running({"write"} \union TaskKinds)) <= 1
  /\ Cardinality(Running({"create"}) \union Finishing) <= 1

\* The screen is busy exactly while it has a reason to be, and every call can be
\* answered, whatever the server and the copies say.
WaitsMatchCalls == LocksMatchCalls /\ \A c \in calls : ENABLED Answer(c)
==============================================================================
