---------------------------- MODULE OnlineIncidents ----------------------------
(***************************************************************************)
(* The operations that need a connection: HttpIncidentRepository with the  *)
(* use cases over it (GetIncidents, GetIncidentById, CreateIncident,       *)
(* PerformIncidentAction), and the backend's part in them.  One call is    *)
(* one request under one idempotency key, which the transport may send     *)
(* again; each copy arrives late or never, and so does its answer.  A      *)
(* start with a local workspace is IncidentSync's.                         *)
(***************************************************************************)
EXTENDS Integers, Sequences, FiniteSets

CONSTANTS
  Incidents,   \* identifiers, those of new incidents included
  NoIncident,
  First,       \* the incidents there are when the device comes
  FirstStatuses,  \* and the statuses they may have then
  Actors, Role, NoActor,
  Accounts,    \* those that sign in on the device
  Reporter, FirstAssignee,
  MaxCalls,    \* bound on the calls the repository receives
  TextOf,      \* [Calls -> text]: what the user typed: a description, a diagnosis
  NoText,      \* blank
  Requested,   \* what the users of the device ask for in this instance
  MaxVersion,  \* bound on the versions of an incident
  MaxAttempts  \* bound on the copies of a request

Calls == 1..MaxCalls   \* in the order they are made
NoCall == 0
Technicians == {a \in Actors : Role[a] = "technician"}
Statuses == {"open", "assigned", "in_progress", "resolved", "closed"}
ASSUME OnlineAssumption ==
  /\ Role \in [Actors -> {"reporter", "technician", "coordinator"}]
  /\ First \subseteq Incidents /\ FirstStatuses \subseteq Statuses
  /\ Reporter \in Actors /\ FirstAssignee \in Technicians
  /\ Accounts \subseteq Actors /\ NoActor \notin Actors
  /\ MaxCalls \in Nat /\ MaxVersion \in Nat \ {0} /\ MaxAttempts \in Nat \ {0}

VARIABLES
  server,    \* [Incidents -> Seq(version)]: every version; <<>> is not created
  session,   \* the account signed in on the device
  shown,     \* [Incidents -> version]: what it was shown, 0 nothing
  calls,     \* [Calls -> call]: the repository's calls
  requests   \* the copies that may still reach the server
vars == <<server, session, shown, calls, requests>>

-----------------------------------------------------------------------------
(* Data. *)

TechnicianActions == {"resolve"}
CoordinatorActions == {"close", "reopen"}
Actions == TechnicianActions \union CoordinatorActions
\* What made a version: its idempotency key, and (history) whose call it was.
NoEvent == [key |-> NoCall, call |-> NoCall, action |-> "none"]
FirstVersion(status) ==
  [status |-> status, assignee |-> FirstAssignee, reporter |-> Reporter,
   text |-> NoText, diagnosis |-> NoText, event |-> NoEvent]

IdleCall ==
  [phase |-> "idle", actor |-> NoActor, action |-> "none", incident |-> NoIncident,
   base |-> 0, attempt |-> 0]

-----------------------------------------------------------------------------
(* The backend. *)

Version(i) == Len(server[i])
Last(i) == server[i][Version(i)]
Existing == {i \in Incidents : server[i] # <<>>}
Visible(actor, record) ==
  \/ Role[actor] = "coordinator"
  \/ Role[actor] = "reporter" /\ record.reporter = actor
  \/ Role[actor] = "technician" /\ record.assignee = actor
Served(actor) == {i \in Existing : Visible(actor, Last(i))}

\* Mutated form: each attempt of a call generates a key of its own.
KeyPerAttempt(call, attempt) == call + (attempt - 1) * MaxCalls
\* generateIdempotencyKey, once for all the attempts of a call.
KeyOf(call, attempt) == call

\* The stored result of this actor, path and key.
Stored(request) ==
  LET call == calls[request.call] IN
  {p \in Incidents \X (1..MaxVersion) :
     /\ p[2] <= Version(p[1])
     /\ server[p[1]][p[2]].event.key = KeyOf(request.call, request.attempt)
     /\ IF call.action = "create" THEN p[2] = 1 ELSE p[1] = call.incident}

Permitted(call) ==
  IF call.action = "create" THEN Role[call.actor] = "reporter"
  ELSE IF call.action \in CoordinatorActions THEN Role[call.actor] = "coordinator"
  ELSE Role[call.actor] = "technician" /\ Visible(call.actor, Last(call.incident))

Transition(call) ==
  LET status == Last(call.incident).status IN
  CASE call.action = "resolve" -> status = "in_progress"
    [] call.action = "close" -> status = "resolved"
    [] call.action = "reopen" -> status \in {"closed", "resolved"}
Accepts(call) ==
  call.action # "create" => call.base = Version(call.incident) /\ Transition(call)

Created(c, attempt) ==
  [status |-> "open", assignee |-> NoActor, reporter |-> calls[c].actor, text |-> TextOf[c],
   diagnosis |-> NoText, event |-> [key |-> KeyOf(c, attempt), call |-> c, action |-> "create"]]
Changed(c, attempt) ==
  LET call == calls[c]
      last == Last(call.incident)
  IN  [last EXCEPT
         !.event = [key |-> KeyOf(c, attempt), call |-> c, action |-> call.action],
         !.diagnosis = IF call.action = "resolve" THEN TextOf[c] ELSE @,
         !.status = CASE call.action = "resolve" -> "resolved"
                      [] call.action = "close" -> "closed"
                      [] call.action = "reopen" -> IF last.assignee = NoActor THEN "open" ELSE "assigned"]

-----------------------------------------------------------------------------
(* Reads: what the account is shown. *)

NothingShown == [i \in Incidents |-> 0]
\* Another account signs in: the screens start anew.
SignIn(actor) ==
  /\ actor # session
  /\ session' = actor /\ shown' = NothingShown
  /\ UNCHANGED <<server, calls, requests>>

\* findAll: the items whose envelope or payload is not valid are left out.
ReadList ==
  /\ \E items \in SUBSET Served(session) :
       shown' = [i \in Incidents |-> IF i \in items THEN Version(i) ELSE shown[i]]
  /\ UNCHANGED <<server, session, calls, requests>>

\* findById: 403, 404, a null payload and an invalid record show nothing new.
ReadDetail(i) ==
  /\ i \in Served(session)
  /\ shown' = [shown EXCEPT ![i] = Version(i)]
  /\ UNCHANGED <<server, session, calls, requests>>

-----------------------------------------------------------------------------
(* Calls. *)

\* The next call to be made.
Unused(c) == calls[c].phase = "idle" /\ \A d \in 1..(c - 1) : calls[d].phase # "idle"
Sent(c, call) ==
  /\ calls' = [calls EXCEPT ![c] = call]
  /\ requests' = requests \union {[call |-> c, attempt |-> call.attempt]}
  /\ UNCHANGED <<server, session, shown>>

\* CreateIncident.execute, then create: the input is not blank.
Create(c) ==
  /\ "create" \in Requested /\ Unused(c) /\ TextOf[c] # NoText
  /\ Sent(c, [IdleCall EXCEPT !.phase = "waiting", !.actor = session, !.action = "create",
                !.attempt = 1])

\* PerformIncidentAction.execute, then performAction, on the record shown: the
\* role may do it, and a resolution has its diagnosis.
Perform(c, action, i) ==
  /\ action \in Requested /\ Unused(c) /\ shown[i] > 0
  /\ action \in TechnicianActions => Role[session] = "technician"
  /\ action \in CoordinatorActions => Role[session] = "coordinator"
  /\ action = "resolve" => TextOf[c] # NoText
  /\ Sent(c, [IdleCall EXCEPT !.phase = "waiting", !.actor = session, !.action = action,
                !.incident = i, !.base = shown[i], !.attempt = 1])

Waiting(c) == calls[c].phase = "waiting"

\* The transport gives up waiting for an attempt, or it was answered 429 or 5xx,
\* and sends the same request again: the decision is SessionTransport's.
Resend(c) ==
  /\ Waiting(c) /\ calls[c].attempt < MaxAttempts
  /\ Sent(c, [calls[c] EXCEPT !.attempt = @ + 1])

Expected(call, record) ==
  CASE call.action = "resolve" -> "resolved"
    [] call.action = "close" -> "closed"
    [] call.action = "reopen" -> IF record.assignee = NoActor THEN "open" ELSE "assigned"
\* Mutated form: the operation, its event in the history and the content are not
\* compared.
LooksRight(c, reply) ==
  LET call == calls[c] IN
  IF call.action = "create" THEN reply.version = 1 /\ reply.record.status = "open"
  ELSE /\ reply.incident = call.incident /\ reply.version = call.base + 1
       /\ reply.record.status = Expected(call, reply.record)
\* A 200 or 201 says that exactly this creation or action was done.
Confirms(c, reply) ==
  LET call == calls[c]
      key == KeyOf(c, call.attempt)
  IN  /\ reply.key = key
      /\ IF call.action = "create"
           THEN reply.version = 1 /\ reply.record.status = "open" /\ reply.record.text = TextOf[c]
         ELSE /\ reply.incident = call.incident /\ reply.version = call.base + 1
              /\ reply.record.event.key = key /\ reply.record.event.action = call.action
              /\ reply.record.status = Expected(call, reply.record)
              /\ call.action = "resolve" => reply.record.diagnosis = TextOf[c]

Ends(c, outcome) == calls' = [calls EXCEPT ![c].phase = outcome]
\* The call settles on a readable answer: confirmed, and its record shown if the
\* account is still the one that asked, or a failure that leaves the effect open.
Settles(c, reply) ==
  IF Confirms(c, reply)
    THEN /\ Ends(c, "confirmed")
         /\ shown' = IF calls[c].actor = session
                       THEN [shown EXCEPT ![reply.incident] = reply.version] ELSE shown
  ELSE Ends(c, "failed") /\ UNCHANGED shown
\* 403 and 409 of an action; a creation reports any status as a failure.
Refused(c) ==
  /\ Ends(c, IF calls[c].action = "create" THEN "failed" ELSE "refused")
  /\ UNCHANGED shown

Awaited(request) ==
  Waiting(request.call) /\ calls[request.call].attempt = request.attempt
Reply(key, i, v, record) == [key |-> key, incident |-> i, version |-> v, record |-> record]

\* A copy reaches the server, which executes it or not and answers it; the answer
\* is lost, or settles the call if it still waits for this attempt.
Deliver(request) ==
  LET c == request.call
      call == calls[c]
      i == call.incident
      key == KeyOf(c, request.attempt)
      Lost == UNCHANGED <<calls, shown>>
      Executes(j, record) ==
        /\ Version(j) < MaxVersion
        /\ server' = [server EXCEPT ![j] = Append(@, record)]
        /\ \/ Lost
           \/ Awaited(request) /\ Settles(c, Reply(key, j, Version(j) + 1, record))
  IN  /\ request \in requests
      /\ requests' = requests \ {request}
      /\ UNCHANGED session
      /\ IF Stored(request) # {}
           THEN /\ UNCHANGED server
                /\ \/ Lost
                   \/ /\ Awaited(request)
                      /\ \E p \in Stored(request) :
                           Settles(c, Reply(key, p[1], p[2], server[p[1]][p[2]]))
         ELSE IF ~Permitted(call) \/ ~Accepts(call)
           THEN UNCHANGED server /\ (Lost \/ (Awaited(request) /\ Refused(c)))
         ELSE IF call.action = "create"
           THEN \E j \in Incidents \ Existing : Executes(j, Created(c, request.attempt))
         ELSE Executes(i, Changed(c, request.attempt))

\* A readable 200 that is no answer to the call, being about another operation or
\* another record, and confirms it all the same (one that does not is Fail's).
Misanswered(c) ==
  /\ Waiting(c)
  /\ \E i \in Existing, v \in 1..MaxVersion, k \in Calls :
       LET reply == Reply(k, i, v, server[i][v]) IN
       v <= Version(i) /\ Confirms(c, reply) /\ Settles(c, reply)
  /\ UNCHANGED <<server, session, requests>>

\* The time is over, the connection fails, the status is any other, or the body is
\* unreadable or without a valid record; a copy of the request may still arrive.
Fail(c) ==
  /\ Waiting(c) /\ Ends(c, "failed")
  /\ UNCHANGED <<server, session, shown, requests>>

\* Another client changes an incident: an assignment, a start, a note.
OtherVersions(i) ==
  LET last == [Last(i) EXCEPT !.event = NoEvent] IN
  {last}
    \union (IF last.status = "assigned" THEN {[last EXCEPT !.status = "in_progress"]} ELSE {})
    \union {[last EXCEPT !.assignee = t, !.status = "assigned"] :
               t \in IF last.status = "closed" THEN {} ELSE Technicians}
OtherClient(i) ==
  /\ i \in Existing /\ Version(i) < MaxVersion
  /\ \E record \in OtherVersions(i) : server' = [server EXCEPT ![i] = Append(@, record)]
  /\ UNCHANGED <<session, shown, calls, requests>>

-----------------------------------------------------------------------------

Init ==
  /\ \E status \in [First -> FirstStatuses] :
       server = [i \in Incidents |-> IF i \in First THEN <<FirstVersion(status[i])>> ELSE <<>>]
  /\ session \in Accounts /\ shown = NothingShown
  /\ calls = [c \in Calls |-> IdleCall]
  /\ requests = {}

UserStep ==
  \/ \E a \in Accounts : SignIn(a)
  \/ ReadList
  \/ \E i \in Incidents : ReadDetail(i)
  \/ \E c \in Calls : Create(c)
  \/ \E c \in Calls, action \in Actions, i \in Incidents : Perform(c, action, i)
CallStep == \E c \in Calls : Resend(c) \/ Misanswered(c) \/ Fail(c)
ServerStep ==
  \/ \E request \in requests : Deliver(request)
  \/ \E i \in Incidents : OtherClient(i)
Next == UserStep \/ CallStep \/ ServerStep

Spec == Init /\ [][Next]_vars

-----------------------------------------------------------------------------
(* Properties. *)

TypeOK ==
  /\ \A i \in Incidents : Version(i) <= MaxVersion
       /\ \A v \in 1..Version(i) :
            /\ server[i][v].status \in Statuses
            /\ server[i][v].assignee \in Technicians \union {NoActor}
            /\ server[i][v].reporter \in Actors
  /\ session \in Actors /\ shown \in [Incidents -> 0..MaxVersion]
  /\ \A c \in Calls :
       /\ calls[c].phase \in {"idle", "waiting", "confirmed", "refused", "failed"}
       /\ calls[c].phase # "idle" => calls[c].actor \in Actors /\ calls[c].attempt \in 1..MaxAttempts
  /\ requests \subseteq [call : Calls, attempt : 1..MaxAttempts]

\* The versions that are this call's effect.
EffectsOf(c) ==
  {p \in Incidents \X (1..MaxVersion) : p[2] <= Version(p[1]) /\ server[p[1]][p[2]].event.call = c}

\* A call, however often the transport sends it and whenever the copies
\* arrive, has its effect at most once.
CallsExecutedOnce == \A c \in Calls : Cardinality(EffectsOf(c)) <= 1

\* What AnsweredCall promises holds of every call: late and repeated copies execute
\* it once at most, never before it is made nor after the user was told that it was
\* refused, and the one answer the user is given stays true.  (A step that changes
\* neither the call's phase nor the server is a stutter of its promise.)
Promise(c) == INSTANCE AnsweredCall WITH effects <- EffectsOf(c), told <- calls[c].phase
CallsAnswered ==
  /\ \A c \in Calls : Promise(c)!Init
  /\ [][\A c \in Calls : <<calls[c].phase, server>>' # <<calls[c].phase, server>> =>
          [Promise(c)!Next]_<<calls[c].phase, EffectsOf(c)>>]_vars

\* What the user is told is true.  A confirmed call was executed: by itself, on
\* the version it was decided on, as it was asked.  An action told to be refused
\* (403, 409) was not executed by an earlier copy of its request, and no late
\* copy executes it.
AnswersAreTrue ==
  TypeOK /\ \A c \in Calls :
    /\ calls[c].phase = "confirmed" =>
         \E p \in EffectsOf(c) :
           LET record == server[p[1]][p[2]] IN
           IF calls[c].action = "create"
             THEN record.reporter = calls[c].actor /\ record.text = TextOf[c]
             ELSE /\ p = <<calls[c].incident, calls[c].base + 1>>
                  /\ record.event.action = calls[c].action
                  /\ calls[c].action = "resolve" => record.diagnosis = TextOf[c]
    /\ calls[c].phase = "refused" => EffectsOf(c) = {}
==============================================================================
