------------------------- MODULE OnlineIncidentsProofs -------------------------
(***************************************************************************)
(* What is proved of the online operations for any number of accounts,     *)
(* incidents, calls and copies: a call has its effect once, and the user   *)
(* is told the truth about it.                                             *)
(***************************************************************************)
EXTENDS OnlineIncidents, FiniteSetTheorems, TLAPS

Texts == {NoText} \union {TextOf[c] : c \in Calls}
Events == [key : Calls \union {NoCall}, call : Calls \union {NoCall},
           action : Actions \union {"none", "create"}]
Records == [status : Statuses, assignee : Technicians \union {NoActor}, reporter : Actors,
            text : Texts, diagnosis : Texts, event : Events]
CallRecords ==
  [phase : {"idle", "waiting", "confirmed", "refused", "failed"},
   actor : Actors \union {NoActor}, action : Actions \union {"none", "create"},
   incident : Incidents \union {NoIncident}, base : Nat, attempt : Nat]
Made(c) == calls[c].phase # "idle"

ServerInv ==
  /\ server \in [Incidents -> Seq(Records)]
  /\ \A i \in Incidents : Version(i) <= MaxVersion
\* Nobody was shown, or decided on, a version that is not there.
DeviceInv ==
  /\ session \in Accounts
  /\ shown \in [Incidents -> 0..MaxVersion]
  /\ \A i \in Incidents : shown[i] <= Version(i)
  /\ requests \subseteq [call : Calls, attempt : 1..MaxAttempts]
  /\ \A request \in requests : Made(request.call)
CallInv ==
  /\ calls \in [Calls -> CallRecords]
  /\ \A c \in Calls : Made(c) =>
       /\ calls[c].actor \in Accounts /\ calls[c].attempt \in 1..MaxAttempts
       /\ calls[c].action # "none"
       /\ calls[c].action = "create" => TextOf[c] # NoText
       /\ calls[c].action # "create" =>
            /\ calls[c].incident \in Incidents
            /\ calls[c].base \in 1..Version(calls[c].incident)

\* Version v of incident i is the effect of its call: a call that was made, under
\* its own key, as the first version or on the version it was decided on, and as
\* it was asked.
Caused(i, v) ==
  LET record == server[i][v]
      c == record.event.call
  IN  c \in Calls =>
        /\ Made(c) /\ record.event.key = c /\ record.event.action = calls[c].action
        /\ IF calls[c].action = "create"
             THEN v = 1 /\ record.reporter = calls[c].actor /\ record.text = TextOf[c]
             ELSE /\ i = calls[c].incident /\ v = calls[c].base + 1
                  /\ calls[c].action = "resolve" => record.diagnosis = TextOf[c]
\* What nobody called for carries no key, and a first version no text.
Uncaused(i, v) ==
  server[i][v].event.call = NoCall =>
    server[i][v].event.key = NoCall /\ (v = 1 => server[i][v].text = NoText)
EventInv ==
  \A i \in Incidents : \A v \in 1..Version(i) : Caused(i, v) /\ Uncaused(i, v)
\* No two versions are the effect of one call.
OnceInv ==
  \A i, j \in Incidents : \A v \in 1..Version(i), w \in 1..Version(j) :
    /\ server[i][v].event.call \in Calls
    /\ server[i][v].event.call = server[j][w].event.call
    => i = j /\ v = w

OnlineInv == ServerInv /\ DeviceInv /\ CallInv /\ EventInv /\ OnceInv

-----------------------------------------------------------------------------
(* What the invariant says. *)

LEMMA OnceImplies == OnlineInv => TypeOK /\ CallsExecutedOnce
<1> SUFFICES ASSUME OnlineInv PROVE TypeOK /\ CallsExecutedOnce
  OBVIOUS
<1>1. TypeOK
  <2>1. \A i \in Incidents : \A v \in 1..Version(i) : server[i][v] \in Records
    BY DEF OnlineInv, ServerInv, Version
  <2>2. \A i \in Incidents : Version(i) <= MaxVersion
       /\ \A v \in 1..Version(i) :
            /\ server[i][v].status \in Statuses
            /\ server[i][v].assignee \in Technicians \union {NoActor}
            /\ server[i][v].reporter \in Actors
    BY <2>1 DEF OnlineInv, ServerInv, Records
  <2>3. session \in Actors /\ shown \in [Incidents -> 0..MaxVersion]
    BY OnlineAssumption DEF OnlineInv, DeviceInv
  <2>4. \A c \in Calls :
       /\ calls[c].phase \in {"idle", "waiting", "confirmed", "refused", "failed"}
       /\ calls[c].phase # "idle" => calls[c].actor \in Actors /\ calls[c].attempt \in 1..MaxAttempts
    BY OnlineAssumption DEF OnlineInv, CallInv, Made, CallRecords
  <2> QED BY <2>2, <2>3, <2>4 DEF TypeOK, OnlineInv, DeviceInv
<1>2. ASSUME NEW c \in Calls PROVE Cardinality(EffectsOf(c)) <= 1
  <2>1. CASE EffectsOf(c) = {}
    BY <2>1, FS_EmptySet
  <2>2. CASE EffectsOf(c) # {}
    <3>1. PICK p \in EffectsOf(c) : TRUE
      BY <2>2
    <3>2. ASSUME NEW q \in EffectsOf(c)
          PROVE  /\ q[1] \in Incidents /\ q[2] \in 1..Version(q[1]) /\ q = <<q[1], q[2]>>
                 /\ server[q[1]][q[2]].event.call = c
      BY OnlineAssumption DEF EffectsOf, OnlineInv, ServerInv, Version
    <3>3. ASSUME NEW q \in EffectsOf(c) PROVE q[1] = p[1] /\ q[2] = p[2]
      BY <3>1, <3>2 DEF OnlineInv, OnceInv
    <3>4. \A q \in EffectsOf(c) : q = p
      BY <3>1, <3>2, <3>3
    <3>5. EffectsOf(c) = {p}
      BY <3>1, <3>4
    <3>6. Cardinality({p}) = 1
      BY FS_Singleton
    <3> QED BY <3>5, <3>6
  <2> QED BY <2>1, <2>2
<1> QED BY <1>1, <1>2 DEF CallsExecutedOnce

-----------------------------------------------------------------------------
(* Steps that leave the server alone. *)

\* The calls made stay made, for what they were made.
CallsStay ==
  \A c \in Calls : Made(c) =>
    /\ Made(c)' /\ calls'[c].action = calls[c].action /\ calls'[c].actor = calls[c].actor
    /\ calls'[c].incident = calls[c].incident /\ calls'[c].base = calls[c].base

LEMMA VersionNat ==
  ASSUME OnlineInv, NEW i \in Incidents
  PROVE  Version(i) \in Nat /\ \A v \in 1..Version(i) : server[i][v] \in Records
  BY DEF OnlineInv, ServerInv, Version

LEMMA DeviceKeeps ==
  ASSUME OnlineInv, server' = server, CallsStay, CallInv', DeviceInv'
  PROVE  OnlineInv'
<1>1. ServerInv' /\ OnceInv'
  BY DEF OnlineInv, ServerInv, OnceInv, Version
<1>2. ASSUME NEW i \in Incidents, NEW v \in 1..Version(i) PROVE Caused(i, v)' /\ Uncaused(i, v)'
  <2>1. Caused(i, v) /\ Uncaused(i, v)
    BY DEF OnlineInv, EventInv
  <2> QED BY <2>1 DEF Caused, Uncaused, CallsStay
<1>3. EventInv'
  BY <1>2 DEF EventInv, Version
<1> QED BY <1>1, <1>3 DEF OnlineInv

\* A call is made or sent again.
LEMMA SentKeeps ==
  ASSUME OnlineInv, NEW c \in Calls, NEW call \in CallRecords, Sent(c, call),
         call.phase # "idle", call.actor \in Accounts, call.attempt \in 1..MaxAttempts,
         call.action # "none", call.action = "create" => TextOf[c] # NoText,
         call.action # "create" =>
           call.incident \in Incidents /\ call.base \in 1..Version(call.incident),
         Made(c) => /\ call.action = calls[c].action /\ call.actor = calls[c].actor
                    /\ call.incident = calls[c].incident /\ call.base = calls[c].base
  PROVE  OnlineInv'
<1>1. calls' \in [Calls -> CallRecords] /\ calls'[c] = call
      /\ \A d \in Calls : d # c => calls'[d] = calls[d]
  BY DEF Sent, OnlineInv, CallInv
<1>2. UNCHANGED <<server, session, shown>>
      /\ requests' = requests \union {[call |-> c, attempt |-> call.attempt]}
  BY DEF Sent
<1>3. CallsStay
  BY <1>1 DEF CallsStay, Made
<1>4. CallInv'
  <2>1. ASSUME NEW d \in Calls, d # c, Made(d)'
        PROVE  Made(d) /\ calls'[d] = calls[d]
    BY <1>1, <2>1 DEF Made
  <2> QED BY <1>1, <1>2, <2>1 DEF OnlineInv, CallInv, Version
<1>5. DeviceInv'
  <2>1. \A request \in requests' : request \in [call : Calls, attempt : 1..MaxAttempts]
    BY <1>2 DEF OnlineInv, DeviceInv
  <2>2. ASSUME NEW request \in requests' PROVE Made(request.call)'
    BY <1>1, <1>2, <2>1 DEF OnlineInv, DeviceInv, Made
  <2> QED BY <1>2, <2>1, <2>2 DEF OnlineInv, DeviceInv, Version
<1> QED BY <1>2, <1>3, <1>4, <1>5, DeviceKeeps

LEMMA CreateKeeps ==
  ASSUME OnlineInv, NEW c \in Calls, Create(c)
  PROVE  OnlineInv'
<1> DEFINE call == [IdleCall EXCEPT !.phase = "waiting", !.actor = session,
                                    !.action = "create", !.attempt = 1]
<1>1. session \in Accounts /\ session \in Actors
  BY OnlineAssumption DEF OnlineInv, DeviceInv
<1>2. /\ call \in CallRecords /\ call.phase = "waiting" /\ call.actor = session
      /\ call.action = "create" /\ call.attempt = 1
  BY <1>1 DEF CallRecords, IdleCall
<1>3. Sent(c, call) /\ TextOf[c] # NoText /\ ~Made(c) /\ 1 \in 1..MaxAttempts
  BY OnlineAssumption DEF Create, Unused, Made
<1> HIDE DEF call
<1> QED BY <1>1, <1>2, <1>3, SentKeeps

LEMMA PerformKeeps ==
  ASSUME OnlineInv, NEW c \in Calls, NEW action \in Actions, NEW i \in Incidents,
         Perform(c, action, i)
  PROVE  OnlineInv'
<1> DEFINE call == [IdleCall EXCEPT !.phase = "waiting", !.actor = session,
                                    !.action = action, !.incident = i, !.base = shown[i],
                                    !.attempt = 1]
<1>1. session \in Accounts /\ session \in Actors
  BY OnlineAssumption DEF OnlineInv, DeviceInv
<1>2. shown[i] \in 1..Version(i) /\ shown[i] \in Nat
  BY VersionNat DEF Perform, OnlineInv, DeviceInv
<1>3. /\ call \in CallRecords /\ call.phase = "waiting" /\ call.actor = session
      /\ call.action = action /\ call.attempt = 1 /\ call.incident = i /\ call.base = shown[i]
  BY <1>1, <1>2 DEF CallRecords, IdleCall
<1>4. Sent(c, call) /\ ~Made(c) /\ 1 \in 1..MaxAttempts
  BY OnlineAssumption DEF Perform, Unused, Made
<1>5. action # "create" /\ action # "none"
  BY DEF Actions, TechnicianActions, CoordinatorActions
<1> HIDE DEF call
<1> QED BY <1>1, <1>2, <1>3, <1>4, <1>5, SentKeeps

LEMMA ResendKeeps ==
  ASSUME OnlineInv, NEW c \in Calls, Resend(c)
  PROVE  OnlineInv'
<1> DEFINE call == [calls[c] EXCEPT !.attempt = calls[c].attempt + 1]
<1>1. calls[c] \in CallRecords /\ Made(c) /\ calls[c].attempt \in 1..MaxAttempts
      /\ calls[c].attempt < MaxAttempts
  BY DEF Resend, Waiting, Made, OnlineInv, CallInv
<1>2. /\ call \in CallRecords /\ call.phase = calls[c].phase /\ call.actor = calls[c].actor
      /\ call.action = calls[c].action /\ call.attempt = calls[c].attempt + 1
      /\ call.incident = calls[c].incident /\ call.base = calls[c].base
  BY <1>1 DEF CallRecords
<1>3. Sent(c, call) /\ call.attempt \in 1..MaxAttempts
  BY <1>1, <1>2, OnlineAssumption DEF Resend
<1> HIDE DEF call
<1> QED BY <1>1, <1>2, <1>3, SentKeeps DEF OnlineInv, CallInv, Made

\* What the user sees, or who it is, changes.
LEMMA ShownKeeps ==
  ASSUME OnlineInv, UNCHANGED <<server, calls>>, requests' \subseteq requests,
         session' \in Accounts,
         shown' \in [Incidents -> 0..MaxVersion], \A i \in Incidents : shown'[i] <= Version(i)
  PROVE  OnlineInv'
<1>1. CallsStay /\ CallInv'
  BY DEF OnlineInv, CallInv, CallsStay, Made, Version
<1>2. DeviceInv'
  BY DEF OnlineInv, DeviceInv, Made, Version
<1> QED BY <1>1, <1>2, DeviceKeeps

\* At most the outcome of one call changes.
CallsEnd ==
  /\ CallsStay
  /\ calls' \in [Calls -> CallRecords]
  /\ \A d \in Calls : Made(d)' => Made(d) /\ calls'[d].attempt = calls[d].attempt

LEMMA UnchangedEnds == ASSUME OnlineInv, calls' = calls PROVE CallsEnd
  BY DEF CallsEnd, CallsStay, Made, OnlineInv, CallInv

LEMMA EndsEnds ==
  ASSUME OnlineInv, NEW c \in Calls, NEW outcome \in {"confirmed", "refused", "failed"},
         Ends(c, outcome), Made(c)
  PROVE  CallsEnd /\ calls'[c].phase = outcome
         /\ \A d \in Calls : d # c => calls'[d] = calls[d]
<1> DEFINE call == [calls[c] EXCEPT !.phase = outcome]
<1>1. calls[c] \in CallRecords
  BY DEF OnlineInv, CallInv
<1>2. /\ call \in CallRecords /\ call.phase = outcome /\ call.actor = calls[c].actor
      /\ call.action = calls[c].action /\ call.attempt = calls[c].attempt
      /\ call.incident = calls[c].incident /\ call.base = calls[c].base
  BY <1>1 DEF CallRecords
<1> HIDE DEF call
<1>3. calls' = [calls EXCEPT ![c] = call]
  BY DEF Ends, call
<1>4. calls' \in [Calls -> CallRecords] /\ calls'[c] = call
      /\ \A d \in Calls : d # c => calls'[d] = calls[d]
  BY <1>2, <1>3 DEF OnlineInv, CallInv
<1> QED BY <1>2, <1>4 DEF CallsEnd, CallsStay, Made

LEMMA EndCallInv ==
  ASSUME OnlineInv, CallsEnd, \A i \in Incidents : Version(i)' \in Nat /\ Version(i) <= Version(i)'
  PROVE  CallInv'
<1>1. ASSUME NEW d \in Calls, Made(d)'
      PROVE  /\ Made(d) /\ calls'[d].actor = calls[d].actor
             /\ calls'[d].action = calls[d].action /\ calls'[d].attempt = calls[d].attempt
             /\ calls'[d].incident = calls[d].incident /\ calls'[d].base = calls[d].base
  BY <1>1 DEF CallsEnd, CallsStay
<1>2. ASSUME NEW d \in Calls, Made(d)', calls'[d].action # "create"
      PROVE  /\ calls[d].incident \in Incidents
             /\ calls[d].base \in 1..Len(server'[calls[d].incident])
  <2>1. calls[d].incident \in Incidents /\ calls[d].base \in 1..Version(calls[d].incident)
    BY <1>1, <1>2 DEF OnlineInv, CallInv
  <2> QED BY <2>1, VersionNat DEF Version
<1>3. ASSUME NEW d \in Calls, Made(d)'
      PROVE  /\ calls'[d].actor \in Accounts /\ calls'[d].attempt \in 1..MaxAttempts
             /\ calls'[d].action # "none"
             /\ calls'[d].action = "create" => TextOf[d] # NoText
  BY <1>1, <1>3 DEF OnlineInv, CallInv
<1> QED BY <1>1, <1>2, <1>3 DEF CallInv, CallsEnd, Version

\* A call ends, or none, and what the user sees follows.
LEMMA EndedKeeps ==
  ASSUME OnlineInv, CallsEnd, UNCHANGED <<server, session>>, requests' \subseteq requests,
         shown' \in [Incidents -> 0..MaxVersion], \A i \in Incidents : shown'[i] <= Version(i)
  PROVE  OnlineInv'
<1>1. CallInv'
  BY EndCallInv, VersionNat DEF Version
<1>2. DeviceInv'
  BY DEF OnlineInv, DeviceInv, CallsEnd, CallsStay, Version
<1> QED BY <1>1, <1>2, DeviceKeeps DEF CallsEnd

LEMMA ShownVersion ==
  ASSUME OnlineInv, NEW i \in Incidents, NEW v \in 1..Version(i), shown' = [shown EXCEPT ![i] = v]
  PROVE  shown' \in [Incidents -> 0..MaxVersion] /\ \A j \in Incidents : shown'[j] <= Version(j)
<1>1. v \in 0..MaxVersion /\ v <= Version(i)
  BY VersionNat, OnlineAssumption DEF OnlineInv, ServerInv
<1> QED BY <1>1 DEF OnlineInv, DeviceInv

-----------------------------------------------------------------------------
(* Steps that add a version. *)

Adds(j, record) ==
  server' = [server EXCEPT ![j] = Append(server[j], record)] /\ Version(j) < MaxVersion

LEMMA AddsVersion ==
  ASSUME OnlineInv, NEW j \in Incidents, NEW record \in Records, Adds(j, record)
  PROVE  /\ ServerInv'
         /\ Version(j)' = Version(j) + 1 /\ server'[j][Version(j) + 1] = record
         /\ \A i \in Incidents : i # j => server'[i] = server[i] /\ Version(i)' = Version(i)
         /\ \A i \in Incidents : Version(i)' \in Nat /\ Version(i) <= Version(i)'
         /\ \A i \in Incidents : \A v \in 1..Version(i) : server'[i][v] = server[i][v]
<1>1. server[j] \in Seq(Records) /\ Version(j) \in Nat /\ Version(j) = Len(server[j])
  BY VersionNat DEF OnlineInv, ServerInv, Version
<1>2. /\ Append(server[j], record) \in Seq(Records)
      /\ Len(Append(server[j], record)) = Version(j) + 1
      /\ Append(server[j], record)[Version(j) + 1] = record
      /\ \A v \in 1..Version(j) : Append(server[j], record)[v] = server[j][v]
  BY <1>1
<1>3. /\ server' \in [Incidents -> Seq(Records)]
      /\ server'[j] = Append(server[j], record)
      /\ \A i \in Incidents : i # j => server'[i] = server[i]
  BY <1>2 DEF Adds, OnlineInv, ServerInv
<1>4. Version(j)' = Version(j) + 1 /\ server'[j][Version(j) + 1] = record
  BY <1>2, <1>3 DEF Version
<1>5. \A i \in Incidents : i # j => server'[i] = server[i] /\ Version(i)' = Version(i)
  BY <1>3 DEF Version
<1>6. \A i \in Incidents : Version(i)' \in Nat /\ Version(i) <= Version(i)'
  BY <1>1, <1>4, <1>5, VersionNat
<1>7. \A i \in Incidents : \A v \in 1..Version(i) : server'[i][v] = server[i][v]
  BY <1>2, <1>3
<1>8. \A i \in Incidents : Version(i)' <= MaxVersion
  BY <1>1, <1>4, <1>5, OnlineAssumption DEF Adds, OnlineInv, ServerInv
<1> QED BY <1>3, <1>4, <1>5, <1>6, <1>7, <1>8 DEF ServerInv

\* The version added is nobody's call's, or the first effect of a call.
LEMMA AddsKeeps ==
  ASSUME OnlineInv, NEW j \in Incidents, NEW record \in Records, Adds(j, record),
         NEW n \in Nat, n = Version(j) + 1, CallsEnd, session' = session, requests' \subseteq requests,
         shown' \in [Incidents -> 0..MaxVersion], \A i \in Incidents : shown'[i] <= Version(i)',
         Caused(j, n)', Uncaused(j, n)',
         record.event.call \in Calls =>
           \A i \in Incidents : \A v \in 1..Version(i) :
             server[i][v].event.call # record.event.call
  PROVE  OnlineInv'
<1>1. /\ ServerInv'
      /\ Version(j)' = Version(j) + 1 /\ server'[j][Version(j) + 1] = record
      /\ \A i \in Incidents : i # j => server'[i] = server[i] /\ Version(i)' = Version(i)
      /\ \A i \in Incidents : Version(i)' \in Nat /\ Version(i) <= Version(i)'
      /\ \A i \in Incidents : \A v \in 1..Version(i) : server'[i][v] = server[i][v]
  BY AddsVersion
<1>2. \A i \in Incidents : \A v \in 1..Version(i)' : 
        v \in 1..Version(i) \/ (i = j /\ v = n)
  BY <1>1, VersionNat
<1>3. CallInv'
  BY <1>1, EndCallInv
<1>4. DeviceInv'
  BY DEF OnlineInv, DeviceInv, CallsEnd, CallsStay
<1>5. EventInv'
  <2>1. ASSUME NEW i \in Incidents, NEW v \in 1..Version(i)
        PROVE  Caused(i, v)' /\ Uncaused(i, v)'
    <3>1. Caused(i, v) /\ Uncaused(i, v) /\ server'[i][v] = server[i][v]
      BY <1>1 DEF OnlineInv, EventInv
    <3> QED BY SMTT(30), <3>1 DEF Caused, Uncaused, CallsEnd, CallsStay
  <2> QED BY <1>2, <2>1 DEF EventInv
<1>6. OnceInv'
  <2> SUFFICES ASSUME NEW i \in Incidents, NEW k \in Incidents,
                      NEW v \in 1..Version(i)', NEW w \in 1..Version(k)',
                      server'[i][v].event.call \in Calls,
                      server'[i][v].event.call = server'[k][w].event.call
               PROVE  i = k /\ v = w
    BY DEF OnceInv
  <2>1. CASE v \in 1..Version(i) /\ w \in 1..Version(k)
    BY <1>1, <2>1 DEF OnlineInv, OnceInv
  <2>2. CASE v \in 1..Version(i) /\ (k = j /\ w = n)
    BY <1>1, <2>2
  <2>3. CASE (i = j /\ v = n) /\ w \in 1..Version(k)
    BY <1>1, <2>3
  <2>4. CASE (i = j /\ v = n) /\ (k = j /\ w = n)
    BY <2>4
  <2> QED BY <1>2, <2>1, <2>2, <2>3, <2>4
<1> QED BY <1>1, <1>3, <1>4, <1>5, <1>6 DEF OnlineInv

-----------------------------------------------------------------------------
(* The server answers. *)

\* Call c has had its effect.
Effect(c) == \E i \in Incidents : \E v \in 1..Version(i) : server[i][v].event.call = c

\* A stored result is the effect of the call it is found for, and the other way round.
LEMMA StoredIsEffect ==
  ASSUME OnlineInv, NEW request \in requests
  PROVE  /\ request.call \in Calls /\ Made(request.call)
         /\ \A p \in Stored(request) :
              /\ p[1] \in Incidents /\ p[2] \in 1..Version(p[1])
              /\ server[p[1]][p[2]].event.call = request.call
         /\ Effect(request.call) => Stored(request) # {}
<1> DEFINE c == request.call
<1>1. c \in Calls /\ Made(c) /\ c # NoCall
  BY OnlineAssumption DEF OnlineInv, DeviceInv, Calls, NoCall
<1>2. ASSUME NEW p \in Stored(request)
      PROVE  /\ p[1] \in Incidents /\ p[2] \in 1..Version(p[1])
             /\ server[p[1]][p[2]].event.call = c
  <2>1. /\ p[1] \in Incidents /\ p[2] \in 1..Version(p[1])
        /\ server[p[1]][p[2]].event.key = c
    BY VersionNat, OnlineAssumption DEF Stored, KeyOf
  <2>2. Caused(p[1], p[2]) /\ Uncaused(p[1], p[2]) /\ server[p[1]][p[2]] \in Records
    BY <2>1, VersionNat DEF OnlineInv, EventInv
  <2> QED BY <1>1, <2>1, <2>2 DEF Caused, Uncaused, Records, Events
<1>3. ASSUME Effect(c) PROVE Stored(request) # {}
  <2> PICK i \in Incidents : \E v \in 1..Version(i) : server[i][v].event.call = c
    BY <1>3 DEF Effect
  <2>1. PICK v \in 1..Version(i) : server[i][v].event.call = c
    OBVIOUS
  <2>2. /\ server[i][v].event.key = c
        /\ IF calls[c].action = "create" THEN v = 1 ELSE i = calls[c].incident
    BY <1>1, <2>1 DEF OnlineInv, EventInv, Caused
  <2>3. <<i, v>> \in Incidents \X (1..MaxVersion) /\ v <= Version(i)
    BY VersionNat, OnlineAssumption DEF OnlineInv, ServerInv
  <2>4. <<i, v>> \in Stored(request)
    BY <2>2, <2>3 DEF Stored, KeyOf
  <2> QED BY <2>4
<1> QED BY <1>1, <1>2, <1>3

LEMMA SettledEnds ==
  ASSUME OnlineInv, NEW c \in Calls, NEW reply, Settles(c, reply), Made(c)
  PROVE  /\ CallsEnd /\ calls'[c].phase \in {"confirmed", "failed"}
         /\ calls'[c].phase = "confirmed" => Confirms(c, reply)
         /\ \A d \in Calls : d # c => calls'[d] = calls[d]
         /\ shown' = shown \/ shown' = [shown EXCEPT ![reply.incident] = reply.version]
<1>1. CASE Confirms(c, reply)
  <2>1. Ends(c, "confirmed")
    BY <1>1 DEF Settles
  <2> QED BY <1>1, <2>1, EndsEnds DEF Settles
<1>2. CASE ~Confirms(c, reply)
  <2>1. Ends(c, "failed") /\ shown' = shown
    BY <1>2 DEF Settles
  <2> QED BY <2>1, EndsEnds
<1> QED BY <1>1, <1>2

\* What a copy of a request brings about: nothing more, the stored result, a
\* refusal, or its effect with or without an answer.
LEMMA DeliverCases ==
  ASSUME OnlineInv, NEW request \in requests, Deliver(request)
  PROVE  LET c == request.call
             call == calls[c]
             Lost == UNCHANGED <<calls, shown>>
         IN
         /\ session' = session /\ requests' \subseteq requests
         /\ \/ server' = server /\ Lost
            \/ /\ server' = server /\ Waiting(c)
               /\ \E p \in Stored(request) :
                    Settles(c, Reply(c, p[1], p[2], server[p[1]][p[2]]))
            \/ /\ server' = server /\ Waiting(c)
               /\ Stored(request) = {} /\ ~(Permitted(call) /\ Accepts(call)) /\ Refused(c)
            \/ /\ Stored(request) = {} /\ Permitted(call) /\ Accepts(call)
               /\ \E j \in Incidents : \E record \in {Created(c, request.attempt), Changed(c, request.attempt)} :
                    /\ IF call.action = "create"
                         THEN j \notin Existing /\ record = Created(c, request.attempt)
                         ELSE j = call.incident /\ record = Changed(c, request.attempt)
                    /\ Adds(j, record)
                    /\ Lost \/ (Waiting(c) /\ Settles(c, Reply(c, j, Version(j) + 1, record)))
<1>1. calls[request.call].action # "create" => calls[request.call].incident \in Incidents
  BY DEF OnlineInv, DeviceInv, CallInv
<1> QED BY <1>1 DEF Deliver, Awaited, KeyOf, Adds

\* The version a call brings about is its effect, as it was asked.
LEMMA EffectAdded ==
  ASSUME OnlineInv, NEW c \in Calls, Made(c), NEW attempt, NEW j \in Incidents, NEW record,
         Accepts(calls[c]), CallsEnd, Adds(j, record),
         IF calls[c].action = "create"
           THEN j \notin Existing /\ record = Created(c, attempt)
           ELSE j = calls[c].incident /\ record = Changed(c, attempt)
  PROVE  /\ record \in Records /\ record.event.call = c
         /\ \A n \in Nat : n = Version(j) + 1 => Caused(j, n)' /\ Uncaused(j, n)'
<1>1. /\ calls[c] \in CallRecords /\ calls[c].action \in Actions \union {"create"}
      /\ calls[c].actor \in Actors /\ c # NoCall /\ TextOf[c] \in Texts
  BY OnlineAssumption DEF OnlineInv, CallInv, CallRecords, Calls, NoCall, Texts
<1>2. CASE calls[c].action = "create"
  <2>1. record = Created(c, attempt) /\ Version(j) = 0
    BY <1>2, VersionNat DEF Existing, Version, OnlineInv, ServerInv
  <2>2. /\ record \in Records /\ record.event.call = c /\ record.event.key = c
        /\ record.event.action = "create" /\ record.reporter = calls[c].actor
        /\ record.text = TextOf[c]
    BY <1>1, <2>1 DEF Created, KeyOf, Records, Events, Statuses, Texts
  <2>3. server'[j][Version(j) + 1] = record
    BY <2>2, AddsVersion
  <2>4. Caused(j, 1)' /\ Uncaused(j, 1)'
    BY <1>1, <1>2, <2>1, <2>2, <2>3 DEF Caused, Uncaused, CallsEnd, CallsStay
  <2> QED BY <2>1, <2>2, <2>4
<1>3. CASE calls[c].action # "create"
  <2>1. record = Changed(c, attempt) /\ j = calls[c].incident /\ Version(j) = calls[c].base
        /\ Version(j) \in 1..Version(j)
    BY <1>3, VersionNat DEF Accepts, OnlineInv, CallInv
  <2> DEFINE last == Last(calls[c].incident)
             event == [key |-> c, call |-> c, action |-> calls[c].action]
             diagnosis == IF calls[c].action = "resolve" THEN TextOf[c] ELSE last.diagnosis
             status == CASE calls[c].action = "resolve" -> "resolved"
                         [] calls[c].action = "close" -> "closed"
                         [] calls[c].action = "reopen" ->
                              IF last.assignee = NoActor THEN "open" ELSE "assigned"
  <2>2. last \in Records /\ calls[c].action \in {"resolve", "close", "reopen"}
    BY <1>1, <1>3, <2>1, VersionNat DEF Last, Actions, TechnicianActions, CoordinatorActions
  <2>3. /\ record \in Records /\ record.event.key = c /\ record.event.call = c
        /\ record.event.action = calls[c].action
        /\ calls[c].action = "resolve" => record.diagnosis = TextOf[c]
    <3>1. event \in Events /\ diagnosis \in Texts
      BY <1>1, <2>2 DEF Records, Events
    <3>2. status \in Statuses
      BY <2>2 DEF Statuses
    <3>3. record = [last EXCEPT !.event = event, !.diagnosis = diagnosis, !.status = status]
      BY <2>1 DEF Changed, KeyOf
    <3>4. /\ event.key = c /\ event.call = c /\ event.action = calls[c].action
          /\ calls[c].action = "resolve" => diagnosis = TextOf[c]
      OBVIOUS
    <3> HIDE DEF last, event, diagnosis, status
    <3>5. record \in Records /\ record.event = event /\ record.diagnosis = diagnosis
      BY <2>2, <3>1, <3>2, <3>3 DEF Records
    <3> QED BY <3>4, <3>5
  <2>4. server'[j][Version(j) + 1] = record
    BY <2>3, AddsVersion
  <2>5. ASSUME NEW n \in Nat, n = Version(j) + 1 PROVE Caused(j, n)' /\ Uncaused(j, n)'
    <3> HIDE DEF last, event, diagnosis, status
    <3>1. server'[j][n] = record /\ n = calls[c].base + 1
      BY <2>1, <2>4, <2>5
    <3>2. /\ Made(c)' /\ calls'[c].action = calls[c].action
          /\ calls'[c].incident = j /\ calls'[c].base = calls[c].base
      BY <2>1 DEF CallsEnd, CallsStay
    <3>3. Caused(j, n)'
      BY <1>3, <2>3, <3>1, <3>2 DEF Caused
    <3>4. Uncaused(j, n)'
      BY <1>1, <2>3, <3>1 DEF Uncaused
    <3> QED BY <3>3, <3>4
  <2> QED BY <2>3, <2>5
<1> QED BY <1>2, <1>3

-----------------------------------------------------------------------------
(* Every step keeps the invariant. *)

LEMMA DeliverKeeps ==
  ASSUME OnlineInv, NEW request \in requests, Deliver(request)
  PROVE  OnlineInv'
<1> DEFINE c == request.call
           call == calls[c]
<1>1. c \in Calls /\ Made(c) /\ session' = session /\ requests' \subseteq requests
  BY StoredIsEffect, DeliverCases
<1>2. CASE server' = server /\ UNCHANGED <<calls, shown>>
  BY <1>1, <1>2, UnchangedEnds, EndedKeeps DEF OnlineInv, DeviceInv
<1>3. CASE /\ server' = server /\ Waiting(c)
           /\ \E p \in Stored(request) : Settles(c, Reply(c, p[1], p[2], server[p[1]][p[2]]))
  <2>1. PICK p \in Stored(request) : Settles(c, Reply(c, p[1], p[2], server[p[1]][p[2]]))
    BY <1>3
  <2>2. p[1] \in Incidents /\ p[2] \in 1..Version(p[1])
    BY StoredIsEffect
  <2>3. CallsEnd /\ (shown' = shown \/ shown' = [shown EXCEPT ![p[1]] = p[2]])
    BY <1>1, <2>1, SettledEnds DEF Reply
  <2>4. shown' \in [Incidents -> 0..MaxVersion] /\ \A i \in Incidents : shown'[i] <= Version(i)
    BY <2>2, <2>3, ShownVersion DEF OnlineInv, DeviceInv
  <2> QED BY <1>1, <1>3, <2>3, <2>4, EndedKeeps
<1>4. CASE server' = server /\ Refused(c)
  <2>1. CallsEnd /\ shown' = shown
    BY <1>1, <1>4, EndsEnds DEF Refused
  <2> QED BY <1>1, <1>4, <2>1, EndedKeeps DEF OnlineInv, DeviceInv
<1>5. ASSUME NEW j \in Incidents, NEW record, Stored(request) = {}, Accepts(call),
             IF call.action = "create"
               THEN j \notin Existing /\ record = Created(c, request.attempt)
               ELSE j = call.incident /\ record = Changed(c, request.attempt),
             Adds(j, record),
             \/ UNCHANGED <<calls, shown>>
             \/ Settles(c, Reply(c, j, Version(j) + 1, record))
      PROVE  OnlineInv'
  <2>1. /\ CallsEnd
        /\ shown' = shown \/ shown' = [shown EXCEPT ![j] = Version(j) + 1]
    <3>1. CASE UNCHANGED <<calls, shown>>
      BY <3>1, UnchangedEnds
    <3>2. CASE Settles(c, Reply(c, j, Version(j) + 1, record))
      BY <1>1, <3>2, SettledEnds DEF Reply
    <3> QED BY <1>5, <3>1, <3>2
  <2>2. /\ record \in Records /\ record.event.call = c
        /\ \A n \in Nat : n = Version(j) + 1 => Caused(j, n)' /\ Uncaused(j, n)'
    BY <1>1, <1>5, <2>1, EffectAdded
  <2>3. \A i \in Incidents : \A v \in 1..Version(i) : server[i][v].event.call # c
    BY <1>5, StoredIsEffect DEF Effect
  <2>4. /\ shown' \in [Incidents -> 0..MaxVersion]
        /\ \A i \in Incidents : shown'[i] <= Version(i)'
    <3>1. /\ Version(j)' = Version(j) + 1
          /\ \A i \in Incidents : Version(i)' \in Nat /\ Version(i) <= Version(i)'
          /\ Version(j) \in Nat /\ Version(j) + 1 \in 0..MaxVersion
      <4>1. Version(j) \in Nat /\ Version(j) < MaxVersion
        BY <1>5, VersionNat DEF Adds
      <4>2. /\ Version(j)' = Version(j) + 1
            /\ \A i \in Incidents : Version(i)' \in Nat /\ Version(i) <= Version(i)'
        BY <1>5, <2>2, AddsVersion
      <4> QED BY <4>1, <4>2, OnlineAssumption
    <3>2. shown \in [Incidents -> 0..MaxVersion] /\ \A i \in Incidents : shown[i] <= Version(i)
      BY DEF OnlineInv, DeviceInv
    <3>3. \A i \in Incidents : shown[i] <= Version(i)'
      BY <3>1, <3>2, VersionNat
    <3>4. CASE shown' = shown
      BY <3>2, <3>3, <3>4
    <3>5. CASE shown' = [shown EXCEPT ![j] = Version(j) + 1]
      <4>1. shown' \in [Incidents -> 0..MaxVersion]
        BY <3>1, <3>2, <3>5
      <4>2. ASSUME NEW i \in Incidents PROVE shown'[i] <= Version(i)'
        <5>1. CASE i = j
          BY <3>1, <3>2, <3>5, <5>1
        <5>2. CASE i # j
          BY <3>2, <3>3, <3>5, <5>2
        <5> QED BY <5>1, <5>2
      <4> QED BY <4>1, <4>2
    <3> QED BY <2>1, <3>4, <3>5
  <2>5. Version(j) + 1 \in Nat
    BY VersionNat
  <2> QED BY <1>1, <1>5, <2>1, <2>2, <2>3, <2>4, <2>5, AddsKeeps
<1> QED BY <1>1, <1>2, <1>3, <1>4, <1>5, DeliverCases

LEMMA MisansweredKeeps ==
  ASSUME OnlineInv, NEW c \in Calls, Misanswered(c)
  PROVE  OnlineInv'
<1>1. Made(c) /\ UNCHANGED <<server, session, requests>>
  BY DEF Misanswered, Waiting, Made
<1>2. PICK i \in Existing, v \in 1..MaxVersion, k \in Calls :
        v <= Version(i) /\ Settles(c, Reply(k, i, v, server[i][v]))
  BY DEF Misanswered
<1>3. i \in Incidents /\ v \in 1..Version(i)
  BY <1>2, VersionNat, OnlineAssumption DEF Existing
<1>4. CallsEnd /\ (shown' = shown \/ shown' = [shown EXCEPT ![i] = v])
  BY <1>1, <1>2, SettledEnds DEF Reply
<1>5. shown' \in [Incidents -> 0..MaxVersion] /\ \A j \in Incidents : shown'[j] <= Version(j)
  BY <1>3, <1>4, ShownVersion DEF OnlineInv, DeviceInv
<1> QED BY <1>1, <1>4, <1>5, EndedKeeps

\* Another client's version is no call's.
LEMMA OtherClientAdds ==
  ASSUME OnlineInv, NEW j \in Incidents, OtherClient(j)
  PROVE  \E record \in Records : Adds(j, record) /\ record.event = NoEvent
<1>1. PICK record \in OtherVersions(j) : server' = [server EXCEPT ![j] = Append(server[j], record)]
  BY DEF OtherClient
<1>2. Version(j) \in Nat \ {0} /\ Last(j) \in Records /\ Version(j) < MaxVersion
      /\ UNCHANGED <<session, shown, calls, requests>>
  BY VersionNat DEF OtherClient, Existing, Last, Version, OnlineInv, ServerInv
<1>3. record \in Records /\ record.event = NoEvent
  <2> DEFINE last == [Last(j) EXCEPT !.event = NoEvent]
  <2>1. last \in Records /\ last.event = NoEvent
    BY <1>2 DEF Records, Events, NoEvent
  <2>2. \/ record = last
        \/ record = [last EXCEPT !.status = "in_progress"]
        \/ \E t \in Technicians : record = [last EXCEPT !.assignee = t, !.status = "assigned"]
    BY <1>1 DEF OtherVersions
  <2> HIDE DEF last
  <2> QED BY <2>1, <2>2 DEF Records, Statuses
<1> QED BY <1>1, <1>2, <1>3 DEF Adds

LEMMA OtherClientKeeps ==
  ASSUME OnlineInv, NEW j \in Incidents, OtherClient(j)
  PROVE  OnlineInv'
<1>1. PICK record \in Records : Adds(j, record) /\ record.event = NoEvent
  BY OtherClientAdds
<1>2. Version(j) \in Nat \ {0} /\ UNCHANGED <<session, shown, calls, requests>>
  BY VersionNat DEF OtherClient, Existing, Version, OnlineInv, ServerInv
<1>3. record \in Records
  OBVIOUS
<1>4. Adds(j, record) /\ CallsEnd
  BY <1>1, <1>2, UnchangedEnds
<1>5. /\ server'[j][Version(j) + 1] = record
      /\ \A i \in Incidents : Version(i)' \in Nat /\ Version(i) <= Version(i)'
  BY <1>1, AddsVersion
<1>6. record.event.call = NoCall /\ record.event.key = NoCall /\ NoCall \notin Calls
  BY <1>1 DEF NoEvent, NoCall, Calls
<1>7. \A n \in Nat : n = Version(j) + 1 => Caused(j, n)' /\ Uncaused(j, n)'
  BY <1>2, <1>5, <1>6 DEF Caused, Uncaused
<1>8. shown' \in [Incidents -> 0..MaxVersion] /\ \A i \in Incidents : shown'[i] <= Version(i)'
  <2>1. shown \in [Incidents -> 0..MaxVersion] /\ \A i \in Incidents : shown[i] <= Version(i)
    BY DEF OnlineInv, DeviceInv
  <2> QED BY <1>2, <1>5, <2>1, VersionNat
<1>9. Version(j) + 1 \in Nat
  BY <1>2
<1> QED BY <1>2, <1>3, <1>4, <1>6, <1>7, <1>8, <1>9, AddsKeeps

LEMMA OnlineInvInit == Init => OnlineInv
<1> SUFFICES ASSUME Init PROVE OnlineInv
  OBVIOUS
<1>1. PICK status \in [First -> FirstStatuses] :
        server = [i \in Incidents |-> IF i \in First THEN <<FirstVersion(status[i])>> ELSE <<>>]
  BY DEF Init
<1>2. \A i \in Incidents : \/ server[i] = <<>>
                          \/ \E s \in Statuses : server[i] = <<FirstVersion(s)>>
  BY <1>1, OnlineAssumption
<1>3. \A s \in Statuses : FirstVersion(s) \in Records /\ FirstVersion(s).event = NoEvent
                          /\ FirstVersion(s).text = NoText
  BY OnlineAssumption DEF FirstVersion, Records, Events, NoEvent, Texts
<1>4. server \in [Incidents -> Seq(Records)]
  <2>1. ASSUME NEW i \in Incidents PROVE server[i] \in Seq(Records)
    <3>1. CASE server[i] = <<>>
      BY <3>1
    <3>2. CASE \E s \in Statuses : server[i] = <<FirstVersion(s)>>
      BY <1>3, <3>2
    <3> QED BY <1>2, <3>1, <3>2
  <2> QED BY <1>1, <2>1
<1>5. \A i \in Incidents : \A v \in 1..Version(i) :
        server[i][v].event = NoEvent /\ server[i][v].text = NoText
  BY <1>2, <1>3 DEF Version
<1>6. EventInv /\ OnceInv
  BY SMTT(30), <1>5 DEF EventInv, OnceInv, Caused, Uncaused, NoEvent, NoCall, Calls
<1>7. CallInv
  BY OnlineAssumption DEF Init, CallInv, Made, IdleCall, CallRecords
<1>8. \A i \in Incidents : Version(i) \in Nat /\ Version(i) <= MaxVersion
  <2>1. MaxVersion \in Nat \ {0}
    BY OnlineAssumption
  <2> SUFFICES ASSUME NEW i \in Incidents PROVE Version(i) \in Nat /\ Version(i) <= MaxVersion
    OBVIOUS
  <2>2. CASE server[i] = <<>>
    BY <2>1, <2>2 DEF Version
  <2>3. CASE \E s \in Statuses : server[i] = <<FirstVersion(s)>>
    <3>1. PICK s \in Statuses : server[i] = <<FirstVersion(s)>>
      BY <2>3
    <3>2. Len(server[i]) = 1
      BY <3>1
    <3> QED BY <2>1, <3>2 DEF Version
  <2> QED BY <1>2, <2>2, <2>3
<1>9. DeviceInv
  BY <1>8, OnlineAssumption DEF Init, DeviceInv, NothingShown
<1> QED BY <1>4, <1>6, <1>7, <1>8, <1>9 DEF OnlineInv, ServerInv

LEMMA OnlineInvNext == OnlineInv /\ [Next]_vars => OnlineInv'
<1> SUFFICES ASSUME OnlineInv, [Next]_vars PROVE OnlineInv'
  OBVIOUS
<1>1. session \in Accounts /\ shown \in [Incidents -> 0..MaxVersion]
      /\ \A i \in Incidents : shown[i] <= Version(i) /\ 0 <= Version(i)
  BY VersionNat DEF OnlineInv, DeviceInv
<1>2. CASE UserStep
  <2>1. ASSUME NEW a \in Accounts, SignIn(a) PROVE OnlineInv'
    <3>1. /\ session' = a /\ shown' = [i \in Incidents |-> 0]
          /\ UNCHANGED <<server, calls, requests>>
      BY <2>1 DEF SignIn, NothingShown
    <3>2. /\ shown' \in [Incidents -> 0..MaxVersion]
          /\ \A i \in Incidents : shown'[i] <= Version(i)
      BY <1>1, <3>1, OnlineAssumption
    <3> QED BY <3>1, <3>2, ShownKeeps
  <2>2. CASE ReadList
    <3>1. PICK items \in SUBSET Served(session) :
            shown' = [i \in Incidents |-> IF i \in items THEN Version(i) ELSE shown[i]]
      BY <2>2 DEF ReadList
    <3>2. \A i \in Incidents : Version(i) \in 0..MaxVersion
      BY VersionNat, OnlineAssumption DEF OnlineInv, ServerInv
    <3>3. /\ shown' \in [Incidents -> 0..MaxVersion]
          /\ \A i \in Incidents : shown'[i] <= Version(i)
      BY <1>1, <3>1, <3>2
    <3> QED BY <1>1, <2>2, <3>3, ShownKeeps DEF ReadList
  <2>3. ASSUME NEW i \in Incidents, ReadDetail(i) PROVE OnlineInv'
    <3>1. Version(i) \in 1..Version(i)
      BY <2>3, VersionNat DEF ReadDetail, Served, Existing, Version, OnlineInv, ServerInv
    <3>2. shown' = [shown EXCEPT ![i] = Version(i)]
          /\ UNCHANGED <<server, session, calls, requests>>
      BY <2>3 DEF ReadDetail
    <3>3. /\ shown' \in [Incidents -> 0..MaxVersion]
          /\ \A j \in Incidents : shown'[j] <= Version(j)
      BY <3>1, <3>2, ShownVersion
    <3> QED BY <1>1, <3>2, <3>3, ShownKeeps
  <2> QED BY <1>2, <2>1, <2>2, <2>3, CreateKeeps, PerformKeeps DEF UserStep
<1>3. CASE CallStep
  <2>1. ASSUME NEW c \in Calls, Fail(c) PROVE OnlineInv'
    <3>1. CallsEnd /\ UNCHANGED <<server, session, shown, requests>>
      BY <2>1, EndsEnds DEF Fail, Waiting, Made
    <3> QED BY <1>1, <3>1, EndedKeeps
  <2> QED BY <1>3, <2>1, ResendKeeps, MisansweredKeeps DEF CallStep
<1>4. CASE ServerStep
  BY <1>4, DeliverKeeps, OtherClientKeeps DEF ServerStep
<1>5. CASE UNCHANGED vars
  BY <1>1, <1>5, ShownKeeps DEF vars
<1> QED BY <1>2, <1>3, <1>4, <1>5 DEF Next

\* A call of the repository, however often the transport sends it and whenever
\* its copies arrive, has its effect at most once: the key is made once per call.
THEOREM CallsAreExecutedOnce == Spec => []CallsExecutedOnce
  BY OnlineInvInit, OnlineInvNext, OnceImplies, PTL DEF Spec

-----------------------------------------------------------------------------
(* What the user is told. *)

\* What a record of one call could be mistaken for: another call's creation.
TextsDiffer == \A c, d \in Calls : TextOf[c] = TextOf[d] /\ TextOf[c] # NoText => c = d

\* A confirmed call has had its effect; a refused one has none and can have none.
Truth(c) ==
  /\ calls[c].phase = "confirmed" => Effect(c)
  /\ calls[c].phase = "refused" =>
       /\ calls[c].action # "create" /\ ~Effect(c)
       /\ ~(Permitted(calls[c]) /\ Accepts(calls[c]))
TruthInv == \A c \in Calls : Truth(c)

LEMMA TruthImplies == OnlineInv /\ TruthInv => AnswersAreTrue
<1> SUFFICES ASSUME OnlineInv, TruthInv, NEW c \in Calls
             PROVE
    /\ calls[c].phase = "confirmed" =>
         \E p \in EffectsOf(c) :
           LET record == server[p[1]][p[2]] IN
           IF calls[c].action = "create"
             THEN record.reporter = calls[c].actor /\ record.text = TextOf[c]
             ELSE /\ p = <<calls[c].incident, calls[c].base + 1>>
                  /\ record.event.action = calls[c].action
                  /\ calls[c].action = "resolve" => record.diagnosis = TextOf[c]
    /\ calls[c].phase = "refused" => EffectsOf(c) = {}
  BY OnceImplies DEF AnswersAreTrue
<1>1. ASSUME calls[c].phase = "confirmed"
      PROVE  \E p \in EffectsOf(c) :
           LET record == server[p[1]][p[2]] IN
           IF calls[c].action = "create"
             THEN record.reporter = calls[c].actor /\ record.text = TextOf[c]
             ELSE /\ p = <<calls[c].incident, calls[c].base + 1>>
                  /\ record.event.action = calls[c].action
                  /\ calls[c].action = "resolve" => record.diagnosis = TextOf[c]
  <2> PICK i \in Incidents : \E v \in 1..Version(i) : server[i][v].event.call = c
    BY <1>1 DEF TruthInv, Truth, Effect
  <2>1. PICK v \in 1..Version(i) : server[i][v].event.call = c
    OBVIOUS
  <2>2. Caused(i, v)
    BY DEF OnlineInv, EventInv
  <2>3. <<i, v>> \in EffectsOf(c)
    BY <2>1, VersionNat, OnlineAssumption DEF EffectsOf, OnlineInv, ServerInv
  <2> QED BY <2>1, <2>2, <2>3 DEF Caused
<1>2. ASSUME calls[c].phase = "refused" PROVE EffectsOf(c) = {}
  <2>1. ~Effect(c)
    BY <1>2 DEF TruthInv, Truth
  <2>2. \A p \in EffectsOf(c) : p[1] \in Incidents /\ p[2] \in 1..Version(p[1])
                               /\ server[p[1]][p[2]].event.call = c
    BY VersionNat, OnlineAssumption DEF EffectsOf
  <2> QED BY <2>1, <2>2 DEF Effect
<1> QED BY <1>1, <1>2

\* An effect is still there after a step, and what was refused stays refused.
LEMMA TruthStays ==
  ASSUME OnlineInv, TruthInv, NEW c \in Calls, calls'[c] = calls[c],
         \/ server' = server
         \/ \E j \in Incidents : \E record \in Records :
              Adds(j, record) /\ (record.event.call = c => Permitted(calls[c]) /\ Accepts(calls[c]))
  PROVE  Truth(c)'
<1>1. CASE server' = server
  BY <1>1 DEF TruthInv, Truth, Effect, Permitted, Accepts, Transition, Visible, Last, Version
<1>2. ASSUME NEW j \in Incidents, NEW record \in Records, Adds(j, record),
             record.event.call = c => Permitted(calls[c]) /\ Accepts(calls[c])
      PROVE  Truth(c)'
  <2>1. /\ Version(j)' = Version(j) + 1 /\ server'[j][Version(j) + 1] = record
        /\ \A i \in Incidents : i # j => server'[i] = server[i] /\ Version(i)' = Version(i)
        /\ \A i \in Incidents : Version(i)' \in Nat /\ Version(i) <= Version(i)'
        /\ \A i \in Incidents : \A v \in 1..Version(i) : server'[i][v] = server[i][v]
    BY <1>2, AddsVersion
  <2>2. Effect(c) => Effect(c)'
    BY <2>1, VersionNat DEF Effect
  <2>3. ASSUME calls[c].phase = "refused"
        PROVE  ~Effect(c)' /\ ~(Permitted(calls[c])' /\ Accepts(calls[c])')
    <3>1. /\ calls[c].action # "create" /\ ~Effect(c)
          /\ ~(Permitted(calls[c]) /\ Accepts(calls[c])) /\ record.event.call # c
          /\ calls[c].incident \in Incidents /\ calls[c].base \in 1..Version(calls[c].incident)
      BY <1>2, <2>3 DEF TruthInv, Truth, OnlineInv, CallInv, Made
    <3>2. ~Effect(c)'
      <4>1. \A i \in Incidents : \A v \in 1..Version(i)' :
              v \in 1..Version(i) \/ (i = j /\ v = Version(j) + 1)
        BY <2>1, VersionNat
      <4> QED BY <2>1, <3>1, <4>1 DEF Effect
    <3>3. ~(Permitted(calls[c])' /\ Accepts(calls[c])')
      <4>1. CASE calls[c].incident = j
        <5>1. calls[c].base # Version(j)'
          BY <2>1, <3>1, <4>1, VersionNat
        <5> QED BY <3>1, <4>1, <5>1 DEF Accepts
      <4>2. CASE calls[c].incident # j
        <5>1. server'[calls[c].incident] = server[calls[c].incident]
          BY <2>1, <3>1, <4>2
        <5> QED BY <3>1, <5>1 DEF Accepts, Permitted, Transition, Visible, Last, Version
      <4> QED BY <4>1, <4>2
    <3> QED BY <3>2, <3>3
  <2> QED BY <2>2, <2>3 DEF TruthInv, Truth
<1> QED BY <1>1, <1>2

\* An answer that confirms a call is about its effect, whatever answer it is.
LEMMA ConfirmedIsEffect ==
  ASSUME TextsDiffer, OnlineInv, NEW c \in Calls, Made(c),
         NEW i \in Incidents, NEW v \in 1..Version(i), NEW k,
         Confirms(c, Reply(k, i, v, server[i][v]))
  PROVE  server[i][v].event.call = c
<1> DEFINE record == server[i][v]
           d == record.event.call
<1>1. record \in Records /\ d \in Calls \union {NoCall} /\ Caused(i, v) /\ Uncaused(i, v)
      /\ v \in Nat /\ c # NoCall
  BY VersionNat, OnlineAssumption DEF OnlineInv, EventInv, Records, Events, Calls, NoCall
<1>2. CASE calls[c].action = "create"
  <2>1. v = 1 /\ record.text = TextOf[c] /\ TextOf[c] # NoText
    BY <1>2 DEF Confirms, Reply, OnlineInv, CallInv
  <2>2. d \in Calls
    BY <1>1, <2>1 DEF Uncaused
  <2>3. calls[d].action = "create"
    <3>1. CASE calls[d].action # "create"
      <4>1. v = calls[d].base + 1 /\ calls[d].base \in 1..Version(calls[d].incident)
        BY <1>1, <2>2, <3>1 DEF Caused, OnlineInv, CallInv
      <4>2. calls[d].incident \in Incidents
        BY <1>1, <2>2, <3>1 DEF Caused, OnlineInv, CallInv
      <4> QED BY <2>1, <4>1, <4>2, VersionNat
    <3> QED BY <3>1
  <2> QED BY <1>1, <2>1, <2>2, <2>3 DEF Caused, TextsDiffer
<1>3. CASE calls[c].action # "create"
  <2>1. record.event.key = c
    BY <1>3 DEF Confirms, Reply, KeyOf
  <2> QED BY <1>1, <2>1 DEF Caused, Uncaused
<1> QED BY <1>2, <1>3

LEMMA DeliverTells ==
  ASSUME TextsDiffer, OnlineInv, TruthInv, NEW request \in requests, Deliver(request)
  PROVE  TruthInv'
<1> DEFINE c == request.call
           call == calls[c]
<1>1. c \in Calls /\ Made(c) /\ session' = session /\ requests' \subseteq requests
  BY StoredIsEffect, DeliverCases
<1>2. CASE server' = server /\ UNCHANGED <<calls, shown>>
  BY <1>2, TruthStays DEF TruthInv
<1>3. CASE /\ server' = server /\ Waiting(c)
           /\ \E p \in Stored(request) : Settles(c, Reply(c, p[1], p[2], server[p[1]][p[2]]))
  <2>1. PICK p \in Stored(request) : Settles(c, Reply(c, p[1], p[2], server[p[1]][p[2]]))
    BY <1>3
  <2>2. Effect(c)
    BY StoredIsEffect DEF Effect
  <2>3. calls'[c].phase \in {"confirmed", "failed"} /\ \A d \in Calls : d # c => calls'[d] = calls[d]
    BY <1>1, <2>1, SettledEnds
  <2>4. Truth(c)'
    BY <1>3, <2>2, <2>3 DEF Truth, Effect, Version
  <2> QED BY <1>3, <2>3, <2>4, TruthStays DEF TruthInv
<1>4. CASE /\ server' = server /\ Waiting(c)
           /\ Stored(request) = {} /\ ~(Permitted(call) /\ Accepts(call)) /\ Refused(c)
  <2> DEFINE outcome == IF call.action = "create" THEN "failed" ELSE "refused"
  <2>1. /\ CallsEnd /\ calls'[c].phase = outcome
        /\ \A d \in Calls : d # c => calls'[d] = calls[d]
    BY <1>1, <1>4, EndsEnds DEF Refused
  <2>2. ~Effect(c)
    BY <1>4, StoredIsEffect
  <2>3. /\ calls'[c].action = call.action /\ calls'[c].actor = call.actor
        /\ calls'[c].incident = call.incident /\ calls'[c].base = call.base
    BY <1>1, <2>1 DEF CallsEnd, CallsStay
  <2>4. Truth(c)'
    BY <1>4, <2>1, <2>2, <2>3
    DEF Truth, Effect, Permitted, Accepts, Transition, Visible, Last, Version
  <2> QED BY <1>4, <2>1, <2>4, TruthStays DEF TruthInv
<1>5. ASSUME NEW j \in Incidents, NEW record, Permitted(call), Accepts(call),
             IF call.action = "create"
               THEN j \notin Existing /\ record = Created(c, request.attempt)
               ELSE j = call.incident /\ record = Changed(c, request.attempt),
             Adds(j, record),
             \/ UNCHANGED <<calls, shown>>
             \/ Settles(c, Reply(c, j, Version(j) + 1, record))
      PROVE  TruthInv'
  <2>1. /\ CallsEnd /\ \A d \in Calls : d # c => calls'[d] = calls[d]
        /\ calls'[c] = calls[c] \/ calls'[c].phase \in {"confirmed", "failed"}
    <3>1. CASE UNCHANGED <<calls, shown>>
      BY <3>1, UnchangedEnds
    <3>2. CASE Settles(c, Reply(c, j, Version(j) + 1, record))
      BY <1>1, <3>2, SettledEnds
    <3> QED BY <1>5, <3>1, <3>2
  <2>2. record \in Records /\ record.event.call = c
    <3>1. /\ Accepts(calls[c]) /\ Adds(j, record)
          /\ IF calls[c].action = "create"
               THEN j \notin Existing /\ record = Created(c, request.attempt)
               ELSE j = calls[c].incident /\ record = Changed(c, request.attempt)
      BY <1>5
    <3> HIDE DEF c
    <3> QED BY <1>1, <2>1, <3>1, EffectAdded
  <2>3. Effect(c)'
    <3>1. Version(j)' = Version(j) + 1 /\ server'[j][Version(j) + 1] = record
      BY <1>5, <2>2, AddsVersion
    <3>2. Version(j) + 1 \in 1..Version(j)'
      BY <3>1, VersionNat
    <3> QED BY <2>2, <3>1, <3>2 DEF Effect
  <2>4. ASSUME NEW d \in Calls, calls'[d] = calls[d] PROVE Truth(d)'
    BY <1>5, <2>2, <2>4, TruthStays
  <2>5. calls'[c].phase \in {"confirmed", "failed"} => Truth(c)'
    BY <2>3 DEF Truth
  <2> QED BY <2>1, <2>4, <2>5 DEF TruthInv
<1> QED BY <1>1, <1>2, <1>3, <1>4, <1>5, DeliverCases

LEMMA MisansweredTells ==
  ASSUME TextsDiffer, OnlineInv, TruthInv, NEW c \in Calls, Misanswered(c)
  PROVE  TruthInv'
<1>1. Made(c) /\ UNCHANGED <<server, session, requests>>
  BY DEF Misanswered, Waiting, Made
<1>2. PICK i \in Existing, v \in 1..MaxVersion, k \in Calls :
        v <= Version(i) /\ Settles(c, Reply(k, i, v, server[i][v]))
  BY DEF Misanswered
<1>3. i \in Incidents /\ v \in 1..Version(i)
  BY <1>2, VersionNat, OnlineAssumption DEF Existing
<1>4. /\ calls'[c].phase \in {"confirmed", "failed"}
      /\ calls'[c].phase = "confirmed" => Confirms(c, Reply(k, i, v, server[i][v]))
      /\ \A d \in Calls : d # c => calls'[d] = calls[d]
  BY <1>1, <1>2, SettledEnds
<1>5. calls'[c].phase = "confirmed" => Effect(c)
  BY <1>1, <1>3, <1>4, ConfirmedIsEffect DEF Effect
<1>6. Truth(c)'
  BY <1>1, <1>4, <1>5 DEF Truth, Effect, Version
<1> QED BY <1>1, <1>4, <1>6, TruthStays DEF TruthInv

LEMMA SentTells ==
  ASSUME OnlineInv, TruthInv, NEW c \in Calls, NEW call, Sent(c, call), call.phase = "waiting"
  PROVE  TruthInv'
<1>1. /\ calls'[c].phase = "waiting" /\ server' = server
      /\ \A d \in Calls : d # c => calls'[d] = calls[d]
  BY DEF Sent, OnlineInv, CallInv
<1>2. Truth(c)'
  BY <1>1 DEF Truth
<1> QED BY <1>1, <1>2, TruthStays DEF TruthInv

LEMMA TruthInvNext ==
  ASSUME TextsDiffer
  PROVE  OnlineInv /\ TruthInv /\ [Next]_vars => TruthInv'
<1> SUFFICES ASSUME OnlineInv, TruthInv, [Next]_vars PROVE TruthInv'
  OBVIOUS
<1>1. ASSUME UNCHANGED <<server, calls>> PROVE TruthInv'
  BY <1>1, TruthStays DEF TruthInv
<1>2. CASE UserStep
  <2>1. ASSUME NEW c \in Calls, Create(c) PROVE TruthInv'
    BY <2>1, SentTells DEF Create, IdleCall
  <2>2. ASSUME NEW c \in Calls, NEW action \in Actions, NEW i \in Incidents, Perform(c, action, i)
        PROVE  TruthInv'
    BY <2>2, SentTells DEF Perform, IdleCall
  <2> QED BY <1>1, <1>2, <2>1, <2>2 DEF UserStep, SignIn, ReadList, ReadDetail
<1>3. CASE CallStep
  <2>1. ASSUME NEW c \in Calls, Fail(c) PROVE TruthInv'
    <3>1. /\ calls'[c].phase = "failed" /\ server' = server
          /\ \A d \in Calls : d # c => calls'[d] = calls[d]
      BY <2>1, EndsEnds DEF Fail, Waiting, Made
    <3>2. Truth(c)'
      BY <3>1 DEF Truth
    <3> QED BY <3>1, <3>2, TruthStays DEF TruthInv
  <2>2. ASSUME NEW c \in Calls, Resend(c) PROVE TruthInv'
    <3>1. [calls[c] EXCEPT !.attempt = calls[c].attempt + 1].phase = "waiting"
      BY <2>2 DEF Resend, Waiting, OnlineInv, CallInv, CallRecords
    <3> QED BY <2>2, <3>1, SentTells DEF Resend
  <2> QED BY <1>3, <2>1, <2>2, MisansweredTells DEF CallStep
<1>4. CASE ServerStep
  <2>1. ASSUME NEW j \in Incidents, OtherClient(j) PROVE TruthInv'
    <3>1. PICK record \in Records : Adds(j, record) /\ record.event = NoEvent
      BY <2>1, OtherClientAdds
    <3>2. calls' = calls /\ \A c \in Calls : record.event.call # c
      BY <2>1, <3>1, OnlineAssumption DEF OtherClient, NoEvent, NoCall, Calls
    <3> QED BY <3>1, <3>2, TruthStays DEF TruthInv
  <2> QED BY <1>4, <2>1, DeliverTells DEF ServerStep
<1>5. CASE UNCHANGED vars
  BY <1>1, <1>5 DEF vars
<1> QED BY <1>2, <1>3, <1>4, <1>5 DEF Next

\* What the user is told of a call is true, however its copies and answers are
\* delayed, lost or taken for another's, when no two creations have one text.
THEOREM AnswersHold ==
  ASSUME TextsDiffer
  PROVE  Spec => []AnswersAreTrue
<1>1. Init => TruthInv
  BY DEF Init, TruthInv, Truth, IdleCall
<1> QED BY <1>1, OnlineInvInit, OnlineInvNext, TruthInvNext, TruthImplies, PTL DEF Spec

-----------------------------------------------------------------------------
(* What AnsweredCall promises of each call. *)

\* The effects of a call: none, or one, as Effect says.
Counted(c) ==
  /\ EffectsOf(c) # {} <=> Effect(c)
  /\ \A p, q \in EffectsOf(c) : p = q

LEMMA EffectsCounted ==
  ASSUME OnlineInv, NEW c \in Calls
  PROVE  Counted(c)
<1>1. ASSUME NEW p \in EffectsOf(c)
      PROVE  /\ p[1] \in Incidents /\ p[2] \in 1..Version(p[1]) /\ p = <<p[1], p[2]>>
             /\ server[p[1]][p[2]].event.call = c
  BY VersionNat, OnlineAssumption DEF EffectsOf
<1>2. ASSUME NEW p \in EffectsOf(c), NEW q \in EffectsOf(c) PROVE p = q
  <2>1. p[1] = q[1] /\ p[2] = q[2]
    BY <1>1 DEF OnlineInv, OnceInv
  <2> QED BY <1>1, <2>1
<1>3. ASSUME Effect(c) PROVE EffectsOf(c) # {}
  <2>1. PICK i \in Incidents : \E v \in 1..Version(i) : server[i][v].event.call = c
    BY <1>3 DEF Effect
  <2>2. PICK v \in 1..Version(i) : server[i][v].event.call = c
    BY <2>1
  <2>3. <<i, v>> \in EffectsOf(c)
    BY <2>2, VersionNat, OnlineAssumption DEF EffectsOf, OnlineInv, ServerInv
  <2> QED BY <2>3
<1> QED BY <1>1, <1>2, <1>3 DEF Counted, Effect

\* What a step makes of the effects: none, or the first effect of one call.
LEMMA AddsEffect ==
  ASSUME OnlineInv, NEW j \in Incidents, NEW record \in Records, Adds(j, record),
         NEW c \in Calls, record.event.call # c
  PROVE  EffectsOf(c)' = EffectsOf(c)
<1>1. /\ Version(j)' = Version(j) + 1 /\ server'[j][Version(j) + 1] = record
      /\ \A i \in Incidents : i # j => server'[i] = server[i] /\ Version(i)' = Version(i)
      /\ \A i \in Incidents : \A v \in 1..Version(i) : server'[i][v] = server[i][v]
  BY AddsVersion
<1>2. ASSUME NEW i \in Incidents, NEW v \in 1..MaxVersion
      PROVE  /\ v <= Version(i)' /\ server'[i][v].event.call = c
             <=> v <= Version(i) /\ server[i][v].event.call = c
  <2>1. v <= Version(i)' <=> v <= Version(i) \/ (i = j /\ v = Version(j) + 1)
    BY <1>1, VersionNat, OnlineAssumption
  <2>2. v <= Version(i) => server'[i][v] = server[i][v]
    BY <1>1, VersionNat, OnlineAssumption
  <2> QED BY <1>1, <2>1, <2>2
<1> QED BY <1>2 DEF EffectsOf

LEMMA SameEffects ==
  ASSUME server' = server, NEW c \in Calls
  PROVE  EffectsOf(c)' = EffectsOf(c)
  BY DEF EffectsOf, Version

Kept(c) == UNCHANGED <<calls[c].phase, EffectsOf(c)>>

\* An answer without an effect of this step.
LEMMA AnswerIsPromised ==
  ASSUME OnlineInv, server' = server, NEW c \in Calls, Waiting(c),
         calls'[c].phase \in {"confirmed", "refused", "failed"},
         calls'[c].phase = "confirmed" => Effect(c), calls'[c].phase = "refused" => ~Effect(c)
  PROVE  Promise(c)!Answer
  BY SameEffects, EffectsCounted DEF Promise!Answer, Promise!Tell, Waiting, Counted

\* The effect of a call, with an answer or without.
LEMMA EffectIsPromised ==
  ASSUME OnlineInv, NEW c \in Calls, Made(c), calls[c].phase # "refused",
         ~Effect(c), Effect(c)', Counted(c)',
         \/ calls'[c] = calls[c]
         \/ Waiting(c) /\ calls'[c].phase \in {"confirmed", "failed"}
  PROVE  Promise(c)!Execute
<1>1. EffectsOf(c) = {} /\ EffectsOf(c)' # {} /\ \A p, q \in EffectsOf(c)' : p = q
  BY EffectsCounted DEF Counted
<1>2. \E p \in EffectsOf(c)' : EffectsOf(c)' = {p}
  BY <1>1
<1> QED BY <1>1, <1>2 DEF Promise!Execute, Promise!Tell, Waiting, Made

\* What a step does for a call is a step of the promise, or nothing.
Promised(c) == Kept(c) \/ Promise(c)!Next

LEMMA OthersAreKept ==
  ASSUME server' = server, NEW d \in Calls, Promised(d),
         \A c \in Calls : c # d => calls'[c] = calls[c]
  PROVE  \A c \in Calls : Promised(c)
  BY SameEffects DEF Promised, Kept

LEMMA SentIsPromised ==
  ASSUME OnlineInv, NEW d \in Calls, NEW call, Sent(d, call), call.phase = "waiting",
         calls[d].phase \in {"idle", "waiting"}
  PROVE  \A c \in Calls : Promised(c)
<1>1. /\ calls'[d].phase = "waiting" /\ server' = server
      /\ \A c \in Calls : c # d => calls'[c] = calls[c]
  BY DEF Sent, OnlineInv, CallInv
<1>2. Promised(d)
  BY <1>1, SameEffects DEF Promised, Kept, Promise!Next, Promise!Ask
<1> QED BY <1>1, <1>2, OthersAreKept

LEMMA MisansweredIsPromised ==
  ASSUME TextsDiffer, OnlineInv, NEW d \in Calls, Misanswered(d)
  PROVE  \A c \in Calls : Promised(c)
<1>1. Waiting(d) /\ Made(d) /\ server' = server
  BY DEF Misanswered, Waiting, Made
<1>2. PICK i \in Existing, v \in 1..MaxVersion, k \in Calls :
        v <= Version(i) /\ Settles(d, Reply(k, i, v, server[i][v]))
  BY DEF Misanswered
<1>3. i \in Incidents /\ v \in 1..Version(i)
  BY <1>2, VersionNat, OnlineAssumption DEF Existing
<1>4. /\ calls'[d].phase \in {"confirmed", "failed"}
      /\ calls'[d].phase = "confirmed" => Confirms(d, Reply(k, i, v, server[i][v]))
      /\ \A c \in Calls : c # d => calls'[c] = calls[c]
  BY <1>1, <1>2, SettledEnds
<1>5. calls'[d].phase = "confirmed" => Effect(d)
  BY <1>1, <1>3, <1>4, ConfirmedIsEffect DEF Effect
<1>6. Promised(d)
  BY <1>1, <1>4, <1>5, AnswerIsPromised DEF Promised, Promise!Next
<1> QED BY <1>1, <1>4, <1>6, OthersAreKept

LEMMA DeliverIsPromised ==
  ASSUME OnlineInv, TruthInv, NEW request \in requests, Deliver(request),
         \A c \in Calls : Counted(c)'
  PROVE  \A c \in Calls : Promised(c)
<1> DEFINE d == request.call
           call == calls[d]
<1>1. d \in Calls /\ Made(d)
  BY StoredIsEffect
<1>2. CASE server' = server /\ UNCHANGED <<calls, shown>>
  BY <1>2, SameEffects DEF Promised, Kept
<1>3. CASE /\ server' = server /\ Waiting(d)
           /\ \E p \in Stored(request) : Settles(d, Reply(d, p[1], p[2], server[p[1]][p[2]]))
  <2>1. PICK p \in Stored(request) : Settles(d, Reply(d, p[1], p[2], server[p[1]][p[2]]))
    BY <1>3
  <2>2. Effect(d)
    BY StoredIsEffect DEF Effect
  <2>3. /\ calls'[d].phase \in {"confirmed", "failed"}
        /\ \A c \in Calls : c # d => calls'[c] = calls[c]
    BY <1>1, <2>1, SettledEnds
  <2>4. Promised(d)
    BY <1>1, <1>3, <2>2, <2>3, AnswerIsPromised DEF Promised, Promise!Next
  <2> QED BY <1>1, <1>3, <2>3, <2>4, OthersAreKept
<1>4. CASE server' = server /\ Waiting(d) /\ Stored(request) = {} /\ Refused(d)
  <2>1. /\ calls'[d].phase \in {"failed", "refused"}
        /\ \A c \in Calls : c # d => calls'[c] = calls[c]
    BY <1>1, <1>4, EndsEnds DEF Refused
  <2>2. ~Effect(d)
    BY <1>4, StoredIsEffect
  <2>3. Promised(d)
    BY <1>1, <1>4, <2>1, <2>2, AnswerIsPromised DEF Promised, Promise!Next
  <2> QED BY <1>1, <1>4, <2>1, <2>3, OthersAreKept
<1>5. ASSUME NEW j \in Incidents, NEW record, Stored(request) = {}, Permitted(call), Accepts(call),
             IF call.action = "create"
               THEN j \notin Existing /\ record = Created(d, request.attempt)
               ELSE j = call.incident /\ record = Changed(d, request.attempt),
             Adds(j, record),
             \/ UNCHANGED <<calls, shown>>
             \/ Waiting(d) /\ Settles(d, Reply(d, j, Version(j) + 1, record))
      PROVE  \A c \in Calls : Promised(c)
  <2>1. /\ CallsEnd /\ \A c \in Calls : c # d => calls'[c] = calls[c]
        /\ calls'[d] = calls[d] \/ (Waiting(d) /\ calls'[d].phase \in {"confirmed", "failed"})
    <3>1. CASE UNCHANGED <<calls, shown>>
      BY <3>1, UnchangedEnds
    <3>2. CASE Waiting(d) /\ Settles(d, Reply(d, j, Version(j) + 1, record))
      BY <1>1, <3>2, SettledEnds
    <3> QED BY <1>5, <3>1, <3>2
  <2>2. record \in Records /\ record.event.call = d
    <3>1. /\ Accepts(calls[d]) /\ Adds(j, record)
          /\ IF calls[d].action = "create"
               THEN j \notin Existing /\ record = Created(d, request.attempt)
               ELSE j = calls[d].incident /\ record = Changed(d, request.attempt)
      BY <1>5
    <3> HIDE DEF d
    <3> QED BY <1>1, <2>1, <3>1, EffectAdded
  <2>3. Effect(d)'
    <3>1. Version(j)' = Version(j) + 1 /\ server'[j][Version(j) + 1] = record
      BY <1>5, <2>2, AddsVersion
    <3>2. Version(j) + 1 \in 1..Version(j)'
      BY <3>1, VersionNat
    <3> QED BY <2>2, <3>1, <3>2 DEF Effect
  <2>4. ~Effect(d) /\ calls[d].phase # "refused"
    BY <1>1, <1>5, StoredIsEffect DEF TruthInv, Truth
  <2>5. Promised(d)
    BY <1>1, <2>1, <2>3, <2>4, EffectIsPromised DEF Promised, Promise!Next
  <2>6. ASSUME NEW c \in Calls, c # d PROVE Promised(c)
    BY <1>5, <2>1, <2>2, <2>6, AddsEffect DEF Promised, Kept
  <2> QED BY <2>5, <2>6
<1> QED BY <1>1, <1>2, <1>3, <1>4, <1>5, DeliverCases

LEMMA StepIsPromised ==
  ASSUME TextsDiffer, OnlineInv, TruthInv, [Next]_vars, \A c \in Calls : Counted(c)'
  PROVE  \A c \in Calls : Promised(c)
<1>1. ASSUME UNCHANGED <<server, calls>> PROVE \A c \in Calls : Promised(c)
  BY <1>1, SameEffects DEF Promised, Kept
<1>2. CASE UserStep
  <2>1. ASSUME NEW d \in Calls, Create(d) PROVE \A c \in Calls : Promised(c)
    BY <2>1, SentIsPromised DEF Create, IdleCall, Unused
  <2>2. ASSUME NEW d \in Calls, NEW action \in Actions, NEW i \in Incidents, Perform(d, action, i)
        PROVE  \A c \in Calls : Promised(c)
    BY <2>2, SentIsPromised DEF Perform, IdleCall, Unused
  <2> QED BY <1>1, <1>2, <2>1, <2>2 DEF UserStep, SignIn, ReadList, ReadDetail
<1>3. CASE CallStep
  <2>1. ASSUME NEW d \in Calls, Fail(d) PROVE \A c \in Calls : Promised(c)
    <3>1. /\ calls'[d].phase = "failed" /\ server' = server /\ Waiting(d)
          /\ \A c \in Calls : c # d => calls'[c] = calls[c]
      BY <2>1, EndsEnds DEF Fail, Waiting, Made
    <3>2. Promised(d)
      BY <3>1, AnswerIsPromised DEF Promised, Promise!Next
    <3> QED BY <3>1, <3>2, OthersAreKept
  <2>2. ASSUME NEW d \in Calls, Resend(d) PROVE \A c \in Calls : Promised(c)
    <3>1. calls[d].phase = "waiting"
          /\ [calls[d] EXCEPT !.attempt = calls[d].attempt + 1].phase = "waiting"
      BY <2>2 DEF Resend, Waiting, OnlineInv, CallInv, CallRecords
    <3> QED BY <2>2, <3>1, SentIsPromised DEF Resend
  <2> QED BY <1>3, <2>1, <2>2, MisansweredIsPromised DEF CallStep
<1>4. CASE ServerStep
  <2>1. ASSUME NEW j \in Incidents, OtherClient(j) PROVE \A c \in Calls : Promised(c)
    <3>1. PICK record \in Records : Adds(j, record) /\ record.event = NoEvent
      BY <2>1, OtherClientAdds
    <3>2. calls' = calls /\ \A c \in Calls : record.event.call # c
      BY <2>1, <3>1, OnlineAssumption DEF OtherClient, NoEvent, NoCall, Calls
    <3> QED BY <3>1, <3>2, AddsEffect DEF Promised, Kept
  <2> QED BY <1>4, <2>1, DeliverIsPromised DEF ServerStep
<1>5. CASE UNCHANGED vars
  BY <1>1, <1>5 DEF vars
<1> QED BY <1>2, <1>3, <1>4, <1>5 DEF Next

LEMMA NothingPromised == Init => \A c \in Calls : Promise(c)!Init
<1> SUFFICES ASSUME Init, NEW c \in Calls PROVE Promise(c)!Init
  OBVIOUS
<1>1. calls[c].phase = "idle"
  BY DEF Init, IdleCall
<1>2. \A i \in Incidents : \A v \in 1..Version(i) : server[i][v].event.call = NoCall
  BY DEF Init, FirstVersion, NoEvent, Version
<1>3. EffectsOf(c) = {}
  BY <1>2, OnlineAssumption DEF EffectsOf, Calls, NoCall, Version, Init
<1> QED BY <1>1, <1>3 DEF Promise!Init

\* A call keeps what AnsweredCall promises: its effect comes once, after it was asked
\* for and never after a refusal, and stays; its answer comes once and stays true.
THEOREM CallsKeepTheirPromise ==
  ASSUME TextsDiffer
  PROVE  Spec => CallsAnswered
<1>1. Init => TruthInv
  BY DEF Init, TruthInv, Truth, IdleCall
<1>2. OnlineInv => \A c \in Calls : Counted(c)
  BY EffectsCounted
<1>3. OnlineInv /\ TruthInv /\ [Next]_vars /\ (\A c \in Calls : Counted(c))'
      => [\A c \in Calls : <<calls[c].phase, server>>' # <<calls[c].phase, server>> =>
            [Promise(c)!Next]_<<calls[c].phase, EffectsOf(c)>>]_vars
  BY StepIsPromised DEF Promised, Kept
<1> QED BY <1>1, <1>2, <1>3, OnlineInvInit, OnlineInvNext, TruthInvNext, NothingPromised, PTL
        DEF Spec, CallsAnswered

\* The same of one call: it implements AnsweredCall.
COROLLARY EachCallImplements ==
  ASSUME TextsDiffer, NEW c \in Calls
  PROVE  Spec => Promise(c)!Spec
<1>1. Init => TruthInv /\ Promise(c)!Init
  BY NothingPromised DEF Init, TruthInv, Truth, IdleCall
<1>2. OnlineInv => \A d \in Calls : Counted(d)
  BY EffectsCounted
<1>3. OnlineInv /\ TruthInv /\ [Next]_vars /\ (\A d \in Calls : Counted(d))'
      => [Promise(c)!Next]_<<calls[c].phase, EffectsOf(c)>>
  BY StepIsPromised DEF Promised, Kept
<1> QED BY <1>1, <1>2, <1>3, OnlineInvInit, OnlineInvNext, TruthInvNext, PTL
        DEF Spec, Promise!Spec
==============================================================================
