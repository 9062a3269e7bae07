-------------------------- MODULE SessionTransport --------------------------
(***************************************************************************)
(* Requests of the incident API under a session that changes at any        *)
(* moment: SessionTransportDecorator (authorization, renewal and the one   *)
(* replay after a 401) around IncidentRetryExecutor (attempts, budget and  *)
(* waits of one logical request) over FetchIncidentTransport.  The session *)
(* is the register that Session implements; a restart of the app ends      *)
(* every request and is left out.  A request advances one step per await.  *)
(***************************************************************************)
EXTENDS SessionRegister, FiniteSets

CONSTANTS
  Requests,
  Tagged,           \* requests that name the session they were made under
  Keyless,          \* POST requests without a stable idempotency key
  MaxAttempts, BaseDelay, MaxDelay, MaxElapsed,  \* RetryConfiguration
  SendTimeout,      \* timeoutMs of one attempt
  RetryAfters,      \* the minimum waits the server may ask for
  MaxGeneration, MaxTime  \* bounds on session changes and on the clock

ASSUME ConfigurationAssumption ==  \* validRetryConfiguration
  /\ MaxAttempts \in 1..4
  /\ BaseDelay \in Nat /\ MaxDelay \in Nat \ {0} /\ MaxElapsed \in Nat \ {0}
  /\ BaseDelay <= MaxDelay /\ MaxDelay <= MaxElapsed
  /\ SendTimeout \in Nat \ {0} /\ RetryAfters \subseteq Nat
ASSUME RequestAssumption == Tagged \subseteq Requests /\ Keyless \subseteq Requests

VARIABLES
  reqs,      \* [Requests -> request]
  now,       \* the clock
  rejected   \* history: the tokens the server answered 401 to

tvars == <<session, epoch, reqs, now, rejected>>

-----------------------------------------------------------------------------
(* Data. *)

Phases == {"new", "made", "renewing", "preparing", "prepared", "sent", "sleeping",
           "recovering", "done"}
Idents == [actor : Actors \union {NoActor}, generation : Nat]
NoIdent == [actor |-> NoActor, generation |-> 0]
RequestType ==
  [phase : Phases,
   tag : Idents,           \* request.session
   generation : Nat,       \* of the session when send() began
   sent : Nat,             \* sentAuthorization, 0 for none
   header : Nat,           \* the token of the attempt being made
   as : Idents,            \* history: the session that token was taken from
   waits : Nat,            \* the token whose renewal is awaited
   renewed : BOOLEAN,      \* renewedBeforeSend
   replay : BOOLEAN, aborted : BOOLEAN,
   attempt : 0..MaxAttempts, started : Nat, until : Nat,
   late : BOOLEAN,         \* history: sent when no budget was left
   early : BOOLEAN,        \* history: sent before the wait the server asked for
   notBefore : Nat,        \* history: when that wait ends
   uncertain : BOOLEAN]    \* history: an attempt may have been executed
NewRequest ==
  [phase |-> "new", tag |-> NoIdent, generation |-> 0, sent |-> 0, header |-> 0,
   as |-> NoIdent, waits |-> 0, renewed |-> FALSE, replay |-> FALSE, aborted |-> FALSE,
   attempt |-> 0, started |-> 0, until |-> 0, late |-> FALSE, early |-> FALSE, notBefore |-> 0,
   uncertain |-> FALSE]

Lesser(a, b) == IF a < b THEN a ELSE b
Identity == [actor |-> session.actor, generation |-> session.generation]
\* getAuthorizationHeader: an expired session has none.
Header == IF session.state \in {"authenticated", "refreshing"} THEN session.token ELSE 0
NeedsRenewal == session.state \in {"expired", "refreshing"}

MatchesSession(r, q) == r \in Tagged => q.tag = Identity
SameGeneration(q) == q.generation = session.generation
\* Mutated form: the session is not compared again after the preparation.
StillMine(r, q) == TRUE
Mine(r, q) == SameGeneration(q) /\ MatchesSession(r, q)

Left(q) == IF q.started + MaxElapsed > now THEN q.started + MaxElapsed - now ELSE 0
Becomes(r, q) == reqs' = [reqs EXCEPT ![r] = q]
Done(r) == Becomes(r, [NewRequest EXCEPT !.phase = "done"])

\* refresh(generation): starts a renewal, or joins the one in progress.
AsksRenewal ==
  session' = IF session.state \in {"authenticated", "expired"}
             THEN [session EXCEPT !.state = "refreshing"] ELSE session
Awaits(r, q, phase) ==
  Becomes(r, [q EXCEPT !.phase = phase, !.waits = session.token, !.header = 0,
              !.as = NoIdent, !.until = 0])
\* The awaited renewal has settled: with new tokens, or with the session's end.
RenewalSettled(q) == session.token # q.waits \/ session.generation # q.generation

Authorized(q) ==
  [q EXCEPT !.phase = "prepared", !.header = Header, !.waits = 0, !.until = 0,
            !.as = IF Header = 0 THEN NoIdent ELSE Identity]

-----------------------------------------------------------------------------
(* The decorator and the executor, from one await to the next. *)

MayAttempt(q) == q.attempt < MaxAttempts /\ Left(q) > 0

\* The top of the executor's loop, up to the await of prepare().
Loop(r, q) ==
  \/ /\ q.aborted \/ ~MayAttempt(q) \/ ~Mine(r, q)
     /\ Done(r) /\ UNCHANGED session
  \/ /\ ~q.aborted /\ MayAttempt(q) /\ Mine(r, q)
     /\ IF NeedsRenewal
        THEN AsksRenewal /\ Awaits(r, q, "preparing")
        ELSE Becomes(r, Authorized(q)) /\ UNCHANGED session

\* send(), once a renewal before it is not needed or has settled.
Enter(r, q) ==
  \/ ~Mine(r, q) /\ Done(r) /\ UNCHANGED session
  \/ Mine(r, q) /\ Loop(r, [q EXCEPT !.sent = Header])

\* The caller makes a request; a workflow names the identity it runs under.
Make(r) ==
  /\ reqs[r].phase = "new" /\ now + MaxElapsed <= MaxTime
  /\ r \in Tagged => session.actor # NoActor
  /\ Becomes(r, [NewRequest EXCEPT !.phase = "made",
                 !.tag = IF r \in Tagged THEN Identity ELSE NoIdent])
  /\ UNCHANGED <<session, epoch, now, rejected>>

Begin(r) ==
  LET q == [reqs[r] EXCEPT !.generation = session.generation, !.started = now] IN
  /\ reqs[r].phase = "made"
  /\ \/ /\ q.aborted \/ ~MatchesSession(r, q)
        /\ Done(r) /\ UNCHANGED session
     \/ /\ ~q.aborted /\ MatchesSession(r, q)
        /\ IF NeedsRenewal
           THEN AsksRenewal /\ Awaits(r, [q EXCEPT !.renewed = TRUE], "renewing")
           ELSE Enter(r, q)
  /\ UNCHANGED <<epoch, now, rejected>>

Renewed(r) ==
  /\ reqs[r].phase = "renewing" /\ RenewalSettled(reqs[r])
  /\ Enter(r, reqs[r])
  /\ UNCHANGED <<epoch, now, rejected>>

Prepared(r) ==
  LET q == reqs[r] IN
  /\ q.phase = "preparing" /\ RenewalSettled(q)
  /\ IF Mine(r, q) THEN Becomes(r, Authorized(q)) ELSE Done(r)
  /\ UNCHANGED <<session, epoch, now, rejected>>

MaySend(q) == ~q.aborted /\ Left(q) > 0

\* transport.send: the prepared credentials, the original body and key.
Send(r) ==
  LET q == reqs[r] IN
  /\ q.phase = "prepared"
  /\ IF MaySend(q)
     THEN Becomes(r, [q EXCEPT !.phase = "sent", !.attempt = @ + 1, !.late = Left(q) = 0,
                      !.early = now < q.notBefore, !.notBefore = 0,
                      !.until = now + Lesser(SendTimeout, Left(q))])
     ELSE Done(r)
  /\ UNCHANGED <<session, epoch, now, rejected>>

-----------------------------------------------------------------------------
(* Answers. *)

Backoff(q) == Lesser(MaxDelay, BaseDelay * 2 ^ (q.attempt - 1))
\* decideRetry, for a status that may be retried.
DecideRetry(r, q, delay) ==
  /\ r \notin Keyless
  /\ Left(q) > 0 /\ q.attempt < MaxAttempts /\ delay <= MaxDelay /\ delay < Left(q)

\* A timeout, 429 or 5xx: wait, or give up with this answer.
Transient(r, p, delay, minimum) ==
  LET q == [p EXCEPT !.header = 0, !.as = NoIdent] IN
  IF ~q.aborted /\ DecideRetry(r, q, delay)
  THEN Becomes(r, [q EXCEPT !.phase = "sleeping", !.until = now + delay,
                   !.notBefore = IF minimum THEN now + delay ELSE @])
  ELSE Done(r)

\* Mutated form: an attempt has no timeout.
NeverTimedOut(q) == FALSE
TimedOut(q) == now >= q.until
TimesOut(r) ==
  LET q == reqs[r] IN
  /\ q.phase = "sent" /\ TimedOut(q)
  /\ Transient(r, [q EXCEPT !.uncertain = TRUE], Backoff(q), FALSE)
  /\ UNCHANGED <<session, epoch, now, rejected>>

Unavailable(r) ==
  LET q == [reqs[r] EXCEPT !.uncertain = TRUE] IN
  /\ reqs[r].phase = "sent"
  /\ \/ Transient(r, q, Backoff(q), FALSE)
     \/ \E wait \in RetryAfters : Transient(r, q, wait, TRUE)
  /\ UNCHANGED <<session, epoch, now, rejected>>

\* Success, a refusal that is final, an offline device, the caller's abort.
Concludes(r) ==
  /\ reqs[r].phase = "sent"
  /\ Done(r)
  /\ UNCHANGED <<session, epoch, now, rejected>>

Replay(r, q) ==
  \/ /\ ~Mine(r, q) \/ Header = 0 \/ q.aborted
     /\ Done(r) /\ UNCHANGED session
  \/ /\ Mine(r, q) /\ Header # 0 /\ ~q.aborted
     /\ Loop(r, [q EXCEPT !.replay = TRUE])

\* invalidate(generation): the controller's logout, if still of that generation.
Invalidates(q) ==
  session' = IF SameGeneration(q) THEN Nobody("logging-out", session.generation + 1)
             ELSE session

\* Mutated form: a 401 of any token asks for a renewal.
AnyToken(q) == TRUE
OfCurrentToken(q) == q.sent = Header

Unauthorized(r) ==
  LET q == reqs[r]
      final == ~SameGeneration(q) \/ q.aborted \/ (q.sent = 0 /\ ~q.replay)
      second == q.replay \/ (q.renewed /\ q.sent = Header) IN
  /\ q.phase = "sent"
  /\ rejected' = rejected \union {q.header}
  /\ \/ final /\ Done(r) /\ UNCHANGED session
     \/ ~final /\ second /\ Invalidates(q) /\ Done(r)
     \/ ~final /\ ~second /\ OfCurrentToken(q)
        /\ AsksRenewal /\ Awaits(r, q, "recovering")
     \/ ~final /\ ~second /\ ~OfCurrentToken(q) /\ Replay(r, q)
  /\ UNCHANGED <<epoch, now>>

Recovered(r) ==
  /\ reqs[r].phase = "recovering" /\ RenewalSettled(reqs[r])
  /\ Replay(r, reqs[r])
  /\ UNCHANGED <<epoch, now, rejected>>

\* Mutated form: the wait is over when the timer says so.
TrustsTimer(q) == TRUE
WaitDone(q) == now >= q.until
Wake(r) ==
  /\ reqs[r].phase = "sleeping"
  /\ IF WaitDone(reqs[r]) THEN Loop(r, reqs[r]) ELSE Done(r) /\ UNCHANGED session
  /\ UNCHANGED <<epoch, now, rejected>>

Abort(r) ==
  /\ reqs[r].phase \notin {"new", "done"} /\ ~reqs[r].aborted
  /\ Becomes(r, [reqs[r] EXCEPT !.aborted = TRUE])
  /\ UNCHANGED <<session, epoch, now, rejected>>

-----------------------------------------------------------------------------
\* A request that is made begins before the clock's next unit; the bound on
\* the clock leaves every request its whole budget.
Tick ==
  /\ now < MaxTime /\ \A r \in Requests : reqs[r].phase # "made"
  /\ now' = now + 1
  /\ UNCHANGED <<session, epoch, reqs, rejected>>

\* The session's own steps; the user may ask for a renewal too.
SessionSettles == (GiveUp \/ SignIn \/ RefreshEnds) /\ UNCHANGED <<reqs, now, rejected>>
SessionChanges ==
  /\ session.generation < MaxGeneration
  /\ Decide \/ Restore
  /\ UNCHANGED <<reqs, now, rejected>>
SessionExpires == Expire /\ UNCHANGED <<reqs, now, rejected>>
UserRefreshes == RefreshBegins /\ UNCHANGED <<reqs, now, rejected>>
\* A renewal the provider refuses ends the session.
RefreshFails ==
  /\ session.state = "refreshing"
  /\ session' = Nobody("anonymous", session.generation + 1)
  /\ UNCHANGED <<epoch, reqs, now, rejected>>

TInit ==
  /\ Init
  /\ reqs = [r \in Requests |-> NewRequest]
  /\ now = 0 /\ rejected = {}

Proceeds(r) ==
  \/ Begin(r) \/ Renewed(r) \/ Prepared(r) \/ Send(r) \/ TimesOut(r)
  \/ Recovered(r) \/ Wake(r)
Answers(r) == Unavailable(r) \/ Concludes(r) \/ Unauthorized(r)
SessionStep ==
  SessionSettles \/ SessionChanges \/ SessionExpires \/ UserRefreshes \/ RefreshFails

TNext ==
  \/ Tick \/ SessionStep
  \/ \E r \in Requests : Make(r) \/ Proceeds(r) \/ Answers(r) \/ Abort(r)
TSpec == TInit /\ [][TNext]_tvars

\* Timers fire, and a renewal settles (Session.StatesSettle): the provider
\* never has to answer a request.
TFairSpec ==
  /\ TSpec /\ WF_tvars(Tick)
  /\ WF_tvars(SessionSettles \/ RefreshFails)
  /\ \A r \in Requests : WF_tvars(Proceeds(r))

-----------------------------------------------------------------------------
(* Properties. *)

\* An attempt carries credentials of the session its request began under, and
\* of the account the workflow named, however often the session was renewed
\* or replaced while the request waited.
CredentialsMatchRequest ==
  \A r \in Requests :
    LET q == reqs[r] IN
    q.phase = "sent" /\ q.header # 0 =>
      q.as.generation = q.generation /\ (r \in Tagged => q.as = q.tag)

\* An attempt is only made while it is allowed.  The replay after a 401 and
\* slow renewals share one count and one budget of time with the retries; the
\* wait the server asked for is a minimum even when the timer wakes early; and
\* a request without a stable key is not sent again once an attempt may have
\* been executed.
SendsWhenAllowed ==
  \A r \in Requests :
    /\ reqs[r] \in RequestType
    /\ reqs[r].attempt <= MaxAttempts /\ ~reqs[r].late
    /\ ~reqs[r].early
    /\ r \in Keyless /\ reqs[r].uncertain => reqs[r].phase = "done"

\* What a request does to the session.  It starts a renewal only of a token
\* that expired or that the server rejected: a late 401 of an earlier token
\* does not renew the new one.  And it ends no session but the one it began
\* under: answers of earlier generations never close a new session.
RequestsRespectSession ==
  [][/\ RefreshBegins => \/ UserRefreshes
                         \/ session.state = "expired"
                         \/ session.token \in rejected'
     /\ \A r \in Requests :
          Answers(r) /\ session'.generation # session.generation
            => reqs[r].generation = session.generation]_tvars

\* Every request ends, whatever the server and the session do.
RequestEnds == \A r \in Requests : reqs[r].phase = "made" ~> reqs[r].phase = "done"
==============================================================================
