----------------------- MODULE SessionTransportProofs -----------------------
(***************************************************************************)
(* What is proved of the transport for any number of requests, sessions    *)
(* and retries: every attempt is allowed and carries the credentials of    *)
(* its request, and no request ends or renews a session it should not.     *)
(* The argument is about one request at a time: what it knows of the       *)
(* session stays true while the session ages, because a generation never   *)
(* comes back and its tokens only get newer.                               *)
(***************************************************************************)
EXTENDS SessionTransport, TLAPS

SessionStates == {"anonymous", "signing-in", "authenticated", "expired", "refreshing",
                  "logging-out"}
Sessions == [state : SessionStates, actor : Actors \union {NoActor}, token : Nat,
             generation : Nat]
SessionInv ==
  /\ session \in Sessions
  /\ session.token # 0 <=> session.state \in {"authenticated", "expired", "refreshing"}

\* A session becomes a later one, or the same with the same or newer tokens.
Ages(s, later) ==
  /\ s.generation <= later.generation
  /\ s.generation = later.generation => s.token <= later.token

\* What every request keeps, with the session s at the time n.
Runs(r, q, s, n) ==
  /\ q \in RequestType
  /\ ~q.late /\ ~q.early
  /\ r \in Keyless => ~q.uncertain
  /\ q.generation <= s.generation
  /\ q.generation = s.generation => q.sent <= s.token

\* A request between two awaits.  Attempts are left for the one it prepares;
\* a wait the server asked for is over unless it sleeps; credentials that were
\* prepared are its own; and if the token it was authorized with when it began
\* is still the session's, the attempt carries that token.
Fits(r, q, s, n) ==
  /\ Runs(r, q, s, n)
  /\ q.phase \in {"new", "made"} => q.sent = 0
  /\ q.phase \in {"preparing", "prepared"} => q.attempt < MaxAttempts
  /\ q.phase = "sent" => q.attempt # 0
  /\ IF q.phase = "sleeping" THEN q.notBefore <= n \/ q.notBefore <= q.until
     ELSE q.notBefore <= n
  /\ q.phase \in {"prepared", "sent"} /\ q.header # 0 =>
       q.as.generation = q.generation /\ (r \in Tagged => q.as = q.tag)
  /\ q.generation = s.generation =>
       /\ q.waits <= s.token
       /\ q.phase = "preparing" => q.sent <= q.waits
       /\ q.phase \in {"prepared", "sent"} /\ q.sent # 0 /\ q.sent = s.token =>
            q.header = s.token

TransportInv ==
  /\ SessionInv /\ now \in Nat /\ DOMAIN reqs = Requests
  /\ \A r \in Requests : Fits(r, reqs[r], session, now)

-----------------------------------------------------------------------------
(* The configuration, and powers of two up to the last attempt. *)

LEMMA Configuration ==
  /\ MaxAttempts \in Nat /\ MaxAttempts >= 1 /\ MaxAttempts <= 4
  /\ BaseDelay \in Nat /\ MaxDelay \in Nat /\ MaxElapsed \in Nat /\ SendTimeout \in Nat
  /\ RetryAfters \subseteq Nat
  BY ConfigurationAssumption

LEMMA BackoffIsNat ==
  ASSUME NEW q, q.attempt \in 1..4
  PROVE  Backoff(q) \in Nat
<1>1. 2^0 = 1 /\ 2^1 = 2 /\ 2^2 = 4 /\ 2^3 = 8
  OBVIOUS
<1>2. 2^(q.attempt - 1) \in Nat
  <2>1. CASE q.attempt = 1
    BY <1>1, <2>1
  <2>2. CASE q.attempt = 2
    BY <1>1, <2>2
  <2>3. CASE q.attempt = 3
    BY <1>1, <2>3
  <2>4. CASE q.attempt = 4
    BY <1>1, <2>4
  <2> QED BY <2>1, <2>2, <2>3, <2>4
<1> DEFINE p == 2^(q.attempt - 1)
<1> HIDE DEF p
<1>3. BaseDelay * p \in Nat
  BY <1>2, Configuration DEF p
<1> QED BY <1>3, Configuration DEF p, Backoff, Lesser

LEMMA LeftIsNat ==
  ASSUME now \in Nat, NEW q, q.started \in Nat
  PROVE  Left(q) \in Nat
  BY Configuration DEF Left

-----------------------------------------------------------------------------
(* What a request knows survives the session's ageing and the clock. *)

LEMMA AgedFits ==
  ASSUME NEW r \in Requests, NEW q, NEW s \in Sessions, NEW later \in Sessions,
         NEW n \in Nat, NEW m \in Nat, Fits(r, q, s, n), Ages(s, later), n <= m
  PROVE  Fits(r, q, later, m)
<1>1. /\ q \in RequestType /\ q.generation \in Nat /\ q.sent \in Nat /\ q.waits \in Nat
      /\ q.notBefore \in Nat /\ q.until \in Nat
      /\ s.generation \in Nat /\ s.token \in Nat /\ later.generation \in Nat
      /\ later.token \in Nat
  BY DEF Fits, Runs, RequestType, Sessions
<1>2. q.generation = later.generation =>
        q.generation = s.generation /\ s.token <= later.token
  BY <1>1 DEF Fits, Runs, Ages
<1>3. Runs(r, q, later, m)
  BY <1>1, <1>2 DEF Fits, Runs, Ages
<1>4. IF q.phase = "sleeping" THEN q.notBefore <= m \/ q.notBefore <= q.until
      ELSE q.notBefore <= m
  BY <1>1 DEF Fits
<1>5. q.generation = later.generation =>
       /\ q.waits <= later.token
       /\ q.phase = "preparing" => q.sent <= q.waits
       /\ q.phase \in {"prepared", "sent"} /\ q.sent # 0 /\ q.sent = later.token =>
            q.header = later.token
  BY <1>1, <1>2 DEF Fits, Runs
<1> QED BY <1>3, <1>4, <1>5 DEF Fits

LEMMA EveryoneAges ==
  ASSUME TransportInv, SessionInv', Ages(session, session'), now' \in Nat, now <= now',
         reqs' = reqs
  PROVE  TransportInv'
<1>1. session \in Sessions /\ session' \in Sessions /\ now \in Nat
  BY DEF TransportInv, SessionInv
<1>2. ASSUME NEW r \in Requests PROVE Fits(r, reqs[r], session', now')
  BY <1>1, AgedFits DEF TransportInv
<1> QED BY <1>2 DEF TransportInv

\* One request goes on.
LEMMA OneBecomes ==
  ASSUME TransportInv, SessionInv', Ages(session, session'), now' = now,
         NEW r \in Requests, NEW q, Becomes(r, q), Fits(r, q, session', now)
  PROVE  TransportInv'
<1>1. session \in Sessions /\ session' \in Sessions /\ now \in Nat
  BY DEF TransportInv, SessionInv
<1>2. reqs' = [reqs EXCEPT ![r] = q]
  BY DEF Becomes
<1>3. DOMAIN reqs' = Requests /\ reqs'[r] = q /\ \A t \in Requests : t # r => reqs'[t] = reqs[t]
  BY <1>2 DEF TransportInv
<1>4. ASSUME NEW t \in Requests PROVE Fits(t, reqs'[t], session', now)
  <2>1. CASE t = r
    BY <1>3, <2>1
  <2>2. CASE t # r
    BY <1>1, <1>3, <2>2, AgedFits DEF TransportInv
  <2> QED BY <2>1, <2>2
<1> QED BY <1>3, <1>4 DEF TransportInv

LEMMA SessionSame ==
  ASSUME SessionInv, session' = session
  PROVE  SessionInv' /\ Ages(session, session')
  BY DEF SessionInv, Ages, Sessions

LEMMA RenewalAsked ==
  ASSUME SessionInv, AsksRenewal
  PROVE  /\ SessionInv' /\ Ages(session, session')
         /\ session'.generation = session.generation /\ session'.token = session.token
  BY DEF SessionInv, Ages, AsksRenewal, Sessions, SessionStates

LEMMA NewRequestType == NewRequest \in RequestType
  BY Configuration DEF NewRequest, RequestType, Phases, Idents, NoIdent

LEMMA DoneFits ==
  ASSUME NEW r \in Requests, NEW s \in Sessions, NEW n \in Nat
  PROVE  Fits(r, [NewRequest EXCEPT !.phase = "done"], s, n)
<1> DEFINE q == [NewRequest EXCEPT !.phase = "done"]
<1>1. q \in RequestType
  BY NewRequestType DEF RequestType, Phases
<1>2. /\ q.phase = "done" /\ ~q.late /\ ~q.early /\ ~q.uncertain /\ q.generation = 0
      /\ q.sent = 0 /\ q.notBefore = 0 /\ q.waits = 0
  BY DEF NewRequest
<1> HIDE DEF q
<1>3. s.generation \in Nat /\ s.token \in Nat
  BY DEF Sessions
<1>4. Fits(r, q, s, n)
  BY <1>1, <1>2, <1>3 DEF Fits, Runs
<1> QED BY <1>4 DEF q

LEMMA DoneKeeps ==
  ASSUME TransportInv, SessionInv', Ages(session, session'), now' = now,
         NEW r \in Requests, Done(r)
  PROVE  TransportInv'
<1>1. Fits(r, [NewRequest EXCEPT !.phase = "done"], session', now)
  BY DoneFits DEF TransportInv, SessionInv
<1> QED BY <1>1, OneBecomes DEF Done

\* Credentials that are taken while the session is the request's own.
LEMMA AuthorizedFits ==
  ASSUME SessionInv, now \in Nat, NEW r \in Requests, NEW q, Runs(r, q, session, now),
         Mine(r, q), q.attempt < MaxAttempts, q.notBefore <= now,
         q.sent # 0 /\ q.sent = session.token => Header = session.token
  PROVE  Fits(r, Authorized(q), session, now)
<1> DEFINE p == Authorized(q)
<1>1. /\ session.token \in Nat /\ session.generation \in Nat
      /\ Header \in Nat /\ Identity \in Idents /\ NoIdent \in Idents
      /\ Identity.generation = session.generation
  BY DEF SessionInv, Sessions, Header, Identity, Idents, NoIdent
<1>2. /\ p \in RequestType /\ p.phase = "prepared" /\ p.header = Header
      /\ p.as = (IF Header = 0 THEN NoIdent ELSE Identity) /\ p.waits = 0
      /\ p.tag = q.tag /\ p.generation = q.generation /\ p.sent = q.sent
      /\ p.attempt = q.attempt /\ p.late = q.late /\ p.early = q.early
      /\ p.notBefore = q.notBefore /\ p.uncertain = q.uncertain
  BY <1>1 DEF Authorized, Runs, RequestType, Phases
<1> HIDE DEF p
<1>3. q.generation = session.generation /\ (r \in Tagged => q.tag = Identity)
      /\ q.attempt < MaxAttempts
  BY DEF Mine, SameGeneration, MatchesSession
<1>4. Runs(r, p, session, now)
  BY <1>2 DEF Runs
<1>5. Fits(r, p, session, now)
  BY <1>1, <1>2, <1>3, <1>4 DEF Fits
<1> QED BY <1>5 DEF p

\* The request waits for a renewal.
LEMMA AwaitsKeeps ==
  ASSUME TransportInv, now' = now, NEW r \in Requests, NEW q, Runs(r, q, session, now),
         q.notBefore <= now,
         NEW phase \in {"renewing", "preparing", "recovering"},
         phase = "preparing" => q.attempt < MaxAttempts,
         AsksRenewal, Awaits(r, q, phase)
  PROVE  TransportInv'
<1> DEFINE p == [q EXCEPT !.phase = phase, !.waits = session.token, !.header = 0,
                          !.as = NoIdent, !.until = 0]
<1>1. session.token \in Nat /\ NoIdent \in Idents /\ session.generation \in Nat
  BY DEF TransportInv, SessionInv, Sessions, NoIdent, Idents
<1>2. /\ p \in RequestType /\ p.phase = phase /\ p.waits = session.token /\ p.header = 0
      /\ p.generation = q.generation /\ p.sent = q.sent
      /\ p.attempt = q.attempt /\ p.late = q.late /\ p.early = q.early
      /\ p.notBefore = q.notBefore /\ p.uncertain = q.uncertain
  BY <1>1 DEF Runs, RequestType, Phases
<1>3. Becomes(r, p)
  BY DEF Awaits
<1> HIDE DEF p
<1>4. /\ SessionInv' /\ Ages(session, session')
      /\ session'.generation = session.generation /\ session'.token = session.token
  BY RenewalAsked DEF TransportInv
<1>5. p.sent \in Nat
  BY <1>2 DEF RequestType
<1>6. Fits(r, p, session', now)
  BY <1>1, <1>2, <1>4, <1>5 DEF Fits, Runs
<1> QED BY <1>3, <1>4, <1>6, OneBecomes

-----------------------------------------------------------------------------
(* The executor's loop, and the decorator's ways into it. *)

LEMMA LoopKeeps ==
  ASSUME TransportInv, now' = now, NEW r \in Requests, NEW q, Runs(r, q, session, now),
         q.notBefore <= now, Loop(r, q)
  PROVE  TransportInv'
<1>1. SessionInv /\ now \in Nat
  BY DEF TransportInv
<1>2. CASE Done(r) /\ UNCHANGED session
  BY <1>1, <1>2, SessionSame, DoneKeeps
<1>3. CASE /\ MayAttempt(q) /\ Mine(r, q)
           /\ IF NeedsRenewal
              THEN AsksRenewal /\ Awaits(r, q, "preparing")
              ELSE Becomes(r, Authorized(q)) /\ UNCHANGED session
  <2>1. q.attempt < MaxAttempts
    BY <1>3 DEF MayAttempt
  <2>2. CASE NeedsRenewal
    BY <1>3, <2>1, <2>2, AwaitsKeeps
  <2>3. CASE ~NeedsRenewal
    <3>1. q.sent # 0 /\ q.sent = session.token => Header = session.token
      BY <1>1, <2>3 DEF NeedsRenewal, SessionInv, Header
    <3>2. Fits(r, Authorized(q), session, now)
      BY <1>1, <1>3, <2>1, <3>1, AuthorizedFits
    <3>3. SessionInv' /\ Ages(session, session') /\ session' = session
      BY <1>1, <1>3, <2>3, SessionSame
    <3> QED BY <1>3, <2>3, <3>2, <3>3, OneBecomes
  <2> QED BY <2>2, <2>3
<1> QED BY <1>2, <1>3 DEF Loop

\* A loop renews only a session that expired.
LEMMA LoopAsks ==
  ASSUME SessionInv, NEW r, NEW q, Loop(r, q), session' # session
  PROVE  session.state = "expired" /\ AsksRenewal
<1>1. NeedsRenewal /\ AsksRenewal
  BY DEF Loop
<1>2. session.state = "refreshing" => session' = session
  BY <1>1 DEF AsksRenewal
<1> QED BY <1>1, <1>2 DEF NeedsRenewal

LEMMA EnterKeeps ==
  ASSUME TransportInv, now' = now, NEW r \in Requests, NEW q, Runs(r, q, session, now),
         q.notBefore <= now, Enter(r, q)
  PROVE  TransportInv'
<1>1. SessionInv /\ now \in Nat
  BY DEF TransportInv
<1>2. CASE Done(r) /\ UNCHANGED session
  BY <1>1, <1>2, SessionSame, DoneKeeps
<1>3. CASE Loop(r, [q EXCEPT !.sent = Header])
  <2> DEFINE p == [q EXCEPT !.sent = Header]
  <2>1. Header \in Nat /\ Header <= session.token
    BY <1>1 DEF SessionInv, Sessions, Header
  <2>2. /\ p \in RequestType /\ p.sent = Header /\ p.generation = q.generation
        /\ p.late = q.late /\ p.early = q.early /\ p.uncertain = q.uncertain
        /\ p.notBefore = q.notBefore
    BY <2>1 DEF Runs, RequestType
  <2> HIDE DEF p
  <2>3. Runs(r, p, session, now)
    BY <2>1, <2>2 DEF Runs
  <2>4. Loop(r, p)
    BY <1>3 DEF p
  <2> QED BY <2>2, <2>3, <2>4, LoopKeeps
<1> QED BY <1>2, <1>3 DEF Enter

LEMMA EnterAsks ==
  ASSUME SessionInv, NEW r, NEW q, Enter(r, q), session' # session
  PROVE  session.state = "expired"
  BY LoopAsks DEF Enter

LEMMA ReplayKeeps ==
  ASSUME TransportInv, now' = now, NEW r \in Requests, NEW q, Runs(r, q, session, now),
         q.notBefore <= now, Replay(r, q)
  PROVE  TransportInv'
<1>1. SessionInv /\ now \in Nat
  BY DEF TransportInv
<1>2. CASE Done(r) /\ UNCHANGED session
  BY <1>1, <1>2, SessionSame, DoneKeeps
<1>3. CASE Loop(r, [q EXCEPT !.replay = TRUE])
  <2> DEFINE p == [q EXCEPT !.replay = TRUE]
  <2>1. /\ p \in RequestType /\ p.sent = q.sent /\ p.generation = q.generation
        /\ p.late = q.late /\ p.early = q.early /\ p.uncertain = q.uncertain
        /\ p.notBefore = q.notBefore
    BY DEF Runs, RequestType
  <2> HIDE DEF p
  <2>2. Runs(r, p, session, now)
    BY <2>1 DEF Runs
  <2>3. Loop(r, p)
    BY <1>3 DEF p
  <2> QED BY <2>1, <2>2, <2>3, LoopKeeps
<1> QED BY <1>2, <1>3 DEF Replay

LEMMA ReplayAsks ==
  ASSUME SessionInv, NEW r, NEW q, Replay(r, q), session' # session
  PROVE  session.state = "expired" /\ AsksRenewal
  BY LoopAsks DEF Replay

-----------------------------------------------------------------------------
(* The steps of a request. *)

LEMMA MakeKeeps ==
  ASSUME TransportInv, NEW r \in Requests, Make(r)
  PROVE  TransportInv'
<1> DEFINE q == [NewRequest EXCEPT !.phase = "made",
                                   !.tag = IF r \in Tagged THEN Identity ELSE NoIdent]
<1>1. SessionInv /\ now \in Nat
  BY DEF TransportInv
<1>2. Becomes(r, q) /\ now' = now /\ session' = session
  BY DEF Make
<1>3. Identity \in Idents /\ NoIdent \in Idents
  BY <1>1 DEF SessionInv, Sessions, Identity, Idents, NoIdent
<1>4. q \in RequestType
  BY <1>3, NewRequestType DEF RequestType, Phases
<1>5. /\ q.phase = "made" /\ ~q.late /\ ~q.early /\ ~q.uncertain /\ q.generation = 0
      /\ q.sent = 0 /\ q.notBefore = 0 /\ q.waits = 0
  BY DEF NewRequest
<1> HIDE DEF q
<1>6. SessionInv' /\ Ages(session, session')
  BY <1>1, <1>2, SessionSame
<1>7. session.generation \in Nat /\ session.token \in Nat
  BY <1>1 DEF SessionInv, Sessions
<1>8. Fits(r, q, session, now)
  BY <1>1, <1>4, <1>5, <1>7 DEF Fits, Runs
<1> QED BY <1>2, <1>6, <1>8, OneBecomes

LEMMA BeginKeeps ==
  ASSUME TransportInv, NEW r \in Requests, Begin(r)
  PROVE  TransportInv'
<1> DEFINE q == [reqs[r] EXCEPT !.generation = session.generation, !.started = now]
           p == [q EXCEPT !.renewed = TRUE]
<1>1. SessionInv /\ now \in Nat /\ now' = now /\ Fits(r, reqs[r], session, now)
  BY DEF TransportInv, Begin
<1>2. /\ session.generation \in Nat /\ session.token \in Nat
      /\ reqs[r] \in RequestType /\ reqs[r].phase = "made" /\ reqs[r].sent = 0
      /\ reqs[r].notBefore <= now /\ Runs(r, reqs[r], session, now)
  BY <1>1 DEF SessionInv, Sessions, Fits, Runs, Begin
<1>3. /\ q \in RequestType /\ q.sent = 0 /\ q.generation = session.generation
      /\ q.late = reqs[r].late /\ q.early = reqs[r].early
      /\ q.uncertain = reqs[r].uncertain /\ q.notBefore <= now
  BY <1>1, <1>2 DEF RequestType
<1>4. \/ Done(r) /\ UNCHANGED session
      \/ AsksRenewal /\ Awaits(r, p, "renewing")
      \/ Enter(r, q)
  BY DEF Begin
<1>5. /\ p \in RequestType /\ p.sent = 0 /\ p.generation = session.generation
      /\ p.late = reqs[r].late /\ p.early = reqs[r].early
      /\ p.uncertain = reqs[r].uncertain /\ p.notBefore <= now
  BY <1>3 DEF RequestType
<1> HIDE DEF q, p
<1>6. Runs(r, q, session, now) /\ Runs(r, p, session, now)
  BY <1>2, <1>3, <1>5 DEF Runs
<1>7. CASE Done(r) /\ UNCHANGED session
  BY <1>1, <1>7, SessionSame, DoneKeeps
<1>8. CASE AsksRenewal /\ Awaits(r, p, "renewing")
  BY <1>1, <1>5, <1>6, <1>8, AwaitsKeeps
<1>9. CASE Enter(r, q)
  BY <1>1, <1>3, <1>6, <1>9, EnterKeeps
<1> QED BY <1>4, <1>7, <1>8, <1>9

LEMMA RenewedKeeps ==
  ASSUME TransportInv, NEW r \in Requests, Renewed(r)
  PROVE  TransportInv'
<1>1. now' = now /\ Runs(r, reqs[r], session, now) /\ reqs[r].notBefore <= now
  BY DEF TransportInv, Renewed, Fits
<1> QED BY <1>1, EnterKeeps DEF Renewed

\* A renewal brought a token newer than the one this attempt was authorized with.
LEMMA PreparedKeeps ==
  ASSUME TransportInv, NEW r \in Requests, Prepared(r)
  PROVE  TransportInv'
<1> DEFINE q == reqs[r]
<1>1. /\ SessionInv /\ now \in Nat /\ now' = now /\ session' = session
      /\ q.phase = "preparing" /\ RenewalSettled(q) /\ Fits(r, q, session, now)
  BY DEF TransportInv, Prepared
<1>2. CASE Done(r)
  BY <1>1, <1>2, SessionSame, DoneKeeps
<1>3. CASE Mine(r, q) /\ Becomes(r, Authorized(q))
  <2>1. /\ q.sent \in Nat /\ q.waits \in Nat /\ session.token \in Nat
        /\ q.attempt < MaxAttempts /\ q.notBefore <= now /\ Runs(r, q, session, now)
    BY <1>1 DEF Fits, Runs, RequestType, SessionInv, Sessions
  <2>2. q.waits <= session.token /\ q.sent <= q.waits /\ session.token # q.waits
    BY <1>1, <1>3 DEF Mine, SameGeneration, RenewalSettled, Fits
  <2>3. q.sent # session.token
    BY <2>1, <2>2
  <2>4. Fits(r, Authorized(q), session, now)
    BY <1>1, <1>3, <2>1, <2>3, AuthorizedFits
  <2>5. SessionInv' /\ Ages(session, session')
    BY <1>1, SessionSame
  <2> QED BY <1>1, <1>3, <2>4, <2>5, OneBecomes
<1> QED BY <1>2, <1>3 DEF Prepared

LEMMA SendKeeps ==
  ASSUME TransportInv, NEW r \in Requests, Send(r)
  PROVE  TransportInv'
<1> DEFINE q == reqs[r]
           p == [q EXCEPT !.phase = "sent", !.attempt = @ + 1, !.late = Left(q) = 0,
                          !.early = now < q.notBefore, !.notBefore = 0,
                          !.until = now + Lesser(SendTimeout, Left(q))]
<1>1. /\ SessionInv /\ now \in Nat /\ now' = now /\ session' = session
      /\ q.phase = "prepared" /\ Fits(r, q, session, now)
  BY DEF TransportInv, Send
<1>2. SessionInv' /\ Ages(session, session')
  BY <1>1, SessionSame
<1>3. CASE Done(r)
  BY <1>1, <1>2, <1>3, DoneKeeps
<1>4. CASE MaySend(q) /\ Becomes(r, p)
  <2>1. q \in RequestType /\ q.attempt < MaxAttempts /\ q.notBefore <= now
        /\ Runs(r, q, session, now)
    BY <1>1 DEF Fits, Runs
  <2>2. q.started \in Nat /\ q.attempt \in Nat /\ q.notBefore \in Nat
    BY <2>1, Configuration DEF RequestType
  <2>3. Left(q) \in Nat /\ Left(q) # 0
    BY <1>1, <1>4, <2>2, LeftIsNat DEF MaySend
  <2>4. now + Lesser(SendTimeout, Left(q)) \in Nat /\ (Left(q) = 0) = FALSE
        /\ (now < q.notBefore) = FALSE /\ q.attempt + 1 \in 0..MaxAttempts
        /\ q.attempt + 1 # 0
    BY <1>1, <2>1, <2>2, <2>3, Configuration DEF Lesser
  <2>5. /\ p \in RequestType /\ p.phase = "sent" /\ ~p.late /\ ~p.early /\ p.notBefore = 0
        /\ p.sent = q.sent /\ p.generation = q.generation /\ p.uncertain = q.uncertain
        /\ p.header = q.header /\ p.as = q.as /\ p.tag = q.tag /\ p.waits = q.waits
        /\ p.attempt # 0
    BY <2>1, <2>4 DEF RequestType, Phases
  <2> HIDE DEF p
  <2>6. Runs(r, p, session, now)
    BY <2>1, <2>5 DEF Runs
  <2>7. Fits(r, p, session, now)
    BY <1>1, <2>5, <2>6 DEF Fits
  <2> QED BY <1>1, <1>2, <1>4, <2>7, OneBecomes
<1> QED BY <1>3, <1>4 DEF Send

-----------------------------------------------------------------------------
(* Answers, waits and the caller's abort. *)

\* The wait of a request that is sent again.
LEMMA TransientKeeps ==
  ASSUME TransportInv, now' = now, session' = session, NEW r \in Requests,
         reqs[r].phase = "sent", NEW delay \in Nat, NEW minimum \in BOOLEAN,
         Transient(r, [reqs[r] EXCEPT !.uncertain = TRUE], delay, minimum)
  PROVE  TransportInv'
<1> DEFINE q == reqs[r]
           u == [q EXCEPT !.uncertain = TRUE]
           z == [u EXCEPT !.header = 0, !.as = NoIdent]
           p == [z EXCEPT !.phase = "sleeping", !.until = now + delay,
                          !.notBefore = IF minimum THEN now + delay ELSE @]
<1>1. SessionInv /\ now \in Nat /\ Fits(r, q, session, now)
  BY DEF TransportInv
<1>2. SessionInv' /\ Ages(session, session')
  BY <1>1, SessionSame
<1>3. CASE Done(r)
  BY <1>2, <1>3, DoneKeeps
<1>4. CASE r \notin Keyless /\ Becomes(r, p)
  <2>1. q \in RequestType /\ q.notBefore \in Nat /\ q.notBefore <= now /\ NoIdent \in Idents
        /\ Runs(r, q, session, now) /\ now + delay \in Nat
    BY <1>1 DEF Fits, Runs, RequestType, NoIdent, Idents
  <2>2. z \in RequestType /\ z.phase = "sent" /\ z.late = q.late /\ z.early = q.early
        /\ z.sent = q.sent /\ z.generation = q.generation /\ z.waits = q.waits
        /\ z.notBefore = q.notBefore
    BY <2>1 DEF RequestType
  <2> HIDE DEF z
  <2>3. /\ p \in RequestType /\ p.phase = "sleeping" /\ p.late = q.late /\ p.early = q.early
        /\ p.sent = q.sent /\ p.generation = q.generation /\ p.waits = q.waits
        /\ p.until = now + delay
        /\ p.notBefore = (IF minimum THEN now + delay ELSE q.notBefore)
    BY <2>1, <2>2 DEF RequestType, Phases
  <2> HIDE DEF p
  <2>4. Runs(r, p, session, now)
    BY <1>4, <2>1, <2>3 DEF Runs
  <2>5. p.notBefore <= now \/ p.notBefore <= p.until
    BY <2>1, <2>3
  <2>6. Fits(r, p, session, now)
    BY <1>1, <2>3, <2>4, <2>5 DEF Fits
  <2> QED BY <1>2, <1>4, <2>6, OneBecomes
<1> QED BY <1>3, <1>4 DEF Transient, DecideRetry

LEMMA AttemptCounts ==
  ASSUME TransportInv, NEW r \in Requests, reqs[r].phase = "sent"
  PROVE  /\ Backoff(reqs[r]) \in Nat
         /\ Backoff([reqs[r] EXCEPT !.uncertain = TRUE]) \in Nat
<1>1. reqs[r] \in RequestType /\ reqs[r].attempt # 0
  BY DEF TransportInv, Fits, Runs
<1>2. reqs[r].attempt \in 1..4
  BY <1>1, Configuration DEF RequestType
<1>3. [reqs[r] EXCEPT !.uncertain = TRUE].attempt = reqs[r].attempt
  BY <1>1 DEF RequestType
<1> QED BY <1>2, <1>3, BackoffIsNat

LEMMA TimesOutKeeps ==
  ASSUME TransportInv, NEW r \in Requests, TimesOut(r)
  PROVE  TransportInv'
<1>1. /\ reqs[r].phase = "sent" /\ now' = now /\ session' = session
      /\ Transient(r, [reqs[r] EXCEPT !.uncertain = TRUE], Backoff(reqs[r]), FALSE)
  BY DEF TimesOut
<1>2. Backoff(reqs[r]) \in Nat
  BY <1>1, AttemptCounts
<1> QED BY <1>1, <1>2, TransientKeeps

LEMMA UnavailableKeeps ==
  ASSUME TransportInv, NEW r \in Requests, Unavailable(r)
  PROVE  TransportInv'
<1> DEFINE q == [reqs[r] EXCEPT !.uncertain = TRUE]
<1>1. /\ reqs[r].phase = "sent" /\ now' = now /\ session' = session
      /\ \/ Transient(r, q, Backoff(q), FALSE)
         \/ \E wait \in RetryAfters : Transient(r, q, wait, TRUE)
  BY DEF Unavailable
<1>2. Backoff(q) \in Nat
  BY <1>1, AttemptCounts
<1>3. CASE Transient(r, q, Backoff(q), FALSE)
  BY <1>1, <1>2, <1>3, TransientKeeps
<1>4. ASSUME NEW wait \in RetryAfters, Transient(r, q, wait, TRUE)
      PROVE  TransportInv'
  BY <1>1, <1>4, Configuration, TransientKeeps
<1> QED BY <1>1, <1>3, <1>4

LEMMA ConcludesKeeps ==
  ASSUME TransportInv, NEW r \in Requests, Concludes(r)
  PROVE  TransportInv'
<1>1. SessionInv' /\ Ages(session, session') /\ now' = now /\ Done(r)
  BY SessionSame DEF TransportInv, Concludes
<1> QED BY <1>1, DoneKeeps

\* A generation that ends is never used again.
LEMMA NobodyAges ==
  ASSUME SessionInv, NEW state \in SessionStates \ {"authenticated", "expired", "refreshing"},
         session' = Nobody(state, session.generation + 1)
  PROVE  SessionInv' /\ Ages(session, session')
<1>1. session.generation \in Nat /\ session.token \in Nat
  BY DEF SessionInv, Sessions
<1>2. /\ session'.generation = session.generation + 1 /\ session'.token = 0
      /\ session'.state = state /\ session' \in Sessions
  BY <1>1 DEF Nobody, Sessions
<1> QED BY <1>1, <1>2 DEF SessionInv, Ages

LEMMA UnauthorizedKeeps ==
  ASSUME TransportInv, NEW r \in Requests, Unauthorized(r)
  PROVE  TransportInv'
<1> DEFINE q == reqs[r]
<1>1. /\ SessionInv /\ now' = now /\ q.phase = "sent" /\ Runs(r, q, session, now)
      /\ q.notBefore <= now
  BY DEF TransportInv, Unauthorized, Fits
<1>2. \/ Done(r) /\ UNCHANGED session
      \/ Invalidates(q) /\ Done(r)
      \/ AsksRenewal /\ Awaits(r, q, "recovering")
      \/ Replay(r, q)
  BY DEF Unauthorized
<1>3. CASE Done(r) /\ UNCHANGED session
  BY <1>1, <1>3, SessionSame, DoneKeeps
<1>4. CASE Invalidates(q) /\ Done(r)
  <2>1. SessionInv' /\ Ages(session, session')
    BY <1>1, <1>4, SessionSame, NobodyAges DEF Invalidates, SessionStates
  <2> QED BY <1>1, <1>4, <2>1, DoneKeeps
<1>5. CASE AsksRenewal /\ Awaits(r, q, "recovering")
  BY <1>1, <1>5, AwaitsKeeps
<1>6. CASE Replay(r, q)
  BY <1>1, <1>6, ReplayKeeps
<1> QED BY <1>2, <1>3, <1>4, <1>5, <1>6

LEMMA RecoveredKeeps ==
  ASSUME TransportInv, NEW r \in Requests, Recovered(r)
  PROVE  TransportInv'
<1>1. /\ now' = now /\ Runs(r, reqs[r], session, now) /\ reqs[r].notBefore <= now
      /\ Replay(r, reqs[r])
  BY DEF TransportInv, Recovered, Fits
<1> QED BY <1>1, ReplayKeeps

LEMMA WakeKeeps ==
  ASSUME TransportInv, NEW r \in Requests, Wake(r)
  PROVE  TransportInv'
<1>1. /\ SessionInv /\ now \in Nat /\ now' = now /\ Runs(r, reqs[r], session, now)
      /\ reqs[r].phase = "sleeping"
      /\ reqs[r].notBefore <= now \/ reqs[r].notBefore <= reqs[r].until
  BY DEF TransportInv, Wake, Fits
<1>2. CASE WaitDone(reqs[r]) /\ Loop(r, reqs[r])
  <2>1. reqs[r].notBefore \in Nat /\ reqs[r].until \in Nat
    BY <1>1 DEF Runs, RequestType
  <2>2. reqs[r].notBefore <= now
    BY <1>1, <1>2, <2>1 DEF WaitDone
  <2> QED BY <1>1, <1>2, <2>2, LoopKeeps
<1>3. CASE Done(r) /\ UNCHANGED session
  BY <1>1, <1>3, SessionSame, DoneKeeps
<1> QED BY <1>2, <1>3 DEF Wake

LEMMA AbortKeeps ==
  ASSUME TransportInv, NEW r \in Requests, Abort(r)
  PROVE  TransportInv'
<1> DEFINE q == reqs[r]
           p == [q EXCEPT !.aborted = TRUE]
<1>1. /\ SessionInv /\ now \in Nat /\ Fits(r, q, session, now) /\ q \in RequestType
      /\ session' = session /\ now' = now /\ Becomes(r, p)
  BY DEF TransportInv, Abort, Fits, Runs
<1>2. /\ p \in RequestType /\ p.phase = q.phase /\ p.late = q.late /\ p.early = q.early
      /\ p.uncertain = q.uncertain /\ p.generation = q.generation /\ p.sent = q.sent
      /\ p.attempt = q.attempt /\ p.notBefore = q.notBefore /\ p.until = q.until
      /\ p.header = q.header /\ p.as = q.as /\ p.tag = q.tag /\ p.waits = q.waits
  BY <1>1 DEF RequestType
<1> HIDE DEF p
<1>3. Runs(r, p, session, now)
  BY <1>1, <1>2 DEF Runs, Fits
<1>4. Fits(r, p, session, now)
  BY <1>1, <1>2, <1>3 DEF Fits
<1> QED BY <1>1, <1>4, SessionSame, OneBecomes

-----------------------------------------------------------------------------
(* The session's own steps, and the clock. *)

\* A session keeps its token until it ends or a renewal brings a newer one.
LEMMA TokenAges ==
  ASSUME SessionInv, NEW actor \in Actors \union {NoActor}, NEW t \in Serials, NEW g \in Nat,
         session' = SignedInAs(actor, t, g), session.generation <= g,
         session.generation = g => session.token <= t
  PROVE  SessionInv' /\ Ages(session, session')
<1>1. t \in Nat /\ t # 0
  BY SerialsAssumption
<1>2. /\ session'.generation = g /\ session'.token = t /\ session'.state = "authenticated"
      /\ session' \in Sessions
  BY <1>1 DEF SignedInAs, Sessions, SessionStates
<1> QED BY <1>1, <1>2 DEF SessionInv, Ages

LEMMA SessionStepAges ==
  ASSUME SessionInv, SessionStep
  PROVE  SessionInv' /\ Ages(session, session')
<1>1. /\ session \in Sessions /\ session.generation \in Nat /\ session.token \in Nat
      /\ session.state \in SessionStates /\ session.actor \in Actors \union {NoActor}
      /\ session.generation <= session.generation + 1
      /\ session.generation # session.generation + 1 /\ session.generation + 1 \in Nat
  BY DEF SessionInv, Sessions
<1>2. CASE GiveUp
  <2>1. /\ session.token = 0 /\ session' = Nobody("anonymous", session.generation)
    BY <1>2 DEF GiveUp, SessionInv
  <2>2. /\ session'.state = "anonymous" /\ session'.token = 0 /\ session' \in Sessions
        /\ session'.generation = session.generation
    BY <1>1, <2>1 DEF Nobody, Sessions, SessionStates
  <2> QED BY <1>1, <2>1, <2>2 DEF SessionInv, Ages
<1>3. CASE SignIn
  <2>1. PICK actor \in Actors, t \in Serials : session' = SignedInAs(actor, t, session.generation)
    BY <1>3 DEF SignIn
  <2>2. session.token = 0 /\ t \in Nat
    BY <1>3, SerialsAssumption DEF SignIn, SessionInv
  <2> QED BY <1>1, <2>1, <2>2, TokenAges
<1>4. CASE RefreshEnds
  <2>1. PICK t \in Serials : /\ t > session.token
                             /\ session' = SignedInAs(session.actor, t, session.generation)
    BY <1>4 DEF RefreshEnds
  <2>2. t \in Nat /\ session.token <= t
    BY <1>1, <2>1, SerialsAssumption
  <2> QED BY <1>1, <2>1, <2>2, TokenAges
<1>5. CASE Decide
  BY <1>5, NobodyAges DEF Decide, SessionStates
<1>6. CASE Restore
  <2>1. PICK actor \in Actors, t \in Serials :
          session' = SignedInAs(actor, t, session.generation + 1)
    BY <1>6 DEF Restore
  <2> QED BY <1>1, <2>1, TokenAges
<1>7. CASE Expire \/ RefreshBegins
  <2>1. \E state \in {"expired", "refreshing"} : session' = [session EXCEPT !.state = state]
    BY <1>7 DEF Expire, RefreshBegins
  <2>2. session.token # 0
    BY <1>7 DEF Expire, RefreshBegins, SessionInv
  <2>3. /\ session' \in Sessions /\ session'.token = session.token
        /\ session'.generation = session.generation
        /\ session'.state \in {"expired", "refreshing"}
    BY <1>1, <2>1 DEF Sessions, SessionStates
  <2> QED BY <1>1, <2>2, <2>3 DEF SessionInv, Ages
<1>8. CASE RefreshFails
  BY <1>8, NobodyAges DEF RefreshFails, SessionStates
<1> QED BY <1>2, <1>3, <1>4, <1>5, <1>6, <1>7, <1>8
     DEF SessionStep, SessionSettles, SessionChanges, SessionExpires, UserRefreshes

LEMMA SessionStepKeeps ==
  ASSUME TransportInv, SessionStep
  PROVE  TransportInv'
<1>1. reqs' = reqs /\ now' = now
  BY DEF SessionStep, SessionSettles, SessionChanges, SessionExpires, UserRefreshes,
     RefreshFails
<1>2. SessionInv' /\ Ages(session, session') /\ now \in Nat
  BY SessionStepAges DEF TransportInv
<1> QED BY <1>1, <1>2, EveryoneAges

LEMMA TickKeeps ==
  ASSUME TransportInv, Tick
  PROVE  TransportInv'
<1>1. reqs' = reqs /\ now' = now + 1 /\ session' = session /\ now \in Nat
  BY DEF Tick, TransportInv
<1>2. SessionInv' /\ Ages(session, session') /\ now' \in Nat /\ now <= now'
  BY <1>1, SessionSame DEF TransportInv
<1> QED BY <1>1, <1>2, EveryoneAges

-----------------------------------------------------------------------------
(* The invariant, and the properties the runs check. *)

LEMMA TransportInvInit == TInit => TransportInv
<1> SUFFICES ASSUME TInit PROVE TransportInv
  OBVIOUS
<1>1. session = Nobody("anonymous", 0) /\ now = 0 /\ reqs = [r \in Requests |-> NewRequest]
  BY DEF TInit, Init
<1>2. /\ session \in Sessions /\ session.state = "anonymous" /\ session.token = 0
      /\ session.generation = 0
  BY <1>1 DEF Nobody, Sessions, SessionStates
<1>3. /\ NewRequest.phase = "new" /\ ~NewRequest.late /\ ~NewRequest.early
      /\ ~NewRequest.uncertain /\ NewRequest.generation = 0 /\ NewRequest.sent = 0
      /\ NewRequest.notBefore = 0 /\ NewRequest.waits = 0
  BY DEF NewRequest
<1>4. ASSUME NEW r \in Requests PROVE Fits(r, NewRequest, session, now)
  BY <1>1, <1>2, <1>3, NewRequestType DEF Fits, Runs
<1> QED BY <1>1, <1>2, <1>4 DEF TransportInv, SessionInv

LEMMA TransportInvNext == TransportInv /\ [TNext]_tvars => TransportInv'
<1> SUFFICES ASSUME TransportInv, [TNext]_tvars PROVE TransportInv'
  OBVIOUS
<1>1. CASE Tick
  BY <1>1, TickKeeps
<1>2. CASE SessionStep
  BY <1>2, SessionStepKeeps
<1>3. ASSUME NEW r \in Requests, Make(r) \/ Abort(r)
      PROVE  TransportInv'
  BY <1>3, MakeKeeps, AbortKeeps
<1>4. ASSUME NEW r \in Requests, Proceeds(r)
      PROVE  TransportInv'
  BY <1>4, BeginKeeps, RenewedKeeps, PreparedKeeps, SendKeeps, TimesOutKeeps,
     RecoveredKeeps, WakeKeeps DEF Proceeds
<1>5. ASSUME NEW r \in Requests, Answers(r)
      PROVE  TransportInv'
  BY <1>5, UnavailableKeeps, ConcludesKeeps, UnauthorizedKeeps DEF Answers
<1>6. CASE UNCHANGED tvars
  <2>1. session' = session /\ now' = now /\ reqs' = reqs
    BY <1>6 DEF tvars
  <2>2. SessionInv' /\ Ages(session, session') /\ now' \in Nat /\ now <= now'
    BY <2>1, SessionSame DEF TransportInv
  <2> QED BY <2>1, <2>2, EveryoneAges
<1> QED BY <1>1, <1>2, <1>3, <1>4, <1>5, <1>6 DEF TNext

THEOREM TransportHolds == TSpec => []TransportInv
  BY TransportInvInit, TransportInvNext, PTL DEF TSpec

\* Every attempt, first or repeated, is within the count and the budget of its
\* request, after the wait the server asked for, and never of a request that
\* may have been executed and has no key: IncidentRetryExecutor, with the
\* decorator's replay inside it.
THEOREM AttemptsAreAllowed == TSpec => []SendsWhenAllowed
<1>1. TransportInv => SendsWhenAllowed
  BY Configuration DEF TransportInv, Fits, Runs, SendsWhenAllowed, RequestType
<1> QED BY <1>1, TransportHolds, PTL

\* The credentials of an attempt are those of the session its request began
\* under and of the account its workflow named (SessionTransportDecorator).
THEOREM CredentialsAreTheRequests == TSpec => []CredentialsMatchRequest
<1>1. TransportInv => CredentialsMatchRequest
  BY DEF TransportInv, Fits, CredentialsMatchRequest
<1> QED BY <1>1, TransportHolds, PTL

\* A renewal that a request begins is of a token that expired or was rejected.
LEMMA RenewalIsDue ==
  ASSUME TransportInv, [TNext]_tvars, RefreshBegins
  PROVE  UserRefreshes \/ session.state = "expired" \/ session.token \in rejected'
<1>1. SessionInv /\ session \in Sessions /\ session.token # 0
  BY DEF TransportInv, SessionInv, RefreshBegins
<1>2. session' # session /\ session'.generation = session.generation
  BY <1>1 DEF RefreshBegins, Sessions
<1>3. CASE SessionStep
  BY <1>3 DEF SessionStep, SessionSettles, SessionChanges, SessionExpires, UserRefreshes,
     RefreshFails
<1>4. CASE Tick \/ UNCHANGED tvars
  BY <1>2, <1>4 DEF Tick, tvars
<1>5. ASSUME NEW r \in Requests,
             Make(r) \/ Abort(r) \/ Prepared(r) \/ Send(r) \/ TimesOut(r)
               \/ Unavailable(r) \/ Concludes(r)
      PROVE  FALSE
  BY <1>2, <1>5 DEF Make, Abort, Prepared, Send, TimesOut, Unavailable, Concludes
<1>6. ASSUME NEW r \in Requests, Begin(r)
      PROVE  session.state = "expired"
  <2>1. CASE AsksRenewal /\ NeedsRenewal
    BY <1>2, <2>1 DEF AsksRenewal, NeedsRenewal
  <2>2. CASE Enter(r, [reqs[r] EXCEPT !.generation = session.generation, !.started = now])
    BY <1>1, <1>2, <2>2, EnterAsks
  <2> QED BY <1>2, <1>6, <2>1, <2>2 DEF Begin
<1>7. ASSUME NEW r \in Requests, Renewed(r) \/ Recovered(r) \/ Wake(r)
      PROVE  session.state = "expired"
  BY <1>1, <1>2, <1>7, EnterAsks, ReplayAsks, LoopAsks DEF Renewed, Recovered, Wake
<1>8. ASSUME NEW r \in Requests, Unauthorized(r)
      PROVE  session.state = "expired" \/ session.token \in rejected'
  <2> DEFINE q == reqs[r]
  <2>1. q.phase = "sent" /\ rejected' = rejected \union {q.header} /\ Fits(r, q, session, now)
    BY <1>8 DEF Unauthorized, TransportInv
  <2>2. CASE Invalidates(q)
    <3>1. session' = Nobody("logging-out", session.generation + 1)
      BY <1>2, <2>2 DEF Invalidates
    <3>2. session'.generation = session.generation + 1 /\ session.generation \in Nat
      BY <1>1, <3>1 DEF Nobody, Sessions
    <3> QED BY <1>2, <3>2
  <2>3. CASE Replay(r, q)
    BY <1>1, <1>2, <2>3, ReplayAsks
  <2>4. CASE SameGeneration(q) /\ q.sent # 0 /\ OfCurrentToken(q)
    <3>1. CASE session.state = "authenticated"
      <4>1. q.sent = session.token /\ q.generation = session.generation
        BY <2>4, <3>1 DEF OfCurrentToken, Header, SameGeneration
      <4>2. q.header = session.token
        BY <2>1, <2>4, <4>1 DEF Fits
      <4> QED BY <2>1, <4>2
    <3> QED BY <3>1 DEF RefreshBegins
  <2> QED BY <1>2, <1>8, <2>2, <2>3, <2>4 DEF Unauthorized
<1> QED BY <1>3, <1>4, <1>5, <1>6, <1>7, <1>8 DEF TNext, Proceeds, Answers

\* An answer ends no session but its request's own.
LEMMA AnswerEndsOwn ==
  ASSUME SessionInv, NEW r \in Requests, Answers(r),
         session'.generation # session.generation
  PROVE  reqs[r].generation = session.generation
<1>1. session' # session
  OBVIOUS
<1>2. Unauthorized(r)
  BY <1>1 DEF Answers, Unavailable, Concludes
<1>3. ~AsksRenewal
  BY RenewalAsked
<1>4. ~Replay(r, reqs[r])
  BY <1>1, <1>3, ReplayAsks
<1>5. Invalidates(reqs[r])
  BY <1>1, <1>2, <1>3, <1>4 DEF Unauthorized
<1> QED BY <1>1, <1>5 DEF Invalidates, SameGeneration

\* No 401, however late, renews a token it was not given for or ends a session
\* its request did not begin under (SessionTransportDecorator's catch).
THEOREM RequestsRespectTheSession == TSpec => RequestsRespectSession
<1> DEFINE A == /\ RefreshBegins => \/ UserRefreshes
                                    \/ session.state = "expired"
                                    \/ session.token \in rejected'
                /\ \A r \in Requests :
                     Answers(r) /\ session'.generation # session.generation
                       => reqs[r].generation = session.generation
<1>1. TransportInv /\ [TNext]_tvars => [A]_tvars
  BY RenewalIsDue, AnswerEndsOwn DEF TransportInv
<1>2. TSpec => [][A]_tvars
  BY <1>1, TransportHolds, PTL DEF TSpec
<1> QED BY <1>2 DEF RequestsRespectSession

-----------------------------------------------------------------------------
(* The requests drive the session only by the register's own operations, so *)
(* what Session implements is what they run against.                        *)

LEMMA RenewalIsAStep ==
  ASSUME AsksRenewal, UNCHANGED epoch
  PROVE  [Next]_<<session, epoch>>
  BY DEF AsksRenewal, Next, RefreshBegins

LEMMA LoopIsAStep ==
  ASSUME NEW r, NEW q, UNCHANGED epoch, Loop(r, q) \/ Enter(r, q) \/ Replay(r, q)
  PROVE  [Next]_<<session, epoch>>
<1>1. AsksRenewal \/ UNCHANGED session
  BY DEF Loop, Enter, Replay
<1> QED BY <1>1, RenewalIsAStep

\* Transport and session agree: every step of a request, and every step of the
\* session next to it, is a step of SessionRegister or leaves it alone.
THEOREM RequestsUseTheRegister == TSpec => Spec
<1>1. TInit => Init
  BY DEF TInit
<1>2. ASSUME [TNext]_tvars
      PROVE  [Next]_<<session, epoch>>
  <2>1. CASE Tick \/ UNCHANGED tvars
    BY <2>1 DEF Tick, tvars
  <2>2. CASE SessionStep
    <3>1. CASE RefreshFails
      BY <3>1 DEF RefreshFails, Next, Decide
    <3> QED BY <2>2, <3>1 DEF SessionStep, SessionSettles, SessionChanges,
         SessionExpires, UserRefreshes, Next
  <2>3. ASSUME NEW r \in Requests,
               Make(r) \/ Abort(r) \/ Prepared(r) \/ Send(r) \/ TimesOut(r)
                 \/ Unavailable(r) \/ Concludes(r)
        PROVE  UNCHANGED <<session, epoch>>
    BY <2>3 DEF Make, Abort, Prepared, Send, TimesOut, Unavailable, Concludes
  <2>4. ASSUME NEW r \in Requests, Begin(r)
        PROVE  [Next]_<<session, epoch>>
    <3>1. UNCHANGED epoch
      BY <2>4 DEF Begin
    <3>2. \/ UNCHANGED session \/ AsksRenewal
          \/ Enter(r, [reqs[r] EXCEPT !.generation = session.generation, !.started = now])
      BY <2>4 DEF Begin
    <3> QED BY <3>1, <3>2, RenewalIsAStep, LoopIsAStep
  <2>5. ASSUME NEW r \in Requests, Renewed(r) \/ Recovered(r) \/ Wake(r)
        PROVE  [Next]_<<session, epoch>>
    BY <2>5, LoopIsAStep DEF Renewed, Recovered, Wake
  <2>6. ASSUME NEW r \in Requests, Unauthorized(r)
        PROVE  [Next]_<<session, epoch>>
    <3>1. UNCHANGED epoch
      BY <2>6 DEF Unauthorized
    <3>2. CASE Invalidates(reqs[r])
      BY <3>1, <3>2 DEF Invalidates, Next, Decide
    <3>3. UNCHANGED session \/ Invalidates(reqs[r]) \/ AsksRenewal \/ Replay(r, reqs[r])
      BY <2>6 DEF Unauthorized
    <3> QED BY <3>1, <3>2, <3>3, RenewalIsAStep, LoopIsAStep
  <2> QED BY <1>2, <2>1, <2>2, <2>3, <2>4, <2>5, <2>6 DEF TNext, Proceeds, Answers
<1> QED BY <1>1, <1>2, PTL DEF TSpec, Spec
=============================================================================
