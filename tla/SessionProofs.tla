---------------------------- MODULE SessionProofs ---------------------------
(***************************************************************************)
(* What is proved of the session controller, for any number of calls,      *)
(* accounts, tokens, generations and restarts:                             *)
(*   1. one run presents a refresh token once, whatever logins, refreshes, *)
(*      logouts and restores overlap (PresentedInv);                       *)
(*   2. the controller implements the register its readers see (RegisterInv); *)
(*   3. the stored token, the one in memory and the storage queue agree, the *)
(*      latest decision wins, and nothing is left behind (StoreInv).       *)
(***************************************************************************)
EXTENDS Session, SequenceTheorems, TLAPS

-----------------------------------------------------------------------------
(***************************************************************************)
(* 1. A refresh token is presented once.  The order of the storage queue   *)
(* plays no part in it.                                                    *)
(***************************************************************************)

\* A call that holds new tokens until they are saved.
Saving(s) == calls[s].phase = "save"
\* A refresh that was not superseded: it has not begun, not been answered, or
\* not been published yet.
Flying(s) ==
  /\ calls[s].kind = "refresh" /\ calls[s].phase # "clear"
  /\ calls[s].generation = session.generation
\* The login or logout the controller is in.
Deciding(s) ==
  calls[s].kind \in {"login", "logout"} /\ calls[s].generation = session.generation

ShapeInv ==
  /\ DOMAIN session = {"state", "actor", "token", "generation"}
  /\ session.generation \in Nat /\ session.token \in Tokens \union {NoToken}
  /\ session.token # NoToken => session.actor \in Actors
  /\ DOMAIN coordinator = {"generation", "flight"}
  /\ coordinator.generation = session.generation
  /\ calls \in [Slots -> Calls] /\ busy \in Slots \union {NoSlot}
  /\ logins \in Nat /\ issued \in Nat /\ issued <= MaxTokens
  /\ store \in Tokens \union {NoToken, Corrupt}
  /\ presented \in [1..MaxTokens -> Nat]

CallsInv ==
  \A s \in Slots :
    /\ calls[s].kind # "none" => calls[s].generation <= session.generation
    /\ calls[s].kind \in {"login", "refresh"} => calls[s].actor \in Actors
    /\ calls[s].kind = "refresh" =>
         calls[s].token \in Tokens /\ calls[s].phase \in {"begun", "provider", "save", "clear"}
    /\ calls[s].kind = "refresh" /\ calls[s].phase = "clear" =>
         calls[s].generation < session.generation
    /\ calls[s].kind = "restore" => calls[s].generation = 0
    /\ calls[s].phase = "save" => calls[s].kind \in {"login", "refresh"}

\* Serial numbers are given once: what is saved, stored, read or published has
\* been issued, and tokens being saved are nobody else's.
SerialInv ==
  /\ session.token # NoToken => session.token.serial <= issued
  /\ store \in Tokens => store.serial <= issued
  /\ \A s \in Slots : calls[s].token \in Tokens => calls[s].token.serial <= issued
  /\ \A n \in 1..MaxTokens : n > issued => presented[n] = 0
  /\ \A s \in Slots : Saving(s) =>
       /\ calls[s].token \in Tokens
       /\ presented[calls[s].token.serial] = 0
       /\ session.token # NoToken => session.token.serial # calls[s].token.serial
       /\ \A t \in Slots : Saving(t) /\ calls[t].token.serial = calls[s].token.serial => t = s

\* The generation of a login or logout has no tokens until its login publishes
\* them, and no second login or logout.
DecisionInv ==
  \A s \in Slots : Deciding(s) =>
    session.token = NoToken /\ \A t \in Slots : Deciding(t) => t = s

\* One refresh of the generation published is in flight at most; it holds the
\* promise and, until it is answered, the tokens published, which it presents
\* when it begins.  Without it they have not been presented.
FlightInv ==
  /\ \A s \in Slots : Flying(s) =>
       /\ promise = session.generation
       /\ coordinator.flight = session.generation
       /\ session.token # NoToken
       /\ \A t \in Slots : Flying(t) => t = s
       /\ calls[s].phase = "begun" =>
            calls[s].token = session.token /\ presented[session.token.serial] = 0
  /\ session.token # NoToken /\ promise # session.generation =>
       presented[session.token.serial] = 0

\* The first generation of a run is the one before anybody signed in: a restore
\* under it finds no token presented and no other call with tokens.
FirstInv ==
  session.generation = 0 =>
    /\ session.token = NoToken
    /\ \A n \in 1..MaxTokens : presented[n] = 0
    /\ \A s \in Slots : calls[s].kind \in {"none", "restore"} /\ ~Saving(s)

PresentedInv ==
  /\ ShapeInv /\ CallsInv /\ SerialInv /\ DecisionInv /\ FlightInv /\ FirstInv
  /\ TokenPresentedOnce

-----------------------------------------------------------------------------
(* What a step of one call leaves of the invariant.  The operations of the  *)
(* controller differ in what becomes of the session: it stays, it is        *)
(* forgotten by a cleanup, or tokens are published.                         *)

\* The session shows what it showed, if it shows an account.
SessionStays ==
  /\ DOMAIN session' = DOMAIN session
  /\ session'.generation = session.generation /\ session'.token = session.token
  /\ session.token # NoToken => session'.actor = session.actor
  /\ coordinator' = coordinator

LEMMA NewCall ==
  ASSUME calls \in [Slots -> Calls], NEW s \in Slots, NEW d \in Calls,
         calls' = [calls EXCEPT ![s] = d]
  PROVE  /\ calls' \in [Slots -> Calls] /\ calls'[s] = d
         /\ \A t \in Slots : t # s => calls'[t] = calls[t]
  OBVIOUS

LEMMA NoCallIsCall == NoCall \in Calls
  BY DEF NoCall, Calls, Kinds, Phases

\* Only a refresh in flight takes the promise of the present generation away.
LEMMA EndedPromise ==
  ASSUME PresentedInv, NEW s \in Slots, Ended(s), ~Flying(s)
  PROVE  promise' = session.generation <=> promise = session.generation
  BY DEF Ended, PromiseAfter, Flying, NoGeneration, PresentedInv, ShapeInv, CallsInv

LEMMA EndedCalls ==
  ASSUME PresentedInv, NEW s \in Slots, Ended(s)
  PROVE  /\ calls' \in [Slots -> Calls] /\ calls'[s] = NoCall
         /\ \A t \in Slots : t # s => calls'[t] = calls[t]
  BY NewCall, NoCallIsCall DEF Ended, PresentedInv, ShapeInv

\* A call that ends without having been in flight.
LEMMA EndedKeeps ==
  ASSUME PresentedInv, NEW s \in Slots, Ended(s), ~Flying(s), SessionStays,
         busy' \in Slots \union {NoSlot}, logins' = logins, presented' = presented,
         issued' \in issued..MaxTokens, store' \in {store, NoToken, calls[s].token}
  PROVE  PresentedInv'
<1>1. calls' \in [Slots -> Calls] /\ calls'[s] = NoCall
      /\ \A t \in Slots : t # s => calls'[t] = calls[t]
  BY EndedCalls
<1>2. calls[s] \in Calls /\ issued \in Nat /\ issued' \in Nat /\ issued <= issued'
      /\ issued' <= MaxTokens
  BY BoundsAssumption DEF PresentedInv, ShapeInv
<1>3. promise' = session.generation <=> promise = session.generation
  BY EndedPromise
<1>4. ShapeInv'
  BY <1>1, <1>2 DEF PresentedInv, ShapeInv, SessionStays, Calls
<1>5. CallsInv'
  BY <1>1 DEF PresentedInv, CallsInv, SessionStays, NoCall
<1>6. SerialInv'
  <2>1. store' \in Tokens => store'.serial <= issued'
    BY <1>2, TokenAssumption DEF PresentedInv, ShapeInv, SerialInv, Tokens
  <2>2. \A t \in Slots : calls'[t].token \in Tokens => calls'[t].token.serial <= issued'
    BY <1>1, <1>2, TokenAssumption DEF PresentedInv, SerialInv, NoCall, Tokens
  <2>3. \A t \in Slots : Saving(t)' => t # s /\ Saving(t)
    BY <1>1 DEF Saving, NoCall
  <2>4. session'.token # NoToken => session'.token.serial <= issued'
    BY <1>2 DEF SessionStays, PresentedInv, ShapeInv, SerialInv, Tokens
  <2>5. \A n \in 1..MaxTokens : n > issued' => presented'[n] = 0
    BY <1>2 DEF PresentedInv, SerialInv
  <2>6. \A t \in Slots : Saving(t)' =>
           /\ calls'[t].token \in Tokens
           /\ presented'[calls'[t].token.serial] = 0
           /\ session'.token # NoToken => session'.token.serial # calls'[t].token.serial
           /\ \A u \in Slots :
                Saving(u)' /\ calls'[u].token.serial = calls'[t].token.serial => u = t
    BY <1>1, <2>3 DEF PresentedInv, SerialInv, SessionStays
  <2> QED BY <2>1, <2>2, <2>4, <2>5, <2>6 DEF SerialInv
<1>7. DecisionInv'
  BY <1>1 DEF PresentedInv, DecisionInv, Deciding, SessionStays, NoCall
<1>8. FlightInv'
  <2>1. \A t \in Slots : Flying(t)' => t # s /\ Flying(t)
    BY <1>1 DEF Flying, SessionStays, NoCall
  <2> QED BY <1>1, <1>3, <2>1 DEF PresentedInv, FlightInv, SessionStays
<1>9. FirstInv'
  BY <1>1 DEF PresentedInv, FirstInv, Saving, SessionStays, NoCall
<1>10. TokenPresentedOnce'
  BY DEF PresentedInv, TokenPresentedOnce
<1> QED BY <1>4, <1>5, <1>6, <1>7, <1>8, <1>9, <1>10 DEF PresentedInv

\* A call goes on in the same generation, holding the tokens it held; the
\* controller may have forgotten that it was signing in.
LEMMA MovedKeeps ==
  ASSUME PresentedInv, NEW s \in Slots, NEW d \in Calls,
         calls' = [calls EXCEPT ![s] = d], calls[s].kind \notin {"none", "refresh"},
         d.kind = calls[s].kind, d.generation = calls[s].generation,
         d.actor = calls[s].actor, d.token \in {calls[s].token, store}, d.phase # "save",
         SessionStays, promise' = promise, busy' \in Slots \union {NoSlot},
         UNCHANGED <<logins, presented, issued, store>>
  PROVE  PresentedInv'
<1>1. calls' \in [Slots -> Calls] /\ calls'[s] = d
      /\ \A t \in Slots : t # s => calls'[t] = calls[t]
  BY NewCall DEF PresentedInv, ShapeInv
<1>2. ShapeInv'
  BY <1>1 DEF PresentedInv, ShapeInv, SessionStays
<1>3. CallsInv'
  BY <1>1 DEF PresentedInv, ShapeInv, CallsInv, SessionStays, Flying, Calls
<1>4. SerialInv'
  <2>1. \A t \in Slots : Saving(t)' => t # s /\ Saving(t)
    BY <1>1 DEF Saving
  <2>2. \A t \in Slots : calls'[t].token \in Tokens => calls'[t].token.serial <= issued'
    BY <1>1 DEF PresentedInv, SerialInv
  <2> QED BY <1>1, <2>1, <2>2 DEF PresentedInv, SerialInv, SessionStays
<1>5. DecisionInv'
  BY <1>1 DEF PresentedInv, DecisionInv, Deciding, SessionStays
<1>6. FlightInv'
  <2>1. \A t \in Slots : Flying(t)' => t # s /\ Flying(t)
    BY <1>1 DEF Flying, SessionStays
  <2> QED BY <1>1, <2>1 DEF PresentedInv, FlightInv, SessionStays
<1>7. FirstInv'
  BY <1>1 DEF PresentedInv, FirstInv, Saving, SessionStays
<1>8. TokenPresentedOnce'
  BY DEF PresentedInv, TokenPresentedOnce
<1> QED BY <1>2, <1>3, <1>4, <1>5, <1>6, <1>7, <1>8 DEF PresentedInv

\* A login or refresh that was not superseded keeps the new tokens it got.
LEMMA AnsweredKeeps ==
  ASSUME PresentedInv, NEW s \in Slots, NEW k \in Tokens,
         calls[s].kind \in {"login", "refresh"}, calls[s].phase = "provider",
         calls' = [calls EXCEPT ![s] = [calls[s] EXCEPT !.phase = "save", !.token = k]],
         IsCurrent(calls[s]), k.serial = issued + 1, issued' = issued + 1, MayIssue,
         UNCHANGED <<session, coordinator, promise, busy, logins, presented, store>>
  PROVE  PresentedInv'
<1> DEFINE d == [calls[s] EXCEPT !.phase = "save", !.token = k]
<1>1. calls[s] \in Calls
  BY DEF PresentedInv, ShapeInv
<1>2. d \in Calls /\ d.kind = calls[s].kind /\ d.generation = calls[s].generation
      /\ d.actor = calls[s].actor /\ d.phase = "save" /\ d.token = k
  BY <1>1 DEF Calls, Phases
<1> HIDE DEF d
<1>3. calls' = [calls EXCEPT ![s] = d]
  BY DEF d
<1>4. calls' \in [Slots -> Calls] /\ calls'[s] = d
      /\ \A t \in Slots : t # s => calls'[t] = calls[t]
  BY <1>2, <1>3, NewCall DEF PresentedInv, ShapeInv
<1>5. issued \in Nat /\ issued' \in Nat /\ issued < issued' /\ issued' <= MaxTokens
  BY BoundsAssumption DEF PresentedInv, ShapeInv, MayIssue
<1>6. ShapeInv'
  BY <1>4, <1>5 DEF PresentedInv, ShapeInv
<1>7. CallsInv'
  BY <1>2, <1>4 DEF PresentedInv, CallsInv
<1>8. SerialInv'
  <2>1. session.token # NoToken => session.token.serial \in 1..issued
    BY <1>5 DEF PresentedInv, ShapeInv, SerialInv, Tokens
  <2>2. \A t \in Slots : calls[t].token \in Tokens => calls[t].token.serial \in 1..issued
    BY <1>5 DEF PresentedInv, SerialInv, Tokens
  <2>3. store \in Tokens => store.serial \in 1..issued
    BY <1>5 DEF PresentedInv, SerialInv, Tokens
  <2>4. presented[k.serial] = 0 /\ k.serial = issued'
    BY <1>5 DEF PresentedInv, SerialInv
  <2>5. \A t \in Slots : Saving(t)' => t = s \/ Saving(t)
    BY <1>4 DEF Saving
  <2>6. \A t \in Slots : calls'[t].token \in Tokens => calls'[t].token.serial <= issued'
    BY <1>2, <1>4, <1>5, <2>2, <2>4
  <2>7. \A t \in Slots : t # s /\ Saving(t)' =>
          calls[t].token \in Tokens /\ calls[t].token.serial # k.serial
    BY <1>4, <1>5, <2>2, <2>4, <2>5 DEF PresentedInv, SerialInv
  <2>8. session'.token # NoToken =>
          session'.token.serial # k.serial /\ session'.token.serial <= issued'
    BY <1>5, <2>1, <2>4
  <2>9. \A t \in Slots : Saving(t)' =>
           /\ calls'[t].token \in Tokens
           /\ presented'[calls'[t].token.serial] = 0
           /\ session'.token # NoToken => session'.token.serial # calls'[t].token.serial
           /\ \A u \in Slots :
                Saving(u)' /\ calls'[u].token.serial = calls'[t].token.serial => u = t
    BY <1>2, <1>4, <2>4, <2>5, <2>7, <2>8 DEF PresentedInv, SerialInv
  <2>10. store' \in Tokens => store'.serial <= issued'
    BY <1>5, <2>3
  <2>11. \A n \in 1..MaxTokens : n > issued' => presented'[n] = 0
    BY <1>5 DEF PresentedInv, SerialInv
  <2> QED BY <2>6, <2>8, <2>9, <2>10, <2>11 DEF SerialInv
<1>9. DecisionInv'
  BY <1>2, <1>4 DEF PresentedInv, DecisionInv, Deciding
<1>10. FlightInv'
  BY <1>2, <1>4 DEF PresentedInv, FlightInv, Flying
<1>11. FirstInv'
  BY <1>4 DEF PresentedInv, ShapeInv, FirstInv, Saving, IsCurrent
<1>12. TokenPresentedOnce'
  BY DEF PresentedInv, TokenPresentedOnce
<1> QED BY <1>6, <1>7, <1>8, <1>9, <1>10, <1>11, <1>12 DEF PresentedInv

\* A refresh that was not superseded fails: the cleanup begins a generation
\* without an account.
LEMMA CleanupKeeps ==
  ASSUME PresentedInv, NEW s \in Slots, calls[s].kind = "refresh", calls[s].phase # "clear",
         IsCurrent(calls[s]),
         calls' = [calls EXCEPT ![s] = [calls[s] EXCEPT !.phase = "clear"]],
         session' = Anonymous(session.generation + 1),
         coordinator' = Replaced(session.generation + 1),
         promise' = promise, busy' \in Slots \union {NoSlot},
         UNCHANGED <<logins, presented, issued, store>>
  PROVE  PresentedInv'
<1> DEFINE d == [calls[s] EXCEPT !.phase = "clear"]
<1>1. calls[s] \in Calls
  BY DEF PresentedInv, ShapeInv
<1>2. d \in Calls /\ d.kind = "refresh" /\ d.generation = calls[s].generation
      /\ d.actor = calls[s].actor /\ d.phase = "clear" /\ d.token = calls[s].token
  BY <1>1 DEF Calls, Phases
<1> HIDE DEF d
<1>3. calls' = [calls EXCEPT ![s] = d]
  BY DEF d
<1>4. calls' \in [Slots -> Calls] /\ calls'[s] = d
      /\ \A t \in Slots : t # s => calls'[t] = calls[t]
  BY <1>2, <1>3, NewCall DEF PresentedInv, ShapeInv
<1>5. /\ session.generation \in Nat /\ session'.generation = session.generation + 1
      /\ session'.token = NoToken /\ coordinator'.generation = session'.generation
      /\ DOMAIN session' = {"state", "actor", "token", "generation"}
      /\ DOMAIN coordinator' = {"generation", "flight"}
  BY DEF PresentedInv, ShapeInv, Anonymous, Replaced
<1>6. \A t \in Slots : /\ calls[t] \in Calls
                       /\ calls[t].kind # "none" => calls'[t].generation < session'.generation
  BY <1>2, <1>4, <1>5 DEF PresentedInv, ShapeInv, CallsInv, Calls
<1>7. \A t \in Slots : calls'[t].kind = calls[t].kind /\ calls'[t].token = calls[t].token
                       /\ (Saving(t)' => t # s /\ Saving(t))
  BY <1>2, <1>4 DEF Saving
<1>8. ShapeInv'
  BY <1>4, <1>5 DEF PresentedInv, ShapeInv
<1>9. CallsInv'
  BY <1>2, <1>4, <1>5, <1>6 DEF PresentedInv, CallsInv, Calls
<1>10. SerialInv'
  BY <1>4, <1>5, <1>7 DEF PresentedInv, SerialInv
<1>11. DecisionInv'
  BY <1>5, <1>6, <1>7 DEF DecisionInv, Deciding, Calls
<1>12. FlightInv'
  BY <1>4, <1>5, <1>6, <1>7 DEF FlightInv, Flying, Calls
<1>13. FirstInv'
  BY <1>5 DEF FirstInv
<1>14. TokenPresentedOnce'
  BY DEF PresentedInv, TokenPresentedOnce
<1> QED BY <1>8, <1>9, <1>10, <1>11, <1>12, <1>13, <1>14 DEF PresentedInv

\* A refresh presents the tokens published when it was called.
LEMMA BeginsKeeps ==
  ASSUME PresentedInv, NEW s \in Slots, RefreshBegins(s), IsCurrent(calls[s])
  PROVE  PresentedInv'
<1> DEFINE d == [calls[s] EXCEPT !.phase = "provider"]
           n == session.token.serial
<1>1. calls[s] \in Calls /\ calls[s].kind = "refresh" /\ calls[s].phase = "begun"
  BY DEF PresentedInv, ShapeInv, RefreshBegins, At
<1>2. d \in Calls /\ d.kind = calls[s].kind /\ d.generation = calls[s].generation
      /\ d.actor = calls[s].actor /\ d.phase = "provider" /\ d.token = calls[s].token
  BY <1>1 DEF Calls, Phases
<1> HIDE DEF d
<1>3. calls' = [calls EXCEPT ![s] = d]
  BY DEF RefreshBegins, d
<1>4. calls' \in [Slots -> Calls] /\ calls'[s] = d
      /\ \A t \in Slots : t # s => calls'[t] = calls[t]
  BY <1>2, <1>3, NewCall DEF PresentedInv, ShapeInv
<1>5. /\ promise = session.generation /\ coordinator.flight = session.generation
      /\ session.token # NoToken /\ \A t \in Slots : Flying(t) => t = s
      /\ calls[s].token = session.token /\ presented[n] = 0
  BY <1>1 DEF PresentedInv, ShapeInv, FlightInv, Flying, IsCurrent
<1>6. n \in 1..MaxTokens /\ n <= issued
  BY <1>5 DEF PresentedInv, ShapeInv, SerialInv, Tokens
<1>7. SessionStays /\ promise' = promise
  BY DEF RefreshBegins, SessionStays, PresentedInv, ShapeInv
<1>8. /\ presented' \in [1..MaxTokens -> Nat] /\ presented'[n] = 1
      /\ \A m \in 1..MaxTokens : m # n => presented'[m] = presented[m]
  <2>1. presented' = [presented EXCEPT ![n] = @ + 1]
    BY <1>5 DEF RefreshBegins
  <2> QED BY <1>5, <1>6, <2>1 DEF PresentedInv, ShapeInv
<1>9. busy' = busy /\ logins' = logins /\ issued' = issued /\ store' = store
  BY DEF RefreshBegins
<1> HIDE DEF n
<1>10. ShapeInv'
  BY <1>4, <1>7, <1>8, <1>9 DEF PresentedInv, ShapeInv, SessionStays
<1>11. CallsInv'
  BY <1>1, <1>2, <1>4, <1>7 DEF PresentedInv, CallsInv, SessionStays
<1>12. SerialInv'
  <2>1. \A t \in Slots : Saving(t)' => t # s /\ Saving(t) /\ calls[t].token.serial # n
    BY <1>2, <1>4, <1>5 DEF PresentedInv, SerialInv, Saving, n
  <2>2. \A t \in Slots : calls'[t].token = calls[t].token
    BY <1>2, <1>4
  <2>3. \A t \in Slots : Saving(t)' =>
          calls[t].token.serial \in 1..MaxTokens /\ presented'[calls[t].token.serial] = 0
    BY <1>8, <2>1 DEF PresentedInv, SerialInv, Tokens
  <2>4. \A m \in 1..MaxTokens : m > issued' => presented'[m] = 0
    BY <1>6, <1>8, <1>9 DEF PresentedInv, ShapeInv, SerialInv
  <2> QED BY <1>7, <1>9, <2>1, <2>2, <2>3, <2>4 DEF PresentedInv, SerialInv, SessionStays
<1>13. DecisionInv'
  BY <1>1, <1>2, <1>4, <1>7 DEF PresentedInv, DecisionInv, Deciding, SessionStays
<1>14. FlightInv'
  <2>1. \A t \in Slots : Flying(t)' => t = s /\ calls'[t].phase = "provider"
    BY <1>2, <1>4, <1>5, <1>7 DEF Flying, SessionStays
  <2> QED BY <1>5, <1>7, <2>1 DEF FlightInv, SessionStays
<1>15. FirstInv'
  BY <1>5, <1>7 DEF PresentedInv, FirstInv, SessionStays
<1>16. TokenPresentedOnce'
  BY <1>8 DEF PresentedInv, TokenPresentedOnce
<1> QED BY <1>10, <1>11, <1>12, <1>13, <1>14, <1>15, <1>16 DEF PresentedInv

\* A login or refresh that may publish is the only call of its generation.
LEMMA PublishedAlone ==
  ASSUME PresentedInv, NEW s \in Slots, calls[s].phase = "save", IsCurrent(calls[s])
  PROVE  \A t \in Slots : t # s => ~Flying(t) /\ ~Deciding(t)
<1>1. calls[s].kind \in {"login", "refresh"} /\ calls[s].generation = session.generation
  BY DEF PresentedInv, ShapeInv, CallsInv, IsCurrent
<1>2. CASE calls[s].kind = "login"
  <2>1. Deciding(s) /\ session.token = NoToken
    BY <1>1, <1>2 DEF PresentedInv, DecisionInv, Deciding
  <2> QED BY <2>1 DEF PresentedInv, DecisionInv, FlightInv
<1>3. CASE calls[s].kind = "refresh"
  <2>1. Flying(s)
    BY <1>1, <1>3 DEF Flying
  <2> QED BY <2>1 DEF PresentedInv, DecisionInv, FlightInv
<1> QED BY <1>1, <1>2, <1>3

\* The tokens of a login or refresh that was not superseded are published.
LEMMA PublishedKeeps ==
  ASSUME PresentedInv, NEW s \in Slots, calls[s].phase = "save", IsCurrent(calls[s]),
         Ended(s), session' = Authenticated(calls[s].token, session.generation),
         coordinator' = Replaced(calls[s].generation),
         busy' \in Slots \union {NoSlot}, store' \in {store, calls[s].token},
         UNCHANGED <<logins, presented, issued>>
  PROVE  PresentedInv'
<1> DEFINE k == calls[s].token
<1>1. calls' \in [Slots -> Calls] /\ calls'[s] = NoCall
      /\ \A t \in Slots : t # s => calls'[t] = calls[t]
  BY EndedCalls
<1>2. calls[s].kind \in {"login", "refresh"} /\ calls[s].generation = session.generation
  BY DEF PresentedInv, ShapeInv, CallsInv, IsCurrent
<1>3. /\ k \in Tokens /\ k.serial <= issued /\ k.serial \in 1..MaxTokens
      /\ presented[k.serial] = 0
      /\ \A t \in Slots : Saving(t) /\ calls[t].token.serial = k.serial => t = s
  BY DEF PresentedInv, SerialInv, Saving, Tokens
<1>4. session'.generation = session.generation /\ session'.token = k
      /\ session'.actor \in Actors /\ coordinator'.generation = session'.generation
      /\ DOMAIN session' = {"state", "actor", "token", "generation"}
      /\ DOMAIN coordinator' = {"generation", "flight"}
  BY <1>2, <1>3 DEF Authenticated, Replaced, Tokens
<1> HIDE DEF k
<1>5. \A t \in Slots : ~Flying(t)' /\ ~Deciding(t)'
  <2>1. \A t \in Slots : t # s => ~Flying(t) /\ ~Deciding(t)
    BY PublishedAlone
  <2> QED BY <1>1, <1>4, <2>1 DEF Flying, Deciding, NoCall
<1>6. ShapeInv'
  BY <1>1, <1>3, <1>4 DEF PresentedInv, ShapeInv, k
<1>7. CallsInv'
  BY <1>1, <1>4 DEF PresentedInv, CallsInv, NoCall
<1>8. SerialInv'
  <2>1. \A t \in Slots : Saving(t)' => t # s /\ Saving(t) /\ calls[t].token.serial # k.serial
    BY <1>1, <1>3 DEF Saving, NoCall
  <2>2. \A t \in Slots : calls'[t].token \in Tokens => calls'[t].token.serial <= issued'
    BY <1>1, TokenAssumption DEF PresentedInv, SerialInv, NoCall
  <2>3. \A t \in Slots : Saving(t)' =>
           /\ calls'[t].token \in Tokens
           /\ presented'[calls'[t].token.serial] = 0
           /\ session'.token.serial # calls'[t].token.serial
           /\ \A u \in Slots :
                Saving(u)' /\ calls'[u].token.serial = calls'[t].token.serial => u = t
    BY <1>1, <1>4, <2>1 DEF PresentedInv, SerialInv
  <2>4. store' \in Tokens => store'.serial <= issued'
    BY <1>3 DEF PresentedInv, SerialInv, k
  <2>5. \A n \in 1..MaxTokens : n > issued' => presented'[n] = 0
    BY DEF PresentedInv, SerialInv
  <2> QED BY <1>3, <1>4, <2>2, <2>3, <2>4, <2>5 DEF SerialInv
<1>9. DecisionInv'
  BY <1>5 DEF DecisionInv
<1>10. FlightInv'
  BY <1>3, <1>4, <1>5 DEF FlightInv
<1>11. FirstInv'
  BY <1>2, <1>4 DEF PresentedInv, FirstInv
<1>12. TokenPresentedOnce'
  BY DEF PresentedInv, TokenPresentedOnce
<1> QED BY <1>6, <1>7, <1>8, <1>9, <1>10, <1>11, <1>12 DEF PresentedInv

\* A restored session is published under the second generation of a run, in
\* which no other call has begun and nothing has been presented.
LEMMA RestoredKeeps ==
  ASSUME PresentedInv, NEW s \in Slots, calls[s].kind = "restore", IsCurrent(calls[s]),
         calls[s].token \in Tokens, Ended(s),
         session' = Authenticated(calls[s].token, session.generation + 1),
         coordinator' = Replaced(session.generation + 1),
         UNCHANGED <<busy, store, logins, presented, issued>>
  PROVE  PresentedInv'
<1>1. calls' \in [Slots -> Calls] /\ calls'[s] = NoCall
      /\ \A t \in Slots : t # s => calls'[t] = calls[t]
  BY EndedCalls
<1>2. session.generation = 0
  BY DEF PresentedInv, ShapeInv, CallsInv, IsCurrent
<1>3. /\ \A n \in 1..MaxTokens : presented[n] = 0
      /\ \A t \in Slots : calls[t].kind \in {"none", "restore"} /\ ~Saving(t)
  BY <1>2 DEF PresentedInv, FirstInv
<1>4. session'.generation = 1 /\ session'.token = calls[s].token /\ coordinator'.generation = 1
      /\ session'.actor \in Actors /\ session'.token.serial \in 1..MaxTokens
      /\ session'.token.serial <= issued
      /\ DOMAIN session' = {"state", "actor", "token", "generation"}
      /\ DOMAIN coordinator' = {"generation", "flight"}
  BY <1>2 DEF Authenticated, Replaced, Tokens, PresentedInv, SerialInv
<1>5. \A t \in Slots : calls'[t].kind \in {"none", "restore"} /\ ~Saving(t)'
  BY <1>1, <1>3 DEF Saving, NoCall
<1>6. ShapeInv'
  BY <1>1, <1>4 DEF PresentedInv, ShapeInv
<1>7. CallsInv'
  BY <1>1, <1>4, <1>5 DEF PresentedInv, CallsInv, Saving, NoCall
<1>8. SerialInv'
  <2>1. \A t \in Slots : calls'[t].token \in Tokens => calls'[t].token.serial <= issued'
    BY <1>1, TokenAssumption DEF PresentedInv, SerialInv, NoCall
  <2> QED BY <1>4, <1>5, <2>1 DEF PresentedInv, SerialInv
<1>9. DecisionInv'
  BY <1>5 DEF DecisionInv, Deciding
<1>10. FlightInv'
  BY <1>3, <1>4, <1>5 DEF FlightInv, Flying
<1>11. FirstInv'
  BY <1>4 DEF FirstInv
<1>12. TokenPresentedOnce'
  BY DEF PresentedInv, TokenPresentedOnce
<1> QED BY <1>6, <1>7, <1>8, <1>9, <1>10, <1>11, <1>12 DEF PresentedInv

\* A login or logout begins a generation without an account.
LEMMA DecidedKeeps ==
  ASSUME PresentedInv, NEW s \in Slots, NEW d \in Calls, Free(s),
         calls' = [calls EXCEPT ![s] = d], d.kind \in {"login", "logout"},
         d.kind = "login" => d.actor \in Actors,
         d.generation = session.generation + 1, d.token = NoToken, d.phase # "save",
         DOMAIN session' = {"state", "actor", "token", "generation"},
         session'.generation = session.generation + 1, session'.token = NoToken,
         coordinator' = Replaced(session.generation + 1), logins' \in Nat,
         UNCHANGED <<busy, store, presented, issued>>
  PROVE  PresentedInv'
<1>1. calls' \in [Slots -> Calls] /\ calls'[s] = d
      /\ \A t \in Slots : t # s => calls'[t] = calls[t]
  BY NewCall DEF PresentedInv, ShapeInv
<1>2. session.generation \in Nat /\ session'.generation \in Nat
      /\ coordinator'.generation = session'.generation
      /\ DOMAIN coordinator' = {"generation", "flight"}
  BY DEF PresentedInv, ShapeInv, Replaced
<1>3. \A t \in Slots : t # s /\ calls[t].kind # "none" =>
         calls'[t].generation < session'.generation
  BY <1>1, <1>2 DEF PresentedInv, ShapeInv, CallsInv, Calls
<1>4. ShapeInv'
  BY <1>1, <1>2 DEF PresentedInv, ShapeInv
<1>5. CallsInv'
  BY <1>1, <1>2, <1>3 DEF PresentedInv, ShapeInv, CallsInv, Calls
<1>6. SerialInv'
  <2>1. \A t \in Slots : Saving(t)' => t # s /\ Saving(t)
    BY <1>1 DEF Saving
  <2> QED BY <1>1, <2>1, TokenAssumption DEF PresentedInv, SerialInv
<1>7. \A t \in Slots : (Deciding(t)' => t = s) /\ ~Flying(t)'
  BY <1>1, <1>2, <1>3 DEF Deciding, Flying
<1>8. DecisionInv'
  BY <1>7 DEF DecisionInv
<1>9. FlightInv'
  BY <1>7 DEF FlightInv
<1>10. FirstInv'
  BY <1>2 DEF FirstInv, PresentedInv, ShapeInv
<1>11. TokenPresentedOnce'
  BY DEF PresentedInv, TokenPresentedOnce
<1> QED BY <1>4, <1>5, <1>6, <1>8, <1>9, <1>10, <1>11 DEF PresentedInv

LEMMA LoginKeeps ==
  ASSUME PresentedInv, NEW s \in Slots, NEW actor \in Actors, Login(s, actor)
  PROVE  PresentedInv'
<1> DEFINE d == [kind |-> "login", phase |-> "provider", generation |-> session.generation + 1,
                 actor |-> actor, token |-> NoToken, upto |-> logins + 1]
<1>1. session.generation \in Nat /\ logins \in Nat
  BY DEF PresentedInv, ShapeInv
<1>2. d \in Calls
  BY <1>1 DEF Calls, Kinds, Phases
<1>3. [Call("login", "provider", session.generation + 1, actor, NoToken)
         EXCEPT !.upto = logins + 1] = d
  BY DEF Call
<1>4. calls' = [calls EXCEPT ![s] = d]
  BY <1>3 DEF Login
<1>5. /\ DOMAIN session' = {"state", "actor", "token", "generation"}
      /\ session'.generation = session.generation + 1 /\ session'.token = NoToken
      /\ coordinator' = Replaced(session.generation + 1) /\ logins' \in Nat
      /\ Free(s) /\ UNCHANGED <<busy, store, presented, issued>>
  BY <1>1 DEF Login, Anonymous
<1> QED BY <1>2, <1>4, <1>5, DecidedKeeps

LEMMA LogoutKeeps ==
  ASSUME PresentedInv, NEW s \in Slots, Logout(s)
  PROVE  PresentedInv'
<1> DEFINE d == [kind |-> "logout", phase |-> "clear", generation |-> session.generation + 1,
                 actor |-> NoActor, token |-> NoToken, upto |-> logins]
<1>1. session.generation \in Nat /\ logins \in Nat
  BY DEF PresentedInv, ShapeInv
<1>2. d \in Calls
  BY <1>1 DEF Calls, Kinds, Phases
<1>3. /\ calls' = [calls EXCEPT ![s] = d]
      /\ DOMAIN session' = {"state", "actor", "token", "generation"}
      /\ session'.generation = session.generation + 1 /\ session'.token = NoToken
      /\ coordinator' = Replaced(session.generation + 1) /\ logins' \in Nat
      /\ Free(s) /\ UNCHANGED <<busy, store, presented, issued>>
  BY <1>1 DEF Logout, Waits, Call, Anonymous
<1> QED BY <1>2, <1>3, DecidedKeeps

\* The first refresh call of a generation takes the promise and the tokens
\* published, which nobody has presented.
LEMMA RefreshKeeps ==
  ASSUME PresentedInv, NEW s \in Slots, Refresh(s)
  PROVE  PresentedInv'
<1> DEFINE d == [kind |-> "refresh", phase |-> "begun", generation |-> session.generation,
                 actor |-> session.actor, token |-> session.token, upto |-> logins]
<1>1. /\ session.generation \in Nat /\ session.token \in Tokens /\ session.actor \in Actors
      /\ logins \in Nat /\ promise # session.generation
      /\ presented[session.token.serial] = 0 /\ session.token.serial <= issued
  BY DEF Refresh, Coalesced, PresentedInv, ShapeInv, SerialInv, FlightInv
<1>2. d \in Calls /\ session.token # NoToken
  BY <1>1, TokenAssumption DEF Calls, Kinds, Phases
<1>3. calls' = [calls EXCEPT ![s] = d]
  BY DEF Refresh, Call
<1>4. calls' \in [Slots -> Calls] /\ calls'[s] = d
      /\ \A t \in Slots : t # s => calls'[t] = calls[t]
  BY <1>2, <1>3, NewCall DEF PresentedInv, ShapeInv
<1>5. /\ promise' = session.generation /\ coordinator'.flight = session.generation
      /\ coordinator'.generation = coordinator.generation
      /\ DOMAIN coordinator' = {"generation", "flight"}
      /\ UNCHANGED <<session, busy, store, logins, presented, issued>>
  BY DEF Refresh, PresentedInv, ShapeInv, history
<1>6. \A t \in Slots : ~Flying(t) /\ ~Deciding(t)
  BY <1>1, <1>2 DEF PresentedInv, FlightInv, DecisionInv
<1>7. ShapeInv'
  BY <1>4, <1>5 DEF PresentedInv, ShapeInv
<1>8. CallsInv'
  BY <1>1, <1>4, <1>5 DEF PresentedInv, ShapeInv, CallsInv
<1>9. SerialInv'
  <2>1. \A t \in Slots : Saving(t)' => t # s /\ Saving(t)
    BY <1>4 DEF Saving
  <2>2. \A t \in Slots : calls'[t].token \in Tokens => calls'[t].token.serial <= issued'
    BY <1>1, <1>4, <1>5 DEF PresentedInv, SerialInv
  <2> QED BY <1>4, <1>5, <2>1, <2>2 DEF PresentedInv, SerialInv
<1>10. DecisionInv'
  BY <1>4, <1>5, <1>6 DEF DecisionInv, Deciding
<1>11. FlightInv'
  <2>1. \A t \in Slots : Flying(t)' => t = s
    BY <1>4, <1>5, <1>6 DEF Flying
  <2> QED BY <1>1, <1>2, <1>4, <1>5, <2>1 DEF FlightInv
<1>12. FirstInv'
  BY <1>2, <1>5 DEF PresentedInv, FirstInv
<1>13. TokenPresentedOnce'
  BY <1>5 DEF PresentedInv, TokenPresentedOnce
<1> QED BY <1>7, <1>8, <1>9, <1>10, <1>11, <1>12, <1>13 DEF PresentedInv

-----------------------------------------------------------------------------
(* The steps of the calls. *)

\* A call marked for a clear: what a failed login or restore becomes.
LEMMA ClearCall ==
  ASSUME PresentedInv, NEW s \in Slots
  PROVE  LET d == [calls[s] EXCEPT !.phase = "clear"] IN
         /\ d \in Calls /\ d.kind = calls[s].kind /\ d.generation = calls[s].generation
         /\ d.actor = calls[s].actor /\ d.token = calls[s].token /\ d.phase = "clear"
<1>1. calls[s] \in Calls
  BY DEF PresentedInv, ShapeInv
<1> QED BY <1>1 DEF Calls, Phases

\* A login or refresh fails, at the provider or while its tokens are saved.
LEMMA FailedKeeps ==
  ASSUME PresentedInv, NEW s \in Slots, calls[s].kind \in {"login", "refresh"},
         calls[s].phase # "clear", busy' \in Slots \union {NoSlot},
         UNCHANGED <<logins, presented, issued, store>>,
         \/ /\ IsCurrent(calls[s]) /\ calls[s].kind = "login"
            /\ session' = Anonymous(session.generation) /\ UNCHANGED <<coordinator, promise>>
            /\ calls' = [calls EXCEPT ![s] = [calls[s] EXCEPT !.phase = "clear"]]
         \/ /\ IsCurrent(calls[s]) /\ calls[s].kind = "refresh"
            /\ session' = Anonymous(session.generation + 1)
            /\ coordinator' = Replaced(session.generation + 1) /\ UNCHANGED promise
            /\ calls' = [calls EXCEPT ![s] = [calls[s] EXCEPT !.phase = "clear"]]
         \/ ~IsCurrent(calls[s]) /\ Ended(s) /\ UNCHANGED <<session, coordinator>>
  PROVE  PresentedInv'
<1>1. CASE /\ IsCurrent(calls[s]) /\ calls[s].kind = "login"
           /\ session' = Anonymous(session.generation) /\ UNCHANGED <<coordinator, promise>>
           /\ calls' = [calls EXCEPT ![s] = [calls[s] EXCEPT !.phase = "clear"]]
  <2> DEFINE d == [calls[s] EXCEPT !.phase = "clear"]
  <2>1. /\ d \in Calls /\ d.kind = calls[s].kind /\ d.generation = calls[s].generation
        /\ d.actor = calls[s].actor /\ d.token = calls[s].token /\ d.phase = "clear"
    BY ClearCall
  <2>2. session.token = NoToken
    BY <1>1 DEF PresentedInv, ShapeInv, DecisionInv, Deciding, IsCurrent
  <2>3. SessionStays
    BY <1>1, <2>2 DEF SessionStays, Anonymous, PresentedInv, ShapeInv
  <2> HIDE DEF d
  <2>4. calls' = [calls EXCEPT ![s] = d]
    BY <1>1 DEF d
  <2> QED BY <1>1, <2>1, <2>3, <2>4, MovedKeeps
<1>2. CASE /\ IsCurrent(calls[s]) /\ calls[s].kind = "refresh"
           /\ session' = Anonymous(session.generation + 1)
           /\ coordinator' = Replaced(session.generation + 1) /\ UNCHANGED promise
           /\ calls' = [calls EXCEPT ![s] = [calls[s] EXCEPT !.phase = "clear"]]
  BY <1>2, CleanupKeeps
<1>3. CASE ~IsCurrent(calls[s]) /\ Ended(s) /\ UNCHANGED <<session, coordinator>>
  <2>1. ~Flying(s)
    BY <1>3 DEF Flying, IsCurrent, PresentedInv, ShapeInv
  <2>2. issued' \in issued..MaxTokens
    BY BoundsAssumption DEF PresentedInv, ShapeInv
  <2>3. SessionStays
    BY <1>3 DEF SessionStays
  <2> QED BY <1>3, <2>1, <2>2, <2>3, EndedKeeps
<1> QED BY <1>1, <1>2, <1>3

\* The provider answers a login or a refresh, or the request fails.
LEMMA ProviderKeeps ==
  ASSUME PresentedInv, NEW s \in Slots, LoginAnswered(s) \/ RefreshAnswered(s)
  PROVE  PresentedInv'
<1>1. /\ calls[s].kind \in {"login", "refresh"} /\ calls[s].phase = "provider"
      /\ UNCHANGED <<busy, store, logins, presented>>
  BY DEF LoginAnswered, RefreshAnswered, At, history
<1>2. ASSUME NEW actor \in Actors, NEW login \in Nat, Answered(s, actor, login)
      PROVE  PresentedInv'
  <2>1. issued \in Nat /\ issued < MaxTokens /\ issued' = issued + 1
        /\ issued' \in issued..MaxTokens
    BY <1>2, BoundsAssumption DEF Answered, MayIssue, PresentedInv, ShapeInv
  <2>2. busy' \in Slots \union {NoSlot}
    BY <1>1 DEF PresentedInv, ShapeInv
  <2>3. CASE IsCurrent(calls[s])
    <3>1. NewToken(actor, login) \in Tokens /\ NewToken(actor, login).serial = issued + 1
      BY <2>1, BoundsAssumption DEF NewToken, Tokens
    <3>2. /\ calls' = [calls EXCEPT ![s] =
                 [calls[s] EXCEPT !.phase = "save", !.token = NewToken(actor, login)]]
          /\ MayIssue /\ UNCHANGED <<session, coordinator, promise>>
      BY <1>2, <2>3 DEF Answered, Waits
    <3> QED BY <1>1, <2>1, <2>3, <3>1, <3>2, AnsweredKeeps
  <2>4. CASE ~IsCurrent(calls[s])
    <3>1. Ended(s) /\ SessionStays
      BY <1>2, <2>4 DEF Answered, SessionStays
    <3>2. ~Flying(s)
      BY <2>4 DEF Flying, IsCurrent, PresentedInv, ShapeInv
    <3> QED BY <1>1, <2>1, <2>2, <3>1, <3>2, EndedKeeps
  <2> QED BY <2>3, <2>4
<1>3. ASSUME Fail(s), UNCHANGED issued PROVE PresentedInv'
  <2>1. busy' \in Slots \union {NoSlot}
    BY <1>1 DEF PresentedInv, ShapeInv
  <2>2. \/ /\ IsCurrent(calls[s]) /\ calls[s].kind = "login"
           /\ session' = Anonymous(session.generation) /\ UNCHANGED <<coordinator, promise>>
           /\ calls' = [calls EXCEPT ![s] = [calls[s] EXCEPT !.phase = "clear"]]
        \/ /\ IsCurrent(calls[s]) /\ calls[s].kind = "refresh"
           /\ session' = Anonymous(session.generation + 1)
           /\ coordinator' = Replaced(session.generation + 1) /\ UNCHANGED promise
           /\ calls' = [calls EXCEPT ![s] = [calls[s] EXCEPT !.phase = "clear"]]
        \/ ~IsCurrent(calls[s]) /\ Ended(s) /\ UNCHANGED <<session, coordinator>>
    BY <1>1, <1>3 DEF Fail, FailLogin, FailRefresh, Waits
  <2> QED BY <1>1, <1>3, <2>1, <2>2, FailedKeeps
<1>4. /\ calls[s].actor \in Actors /\ calls[s].upto \in Nat
      /\ calls[s].kind = "refresh" => calls[s].token.login \in Nat
  BY <1>1 DEF PresentedInv, ShapeInv, CallsInv, Calls, Tokens
<1> QED BY <1>2, <1>3, <1>4 DEF LoginAnswered, RefreshAnswered, At

LEMMA RefreshBeginsKeeps ==
  ASSUME PresentedInv, NEW s \in Slots, RefreshBegins(s)
  PROVE  PresentedInv'
<1>1. CASE IsCurrent(calls[s])
  BY <1>1, BeginsKeeps
<1>2. CASE ~IsCurrent(calls[s])
  <2>1. ~Flying(s)
    BY <1>2 DEF Flying, IsCurrent, PresentedInv, ShapeInv
  <2>2. /\ Ended(s) /\ SessionStays
        /\ UNCHANGED <<busy, logins, presented, store, issued>>
    BY <1>2 DEF RefreshBegins, SessionStays
  <2>3. issued' \in issued..MaxTokens /\ busy' \in Slots \union {NoSlot}
    BY <2>2, BoundsAssumption DEF PresentedInv, ShapeInv
  <2> QED BY <2>1, <2>2, <2>3, EndedKeeps
<1> QED BY <1>1, <1>2

\* A call goes on after its storage operation.
LEMMA ResumedKeeps ==
  ASSUME PresentedInv, NEW s \in Slots, NEW done \in BOOLEAN, Resume(s, done),
         busy' \in Slots \union {NoSlot}, store' \in {store, Written(calls[s])},
         UNCHANGED <<logins, presented, issued>>
  PROVE  PresentedInv'
<1>1. issued' \in issued..MaxTokens
  BY BoundsAssumption DEF PresentedInv, ShapeInv
<1>2. CASE /\ calls[s].phase = "save" /\ MayPublish(calls[s])
           /\ session' = Authenticated(calls[s].token, session.generation)
           /\ coordinator' = Replaced(calls[s].generation)
           /\ Ended(s)
  <2>1. store' \in {store, calls[s].token} /\ IsCurrent(calls[s])
    BY <1>2 DEF Written, MayPublish
  <2> QED BY <1>2, <2>1, PublishedKeeps
<1>3. CASE /\ calls[s].phase = "save" /\ ~MayPublish(calls[s])
           /\ UNCHANGED <<session, coordinator>> /\ Ended(s)
  <2>1. ~Flying(s)
    BY <1>3 DEF MayPublish, IsCurrent, Flying, PresentedInv, ShapeInv, FlightInv
  <2>2. SessionStays /\ store' \in {store, NoToken, calls[s].token}
    BY <1>3 DEF SessionStays, Written
  <2> QED BY <1>1, <1>3, <2>1, <2>2, EndedKeeps
<1>4. CASE /\ calls[s].phase = "clear" /\ Ended(s)
           /\ \/ calls[s].kind = "logout" /\ IsCurrent(calls[s])
                 /\ session' = Anonymous(session.generation) /\ UNCHANGED coordinator
              \/ UNCHANGED <<session, coordinator>>
  <2>1. ~Flying(s) /\ store' \in {store, NoToken, calls[s].token}
    BY <1>4 DEF Flying, Written
  <2>2. SessionStays
    <3>1. CASE /\ calls[s].kind = "logout" /\ IsCurrent(calls[s])
               /\ session' = Anonymous(session.generation) /\ UNCHANGED coordinator
      <4>1. session.token = NoToken
        BY <3>1 DEF PresentedInv, ShapeInv, DecisionInv, Deciding, IsCurrent
      <4> QED BY <3>1, <4>1 DEF SessionStays, Anonymous, PresentedInv, ShapeInv
    <3>2. CASE UNCHANGED <<session, coordinator>>
      BY <3>2 DEF SessionStays
    <3> QED BY <1>4, <3>1, <3>2
  <2> QED BY <1>1, <1>4, <2>1, <2>2, EndedKeeps
<1> QED BY <1>2, <1>3, <1>4 DEF Resume, LogoutSettles

LEMMA StorageKeeps ==
  ASSUME PresentedInv, NEW s \in Slots, Storage(s)
  PROVE  PresentedInv'
<1>1. CASE StorageSkips(s)
  <2>1. busy' \in Slots \union {NoSlot} /\ store' \in {store, Written(calls[s])}
        /\ Resume(s, TRUE) /\ UNCHANGED <<logins, presented, issued>>
    BY <1>1 DEF StorageSkips, history
  <2> QED BY <2>1, ResumedKeeps
<1>2. CASE StorageBegins(s)
  <2>1. busy' \in Slots \union {NoSlot}
    BY <1>2 DEF StorageBegins
  <2>2. UNCHANGED <<session, coordinator, promise, calls, store, logins, presented, issued>>
    BY <1>2 DEF StorageBegins, history
  <2>3. ShapeInv' /\ CallsInv'
    BY <2>1, <2>2 DEF PresentedInv, ShapeInv, CallsInv
  <2>4. SerialInv'
    BY <2>2 DEF PresentedInv, SerialInv, Saving
  <2>5. DecisionInv' /\ FlightInv' /\ FirstInv' /\ TokenPresentedOnce'
    BY <2>2 DEF PresentedInv, DecisionInv, Deciding, FlightInv, Flying, FirstInv, Saving,
                TokenPresentedOnce
  <2> QED BY <2>3, <2>4, <2>5 DEF PresentedInv
<1>3. CASE StorageDone(s)
  <2>1. busy' \in Slots \union {NoSlot} /\ store' \in {store, Written(calls[s])}
        /\ Resume(s, TRUE) /\ UNCHANGED <<logins, presented, issued>>
    BY <1>3 DEF StorageDone
  <2> QED BY <2>1, ResumedKeeps
<1>4. CASE StorageFails(s)
  <2>1. busy' \in Slots \union {NoSlot} /\ store' = store
        /\ UNCHANGED <<logins, presented, issued>>
    BY <1>4 DEF StorageFails
  <2>2. CASE Resume(s, FALSE)
    BY <2>1, <2>2, ResumedKeeps
  <2>3. CASE calls[s].phase = "save" /\ ~Resume(s, FALSE)
    <3>1. calls[s].kind \in {"login", "refresh"}
      BY <2>3 DEF PresentedInv, CallsInv
    <3>2. \/ /\ IsCurrent(calls[s]) /\ calls[s].kind = "login"
             /\ session' = Anonymous(session.generation) /\ UNCHANGED <<coordinator, promise>>
             /\ calls' = [calls EXCEPT ![s] = [calls[s] EXCEPT !.phase = "clear"]]
          \/ /\ IsCurrent(calls[s]) /\ calls[s].kind = "refresh"
             /\ session' = Anonymous(session.generation + 1)
             /\ coordinator' = Replaced(session.generation + 1) /\ UNCHANGED promise
             /\ calls' = [calls EXCEPT ![s] = [calls[s] EXCEPT !.phase = "clear"]]
          \/ ~IsCurrent(calls[s]) /\ Ended(s) /\ UNCHANGED <<session, coordinator>>
      BY <1>4, <2>3, <3>1 DEF StorageFails
    <3> QED BY <2>1, <2>3, <3>1, <3>2, FailedKeeps
  <2> QED BY <1>4, <2>2, <2>3 DEF StorageFails
<1> QED BY <1>1, <1>2, <1>3, <1>4 DEF Storage

\* A restore reads without waiting for the storage queue, and publishes what
\* it read if nobody has decided since.
LEMMA RestoreKeeps ==
  ASSUME PresentedInv, NEW s \in Slots, RestoreReads(s) \/ RestoreFails(s) \/ RestoreResumes(s)
  PROVE  PresentedInv'
<1>1. calls[s] \in Calls /\ calls[s].kind = "restore" /\ ~Flying(s)
      /\ UNCHANGED <<busy, store, logins, presented, issued>>
  BY DEF RestoreReads, RestoreFails, RestoreResumes, At, Flying, history, PresentedInv, ShapeInv
<1>2. busy' \in Slots \union {NoSlot} /\ issued' \in issued..MaxTokens
  BY <1>1, BoundsAssumption DEF PresentedInv, ShapeInv
<1>3. CASE RestoreReads(s)
  <2> DEFINE d == [calls[s] EXCEPT !.phase = "answered", !.token = store]
  <2>1. store \in Tokens \union {NoToken, Corrupt}
    BY DEF PresentedInv, ShapeInv
  <2>2. d \in Calls /\ d.kind = calls[s].kind /\ d.generation = calls[s].generation
        /\ d.actor = calls[s].actor /\ d.phase = "answered" /\ d.token = store
    BY <1>1, <2>1 DEF Calls, Phases
  <2>3. calls' = [calls EXCEPT ![s] = d]
    BY <1>3 DEF RestoreReads
  <2>4. SessionStays /\ promise' = promise
    BY <1>3 DEF RestoreReads, SessionStays
  <2> HIDE DEF d
  <2> QED BY <1>1, <1>2, <2>2, <2>3, <2>4, MovedKeeps
<1>4. CASE Ended(s) /\ UNCHANGED <<session, coordinator>>
  <2>1. SessionStays
    BY <1>4 DEF SessionStays
  <2> QED BY <1>1, <1>2, <1>4, <2>1, EndedKeeps
<1>5. CASE /\ calls' = [calls EXCEPT ![s] = [calls[s] EXCEPT !.phase = "clear"]]
           /\ UNCHANGED <<session, coordinator, promise>>
  <2> DEFINE d == [calls[s] EXCEPT !.phase = "clear"]
  <2>1. /\ d \in Calls /\ d.kind = calls[s].kind /\ d.generation = calls[s].generation
        /\ d.actor = calls[s].actor /\ d.token = calls[s].token /\ d.phase = "clear"
    BY ClearCall
  <2>2. SessionStays
    BY <1>5 DEF SessionStays
  <2> HIDE DEF d
  <2>3. calls' = [calls EXCEPT ![s] = d]
    BY <1>5 DEF d
  <2> QED BY <1>1, <1>2, <1>5, <2>1, <2>2, <2>3, MovedKeeps
<1>6. CASE /\ IsCurrent(calls[s]) /\ Usable(calls[s].token) /\ Ended(s)
           /\ session' = Authenticated(calls[s].token, session.generation + 1)
           /\ coordinator' = Replaced(session.generation + 1)
  <2>1. calls[s].token \in Tokens
    BY <1>1, <1>6 DEF Calls, Usable
  <2> QED BY <1>1, <1>6, <2>1, RestoredKeeps
<1> QED BY <1>3, <1>4, <1>5, <1>6 DEF RestoreFails, RestoreResumes, Waits

-----------------------------------------------------------------------------
(* A run starts: with the app, or after it died. *)

Fresh ==
  /\ \E s \in Slots : calls = Starting(s)
  /\ session = Anonymous(0) /\ coordinator = Replaced(0) /\ promise = NoGeneration
  /\ busy = NoSlot /\ presented = [n \in 1..MaxTokens |-> 0]
  /\ store \in Tokens \union {NoToken, Corrupt}
  /\ store \in Tokens => store.serial <= issued
  /\ logins \in Nat /\ issued \in Nat /\ issued <= MaxTokens

LEMMA FreshHolds == Fresh => PresentedInv
<1> SUFFICES ASSUME Fresh PROVE PresentedInv
  OBVIOUS
<1> DEFINE r == [NoCall EXCEPT !.kind = "restore", !.phase = "read"]
<1>1. /\ session.generation = 0 /\ session.token = NoToken
      /\ DOMAIN session = {"state", "actor", "token", "generation"}
      /\ coordinator.generation = 0 /\ DOMAIN coordinator = {"generation", "flight"}
  BY DEF Fresh, Anonymous, Replaced
<1>2. NoCall \in Calls /\ NoCall.kind = "none" /\ NoCall.token = NoToken
      /\ NoCall.generation = 0 /\ NoCall.phase = "none"
  BY NoCallIsCall DEF NoCall
<1>3. r \in Calls /\ r.kind = "restore" /\ r.token = NoToken
      /\ r.generation = 0 /\ r.phase = "read"
  BY <1>2 DEF Calls, Kinds, Phases
<1> HIDE DEF r
<1>4. PICK s \in Slots : calls = [t \in Slots |-> IF t = s THEN r ELSE NoCall]
  BY DEF Fresh, Starting, r
<1>5. calls \in [Slots -> Calls]
  BY <1>2, <1>3, <1>4
<1>6. \A t \in Slots : /\ calls[t].kind \in {"none", "restore"} /\ calls[t].token = NoToken
                       /\ calls[t].generation = 0 /\ calls[t].phase # "save"
  BY <1>2, <1>3, <1>4
<1>7. presented \in [1..MaxTokens -> Nat] /\ \A n \in 1..MaxTokens : presented[n] = 0
  BY DEF Fresh
<1>8. ShapeInv
  BY <1>1, <1>5, <1>7 DEF Fresh, ShapeInv
<1>9. CallsInv
  BY <1>1, <1>6 DEF CallsInv
<1>10. SerialInv
  BY <1>1, <1>6, <1>7, TokenAssumption DEF Fresh, SerialInv, Saving
<1>11. DecisionInv /\ FlightInv /\ FirstInv /\ TokenPresentedOnce
  BY <1>1, <1>6, <1>7 DEF DecisionInv, Deciding, FlightInv, Flying, FirstInv, Saving,
                          TokenPresentedOnce
<1> QED BY <1>8, <1>9, <1>10, <1>11 DEF PresentedInv

LEMMA FreshHoldsNext == Fresh' => PresentedInv'
  BY FreshHolds, PTL

LEMMA InitFresh == Init => Fresh
  BY BoundsAssumption, TokenAssumption DEF Init, Started, Fresh

LEMMA RestartFresh ==
  ASSUME PresentedInv, NEW s \in Slots, Restart(s)
  PROVE  Fresh'
<1>1. \A t \in Slots : /\ calls[t].token \in Tokens \union {NoToken, Corrupt}
                       /\ calls[t].token \in Tokens => calls[t].token.serial <= issued
  BY DEF PresentedInv, ShapeInv, SerialInv, Calls
<1>2. store' = store \/ store' = NoToken \/ \E t \in Slots : store' = calls[t].token
  BY DEF Restart, Written, PresentedInv, ShapeInv
<1>3. /\ store' \in Tokens \union {NoToken, Corrupt}
      /\ store' \in Tokens => store'.serial <= issued
  BY <1>1, <1>2, TokenAssumption DEF PresentedInv, ShapeInv, SerialInv
<1> QED BY <1>3 DEF Restart, Fresh, PresentedInv, ShapeInv

\* The clock changes nothing the invariant looks at, but the state's name.
LEMMA ClockKeeps == ASSUME PresentedInv, Clock PROVE PresentedInv'
<1>1. /\ SessionStays
      /\ UNCHANGED <<promise, calls, busy, store, logins, presented, issued>>
  BY DEF Clock, Observe, Lapse, SessionStays, memory, history, PresentedInv, ShapeInv
<1>2. ShapeInv' /\ CallsInv'
  BY <1>1 DEF PresentedInv, ShapeInv, CallsInv, SessionStays
<1>3. SerialInv'
  BY <1>1 DEF PresentedInv, SerialInv, Saving, SessionStays
<1>4. DecisionInv' /\ FlightInv' /\ FirstInv' /\ TokenPresentedOnce'
  BY <1>1 DEF PresentedInv, DecisionInv, Deciding, FlightInv, Flying, FirstInv, Saving,
              TokenPresentedOnce, SessionStays
<1> QED BY <1>2, <1>3, <1>4 DEF PresentedInv

LEMMA PresentedInvNext == PresentedInv /\ [Next]_vars => PresentedInv'
<1> SUFFICES ASSUME PresentedInv, [Next]_vars PROVE PresentedInv'
  OBVIOUS
<1>1. CASE Clock
  BY <1>1, ClockKeeps
<1>2. ASSUME NEW s \in Slots, Decide(s) PROVE PresentedInv'
  BY <1>2, LoginKeeps, LogoutKeeps, RefreshKeeps DEF Decide
<1>3. ASSUME NEW s \in Slots, Storage(s) PROVE PresentedInv'
  BY <1>3, StorageKeeps
<1>4. ASSUME NEW s \in Slots, Settle(s) PROVE PresentedInv'
  BY <1>4, ProviderKeeps, RefreshBeginsKeeps, RestoreKeeps DEF Settle
<1>5. ASSUME NEW s \in Slots, Restart(s) PROVE PresentedInv'
  BY <1>5, RestartFresh, FreshHoldsNext
<1>6. CASE UNCHANGED vars
  BY <1>6 DEF vars, memory, history, PresentedInv, ShapeInv, CallsInv, SerialInv, Saving,
              DecisionInv, Deciding, FlightInv, Flying, FirstInv, TokenPresentedOnce
<1> QED BY <1>1, <1>2, <1>3, <1>4, <1>5, <1>6 DEF Next

\* One run presents a refresh token once: whatever logins, refreshes, logouts
\* and restores overlap, and whatever provider and secure store answer, the
\* rotation never sees a token it has replaced.
THEOREM TokensArePresentedOnce == Spec => []TokenPresentedOnce
<1>1. PresentedInv => TokenPresentedOnce
  BY DEF PresentedInv
<1>2. Init => PresentedInv
  BY InitFresh, FreshHolds
<1> QED BY <1>1, <1>2, PresentedInvNext, PTL DEF Spec

-----------------------------------------------------------------------------
(***************************************************************************)
(* 2. The register.  What is added to the invariant: the state the         *)
(* controller shows is the one its call of the present generation left it in. *)
(***************************************************************************)

ViewInv ==
  /\ session.token # NoToken <=> Published
  /\ session.token # NoToken => session.actor = session.token.actor
  /\ session.token = NoToken => session.actor = NoActor
  /\ session.generation = 0 => session.state = "anonymous"
  /\ session.state = "refreshing" => promise = session.generation

\* What a call of the present generation knows of the session it works for.
Work(s) ==
  LET c == calls[s]  current == c.generation = session.generation IN
  /\ c.kind = "login" /\ current /\ c.phase # "clear" => session.state = "signing-in"
  /\ c.kind = "logout" /\ current => session.state = "logging-out" /\ c.phase = "clear"
  /\ Saving(s) => c.token.actor = c.actor
  /\ Flying(s) =>
       /\ c.actor = session.actor
       /\ c.phase = "begun" => session.state \in {"authenticated", "expired"}
       /\ c.phase \in {"provider", "save"} => session.state = "refreshing"
       /\ Saving(s) => c.token.serial > session.token.serial

RegisterInv == PresentedInv /\ ViewInv /\ \A s \in Slots : Work(s)

-----------------------------------------------------------------------------
(* Steps the register does not see. *)

\* One call changes, the session does not.
LEMMA UnseenKeeps ==
  ASSUME RegisterInv, PresentedInv', NEW s \in Slots, UNCHANGED <<session, epoch>>,
         \A t \in Slots : t # s => calls'[t] = calls[t],
         promise = session.generation => promise' = session.generation,
         Work(s)'
  PROVE  RegisterInv' /\ UNCHANGED <<View, epoch>>
<1>1. ViewInv'
  BY DEF RegisterInv, ViewInv, Published
<1>2. ASSUME NEW t \in Slots, t # s PROVE Work(t)'
  BY <1>2 DEF RegisterInv, Work, Saving, Flying
<1>3. UNCHANGED <<View, epoch>>
  BY DEF View
<1> QED BY <1>1, <1>2, <1>3 DEF RegisterInv

LEMMA UnseenEnd ==
  ASSUME RegisterInv, PresentedInv', NEW s \in Slots, Ended(s), ~Flying(s),
         UNCHANGED <<session, epoch>>
  PROVE  RegisterInv' /\ UNCHANGED <<View, epoch>>
<1>1. calls'[s] = NoCall /\ \A t \in Slots : t # s => calls'[t] = calls[t]
  BY EndedCalls DEF RegisterInv
<1>2. Work(s)'
  BY <1>1 DEF Work, Saving, Flying, NoCall
<1>3. promise' = session.generation <=> promise = session.generation
  BY EndedPromise DEF RegisterInv
<1> QED BY <1>1, <1>2, <1>3, UnseenKeeps

\* A call that was superseded ends.
LEMMA SupersededEnd ==
  ASSUME RegisterInv, PresentedInv', NEW s \in Slots, Ended(s), ~IsCurrent(calls[s]),
         UNCHANGED <<session, epoch>>
  PROVE  RegisterInv' /\ UNCHANGED <<View, epoch>>
<1>1. ~Flying(s)
  BY DEF Flying, IsCurrent, RegisterInv, PresentedInv, ShapeInv
<1> QED BY <1>1, UnseenEnd

\* A restore goes on.
LEMMA UnseenMove ==
  ASSUME RegisterInv, PresentedInv', NEW s \in Slots, NEW d \in Calls,
         calls' = [calls EXCEPT ![s] = d], d.kind = "restore", d.phase # "save",
         UNCHANGED <<session, epoch, promise>>
  PROVE  RegisterInv' /\ UNCHANGED <<View, epoch>>
<1>1. calls'[s] = d /\ \A t \in Slots : t # s => calls'[t] = calls[t]
  BY NewCall DEF RegisterInv, PresentedInv, ShapeInv
<1>2. Work(s)'
  BY <1>1 DEF Work, Saving, Flying
<1> QED BY <1>1, <1>2, UnseenKeeps

\* The provider has answered and the new tokens wait to be saved: they are
\* the account's, and newer than those published.
LEMMA AnsweredUnseen ==
  ASSUME RegisterInv, PresentedInv', NEW s \in Slots, NEW k \in Tokens,
         calls[s].kind \in {"login", "refresh"}, calls[s].phase = "provider",
         calls' = [calls EXCEPT ![s] = [calls[s] EXCEPT !.phase = "save", !.token = k]],
         IsCurrent(calls[s]), k.serial = issued + 1, k.actor = calls[s].actor,
         UNCHANGED <<session, promise, epoch>>
  PROVE  RegisterInv' /\ UNCHANGED <<View, epoch>>
<1> DEFINE d == [calls[s] EXCEPT !.phase = "save", !.token = k]
<1>1. calls[s] \in Calls
  BY DEF RegisterInv, PresentedInv, ShapeInv
<1>2. d \in Calls /\ d.kind = calls[s].kind /\ d.generation = calls[s].generation
      /\ d.actor = calls[s].actor /\ d.phase = "save" /\ d.token = k
  BY <1>1 DEF Calls, Phases
<1> HIDE DEF d
<1>3. calls' = [calls EXCEPT ![s] = d]
  BY DEF d
<1>4. calls'[s] = d /\ \A t \in Slots : t # s => calls'[t] = calls[t]
  BY <1>2, <1>3, NewCall DEF RegisterInv, PresentedInv, ShapeInv
<1>5. session.token # NoToken => session.token.serial < k.serial
  BY DEF RegisterInv, PresentedInv, ShapeInv, SerialInv, Tokens
<1>6. calls[s].kind = "refresh" => Flying(s) /\ session.token # NoToken
  BY DEF Flying, IsCurrent, RegisterInv, PresentedInv, ShapeInv, FlightInv
<1>7. Work(s)'
  BY SMTT(30), <1>2, <1>4, <1>5, <1>6
  DEF RegisterInv, PresentedInv, ShapeInv, Work, Saving, Flying, Tokens
<1> QED BY <1>4, <1>7, UnseenKeeps

-----------------------------------------------------------------------------
(* Steps the register sees. *)

\* A login fails or a logout is done, in the generation it began.
LEMMA ForgottenSeen ==
  ASSUME RegisterInv, PresentedInv', NEW s \in Slots, Deciding(s),
         session.state \in {"signing-in", "logging-out"},
         session' = Anonymous(session.generation), UNCHANGED <<promise, epoch>>,
         \A t \in Slots : t # s => calls'[t] = calls[t],
         calls'[s].phase # "save",
         calls'[s].kind \in {"none", "login"},
         calls'[s].kind = "login" => calls'[s].phase = "clear"
  PROVE  RegisterInv' /\ Register!Next
<1>1. session'.generation = session.generation /\ session'.token = NoToken
      /\ session'.state = "anonymous" /\ session'.actor = NoActor
  BY DEF Anonymous
<1>2. \A t \in Slots : t # s => ~Deciding(t) /\ ~Flying(t)
  BY DEF RegisterInv, PresentedInv, DecisionInv, FlightInv
<1>3. ViewInv'
  BY <1>1 DEF ViewInv, Published
<1>4. ASSUME NEW t \in Slots PROVE Work(t)'
  <2>1. CASE t # s
    BY <1>1, <1>2, <2>1 DEF RegisterInv, Work, Saving, Flying, Deciding
  <2>2. CASE t = s
    BY <2>2 DEF Work, Saving, Flying
  <2> QED BY <2>1, <2>2
<1>5. Register!GiveUp
  BY DEF Register!GiveUp, Register!Nobody, View, Anonymous
<1> QED BY <1>3, <1>4, <1>5 DEF RegisterInv, Register!Next

\* A login, a logout or a cleanup begins a generation without an account.
LEMMA DecidedSeen ==
  ASSUME RegisterInv, PresentedInv', NEW s \in Slots,
         NEW state \in {"signing-in", "logging-out", "anonymous"},
         session' = [state |-> state, actor |-> NoActor, token |-> NoToken,
                     generation |-> session.generation + 1],
         UNCHANGED epoch, \A t \in Slots : t # s => calls'[t] = calls[t],
         Work(s)'
  PROVE  RegisterInv' /\ Register!Next
<1>1. session.generation \in Nat
  BY DEF RegisterInv, PresentedInv, ShapeInv
<1>2. \A t \in Slots : t # s /\ calls[t].kind # "none" =>
        calls'[t].generation # session'.generation
  BY <1>1 DEF RegisterInv, PresentedInv, ShapeInv, CallsInv, Calls
<1>3. ViewInv'
  BY <1>1 DEF ViewInv, Published
<1>4. ASSUME NEW t \in Slots, t # s PROVE Work(t)'
  <2>1. ~Flying(t)' /\ (Saving(t)' => calls'[t].token.actor = calls'[t].actor)
    BY <1>2, <1>4 DEF RegisterInv, Work, Saving, Flying
  <2> QED BY <1>2, <1>4, <2>1 DEF Work
<1>5. Register!Decide
  BY DEF Register!Decide, Register!Nobody, View
<1> QED BY <1>3, <1>4, <1>5 DEF RegisterInv, Register!Next

\* The clear a failed refresh waits for is of a generation that is over.
LEMMA CleanupSeen ==
  ASSUME RegisterInv, PresentedInv', NEW s \in Slots, calls[s].kind = "refresh",
         calls' = [calls EXCEPT ![s] = [calls[s] EXCEPT !.phase = "clear"]],
         session' = Anonymous(session.generation + 1), UNCHANGED epoch
  PROVE  RegisterInv' /\ Register!Next
<1> DEFINE d == [calls[s] EXCEPT !.phase = "clear"]
<1>1. d \in Calls /\ d.kind = "refresh" /\ d.phase = "clear"
  BY ClearCall DEF RegisterInv
<1> HIDE DEF d
<1>2. calls' = [calls EXCEPT ![s] = d]
  BY DEF d
<1>3. calls'[s] = d /\ \A t \in Slots : t # s => calls'[t] = calls[t]
  BY <1>1, <1>2, NewCall DEF RegisterInv, PresentedInv, ShapeInv
<1>4. Work(s)'
  BY <1>1, <1>3 DEF Work, Saving, Flying
<1>5. session' = [state |-> "anonymous", actor |-> NoActor, token |-> NoToken,
                  generation |-> session.generation + 1]
  BY DEF Anonymous
<1> QED BY <1>3, <1>4, <1>5, DecidedSeen

\* The new tokens are published: of the account that logs in, or newer ones of
\* the account that was there.
LEMMA PublishedSeen ==
  ASSUME RegisterInv, PresentedInv', NEW s \in Slots, calls[s].phase = "save",
         IsCurrent(calls[s]), Ended(s),
         session' = Authenticated(calls[s].token, session.generation), UNCHANGED epoch
  PROVE  RegisterInv' /\ Register!Next
<1> DEFINE k == calls[s].token
<1>1. calls'[s] = NoCall /\ \A t \in Slots : t # s => calls'[t] = calls[t]
  BY EndedCalls DEF RegisterInv
<1>2. calls[s].kind \in {"login", "refresh"} /\ calls[s].generation = session.generation
  BY DEF RegisterInv, PresentedInv, ShapeInv, CallsInv, IsCurrent
<1>3. k \in Tokens /\ k.actor \in Actors /\ k.serial \in 1..MaxTokens /\ k # NoToken
  BY TokenAssumption DEF RegisterInv, PresentedInv, SerialInv, Saving, Tokens
<1>4. session'.generation = session.generation /\ session'.token = k
      /\ session'.actor = k.actor /\ session'.state = "authenticated"
  BY DEF Authenticated
<1>5. View' = Register!SignedInAs(k.actor, k.serial, View.generation)
  BY <1>3 DEF View, Authenticated, Register!SignedInAs
<1> HIDE DEF k
<1>6. \A t \in Slots : t # s => ~Flying(t) /\ ~Deciding(t)
  BY PublishedAlone DEF RegisterInv
<1>7. session.generation # 0
  BY <1>2 DEF RegisterInv, PresentedInv, FirstInv
<1>8. ViewInv'
  BY <1>3, <1>4, <1>7 DEF ViewInv, Published
<1>9. ASSUME NEW t \in Slots PROVE Work(t)'
  <2>1. CASE t # s
    BY <1>1, <1>4, <1>6, <2>1 DEF RegisterInv, Work, Saving, Flying, Deciding
  <2>2. CASE t = s
    BY <1>1, <2>2 DEF Work, Saving, Flying, NoCall
  <2> QED BY <2>1, <2>2
<1>10. Work(s)
  BY DEF RegisterInv
<1>11. CASE calls[s].kind = "login"
  <2>1. session.state = "signing-in"
    BY <1>2, <1>10, <1>11 DEF Work
  <2>2. Register!SignIn
    BY <1>3, <1>5, <2>1 DEF Register!SignIn, View
  <2> QED BY <1>8, <1>9, <2>2 DEF RegisterInv, Register!Next
<1>12. CASE calls[s].kind = "refresh"
  <2>1. Flying(s) /\ Saving(s)
    BY <1>2, <1>12 DEF Flying, Saving
  <2>2. /\ session.state = "refreshing" /\ k.actor = session.actor
        /\ k.serial > session.token.serial /\ session.token # NoToken
    BY <1>10, <2>1 DEF Work, Saving, k, RegisterInv, PresentedInv, FlightInv
  <2>3. Register!RefreshEnds
    BY <1>3, <1>5, <2>2 DEF Register!RefreshEnds, View
  <2> QED BY <1>8, <1>9, <2>3 DEF RegisterInv, Register!Next
<1> QED BY <1>2, <1>11, <1>12

LEMMA RestoredSeen ==
  ASSUME RegisterInv, PresentedInv', NEW s \in Slots, calls[s].kind = "restore",
         IsCurrent(calls[s]), calls[s].token \in Tokens, Ended(s),
         session' = Authenticated(calls[s].token, session.generation + 1), UNCHANGED epoch
  PROVE  RegisterInv' /\ Register!Next
<1> DEFINE k == calls[s].token
<1>1. calls'[s] = NoCall /\ \A t \in Slots : t # s => calls'[t] = calls[t]
  BY EndedCalls DEF RegisterInv
<1>2. session.generation = 0
  BY DEF RegisterInv, PresentedInv, ShapeInv, CallsInv, IsCurrent
<1>3. \A t \in Slots : calls[t].kind \in {"none", "restore"} /\ ~Saving(t)
  BY <1>2 DEF RegisterInv, PresentedInv, FirstInv
<1>4. k \in Tokens /\ k.actor \in Actors /\ k.serial \in 1..MaxTokens /\ k # NoToken
  BY TokenAssumption DEF Tokens
<1>5. session'.generation = 1 /\ session'.token = k
      /\ session'.actor = k.actor /\ session'.state = "authenticated"
  BY <1>2 DEF Authenticated
<1>6. ViewInv'
  BY <1>4, <1>5 DEF ViewInv, Published
<1>7. ASSUME NEW t \in Slots PROVE Work(t)'
  BY <1>1, <1>3 DEF Work, Saving, Flying, NoCall
<1>8. View' = Register!SignedInAs(k.actor, k.serial, View.generation + 1)
  BY <1>4 DEF View, Authenticated, Register!SignedInAs
<1>9. session.state = "anonymous"
  BY <1>2 DEF RegisterInv, ViewInv
<1>10. Register!Restore
  BY <1>4, <1>8, <1>9 DEF Register!Restore, View
<1> QED BY <1>6, <1>7, <1>10 DEF RegisterInv, Register!Next

-----------------------------------------------------------------------------
(* Every step of the controller is one the register may take, or none. *)

LEMMA LoginSeen ==
  ASSUME RegisterInv, PresentedInv', NEW s \in Slots, NEW actor \in Actors, Login(s, actor)
  PROVE  RegisterInv' /\ Register!Next
<1> DEFINE d == [Call("login", "provider", session.generation + 1, actor, NoToken)
                   EXCEPT !.upto = logins + 1]
<1>1. d.kind = "login" /\ d.phase = "provider"
  BY DEF Call
<1> HIDE DEF d
<1>2. calls' = [calls EXCEPT ![s] = d]
  BY DEF Login, d
<1>3. calls'[s] = d /\ \A t \in Slots : t # s => calls'[t] = calls[t]
  BY <1>2 DEF RegisterInv, PresentedInv, ShapeInv
<1>4. session' = [state |-> "signing-in", actor |-> NoActor, token |-> NoToken,
                  generation |-> session.generation + 1]
  BY DEF Login, Anonymous
<1>5. Work(s)'
  BY <1>1, <1>3, <1>4 DEF Work, Saving, Flying
<1> QED BY <1>3, <1>4, <1>5, DecidedSeen DEF Login

LEMMA LogoutSeen ==
  ASSUME RegisterInv, PresentedInv', NEW s \in Slots, Logout(s)
  PROVE  RegisterInv' /\ Register!Next
<1> DEFINE d == Call("logout", "clear", session.generation + 1, NoActor, NoToken)
<1>1. d.kind = "logout" /\ d.phase = "clear"
  BY DEF Call
<1> HIDE DEF d
<1>2. calls' = [calls EXCEPT ![s] = d]
  BY DEF Logout, Waits, d
<1>3. calls'[s] = d /\ \A t \in Slots : t # s => calls'[t] = calls[t]
  BY <1>2 DEF RegisterInv, PresentedInv, ShapeInv
<1>4. session' = [state |-> "logging-out", actor |-> NoActor, token |-> NoToken,
                  generation |-> session.generation + 1]
  BY DEF Logout, Anonymous
<1>5. Work(s)'
  BY <1>1, <1>3, <1>4 DEF Work, Saving, Flying
<1> QED BY <1>3, <1>4, <1>5, DecidedSeen DEF Logout

LEMMA RefreshUnseen ==
  ASSUME RegisterInv, PresentedInv', NEW s \in Slots, Refresh(s)
  PROVE  RegisterInv' /\ UNCHANGED <<View, epoch>>
<1> DEFINE d == Call("refresh", "begun", session.generation, session.actor, session.token)
<1>1. d.kind = "refresh" /\ d.phase = "begun" /\ d.actor = session.actor
  BY DEF Call
<1> HIDE DEF d
<1>2. calls' = [calls EXCEPT ![s] = d]
  BY DEF Refresh, d
<1>3. calls'[s] = d /\ \A t \in Slots : t # s => calls'[t] = calls[t]
  BY <1>2 DEF RegisterInv, PresentedInv, ShapeInv
<1>4. session.state \in {"authenticated", "expired"}
  BY DEF Refresh, Coalesced, RegisterInv, ViewInv, Published
<1>5. UNCHANGED <<session, epoch>> /\ promise' = session.generation
  BY DEF Refresh, history
<1>6. Work(s)'
  BY <1>1, <1>3, <1>4, <1>5 DEF Work, Saving, Flying
<1> QED BY <1>3, <1>5, <1>6, UnseenKeeps

\* A login or refresh fails, at the provider or while its tokens are saved.
LEMMA FailedSeen ==
  ASSUME RegisterInv, PresentedInv', NEW s \in Slots,
         calls[s].phase # "clear", UNCHANGED epoch,
         \/ /\ IsCurrent(calls[s]) /\ calls[s].kind = "login"
            /\ session' = Anonymous(session.generation) /\ UNCHANGED <<coordinator, promise>>
            /\ calls' = [calls EXCEPT ![s] = [calls[s] EXCEPT !.phase = "clear"]]
         \/ /\ IsCurrent(calls[s]) /\ calls[s].kind = "refresh"
            /\ session' = Anonymous(session.generation + 1)
            /\ coordinator' = Replaced(session.generation + 1) /\ UNCHANGED promise
            /\ calls' = [calls EXCEPT ![s] = [calls[s] EXCEPT !.phase = "clear"]]
         \/ ~IsCurrent(calls[s]) /\ Ended(s) /\ UNCHANGED <<session, coordinator>>
  PROVE  RegisterInv' /\ [Register!Next]_<<View, epoch>>
<1>1. CASE /\ IsCurrent(calls[s]) /\ calls[s].kind = "login"
           /\ session' = Anonymous(session.generation) /\ UNCHANGED <<coordinator, promise>>
           /\ calls' = [calls EXCEPT ![s] = [calls[s] EXCEPT !.phase = "clear"]]
  <2> DEFINE d == [calls[s] EXCEPT !.phase = "clear"]
  <2>1. d \in Calls /\ d.kind = "login" /\ d.phase = "clear"
    BY <1>1, ClearCall DEF RegisterInv
  <2> HIDE DEF d
  <2>2. calls' = [calls EXCEPT ![s] = d]
    BY <1>1 DEF d
  <2>3. calls'[s] = d /\ \A t \in Slots : t # s => calls'[t] = calls[t]
    BY <2>1, <2>2, NewCall DEF RegisterInv, PresentedInv, ShapeInv
  <2>4. Deciding(s) /\ session.state = "signing-in"
    BY <1>1 DEF Deciding, IsCurrent, RegisterInv, PresentedInv, ShapeInv, Work
  <2> QED BY <1>1, <2>1, <2>3, <2>4, ForgottenSeen
<1>2. CASE /\ IsCurrent(calls[s]) /\ calls[s].kind = "refresh"
           /\ session' = Anonymous(session.generation + 1)
           /\ coordinator' = Replaced(session.generation + 1) /\ UNCHANGED promise
           /\ calls' = [calls EXCEPT ![s] = [calls[s] EXCEPT !.phase = "clear"]]
  BY <1>2, CleanupSeen
<1>3. CASE ~IsCurrent(calls[s]) /\ Ended(s) /\ UNCHANGED <<session, coordinator>>
  BY <1>3, SupersededEnd
<1> QED BY <1>1, <1>2, <1>3

LEMMA ProviderSeen ==
  ASSUME RegisterInv, PresentedInv', NEW s \in Slots, LoginAnswered(s) \/ RefreshAnswered(s)
  PROVE  RegisterInv' /\ [Register!Next]_<<View, epoch>>
<1>1. calls[s].kind \in {"login", "refresh"} /\ calls[s].phase = "provider" /\ epoch' = epoch
  BY DEF LoginAnswered, RefreshAnswered, At, history
<1>2. ASSUME NEW login \in Nat, Answered(s, calls[s].actor, login)
      PROVE  RegisterInv' /\ UNCHANGED <<View, epoch>>
  <2>1. CASE IsCurrent(calls[s])
    <3> DEFINE k == NewToken(calls[s].actor, login)
    <3>1. k \in Tokens /\ k.serial = issued + 1 /\ k.actor = calls[s].actor
      BY <1>1, <1>2, BoundsAssumption
      DEF NewToken, Tokens, Answered, MayIssue, RegisterInv, PresentedInv, ShapeInv, CallsInv
    <3>2. /\ calls' = [calls EXCEPT ![s] = [calls[s] EXCEPT !.phase = "save", !.token = k]]
          /\ UNCHANGED <<session, promise>>
      BY <1>2, <2>1 DEF Answered, Waits
    <3> HIDE DEF k
    <3> QED BY <1>1, <2>1, <3>1, <3>2, AnsweredUnseen
  <2>2. CASE ~IsCurrent(calls[s])
    <3>1. Ended(s) /\ session' = session
      BY <1>2, <2>2 DEF Answered
    <3> QED BY <1>1, <2>2, <3>1, SupersededEnd
  <2> QED BY <2>1, <2>2
<1>3. ASSUME Fail(s) PROVE RegisterInv' /\ [Register!Next]_<<View, epoch>>
  <2>1. \/ /\ IsCurrent(calls[s]) /\ calls[s].kind = "login"
           /\ session' = Anonymous(session.generation) /\ UNCHANGED <<coordinator, promise>>
           /\ calls' = [calls EXCEPT ![s] = [calls[s] EXCEPT !.phase = "clear"]]
        \/ /\ IsCurrent(calls[s]) /\ calls[s].kind = "refresh"
           /\ session' = Anonymous(session.generation + 1)
           /\ coordinator' = Replaced(session.generation + 1) /\ UNCHANGED promise
           /\ calls' = [calls EXCEPT ![s] = [calls[s] EXCEPT !.phase = "clear"]]
        \/ ~IsCurrent(calls[s]) /\ Ended(s) /\ UNCHANGED <<session, coordinator>>
    BY <1>1, <1>3 DEF Fail, FailLogin, FailRefresh, Waits
  <2> QED BY <1>1, <2>1, FailedSeen
<1>4. /\ calls[s].upto \in Nat
      /\ calls[s].kind = "refresh" => calls[s].token.login \in Nat
  BY <1>1 DEF RegisterInv, PresentedInv, ShapeInv, CallsInv, Calls, Tokens
<1> QED BY <1>2, <1>3, <1>4 DEF LoginAnswered, RefreshAnswered, At

LEMMA RefreshBeginsSeen ==
  ASSUME RegisterInv, PresentedInv', NEW s \in Slots, RefreshBegins(s)
  PROVE  RegisterInv' /\ [Register!Next]_<<View, epoch>>
<1>1. CASE IsCurrent(calls[s])
  <2> DEFINE d == [calls[s] EXCEPT !.phase = "provider"]
  <2>1. calls[s] \in Calls /\ calls[s].kind = "refresh" /\ calls[s].phase = "begun"
    BY DEF RegisterInv, PresentedInv, ShapeInv, RefreshBegins, At
  <2>2. d \in Calls /\ d.kind = "refresh" /\ d.actor = calls[s].actor /\ d.phase = "provider"
    BY <2>1 DEF Calls, Phases
  <2> HIDE DEF d
  <2>3. calls' = [calls EXCEPT ![s] = d] /\ UNCHANGED <<promise, epoch>>
    BY <1>1 DEF RefreshBegins, d
  <2>4. calls'[s] = d /\ \A t \in Slots : t # s => calls'[t] = calls[t]
    BY <2>2, <2>3, NewCall DEF RegisterInv, PresentedInv, ShapeInv
  <2>5. Flying(s)
    BY <1>1, <2>1 DEF Flying, IsCurrent, RegisterInv, PresentedInv, ShapeInv
  <2>6. /\ promise = session.generation /\ session.token # NoToken
        /\ calls[s].actor = session.actor /\ session.state \in {"authenticated", "expired"}
        /\ \A t \in Slots : t # s => ~Flying(t) /\ ~Deciding(t)
    BY <2>1, <2>5 DEF RegisterInv, PresentedInv, FlightInv, DecisionInv, Work
  <2>7. /\ session'.state = "refreshing" /\ session'.actor = session.actor
        /\ session'.token = session.token /\ session'.generation = session.generation
    BY <1>1 DEF RefreshBegins, RegisterInv, PresentedInv, ShapeInv
  <2>8. ViewInv'
    BY <2>3, <2>6, <2>7 DEF RegisterInv, ViewInv, Published
  <2>9. ASSUME NEW t \in Slots PROVE Work(t)'
    <3>1. CASE t # s
      BY <2>4, <2>6, <2>7, <3>1 DEF RegisterInv, Work, Saving, Flying, Deciding
    <3>2. CASE t = s
      BY <2>2, <2>4, <2>6, <2>7, <3>2 DEF Work, Saving, Flying
    <3> QED BY <3>1, <3>2
  <2>10. Register!RefreshBegins
    BY <2>3, <2>6, <2>7 DEF Register!RefreshBegins, View
  <2> QED BY <2>8, <2>9, <2>10 DEF RegisterInv, Register!Next
<1>2. CASE ~IsCurrent(calls[s])
  <2>1. Ended(s) /\ UNCHANGED <<session, epoch>>
    BY <1>2 DEF RefreshBegins
  <2> QED BY <1>2, <2>1, SupersededEnd
<1> QED BY <1>1, <1>2

\* A call goes on after its storage operation.
LEMMA ResumedSeen ==
  ASSUME RegisterInv, PresentedInv', NEW s \in Slots, NEW done \in BOOLEAN, Resume(s, done),
         UNCHANGED epoch
  PROVE  RegisterInv' /\ [Register!Next]_<<View, epoch>>
<1>1. CASE /\ calls[s].phase = "save" /\ MayPublish(calls[s])
           /\ session' = Authenticated(calls[s].token, session.generation)
           /\ Ended(s)
  BY <1>1, PublishedSeen DEF MayPublish
<1>2. CASE /\ calls[s].phase = "save" /\ ~MayPublish(calls[s])
           /\ UNCHANGED <<session, coordinator>> /\ Ended(s)
  <2>1. ~Flying(s)
    BY <1>2 DEF MayPublish, IsCurrent, Flying, RegisterInv, PresentedInv, ShapeInv, FlightInv
  <2> QED BY <1>2, <2>1, UnseenEnd
<1>3. CASE /\ calls[s].phase = "clear" /\ Ended(s)
           /\ calls[s].kind = "logout" /\ IsCurrent(calls[s])
           /\ session' = Anonymous(session.generation)
  <2>1. calls'[s] = NoCall /\ \A t \in Slots : t # s => calls'[t] = calls[t]
    BY <1>3, EndedCalls DEF RegisterInv
  <2>2. Deciding(s) /\ session.state = "logging-out"
    BY <1>3 DEF Deciding, IsCurrent, RegisterInv, PresentedInv, ShapeInv, Work
  <2>3. promise' = promise
    BY <1>3 DEF Ended, PromiseAfter
  <2>4. NoCall.phase # "save" /\ NoCall.kind = "none"
    BY DEF NoCall
  <2> QED BY <1>3, <2>1, <2>2, <2>3, <2>4, ForgottenSeen
<1>4. CASE calls[s].phase = "clear" /\ Ended(s) /\ UNCHANGED <<session, coordinator>>
  <2>1. ~Flying(s)
    BY <1>4 DEF Flying
  <2> QED BY <1>4, <2>1, UnseenEnd
<1> QED BY <1>1, <1>2, <1>3, <1>4 DEF Resume, LogoutSettles

LEMMA StorageSeen ==
  ASSUME RegisterInv, PresentedInv', NEW s \in Slots, Storage(s)
  PROVE  RegisterInv' /\ [Register!Next]_<<View, epoch>>
<1>1. CASE StorageSkips(s)
  BY <1>1, ResumedSeen DEF StorageSkips, history
<1>2. CASE StorageBegins(s)
  <2>1. UNCHANGED <<session, calls, promise, epoch>>
    BY <1>2 DEF StorageBegins, history
  <2>2. Work(s)'
    BY <2>1 DEF RegisterInv, Work, Saving, Flying
  <2> QED BY <2>1, <2>2, UnseenKeeps
<1>3. CASE StorageDone(s)
  BY <1>3, ResumedSeen DEF StorageDone
<1>4. CASE StorageFails(s)
  <2>1. CASE Resume(s, FALSE)
    BY <1>4, <2>1, ResumedSeen DEF StorageFails
  <2>2. CASE calls[s].phase = "save" /\ ~Resume(s, FALSE)
    <3>1. calls[s].kind \in {"login", "refresh"}
      BY <2>2 DEF RegisterInv, PresentedInv, CallsInv
    <3>2. \/ /\ IsCurrent(calls[s]) /\ calls[s].kind = "login"
             /\ session' = Anonymous(session.generation) /\ UNCHANGED <<coordinator, promise>>
             /\ calls' = [calls EXCEPT ![s] = [calls[s] EXCEPT !.phase = "clear"]]
          \/ /\ IsCurrent(calls[s]) /\ calls[s].kind = "refresh"
             /\ session' = Anonymous(session.generation + 1)
             /\ coordinator' = Replaced(session.generation + 1) /\ UNCHANGED promise
             /\ calls' = [calls EXCEPT ![s] = [calls[s] EXCEPT !.phase = "clear"]]
          \/ ~IsCurrent(calls[s]) /\ Ended(s) /\ UNCHANGED <<session, coordinator>>
      BY <1>4, <2>2, <3>1 DEF StorageFails
    <3> QED BY <1>4, <2>2, <3>2, FailedSeen DEF StorageFails
  <2> QED BY <1>4, <2>1, <2>2 DEF StorageFails
<1> QED BY <1>1, <1>2, <1>3, <1>4 DEF Storage

LEMMA RestoreSeen ==
  ASSUME RegisterInv, PresentedInv', NEW s \in Slots,
         RestoreReads(s) \/ RestoreFails(s) \/ RestoreResumes(s)
  PROVE  RegisterInv' /\ [Register!Next]_<<View, epoch>>
<1>1. calls[s] \in Calls /\ calls[s].kind = "restore" /\ ~Flying(s) /\ epoch' = epoch
  BY DEF RestoreReads, RestoreFails, RestoreResumes, At, Flying, history, RegisterInv,
         PresentedInv, ShapeInv
<1>2. CASE RestoreReads(s)
  <2> DEFINE d == [calls[s] EXCEPT !.phase = "answered", !.token = store]
  <2>1. d \in Calls /\ d.kind = "restore" /\ d.phase = "answered"
    BY <1>1 DEF Calls, Phases, RegisterInv, PresentedInv, ShapeInv
  <2>2. calls' = [calls EXCEPT ![s] = d] /\ UNCHANGED <<session, promise>>
    BY <1>2 DEF RestoreReads
  <2> HIDE DEF d
  <2> QED BY <1>1, <2>1, <2>2, UnseenMove
<1>3. CASE Ended(s) /\ UNCHANGED <<session, coordinator>>
  BY <1>1, <1>3, UnseenEnd
<1>4. CASE /\ calls' = [calls EXCEPT ![s] = [calls[s] EXCEPT !.phase = "clear"]]
           /\ UNCHANGED <<session, coordinator, promise>>
  <2> DEFINE d == [calls[s] EXCEPT !.phase = "clear"]
  <2>1. d \in Calls /\ d.kind = "restore" /\ d.phase = "clear"
    BY <1>1, ClearCall DEF RegisterInv
  <2>2. calls' = [calls EXCEPT ![s] = d]
    BY <1>4
  <2> HIDE DEF d
  <2> QED BY <1>1, <1>4, <2>1, <2>2, UnseenMove
<1>5. CASE /\ IsCurrent(calls[s]) /\ Usable(calls[s].token) /\ Ended(s)
           /\ session' = Authenticated(calls[s].token, session.generation + 1)
  <2>1. calls[s].token \in Tokens
    BY <1>1, <1>5 DEF Calls, Usable
  <2> QED BY <1>1, <1>5, <2>1, RestoredSeen
<1> QED BY <1>2, <1>3, <1>4, <1>5 DEF RestoreFails, RestoreResumes, Waits

LEMMA ClockSeen ==
  ASSUME RegisterInv, PresentedInv', Clock
  PROVE  RegisterInv' /\ [Register!Next]_<<View, epoch>>
<1>1. CASE Observe
  <2>1. /\ session.state = "authenticated" /\ session'.state = "expired"
        /\ session'.actor = session.actor /\ session'.token = session.token
        /\ session'.generation = session.generation
        /\ UNCHANGED <<calls, promise, epoch>>
    BY <1>1 DEF Observe, history, RegisterInv, PresentedInv, ShapeInv
  <2>2. ViewInv'
    BY <2>1 DEF RegisterInv, ViewInv, Published
  <2>3. \A t \in Slots : Work(t)'
    BY <2>1 DEF RegisterInv, Work, Saving, Flying
  <2>4. Register!Expire
    BY <2>1 DEF Register!Expire, View
  <2> QED BY <2>2, <2>3, <2>4 DEF RegisterInv, Register!Next
<1>2. CASE \E n \in 1..MaxTokens : Lapse(n)
  <2>1. UNCHANGED <<session, calls, promise, epoch>>
    BY <1>2 DEF Lapse, memory, history
  <2> QED BY <2>1 DEF RegisterInv, ViewInv, Published, Work, Saving, Flying, View
<1> QED BY <1>1, <1>2 DEF Clock

LEMMA FreshSeen == Fresh => RegisterInv
<1> SUFFICES ASSUME Fresh PROVE RegisterInv
  OBVIOUS
<1>1. PresentedInv
  BY FreshHolds
<1>2. session = Anonymous(0)
  BY DEF Fresh
<1>3. ViewInv
  BY <1>2 DEF ViewInv, Published, Anonymous
<1>4. ASSUME NEW t \in Slots PROVE Work(t)
  BY <1>1, <1>2 DEF PresentedInv, FirstInv, Work, Saving, Flying, Anonymous
<1> QED BY <1>1, <1>3, <1>4 DEF RegisterInv

LEMMA FreshSeenNext == Fresh' => RegisterInv'
  BY FreshSeen, PTL

LEMMA RestartSeen ==
  ASSUME RegisterInv, PresentedInv', NEW s \in Slots, Restart(s)
  PROVE  RegisterInv' /\ Register!Next
<1>1. Fresh'
  BY RestartFresh DEF RegisterInv
<1>2. Register!Restart
  BY DEF Restart, Register!Restart, Register!Nobody, View, Anonymous
<1> QED BY <1>1, <1>2, FreshSeenNext DEF Register!Next

LEMMA RegisterInvNext ==
  RegisterInv /\ [Next]_vars => RegisterInv' /\ [Register!Next]_<<View, epoch>>
<1> SUFFICES ASSUME RegisterInv, [Next]_vars
             PROVE  RegisterInv' /\ [Register!Next]_<<View, epoch>>
  OBVIOUS
<1>1. PresentedInv'
  BY PresentedInvNext DEF RegisterInv
<1>2. CASE Clock
  BY <1>1, <1>2, ClockSeen
<1>3. ASSUME NEW s \in Slots, Decide(s)
      PROVE  RegisterInv' /\ [Register!Next]_<<View, epoch>>
  BY <1>1, <1>3, LoginSeen, LogoutSeen, RefreshUnseen DEF Decide
<1>4. ASSUME NEW s \in Slots, Storage(s)
      PROVE  RegisterInv' /\ [Register!Next]_<<View, epoch>>
  BY <1>1, <1>4, StorageSeen
<1>5. ASSUME NEW s \in Slots, Settle(s)
      PROVE  RegisterInv' /\ [Register!Next]_<<View, epoch>>
  BY <1>1, <1>5, ProviderSeen, RefreshBeginsSeen, RestoreSeen DEF Settle
<1>6. ASSUME NEW s \in Slots, Restart(s)
      PROVE  RegisterInv' /\ [Register!Next]_<<View, epoch>>
  BY <1>1, <1>6, RestartSeen
<1>7. CASE UNCHANGED vars
  <2>1. UNCHANGED <<session, calls, promise, epoch>>
    BY <1>7 DEF vars, memory, history
  <2> QED BY <1>1, <2>1 DEF RegisterInv, ViewInv, Published, Work, Saving, Flying, View
<1> QED BY <1>2, <1>3, <1>4, <1>5, <1>6, <1>7 DEF Next

LEMMA RegisterInvInit == Init => RegisterInv /\ Register!Init
<1> SUFFICES ASSUME Init PROVE RegisterInv /\ Register!Init
  OBVIOUS
<1>1. RegisterInv
  BY InitFresh, FreshSeen
<1>2. Register!Init
  BY DEF Init, Started, Register!Init, Register!Nobody, View, Anonymous
<1> QED BY <1>1, <1>2

\* The controller implements the register: whatever calls overlap, an account
\* never replaces another nor comes back under one generation, and a renewal
\* brings newer tokens of the same account.
THEOREM RegisterImplemented == Spec => RegisterSpec
  BY RegisterInvInit, RegisterInvNext, PTL DEF Spec, RegisterSpec, Register!Spec

-----------------------------------------------------------------------------
(***************************************************************************)
(* 3. The storage.  At most one call owns the present generation while there *)
(* are no tokens, the queue holds exactly the calls that wait to write, in the *)
(* order of the generations they were queued for, and what they write is what *)
(* the latest decision wants.                                              *)
(***************************************************************************)

\* A call in the storage queue.
Waiting(s) == calls[s].phase \in {"save", "clear"}
\* The call the present generation belongs to while it has no tokens.
Owns(s) ==
  LET c == calls[s] IN
  \/ c.kind \in {"login", "logout"} /\ c.generation = session.generation
  \/ c.kind = "refresh" /\ c.phase = "clear" /\ c.generation + 1 = session.generation
  \/ c.kind = "restore" /\ session.generation = 0

\* The storage queue holds each call that waits to write once, in the order of
\* the generations they were queued for; the head is the one at work.
QueueInv ==
  /\ queue \in Seq(Slots)
  /\ \A s \in Slots : Waiting(s) => calls[s].kind # "none"
  /\ \A s \in Slots : Waiting(s) <=> \E i \in 1..Len(queue) : queue[i] = s
  /\ \A i, j \in 1..Len(queue) : i < j =>
       queue[i] # queue[j] /\ QueuedFor(calls[queue[i]]) <= QueuedFor(calls[queue[j]])
  /\ busy # NoSlot => queue # <<>> /\ Head(queue) = busy

\* At most one call owns the present generation, and then there are no tokens.
OwnerInv ==
  \A s \in Slots : Owns(s) => session.token = NoToken /\ \A t \in Slots : Owns(t) => t = s

\* While tokens are published they are the stored ones, or a refresh of the
\* present generation is about to store their successors.
PublishedInv ==
  session.token # NoToken =>
    /\ store = session.token
    /\ \A s \in Slots : Waiting(s) => Flying(s) /\ Saving(s)

\* Before the first decision, a restore that has read the store holds its token.
RestoreInv ==
  session.generation = 0 =>
    /\ wanted = Undecided
    /\ \A s \in Slots : At(s, "restore", "answered") => calls[s].token = store

\* Without tokens, some call is still to write, or nothing is left stored that
\* the user was not told about.
LeftInv ==
  session.token = NoToken =>
    (\E s \in Slots : Owns(s)) \/ (queue = <<>> /\ (store = NoToken \/ reported))

\* Logins are numbered as they are asked for; what may still be stored or
\* published descends from one that no completed logout has closed.
ClosedInv ==
  /\ closed \in Nat /\ closed <= logins
  /\ session.token # NoToken => session.token.login > closed
  /\ store \in Tokens => store.login > closed
  /\ busy # NoSlot /\ Saving(busy) => calls[busy].token.login > closed
  /\ \A s \in Slots : calls[s].upto <= logins
  /\ \A s \in Slots : calls[s].kind = "login" /\ calls[s].generation = session.generation =>
       /\ calls[s].upto > closed
       /\ \A t \in Slots : calls[t].kind = "logout" => calls[t].upto < calls[s].upto
  /\ \A s \in Slots : calls[s].kind = "login" /\ Saving(s) => calls[s].token.login = calls[s].upto
  /\ \A s \in Slots : Flying(s) => calls[s].token.login = session.token.login

\* The login the controller is in, and the account it shows, are the last
\* decision's.
WantedInv ==
  /\ \A s \in Slots : calls[s].kind = "login" /\ calls[s].generation = session.generation =>
       wanted = calls[s].actor
  /\ session.token # NoToken => wanted \in {Undecided, session.actor}

\* The inductive invariant.
StoreInv ==
  /\ RegisterInv /\ QueueInv /\ OwnerInv /\ PublishedInv /\ RestoreInv /\ LeftInv
  /\ ClosedInv /\ WantedInv

-----------------------------------------------------------------------------
(* The storage queue. *)

LEMMA CurrentIs ==
  ASSUME RegisterInv, NEW s \in Slots
  PROVE  /\ IsCurrent(calls[s]) <=> calls[s].generation = session.generation
         /\ calls[s] \in Calls /\ session.generation \in Nat
  BY DEF IsCurrent, RegisterInv, PresentedInv, ShapeInv

\* Taking the head out of the queue leaves its tail.
LEMMA DequeuedIsTail ==
  ASSUME queue \in Seq(Slots), NEW s, HasTurn(s)
  PROVE  Dequeued(s) = Tail(queue)
<1> DEFINE I == {i \in 1..Len(queue) : queue[i] = s}
<1>1. Len(queue) \in Nat /\ Len(queue) >= 1 /\ queue[1] = s
  BY DEF HasTurn
<1>2. 1 \in I /\ \A i \in I : 1 <= i /\ i \in Nat
  BY <1>1
<1>3. Min(I) = 1
  BY <1>2 DEF Min
<1>4. SelectInSeq(queue, LAMBDA v : v = s) = 1
  BY <1>2, <1>3 DEF SelectInSeq
<1>5. Dequeued(s) = RemoveAt(queue, 1)
  BY <1>1, <1>4 DEF Dequeued, RemoveFirst
<1>6. SubSeq(queue, 1, 0) = <<>>
  BY SubSeqEmpty
<1>7. SubSeq(queue, 2, Len(queue)) = Tail(queue) /\ Tail(queue) \in Seq(Slots)
  BY <1>1, TailIsSubSeq, HeadTailProperties DEF HasTurn
<1>8. <<>> \o Tail(queue) = Tail(queue)
  BY <1>7, ConcatEmptySeq
<1> QED BY <1>5, <1>6, <1>7, <1>8 DEF RemoveAt

\* A call of the present or an earlier generation.
LEMMA QueuedBefore ==
  ASSUME RegisterInv, QueueInv, NEW s \in Slots, Waiting(s)
  PROVE  QueuedFor(calls[s]) \in Int /\ QueuedFor(calls[s]) <= session.generation
  BY DEF RegisterInv, PresentedInv, ShapeInv, CallsInv, Calls, Waiting, QueueInv,
         QueuedFor

\* A storage operation joins the end of the queue for the newest generation.
LEMMA QueueGrows ==
  ASSUME RegisterInv, QueueInv, NEW s \in Slots, ~Waiting(s),
         queue' = Append(queue, s), busy' = busy, Waiting(s)', calls'[s].kind # "none",
         \A t \in Slots : t # s => calls'[t] = calls[t],
         session.generation <= QueuedFor(calls[s])', QueuedFor(calls[s])' \in Int
  PROVE  QueueInv'
<1>1. queue \in Seq(Slots) /\ Len(queue) \in Nat
  BY DEF QueueInv
<1>2. /\ queue' \in Seq(Slots) /\ Len(queue') = Len(queue) + 1 /\ queue'[Len(queue) + 1] = s
      /\ \A i \in 1..Len(queue) : queue'[i] = queue[i]
  BY <1>1, AppendProperties
<1>3. \A i \in 1..Len(queue) : queue[i] \in Slots /\ Waiting(queue[i]) /\ queue[i] # s
  BY <1>1 DEF QueueInv
<1>4. \A t \in Slots : t # s =>
        (Waiting(t)' <=> Waiting(t)) /\ QueuedFor(calls[t])' = QueuedFor(calls[t])
  BY DEF Waiting, QueuedFor
<1>5. \A t \in Slots : Waiting(t)' <=> \E i \in 1..Len(queue') : queue'[i] = t
  BY <1>1, <1>2, <1>3, <1>4 DEF QueueInv
<1>6. ASSUME NEW i \in 1..Len(queue'), NEW j \in 1..Len(queue'), i < j
      PROVE  /\ queue'[i] # queue'[j]
             /\ QueuedFor(calls[queue[i]])' <= QueuedFor(calls[queue[j]])'
  <2>1. i \in 1..Len(queue) /\ queue'[i] = queue[i]
    BY <1>1, <1>2, <1>6
  <2>2. /\ queue[i] # s /\ QueuedFor(calls[queue[i]]) \in Int
        /\ QueuedFor(calls[queue[i]]) <= session.generation
        /\ QueuedFor(calls'[queue'[i]]) = QueuedFor(calls[queue[i]])
    BY <1>3, <1>4, <2>1, QueuedBefore
  <2>3. CASE j = Len(queue) + 1
    BY <1>2, <2>1, <2>2, <2>3, CurrentIs
  <2>4. CASE j \in 1..Len(queue)
    <3>1. queue[i] # queue[j] /\ QueuedFor(calls[queue[i]]) <= QueuedFor(calls[queue[j]])
      BY <1>6, <2>1, <2>4 DEF QueueInv
    <3>2. queue'[j] = queue[j] /\ QueuedFor(calls'[queue'[j]]) = QueuedFor(calls[queue[j]])
      BY <1>2, <1>3, <1>4, <2>4
    <3> QED BY <2>1, <2>2, <3>1, <3>2
  <2> QED BY <1>1, <1>2, <2>3, <2>4
<1>7. busy' # NoSlot => queue' # <<>> /\ Head(queue') = busy'
  BY <1>1, <1>2 DEF QueueInv
<1>8. \A t \in Slots : Waiting(t)' => calls'[t].kind # "none"
  BY <1>4 DEF QueueInv
<1> QED BY <1>2, <1>5, <1>6, <1>7, <1>8 DEF QueueInv

\* The operation at the head is over, and its call with it.
LEMMA QueueShrinks ==
  ASSUME RegisterInv, QueueInv, NEW s \in Slots, HasTurn(s),
         queue' = Dequeued(s), busy' = NoSlot, ~Waiting(s)',
         \A t \in Slots : t # s => calls'[t] = calls[t]
  PROVE  QueueInv'
<1>1. queue \in Seq(Slots) /\ queue # <<>> /\ Len(queue) \in Nat /\ queue[1] = s
  BY DEF QueueInv, HasTurn
<1>2. /\ queue' \in Seq(Slots) /\ Len(queue') = Len(queue) - 1
      /\ \A i \in 1..Len(queue') : queue'[i] = queue[i + 1]
  BY <1>1, DequeuedIsTail, HeadTailProperties
<1>3. \A i \in 1..Len(queue') : i + 1 \in 1..Len(queue) /\ queue'[i] \in Slots /\ queue'[i] # s
  BY <1>1, <1>2 DEF QueueInv
<1>4. \A t \in Slots : t # s =>
        (Waiting(t)' <=> Waiting(t)) /\ QueuedFor(calls[t])' = QueuedFor(calls[t])
  BY DEF Waiting, QueuedFor
<1>5. ASSUME NEW t \in Slots PROVE Waiting(t)' <=> \E i \in 1..Len(queue') : queue'[i] = t
  <2>1. CASE t = s
    BY <1>3, <2>1
  <2>2. CASE t # s
    <3>1. Waiting(t) <=> \E i \in 1..Len(queue) : queue[i] = t
      BY DEF QueueInv
    <3>2. \A i \in 1..Len(queue) : queue[i] = t => i - 1 \in 1..Len(queue') /\ queue'[i - 1] = t
      BY <1>1, <1>2, <2>2
    <3> QED BY <1>2, <1>3, <1>4, <2>2, <3>1, <3>2
  <2> QED BY <2>1, <2>2
<1>6. ASSUME NEW i \in 1..Len(queue'), NEW j \in 1..Len(queue'), i < j
      PROVE  /\ queue'[i] # queue'[j]
             /\ QueuedFor(calls[queue[i]])' <= QueuedFor(calls[queue[j]])'
  <2>1. /\ queue[i + 1] # queue[j + 1]
        /\ QueuedFor(calls[queue[i + 1]]) <= QueuedFor(calls[queue[j + 1]])
    BY <1>1, <1>2, <1>3, <1>6 DEF QueueInv
  <2>2. /\ QueuedFor(calls'[queue'[i]]) = QueuedFor(calls[queue[i + 1]])
        /\ QueuedFor(calls'[queue'[j]]) = QueuedFor(calls[queue[j + 1]])
    BY <1>2, <1>3, <1>4
  <2> QED BY <1>2, <2>1, <2>2
<1>7. \A t \in Slots : Waiting(t)' => calls'[t].kind # "none"
  BY <1>4 DEF QueueInv
<1> QED BY <1>2, <1>5, <1>6, <1>7 DEF QueueInv

\* Calls that do not wait change, or an operation begins.
LEMMA QueueStays ==
  ASSUME QueueInv, NEW s \in Slots, queue' = queue,
         busy' # NoSlot => queue # <<>> /\ Head(queue) = busy',
         \/ ~Waiting(s) /\ ~Waiting(s)' /\ \A t \in Slots : t # s => calls'[t] = calls[t]
         \/ calls' = calls
  PROVE  QueueInv'
<1>1. /\ \A i \in 1..Len(queue) : queue[i] \in Slots
      /\ \A t \in Slots : Waiting(t) <=> \E i \in 1..Len(queue) : queue[i] = t
  BY DEF QueueInv
<1>2. \A t \in Slots : (Waiting(t)' <=> Waiting(t)) /\ (Waiting(t) => calls'[t] = calls[t])
  BY DEF Waiting
<1>3. \A i \in 1..Len(queue) : calls'[queue[i]] = calls[queue[i]]
  BY <1>1, <1>2
<1> QED BY <1>1, <1>2, <1>3 DEF QueueInv, QueuedFor

\* A save that fails: the call goes to the end of the queue, to clear.
LEMMA QueueRotates ==
  ASSUME RegisterInv, QueueInv, NEW s \in Slots, HasTurn(s),
         queue' = Append(Dequeued(s), s), busy' = NoSlot,
         Waiting(s)', calls'[s].kind # "none",
         \A t \in Slots : t # s => calls'[t] = calls[t],
         session.generation <= QueuedFor(calls[s])', QueuedFor(calls[s])' \in Int
  PROVE  QueueInv'
<1>1. queue \in Seq(Slots) /\ queue # <<>> /\ Len(queue) \in Nat /\ queue[1] = s
      /\ Len(queue) >= 1
  BY DEF QueueInv, HasTurn
<1>2. /\ Tail(queue) \in Seq(Slots) /\ Len(Tail(queue)) = Len(queue) - 1
      /\ \A i \in 1..Len(queue) - 1 : Tail(queue)[i] = queue[i + 1]
  BY <1>1, HeadTailProperties
<1>3. /\ queue' \in Seq(Slots) /\ Len(queue') = Len(queue) /\ queue'[Len(queue)] = s
      /\ \A i \in 1..Len(queue) - 1 : queue'[i] = queue[i + 1]
  <2>1. queue' = Append(Tail(queue), s)
    BY <1>1, DequeuedIsTail
  <2> QED BY <1>1, <1>2, <2>1, AppendProperties
<1>4. \A i \in 1..Len(queue) - 1 :
        i + 1 \in 1..Len(queue) /\ queue[i + 1] \in Slots /\ queue[i + 1] # s
        /\ Waiting(queue[i + 1])
  BY <1>1 DEF QueueInv
<1>5. \A t \in Slots : t # s =>
        (Waiting(t)' <=> Waiting(t)) /\ QueuedFor(calls[t])' = QueuedFor(calls[t])
  BY DEF Waiting, QueuedFor
<1>6. ASSUME NEW t \in Slots PROVE Waiting(t)' <=> \E i \in 1..Len(queue') : queue'[i] = t
  <2>1. CASE t = s
    BY <1>1, <1>3, <2>1
  <2>2. CASE t # s
    <3>1. Waiting(t) <=> \E i \in 1..Len(queue) : queue[i] = t
      BY DEF QueueInv
    <3>2. \A i \in 1..Len(queue) : queue[i] = t =>
            i - 1 \in 1..Len(queue) - 1 /\ queue'[i - 1] = t
      BY <1>1, <1>3, <2>2
    <3>3. \A i \in 1..Len(queue) : queue'[i] = t => i \in 1..Len(queue) - 1
      BY <1>1, <1>3, <2>2
    <3> QED BY <1>1, <1>3, <1>4, <1>5, <2>2, <3>1, <3>2, <3>3
  <2> QED BY <2>1, <2>2
<1>7. ASSUME NEW i \in 1..Len(queue'), NEW j \in 1..Len(queue'), i < j
      PROVE  /\ queue'[i] # queue'[j]
             /\ QueuedFor(calls[queue[i]])' <= QueuedFor(calls[queue[j]])'
  <2> DEFINE n == Len(queue)
  <2>0. n \in Nat /\ i \in 1..n /\ j \in 1..n
    BY <1>1, <1>3
  <2> HIDE DEF n
  <2>9. i \in 1..n - 1
    BY <1>7, <2>0
  <2>1. i \in 1..Len(queue) - 1 /\ queue'[i] = queue[i + 1] /\ queue[i + 1] # s
    BY <1>3, <1>4, <2>9 DEF n
  <2>2. /\ QueuedFor(calls'[queue'[i]]) = QueuedFor(calls[queue[i + 1]])
        /\ QueuedFor(calls[queue[i + 1]]) \in Int
        /\ QueuedFor(calls[queue[i + 1]]) <= session.generation
    BY <1>4, <1>5, <2>1, QueuedBefore
  <2>3. CASE j = Len(queue)
    BY <1>3, <2>1, <2>2, <2>3, CurrentIs
  <2>4. CASE j \in 1..Len(queue) - 1
    <3>1. /\ queue[i + 1] # queue[j + 1]
          /\ QueuedFor(calls[queue[i + 1]]) <= QueuedFor(calls[queue[j + 1]])
      BY <1>1, <1>4, <1>7, <2>1, <2>4 DEF QueueInv
    <3>2. queue'[j] = queue[j + 1]
          /\ QueuedFor(calls'[queue'[j]]) = QueuedFor(calls[queue[j + 1]])
      BY <1>3, <1>4, <1>5, <2>4
    <3> QED BY <2>1, <2>2, <3>1, <3>2
  <2> QED BY <1>1, <1>3, <2>3, <2>4
<1>8. \A t \in Slots : Waiting(t)' => calls'[t].kind # "none"
  BY <1>5 DEF QueueInv
<1> QED BY <1>3, <1>6, <1>7, <1>8 DEF QueueInv

-----------------------------------------------------------------------------
(* Who waits. *)

\* An operation queued for the present generation is its owner's, or the save
\* of its refresh.
LEMMA QueuedNow ==
  ASSUME RegisterInv, QueueInv, NEW s \in Slots, Waiting(s),
         QueuedFor(calls[s]) = session.generation
  PROVE  Owns(s) \/ Flying(s)
  BY CurrentIs DEF QueueInv, Waiting, Owns, Flying, QueuedFor, Calls, Kinds, RegisterInv,
                   PresentedInv, CallsInv

\* Behind the operation of the present generation nothing waits.
LEMMA AloneInQueue ==
  ASSUME StoreInv, NEW s \in Slots, HasTurn(s), Owns(s) \/ Flying(s), Waiting(s)
  PROVE  Len(queue) = 1 /\ \A t \in Slots : Waiting(t) => t = s
<1>1. RegisterInv /\ QueueInv /\ queue \in Seq(Slots) /\ Len(queue) \in Nat /\ Len(queue) >= 1
      /\ queue[1] = s
  BY DEF StoreInv, QueueInv, HasTurn
<1>2. ASSUME NEW t \in Slots, Waiting(t), t # s PROVE FALSE
  <2>1. PICK i \in 1..Len(queue) : queue[i] = t
    BY <1>1, <1>2 DEF QueueInv
  <2>2. 1 < i
    BY <1>1, <1>2, <2>1
  <2>3. QueuedFor(calls[s]) <= QueuedFor(calls[t])
    BY <1>1, <2>1, <2>2 DEF QueueInv
  <2>4. QueuedFor(calls[t]) \in Int /\ QueuedFor(calls[t]) <= session.generation
    BY <1>1, <1>2, QueuedBefore
  <2>5. QueuedFor(calls[s]) = session.generation
    BY <1>1, CurrentIs DEF Owns, Flying, QueuedFor, Calls, RegisterInv, PresentedInv, CallsInv
  <2>6. Owns(t) \/ Flying(t)
    BY <1>1, <1>2, <2>3, <2>4, <2>5, QueuedNow, CurrentIs
  <2> QED BY <1>2, <2>6 DEF StoreInv, OwnerInv, RegisterInv, PresentedInv, FlightInv
<1>3. \A i \in 1..Len(queue) : queue[i] \in Slots /\ Waiting(queue[i])
  BY <1>1 DEF QueueInv
<1>4. ~(Len(queue) >= 2)
  <2> SUFFICES ASSUME Len(queue) >= 2 PROVE FALSE
    OBVIOUS
  <2>1. queue[1] # queue[2] /\ queue[2] \in Slots /\ Waiting(queue[2])
    BY <1>1, <1>3 DEF QueueInv
  <2> QED BY <1>1, <1>2, <2>1
<1>5. \A t \in Slots : Waiting(t) => t = s
  BY <1>2
<1>6. Len(queue) = 1
  <2> DEFINE n == Len(queue)
  <2>1. n \in Nat /\ n >= 1 /\ ~(n >= 2)
    BY <1>1, <1>4
  <2> HIDE DEF n
  <2>2. n = 1
    BY <2>1
  <2> QED BY <2>2 DEF n
<1> QED BY <1>5, <1>6

\* The call whose operation is executing is at the head of the queue.
LEMMA BusyHasTurn ==
  ASSUME QueueInv, NEW s \in Slots, busy = s
  PROVE  HasTurn(s) /\ Waiting(s) /\ busy # NoSlot
  BY NoneAssumption DEF QueueInv, HasTurn

LEMMA TurnWaits ==
  ASSUME QueueInv, NEW s \in Slots, HasTurn(s)
  PROVE  Waiting(s)
  BY DEF QueueInv, HasTurn

-----------------------------------------------------------------------------
(* What a step leaves of the invariant. *)

\* The session shows what it showed, if it shows an account.
SessionShown ==
  /\ session'.generation = session.generation /\ session'.token = session.token
  /\ session.token # NoToken => session'.actor = session.actor

\* A call that does not wait goes on or ends, and the session stays.
LEMMA IdleHolds ==
  ASSUME StoreInv, RegisterInv', NEW s \in Slots, ~Waiting(s), ~Waiting(s)',
         \A t \in Slots : t # s => calls'[t] = calls[t],
         SessionShown, UNCHANGED <<queue, busy, store, closed, logins, wanted>>,
         reported => reported',
         calls'[s].kind \in {"none", "refresh", "restore"}, calls'[s].upto <= logins,
         Flying(s)' => calls'[s].token.login = session.token.login,
         Owns(s)' => Owns(s),
         Owns(s) => Owns(s)' \/ (queue = <<>> /\ (store = NoToken \/ reported')),
         At(s, "restore", "answered")' => calls'[s].token = store
  PROVE  StoreInv'
<1>1. session'.generation = session.generation /\ session'.token = session.token
      /\ (session.token # NoToken => session'.actor = session.actor)
  BY DEF SessionShown
<1>2. QueueInv'
  BY QueueStays DEF StoreInv, QueueInv
<1>3. \A t \in Slots : t # s => (Owns(t)' <=> Owns(t)) /\ (Flying(t)' <=> Flying(t))
  BY <1>1 DEF Owns, Flying
<1>4. OwnerInv'
  BY <1>1, <1>3 DEF StoreInv, OwnerInv
<1>5. PublishedInv'
  BY <1>1, <1>3 DEF StoreInv, PublishedInv, Waiting, Saving
<1>6. RestoreInv'
  BY <1>1 DEF StoreInv, RestoreInv, At
<1>7. LeftInv'
  BY <1>1, <1>3 DEF StoreInv, LeftInv
<1>8. ClosedInv'
  <2>1. busy' # NoSlot /\ Saving(busy)' => calls'[busy'].token.login > closed'
    BY BusyHasTurn
    DEF StoreInv, ClosedInv, RegisterInv, PresentedInv, ShapeInv, Saving
  <2>2. \A t \in Slots : Saving(t)' => t # s /\ Saving(t)
    BY DEF Saving, Waiting
  <2>3. \A t \in Slots : Flying(t)' => calls'[t].token.login = session'.token.login
    BY <1>1, <1>3 DEF StoreInv, ClosedInv
  <2>4. \A t \in Slots : calls'[t].kind = "login" \/ calls'[t].kind = "logout" => t # s
    OBVIOUS
  <2>5. \A t \in Slots : calls'[t].kind = "login" /\ Saving(t)' =>
           calls'[t].token.login = calls'[t].upto
    BY <2>2 DEF StoreInv, ClosedInv
  <2> QED BY <1>1, <2>1, <2>3, <2>4, <2>5 DEF StoreInv, ClosedInv
<1>9. WantedInv'
  BY <1>1 DEF StoreInv, WantedInv
<1> QED BY <1>2, <1>4, <1>5, <1>6, <1>7, <1>8, <1>9 DEF StoreInv

\* A call ends with its storage operation, publishing nothing.
LEMMA GoneHolds ==
  ASSUME StoreInv, RegisterInv', NEW s \in Slots, HasTurn(s), calls'[s] = NoCall,
         \A t \in Slots : t # s => calls'[t] = calls[t],
         queue' = Dequeued(s), busy' = NoSlot, SessionShown, session.token = NoToken,
         UNCHANGED <<logins, wanted>>,
         closed' = closed \/ (calls[s].kind = "logout" /\ closed' = calls[s].upto),
         store' \in Tokens => store'.login > closed',
         Owns(s) => store' = NoToken \/ reported'
  PROVE  StoreInv'
<1>1. session'.generation = session.generation /\ session'.token = NoToken
  BY DEF SessionShown
<1>2. /\ ~Waiting(s)' /\ calls'[s].kind = "none" /\ ~Saving(s)' /\ calls'[s].upto = 0
      /\ ~Owns(s)' /\ ~Flying(s)'
  BY DEF Waiting, Saving, Owns, Flying, NoCall
<1>3. QueueInv'
  BY <1>2, QueueShrinks DEF StoreInv
<1>4. Waiting(s) /\ calls[s] \in Calls
  BY TurnWaits, CurrentIs DEF StoreInv
<1>5. \A t \in Slots : t # s => (Owns(t)' <=> Owns(t)) /\ (Flying(t)' <=> Flying(t))
  BY <1>1 DEF Owns, Flying, SessionShown
<1>6. OwnerInv'
  BY <1>1, <1>2, <1>5 DEF StoreInv, OwnerInv
<1>7. PublishedInv'
  BY <1>1 DEF PublishedInv
<1>8. RestoreInv'
  <2> SUFFICES ASSUME session.generation = 0 PROVE RestoreInv'
    BY <1>1 DEF RestoreInv
  <2>1. calls[s].kind = "restore" /\ Owns(s)
    BY <1>4 DEF StoreInv, QueueInv, RegisterInv, PresentedInv, FirstInv, Owns
  <2>2. \A t \in Slots : t # s => calls[t].kind # "restore"
    BY <2>1 DEF StoreInv, OwnerInv, Owns
  <2> QED BY <1>2, <2>2 DEF StoreInv, RestoreInv, At
<1>9. LeftInv'
  <2>1. CASE Owns(s)
    <3>1. Len(queue) = 1 /\ queue \in Seq(Slots) /\ queue # <<>>
      BY <1>4, <2>1, AloneInQueue DEF StoreInv, QueueInv, HasTurn
    <3>2. queue' = <<>>
      BY <3>1, DequeuedIsTail, HeadTailProperties, EmptySeq
    <3> QED BY <2>1, <3>2 DEF LeftInv
  <2>2. CASE ~Owns(s)
    <3>1. \E t \in Slots : Owns(t)
      BY DEF StoreInv, LeftInv, HasTurn
    <3> QED BY <1>5, <2>2, <3>1 DEF LeftInv
  <2> QED BY <2>1, <2>2
<1>10. ClosedInv'
  <2>1. closed' \in Nat /\ closed' <= logins'
    BY <1>4 DEF StoreInv, ClosedInv, Calls
  <2>2. \A t \in Slots : calls'[t].upto <= logins'
    BY <1>2 DEF StoreInv, ClosedInv, RegisterInv, PresentedInv, ShapeInv
  <2>3. \A t \in Slots : calls'[t].kind = "login" /\ calls'[t].generation = session'.generation =>
           /\ calls'[t].upto > closed'
           /\ \A u \in Slots : calls'[u].kind = "logout" => calls'[u].upto < calls'[t].upto
    BY <1>1, <1>2 DEF StoreInv, ClosedInv
  <2>4. \A t \in Slots : calls'[t].kind = "login" /\ Saving(t)' =>
           calls'[t].token.login = calls'[t].upto
    BY <1>2 DEF StoreInv, ClosedInv, Saving
  <2>5. \A t \in Slots : Flying(t)' => calls'[t].token.login = session'.token.login
    BY <1>1, <1>2 DEF RegisterInv, PresentedInv, FlightInv
  <2> QED BY <1>1, <2>1, <2>2, <2>3, <2>4, <2>5 DEF ClosedInv
<1>11. WantedInv'
  BY <1>1, <1>2 DEF StoreInv, WantedInv
<1> QED BY <1>3, <1>6, <1>7, <1>8, <1>9, <1>10, <1>11 DEF StoreInv

\* Tokens that are stored are published.
LEMMA PublishedHolds ==
  ASSUME StoreInv, RegisterInv', NEW s \in Slots, NEW k \in Tokens, NEW g \in Nat \ {0},
         session' = Authenticated(k, g), calls'[s] = NoCall,
         \A t \in Slots : t # s => calls'[t] = calls[t],
         \A t \in Slots : t # s => ~Waiting(t),
         queue' = <<>>, busy' = NoSlot, store' = k,
         UNCHANGED <<closed, logins, wanted>>,
         k.login > closed, wanted \in {Undecided, k.actor},
         \A t \in Slots : t # s => ~Owns(t)' /\ ~Flying(t)'
  PROVE  StoreInv'
<1>1. session'.generation = g /\ session'.token = k /\ k # NoToken /\ session'.actor = k.actor
  BY TokenAssumption DEF Authenticated
<1>2. /\ ~Waiting(s)' /\ calls'[s].kind = "none" /\ ~Saving(s)' /\ calls'[s].upto = 0
      /\ ~Owns(s)' /\ ~Flying(s)'
  BY <1>1 DEF Waiting, Saving, Owns, Flying, NoCall
<1>3. \A t \in Slots : ~Waiting(t)' /\ ~Owns(t)' /\ ~Flying(t)'
  BY <1>2 DEF Waiting
<1>4. QueueInv'
  BY <1>3, EmptySeq DEF QueueInv
<1>5. OwnerInv' /\ PublishedInv' /\ RestoreInv' /\ LeftInv'
  BY <1>1, <1>3 DEF OwnerInv, PublishedInv, RestoreInv, LeftInv
<1>6. \A t \in Slots : ~(calls'[t].kind = "login" /\ calls'[t].generation = session'.generation)
  BY <1>3 DEF Owns
<1>7. \A t \in Slots : calls'[t].upto <= logins'
  BY <1>2 DEF StoreInv, ClosedInv, RegisterInv, PresentedInv, ShapeInv
<1>8. \A t \in Slots : ~Saving(t)'
  BY <1>3 DEF Saving, Waiting
<1>9. ClosedInv'
  BY <1>1, <1>3, <1>6, <1>7, <1>8 DEF StoreInv, ClosedInv
<1>10. WantedInv'
  BY <1>1, <1>6 DEF WantedInv
<1> QED BY <1>4, <1>5, <1>9, <1>10 DEF StoreInv

\* A generation without tokens begins; the call that began it is its owner.
LEMMA BegunHolds ==
  ASSUME StoreInv, RegisterInv', QueueInv', NEW s \in Slots,
         session'.generation = session.generation + 1, session'.token = NoToken,
         \A t \in Slots : t # s => calls'[t] = calls[t],
         Owns(s)', calls'[s].phase # "save", busy' \in {busy, NoSlot},
         UNCHANGED <<store, closed>>, logins' \in {logins, logins + 1},
         calls'[s].upto <= logins', calls'[s].upto \in Nat,
         calls'[s].kind = "login" => calls'[s].upto = logins + 1 /\ wanted' = calls'[s].actor
  PROVE  StoreInv'
<1>1. /\ session.generation \in Nat /\ logins \in Nat
      /\ \A t \in Slots : /\ calls[t] \in Calls
                          /\ calls[t].kind # "none" => calls[t].generation <= session.generation
                          /\ calls[t].kind = "refresh" /\ calls[t].phase = "clear" =>
                               calls[t].generation < session.generation
  BY DEF StoreInv, RegisterInv, PresentedInv, ShapeInv, CallsInv
<1>2. \A t \in Slots : t # s => ~Owns(t)'
  BY <1>1 DEF Owns, Calls
<1>3. OwnerInv' /\ PublishedInv' /\ RestoreInv' /\ LeftInv'
  BY <1>1, <1>2 DEF OwnerInv, PublishedInv, RestoreInv, LeftInv
<1>4. \A t \in Slots : ~Flying(t)'
  BY DEF RegisterInv, PresentedInv, FlightInv
<1>5. \A t \in Slots : calls'[t].kind = "login" /\ calls'[t].generation = session'.generation =>
        t = s
  BY <1>2 DEF Owns
<1>6. \A t \in Slots : Saving(t)' => t # s /\ Saving(t)
  BY DEF Saving
<1>7. \A t \in Slots : calls'[t].upto \in Nat /\ calls'[t].upto <= logins'
  BY <1>1 DEF StoreInv, ClosedInv, Calls
<1>8. ClosedInv'
  <2>1. closed' \in Nat /\ closed' <= logins'
    BY <1>1 DEF StoreInv, ClosedInv
  <2>2. store' \in Tokens => store'.login > closed'
    BY DEF StoreInv, ClosedInv
  <2>3. busy' # NoSlot /\ Saving(busy)' => calls'[busy'].token.login > closed'
    BY <1>6 DEF StoreInv, ClosedInv, RegisterInv, PresentedInv, ShapeInv, Saving
  <2>4. \A t \in Slots : calls'[t].kind = "login" /\ calls'[t].generation = session'.generation =>
           /\ calls'[t].upto > closed'
           /\ \A u \in Slots : calls'[u].kind = "logout" => calls'[u].upto < calls'[t].upto
    BY <1>1, <1>5, <1>7 DEF StoreInv, ClosedInv, Calls
  <2>5. \A t \in Slots : calls'[t].kind = "login" /\ Saving(t)' =>
           calls'[t].token.login = calls'[t].upto
    BY <1>6 DEF StoreInv, ClosedInv
  <2> QED BY <1>4, <1>7, <2>1, <2>2, <2>3, <2>4, <2>5 DEF ClosedInv
<1>9. WantedInv'
  BY <1>5 DEF WantedInv
<1> QED BY <1>3, <1>8, <1>9 DEF StoreInv

\* A call of the present generation joins the queue, or returns to it.
LEMMA QueuedHolds ==
  ASSUME StoreInv, RegisterInv', QueueInv', NEW s \in Slots, SessionShown,
         \A t \in Slots : t # s => calls'[t] = calls[t],
         calls'[s].kind = calls[s].kind, calls'[s].generation = calls[s].generation,
         calls'[s].actor = calls[s].actor, calls'[s].upto = calls[s].upto, Waiting(s)',
         Owns(s) \/ (Flying(s) /\ Saving(s)'),
         calls[s].kind = "refresh" => Flying(s),
         busy' \in {busy, NoSlot}, busy' # s,
         UNCHANGED <<store, closed, logins, wanted>>,
         calls[s].kind = "login" /\ Saving(s)' => calls'[s].token.login = calls[s].upto,
         Flying(s)' => calls'[s].token.login = session.token.login
  PROVE  StoreInv'
<1>1. session'.generation = session.generation /\ session'.token = session.token
      /\ (session.token # NoToken => session'.actor = session.actor)
  BY DEF SessionShown
<1>2. \A t \in Slots : t # s => (Owns(t)' <=> Owns(t)) /\ (Flying(t)' <=> Flying(t))
  BY <1>1 DEF Owns, Flying
<1>3. Owns(s)' <=> Owns(s)
  <2>1. CASE Owns(s)
    BY <1>1, <2>1 DEF Owns, StoreInv, OwnerInv, RegisterInv, PresentedInv, FlightInv
  <2>2. CASE Flying(s) /\ Saving(s)'
    BY <1>1, <2>2 DEF Owns, Flying, Saving
  <2> QED BY <2>1, <2>2
<1>4. OwnerInv'
  BY <1>1, <1>2, <1>3 DEF StoreInv, OwnerInv
<1>5. PublishedInv'
  <2> SUFFICES ASSUME session.token # NoToken PROVE PublishedInv'
    BY <1>1 DEF PublishedInv
  <2>1. Flying(s) /\ Saving(s)' /\ Flying(s)'
    BY <1>1 DEF StoreInv, OwnerInv, Flying, Saving
  <2> QED BY <1>1, <1>2, <2>1 DEF StoreInv, PublishedInv, Waiting, Saving
<1>6. RestoreInv'
  BY <1>1 DEF StoreInv, RestoreInv, At, Waiting
<1>7. LeftInv'
  <2> SUFFICES ASSUME session.token = NoToken PROVE LeftInv'
    BY <1>1 DEF LeftInv
  <2>1. Owns(s)
    BY DEF StoreInv, RegisterInv, PresentedInv, FlightInv
  <2> QED BY <1>3, <2>1 DEF LeftInv
<1>8. ClosedInv'
  <2>1. busy' # NoSlot /\ Saving(busy)' => calls'[busy'].token.login > closed'
    BY DEF StoreInv, ClosedInv, RegisterInv, PresentedInv, ShapeInv, Saving
  <2>2. \A t \in Slots : calls'[t].kind = "login" /\ Saving(t)' =>
           calls'[t].token.login = calls'[t].upto
    BY DEF StoreInv, ClosedInv, Saving
  <2>3. \A t \in Slots : Flying(t)' => calls'[t].token.login = session'.token.login
    BY <1>1, <1>2 DEF StoreInv, ClosedInv
  <2>4. \A t \in Slots : /\ calls'[t].upto = calls[t].upto /\ calls'[t].kind = calls[t].kind
                         /\ calls'[t].generation = calls[t].generation
    OBVIOUS
  <2> QED BY <1>1, <2>1, <2>2, <2>3, <2>4 DEF StoreInv, ClosedInv
<1>9. WantedInv'
  BY <1>1 DEF StoreInv, WantedInv
<1> QED BY <1>4, <1>5, <1>6, <1>7, <1>8, <1>9 DEF StoreInv

-----------------------------------------------------------------------------
(* The steps of the controller. *)

LEMMA LoginHolds ==
  ASSUME StoreInv, RegisterInv', NEW s \in Slots, NEW actor \in Actors, Login(s, actor)
  PROVE  StoreInv'
<1> DEFINE d == [Call("login", "provider", session.generation + 1, actor, NoToken)
                   EXCEPT !.upto = logins + 1]
<1>1. /\ d.kind = "login" /\ d.phase = "provider" /\ d.upto = logins + 1 /\ d.actor = actor
      /\ d.generation = session.generation + 1
  BY DEF Call
<1> HIDE DEF d
<1>2. /\ calls' = [calls EXCEPT ![s] = d] /\ calls[s].kind = "none"
      /\ UNCHANGED <<queue, busy, store, closed>> /\ logins' = logins + 1 /\ wanted' = actor
      /\ session'.generation = session.generation + 1 /\ session'.token = NoToken
  BY DEF Login, d, Free, Anonymous
<1>3. calls'[s] = d /\ \A t \in Slots : t # s => calls'[t] = calls[t]
  BY <1>2 DEF StoreInv, RegisterInv, PresentedInv, ShapeInv
<1>4. ~Waiting(s) /\ ~Waiting(s)' /\ Owns(s)'
  BY <1>1, <1>2, <1>3 DEF Waiting, Owns, StoreInv, QueueInv
<1>5. QueueInv'
  BY <1>2, <1>3, <1>4, QueueStays DEF StoreInv, QueueInv
<1>6. logins \in Nat
  BY DEF StoreInv, RegisterInv, PresentedInv, ShapeInv
<1> QED BY <1>1, <1>2, <1>3, <1>4, <1>5, <1>6, BegunHolds

LEMMA LogoutHolds ==
  ASSUME StoreInv, RegisterInv', NEW s \in Slots, Logout(s)
  PROVE  StoreInv'
<1> DEFINE d == Call("logout", "clear", session.generation + 1, NoActor, NoToken)
<1>1. /\ d.kind = "logout" /\ d.phase = "clear" /\ d.upto = logins
      /\ d.generation = session.generation + 1
  BY DEF Call
<1> HIDE DEF d
<1>2. /\ calls' = [calls EXCEPT ![s] = d] /\ queue' = Append(queue, s)
      /\ calls[s].kind = "none"
      /\ UNCHANGED <<busy, store, closed, logins>>
      /\ session'.generation = session.generation + 1 /\ session'.token = NoToken
  BY DEF Logout, d, Free, Anonymous, Waits
<1>3. calls'[s] = d /\ \A t \in Slots : t # s => calls'[t] = calls[t]
  BY <1>2 DEF StoreInv, RegisterInv, PresentedInv, ShapeInv
<1>4. ~Waiting(s) /\ Waiting(s)' /\ Owns(s)'
  BY <1>1, <1>2, <1>3 DEF Waiting, Owns, StoreInv, QueueInv
<1>5. logins \in Nat /\ session.generation \in Nat
  BY DEF StoreInv, RegisterInv, PresentedInv, ShapeInv
<1>6. QueuedFor(calls[s])' = session.generation + 1
  BY <1>1, <1>3 DEF QueuedFor
<1>7. QueueInv'
  BY <1>1, <1>2, <1>3, <1>4, <1>5, <1>6, QueueGrows DEF StoreInv
<1> QED BY <1>1, <1>2, <1>3, <1>4, <1>5, <1>7, BegunHolds

LEMMA RefreshHolds ==
  ASSUME StoreInv, RegisterInv', NEW s \in Slots, Refresh(s)
  PROVE  StoreInv'
<1> DEFINE d == Call("refresh", "begun", session.generation, session.actor, session.token)
<1>1. /\ d.kind = "refresh" /\ d.phase = "begun" /\ d.upto = logins /\ d.token = session.token
  BY DEF Call
<1> HIDE DEF d
<1>2. /\ calls' = [calls EXCEPT ![s] = d] /\ calls[s].kind = "none" /\ session.token # NoToken
      /\ UNCHANGED <<session, queue, busy, store, closed, logins, wanted, reported>>
      /\ coordinator' = [coordinator EXCEPT !.flight = session.generation]
  BY DEF Refresh, d, Free, history
<1>3. calls'[s] = d /\ \A t \in Slots : t # s => calls'[t] = calls[t]
  BY <1>2 DEF StoreInv, RegisterInv, PresentedInv, ShapeInv
<1>4. ~Waiting(s) /\ ~Waiting(s)' /\ ~Owns(s) /\ ~Owns(s)'
  BY <1>1, <1>2, <1>3 DEF Waiting, Owns, StoreInv, QueueInv
<1>5. logins \in Nat /\ ~At(s, "restore", "answered")'
  BY <1>1, <1>3 DEF At, StoreInv, RegisterInv, PresentedInv, ShapeInv
<1>6. SessionShown
  BY <1>2 DEF SessionShown
<1> QED BY <1>1, <1>2, <1>3, <1>4, <1>5, <1>6, IdleHolds

\* A call that ends without a storage operation, its session with it or not.
LEMMA EndedHolds ==
  ASSUME StoreInv, RegisterInv', NEW s \in Slots, Ended(s), ~Waiting(s),
         UNCHANGED <<session, queue, busy, store, closed, logins, wanted>>,
         reported => reported',
         Owns(s) => queue = <<>> /\ (store = NoToken \/ reported')
  PROVE  StoreInv'
<1>1. calls'[s] = NoCall /\ \A t \in Slots : t # s => calls'[t] = calls[t]
  BY EndedCalls DEF StoreInv, RegisterInv
<1>2. /\ ~Waiting(s)' /\ calls'[s].kind = "none" /\ calls'[s].upto = 0
      /\ ~Owns(s)' /\ ~Flying(s)' /\ ~At(s, "restore", "answered")'
  BY <1>1 DEF Waiting, Owns, Flying, NoCall, At
<1>3. SessionShown
  BY DEF SessionShown
<1>4. calls'[s].upto <= logins
  BY <1>2 DEF StoreInv, RegisterInv, PresentedInv, ShapeInv
<1> QED BY <1>1, <1>2, <1>3, <1>4, IdleHolds

\* What a call keeps that only changes its phase and tokens.
Moved(s, phase, token) ==
  /\ calls'[s].kind = calls[s].kind /\ calls'[s].generation = calls[s].generation
  /\ calls'[s].actor = calls[s].actor /\ calls'[s].upto = calls[s].upto
  /\ calls'[s].phase = phase /\ calls'[s].token = token
  /\ \A t \in Slots : t # s => calls'[t] = calls[t]

LEMMA PhaseMoved ==
  ASSUME calls \in [Slots -> Calls], NEW s \in Slots, NEW phase,
         calls' = [calls EXCEPT ![s] = [calls[s] EXCEPT !.phase = phase]]
  PROVE  Moved(s, phase, calls[s].token)
<1> DEFINE d == [calls[s] EXCEPT !.phase = phase]
<1>1. calls[s] \in Calls
  OBVIOUS
<1>2. d.kind = calls[s].kind /\ d.generation = calls[s].generation
      /\ d.actor = calls[s].actor /\ d.phase = phase /\ d.token = calls[s].token
      /\ d.upto = calls[s].upto
  BY <1>1 DEF Calls
<1> HIDE DEF d
<1>3. calls' = [calls EXCEPT ![s] = d]
  BY DEF d
<1>4. calls'[s] = d /\ \A t \in Slots : t # s => calls'[t] = calls[t]
  BY <1>3
<1> QED BY <1>2, <1>4 DEF Moved

LEMMA TokenMoved ==
  ASSUME calls \in [Slots -> Calls], NEW s \in Slots, NEW phase, NEW token,
         calls' = [calls EXCEPT ![s] = [calls[s] EXCEPT !.phase = phase, !.token = token]]
  PROVE  Moved(s, phase, token)
<1> DEFINE d == [calls[s] EXCEPT !.phase = phase, !.token = token]
<1>1. calls[s] \in Calls
  OBVIOUS
<1>2. d.kind = calls[s].kind /\ d.generation = calls[s].generation
      /\ d.actor = calls[s].actor /\ d.phase = phase /\ d.token = token
      /\ d.upto = calls[s].upto
  BY <1>1 DEF Calls
<1> HIDE DEF d
<1>3. calls' = [calls EXCEPT ![s] = d]
  BY DEF d
<1>4. calls'[s] = d /\ \A t \in Slots : t # s => calls'[t] = calls[t]
  BY <1>3
<1> QED BY <1>2, <1>4 DEF Moved

\* A login or refresh that was not superseded waits to clear the store, at the
\* end of the queue: it was refused, or its tokens could not be saved.
LEMMA CleanupHolds ==
  ASSUME StoreInv, RegisterInv', NEW s \in Slots, calls[s].kind \in {"login", "refresh"},
         calls[s].phase # "clear", IsCurrent(calls[s]),
         calls' = [calls EXCEPT ![s] = [calls[s] EXCEPT !.phase = "clear"]],
         IF calls[s].kind = "login" THEN session' = Anonymous(session.generation)
         ELSE session' = Anonymous(session.generation + 1),
         \/ ~Waiting(s) /\ queue' = Append(queue, s) /\ busy' = busy
         \/ HasTurn(s) /\ queue' = Append(Dequeued(s), s) /\ busy' = NoSlot,
         UNCHANGED <<store, closed, logins, wanted>>
  PROVE  StoreInv'
<1>1. Moved(s, "clear", calls[s].token) /\ Waiting(s)'
  <2>1. Moved(s, "clear", calls[s].token)
    BY PhaseMoved DEF StoreInv, RegisterInv, PresentedInv, ShapeInv
  <2> QED BY <2>1 DEF Moved, Waiting
<1>2. /\ calls[s].generation = session.generation /\ session.generation \in Nat
      /\ calls[s] \in Calls /\ logins \in Nat
  BY CurrentIs DEF StoreInv, RegisterInv, PresentedInv, ShapeInv
<1>3. session.generation <= QueuedFor(calls[s])' /\ QueuedFor(calls[s])' \in Int
  BY <1>1, <1>2 DEF Moved, QueuedFor
<1>4. QueueInv'
  <2>1. RegisterInv /\ QueueInv /\ calls'[s].kind # "none"
        /\ \A t \in Slots : t # s => calls'[t] = calls[t]
    BY <1>1 DEF StoreInv, Moved
  <2>2. CASE ~Waiting(s) /\ queue' = Append(queue, s) /\ busy' = busy
    BY <1>1, <1>3, <2>1, <2>2, QueueGrows
  <2>3. CASE HasTurn(s) /\ queue' = Append(Dequeued(s), s) /\ busy' = NoSlot
    BY <1>1, <1>3, <2>1, <2>3, QueueRotates
  <2> QED BY <2>2, <2>3
<1>5. busy' \in {busy, NoSlot} /\ busy' # s
  <2>1. CASE ~Waiting(s) /\ busy' = busy
    BY <2>1, BusyHasTurn DEF StoreInv
  <2>2. CASE busy' = NoSlot
    BY <2>2, NoneAssumption
  <2> QED BY <2>1, <2>2
<1>6. CASE calls[s].kind = "login"
  <2>1. Owns(s) /\ session.token = NoToken
    BY <1>2, <1>6 DEF Owns, StoreInv, OwnerInv
  <2>2. SessionShown
    BY <1>6, <2>1 DEF SessionShown, Anonymous
  <2>3. ~Flying(s)' /\ ~Saving(s)'
    BY <1>1 DEF Flying, Saving, Moved
  <2> QED BY <1>1, <1>4, <1>5, <1>6, <2>1, <2>2, <2>3, QueuedHolds DEF Moved
<1>7. CASE calls[s].kind = "refresh"
  <2>1. session'.generation = session.generation + 1 /\ session'.token = NoToken
    BY <1>7 DEF Anonymous
  <2>2. Owns(s)' /\ calls'[s].phase # "save" /\ calls'[s].kind = "refresh"
    BY <1>1, <1>2, <1>7, <2>1 DEF Owns, Moved
  <2>3. calls'[s].upto <= logins' /\ calls'[s].upto \in Nat
    BY <1>1, <1>2 DEF Moved, StoreInv, ClosedInv, Calls
  <2> QED BY <1>1, <1>4, <1>5, <2>1, <2>2, <2>3, BegunHolds DEF Moved
<1> QED BY <1>6, <1>7

\* The provider has answered: the new tokens wait to be saved.
LEMMA AnsweredHolds ==
  ASSUME StoreInv, RegisterInv', NEW s \in Slots, NEW k \in Tokens,
         calls[s].kind \in {"login", "refresh"}, calls[s].phase = "provider",
         IsCurrent(calls[s]),
         calls' = [calls EXCEPT ![s] = [calls[s] EXCEPT !.phase = "save", !.token = k]],
         queue' = Append(queue, s),
         k.login = IF calls[s].kind = "login" THEN calls[s].upto ELSE calls[s].token.login,
         UNCHANGED <<session, busy, store, closed, logins, wanted>>
  PROVE  StoreInv'
<1>1. Moved(s, "save", k) /\ Waiting(s)' /\ Saving(s)' /\ ~Waiting(s)
  <2>1. Moved(s, "save", k)
    BY TokenMoved DEF StoreInv, RegisterInv, PresentedInv, ShapeInv
  <2> QED BY <2>1 DEF Moved, Waiting, Saving
<1>2. calls[s].generation = session.generation /\ session.generation \in Nat
  BY CurrentIs DEF StoreInv
<1>3. session.generation <= QueuedFor(calls[s])' /\ QueuedFor(calls[s])' \in Int
  BY <1>1, <1>2 DEF Moved, QueuedFor
<1>4. QueueInv'
  <2>1. RegisterInv /\ QueueInv /\ calls'[s].kind # "none"
        /\ \A t \in Slots : t # s => calls'[t] = calls[t]
    BY <1>1 DEF StoreInv, Moved
  <2> QED BY <1>1, <1>3, <2>1, QueueGrows
<1>5. busy # s
  BY <1>1, BusyHasTurn DEF StoreInv
<1>6. SessionShown
  BY DEF SessionShown
<1>7. CASE calls[s].kind = "login"
  <2>1. Owns(s) /\ ~Flying(s)'
    BY <1>1, <1>2, <1>7 DEF Owns, Flying, Moved
  <2> QED BY <1>1, <1>4, <1>5, <1>6, <1>7, <2>1, QueuedHolds DEF Moved
<1>8. CASE calls[s].kind = "refresh"
  <2>1. Flying(s) /\ calls[s].token.login = session.token.login
    BY <1>2, <1>8 DEF Flying, StoreInv, ClosedInv
  <2> QED BY <1>1, <1>4, <1>5, <1>6, <1>8, <2>1, QueuedHolds DEF Moved
<1> QED BY <1>7, <1>8

LEMMA SupersededHolds ==
  ASSUME StoreInv, RegisterInv', NEW s \in Slots, Ended(s), ~Waiting(s),
         calls[s].kind # "none", calls[s].kind = "restore" => session.generation # 0,
         ~IsCurrent(calls[s]),
         UNCHANGED <<session, queue, busy, store, closed, logins, wanted, reported>>
  PROVE  StoreInv'
<1>1. ~Owns(s)
  BY CurrentIs DEF Owns, Waiting, StoreInv
<1> QED BY <1>1, EndedHolds

LEMMA ProviderHolds ==
  ASSUME StoreInv, RegisterInv', NEW s \in Slots, LoginAnswered(s) \/ RefreshAnswered(s)
  PROVE  StoreInv'
<1>1. /\ calls[s].kind \in {"login", "refresh"} /\ calls[s].phase = "provider" /\ ~Waiting(s)
      /\ UNCHANGED <<busy, store, closed, logins, wanted, reported>>
  BY DEF LoginAnswered, RefreshAnswered, At, history, Waiting
<1>2. ASSUME NEW login \in Nat, Answered(s, calls[s].actor, login),
             login = IF calls[s].kind = "login" THEN calls[s].upto ELSE calls[s].token.login
      PROVE  StoreInv'
  <2>1. CASE IsCurrent(calls[s])
    <3> DEFINE k == NewToken(calls[s].actor, login)
    <3>1. k \in Tokens /\ k.login = login
      BY <1>1, <1>2, BoundsAssumption
      DEF NewToken, Tokens, Answered, MayIssue, StoreInv, RegisterInv, PresentedInv, ShapeInv,
          CallsInv
    <3>2. /\ calls' = [calls EXCEPT ![s] = [calls[s] EXCEPT !.phase = "save", !.token = k]]
          /\ queue' = Append(queue, s) /\ session' = session
      BY <1>2, <2>1 DEF Answered, Waits
    <3> HIDE DEF k
    <3> QED BY <1>1, <1>2, <2>1, <3>1, <3>2, AnsweredHolds
  <2>2. CASE ~IsCurrent(calls[s])
    <3>1. Ended(s) /\ UNCHANGED <<session, queue>>
      BY <1>2, <2>2 DEF Answered
    <3> QED BY <1>1, <2>2, <3>1, SupersededHolds
  <2> QED BY <2>1, <2>2
<1>3. ASSUME Fail(s) PROVE StoreInv'
  <2>1. CASE IsCurrent(calls[s])
    <3>1. /\ calls' = [calls EXCEPT ![s] = [calls[s] EXCEPT !.phase = "clear"]]
          /\ queue' = Append(queue, s)
          /\ IF calls[s].kind = "login" THEN session' = Anonymous(session.generation)
             ELSE session' = Anonymous(session.generation + 1)
      BY <1>3, <2>1 DEF Fail, FailLogin, FailRefresh, Waits
    <3> QED BY <1>1, <2>1, <3>1, CleanupHolds
  <2>2. CASE ~IsCurrent(calls[s])
    <3>1. Ended(s) /\ UNCHANGED <<session, queue>>
      BY <1>3, <2>2 DEF Fail, FailLogin, FailRefresh
    <3> QED BY <1>1, <2>2, <3>1, SupersededHolds
  <2> QED BY <2>1, <2>2
<1>4. /\ calls[s].upto \in Nat
      /\ calls[s].kind = "refresh" => calls[s].token.login \in Nat
  BY <1>1 DEF StoreInv, RegisterInv, PresentedInv, ShapeInv, CallsInv, Calls, Tokens
<1> QED BY <1>2, <1>3, <1>4 DEF LoginAnswered, RefreshAnswered, At

LEMMA RefreshBeginsHolds ==
  ASSUME StoreInv, RegisterInv', NEW s \in Slots, RefreshBegins(s)
  PROVE  StoreInv'
<1>1. /\ calls[s].kind = "refresh" /\ calls[s].phase = "begun" /\ ~Waiting(s)
      /\ UNCHANGED <<queue, busy, store, closed, logins, wanted, reported>>
  BY DEF RefreshBegins, At, Waiting
<1>2. CASE IsCurrent(calls[s])
  <2>1. Moved(s, "provider", calls[s].token)
    <3>1. calls' = [calls EXCEPT ![s] = [calls[s] EXCEPT !.phase = "provider"]]
      BY <1>2 DEF RefreshBegins
    <3> QED BY <3>1, PhaseMoved DEF StoreInv, RegisterInv, PresentedInv, ShapeInv
  <2>2. Flying(s) /\ session.token # NoToken /\ calls[s].token.login = session.token.login
    BY <1>1, <1>2, CurrentIs
    DEF Flying, StoreInv, RegisterInv, PresentedInv, FlightInv, ClosedInv
  <2>3. SessionShown
    BY <1>2 DEF RefreshBegins, SessionShown, StoreInv, RegisterInv, PresentedInv, ShapeInv
  <2>4. ~Owns(s) /\ ~Owns(s)' /\ ~Waiting(s)' /\ ~At(s, "restore", "answered")'
    BY <1>1, <2>1, <2>2 DEF StoreInv, OwnerInv, Moved, Owns, Waiting, At
  <2>5. calls'[s].upto <= logins /\ calls'[s].kind = "refresh"
    BY <1>1, <2>1 DEF Moved, StoreInv, ClosedInv
  <2> QED BY <1>1, <2>1, <2>2, <2>3, <2>4, <2>5, IdleHolds DEF Moved
<1>3. CASE ~IsCurrent(calls[s])
  <2>1. Ended(s) /\ session' = session
    BY <1>3 DEF RefreshBegins
  <2> QED BY <1>1, <1>3, <2>1, SupersededHolds
<1> QED BY <1>2, <1>3

\* The tokens that were just stored are published.
LEMMA SavedHolds ==
  ASSUME StoreInv, RegisterInv', NEW s \in Slots, busy = s, calls[s].phase = "save",
         IsCurrent(calls[s]), session' = Authenticated(calls[s].token, session.generation),
         Ended(s), queue' = Dequeued(s), busy' = NoSlot, store' = calls[s].token,
         UNCHANGED <<closed, logins, wanted>>
  PROVE  StoreInv'
<1> DEFINE k == calls[s].token
           g == session.generation
<1>1. HasTurn(s) /\ Waiting(s) /\ busy # NoSlot /\ Saving(s)
  BY BusyHasTurn DEF StoreInv, Saving
<1>2. calls'[s] = NoCall /\ \A t \in Slots : t # s => calls'[t] = calls[t]
  BY EndedCalls DEF StoreInv, RegisterInv
<1>3. calls[s].kind \in {"login", "refresh"} /\ calls[s].generation = g
  BY CurrentIs DEF StoreInv, RegisterInv, PresentedInv, CallsInv
<1>4. Owns(s) \/ Flying(s)
  BY <1>3 DEF Owns, Flying
<1>5. Len(queue) = 1 /\ \A t \in Slots : t # s => ~Waiting(t)
  BY <1>1, <1>4, AloneInQueue
<1>6. queue' = <<>>
  BY <1>1, <1>5, DequeuedIsTail, HeadTailProperties, EmptySeq DEF StoreInv, QueueInv, HasTurn
<1>7. k \in Tokens /\ k.login > closed
  BY <1>1 DEF StoreInv, ClosedInv, RegisterInv, PresentedInv, SerialInv
<1>8. g \in Nat \ {0}
  BY <1>3 DEF StoreInv, RegisterInv, PresentedInv, ShapeInv, FirstInv
<1>9. wanted \in {Undecided, k.actor}
  <2>1. k.actor = calls[s].actor
    BY <1>1 DEF StoreInv, RegisterInv, Work
  <2>2. CASE calls[s].kind = "login"
    BY <1>3, <2>1, <2>2 DEF StoreInv, WantedInv
  <2>3. CASE calls[s].kind = "refresh"
    <3>1. Flying(s)
      BY <1>1, <1>3, <2>3 DEF Flying, Saving
    <3>2. calls[s].actor = session.actor /\ session.token # NoToken
      BY <3>1 DEF StoreInv, RegisterInv, PresentedInv, FlightInv, Work
    <3> QED BY <2>1, <3>2 DEF StoreInv, WantedInv
  <2> QED BY <1>3, <2>2, <2>3
<1>10. session'.generation = session.generation
  BY DEF Authenticated
<1>11. \A t \in Slots : t # s => ~Owns(t)' /\ ~Flying(t)'
  <2>1. \A t \in Slots : t # s => (Owns(t)' <=> Owns(t)) /\ (Flying(t)' <=> Flying(t))
    BY <1>2, <1>10 DEF Owns, Flying
  <2> QED BY <1>4, <2>1 DEF StoreInv, OwnerInv, RegisterInv, PresentedInv, FlightInv
<1>12. session' = Authenticated(k, g) /\ store' = k
  OBVIOUS
<1> HIDE DEF k, g
<1> QED BY <1>2, <1>5, <1>6, <1>7, <1>8, <1>9, <1>11, <1>12, PublishedHolds

\* A call is over with its operation: superseded, or the store was to be cleared.
LEMMA OverHolds ==
  ASSUME StoreInv, RegisterInv', NEW s \in Slots, HasTurn(s), Ended(s),
         queue' = Dequeued(s), busy' = NoSlot, UNCHANGED <<logins, wanted>>,
         calls[s].phase = "save" => ~IsCurrent(calls[s]),
         session' = session \/ (Deciding(s) /\ session' = Anonymous(session.generation)),
         closed' = closed \/ (calls[s].kind = "logout" /\ closed' = calls[s].upto),
         store' \in Tokens => store'.login > closed',
         Owns(s) => store' = NoToken \/ reported'
  PROVE  StoreInv'
<1>1. calls'[s] = NoCall /\ \A t \in Slots : t # s => calls'[t] = calls[t]
  BY EndedCalls DEF StoreInv, RegisterInv
<1>2. Waiting(s) /\ ~(Flying(s) /\ Saving(s))
  BY TurnWaits, CurrentIs DEF StoreInv, Flying, Saving
<1>3. session.token = NoToken
  BY <1>2 DEF StoreInv, PublishedInv
<1>4. SessionShown
  BY <1>3 DEF SessionShown, Anonymous
<1> QED BY <1>1, <1>3, <1>4, GoneHolds

LEMMA StorageHolds ==
  ASSUME StoreInv, RegisterInv', NEW s \in Slots, Storage(s)
  PROVE  StoreInv'
<1>1. store \in Tokens => store.login > closed
  BY DEF StoreInv, ClosedInv
<1>2. \A phase \in {"save", "clear"} : calls[s].phase = phase =>
        (Owns(s) => QueuedFor(calls[s]) = session.generation)
  BY CurrentIs DEF Owns, QueuedFor, StoreInv, RegisterInv, PresentedInv, CallsInv
<1>3. calls[s].phase = "save" => QueuedFor(calls[s]) = calls[s].generation
  BY DEF QueuedFor
<1>4. ASSUME Waiting(s), calls[s].phase = "save", ~IsCurrent(calls[s]) PROVE ~Owns(s)
  BY <1>4, CurrentIs
  DEF Owns, StoreInv, RegisterInv, PresentedInv, CallsInv
<1>5. CASE StorageSkips(s)
  <2>1. /\ HasTurn(s) /\ Waiting(s) /\ busy' = NoSlot
        /\ UNCHANGED <<logins, wanted, closed, store, reported>> /\ Resume(s, TRUE)
        /\ calls[s].kind # "logout" /\ QueuedFor(calls[s]) # session.generation
    BY <1>5, TurnWaits DEF StorageSkips, StillWanted, history, StoreInv
  <2>2. ~Owns(s) /\ (calls[s].phase = "save" => ~IsCurrent(calls[s]))
    BY <1>2, <1>3, <2>1, CurrentIs DEF Waiting, StoreInv
  <2>3. Ended(s) /\ queue' = Dequeued(s) /\ session' = session
    BY <2>1, <2>2 DEF Resume, MayPublish
  <2> QED BY <1>1, <2>1, <2>2, <2>3, OverHolds
<1>6. CASE StorageBegins(s)
  <2>1. /\ HasTurn(s) /\ Waiting(s) /\ busy' = s /\ StillWanted(calls[s])
        /\ UNCHANGED <<session, calls, queue, store, history>>
    BY <1>6, TurnWaits DEF StorageBegins, StoreInv
  <2>2. QueueInv'
    BY <2>1, QueueStays DEF StoreInv, HasTurn
  <2>3. OwnerInv' /\ PublishedInv' /\ RestoreInv' /\ LeftInv'
    BY <2>1 DEF StoreInv, OwnerInv, Owns, PublishedInv, Waiting, Flying, Saving, RestoreInv,
                At, LeftInv, history
  <2>4. Saving(s) => calls[s].token.login > closed
    <3> SUFFICES ASSUME Saving(s) PROVE calls[s].token.login > closed
      OBVIOUS
    <3>1. calls[s].kind \in {"login", "refresh"} /\ calls[s].generation = session.generation
      BY <1>3, <2>1 DEF Saving, StillWanted, StoreInv, RegisterInv, PresentedInv, CallsInv
    <3>2. CASE calls[s].kind = "login"
      BY <3>1, <3>2 DEF StoreInv, ClosedInv
    <3>3. CASE calls[s].kind = "refresh"
      <4>1. Flying(s)
        BY <3>1, <3>3 DEF Flying, Saving
      <4> QED BY <4>1 DEF StoreInv, ClosedInv, RegisterInv, PresentedInv, FlightInv
    <3> QED BY <3>1, <3>2, <3>3
  <2>5. ClosedInv' /\ WantedInv'
    BY <2>1, <2>4 DEF StoreInv, ClosedInv, WantedInv, Saving, Flying, history
  <2> QED BY <2>2, <2>3, <2>5 DEF StoreInv
<1>7. CASE StorageDone(s)
  <2>1. /\ HasTurn(s) /\ Waiting(s) /\ busy' = NoSlot /\ busy = s /\ busy # NoSlot
        /\ UNCHANGED <<logins, wanted>> /\ Resume(s, TRUE) /\ store' = Written(calls[s])
        /\ closed' = IF calls[s].kind = "logout" THEN calls[s].upto ELSE closed
    BY <1>7, BusyHasTurn DEF StorageDone, StoreInv
  <2>2. calls[s].phase = "save" => calls[s].kind \in {"login", "refresh"}
    BY DEF StoreInv, RegisterInv, PresentedInv, CallsInv
  <2>3. CASE /\ calls[s].phase = "save" /\ MayPublish(calls[s])
             /\ session' = Authenticated(calls[s].token, session.generation)
             /\ Ended(s) /\ queue' = Dequeued(s)
    BY <2>1, <2>2, <2>3, SavedHolds DEF Written, MayPublish
  <2>4. CASE /\ calls[s].phase = "save" /\ ~MayPublish(calls[s])
             /\ session' = session /\ Ended(s) /\ queue' = Dequeued(s)
    <3>1. ~IsCurrent(calls[s])
      BY <2>2, <2>4, CurrentIs
      DEF MayPublish, Flying, StoreInv, RegisterInv, PresentedInv, FlightInv
    <3>2. store'.login > closed' /\ closed' = closed
      BY <2>1, <2>2, <2>4 DEF Written, StoreInv, ClosedInv, Saving
    <3> QED BY <1>4, <2>1, <2>4, <3>1, <3>2, OverHolds
  <2>5. CASE /\ calls[s].phase = "clear" /\ Ended(s) /\ queue' = Dequeued(s)
             /\ session' = session \/ (Deciding(s) /\ session' = Anonymous(session.generation))
    <3>1. store' = NoToken /\ store' \notin Tokens
      BY <2>1, <2>5, TokenAssumption DEF Written
    <3> QED BY <2>1, <2>5, <3>1, OverHolds
  <2> QED BY <2>1, <2>3, <2>4, <2>5, CurrentIs DEF Resume, LogoutSettles, Deciding, StoreInv
<1>8. CASE StorageFails(s)
  <2>1. /\ HasTurn(s) /\ Waiting(s) /\ busy' = NoSlot /\ busy = s
        /\ UNCHANGED <<logins, wanted, closed, store>> /\ reported'
    BY <1>8, BusyHasTurn DEF StorageFails, StoreInv
  <2>2. CASE /\ calls[s].phase = "clear" /\ Ended(s) /\ queue' = Dequeued(s)
             /\ session' = session \/ (Deciding(s) /\ session' = Anonymous(session.generation))
    BY <1>1, <2>1, <2>2, OverHolds
  <2>3. CASE /\ calls[s].phase = "save" /\ IsCurrent(calls[s])
             /\ calls' = [calls EXCEPT ![s] = [calls[s] EXCEPT !.phase = "clear"]]
             /\ queue' = Append(Dequeued(s), s)
             /\ IF calls[s].kind = "login" THEN session' = Anonymous(session.generation)
                ELSE session' = Anonymous(session.generation + 1)
    <3>1. calls[s].kind \in {"login", "refresh"}
      BY <2>3 DEF StoreInv, RegisterInv, PresentedInv, CallsInv
    <3> QED BY <2>1, <2>3, <3>1, CleanupHolds
  <2>4. CASE calls[s].phase = "save" /\ ~IsCurrent(calls[s]) /\ Ended(s)
             /\ queue' = Dequeued(s) /\ session' = session
    BY <1>1, <1>4, <2>1, <2>4, OverHolds
  <2>5. CASE calls[s].phase = "clear" /\ Resume(s, FALSE)
    BY <2>1, <2>2, <2>5, CurrentIs DEF Resume, LogoutSettles, Deciding, StoreInv
  <2> QED BY <1>8, <2>3, <2>4, <2>5 DEF StorageFails
<1> QED BY <1>5, <1>6, <1>7, <1>8 DEF Storage

\* Before anybody has decided, the restore is the only call.
LEMMA RestoringAlone ==
  ASSUME StoreInv, NEW s \in Slots, calls[s].kind = "restore", ~Waiting(s),
         session.generation = 0
  PROVE  /\ IsCurrent(calls[s]) /\ Owns(s) /\ queue = <<>> /\ busy = NoSlot
         /\ \A t \in Slots : t # s => calls[t].kind = "none" /\ ~Waiting(t)
<1>1. IsCurrent(calls[s]) /\ Owns(s)
  BY CurrentIs DEF StoreInv, RegisterInv, PresentedInv, CallsInv, Owns
<1>2. \A t \in Slots : t # s => calls[t].kind = "none"
  BY <1>1 DEF StoreInv, OwnerInv, Owns, RegisterInv, PresentedInv, FirstInv
<1>3. \A t \in Slots : ~Waiting(t)
  BY <1>2 DEF StoreInv, QueueInv
<1>4. queue = <<>>
  BY <1>3, EmptySeq DEF StoreInv, QueueInv
<1> QED BY <1>1, <1>2, <1>3, <1>4 DEF StoreInv, QueueInv

LEMMA RestoreHolds ==
  ASSUME StoreInv, RegisterInv', NEW s \in Slots,
         RestoreReads(s) \/ RestoreFails(s) \/ RestoreResumes(s)
  PROVE  StoreInv'
<1>1. /\ calls[s] \in Calls /\ calls[s].kind = "restore" /\ ~Waiting(s) /\ ~Flying(s)
      /\ UNCHANGED <<busy, store, logins, wanted, closed>>
      /\ session.generation \in Nat
  BY CurrentIs
  DEF RestoreReads, RestoreFails, RestoreResumes, At, Flying, Waiting, history, StoreInv
<1>2. Owns(s) <=> session.generation = 0
  BY <1>1, CurrentIs DEF Owns
<1>3. IsCurrent(calls[s]) <=> session.generation = 0
  BY <1>1, CurrentIs DEF StoreInv, RegisterInv, PresentedInv, CallsInv
<1>4. CASE RestoreReads(s)
  <2>1. Moved(s, "answered", store) /\ UNCHANGED <<session, queue, reported>>
    <3>1. calls' = [calls EXCEPT ![s] = [calls[s] EXCEPT !.phase = "answered", !.token = store]]
      BY <1>4 DEF RestoreReads
    <3>2. UNCHANGED <<session, queue, reported>>
      BY <1>4 DEF RestoreReads, history
    <3> QED BY <3>1, <3>2, TokenMoved DEF StoreInv, RegisterInv, PresentedInv, ShapeInv
  <2>2. ~Waiting(s)' /\ ~Flying(s)' /\ (Owns(s)' <=> Owns(s)) /\ SessionShown
    BY <1>1, <2>1 DEF Moved, Waiting, Flying, Owns, SessionShown
  <2>3. calls'[s].upto <= logins /\ calls'[s].kind = "restore" /\ calls'[s].token = store
    BY <1>1, <2>1 DEF Moved, StoreInv, ClosedInv
  <2> QED BY <1>1, <2>1, <2>2, <2>3, IdleHolds DEF Moved
<1>5. CASE RestoreFails(s)
  <2>1. Ended(s) /\ UNCHANGED <<session, queue>> /\ (reported' = (reported \/ IsCurrent(calls[s])))
    BY <1>5 DEF RestoreFails
  <2>2. Owns(s) => queue = <<>> /\ IsCurrent(calls[s])
    BY <1>1, <1>2, RestoringAlone
  <2> QED BY <1>1, <2>1, <2>2, EndedHolds
<1>6. CASE /\ ~IsCurrent(calls[s]) \/ calls[s].token = NoToken
           /\ At(s, "restore", "answered")
           /\ Ended(s) /\ UNCHANGED <<session, queue, reported>>
  <2>1. Owns(s) => queue = <<>> /\ store = NoToken
    BY <1>1, <1>2, <1>3, <1>6, RestoringAlone DEF StoreInv, RestoreInv
  <2> QED BY <1>1, <1>6, <2>1, EndedHolds
<1>7. CASE /\ IsCurrent(calls[s]) /\ queue' = Append(queue, s)
           /\ calls' = [calls EXCEPT ![s] = [calls[s] EXCEPT !.phase = "clear"]]
           /\ UNCHANGED <<session, reported>>
  <2>1. Moved(s, "clear", calls[s].token)
    BY <1>7, PhaseMoved DEF StoreInv, RegisterInv, PresentedInv, ShapeInv
  <2>2. Waiting(s)' /\ ~Saving(s)' /\ calls'[s].kind = "restore" /\ ~Flying(s)' /\ SessionShown
    BY <1>1, <1>7, <2>1 DEF Moved, Waiting, Saving, Flying, SessionShown
  <2>3. calls[s].generation = session.generation /\ QueuedFor(calls[s])' = calls[s].generation
    BY <1>1, <1>7, <2>1, CurrentIs DEF QueuedFor, Moved, StoreInv
  <2>4. QueueInv' /\ busy # s
    <3>1. RegisterInv /\ QueueInv /\ \A t \in Slots : t # s => calls'[t] = calls[t]
      BY <2>1 DEF StoreInv, Moved
    <3> QED BY <1>1, <1>7, <2>2, <2>3, <3>1, QueueGrows, BusyHasTurn
  <2>5. Owns(s)
    BY <1>2, <1>3, <1>7
  <2> QED BY <1>1, <1>7, <2>1, <2>2, <2>4, <2>5, QueuedHolds DEF Moved
<1>8. CASE /\ IsCurrent(calls[s]) /\ Usable(calls[s].token) /\ Ended(s) /\ queue' = queue
           /\ At(s, "restore", "answered")
           /\ session' = Authenticated(calls[s].token, session.generation + 1)
  <2> DEFINE k == calls[s].token
             g == session.generation + 1
  <2>1. /\ session.generation = 0 /\ queue' = <<>> /\ busy' = NoSlot
        /\ \A t \in Slots : t # s => calls[t].kind = "none" /\ ~Waiting(t)
    BY <1>1, <1>3, <1>8, RestoringAlone
  <2>2. k \in Tokens /\ store' = k /\ wanted = Undecided
    BY <1>1, <1>8, <2>1 DEF Calls, Usable, StoreInv, RestoreInv
  <2>3. k.login > closed
    BY <1>1, <2>2 DEF StoreInv, ClosedInv
  <2>4. calls'[s] = NoCall /\ \A t \in Slots : t # s => calls'[t] = calls[t]
    BY <1>8, EndedCalls DEF StoreInv, RegisterInv
  <2>5. \A t \in Slots : t # s => ~Owns(t)' /\ ~Flying(t)'
    BY <2>1, <2>4 DEF Owns, Flying
  <2>6. g \in Nat \ {0} /\ session' = Authenticated(k, g)
    BY <1>8, <2>1
  <2> HIDE DEF k, g
  <2> QED BY <1>1, <2>1, <2>2, <2>3, <2>4, <2>5, <2>6, PublishedHolds
<1> QED BY <1>4, <1>5, <1>6, <1>7, <1>8 DEF RestoreResumes, Waits, history

LEMMA ClockHolds == ASSUME StoreInv, RegisterInv', Clock PROVE StoreInv'
<1>1. /\ session'.generation = session.generation /\ session'.token = session.token
      /\ session'.actor = session.actor
      /\ UNCHANGED <<calls, queue, busy, store, logins, closed, wanted, reported>>
  BY DEF Clock, Observe, Lapse, memory, history, StoreInv, RegisterInv, PresentedInv, ShapeInv
<1>2. QueueInv'
  BY <1>1 DEF StoreInv, QueueInv, Waiting
<1>3. OwnerInv' /\ PublishedInv' /\ RestoreInv' /\ LeftInv'
  BY <1>1 DEF StoreInv, OwnerInv, Owns, PublishedInv, Waiting, Flying, Saving, RestoreInv,
              At, LeftInv
<1>4. ClosedInv' /\ WantedInv'
  BY <1>1 DEF StoreInv, ClosedInv, WantedInv, Saving, Flying
<1> QED BY <1>2, <1>3, <1>4 DEF StoreInv

\* A run starts: nothing stored is of a login that was closed.
Clean ==
  /\ Fresh /\ queue = <<>> /\ wanted = Undecided
  /\ closed \in Nat /\ closed <= logins /\ (store \in Tokens => store.login > closed)

LEMMA CleanHolds == Clean => StoreInv
<1> SUFFICES ASSUME Clean PROVE StoreInv
  OBVIOUS
<1> DEFINE r == [NoCall EXCEPT !.kind = "restore", !.phase = "read"]
<1>1. RegisterInv
  BY FreshSeen DEF Clean
<1>2. /\ session.generation = 0 /\ session.token = NoToken /\ busy = NoSlot
      /\ logins \in Nat
  BY DEF Clean, Fresh, Anonymous
<1>3. NoCall.kind = "none" /\ NoCall.phase = "none" /\ NoCall.upto = 0
  BY DEF NoCall
<1>4. r.kind = "restore" /\ r.phase = "read" /\ r.upto = 0
  BY DEF NoCall
<1> HIDE DEF r
<1>5. PICK s \in Slots : calls = [t \in Slots |-> IF t = s THEN r ELSE NoCall]
  BY DEF Clean, Fresh, Starting, r
<1>6. /\ calls[s].kind = "restore" /\ calls[s].phase = "read"
      /\ \A t \in Slots : t # s => calls[t].kind = "none"
      /\ \A t \in Slots : calls[t].upto = 0 /\ ~Waiting(t) /\ ~Flying(t) /\ ~Saving(t)
  BY <1>3, <1>4, <1>5 DEF Waiting, Flying, Saving
<1>7. QueueInv
  BY <1>2, <1>6, EmptySeq DEF QueueInv, Clean
<1>8. Owns(s) /\ \A t \in Slots : Owns(t) => t = s
  BY <1>2, <1>6 DEF Owns
<1>9. OwnerInv /\ PublishedInv /\ RestoreInv /\ LeftInv
  BY <1>2, <1>6, <1>8 DEF OwnerInv, PublishedInv, RestoreInv, LeftInv, At, Clean
<1>10. ClosedInv /\ WantedInv
  BY <1>2, <1>6 DEF ClosedInv, WantedInv, Clean
<1> QED BY <1>1, <1>7, <1>9, <1>10 DEF StoreInv

LEMMA CleanHoldsNext == Clean' => StoreInv'
  BY CleanHolds, PTL

LEMMA InitClean == Init => Clean
  BY InitFresh, TokenAssumption DEF Init, Started, Clean

LEMMA RestartClean ==
  ASSUME StoreInv, NEW s \in Slots, Restart(s)
  PROVE  Clean'
<1>1. Fresh'
  BY RestartFresh DEF StoreInv, RegisterInv
<1>2. store' = store \/ store' = NoToken
      \/ (busy # NoSlot /\ Saving(busy) /\ store' = calls[busy].token)
  BY DEF Restart, Written, Saving
<1>3. store' \in Tokens => store'.login > closed
  BY <1>2, TokenAssumption DEF StoreInv, ClosedInv
<1> QED BY <1>1, <1>3 DEF Restart, Clean, StoreInv, ClosedInv

LEMMA StoreInvNext == StoreInv /\ [Next]_vars => StoreInv'
<1> SUFFICES ASSUME StoreInv, [Next]_vars PROVE StoreInv'
  OBVIOUS
<1>1. RegisterInv'
  BY RegisterInvNext DEF StoreInv
<1>2. CASE Clock
  BY <1>1, <1>2, ClockHolds
<1>3. ASSUME NEW s \in Slots, Decide(s) PROVE StoreInv'
  BY <1>1, <1>3, LoginHolds, LogoutHolds, RefreshHolds DEF Decide
<1>4. ASSUME NEW s \in Slots, Storage(s) PROVE StoreInv'
  BY <1>1, <1>4, StorageHolds
<1>5. ASSUME NEW s \in Slots, Settle(s) PROVE StoreInv'
  BY <1>1, <1>5, ProviderHolds, RefreshBeginsHolds, RestoreHolds DEF Settle
<1>6. ASSUME NEW s \in Slots, Restart(s) PROVE StoreInv'
  BY <1>6, RestartClean, CleanHoldsNext
<1>7. CASE UNCHANGED vars
  <2>1. UNCHANGED <<session, calls, queue, busy, store, logins, closed, wanted, reported>>
    BY <1>7 DEF vars, memory, history
  <2>2. QueueInv'
    BY <2>1 DEF StoreInv, QueueInv, Waiting
  <2>3. OwnerInv' /\ PublishedInv' /\ RestoreInv' /\ LeftInv'
    BY <2>1 DEF StoreInv, OwnerInv, Owns, PublishedInv, Waiting, Flying, Saving, RestoreInv,
                At, LeftInv
  <2>4. ClosedInv' /\ WantedInv'
    BY <2>1 DEF StoreInv, ClosedInv, WantedInv, Saving, Flying
  <2> QED BY <1>1, <2>2, <2>3, <2>4 DEF StoreInv
<1> QED BY <1>2, <1>3, <1>4, <1>5, <1>6, <1>7 DEF Next

-----------------------------------------------------------------------------
(* The variables the invariant above does not type. *)

PlainInv ==
  /\ SessionType
  /\ coordinator.flight \in {NoGeneration, session.generation}
  /\ promise <= session.generation
  /\ lapsed \subseteq 1..issued /\ epoch \in Nat /\ reported \in BOOLEAN
  /\ wanted \in Actors \union {NoActor, Undecided}

\* What becomes of the session and the coordinator in a step.
SessionMoves ==
  \/ UNCHANGED <<session, coordinator>>
  \/ /\ UNCHANGED coordinator
     /\ \/ session' = Anonymous(session.generation)
        \/ \E state \in States : session' = [session EXCEPT !.state = state]
  \/ \E g \in {session.generation, session.generation + 1} :
       /\ coordinator' = Replaced(g)
       /\ \/ \E state \in States : session' = [Anonymous(g) EXCEPT !.state = state]
          \/ \E k \in Tokens : session' = Authenticated(k, g)

LEMMA PlainMoves ==
  ASSUME PlainInv, RegisterInv, SessionMoves, promise' \in {promise, NoGeneration},
         issued \in Nat, issued' \in Nat, issued <= issued',
         lapsed' = lapsed \/ lapsed' \subseteq 1..issued, epoch' = epoch,
         reported' \in BOOLEAN, wanted' \in Actors \union {NoActor, Undecided}
  PROVE  PlainInv'
<1>1. /\ session \in [state : States, actor : Actors \union {NoActor},
                      token : Tokens \union {NoToken}, generation : Nat]
      /\ coordinator \in [generation : Nat, flight : Nat \union {NoGeneration}]
      /\ promise \in Nat \union {NoGeneration} /\ NoGeneration \in Int
      /\ coordinator.generation = session.generation
  BY DEF PlainInv, SessionType, RegisterInv, PresentedInv, ShapeInv, NoGeneration
<1>2. /\ session' \in [state : States, actor : Actors \union {NoActor},
                       token : Tokens \union {NoToken}, generation : Nat]
      /\ coordinator' \in [generation : Nat, flight : Nat \union {NoGeneration}]
      /\ session.generation <= session'.generation
      /\ coordinator'.flight \in {NoGeneration, session'.generation}
  <2>1. CASE UNCHANGED <<session, coordinator>>
    BY <1>1, <2>1 DEF PlainInv
  <2>2. CASE session' = Anonymous(session.generation) /\ UNCHANGED coordinator
    BY <1>1, <2>2 DEF PlainInv, Anonymous, States
  <2>3. ASSUME NEW state \in States, session' = [session EXCEPT !.state = state],
               UNCHANGED coordinator
        PROVE  <1>2!1 /\ <1>2!2 /\ <1>2!3 /\ <1>2!4
    BY <1>1, <2>3 DEF PlainInv
  <2>4. ASSUME NEW g \in {session.generation, session.generation + 1},
               coordinator' = Replaced(g), NEW state \in States,
               session' = [Anonymous(g) EXCEPT !.state = state]
        PROVE  <1>2!1 /\ <1>2!2 /\ <1>2!3 /\ <1>2!4
    BY <1>1, <2>4 DEF Anonymous, Replaced, States
  <2>5. ASSUME NEW g \in {session.generation, session.generation + 1},
               coordinator' = Replaced(g), NEW k \in Tokens, session' = Authenticated(k, g)
        PROVE  <1>2!1 /\ <1>2!2 /\ <1>2!3 /\ <1>2!4
    BY <1>1, <2>5 DEF Authenticated, Replaced, Tokens, States
  <2> QED BY <2>1, <2>2, <2>3, <2>4, <2>5 DEF SessionMoves
<1>3. promise' \in Nat \union {NoGeneration} /\ promise' <= session'.generation
  BY <1>1, <1>2 DEF PlainInv, NoGeneration
<1>4. lapsed' \subseteq 1..issued'
  <2>1. lapsed' \subseteq 1..issued
    BY DEF PlainInv
  <2>2. \A n \in 1..issued : n \in 1..issued'
    OBVIOUS
  <2> QED BY <2>1, <2>2
<1> QED BY <1>2, <1>3, <1>4 DEF PlainInv, SessionType

LEMMA ResumeMoves ==
  ASSUME StoreInv, NEW s \in Slots, NEW done \in BOOLEAN, Resume(s, done)
  PROVE  SessionMoves /\ promise' \in {promise, NoGeneration}
<1>1. CASE /\ calls[s].phase = "save" /\ MayPublish(calls[s])
           /\ session' = Authenticated(calls[s].token, session.generation)
           /\ coordinator' = Replaced(calls[s].generation)
  <2>1. calls[s].token \in Tokens /\ calls[s].generation = session.generation
    BY <1>1, CurrentIs
    DEF MayPublish, StoreInv, RegisterInv, PresentedInv, SerialInv, Saving
  <2> QED BY <1>1, <2>1 DEF SessionMoves, Resume, Ended, PromiseAfter
<1>2. CASE UNCHANGED <<session, coordinator>>
  BY <1>2 DEF SessionMoves, Resume, Ended, PromiseAfter
<1>3. CASE session' = Anonymous(session.generation) /\ UNCHANGED coordinator
  BY <1>3 DEF SessionMoves, Resume, Ended, PromiseAfter
<1> QED BY <1>1, <1>2, <1>3 DEF Resume

LEMMA PlainInvNext ==
  ASSUME StoreInv, StoreInv', PlainInv, [Next]_vars
  PROVE  PlainInv'
<1>1. /\ issued \in Nat /\ session.generation \in Nat
      /\ RegisterInv /\ session.token \in Tokens \union {NoToken}
      /\ coordinator.generation = session.generation
      /\ DOMAIN coordinator = {"generation", "flight"}
      /\ \A s \in Slots : calls[s] \in Calls
  BY DEF StoreInv, RegisterInv, PresentedInv, ShapeInv
<1>2. /\ reported \in BOOLEAN /\ wanted \in Actors \union {NoActor, Undecided}
      /\ promise <= session.generation /\ epoch \in Nat
  BY DEF PlainInv
<1>3. CASE Clock
  <2>1. CASE Observe
    <3>1. SessionMoves
      BY <2>1 DEF Observe, SessionMoves, States
    <3> QED BY <1>1, <1>2, <2>1, <3>1, PlainMoves DEF Observe, history
  <2>2. ASSUME NEW n \in 1..MaxTokens, Lapse(n) PROVE PlainInv'
    <3>1. SessionMoves
      BY <2>2 DEF Lapse, SessionMoves, memory
    <3>2. lapsed' \subseteq 1..issued
      BY <2>2 DEF Lapse, PlainInv
    <3> QED BY <1>1, <1>2, <2>2, <3>1, <3>2, PlainMoves DEF Lapse, memory, history
  <2> QED BY <1>3, <2>1, <2>2 DEF Clock
<1>4. ASSUME NEW s \in Slots, Decide(s) PROVE PlainInv'
  <2>1. ASSUME NEW actor \in Actors, Login(s, actor) PROVE PlainInv'
    <3>1. SessionMoves /\ promise' = NoGeneration /\ wanted' = actor
          /\ UNCHANGED <<issued, lapsed, epoch, reported>>
      BY <2>1 DEF Login, SessionMoves, States
    <3> QED BY <1>1, <1>2, <3>1, PlainMoves
  <2>2. CASE Logout(s)
    <3>1. SessionMoves /\ promise' = NoGeneration /\ wanted' = NoActor
          /\ UNCHANGED <<issued, lapsed, epoch, reported>>
      BY <2>2 DEF Logout, SessionMoves, States
    <3> QED BY <1>1, <1>2, <3>1, PlainMoves
  <2>3. CASE Refresh(s)
    <3>1. /\ UNCHANGED <<session, lapsed, issued, epoch, reported, wanted>>
          /\ promise' = session.generation
          /\ coordinator' = [coordinator EXCEPT !.flight = session.generation]
      BY <2>3 DEF Refresh, history
    <3>2. SessionType'
      BY <1>1, <3>1 DEF PlainInv, SessionType
    <3> QED BY <1>1, <3>1, <3>2 DEF PlainInv, SessionType
  <2> QED BY <1>4, <2>1, <2>2, <2>3 DEF Decide
<1>5. ASSUME NEW s \in Slots, Storage(s) PROVE PlainInv'
  <2>1. /\ UNCHANGED <<issued, lapsed, epoch, wanted>> /\ reported' \in BOOLEAN
    BY <1>2, <1>5 DEF Storage, StorageSkips, StorageBegins, StorageDone, StorageFails, history
  <2>2. SessionMoves /\ promise' \in {promise, NoGeneration}
    <3>1. CASE \E done \in BOOLEAN : Resume(s, done)
      BY <3>1, ResumeMoves
    <3>2. CASE StorageBegins(s)
      BY <3>2 DEF StorageBegins, SessionMoves
    <3>3. CASE StorageFails(s) /\ calls[s].phase = "save"
      <4>1. Anonymous(session.generation + 1)
              = [Anonymous(session.generation + 1) EXCEPT !.state = "anonymous"]
        BY DEF Anonymous
      <4> QED BY <3>3, <4>1 DEF StorageFails, Resume, Ended, PromiseAfter, SessionMoves, States
    <3> QED BY <1>5, <3>1, <3>2, <3>3 DEF Storage, StorageSkips, StorageDone, StorageFails
  <2> QED BY <1>1, <1>2, <2>1, <2>2, PlainMoves
<1>6. ASSUME NEW s \in Slots, Settle(s) PROVE PlainInv'
  <2>1. CASE LoginAnswered(s) \/ RefreshAnswered(s)
    <3>1. /\ UNCHANGED <<lapsed, epoch, wanted, reported>>
          /\ issued' = issued \/ issued' = issued + 1
      BY <2>1 DEF LoginAnswered, RefreshAnswered, Answered, history
    <3>2. Anonymous(session.generation + 1)
            = [Anonymous(session.generation + 1) EXCEPT !.state = "anonymous"]
      BY DEF Anonymous
    <3>3. SessionMoves /\ promise' \in {promise, NoGeneration}
      BY <2>1, <3>2 DEF LoginAnswered, RefreshAnswered, Answered, Fail, FailLogin, FailRefresh,
                        Ended, PromiseAfter, SessionMoves, States
    <3> QED BY <1>1, <1>2, <3>1, <3>3, PlainMoves
  <2>2. CASE RefreshBegins(s)
    <3>1. SessionMoves /\ promise' \in {promise, NoGeneration}
          /\ UNCHANGED <<issued, lapsed, epoch, wanted, reported>>
      BY <2>2 DEF RefreshBegins, Ended, PromiseAfter, SessionMoves, States
    <3> QED BY <1>1, <1>2, <3>1, PlainMoves
  <2>3. CASE RestoreReads(s) \/ RestoreFails(s)
    <3>1. SessionMoves /\ promise' \in {promise, NoGeneration}
          /\ UNCHANGED <<issued, lapsed, epoch, wanted>> /\ reported' \in BOOLEAN
      BY <1>2, <2>3 DEF RestoreReads, RestoreFails, Ended, PromiseAfter, SessionMoves, history
    <3> QED BY <1>1, <1>2, <3>1, PlainMoves
  <2>4. CASE RestoreResumes(s)
    <3>1. Usable(calls[s].token) => calls[s].token \in Tokens
      BY <1>1 DEF Usable, Calls
    <3>2. SessionMoves /\ promise' \in {promise, NoGeneration}
          /\ UNCHANGED <<issued, lapsed, epoch, wanted, reported>>
      BY <2>4, <3>1 DEF RestoreResumes, Ended, PromiseAfter, SessionMoves, history
    <3> QED BY <1>1, <1>2, <3>2, PlainMoves
  <2> QED BY <1>6, <2>1, <2>2, <2>3, <2>4 DEF Settle
<1>7. ASSUME NEW s \in Slots, Restart(s) PROVE PlainInv'
  <2>1. SessionType' /\ promise' <= session'.generation
        /\ coordinator'.flight = NoGeneration /\ wanted' = Undecided
    BY <1>7 DEF Restart, SessionType, Anonymous, Replaced, States, NoGeneration
  <2> QED BY <1>7, <2>1 DEF PlainInv, Restart
<1>8. CASE UNCHANGED vars
  BY <1>8 DEF vars, memory, history, PlainInv, SessionType
<1> QED BY <1>3, <1>4, <1>5, <1>6, <1>7, <1>8 DEF Next

LEMMA PlainInvInit == Init => PlainInv
<1> SUFFICES ASSUME Init PROVE PlainInv
  OBVIOUS
<1>1. /\ session = Anonymous(0) /\ coordinator = Replaced(0) /\ promise = NoGeneration
      /\ wanted = Undecided /\ lapsed = {} /\ epoch = 0 /\ reported = FALSE
  BY DEF Init, Started
<1>2. SessionType /\ promise <= session.generation /\ coordinator.flight = NoGeneration
  BY <1>1 DEF Anonymous, Replaced, SessionType, States, NoGeneration
<1> QED BY <1>1, <1>2 DEF PlainInv

LEMMA StoreTypes == StoreInv /\ PlainInv => TypeOK
<1> SUFFICES ASSUME StoreInv, PlainInv PROVE TypeOK
  OBVIOUS
<1>1. SessionType
  BY DEF PlainInv
<1>2. CallsType
  BY DEF StoreInv, RegisterInv, PresentedInv, ShapeInv, QueueInv, CallsType
<1>3. StoreType
  BY BoundsAssumption DEF StoreInv, RegisterInv, PresentedInv, ShapeInv, PlainInv, StoreType
<1>4. HistoryType
  BY DEF StoreInv, RegisterInv, PresentedInv, ShapeInv, ClosedInv, PlainInv, HistoryType
<1> QED BY <1>1, <1>2, <1>3, <1>4 DEF TypeOK

LEMMA BothAlways == Spec => [](StoreInv /\ PlainInv)
<1>1. Init => StoreInv /\ PlainInv
  BY InitClean, CleanHolds, PlainInvInit
<1>2. StoreInv /\ PlainInv /\ [Next]_vars => (StoreInv /\ PlainInv)'
  BY StoreInvNext, PlainInvNext
<1> QED BY <1>1, <1>2, PTL DEF Spec

\* Controller, coordinator and secure store agree in every state: tokens are
\* published exactly while the store holds them, whatever older calls wait in
\* the storage queue, and every variable has its type.
THEOREM SessionIsCoherent == Spec => []Coherent
<1>1. StoreInv /\ PlainInv => Coherent
  <2> SUFFICES ASSUME StoreInv, PlainInv PROVE Coherent
    OBVIOUS
  <2>1. TypeOK
    BY StoreTypes
  <2>2. session.token # NoToken <=> Published
    BY DEF StoreInv, RegisterInv, ViewInv
  <2>3. session.token # NoToken <=> session.actor # NoActor
    BY NoneAssumption DEF StoreInv, RegisterInv, ViewInv, PresentedInv, ShapeInv
  <2>4. Published => store = session.token
    BY <2>2 DEF StoreInv, PublishedInv
  <2>5. coordinator.generation = session.generation
    BY DEF StoreInv, RegisterInv, PresentedInv, ShapeInv
  <2>6. coordinator.flight \in {NoGeneration, session.generation}
        /\ promise <= session.generation
    BY DEF PlainInv
  <2> QED BY <2>1, <2>2, <2>3, <2>4, <2>5, <2>6 DEF Coherent
<1> QED BY <1>1, BothAlways, PTL

\* The account shown is the one of the last decision, with its own tokens, and
\* a login that a completed logout closed is neither shown nor stored again:
\* not by an answer, a save or a restore on its way, nor by a later start.
THEOREM LatestDecisionIsKept == Spec => []LatestDecisionWins
<1>1. StoreInv => LatestDecisionWins
  <2> SUFFICES ASSUME StoreInv PROVE LatestDecisionWins
    OBVIOUS
  <2>1. /\ session.token # NoToken <=> Published
        /\ session.token # NoToken => session.actor = session.token.actor
    BY DEF StoreInv, RegisterInv, ViewInv
  <2>2. session.token # NoToken => wanted \in {Undecided, session.actor}
    BY DEF StoreInv, WantedInv
  <2>3. /\ session.token # NoToken => session.token.login > closed
        /\ store \in Tokens => store.login > closed
    BY DEF StoreInv, ClosedInv
  <2> QED BY <2>1, <2>2, <2>3 DEF LatestDecisionWins, ClosedStaysClosed
<1> QED BY <1>1, BothAlways, PTL

\* A session that ended leaves nothing in the secure store, or an error was
\* thrown to the caller: every way a call can end without tokens clears them.
THEOREM NothingIsLeftBehind == Spec => []NothingLeftBehind
<1>1. StoreInv => NothingLeftBehind
  <2> SUFFICES ASSUME StoreInv, Quiet, session.state = "anonymous"
               PROVE  store = NoToken \/ reported
    BY DEF NothingLeftBehind
  <2>1. session.token = NoToken
    BY DEF StoreInv, RegisterInv, ViewInv, Published
  <2>2. \A s \in Slots : ~Owns(s)
    BY DEF Quiet, Free, Owns
  <2> QED BY <2>1, <2>2 DEF StoreInv, LeftInv
<1> QED BY <1>1, BothAlways, PTL
=============================================================================
