------------------------------ MODULE Session ------------------------------
(***************************************************************************)
(* DefaultSessionController with its RefreshCoordinator, the provider      *)
(* behind HttpSessionProvider and the device's secure store.  Any number   *)
(* of login, refresh, logout and restore calls overlap; each is a call     *)
(* record that advances one step per await.  Memory dies with the app,     *)
(* the stored record does not.                                             *)
(***************************************************************************)
EXTENDS Integers, Sequences, FiniteSets, SequencesExt

CONSTANTS
  Actors, NoActor,   \* accounts
  Slots,             \* room for calls in progress
  NoSlot,
  NoToken,           \* no tokens, or an empty store
  Undecided,         \* the user has decided nothing in this run
  Corrupt,           \* a stored value that is not a session record
  MaxGeneration,     \* bound on the generations of login and logout calls
  MaxTokens,         \* bound on the tokens the provider issues
  MaxRestarts        \* bound on restarts

NoGeneration == -1

ASSUME BoundsAssumption ==
  MaxGeneration \in Nat /\ MaxTokens \in Nat /\ MaxRestarts \in Nat
ASSUME NoneAssumption == NoActor \notin Actors /\ NoSlot \notin Slots

VARIABLES
  session,      \* state, actor, tokens and generation of the controller
  coordinator,  \* generation and flight of the RefreshCoordinator
  promise,      \* refreshPromiseGeneration while refreshPromise is set
  calls,        \* [Slots -> call]: the calls in progress
  queue,        \* storageQueue: the calls whose storage operation waits
  busy,         \* the call whose storage operation is executing, or NoSlot
  store,        \* durable: tokens, NoToken or Corrupt
  lapsed,       \* the tokens whose expiresAt the clock has passed
  issued,       \* how many tokens the provider has issued
  logins,       \* history: how many logins were asked for
  closed,       \* history: the last login that a completed logout closed
  wanted,       \* history: the account of the last decision of this run
  presented,    \* history: how often this run presented each refresh token
  reported,     \* history: the last storage outcome was an error, thrown
  epoch         \* history: the number of restarts

memory == <<session, coordinator, promise, calls, queue, busy>>
history == <<logins, closed, wanted, presented, reported, epoch>>
vars == <<memory, store, lapsed, issued, history>>

-----------------------------------------------------------------------------
(* Data.  A pair of tokens is known by its serial number, and remembers    *)
(* the account and the login it descends from.                             *)

States == {"anonymous", "signing-in", "authenticated", "expired", "refreshing",
           "logging-out"}
Tokens == [actor : Actors, login : Nat, serial : 1..MaxTokens]
ASSUME TokenAssumption == NoToken \notin Tokens /\ Corrupt \notin Tokens
Kinds == {"none", "login", "refresh", "logout", "restore"}
Phases == {"none", "provider", "begun", "save", "clear", "read", "answered"}
\* upto: the logins asked for when a logout was called.
Calls == [kind : Kinds, phase : Phases, generation : Int, actor : Actors \union {NoActor},
          token : Tokens \union {NoToken, Corrupt}, upto : Nat]
Call(kind, phase, generation, actor, token) ==
  [kind |-> kind, phase |-> phase, generation |-> generation, actor |-> actor,
   token |-> token, upto |-> logins]
NoCall == [kind |-> "none", phase |-> "none", generation |-> 0, actor |-> NoActor,
           token |-> NoToken, upto |-> 0]

Anonymous(generation) ==
  [state |-> "anonymous", actor |-> NoActor, token |-> NoToken, generation |-> generation]
Authenticated(token, generation) ==
  [state |-> "authenticated", actor |-> token.actor, token |-> token,
   generation |-> generation]
Published == session.state \in {"authenticated", "expired", "refreshing"}

\* RefreshCoordinator.replace and invalidate.
Replaced(generation) == [generation |-> generation, flight |-> NoGeneration]

\* Mutated form: a call never asks whether it was superseded.
AlwaysCurrent(c) == TRUE
IsCurrent(c) == c.generation = coordinator.generation

\* Mutated form: every refresh call asks the provider.
NeverCoalesced == FALSE
Coalesced == promise = session.generation

Free(s) == calls[s].kind = "none"
At(s, kind, phase) == calls[s].kind = kind /\ calls[s].phase = phase
NewToken(actor, login) == [actor |-> actor, login |-> login, serial |-> issued + 1]
MayIssue == issued < MaxTokens

\* A refresh call's finally block forgets the promise that is its own.
PromiseAfter(c) == IF c.kind = "refresh" /\ promise = c.generation
                   THEN NoGeneration ELSE promise
Ended(s) == calls' = [calls EXCEPT ![s] = NoCall] /\ promise' = PromiseAfter(calls[s])
Waits(s, c) == calls' = [calls EXCEPT ![s] = c] /\ queue' = Append(queue, s)

-----------------------------------------------------------------------------
(* Decisions of the user. *)

Login(s, actor) ==
  LET g == session.generation + 1 IN
  /\ Free(s) /\ g <= MaxGeneration
  /\ session' = [Anonymous(g) EXCEPT !.state = "signing-in"]
  /\ coordinator' = Replaced(g)
  /\ promise' = NoGeneration
  /\ logins' = logins + 1
  /\ calls' = [calls EXCEPT ![s] =
       [Call("login", "provider", g, actor, NoToken) EXCEPT !.upto = logins + 1]]
  /\ wanted' = actor
  /\ UNCHANGED <<queue, busy, store, lapsed, issued, closed, presented, reported, epoch>>

\* Also the way invalidate ends the session of its generation.
Logout(s) ==
  LET g == session.generation + 1 IN
  /\ Free(s) /\ g <= MaxGeneration
  /\ session' = [Anonymous(g) EXCEPT !.state = "logging-out"]
  /\ coordinator' = Replaced(g)
  /\ promise' = NoGeneration
  /\ Waits(s, Call("logout", "clear", g, NoActor, NoToken))
  /\ wanted' = NoActor
  /\ UNCHANGED <<busy, store, lapsed, issued, logins, closed, presented, reported, epoch>>

\* A second refresh of a generation shares the promise of the first.
Refresh(s) ==
  /\ Free(s)
  /\ session.state \notin {"anonymous", "logging-out"} /\ session.token # NoToken
  /\ ~Coalesced
  /\ coordinator' = [coordinator EXCEPT !.flight = session.generation]
  /\ promise' = session.generation
  /\ calls' = [calls EXCEPT ![s] =
       Call("refresh", "begun", session.generation, session.actor, session.token)]
  /\ UNCHANGED <<session, queue, busy, store, lapsed, issued, history>>

-----------------------------------------------------------------------------
(* The provider answers. *)

\* Mutated form: a failed login leaves what an earlier session stored.
FailLoginOnly(s) ==
  /\ IF IsCurrent(calls[s])
     THEN session' = Anonymous(session.generation)
     ELSE UNCHANGED session
  /\ Ended(s) /\ UNCHANGED <<coordinator, queue>>
\* The end of a failed login, and of a failed refresh (doCleanup).
FailLogin(s) ==
  IF IsCurrent(calls[s])
  THEN /\ session' = Anonymous(session.generation)
       /\ Waits(s, [calls[s] EXCEPT !.phase = "clear"])
       /\ UNCHANGED <<coordinator, promise>>
  ELSE Ended(s) /\ UNCHANGED <<session, coordinator, queue>>
FailRefresh(s) ==
  IF IsCurrent(calls[s])
  THEN /\ session' = Anonymous(session.generation + 1)
       /\ coordinator' = Replaced(session.generation + 1)
       /\ Waits(s, [calls[s] EXCEPT !.phase = "clear"])
       /\ UNCHANGED promise
  ELSE Ended(s) /\ UNCHANGED <<session, coordinator, queue>>
Fail(s) == IF calls[s].kind = "login" THEN FailLogin(s) ELSE FailRefresh(s)

\* The tokens are saved before they are published.
Answered(s, actor, login) ==
  /\ MayIssue
  /\ issued' = issued + 1
  /\ IF IsCurrent(calls[s])
     THEN /\ Waits(s, [calls[s] EXCEPT !.phase = "save", !.token = NewToken(actor, login)])
          /\ UNCHANGED promise
     ELSE Ended(s) /\ UNCHANGED queue
  /\ UNCHANGED <<session, coordinator>>

LoginAnswered(s) ==
  /\ At(s, "login", "provider")
  /\ \/ Answered(s, calls[s].actor, calls[s].upto)
     \/ Fail(s) /\ UNCHANGED issued
  /\ UNCHANGED <<busy, store, lapsed, history>>

RefreshBegins(s) ==
  /\ At(s, "refresh", "begun")
  /\ IF IsCurrent(calls[s])
     THEN /\ session' = [session EXCEPT !.state = "refreshing"]
          /\ calls' = [calls EXCEPT ![s].phase = "provider"]
          /\ presented' = [presented EXCEPT ![calls[s].token.serial] = @ + 1]
          /\ UNCHANGED promise
     ELSE Ended(s) /\ UNCHANGED <<session, presented>>
  /\ UNCHANGED <<coordinator, queue, busy, store, lapsed, issued, logins, closed, wanted,
                 reported, epoch>>

RefreshAnswered(s) ==
  /\ At(s, "refresh", "provider")
  /\ \/ Answered(s, calls[s].actor, calls[s].token.login)
     \/ Fail(s) /\ UNCHANGED issued
  /\ UNCHANGED <<busy, store, lapsed, history>>

-----------------------------------------------------------------------------
(* The storage queue: one operation at a time, in the order they came.  A  *)
(* call goes on in the step its operation settles.                         *)

\* The generation a guarded operation was queued for; a logout's has none.
QueuedFor(c) == IF c.kind = "refresh" /\ c.phase = "clear"
                THEN c.generation + 1 ELSE c.generation
StillWanted(c) == c.kind = "logout" \/ QueuedFor(c) = session.generation

\* Mutated form: operations are not serialized.
AnyTurn(s) == s \in ToSet(queue)
HasTurn(s) == queue # <<>> /\ s = Head(queue)
Dequeued(s) == RemoveFirst(queue, s)

\* Mutated form: the state after a logout is set only when the clear succeeds.
SettlesIfDone(c, done) == done
LogoutSettles(c, done) == IsCurrent(c)

\* Mutated form: whatever was saved is published.
PublishesAnyway(c) == TRUE
\* complete() refuses tokens of a flight that is not this one.
MayPublish(c) ==
  IsCurrent(c) /\ (c.kind = "refresh" => coordinator.flight = c.generation)

\* What the call does once its operation succeeded, was skipped or failed.
Resume(s, done) ==
  LET c == calls[s] IN
  \/ /\ c.phase = "save" /\ done
     /\ IF MayPublish(c)
        THEN /\ session' = Authenticated(c.token, session.generation)
             /\ coordinator' = Replaced(c.generation)
        ELSE UNCHANGED <<session, coordinator>>
     /\ Ended(s) /\ queue' = Dequeued(s)
  \/ /\ c.phase = "clear" /\ c.kind = "logout" /\ LogoutSettles(c, done)
     /\ session' = Anonymous(session.generation)
     /\ Ended(s) /\ queue' = Dequeued(s) /\ UNCHANGED coordinator
  \/ /\ c.phase = "clear" /\ (c.kind # "logout" \/ ~LogoutSettles(c, done))
     /\ Ended(s) /\ queue' = Dequeued(s) /\ UNCHANGED <<session, coordinator>>

StorageSkips(s) ==
  /\ busy = NoSlot /\ HasTurn(s) /\ ~StillWanted(calls[s])
  /\ Resume(s, TRUE)
  /\ UNCHANGED <<busy, store, lapsed, issued, history>>

StorageBegins(s) ==
  /\ busy = NoSlot /\ HasTurn(s) /\ StillWanted(calls[s])
  /\ busy' = s
  /\ UNCHANGED <<session, coordinator, promise, calls, queue, store, lapsed, issued, history>>

Written(c) == IF c.phase = "save" THEN c.token ELSE NoToken

StorageDone(s) ==
  /\ busy = s
  /\ store' = Written(calls[s])
  /\ Resume(s, TRUE)
  /\ busy' = NoSlot
  /\ closed' = IF calls[s].kind = "logout" THEN calls[s].upto ELSE closed
  /\ reported' = FALSE
  /\ UNCHANGED <<lapsed, issued, logins, wanted, presented, epoch>>

\* A save that fails ends the call as the provider's failure does, with a
\* new operation at the end of the queue.
StorageFails(s) ==
  /\ busy = s
  /\ \/ calls[s].phase = "clear" /\ Resume(s, FALSE)
     \/ /\ calls[s].phase = "save" /\ IsCurrent(calls[s])
        /\ calls' = [calls EXCEPT ![s].phase = "clear"]
        /\ queue' = Append(Dequeued(s), s)
        /\ IF calls[s].kind = "login"
           THEN session' = Anonymous(session.generation) /\ UNCHANGED coordinator
           ELSE /\ session' = Anonymous(session.generation + 1)
                /\ coordinator' = Replaced(session.generation + 1)
        /\ UNCHANGED promise
     \/ /\ calls[s].phase = "save" /\ ~IsCurrent(calls[s])
        /\ Ended(s) /\ queue' = Dequeued(s) /\ UNCHANGED <<session, coordinator>>
  /\ busy' = NoSlot
  /\ reported' = TRUE
  /\ UNCHANGED <<store, lapsed, issued, logins, closed, wanted, presented, epoch>>

-----------------------------------------------------------------------------
(* The app starts: it restores what the last run stored. *)

\* The read does not wait for the storage queue.
RestoreReads(s) ==
  /\ At(s, "restore", "read")
  /\ calls' = [calls EXCEPT ![s] = [@ EXCEPT !.phase = "answered", !.token = store]]
  /\ UNCHANGED <<session, coordinator, promise, queue, busy, store, lapsed, issued, history>>

RestoreFails(s) ==
  /\ At(s, "restore", "read")
  /\ Ended(s)
  /\ reported' = (reported \/ IsCurrent(calls[s]))
  /\ UNCHANGED <<session, coordinator, queue, busy, store, lapsed, issued, logins, closed,
                 wanted, presented, epoch>>

Usable(token) == token \notin {NoToken, Corrupt} /\ token.serial \notin lapsed

RestoreResumes(s) ==
  LET c == calls[s]  g == session.generation + 1 IN
  /\ At(s, "restore", "answered")
  /\ \/ /\ ~IsCurrent(c) \/ c.token = NoToken
        /\ Ended(s) /\ UNCHANGED <<session, coordinator, queue>>
     \/ /\ IsCurrent(c) /\ c.token # NoToken /\ ~Usable(c.token)
        /\ Waits(s, [c EXCEPT !.phase = "clear"])
        /\ UNCHANGED <<session, coordinator, promise>>
     \/ /\ IsCurrent(c) /\ Usable(c.token)
        /\ session' = Authenticated(c.token, g)
        /\ coordinator' = Replaced(g)
        /\ Ended(s) /\ UNCHANGED queue
  /\ UNCHANGED <<busy, store, lapsed, issued, history>>

\* getSnapshot notices that the access token has expired.
Observe ==
  /\ session.state = "authenticated" /\ session.token.serial \in lapsed
  /\ session' = [session EXCEPT !.state = "expired"]
  /\ UNCHANGED <<coordinator, promise, calls, queue, busy, store, lapsed, issued, history>>

Lapse(n) ==
  /\ n \in 1..issued \ lapsed
  /\ lapsed' = lapsed \union {n}
  /\ UNCHANGED <<memory, store, issued, history>>

Starting(s) ==
  [t \in Slots |-> IF t = s THEN [NoCall EXCEPT !.kind = "restore", !.phase = "read"]
                   ELSE NoCall]
Started(s) ==
  /\ session = Anonymous(0) /\ coordinator = Replaced(0) /\ promise = NoGeneration
  /\ calls = Starting(s) /\ queue = <<>> /\ busy = NoSlot
  /\ wanted = Undecided /\ presented = [n \in 1..MaxTokens |-> 0]

\* The app dies; a storage operation in progress happened or did not.
Restart(s) ==
  /\ epoch < MaxRestarts
  /\ epoch' = epoch + 1
  /\ store' \in {store} \union {Written(calls[t]) : t \in {busy} \ {NoSlot}}
  /\ session' = Anonymous(0) /\ coordinator' = Replaced(0) /\ promise' = NoGeneration
  /\ calls' = Starting(s) /\ queue' = <<>> /\ busy' = NoSlot
  /\ wanted' = Undecided /\ presented' = [n \in 1..MaxTokens |-> 0]
  /\ UNCHANGED <<lapsed, issued, logins, closed, reported>>

-----------------------------------------------------------------------------
Init ==
  /\ \E s \in Slots : Started(s)
  /\ store \in {NoToken, Corrupt}
  /\ lapsed = {} /\ issued = 0
  /\ logins = 0 /\ closed = 0 /\ reported = FALSE /\ epoch = 0

Decide(s) == (\E actor \in Actors : Login(s, actor)) \/ Logout(s) \/ Refresh(s)
Storage(s) == StorageSkips(s) \/ StorageBegins(s) \/ StorageDone(s) \/ StorageFails(s)
Settle(s) ==
  \/ LoginAnswered(s) \/ RefreshBegins(s) \/ RefreshAnswered(s)
  \/ RestoreReads(s) \/ RestoreFails(s) \/ RestoreResumes(s)
Clock == Observe \/ \E n \in 1..MaxTokens : Lapse(n)

Next == Clock \/ \E s \in Slots : Decide(s) \/ Storage(s) \/ Settle(s) \/ Restart(s)
Spec == Init /\ [][Next]_vars

\* The transport has a timeout and the secure store settles its promises.
FairSpec ==
  Spec /\ WF_vars(\E s \in Slots : Storage(s)) /\ WF_vars(\E s \in Slots : Settle(s))

-----------------------------------------------------------------------------
(* Properties. *)

SessionType ==
  /\ session \in [state : States, actor : Actors \union {NoActor},
                  token : Tokens \union {NoToken}, generation : Nat]
  /\ coordinator \in [generation : Nat, flight : Nat \union {NoGeneration}]
  /\ promise \in Nat \union {NoGeneration}
CallsType ==
  /\ calls \in [Slots -> Calls]
  /\ queue \in Seq(Slots) /\ busy \in Slots \union {NoSlot}
StoreType ==
  /\ store \in Tokens \union {NoToken, Corrupt}
  /\ issued \in 0..MaxTokens /\ lapsed \subseteq 1..issued
HistoryType ==
  /\ logins \in Nat /\ closed \in Nat /\ epoch \in Nat
  /\ wanted \in Actors \union {NoActor, Undecided}
  /\ presented \in [1..MaxTokens -> Nat]
  /\ reported \in BOOLEAN
\* Every variable keeps its shape, whatever calls overlap.
TypeOK == SessionType /\ CallsType /\ StoreType /\ HistoryType

\* Controller, coordinator and secure store agree: one generation, a flight
\* only for it, a promise never newer, tokens exactly while an account is
\* published, and then the tokens the store holds: they are saved before they
\* are published (login line 140, refresh line 217), and no queued operation
\* of an older call replaces them.
Coherent ==
  /\ TypeOK
  /\ coordinator.generation = session.generation
  /\ coordinator.flight \in {NoGeneration, session.generation}
  /\ promise <= session.generation
  /\ Published <=> session.token # NoToken
  /\ Published <=> session.actor # NoActor
  /\ Published => store = session.token

\* A login that a completed logout closed is neither published nor stored, by
\* an answer, a save or a restore that was on its way, nor by a later start.
ClosedStaysClosed ==
  /\ Published => session.token.login > closed
  /\ store \in Tokens => store.login > closed

\* The account published is the one of the user's last decision, and the
\* tokens sent for it are its own: answers of superseded calls and a late
\* restore do not replace it, and what was closed stays closed.
LatestDecisionWins ==
  /\ Published => /\ session.actor = session.token.actor
                  /\ wanted \in {Undecided, session.actor}
  /\ ClosedStaysClosed

\* One run presents a refresh token at most once: concurrent refreshes share
\* the promise of the first (line 186), so rotation never sees a stale one.
TokenPresentedOnce == \A n \in 1..MaxTokens : presented[n] <= 1

\* When every call has ended without a session, the secure store is empty,
\* or the last error of the store was thrown to a caller.
Quiet == \A s \in Slots : Free(s)
NothingLeftBehind ==
  Quiet /\ session.state = "anonymous" => store = NoToken \/ reported

\* Readers of the session see a register: an account never replaces another
\* nor comes back under one generation, and a renewal brings newer tokens.
View == [state |-> session.state, actor |-> session.actor, generation |-> session.generation,
         token |-> IF session.token = NoToken THEN 0 ELSE session.token.serial]
Register == INSTANCE SessionRegister WITH session <- View, Serials <- 1..MaxTokens
RegisterSpec == Register!Spec

\* The transient states end: the screen never stays signing in, refreshing
\* or logging out, whatever the provider and the store answer.
Settled == session.state \notin {"signing-in", "refreshing", "logging-out"}
StatesSettle == []<>Settled
==============================================================================
