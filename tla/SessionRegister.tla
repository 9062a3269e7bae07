--------------------------- MODULE SessionRegister ---------------------------
(***************************************************************************)
(* The session as its readers see it (SessionSnapshot and                  *)
(* SessionAuthorizationContext): a state, an account, the serial number of *)
(* the access token and a generation.  Workflows and requests compare      *)
(* generations only, so an account must never replace another, or leave    *)
(* and come back, under one generation, and a renewal must bring a newer   *)
(* token of the same account.  Session implements this register;           *)
(* SessionTransport runs against it.                                       *)
(***************************************************************************)
EXTENDS Integers

CONSTANTS
  Actors, NoActor,
  Serials           \* positive serial numbers of tokens; 0 is none

ASSUME SerialsAssumption == Serials \subseteq Nat \ {0}

VARIABLES
  session,  \* [state, actor, token, generation]
  epoch     \* history: the number of restarts

Nobody(state, generation) ==
  [state |-> state, actor |-> NoActor, token |-> 0, generation |-> generation]
SignedInAs(actor, token, generation) ==
  [state |-> "authenticated", actor |-> actor, token |-> token, generation |-> generation]

\* login, logout and doCleanup each begin a generation without an account.
Decide ==
  /\ \E state \in {"signing-in", "logging-out", "anonymous"} :
       session' = Nobody(state, session.generation + 1)
  /\ UNCHANGED epoch

\* The login failed, or the logout is done.
GiveUp ==
  /\ session.state \in {"signing-in", "logging-out"}
  /\ session' = Nobody("anonymous", session.generation)
  /\ UNCHANGED epoch

\* A login's answer arrives under the generation the login began.
SignIn ==
  /\ session.state = "signing-in"
  /\ \E actor \in Actors, t \in Serials :
       session' = SignedInAs(actor, t, session.generation)
  /\ UNCHANGED epoch

\* A stored session is restored under a generation of its own.
Restore ==
  /\ session.state = "anonymous"
  /\ \E actor \in Actors, t \in Serials :
       session' = SignedInAs(actor, t, session.generation + 1)
  /\ UNCHANGED epoch

Expire ==
  /\ session.state = "authenticated"
  /\ session' = [session EXCEPT !.state = "expired"]
  /\ UNCHANGED epoch

RefreshBegins ==
  /\ session.state \in {"authenticated", "expired"}
  /\ session' = [session EXCEPT !.state = "refreshing"]
  /\ UNCHANGED epoch

RefreshEnds ==
  /\ session.state = "refreshing"
  /\ \E t \in Serials :
       /\ t > session.token
       /\ session' = SignedInAs(session.actor, t, session.generation)
  /\ UNCHANGED epoch

Restart ==
  /\ session' = Nobody("anonymous", 0)
  /\ epoch' = epoch + 1

Init == session = Nobody("anonymous", 0) /\ epoch = 0
Next ==
  \/ Decide \/ GiveUp \/ SignIn \/ Restore
  \/ Expire \/ RefreshBegins \/ RefreshEnds \/ Restart
Spec == Init /\ [][Next]_<<session, epoch>>
==============================================================================
