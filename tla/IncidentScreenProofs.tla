------------------------ MODULE IncidentScreenProofs ------------------------
(***************************************************************************)
(* Proofs about IncidentScreen: what its waits, its copies and its panel   *)
(* show belongs to the session and to the incident selected, a success was *)
(* confirmed or is of a copy whose changes were archived, an action in     *)
(* doubt is not repeated, and the locks are held by the calls under way.   *)
(***************************************************************************)
EXTENDS IncidentScreen, FiniteSetTheorems, TLAPS

-----------------------------------------------------------------------------
(* The invariant. *)

\* The calls of a set cs are numbered from 1 to n, each with a number of its
\* own, and made under a session up to g.
Numbered(cs, n, g) ==
  /\ cs \subseteq Calls /\ n \in Nat
  /\ \A c \in cs : /\ c.id \in 0..n /\ c.gen <= g /\ (c.kind # "inspect" => c.id # 0)
                   /\ c.kind \in {"read", "write", "keep", "reformulate"} => c.of \in Incidents
  /\ \A c, d \in cs : c.id = d.id /\ c.id # 0 => c = d
New(c, n, g) ==
  /\ c \in Calls /\ c.gen = g /\ c.phase = "remote"
  /\ c.id = (IF c.kind = "inspect" THEN 0 ELSE n + 1)
  /\ c.kind \in {"read", "write", "keep", "reformulate"} => c.of \in Incidents

\* The lock a call holds while it runs.
Lock(c) ==
  IF c.kind = "write" THEN "writing"
  ELSE IF c.kind \in TaskKinds THEN "busy"
  ELSE IF c.kind = "create" \/ (c.kind = "list" /\ c.after) THEN "creating"
  ELSE "none"
Locked(cs, g, lock, flag) == flag <=> \E c \in cs : c.gen = g /\ Lock(c) = lock
\* One action or task of the panel, and one creation, at a time.
Shares(c, d) ==
  \/ Lock(c) \in {"writing", "busy"} /\ Lock(d) \in {"writing", "busy"}
  \/ Lock(c) = "creating" /\ Lock(d) = "creating"
Alone(cs, g) == \A c, d \in cs : c.gen = g /\ d.gen = g /\ Shares(c, d) => c = d
Locks(cs, g, wr, bu, cr) ==
  /\ Locked(cs, g, "writing", wr) /\ Locked(cs, g, "busy", bu) /\ Locked(cs, g, "creating", cr)
  /\ Alone(cs, g)

\* A wait that is loading has a call of this session that will end it.
Held(wait, kind, cs, g) ==
  wait.state = "loading" => \E c \in cs : c.kind = kind /\ Awaited(wait, c) /\ c.gen = g

\* A wait shows a value of the session g and of the incident it is for.
Sound(wait, g) ==
  /\ wait \in Waits /\ (wait.value # NoValue <=> wait.state \in Valued)
  /\ wait.state \in Valued => wait.value.from = g
  /\ wait.value # NoValue => wait.value.of = wait.sel
\* An outcome of an action lies over the detail of its incident.
Over(att, det) ==
  /\ det.state # "none" => det.sel \in Incidents
  /\ att.state # "none" => det.state # "none" /\ att.sel = det.sel
\* The incident shown is in doubt only while the screen says so.
Admitted(att, det, doubted) ==
  /\ doubted \subseteq Incidents
  /\ det.state # "none" /\ det.sel \in doubted =>
       det.state = "offline" \/ att.state \notin {"none", "success"}

SoundViews(v, g) ==
  /\ v \in Views /\ v.from \in {0, g}
  /\ v.from = 0 => \A i \in Incidents : v.of[i] = "none"
\* An action that was recorded, or answered a record with changes left, finds
\* them in the copies.
Unsure(cs, g, copies) ==
  /\ copies \in Copies
  /\ \A c \in cs :
       /\ c.kind = "write" /\ c.gen = g
       /\ c.phase = "recorded" \/ (c.phase = "recovering" /\ c.updated /\ ~c.sure)
       => copies[c.of] \in {"pending", "conflict"}
SoundForm(v, err, rev, g) ==
  v \in {"list", "detail", "create"} /\ err \in {0, g} /\ rev \in Nat
Given(value, g) == value \in Values /\ (value # NoValue => value.from = g)

SessionInv == gen \in 1..MaxGeneration /\ usable \in BOOLEAN
CallsInv ==
  /\ Numbered(calls, ids, gen)
  /\ writing \in BOOLEAN /\ busy \in BOOLEAN /\ creating \in BOOLEAN
  /\ Locks(calls, gen, writing, busy, creating)
HeldInv ==
  /\ Held(list, "list", calls, gen) /\ Held(detail, "read", calls, gen)
  /\ Held(attention, "write", calls, gen)
WaitsInv ==
  /\ Sound(list, gen) /\ Sound(detail, gen) /\ Sound(attention, gen)
  /\ Over(attention, detail) /\ Admitted(attention, detail, doubt)
CopiesInv == SoundViews(views, gen) /\ Unsure(calls, gen, device)
FormInv == SoundForm(view, createError, review, gen)
CoreInv == SessionInv /\ CallsInv /\ HeldInv /\ WaitsInv /\ CopiesInv /\ FormInv
PanelInv ==
  /\ effect \in [due : BOOLEAN, value : Values] /\ Given(effect.value, gen)
  /\ overtaken \subseteq Values /\ \A value \in overtaken : Given(value, gen)
\* What was archived stays queued; a success was confirmed, or was archived.
KeptInv ==
  /\ kept \subseteq Incidents
  /\ \A i \in Incidents : device[i] = "archived" => i \in kept
SureInv ==
  /\ attention.state = "success" => attention.value.sure
  /\ detail.state = "success" => detail.value.sure \/ detail.sel \in kept
GivenInv ==
  \A value \in ({effect.value} \union overtaken) \ {NoValue} : value.sure \/ value.of \in kept
ScreenInv == CoreInv /\ PanelInv /\ KeptInv /\ SureInv /\ GivenInv

-----------------------------------------------------------------------------
(* Sets of calls. *)

LEMMA NumberedAdds ==
  ASSUME NEW cs, NEW n, NEW g \in Nat, NEW c, Numbered(cs, n, g), New(c, n, g)
  PROVE  Numbered(cs \union {c}, n + 1, g)
BY DEF Numbered, New

LEMMA NumberedInspects ==
  ASSUME NEW cs, NEW n, NEW g \in Nat, NEW c, Numbered(cs, n, g), New(c, n, g), c.kind = "inspect"
  PROVE  Numbered(cs \union {c}, n, g)
BY DEF Numbered, New

LEMMA NumberedLater ==
  ASSUME NEW cs, NEW n, NEW g \in Nat, NEW h \in Nat, Numbered(cs, n, g), g <= h
  PROVE  Numbered(cs, n, h)
BY DEF Numbered, Calls

LEMMA NumberedDrops ==
  ASSUME NEW cs, NEW n, NEW g, NEW c, Numbered(cs, n, g)
  PROVE  Numbered(cs \ {c}, n, g)
BY DEF Numbered

LEMMA NumberedRaises ==
  ASSUME NEW cs, NEW n, NEW g, Numbered(cs, n, g)
  PROVE  Numbered(cs, n + 1, g)
BY DEF Numbered

\* d is the call c, gone on.
GoesOn(c, d) ==
  /\ d \in Calls /\ d.kind = c.kind /\ d.id = c.id /\ d.gen = c.gen /\ d.of = c.of
  /\ d.after = c.after

LEMMA NumberedSwaps ==
  ASSUME NEW cs, NEW n, NEW g, NEW c \in cs, NEW d, Numbered(cs, n, g), GoesOn(c, d)
  PROVE  Numbered((cs \ {c}) \union {d}, n, g)
BY DEF Numbered, GoesOn

LEMMA LocksAdds ==
  ASSUME NEW cs, NEW g, NEW wr, NEW bu, NEW cr, Locks(cs, g, wr, bu, cr), NEW c, Lock(c) = "none"
  PROVE  Locks(cs \union {c}, g, wr, bu, cr)
BY DEF Locks, Locked, Alone, Shares

LEMMA LocksWriting ==
  ASSUME NEW cs, NEW g, NEW wr, NEW bu, NEW cr, Locks(cs, g, wr, bu, cr), ~wr, ~bu,
         NEW c, c.gen = g, Lock(c) = "writing"
  PROVE  Locks(cs \union {c}, g, TRUE, bu, cr)
BY DEF Locks, Locked, Alone, Shares

LEMMA LocksBusy ==
  ASSUME NEW cs, NEW g, NEW wr, NEW bu, NEW cr, Locks(cs, g, wr, bu, cr), ~wr, ~bu,
         NEW c, c.gen = g, Lock(c) = "busy"
  PROVE  Locks(cs \union {c}, g, wr, TRUE, cr)
BY DEF Locks, Locked, Alone, Shares

LEMMA LocksCreating ==
  ASSUME NEW cs, NEW g, NEW wr, NEW bu, NEW cr, Locks(cs, g, wr, bu, cr), ~cr,
         NEW c, c.gen = g, Lock(c) = "creating"
  PROVE  Locks(cs \union {c}, g, wr, bu, TRUE)
BY DEF Locks, Locked, Alone, Shares

LEMMA LocksDrops ==
  ASSUME NEW cs, NEW g, NEW wr, NEW bu, NEW cr, Locks(cs, g, wr, bu, cr), NEW c \in cs,
         c.gen # g \/ Lock(c) = "none"
  PROVE  Locks(cs \ {c}, g, wr, bu, cr)
BY DEF Locks, Locked, Alone, Shares

LEMMA LocksWritten ==
  ASSUME NEW cs, NEW g, NEW wr, NEW bu, NEW cr, Locks(cs, g, wr, bu, cr), NEW c \in cs,
         c.gen = g, Lock(c) = "writing"
  PROVE  Locks(cs \ {c}, g, FALSE, bu, cr)
BY DEF Locks, Locked, Alone, Shares

LEMMA LocksFreed ==
  ASSUME NEW cs, NEW g, NEW wr, NEW bu, NEW cr, Locks(cs, g, wr, bu, cr), NEW c \in cs,
         c.gen = g, Lock(c) = "busy"
  PROVE  Locks(cs \ {c}, g, wr, FALSE, cr)
BY DEF Locks, Locked, Alone, Shares

LEMMA LocksCreated ==
  ASSUME NEW cs, NEW g, NEW wr, NEW bu, NEW cr, Locks(cs, g, wr, bu, cr), NEW c \in cs,
         c.gen = g, Lock(c) = "creating"
  PROVE  Locks(cs \ {c}, g, wr, bu, FALSE)
BY DEF Locks, Locked, Alone, Shares

LEMMA LocksSwaps ==
  ASSUME NEW cs, NEW g, NEW wr, NEW bu, NEW cr, Locks(cs, g, wr, bu, cr), NEW c \in cs,
         NEW d, GoesOn(c, d)
  PROVE  Locks((cs \ {c}) \union {d}, g, wr, bu, cr)
<1>1. Lock(d) = Lock(c) /\ d.gen = c.gen
  BY DEF GoesOn, Lock
<1> QED  BY <1>1 DEF Locks, Locked, Alone, Shares

\* No call of an earlier session holds a lock of a new one.
LEMMA LocksAnew ==
  ASSUME NEW cs, NEW n, NEW g \in Nat, Numbered(cs, n, g)
  PROVE  Locks(cs, g + 1, FALSE, FALSE, FALSE)
BY DEF Numbered, Locks, Locked, Alone, Calls

LEMMA HeldGrows ==
  ASSUME NEW wait, NEW kind, NEW cs, NEW g, Held(wait, kind, cs, g), NEW c
  PROVE  Held(wait, kind, cs \union {c}, g)
BY DEF Held

LEMMA HeldSwaps ==
  ASSUME NEW wait, NEW kind, NEW cs, NEW g, Held(wait, kind, cs, g), NEW c \in cs, NEW d, GoesOn(c, d)
  PROVE  Held(wait, kind, (cs \ {c}) \union {d}, g)
BY DEF Held, GoesOn, Awaited

LEMMA HeldDrops ==
  ASSUME NEW wait, NEW kind, NEW cs, NEW g, Held(wait, kind, cs, g), NEW c,
         c.kind = kind => ~Awaited(wait, c) \/ c.gen # g
  PROVE  Held(wait, kind, cs \ {c}, g)
BY DEF Held

LEMMA HeldBegins ==
  ASSUME NEW cs, NEW g, NEW c, c.gen = g
  PROVE  Held(Begins(c), c.kind, cs \union {c}, g)
BY DEF Held, Begins, Loading, Awaited

LEMMA HeldIdle ==
  ASSUME NEW wait, NEW kind, NEW cs, NEW g, wait.state # "loading"
  PROVE  Held(wait, kind, cs, g)
BY DEF Held

\* A call that is awaited is of this session.
LEMMA AwaitedIsCurrent ==
  ASSUME NEW wait, NEW kind, NEW cs, NEW n, NEW g, Numbered(cs, n, g), Held(wait, kind, cs, g),
         NEW c \in cs, Awaited(wait, c), kind # "inspect"
  PROVE  c.gen = g /\ c.kind = kind
BY DEF Held, Awaited, Numbered

-----------------------------------------------------------------------------
(* Waits. *)

LEMMA Idle ==
  ASSUME NEW g
  PROVE  /\ Sound(NoWait, g) /\ NoWait.state = "none" /\ NoWait.value = NoValue
         /\ NoValue \in Values /\ NoValue.sure /\ Given(NoValue, g)
<1>1. NoValue \in Values /\ NoValue.sure
  BY ScreenAssumption DEF NoValue, Values
<1>2. NoWait \in Waits /\ NoWait.state = "none" /\ NoWait.value = NoValue
  BY <1>1 DEF NoWait, Waits, WaitStates
<1> QED  BY <1>1, <1>2 DEF Sound, Valued, Given

LEMMA LoadingIs ==
  ASSUME NEW id \in Nat, NEW sel \in Incidents \union {NoIncident}, NEW g
  PROVE  /\ Sound(Loading(id, sel), g) /\ Loading(id, sel).state = "loading"
         /\ Loading(id, sel).sel = sel /\ Loading(id, sel).id = id
         /\ Loading(id, sel).value = NoValue
<1>1. /\ Loading(id, sel) \in Waits /\ Loading(id, sel).state = "loading"
      /\ Loading(id, sel).sel = sel /\ Loading(id, sel).id = id
      /\ Loading(id, sel).value = NoValue
  BY Idle DEF Loading, Waits, WaitStates
<1> QED  BY <1>1 DEF Sound, Valued

LEMMA CancelledIs ==
  ASSUME NEW wait, NEW g, Sound(wait, g), wait.state = "loading"
  PROVE  /\ Sound(Cancelled(wait), g) /\ Cancelled(wait).state = "cancelled"
         /\ Cancelled(wait).sel = wait.sel
<1>1. /\ Cancelled(wait) \in Waits /\ Cancelled(wait).state = "cancelled"
      /\ Cancelled(wait).sel = wait.sel /\ Cancelled(wait).value = wait.value
  BY DEF Cancelled, Waits, WaitStates, Sound
<1> QED  BY <1>1 DEF Sound, Valued

\* A value the call c may give, with what it is shown as.
Fits(o, c) ==
  /\ o.state \in WaitStates \ {"none", "loading"} /\ o.value \in Values
  /\ o.value # NoValue <=> o.state \in Valued
  /\ o.value # NoValue => o.value.of = c.of /\ o.value.from = c.gen
  /\ o.state = "success" => o.value.sure

LEMMA SettledIs ==
  ASSUME NEW wait, NEW g, Sound(wait, g), NEW c, NEW o,
         Awaited(wait, c) => Fits(o, c) /\ c.gen = g
  PROVE  /\ Sound(Settled(wait, c, o), g) /\ Settled(wait, c, o).sel = wait.sel
         /\ Awaited(wait, c) => Settled(wait, c, o).state = o.state
         /\ Awaited(wait, c) => Settled(wait, c, o).state \notin {"none", "loading"}
         /\ ~Awaited(wait, c) => Settled(wait, c, o) = wait
<1>1. CASE ~Awaited(wait, c)
  BY <1>1 DEF Settled
<1>2. CASE Awaited(wait, c)
  <2> DEFINE next == Settled(wait, c, o)
  <2>1. next = [wait EXCEPT !.state = o.state, !.value = o.value]
    BY <1>2 DEF Settled
  <2>2. /\ next \in Waits /\ next.state = o.state /\ next.value = o.value
        /\ next.sel = wait.sel
    BY <1>2, <2>1 DEF Waits, Sound, Fits
  <2>3. Sound(next, g)
    BY <1>2, <2>2 DEF Sound, Fits, Awaited, Valued
  <2> QED  BY <1>2, <2>2, <2>3 DEF Fits
<1> QED  BY <1>1, <1>2

LEMMA HeldSettled ==
  ASSUME NEW wait, NEW kind, NEW cs, NEW g, Held(wait, kind, cs, g), NEW c, NEW o, Sound(wait, g),
         Awaited(wait, c) => Fits(o, c) /\ c.gen = g
  PROVE  Held(Settled(wait, c, o), kind, cs \ {c}, g)
<1>1. CASE Awaited(wait, c)
  BY <1>1, SettledIs, HeldIdle
<1>2. CASE ~Awaited(wait, c)
  BY <1>2, SettledIs, HeldDrops
<1> QED  BY <1>1, <1>2

LEMMA ValuesOfCalls ==
  ASSUME NEW c \in Calls
  PROVE  /\ Obtained(c) \in Values /\ Obtained(c).of = c.of /\ Obtained(c).from = c.gen
         /\ Obtained(c).sure /\ Obtained(c) # NoValue
         /\ Local(c) \in Values /\ Local(c).of = c.of /\ Local(c).from = c.gen
         /\ Local(c) # NoValue
<1>1. c.gen \in 1..MaxGeneration /\ c.of \in Incidents \union {NoIncident} /\ c.gen # 0
  BY DEF Calls
<1>2. c.gen \in 0..MaxGeneration
  BY <1>1, ScreenAssumption
<1> QED  BY <1>1, <1>2 DEF Obtained, Local, Values, NoValue

LEMMA AnswersFit ==
  ASSUME NEW c \in Calls, NEW found, NEW o \in Answers(c) \union Fallbacks(c, found)
  PROVE  Fits(o, c)
<1>1. NoValue \in Values
  BY Idle
<1> QED  BY <1>1, ValuesOfCalls DEF Answers, Fallbacks, Outcome, Fits, WaitStates, Valued

\* The value shown is of the incident of the detail.
LEMMA ShownIs ==
  ASSUME WaitsInv
  PROVE  /\ Shown \in Values
         /\ Shown # NoValue => /\ Shown.of \in Incidents /\ Shown.of = detail.sel
                               /\ detail.state # "none"
         /\ Shown.of \in Incidents \union {NoIncident}
<1>1. /\ attention.value # NoValue => attention.state # "none" /\ attention.value.of = attention.sel
      /\ detail.value # NoValue => detail.state # "none" /\ detail.value.of = detail.sel
  BY DEF WaitsInv, Sound, Valued
<1>2. Shown \in Values
  BY DEF WaitsInv, Sound, Waits, Shown
<1>3. Shown # NoValue => Shown.of = detail.sel /\ detail.state # "none"
  BY <1>1 DEF WaitsInv, Over, Shown
<1> QED  BY <1>2, <1>3 DEF WaitsInv, Over, Values

-----------------------------------------------------------------------------
(* The copies. *)

LEMMA UnsureAdds ==
  ASSUME NEW cs, NEW g, NEW copies, Unsure(cs, g, copies), NEW c,
         c.kind = "write" => c.phase = "remote" \/ c.gen # g
  PROVE  Unsure(cs \union {c}, g, copies)
BY DEF Unsure

LEMMA UnsureDrops ==
  ASSUME NEW cs, NEW g, NEW copies, Unsure(cs, g, copies), NEW c
  PROVE  Unsure(cs \ {c}, g, copies)
BY DEF Unsure

\* Only the running action or task changes copies, so no other action waits
\* for them.
LEMMA UnsureAlone ==
  ASSUME NEW cs, NEW g, NEW wr, NEW bu, NEW cr, Locks(cs, g, wr, bu, cr), NEW c \in cs, c.gen = g,
         Lock(c) \in {"writing", "busy"}, NEW copies \in Copies
  PROVE  Unsure(cs \ {c}, g, copies)
<1>1. ASSUME NEW d \in cs \ {c}, d.kind = "write", d.gen = g PROVE FALSE
  <2>1. Lock(d) = "writing"
    BY <1>1 DEF Lock
  <2> QED  BY <1>1, <2>1 DEF Locks, Alone, Shares
<1> QED  BY <1>1 DEF Unsure

LEMMA CachedIs ==
  ASSUME device \in Copies, NEW value
  PROVE  /\ Cached(value) \in Copies
         /\ \A i \in Incidents : device[i] # "none" => Cached(value)[i] = device[i]
BY DEF Cached, Stored, Stores, Copies, CopyStates

LEMMA UnsureCached ==
  ASSUME NEW cs, NEW n, NEW g, NEW value, Numbered(cs, n, g), Unsure(cs, g, device)
  PROVE  /\ Unsure(cs, g, Cached(value)) /\ Cached(value) \in Copies
<1>1. device \in Copies
  BY DEF Unsure
<1>2. \A c \in cs : c.kind = "write" => c.of \in Incidents
  BY DEF Numbered
<1> QED  BY <1>1, <1>2, CachedIs DEF Unsure

-----------------------------------------------------------------------------
(* Steps of the calls. *)

\* A call just made.
Made(c, kind, of) ==
  /\ c \in Calls /\ c.kind = kind /\ c.id = (IF kind = "inspect" THEN 0 ELSE ids + 1)
  /\ c.gen = gen /\ c.of = of
  /\ c.phase = "remote" /\ c.after = FALSE
LEMMA CallIs ==
  ASSUME SessionInv, CallsInv, NEW kind \in Kinds, NEW of \in Incidents \union {NoIncident}
  PROVE  Made(Call(kind, of), kind, of)
BY DEF SessionInv, CallsInv, Numbered, Call, Calls, Made

LEMMA Facts ==
  ASSUME CoreInv
  PROVE  gen \in Nat /\ ids \in Nat /\ calls \subseteq Calls
BY ScreenAssumption DEF CoreInv, SessionInv, CallsInv, Numbered

\* A new call without a lock: a list or a read.
LEMMA CallsInvAsks ==
  ASSUME CoreInv, UNCHANGED <<session, writing, busy, creating>>, NEW c, New(c, ids, gen),
         Lock(c) = "none", calls' = calls \union {c}, ids' = c.id
  PROVE  CallsInv'
<1>1. ids' = ids + 1 /\ gen' = gen /\ writing' = writing /\ busy' = busy /\ creating' = creating
  BY DEF New, session, Lock, TaskKinds
<1>2. Numbered(calls', ids', gen')
  BY <1>1, NumberedAdds, Facts DEF CoreInv, CallsInv
<1>3. Locks(calls', gen', writing', busy', creating')
  BY <1>1, LocksAdds DEF CoreInv, CallsInv
<1> QED  BY <1>1, <1>2, <1>3 DEF CoreInv, CallsInv

\* A call goes on in a later phase.
LEMMA CallsInvSwaps ==
  ASSUME CoreInv, UNCHANGED <<session, writing, busy, creating>>, NEW c \in calls, NEW d,
         GoesOn(c, d), calls' = (calls \ {c}) \union {d}, ids' \in {ids, ids + 1}
  PROVE  CallsInv'
<1>1. gen' = gen /\ writing' = writing /\ busy' = busy /\ creating' = creating
  BY DEF session
<1>2. Numbered(calls', ids', gen')
  BY <1>1, NumberedSwaps, NumberedRaises DEF CoreInv, CallsInv
<1>3. Locks(calls', gen', writing', busy', creating')
  BY <1>1, LocksSwaps DEF CoreInv, CallsInv
<1> QED  BY <1>1, <1>2, <1>3 DEF CoreInv, CallsInv

\* A call ends and gives its lock back.
Frees(c, lock, flag, next) == next = IF c.gen = gen /\ Lock(c) = lock THEN FALSE ELSE flag
LEMMA CallsInvEnds ==
  ASSUME CoreInv, UNCHANGED <<session, ids>>, NEW c \in calls, calls' = calls \ {c},
         Frees(c, "writing", writing, writing'), Frees(c, "busy", busy, busy'),
         Frees(c, "creating", creating, creating')
  PROVE  CallsInv'
<1> USE DEF Frees
<1>1. gen' = gen /\ ids' = ids
  BY DEF session
<1>2. Numbered(calls', ids', gen')
  BY <1>1, NumberedDrops DEF CoreInv, CallsInv
<1>3. Locks(calls, gen, writing, busy, creating)
  BY DEF CoreInv, CallsInv
<1>4. CASE c.gen # gen \/ Lock(c) = "none"
  <2>1. writing' = writing /\ busy' = busy /\ creating' = creating
    BY <1>4
  <2>2. Locks(calls', gen', writing', busy', creating')
    BY <1>1, <1>3, <1>4, <2>1, LocksDrops
  <2> QED  BY <1>2, <2>1, <2>2 DEF CoreInv, CallsInv
<1>5. CASE c.gen = gen /\ Lock(c) = "writing"
  <2>1. writing' = FALSE /\ busy' = busy /\ creating' = creating
    BY <1>5
  <2>2. Locks(calls \ {c}, gen, FALSE, busy, creating)
    BY <1>3, <1>5, LocksWritten
  <2>3. Locks(calls', gen', writing', busy', creating')
    BY <1>1, <2>1, <2>2
  <2> QED  BY <1>2, <2>1, <2>3 DEF CoreInv, CallsInv
<1>6. CASE c.gen = gen /\ Lock(c) = "busy"
  <2>1. writing' = writing /\ busy' = FALSE /\ creating' = creating
    BY <1>6
  <2>2. Locks(calls \ {c}, gen, writing, FALSE, creating)
    BY <1>3, <1>6, LocksFreed
  <2>3. Locks(calls', gen', writing', busy', creating')
    BY <1>1, <2>1, <2>2
  <2> QED  BY <1>2, <2>1, <2>3 DEF CoreInv, CallsInv
<1>7. CASE c.gen = gen /\ Lock(c) = "creating"
  <2>1. writing' = writing /\ busy' = busy /\ creating' = FALSE
    BY <1>7
  <2>2. Locks(calls \ {c}, gen, writing, busy, FALSE)
    BY <1>3, <1>7, LocksCreated
  <2>3. Locks(calls', gen', writing', busy', creating')
    BY <1>1, <2>1, <2>2
  <2> QED  BY <1>2, <2>1, <2>3 DEF CoreInv, CallsInv
<1> QED  BY <1>4, <1>5, <1>6, <1>7 DEF Lock

\* The user moves on and no call is made or ends.
LEMMA CoreInvMoves ==
  ASSUME CoreInv, UNCHANGED <<session, calls, writing, busy, creating, views, review, device>>,
         ids' \in {ids, ids + 1},
         list' = list \/ (Sound(list', gen) /\ list'.state # "loading"),
         detail' = detail \/ (Sound(detail', gen) /\ detail'.state # "loading"),
         attention' = attention \/ (Sound(attention', gen) /\ attention'.state # "loading"),
         Over(attention', detail'), Admitted(attention', detail', doubt'),
         view' \in {"list", "detail", "create"}, createError' \in {0, gen}
  PROVE  CoreInv'
<1>1. gen' = gen /\ usable' = usable
  BY DEF session
<1>2. CallsInv'
  <2>1. Numbered(calls', ids', gen')
    BY <1>1, NumberedRaises DEF CoreInv, CallsInv
  <2> QED  BY <1>1, <2>1 DEF CoreInv, CallsInv
<1>3. HeldInv'
  <2>1. Held(list', "list", calls', gen')
    BY <1>1, HeldIdle DEF CoreInv, HeldInv
  <2>2. Held(detail', "read", calls', gen')
    BY <1>1, HeldIdle DEF CoreInv, HeldInv
  <2>3. Held(attention', "write", calls', gen')
    BY <1>1, HeldIdle DEF CoreInv, HeldInv
  <2> QED  BY <2>1, <2>2, <2>3 DEF HeldInv
<1>4. WaitsInv'
  BY <1>1 DEF CoreInv, WaitsInv
<1>5. SessionInv' /\ CopiesInv' /\ FormInv'
  BY <1>1 DEF CoreInv, SessionInv, CopiesInv, FormInv, SoundForm
<1> QED  BY <1>2, <1>3, <1>4, <1>5 DEF CoreInv

\* A list call ends in the list, a read in the detail.
LEMMA CoreInvAnswers ==
  ASSUME CoreInv, NEW c \in calls, NEW o, Fits(o, c), calls' = calls \ {c},
         UNCHANGED <<session, ids, attention, writing, busy, views, review, device, doubt>>,
         \/ list' = Settled(list, c, o) /\ UNCHANGED detail /\ c.kind = "list"
         \/ detail' = Settled(detail, c, o) /\ UNCHANGED list /\ c.kind = "read",
         Frees(c, "creating", creating, creating'),
         view' \in {"list", "detail", "create"}, UNCHANGED createError
  PROVE  CoreInv'
<1>1. gen' = gen /\ usable' = usable
  BY DEF session
<1>2. Lock(c) \in {"none", "creating"}
  BY DEF Lock, TaskKinds
<1>3. CallsInv'
  BY <1>1, <1>2, CallsInvEnds DEF Frees
<1>4. /\ Numbered(calls, ids, gen) /\ Held(list, "list", calls, gen)
      /\ Held(detail, "read", calls, gen) /\ Held(attention, "write", calls, gen)
      /\ Sound(list, gen) /\ Sound(detail, gen) /\ Over(attention, detail)
      /\ Admitted(attention, detail, doubt)
  BY DEF CoreInv, CallsInv, HeldInv, WaitsInv
<1>5. Held(attention', "write", calls', gen')
  BY <1>1, <1>4, HeldDrops
<1>6. CASE list' = Settled(list, c, o) /\ UNCHANGED detail /\ c.kind = "list"
  <2>1. Awaited(list, c) => c.gen = gen
    BY <1>4, AwaitedIsCurrent
  <2>2. Held(list', "list", calls', gen') /\ Sound(list', gen')
    BY <1>1, <1>4, <1>6, <2>1, HeldSettled, SettledIs
  <2>3. Held(detail', "read", calls', gen')
    BY <1>1, <1>4, <1>6, HeldDrops
  <2> QED  BY <1>1, <1>3, <1>5, <1>6, <2>2, <2>3, UnsureDrops
           DEF CoreInv, HeldInv, WaitsInv, SessionInv, CopiesInv, FormInv, SoundForm
<1>7. CASE detail' = Settled(detail, c, o) /\ UNCHANGED list /\ c.kind = "read"
  <2>1. Awaited(detail, c) => c.gen = gen
    BY <1>4, AwaitedIsCurrent
  <2>2. Held(detail', "read", calls', gen') /\ Sound(detail', gen')
    BY <1>1, <1>4, <1>7, <2>1, HeldSettled, SettledIs
  <2>3. Held(list', "list", calls', gen')
    BY <1>1, <1>4, <1>7, HeldDrops
  <2>4. detail'.sel = detail.sel /\ (detail'.state = "none" <=> detail.state = "none")
        /\ (detail.state = "offline" => detail'.state = "offline")
    BY <1>4, <1>7, <2>1, SettledIs DEF Awaited
  <2>5. Over(attention', detail') /\ Admitted(attention', detail', doubt')
    BY <1>4, <2>4 DEF Over, Admitted
  <2> QED  BY <1>1, <1>3, <1>5, <1>7, <2>2, <2>3, <2>5, UnsureDrops
           DEF CoreInv, HeldInv, WaitsInv, SessionInv, CopiesInv, FormInv, SoundForm
<1> QED  BY <1>6, <1>7

\* A call goes on without an answer shown.
LEMMA CoreInvGoesOn ==
  ASSUME CoreInv, NEW c \in calls, NEW d, GoesOn(c, d), calls' = (calls \ {c}) \union {d},
         UNCHANGED <<session, list, detail, attention, views, writing, busy, creating, view,
                     createError, review, doubt, ids>>,
         Unsure(calls', gen, device')
  PROVE  CoreInv'
<1>1. gen' = gen /\ usable' = usable /\ ids' = ids
  BY DEF session
<1>2. CallsInv'
  BY <1>1, CallsInvSwaps
<1>3. HeldInv'
  BY <1>1, HeldSwaps DEF CoreInv, HeldInv
<1> QED  BY <1>1, <1>2, <1>3 DEF CoreInv, WaitsInv, SessionInv, CopiesInv, FormInv

-----------------------------------------------------------------------------
(* The list, the detail and the form. *)

\* What a new call changes beside its wait and its lock.
LEMMA Asking ==
  ASSUME CoreInv, NEW c, New(c, ids, gen), calls' = calls \union {c}, ids' = c.id,
         UNCHANGED session
  PROVE  /\ gen' = gen /\ usable' = usable /\ SessionInv'
         /\ Held(list, "list", calls', gen') /\ Held(detail, "read", calls', gen')
         /\ Held(attention, "write", calls', gen')
         /\ Unsure(calls', gen', device)
         /\ Held(Begins(c), c.kind, calls', gen')
         /\ Sound(Begins(c), gen') /\ Begins(c).state = "loading" /\ Begins(c).sel = c.of
<1>1. gen' = gen /\ usable' = usable /\ c.gen = gen /\ c.phase = "remote"
  BY DEF session, New
<1>2. /\ Held(list, "list", calls, gen) /\ Held(detail, "read", calls, gen)
      /\ Held(attention, "write", calls, gen) /\ Unsure(calls, gen, device)
  BY DEF CoreInv, HeldInv, CopiesInv
<1>3. c.id \in Nat /\ c.of \in Incidents \union {NoIncident}
  BY DEF New, Calls
<1>4. Sound(Begins(c), gen') /\ Begins(c).state = "loading" /\ Begins(c).sel = c.of
  BY <1>3, LoadingIs DEF Begins
<1>5. Held(Begins(c), c.kind, calls', gen')
  BY <1>1, HeldBegins
<1>6. Unsure(calls', gen', device)
  BY <1>1, <1>2, UnsureAdds
<1>7. /\ Held(list, "list", calls', gen') /\ Held(detail, "read", calls', gen')
      /\ Held(attention, "write", calls', gen')
  BY <1>1, <1>2, HeldGrows
<1> QED  BY <1>1, <1>4, <1>5, <1>6, <1>7 DEF CoreInv, SessionInv

LEMMA RefreshKeeps == CoreInv /\ Refresh => CoreInv'
<1> SUFFICES ASSUME CoreInv, Refresh PROVE CoreInv'
  OBVIOUS
<1> DEFINE c == Call("list", NoIncident)
<1>1. /\ c \in Calls /\ c.kind = "list" /\ c.id = ids + 1 /\ c.gen = gen /\ c.of = NoIncident
      /\ c.phase = "remote" /\ c.after = FALSE
  <2>1. Made(c, "list", NoIncident)
    BY CallIs DEF CoreInv, Kinds
  <2> HIDE DEF c
  <2> QED  BY <2>1 DEF Made
<1>2. /\ list' = Begins(c) /\ calls' = calls \union {c} /\ ids' = c.id
      /\ UNCHANGED <<session, detail, attention, views, writing, busy, form, review, device, doubt>>
  BY DEF Refresh, Refreshes
<1> HIDE DEF c
<1>3. New(c, ids, gen) /\ Lock(c) = "none"
  BY <1>1 DEF New, Lock, TaskKinds
<1>4. CallsInv'
  BY <1>2, <1>3, CallsInvAsks DEF form
<1>5. HeldInv' /\ Sound(list', gen') /\ SessionInv' /\ gen' = gen
  BY <1>1, <1>2, <1>3, Asking DEF HeldInv
<1>6. Unsure(calls', gen', device')
  BY <1>2, <1>3, Asking
<1> QED  BY <1>2, <1>4, <1>5, <1>6 DEF CoreInv, WaitsInv, CopiesInv, FormInv, form

LEMMA OpensKeeps ==
  ASSUME CoreInv, NEW i \in Incidents, Opens(i)
  PROVE  CoreInv'
<1> DEFINE c == Call("read", i)
<1>1. /\ c \in Calls /\ c.kind = "read" /\ c.id = ids + 1 /\ c.gen = gen /\ c.of = i
      /\ c.phase = "remote" /\ c.after = FALSE
  <2>1. Made(c, "read", i)
    BY CallIs DEF CoreInv, Kinds
  <2> HIDE DEF c
  <2> QED  BY <2>1 DEF Made
<1>2. /\ attention' = NoWait /\ detail' = Begins(c) /\ calls' = calls \union {c} /\ ids' = c.id
      /\ view' = "detail" /\ doubt' = doubt \ {i}
      /\ UNCHANGED <<session, list, views, writing, busy, creating, createError, review, device>>
  BY DEF Opens
<1> HIDE DEF c
<1>3. New(c, ids, gen) /\ Lock(c) = "none"
  BY <1>1 DEF New, Lock, TaskKinds
<1>4. CallsInv'
  BY <1>2, <1>3, CallsInvAsks
<1>5. HeldInv' /\ Sound(detail', gen') /\ SessionInv' /\ gen' = gen /\ detail'.sel = i
      /\ detail'.state = "loading"
  BY <1>1, <1>2, <1>3, Asking, Idle, HeldIdle DEF HeldInv
<1>6. Unsure(calls', gen', device')
  BY <1>2, <1>3, Asking
<1>7. Over(attention', detail') /\ Admitted(attention', detail', doubt')
  BY <1>2, <1>5, Idle DEF Over, Admitted, CoreInv, WaitsInv
<1>8. WaitsInv'
  BY <1>2, <1>5, <1>7, Idle DEF CoreInv, WaitsInv
<1> QED  BY <1>2, <1>4, <1>5, <1>6, <1>8 DEF CoreInv, CopiesInv, FormInv, SoundForm

LEMMA SelectLocalKeeps ==
  ASSUME CoreInv, NEW i \in Incidents, SelectLocal(i)
  PROVE  CoreInv'
<1>1. views.from = gen /\ gen \in 0..MaxGeneration /\ gen # 0
  BY ScreenAssumption DEF SelectLocal, CoreInv, CopiesInv, SoundViews, SessionInv
<1> DEFINE value == [of |-> i, from |-> views.from, sure |-> FALSE]
           local == [Loading(ids + 1, i) EXCEPT !.state = "offline", !.value = value]
<1>2. value \in Values /\ value # NoValue /\ value.of = i /\ value.from = gen
  BY <1>1 DEF Values, NoValue
<1>3. /\ detail' = local /\ attention' = NoWait /\ view' = "detail" /\ ids' = ids + 1
      /\ UNCHANGED <<session, list, views, writing, busy, creating, createError, review, calls,
                     device, doubt>>
  BY DEF SelectLocal
<1> HIDE DEF value
<1>4. local \in Waits /\ local.state = "offline" /\ local.value = value /\ local.sel = i
  <2>1. ids + 1 \in Nat
    BY Facts
  <2>2. Loading(ids + 1, i) \in Waits /\ Loading(ids + 1, i).sel = i
    BY <2>1, LoadingIs DEF Sound
  <2> QED  BY <1>2, <2>2 DEF Waits, WaitStates
<1> HIDE DEF local
<1>5. Sound(local, gen)
  BY <1>2, <1>4 DEF Sound, Valued
<1>6. Over(attention', detail') /\ Admitted(attention', detail', doubt')
  BY <1>3, <1>4, Idle DEF Over, Admitted, CoreInv, WaitsInv
<1> QED  BY <1>3, <1>4, <1>5, <1>6, Idle, CoreInvMoves DEF CoreInv, FormInv, SoundForm

LEMMA ReturnToListKeeps == CoreInv /\ ReturnToList => CoreInv'
<1> SUFFICES ASSUME CoreInv, ReturnToList PROVE CoreInv'
  OBVIOUS
<1>1. Over(attention', detail') /\ Admitted(attention', detail', doubt')
  BY Idle DEF ReturnToList, Over, Admitted, CoreInv, WaitsInv
<1> QED  BY <1>1, Idle, CoreInvMoves DEF ReturnToList, CoreInv, FormInv, SoundForm

LEMMA CancelKeeps == CoreInv /\ Cancel => CoreInv'
<1> SUFFICES ASSUME CoreInv, Cancel PROVE CoreInv'
  OBVIOUS
<1>1. /\ Sound(list, gen) /\ Sound(detail, gen) /\ Sound(attention, gen)
      /\ Over(attention, detail) /\ Admitted(attention, detail, doubt)
  BY DEF CoreInv, WaitsInv
<1>2. /\ list' = list \/ (Sound(list', gen) /\ list'.state # "loading")
      /\ detail' = detail \/ /\ Sound(detail', gen) /\ detail'.state = "cancelled"
                             /\ detail'.sel = detail.sel /\ detail.state = "loading"
      /\ attention' = attention \/ /\ Sound(attention', gen) /\ attention'.state = "cancelled"
                                   /\ attention'.sel = attention.sel /\ attention.state = "loading"
  BY <1>1, CancelledIs DEF Cancel
<1>3. doubt' = doubt
  BY DEF Cancel
<1>4. Over(attention', detail') /\ Admitted(attention', detail', doubt')
  BY <1>1, <1>2, <1>3 DEF Over, Admitted
<1>5. UNCHANGED <<session, calls, writing, busy, creating, views, review, device>> /\ ids' = ids
      /\ view' = view /\ createError' = createError
  BY DEF Cancel, form
<1> QED  BY <1>2, <1>4, <1>5, CoreInvMoves DEF CoreInv, FormInv, SoundForm

LEMMA FormsOpenKeep == CoreInv /\ (OpenCreate \/ CancelCreate) => CoreInv'
<1> SUFFICES ASSUME CoreInv, OpenCreate \/ CancelCreate PROVE CoreInv'
  OBVIOUS
<1>1. Over(attention', detail') /\ Admitted(attention', detail', doubt')
  BY DEF OpenCreate, CancelCreate, CoreInv, WaitsInv
<1> QED  BY <1>1, CoreInvMoves DEF OpenCreate, CancelCreate

LEMMA ListAnsweredKeeps ==
  ASSUME CoreInv, NEW c \in calls, ListAnswered(c)
  PROVE  CoreInv'
<1>1. c \in Calls
  BY Facts
<1>2. PICK o \in Answers(c) \union Fallbacks(c, HasCopies) : list' = Settled(list, c, o)
  BY DEF ListAnswered
<1>3. Fits(o, c)
  BY <1>1, <1>2, AnswersFit
<1>4. c.kind = "list" => (Lock(c) = "creating" <=> c.after)
  BY DEF Lock, TaskKinds
<1>5. Frees(c, "creating", creating, creating')
  <2>1. CASE c.after /\ Current(c)
    BY <1>4, <2>1 DEF ListAnswered, Frees, Current
  <2>2. CASE ~(c.after /\ Current(c))
    BY <1>4, <2>2 DEF ListAnswered, Frees, Current, form
  <2> QED  BY <2>1, <2>2
<1>6. view' \in {"list", "detail", "create"} /\ createError' = createError
  BY DEF ListAnswered, form, CoreInv, FormInv, SoundForm
<1>7. /\ calls' = calls \ {c} /\ c.kind = "list"
      /\ UNCHANGED <<session, ids, detail, attention, writing, busy, views, review, device, doubt>>
  BY DEF ListAnswered
<1> QED  BY <1>2, <1>3, <1>5, <1>6, <1>7, CoreInvAnswers

LEMMA DetailAnsweredKeeps ==
  ASSUME CoreInv, NEW c \in calls, DetailAnswered(c)
  PROVE  CoreInv'
<1>1. c \in Calls
  BY Facts
<1>2. PICK o \in Answers(c) \union Fallbacks(c, device[c.of] # "none") : detail' = Settled(detail, c, o)
  BY DEF DetailAnswered
<1>3. Fits(o, c)
  BY <1>1, <1>2, AnswersFit
<1>4. /\ calls' = calls \ {c} /\ c.kind = "read"
      /\ UNCHANGED <<session, ids, list, attention, writing, busy, views, review, device, doubt>>
      /\ creating' = creating /\ view' = view /\ createError' = createError
  BY DEF DetailAnswered, form
<1>5. Frees(c, "creating", creating, creating')
  BY <1>4 DEF Frees, Lock, TaskKinds
<1>6. view' \in {"list", "detail", "create"}
  BY <1>4 DEF CoreInv, FormInv, SoundForm
<1> QED  BY <1>2, <1>3, <1>4, <1>5, <1>6, CoreInvAnswers

LEMMA ReadFailsKeeps ==
  ASSUME CoreInv, NEW c \in calls, ListFails(c) \/ DetailFails(c)
  PROVE  CoreInv'
<1> DEFINE d == [c EXCEPT !.phase = "recovering"]
<1>1. c \in Calls
  BY Facts
<1>2. GoesOn(c, d)
  BY <1>1 DEF GoesOn, Calls
<1>3. /\ calls' = (calls \ {c}) \union {d} /\ c.kind \in {"list", "read"}
      /\ UNCHANGED <<session, list, detail, attention, views, writing, busy, form, review,
                     ids, device, doubt>>
  BY DEF ListFails, DetailFails, ReadFails
<1> HIDE DEF d
<1>4. Unsure(calls', gen, device')
  <2>1. d.kind # "write"
    BY <1>2, <1>3 DEF GoesOn
  <2> QED  BY <1>3, <2>1, UnsureDrops, UnsureAdds DEF CoreInv, CopiesInv
<1> QED  BY <1>2, <1>3, <1>4, CoreInvGoesOn DEF form

-----------------------------------------------------------------------------
(* Actions. *)

LEMMA WriteKeeps == CoreInv /\ Write => CoreInv'
<1> SUFFICES ASSUME CoreInv, Write PROVE CoreInv'
  OBVIOUS
<1>1. PICK start \in BOOLEAN :
        LET c == [Call("write", Shown.of) EXCEPT !.start = start]
        IN  attention' = Begins(c) /\ calls' = calls \union {c} /\ ids' = c.id
  BY DEF Write
<1> DEFINE asked == Call("write", Shown.of)
           c == [asked EXCEPT !.start = start]
<1>2. Shown.of \in Incidents /\ Shown.of = detail.sel /\ detail.state # "none"
  BY ShownIs DEF Write, MayWrite, CoreInv
<1>3. /\ asked \in Calls /\ asked.kind = "write" /\ asked.id = ids + 1 /\ asked.gen = gen
      /\ asked.of = Shown.of /\ asked.phase = "remote"
  <2>1. Shown.of \in Incidents \union {NoIncident} /\ "write" \in Kinds /\ SessionInv /\ CallsInv
    BY <1>2 DEF CoreInv, Kinds
  <2>2. Made(asked, "write", Shown.of)
    BY <2>1, CallIs
  <2> QED  BY <2>2 DEF Made
<1>4. attention' = Begins(c) /\ calls' = calls \union {c} /\ ids' = c.id
  BY <1>1
<1> HIDE DEF asked
<1>5. /\ c \in Calls /\ c.kind = "write" /\ c.id = ids + 1 /\ c.gen = gen
      /\ c.of = Shown.of /\ c.phase = "remote"
  BY <1>3 DEF Calls
<1> HIDE DEF c
<1>6. New(c, ids, gen) /\ Lock(c) = "writing"
  BY <1>2, <1>5 DEF New, Lock
<1>7. /\ writing' = TRUE /\ ~writing /\ ~busy /\ doubt' = doubt \union {Shown.of}
      /\ UNCHANGED <<session, list, detail, views, busy, form, review, device>>
  BY DEF Write, MayWrite
<1>8. /\ gen' = gen /\ SessionInv' /\ HeldInv' /\ Unsure(calls', gen', device')
      /\ Sound(attention', gen') /\ attention'.state = "loading" /\ attention'.sel = detail.sel
  BY <1>2, <1>4, <1>5, <1>6, <1>7, Asking DEF HeldInv
<1>9. CallsInv'
  <2>1. Numbered(calls', ids', gen')
    BY <1>4, <1>5, <1>6, <1>8, NumberedAdds, Facts DEF CoreInv, CallsInv
  <2>2. Locks(calls \union {c}, gen, TRUE, busy, creating)
    BY <1>5, <1>6, <1>7, LocksWriting DEF CoreInv, CallsInv
  <2>3. Locks(calls', gen', writing', busy', creating')
    BY <1>4, <1>7, <1>8, <2>2 DEF form
  <2> QED  BY <1>7, <2>1, <2>3 DEF CoreInv, CallsInv, form
<1>10. Over(attention', detail') /\ Admitted(attention', detail', doubt')
  BY <1>2, <1>7, <1>8 DEF Over, Admitted, CoreInv, WaitsInv
<1> QED  BY <1>7, <1>8, <1>9, <1>10 DEF CoreInv, WaitsInv, CopiesInv, FormInv, form

LEMMA WriteRecordedKeeps ==
  ASSUME CoreInv, NEW c \in calls, WriteRecorded(c)
  PROVE  CoreInv'
<1> DEFINE d == [c EXCEPT !.phase = "recorded"]
<1>1. c \in Calls
  BY Facts
<1>2. GoesOn(c, d) /\ d.phase = "recorded"
  BY <1>1 DEF GoesOn, Calls
<1>3. /\ calls' = (calls \ {c}) \union {d} /\ c.kind = "write" /\ c.gen = gen
      /\ device' = Recorded(c.of) /\ c.of \in Incidents
      /\ UNCHANGED <<session, list, detail, attention, views, writing, busy, form, review, ids, doubt>>
  BY DEF WriteRecorded, Current, CoreInv, CallsInv, Numbered
<1> HIDE DEF d
<1>4. device' \in Copies /\ device'[c.of] \in {"pending", "conflict"} /\ Lock(c) = "writing"
  BY <1>3 DEF Recorded, CoreInv, CopiesInv, Unsure, Copies, CopyStates, Lock
<1>5. Unsure(calls \ {c}, gen, device')
  BY <1>3, <1>4, UnsureAlone DEF CoreInv, CallsInv
<1>6. Unsure(calls', gen, device')
  BY <1>2, <1>3, <1>4, <1>5 DEF Unsure, GoesOn
<1> QED  BY <1>2, <1>3, <1>6, CoreInvGoesOn DEF form

LEMMA LeftAre ==
  ASSUME device \in Copies, NEW c, NEW copies \in Left(c)
  PROVE  /\ copies \in Copies
         /\ ~Current(c) => copies = device
         /\ c.start /\ Current(c) /\ c.phase = "recorded" => copies \in Synchronized
<1>1. device \in Copies /\ Stored(c.of) \in Copies /\ Synchronized \subseteq Copies
  BY DEF Stored, Copies, CopyStates, Synchronized
<1> QED  BY <1>1 DEF Left

LEMMA WriteAnsweredKeeps ==
  ASSUME CoreInv, NEW c \in calls, WriteAnswered(c)
  PROVE  CoreInv'
<1>1. PICK updated \in BOOLEAN, lost \in BOOLEAN :
        /\ updated => ~lost /\ (c.start => c.phase = "recorded" /\ Current(c))
        /\ IF Current(c) /\ Awaited(attention, c)
           THEN /\ calls' = (calls \ {c}) \union
                     {[c EXCEPT !.phase = "recovering", !.updated = updated, !.lost = lost,
                                !.sure = updated /\ (c.start => device'[c.of] = "clean")]}
                /\ UNCHANGED writing
           ELSE calls' = calls \ {c} /\ WriteEnds(c)
  BY DEF WriteAnswered
<1>2. c \in Calls /\ c.kind = "write" /\ Lock(c) = "writing" /\ c.of \in Incidents
  BY Facts DEF WriteAnswered, Lock, CoreInv, CallsInv, Numbered
<1>3. UNCHANGED <<session, list, detail, attention, views, busy, form, review, ids, doubt>>
  BY DEF WriteAnswered
<1>4. /\ Locks(calls, gen, writing, busy, creating) /\ Unsure(calls, gen, device)
      /\ device \in Copies
  BY DEF CoreInv, CallsInv, CopiesInv, Unsure
<1>5. /\ device' \in Copies /\ (~Current(c) => device' = device)
      /\ c.start /\ Current(c) /\ c.phase = "recorded" => device' \in Synchronized
  BY <1>4, LeftAre DEF WriteAnswered
<1>6. c.gen = gen => Unsure(calls \ {c}, gen, device')
  BY <1>2, <1>4, <1>5, UnsureAlone
<1>7. CASE Current(c) /\ Awaited(attention, c)
  <2> DEFINE d == [c EXCEPT !.phase = "recovering", !.updated = updated, !.lost = lost,
                            !.sure = updated /\ (c.start => device'[c.of] = "clean")]
  <2>1. calls' = (calls \ {c}) \union {d} /\ writing' = writing
    BY <1>1, <1>7
  <2>2. /\ GoesOn(c, d) /\ d.updated = updated /\ d.phase = "recovering"
        /\ d.sure = (updated /\ (c.start => device'[c.of] = "clean"))
    BY <1>2 DEF GoesOn, Calls
  <2> HIDE DEF d
  <2>3. d.updated /\ ~d.sure => device'[d.of] \in {"pending", "conflict"}
    <3> SUFFICES ASSUME d.updated, ~d.sure PROVE device'[c.of] \in {"pending", "conflict"}
      BY <2>2 DEF GoesOn
    <3>1. updated /\ c.start /\ c.phase = "recorded" /\ device'[c.of] # "clean"
      BY <1>1, <2>2
    <3>2. device[c.of] \in {"pending", "conflict"}
      BY <1>2, <1>4, <1>7, <3>1 DEF Unsure, Current
    <3> QED  BY <1>2, <1>5, <1>7, <3>1, <3>2 DEF Synchronized
  <2>4. Unsure((calls \ {c}) \union {d}, gen, device')
    BY <1>5, <1>6, <1>7, <2>2, <2>3 DEF Unsure, Current
  <2> QED  BY <1>3, <2>1, <2>2, <2>4, CoreInvGoesOn DEF form
<1>8. CASE ~(Current(c) /\ Awaited(attention, c))
  <2>1. calls' = calls \ {c} /\ WriteEnds(c)
    BY <1>1, <1>8
  <2>2. /\ gen' = gen /\ usable' = usable /\ busy' = busy /\ creating' = creating /\ ids' = ids
        /\ Frees(c, "writing", writing, writing')
        /\ Frees(c, "busy", busy, busy') /\ Frees(c, "creating", creating, creating')
    BY <1>2, <1>3, <2>1 DEF Frees, WriteEnds, Current, session, form
  <2>3. CallsInv'
    BY <1>3, <2>1, <2>2, CallsInvEnds
  <2>4. HeldInv'
    BY <1>2, <1>3, <1>8, <2>1, <2>2, HeldDrops DEF CoreInv, HeldInv, Current
  <2>5. Unsure(calls', gen', device')
    BY <1>4, <1>5, <1>6, <2>1, <2>2, UnsureDrops DEF Current
  <2> QED  BY <1>3, <2>2, <2>3, <2>4, <2>5
           DEF CoreInv, SessionInv, WaitsInv, CopiesInv, FormInv, form
<1> QED  BY <1>7, <1>8

\* What a settled action shows; a success was confirmed.
LEMMA WriteOutcomeFits ==
  ASSUME CoreInv, NEW c \in calls, c.kind = "write", c.phase = "recovering",
         NEW recovered \in BOOLEAN, recovered => c.gen = gen
  PROVE  Fits(WriteOutcome(c, recovered), c)
<1>1. c \in Calls /\ c.sure \in BOOLEAN /\ c.of \in Incidents /\ device[c.of] \in CopyStates
  BY Facts DEF Calls, CoreInv, CallsInv, Numbered, CopiesInv, Unsure, Copies
<1> DEFINE saved == IF recovered THEN device[c.of] ELSE "none"
           value == [Obtained(c) EXCEPT !.sure = c.sure]
<1>2. /\ value \in Values /\ value.of = c.of /\ value.from = c.gen /\ value # NoValue
      /\ value.sure = c.sure
  BY <1>1 DEF Obtained, Values, NoValue, Calls
<1>3. saved \notin {"pending", "conflict"} /\ Confirmed(c, recovered) => c.sure
  BY <1>1 DEF Confirmed, CoreInv, CopiesInv, Unsure
<1> DEFINE waits == saved \in {"pending", "conflict"}
<1>4. WriteOutcome(c, recovered) =
        CASE waits -> Outcome(saved, Local(c))
          [] ~waits /\ Confirmed(c, recovered) -> Outcome("success", value)
          [] ~waits /\ ~Confirmed(c, recovered) /\ saved # "none" /\ c.lost ->
               Outcome("offline", Local(c))
          [] OTHER -> Outcome("error", NoValue)
  BY DEF WriteOutcome
<1>5. NoValue \in Values
  BY Idle
<1> HIDE DEF value, saved
<1>6. \/ saved \in {"pending", "conflict"} /\ WriteOutcome(c, recovered) = Outcome(saved, Local(c))
      \/ c.sure /\ WriteOutcome(c, recovered) = Outcome("success", value)
      \/ WriteOutcome(c, recovered) = Outcome("offline", Local(c))
      \/ WriteOutcome(c, recovered) = Outcome("error", NoValue)
  BY <1>3, <1>4
<1> QED  BY <1>1, <1>2, <1>5, <1>6, ValuesOfCalls DEF Fits, Outcome, WaitStates, Valued

LEMMA WriteRecoveredKeeps ==
  ASSUME CoreInv, NEW c \in calls, WriteRecovered(c)
  PROVE  CoreInv'
<1> DEFINE again == Call("list", NoIncident)
<1>0. /\ again \in Calls /\ again.kind = "list" /\ again.id = ids + 1 /\ again.gen = gen
      /\ again.of = NoIncident /\ again.phase = "remote" /\ again.after = FALSE
  <2>1. NoIncident \in Incidents \union {NoIncident} /\ "list" \in Kinds /\ SessionInv /\ CallsInv
    BY DEF CoreInv, Kinds
  <2>2. Made(again, "list", NoIncident)
    BY <2>1, CallIs
  <2> QED  BY <2>2 DEF Made
<1>1. PICK recovered \in {FALSE} \union {Current(c)} :
        LET o == WriteOutcome(c, recovered)
            settles == Awaited(attention, c)
            begun == Call("list", NoIncident)
        IN /\ attention' = Settled(attention, c, o)
           /\ views' = IF settles /\ recovered THEN [from |-> gen, of |-> device] ELSE views
           /\ doubt' = IF settles /\ o.state = "success" THEN doubt \ {c.of} ELSE doubt
           /\ IF settles /\ o.state = "success"
              THEN list' = Begins(begun) /\ ids' = ids + 1
                   /\ calls' = (calls \ {c}) \union {begun}
              ELSE calls' = calls \ {c} /\ UNCHANGED <<list, ids>>
  BY DEF WriteRecovered
<1> DEFINE o == WriteOutcome(c, recovered)
<1>2. c \in Calls /\ c.kind = "write" /\ c.phase = "recovering" /\ Lock(c) = "writing" /\ c.of \in Incidents
  BY Facts DEF WriteRecovered, Lock, CoreInv, CallsInv, Numbered
<1>3. recovered \in BOOLEAN /\ (recovered => c.gen = gen)
  BY <1>1 DEF Current
<1>4. Fits(o, c)
  BY <1>2, <1>3, WriteOutcomeFits
<1>6. /\ attention' = Settled(attention, c, o)
      /\ views' = IF Awaited(attention, c) /\ recovered THEN [from |-> gen, of |-> device] ELSE views
      /\ doubt' = IF Awaited(attention, c) /\ o.state = "success" THEN doubt \ {c.of} ELSE doubt
      /\ \/ list' = Begins(again) /\ ids' = ids + 1 /\ calls' = (calls \ {c}) \union {again}
         \/ calls' = calls \ {c} /\ UNCHANGED <<list, ids>>
  BY <1>1
<1> HIDE DEF o, again
<1>7. /\ UNCHANGED <<session, detail, busy, form, review, device>> /\ WriteEnds(c)
      /\ gen' = gen /\ usable' = usable /\ busy' = busy /\ creating' = creating /\ detail' = detail
      /\ writing' = IF c.gen = gen THEN FALSE ELSE writing
  BY DEF WriteRecovered, WriteEnds, Current, session, form
<1>8. /\ Numbered(calls, ids, gen) /\ Locks(calls, gen, writing, busy, creating)
      /\ writing \in BOOLEAN
      /\ Held(list, "list", calls, gen) /\ Held(detail, "read", calls, gen)
      /\ Held(attention, "write", calls, gen) /\ Unsure(calls, gen, device)
      /\ Sound(list, gen) /\ Sound(detail, gen) /\ Sound(attention, gen)
      /\ Over(attention, detail) /\ Admitted(attention, detail, doubt)
  BY DEF CoreInv, CallsInv, HeldInv, CopiesInv, WaitsInv
<1>9. Awaited(attention, c) => Fits(o, c) /\ c.gen = gen
  BY <1>4, <1>8, AwaitedIsCurrent
<1> DEFINE rest == calls \ {c}
<1>10. /\ Numbered(rest, ids, gen) /\ Unsure(rest, gen, device)
       /\ Held(list, "list", rest, gen) /\ Held(detail, "read", rest, gen)
       /\ Held(attention', "write", rest, gen)
  BY <1>2, <1>6, <1>8, <1>9, NumberedDrops, UnsureDrops, HeldDrops, HeldSettled
<1>11. Locks(rest, gen, writing', busy, creating)
  <2>1. CASE c.gen = gen
    <3>1. Locks(rest, gen, FALSE, busy, creating)
      BY <1>2, <1>8, <2>1, LocksWritten
    <3> QED  BY <1>7, <2>1, <3>1
  <2>2. CASE c.gen # gen
    <3>1. Locks(rest, gen, writing, busy, creating)
      BY <1>2, <1>8, <2>2, LocksDrops
    <3> QED  BY <1>7, <2>2, <3>1
  <2> QED  BY <2>1, <2>2
<1> HIDE DEF rest
<1>12. /\ Numbered(calls', ids', gen) /\ Locks(calls', gen, writing', busy, creating)
       /\ Held(list', "list", calls', gen) /\ Held(detail, "read", calls', gen)
       /\ Held(attention', "write", calls', gen) /\ Unsure(calls', gen, device)
       /\ Sound(list', gen)
  <2>1. CASE list' = Begins(again) /\ ids' = ids + 1 /\ calls' = rest \union {again}
    <3>1. New(again, ids, gen) /\ Lock(again) = "none"
      BY <1>0 DEF New, Lock, TaskKinds
    <3>2. Held(Begins(again), "list", rest \union {again}, gen)
      BY <1>0, HeldBegins
    <3>3. Sound(Begins(again), gen)
      <4>1. again.id \in Nat /\ again.of \in Incidents \union {NoIncident}
        BY <1>0 DEF Calls
      <4> QED  BY <4>1, LoadingIs DEF Begins
    <3>4. Numbered(calls', ids', gen)
      BY <1>10, <2>1, <3>1, NumberedAdds, Facts
    <3>5. Locks(calls', gen, writing', busy, creating)
      BY <1>11, <2>1, <3>1, LocksAdds
    <3> QED  BY <1>0, <1>10, <2>1, <3>2, <3>3, <3>4, <3>5, UnsureAdds, HeldGrows
  <2>2. CASE calls' = rest /\ UNCHANGED <<list, ids>>
    BY <1>8, <1>10, <1>11, <2>2
  <2> QED  BY <1>6, <2>1, <2>2 DEF rest
<1>13. CallsInv' /\ HeldInv'
  BY <1>7, <1>8, <1>12 DEF CoreInv, CallsInv, HeldInv
<1>14. Sound(attention', gen) /\ attention'.sel = attention.sel
  BY <1>6, <1>8, <1>9, SettledIs
<1>15. Over(attention', detail) /\ Admitted(attention', detail, doubt')
  <2>1. CASE ~Awaited(attention, c)
    BY <1>6, <1>8, <2>1, SettledIs
  <2>2. CASE Awaited(attention, c)
    <3>1. /\ attention'.state = o.state /\ attention'.state # "none" /\ attention.state # "none"
          /\ attention.sel = c.of
      BY <1>6, <1>8, <1>9, <2>2, SettledIs DEF Awaited
    <3> QED  BY <1>6, <1>8, <1>14, <2>2, <3>1 DEF Over, Admitted
  <2> QED  BY <2>1, <2>2
<1>16. SoundViews(views', gen)
  <2>1. [from |-> gen, of |-> device] \in Views
    BY ScreenAssumption DEF Views, CoreInv, SessionInv, CopiesInv, Unsure
  <2>2. gen # 0 /\ SoundViews(views, gen)
    BY DEF CoreInv, SessionInv, CopiesInv
  <2> QED  BY <1>6, <2>1, <2>2 DEF SoundViews
<1>17. WaitsInv' /\ CopiesInv' /\ FormInv' /\ SessionInv'
  BY <1>7, <1>8, <1>12, <1>14, <1>15, <1>16
  DEF CoreInv, WaitsInv, CopiesInv, FormInv, SessionInv, form
<1> QED  BY <1>13, <1>17 DEF CoreInv

-----------------------------------------------------------------------------
(* Creations. *)

LEMMA CreateKeeps == CoreInv /\ Create => CoreInv'
<1> SUFFICES ASSUME CoreInv, Create PROVE CoreInv'
  OBVIOUS
<1> DEFINE c == Call("create", NoIncident)
<1>1. /\ c \in Calls /\ c.kind = "create" /\ c.id = ids + 1 /\ c.gen = gen /\ c.of = NoIncident
      /\ c.phase = "remote" /\ c.after = FALSE
  <2>1. Made(c, "create", NoIncident)
    BY CallIs DEF CoreInv, Kinds
  <2> HIDE DEF c
  <2> QED  BY <2>1 DEF Made
<1>2. /\ creating' = TRUE /\ ~creating /\ createError' = 0
      /\ calls' = calls \union {c} /\ ids' = ids + 1
      /\ UNCHANGED <<session, list, detail, attention, views, writing, busy, view, review, device,
                     doubt>>
  BY DEF Create
<1> HIDE DEF c
<1>3. New(c, ids, gen) /\ Lock(c) = "creating"
  BY <1>1 DEF New, Lock, TaskKinds
<1>4. /\ gen' = gen /\ SessionInv' /\ HeldInv' /\ Unsure(calls', gen', device')
  BY <1>1, <1>2, <1>3, Asking DEF HeldInv
<1>5. Numbered(calls', ids', gen')
  BY <1>2, <1>3, <1>4, NumberedAdds, Facts DEF CoreInv, CallsInv
<1>6. Locks(calls', gen', writing', busy', creating')
  <2>1. Locks(calls \union {c}, gen, writing, busy, TRUE)
    BY <1>1, <1>2, <1>3, LocksCreating DEF CoreInv, CallsInv
  <2> QED  BY <1>2, <1>4, <2>1
<1> QED  BY <1>2, <1>4, <1>5, <1>6 DEF CoreInv, CallsInv, WaitsInv, CopiesInv, FormInv, SoundForm

\* A call ends and nothing of its answer is shown in a wait.
LEMMA CoreInvEnds ==
  ASSUME CoreInv, NEW c \in calls, c.kind \notin {"list", "read", "write"}, calls' = calls \ {c},
         UNCHANGED <<session, ids, list, detail, attention, writing, view, review, doubt>>,
         Frees(c, "busy", busy, busy'), Frees(c, "creating", creating, creating'),
         createError' \in {0, gen}, SoundViews(views', gen), Unsure(calls \ {c}, gen, device')
  PROVE  CoreInv'
<1>1. gen' = gen /\ usable' = usable /\ list' = list /\ detail' = detail /\ attention' = attention
  BY DEF session
<1>2. Frees(c, "writing", writing, writing')
  BY DEF Frees, Lock
<1>3. CallsInv'
  BY <1>2, CallsInvEnds
<1>4. HeldInv'
  BY <1>1, HeldDrops DEF CoreInv, HeldInv
<1>5. Unsure(calls', gen', device')
  BY <1>1
<1>6. createError' \in {0, gen'} /\ SoundViews(views', gen')
  BY <1>1
<1> QED  BY <1>1, <1>3, <1>4, <1>5, <1>6
         DEF CoreInv, SessionInv, WaitsInv, CopiesInv, FormInv, SoundForm

LEMMA CreateFailsKeeps ==
  ASSUME CoreInv, NEW c \in calls, CreateFails(c)
  PROVE  CoreInv'
<1>1. Lock(c) = "creating" /\ c.kind \notin {"list", "read", "write"}
  BY DEF CreateFails, Lock, TaskKinds
<1>2. Frees(c, "busy", busy, busy') /\ Frees(c, "creating", creating, creating')
  BY <1>1 DEF CreateFails, Frees, Current
<1>3. createError' \in {0, gen}
  BY DEF CreateFails, Current, CoreInv, FormInv, SoundForm
<1>4. /\ calls' = calls \ {c}
      /\ UNCHANGED <<session, ids, list, detail, attention, writing, view, review, device, doubt>>
      /\ views' = views
  BY DEF CreateFails
<1>5. SoundViews(views', gen) /\ Unsure(calls \ {c}, gen, device')
  BY <1>4, UnsureDrops DEF CoreInv, CopiesInv
<1> QED  BY <1>1, <1>2, <1>3, <1>4, <1>5, CoreInvEnds

LEMMA CreateSucceedsKeeps ==
  ASSUME CoreInv, NEW c \in calls, CreateSucceeds(c)
  PROVE  CoreInv'
<1>1. c.kind = "create" /\ Lock(c) = "creating"
  BY DEF CreateSucceeds, Lock, TaskKinds
<1>2. /\ UNCHANGED <<session, detail, attention, views, writing, busy, form, review, device, doubt>>
      /\ gen' = gen /\ usable' = usable /\ creating' = creating /\ view' = view
      /\ createError' = createError
  BY DEF CreateSucceeds, session, form
<1>3. CASE ~Current(c)
  <2>1. calls' = calls \ {c} /\ ids' = ids /\ list' = list
    BY <1>3 DEF CreateSucceeds
  <2>2. Frees(c, "busy", busy, busy') /\ Frees(c, "creating", creating, creating')
    BY <1>2, <1>3 DEF Frees, Current
  <2>3. Unsure(calls \ {c}, gen, device')
    BY <1>2, UnsureDrops DEF CoreInv, CopiesInv
  <2> QED  BY <1>1, <1>2, <2>1, <2>2, <2>3, CoreInvEnds DEF CoreInv, FormInv, SoundForm, CopiesInv
<1>4. CASE Current(c)
  <2> DEFINE asked == Call("list", NoIncident)
             again == [asked EXCEPT !.after = TRUE]
             rest == calls \ {c}
  <2>1. list' = Begins(again) /\ calls' = rest \union {again} /\ ids' = ids + 1
    BY <1>4 DEF CreateSucceeds
  <2>2. /\ asked \in Calls /\ asked.kind = "list" /\ asked.id = ids + 1 /\ asked.gen = gen
        /\ asked.of = NoIncident /\ asked.phase = "remote"
    <3>1. NoIncident \in Incidents \union {NoIncident} /\ "list" \in Kinds /\ SessionInv /\ CallsInv
      BY DEF CoreInv, Kinds
    <3>2. Made(asked, "list", NoIncident)
      BY <3>1, CallIs
    <3> QED  BY <3>2 DEF Made
  <2> HIDE DEF asked
  <2>3. /\ again \in Calls /\ again.kind = "list" /\ again.id = ids + 1 /\ again.gen = gen
        /\ again.of = NoIncident /\ again.phase = "remote" /\ again.after = TRUE
    BY <2>2 DEF Calls
  <2> HIDE DEF again
  <2>4. New(again, ids, gen) /\ Lock(again) = "creating"
    BY <2>3 DEF New, Lock, TaskKinds
  <2>5. /\ Numbered(calls, ids, gen) /\ Locks(calls, gen, writing, busy, creating)
        /\ creating \in BOOLEAN /\ Held(detail, "read", calls, gen)
        /\ Held(attention, "write", calls, gen) /\ Unsure(calls, gen, device)
    BY DEF CoreInv, CallsInv, HeldInv, CopiesInv
  <2>6. creating = TRUE
    BY <1>1, <1>4, <2>5 DEF Locks, Locked, Current
  <2>7. /\ Numbered(rest, ids, gen) /\ Unsure(rest, gen, device)
        /\ Held(detail, "read", rest, gen) /\ Held(attention, "write", rest, gen)
    BY <1>1, <2>5, NumberedDrops, UnsureDrops, HeldDrops
  <2>8. Locks(rest, gen, writing, busy, FALSE)
    BY <1>1, <1>4, <2>5, LocksCreated DEF Current
  <2> HIDE DEF rest
  <2>9. Numbered(calls', ids', gen)
    BY <2>1, <2>4, <2>7, NumberedAdds, Facts
  <2>10. Locks(calls', gen, writing, busy, creating)
    <3>1. Locks(rest \union {again}, gen, writing, busy, TRUE)
      BY <2>3, <2>4, <2>8, LocksCreating
    <3> QED  BY <2>1, <2>6, <3>1
  <2>11. Held(list', "list", calls', gen)
    BY <2>1, <2>3, HeldBegins
  <2>12. Sound(list', gen)
    <3>1. again.id \in Nat /\ again.of \in Incidents \union {NoIncident}
      BY <2>3 DEF Calls
    <3> QED  BY <2>1, <3>1, LoadingIs DEF Begins
  <2>13. /\ Unsure(calls', gen, device) /\ Held(detail, "read", calls', gen)
         /\ Held(attention, "write", calls', gen)
    BY <2>1, <2>3, <2>7, UnsureAdds, HeldGrows
  <2> QED  BY <1>2, <2>5, <2>9, <2>10, <2>11, <2>12, <2>13
           DEF CoreInv, CallsInv, HeldInv, WaitsInv, CopiesInv, FormInv, SessionInv
<1> QED  BY <1>3, <1>4

-----------------------------------------------------------------------------
(* The panel. *)

LEMMA PerformKeeps ==
  ASSUME CoreInv, NEW kind \in TaskKinds, Perform(kind)
  PROVE  CoreInv'
<1> DEFINE asked == Call(kind, Shown.of)
           local == kind = "sync" /\ LocalOutcome(Shown.of) # "none"
           c == [asked EXCEPT !.seen = detail.id, !.local = local]
<1>1. /\ asked \in Calls /\ asked.kind = kind /\ asked.gen = gen /\ asked.phase = "remote"
      /\ asked.id = (IF kind = "inspect" THEN 0 ELSE ids + 1) /\ asked.of = Shown.of
  <2>1. Shown.of \in Incidents \union {NoIncident} /\ kind \in Kinds /\ SessionInv /\ CallsInv
    BY ShownIs DEF CoreInv, Kinds, TaskKinds
  <2>2. Made(asked, kind, Shown.of)
    BY <2>1, CallIs
  <2> QED  BY <2>2 DEF Made
<1>2. /\ calls' = calls \union {c} /\ ids' = (IF kind = "inspect" THEN ids ELSE ids + 1)
      /\ busy' = TRUE /\ ~busy /\ ~writing
      /\ UNCHANGED <<session, list, detail, attention, views, writing, form, review, device, doubt>>
  BY DEF Perform
<1>3. local \in BOOLEAN
  OBVIOUS
<1> HIDE DEF asked, local
<1>4. /\ c \in Calls /\ c.kind = kind /\ c.gen = gen /\ c.phase = "remote" /\ c.of = Shown.of
      /\ c.id = (IF kind = "inspect" THEN 0 ELSE ids + 1)
  <2>1. detail.id \in Nat
    BY DEF CoreInv, WaitsInv, Sound, Waits
  <2> QED  BY <1>1, <1>3, <2>1 DEF Calls
<1> HIDE DEF c
<1>5. c.kind \in {"read", "write", "keep", "reformulate"} => c.of \in Incidents
  <2>1. Shown # NoValue => Shown.of \in Incidents
    BY ShownIs DEF CoreInv
  <2>2. kind = "keep" => Shown # NoValue
    BY DEF Perform, Allowed
  <2>3. kind = "reformulate" => Shown.of # NoIncident
    BY DEF Perform, Allowed, Selected
  <2> QED  BY <1>4, <2>1, <2>2, <2>3, ShownIs DEF TaskKinds, CoreInv
<1>6. New(c, ids, gen) /\ Lock(c) = "busy" /\ c.kind # "write"
  BY <1>4, <1>5 DEF New, Lock, TaskKinds
<1>7. gen' = gen /\ SessionInv' /\ HeldInv' /\ Unsure(calls', gen', device')
  <2>1. gen' = gen /\ usable' = usable
    BY <1>2 DEF session
  <2>2. /\ Held(list, "list", calls', gen') /\ Held(detail, "read", calls', gen')
        /\ Held(attention, "write", calls', gen')
    BY <1>2, <2>1, HeldGrows DEF CoreInv, HeldInv
  <2>3. Unsure(calls', gen', device')
    BY <1>2, <1>6, <2>1, UnsureAdds DEF CoreInv, CopiesInv
  <2> QED  BY <1>2, <2>1, <2>2, <2>3 DEF CoreInv, SessionInv, HeldInv
<1>8. Numbered(calls', ids', gen')
  <2>1. Numbered(calls, ids, gen) /\ gen \in Nat
    BY Facts DEF CoreInv, CallsInv
  <2>2. CASE kind = "inspect"
    BY <1>2, <1>4, <1>6, <1>7, <2>1, <2>2, NumberedInspects
  <2>3. CASE kind # "inspect"
    BY <1>2, <1>6, <1>7, <2>1, <2>3, NumberedAdds
  <2> QED  BY <2>2, <2>3
<1>9. Locks(calls', gen', writing', busy', creating')
  <2>1. Locks(calls \union {c}, gen, writing, TRUE, creating)
    BY <1>2, <1>4, <1>6, LocksBusy DEF CoreInv, CallsInv
  <2> QED  BY <1>2, <1>7, <2>1 DEF form
<1> QED  BY <1>2, <1>7, <1>8, <1>9 DEF CoreInv, CallsInv, WaitsInv, CopiesInv, FormInv, form

LEMMA ResultsAre ==
  ASSUME device \in Copies, NEW c, NEW copies \in Results(c)
  PROVE  copies \in Copies
<1>1. ASSUME NEW state \in CopyStates PROVE [device EXCEPT ![c.of] = state] \in Copies
  BY DEF Copies
<1>2. Recorded(c.of) \in Copies /\ Synchronized \subseteq Copies
  BY <1>1 DEF Recorded, Synchronized, CopyStates
<1> DEFINE own == IF c.of = NoIncident THEN "none" ELSE device[c.of]
<1>3. \/ copies \in Synchronized \/ copies = Recorded(c.of) \/ copies = device
      \/ \E state \in {"pending", "conflict", "archived"} : copies = [device EXCEPT ![c.of] = state]
  <2>1. CASE c.kind \in {"sync", "record", "inspect"}
    BY <2>1 DEF Results
  <2>2. CASE c.kind = "keep"
    BY <2>2 DEF Results
  <2>3. CASE c.kind \notin {"sync", "record", "inspect", "keep"}
    BY <2>3 DEF Results
  <2> QED  BY <2>1, <2>2, <2>3
<1> QED  BY <1>1, <1>2, <1>3 DEF CopyStates

LEMMA TaskAnsweredKeeps ==
  ASSUME CoreInv, NEW c \in calls, TaskAnswered(c)
  PROVE  CoreInv'
<1> DEFINE d == [c EXCEPT !.phase = "recovering"]
<1>1. c \in Calls /\ c.kind \in TaskKinds /\ c.kind # "write" /\ Lock(c) = "busy" /\ c.gen = gen
  BY Facts DEF TaskAnswered, TaskKinds, Lock, Current
<1>2. GoesOn(c, d)
  BY <1>1 DEF GoesOn, Calls
<1>3. PICK copies \in Results(c) :
        /\ device' = copies /\ Keeps(c)
        /\ calls' = (calls \ {c}) \union {d}
        /\ review' = IF c.kind = "inspect" THEN c.seen ELSE review
        /\ IF Recovers(c, copies) /\ StillShown(c)
           THEN LET state == ShownAs(c, copies) IN
                /\ attention' = NoWait
                /\ detail' = [Loading(c.id, c.of) EXCEPT
                                !.state = state,
                                !.value = [Local(c) EXCEPT !.sure = FromServer(c, copies)]]
                /\ doubt' = IF state = "success" THEN doubt \ {c.of} ELSE doubt
           ELSE UNCHANGED <<detail, attention, doubt>>
  BY DEF TaskAnswered
<1> HIDE DEF d
<1>4. /\ UNCHANGED <<session, list, views, writing, busy, form, ids>>
      /\ gen' = gen /\ usable' = usable /\ creating' = creating /\ view' = view
      /\ createError' = createError
  BY DEF TaskAnswered, session, form
<1>5. device' \in Copies
  BY <1>3, ResultsAre DEF CoreInv, CopiesInv, Unsure
<1>6. Unsure(calls', gen', device')
  <2>1. Unsure(calls \ {c}, gen, device')
    BY <1>1, <1>5, UnsureAlone DEF CoreInv, CallsInv
  <2>2. d.kind # "write"
    BY <1>1, <1>2 DEF GoesOn
  <2> QED  BY <1>3, <1>4, <2>1, <2>2, UnsureAdds
<1>7. CallsInv'
  BY <1>2, <1>3, <1>4, CallsInvSwaps
<1>8. /\ Held(list, "list", calls', gen') /\ Held(detail, "read", calls', gen')
      /\ Held(attention, "write", calls', gen')
  BY <1>2, <1>3, <1>4, HeldSwaps DEF CoreInv, HeldInv
<1>9. SessionInv' /\ FormInv' /\ CopiesInv'
  <2>1. review' \in Nat
    BY <1>1, <1>3 DEF Calls, CoreInv, FormInv, SoundForm
  <2> QED  BY <1>4, <1>6, <2>1 DEF CoreInv, SessionInv, FormInv, SoundForm, CopiesInv
<1>10. CASE ~(Recovers(c, copies) /\ StillShown(c))
  <2>1. UNCHANGED <<detail, attention, doubt>>
    BY <1>3, <1>10
  <2>2. HeldInv'
    BY <1>4, <1>8, <2>1 DEF HeldInv
  <2> QED  BY <1>4, <1>7, <1>9, <2>1, <2>2 DEF CoreInv, WaitsInv
<1>11. CASE Recovers(c, copies) /\ StillShown(c)
  <2> DEFINE state == ShownAs(c, copies)
             sure == FromServer(c, copies)
             value == [Local(c) EXCEPT !.sure = sure]
             shown == [Loading(c.id, c.of) EXCEPT !.state = state, !.value = value]
  <2>1. /\ attention' = NoWait /\ detail' = shown
        /\ doubt' = IF state = "success" THEN doubt \ {c.of} ELSE doubt
    BY <1>3, <1>11
  <2>2. c.of \in Incidents /\ state \in {"success", "offline"}
    BY <1>1, <1>11 DEF Recovers, ShownAs, Calls
  <2>3. value \in Values /\ value.of = c.of /\ value.from = gen /\ value # NoValue
    <3>1. Local(c) \in Values /\ Local(c).of = c.of /\ Local(c).from = gen
      BY <1>1, ValuesOfCalls
    <3>2. gen # 0 /\ sure \in BOOLEAN
      BY DEF CoreInv, SessionInv, FromServer
    <3> HIDE DEF sure
    <3> QED  BY <3>1, <3>2 DEF Values, NoValue
  <2> HIDE DEF state, value
  <2>4. shown \in Waits /\ shown.state = state /\ shown.value = value /\ shown.sel = c.of
    <3>1. c.id \in Nat
      BY <1>1 DEF Calls
    <3>2. Loading(c.id, c.of) \in Waits /\ Loading(c.id, c.of).sel = c.of
      BY <2>2, <3>1, LoadingIs DEF Sound
    <3> QED  BY <2>2, <2>3, <3>2 DEF Waits, WaitStates
  <2> HIDE DEF shown
  <2>5. Sound(detail', gen') /\ detail'.state = state /\ detail'.sel = c.of
    BY <1>4, <2>1, <2>2, <2>3, <2>4 DEF Sound, Valued
  <2>6. Over(attention', detail') /\ Admitted(attention', detail', doubt')
    BY <2>1, <2>2, <2>5, Idle DEF Over, Admitted, CoreInv, WaitsInv
  <2>7. WaitsInv'
    BY <1>4, <2>1, <2>5, <2>6, Idle DEF CoreInv, WaitsInv
  <2>8. HeldInv'
    BY <1>4, <1>8, <2>1, <2>2, <2>5, Idle, HeldIdle DEF HeldInv
  <2> QED  BY <1>7, <1>9, <2>7, <2>8 DEF CoreInv
<1> QED  BY <1>10, <1>11

LEMMA TaskEndsKeeps ==
  ASSUME CoreInv, NEW c \in calls, TaskFails(c) \/ TaskRecovered(c)
  PROVE  CoreInv'
<1>1. Lock(c) = "busy" /\ c.kind \notin {"list", "read", "write"}
  BY DEF TaskFails, TaskRecovered, Lock, TaskKinds
<1>2. Frees(c, "busy", busy, busy') /\ Frees(c, "creating", creating, creating')
  BY <1>1 DEF TaskFails, TaskRecovered, TaskEnds, Frees, Current, form
<1>3. /\ calls' = calls \ {c} /\ view' = view /\ createError' = createError
      /\ UNCHANGED <<session, ids, list, detail, attention, writing, review, doubt>>
      /\ views' \in {views, [from |-> gen, of |-> device]}
      /\ device' = device \/ (device' \in Results(c) /\ c.gen = gen)
  BY DEF TaskFails, TaskRecovered, Current, form
<1>4. SoundViews(views', gen)
  <2>1. [from |-> gen, of |-> device] \in Views
    BY ScreenAssumption DEF Views, CoreInv, SessionInv, CopiesInv, Unsure
  <2>2. gen # 0 /\ SoundViews(views, gen)
    BY DEF CoreInv, SessionInv, CopiesInv
  <2> QED  BY <1>3, <2>1, <2>2 DEF SoundViews
<1>5. Unsure(calls \ {c}, gen, device')
  <2>1. Unsure(calls, gen, device) /\ device \in Copies
    BY DEF CoreInv, CopiesInv, Unsure
  <2>2. CASE device' = device
    BY <2>1, <2>2, UnsureDrops
  <2>3. CASE device' \in Results(c) /\ c.gen = gen
    BY <1>1, <2>1, <2>3, ResultsAre, UnsureAlone DEF CoreInv, CallsInv
  <2> QED  BY <1>3, <2>2, <2>3
<1> QED  BY <1>1, <1>2, <1>3, <1>4, <1>5, CoreInvEnds DEF CoreInv, FormInv, SoundForm

LEMMA CachesKeep ==
  ASSUME CoreInv, EffectRuns \/ OvertakenCaches
  PROVE  CoreInv'
<1>1. PICK value : device' \in {device, Cached(value)} /\ views' \in {views, [from |-> gen, of |-> device']}
  BY DEF EffectRuns, OvertakenCaches
<1>2. UNCHANGED <<session, list, detail, attention, writing, busy, form, review, calls, ids, doubt>>
      /\ gen' = gen /\ usable' = usable
  BY DEF EffectRuns, OvertakenCaches, session
<1>3. Unsure(calls, gen, device') /\ device' \in Copies
  BY <1>1, UnsureCached DEF CoreInv, CallsInv, CopiesInv, Unsure
<1>4. SoundViews(views', gen)
  <2>1. [from |-> gen, of |-> device'] \in Views
    BY <1>3, ScreenAssumption DEF Views, CoreInv, SessionInv
  <2>2. gen # 0 /\ SoundViews(views, gen)
    BY DEF CoreInv, SessionInv, CopiesInv
  <2> QED  BY <1>1, <2>1, <2>2 DEF SoundViews
<1> QED  BY <1>2, <1>3, <1>4
         DEF CoreInv, SessionInv, CallsInv, HeldInv, WaitsInv, CopiesInv, FormInv, form

-----------------------------------------------------------------------------
(* The session, and every step. *)

LEMMA SessionKeeps == CoreInv /\ (SessionChanges \/ BecomesUsable) => CoreInv'
<1> SUFFICES ASSUME CoreInv, SessionChanges \/ BecomesUsable PROVE CoreInv'
  OBVIOUS
<1> DEFINE g == IF SessionChanges THEN gen + 1 ELSE gen
           asked == Call("list", NoIncident)
           c == [asked EXCEPT !.gen = g]
<1>1. /\ asked \in Calls /\ asked.kind = "list" /\ asked.id = ids + 1 /\ asked.of = NoIncident
      /\ asked.phase = "remote" /\ asked.after = FALSE
  <2>1. NoIncident \in Incidents \union {NoIncident} /\ "list" \in Kinds /\ SessionInv /\ CallsInv
    BY DEF CoreInv, Kinds
  <2>2. Made(asked, "list", NoIncident)
    BY <2>1, CallIs
  <2> QED  BY <2>2 DEF Made
<1> HIDE DEF asked
<1>2. /\ g \in 1..MaxGeneration /\ g \in Nat /\ gen' = g /\ gen <= g /\ usable' \in BOOLEAN
  <2>1. gen \in 1..MaxGeneration /\ gen \in Nat /\ MaxGeneration \in Nat
    BY Facts, ScreenAssumption DEF CoreInv, SessionInv
  <2>2. CASE SessionChanges
    BY <2>1, <2>2 DEF SessionChanges
  <2>3. CASE ~SessionChanges
    <3>1. BecomesUsable /\ g = gen
      BY <2>3
    <3>2. gen' = gen /\ usable' = TRUE
      BY <3>1 DEF BecomesUsable
    <3> HIDE DEF g
    <3> QED  BY <2>1, <3>1, <3>2
  <2> QED  BY <2>2, <2>3
<1>3. \/ list' = Begins(c) /\ calls' = calls \union {c} /\ ids' = c.id
      \/ list' = NoWait /\ UNCHANGED <<calls, ids>>
  <2>1. CASE SessionChanges
    BY <2>1 DEF SessionChanges, Reopens, asked
  <2>2. CASE ~SessionChanges
    <3>1. Reopens(TRUE, gen)
      BY <2>2 DEF BecomesUsable
    <3> QED  BY <2>2, <3>1 DEF Reopens, asked
  <2> QED  BY <2>1, <2>2
<1>4. /\ c \in Calls /\ c.kind = "list" /\ c.id = ids + 1 /\ c.gen = g /\ c.of = NoIncident
      /\ c.phase = "remote" /\ c.after = FALSE
  BY <1>1, <1>2 DEF Calls
<1> HIDE DEF c
<1>5. New(c, ids, g) /\ Lock(c) = "none"
  BY <1>4 DEF New, Lock, TaskKinds
<1>6. writing' \in BOOLEAN /\ busy' \in BOOLEAN /\ creating' \in BOOLEAN
      /\ Numbered(calls, ids, g) /\ Locks(calls, g, writing', busy', creating')
  <2>1. CASE SessionChanges
    <3>1. writing' = FALSE /\ busy' = FALSE /\ creating' = FALSE /\ g = gen + 1
      BY <2>1 DEF SessionChanges
    <3>2. Numbered(calls, ids, gen) /\ gen \in Nat
      BY Facts DEF CoreInv, CallsInv
    <3>3. Locks(calls, gen + 1, FALSE, FALSE, FALSE)
      BY <3>2, LocksAnew
    <3> QED  BY <1>2, <3>1, <3>2, <3>3, NumberedLater
  <2>2. CASE ~SessionChanges
    BY <2>2 DEF BecomesUsable, form, CoreInv, CallsInv
  <2> QED  BY <2>1, <2>2
<1>7. CallsInv'
  <2>1. CASE calls' = calls \union {c} /\ ids' = c.id
    <3>1. Numbered(calls', ids', gen')
      BY <1>2, <1>4, <1>5, <1>6, <2>1, NumberedAdds
    <3>2. Locks(calls', gen', writing', busy', creating')
      BY <1>2, <1>5, <1>6, <2>1, LocksAdds
    <3> QED  BY <1>6, <3>1, <3>2 DEF CallsInv
  <2>2. CASE UNCHANGED <<calls, ids>>
    BY <1>2, <1>6, <2>2 DEF CallsInv
  <2> QED  BY <1>3, <2>1, <2>2
<1> HIDE DEF g
<1>8. Held(list', "list", calls', gen') /\ Sound(list', gen')
  <2>1. CASE list' = Begins(c) /\ calls' = calls \union {c}
    <3>1. c.id \in Nat /\ c.of \in Incidents \union {NoIncident}
      BY <1>4 DEF Calls
    <3>2. Sound(Begins(c), g)
      BY <3>1, LoadingIs DEF Begins
    <3>3. Held(Begins(c), "list", calls \union {c}, g)
      BY <1>4, HeldBegins
    <3> QED  BY <1>2, <2>1, <3>2, <3>3
  <2>2. CASE list' = NoWait
    BY <2>2, Idle, HeldIdle
  <2> QED  BY <1>3, <2>1, <2>2
<1>9. CASE SessionChanges
  <2>1. /\ detail' = NoWait /\ attention' = NoWait /\ views' = NoViews /\ doubt' = {}
        /\ view' = "list" /\ createError' = 0 /\ review' = 0 /\ gen' = gen + 1
        /\ device' \in FirstCopies
    BY <1>9 DEF SessionChanges
  <2>2. HeldInv'
    BY <1>8, <2>1, Idle, HeldIdle DEF HeldInv
  <2>3. WaitsInv'
    BY <1>8, <2>1, Idle DEF WaitsInv, Over, Admitted
  <2>4. Unsure(calls', gen', device')
    <3>1. device' \in Copies
      BY <2>1, ScreenAssumption DEF Copies, CopyStates
    <3>2. \A d \in calls' : d.kind = "write" => d.gen # gen'
      BY <1>3, <1>4, <2>1, Facts DEF CoreInv, CallsInv, Numbered, Calls
    <3> QED  BY <3>1, <3>2 DEF Unsure
  <2>5. SoundViews(views', gen')
    BY <2>1, ScreenAssumption DEF SoundViews, NoViews, Views, Copies, CopyStates
  <2> QED  BY <1>2, <1>7, <2>1, <2>2, <2>3, <2>4, <2>5
           DEF CoreInv, SessionInv, CopiesInv, FormInv, SoundForm
<1>10. CASE ~SessionChanges
  <2>1. /\ gen' = gen
        /\ UNCHANGED <<detail, attention, views, writing, busy, form, review, device, doubt>>
    BY <1>10 DEF BecomesUsable
  <2>2. HeldInv'
    <3>1. Held(detail, "read", calls, gen) /\ Held(attention, "write", calls, gen)
      BY DEF CoreInv, HeldInv
    <3>2. Held(detail, "read", calls', gen) /\ Held(attention, "write", calls', gen)
      <4>1. CASE calls' = calls \union {c}
        BY <3>1, <4>1, HeldGrows
      <4>2. CASE calls' = calls
        BY <3>1, <4>2
      <4> QED  BY <1>3, <4>1, <4>2
    <3> QED  BY <1>8, <2>1, <3>2 DEF HeldInv
  <2>3. Unsure(calls', gen', device')
    BY <1>3, <1>4, <2>1, UnsureAdds DEF CoreInv, CopiesInv
  <2> QED  BY <1>2, <1>7, <1>8, <2>1, <2>2, <2>3
           DEF CoreInv, SessionInv, WaitsInv, CopiesInv, FormInv, form
<1> QED  BY <1>9, <1>10

LEMMA CoreInvInit == Init => CoreInv
<1> SUFFICES ASSUME Init PROVE CoreInv
  OBVIOUS
<1>1. SessionInv /\ FormInv
  <2>1. gen = 1 /\ 1 \in 1..MaxGeneration /\ usable = FALSE
    BY ScreenAssumption DEF Init
  <2>2. view = "list" /\ createError = 0 /\ review = 0
    BY DEF Init
  <2> QED  BY <2>1, <2>2 DEF SessionInv, FormInv, SoundForm
<1>2. CallsInv
  BY DEF Init, CallsInv, Numbered, Locks, Locked, Alone
<1>3. HeldInv /\ WaitsInv
  BY Idle, HeldIdle DEF Init, HeldInv, WaitsInv, Over, Admitted
<1>4. CopiesInv
  <2>1. SoundViews(NoViews, gen)
    BY ScreenAssumption DEF SoundViews, NoViews, Views, Copies, CopyStates
  <2>2. device \in Copies /\ calls = {} /\ views = NoViews
    BY ScreenAssumption DEF Init, Copies, CopyStates
  <2> QED  BY <2>1, <2>2 DEF CopiesInv, Unsure
<1> QED  BY <1>1, <1>2, <1>3, <1>4 DEF CoreInv

LEMMA AnswersKeep ==
  ASSUME CoreInv, NEW c \in calls, Answer(c)
  PROVE  CoreInv'
BY ReadFailsKeeps, ListAnsweredKeeps, DetailAnsweredKeeps, WriteRecordedKeeps, WriteAnsweredKeeps,
   WriteRecoveredKeeps, CreateFailsKeeps, CreateSucceedsKeeps, TaskAnsweredKeeps, TaskEndsKeeps
DEF Answer

LEMMA UserKeeps == CoreInv /\ User => CoreInv'
<1> SUFFICES ASSUME CoreInv, User PROVE CoreInv'
  OBVIOUS
<1>1. ASSUME NEW i \in Incidents, OpenIncident(i) PROVE CoreInv'
  BY <1>1, OpensKeeps DEF OpenIncident
<1>2. ASSUME NEW kind \in Tasks, Perform(kind) PROVE CoreInv'
  BY <1>2, PerformKeeps, ScreenAssumption DEF TaskKinds
<1> QED  BY <1>1, <1>2, RefreshKeeps, ReturnToListKeeps, CancelKeeps, WriteKeeps, FormsOpenKeep,
            CreateKeeps, SelectLocalKeeps DEF User

LEMMA CoreInvNext == CoreInv /\ [Next]_vars => CoreInv'
<1> SUFFICES ASSUME CoreInv, [Next]_vars PROVE CoreInv'
  OBVIOUS
<1>1. CASE UNCHANGED vars
  BY <1>1 DEF vars, session, form, panel, CoreInv, SessionInv, CallsInv, HeldInv, WaitsInv,
              CopiesInv, FormInv
<1> QED  BY <1>1, AnswersKeep, UserKeeps, SessionKeeps, CachesKeep DEF Next

-----------------------------------------------------------------------------
(* What was archived stays queued. *)

\* Copies with nothing archived that was not before.
NoneArchived(copies) == \A i \in Incidents : copies[i] = "archived" => device[i] = "archived"

LEMMA OnlyKeepArchives ==
  ASSUME device \in Copies, NEW i
  PROVE  /\ NoneArchived(device) /\ NoneArchived(Recorded(i)) /\ NoneArchived(Stored(i))
         /\ \A copies \in Synchronized : NoneArchived(copies)
BY DEF NoneArchived, Recorded, Stored, Synchronized, Copies

LEMMA TasksArchive ==
  ASSUME device \in Copies, NEW c, NEW copies \in Results(c)
  PROVE  \A i \in Incidents :
           copies[i] = "archived" => device[i] = "archived" \/ (c.kind = "keep" /\ i = c.of)
<1> DEFINE own == IF c.of = NoIncident THEN "none" ELSE device[c.of]
<1>1. CASE c.kind = "sync" \/ c.kind = "record"
  BY <1>1, OnlyKeepArchives DEF Results, NoneArchived
<1>2. CASE c.kind = "keep"
  <2>1. copies = device \/ copies = [device EXCEPT ![c.of] = "archived"]
    BY <1>2 DEF Results
  <2> QED  BY <1>2, <2>1 DEF Copies
<1>3. CASE c.kind \notin {"sync", "record", "keep"}
  <2>1. copies = device \/ \E state \in {"pending", "conflict"} : copies = [device EXCEPT ![c.of] = state]
    <3>1. CASE c.kind = "inspect"
      BY <3>1 DEF Results
    <3>2. CASE c.kind # "inspect"
      BY <1>3, <3>2 DEF Results
    <3> QED  BY <3>1, <3>2
  <2> QED  BY <2>1 DEF Copies
<1> QED  BY <1>1, <1>2, <1>3

LEMMA KeptByTasks ==
  ASSUME CoreInv, KeptInv, NEW c \in calls, device' \in Results(c), Keeps(c)
  PROVE  KeptInv' /\ kept \subseteq kept'
<1>1. c.kind \in {"keep", "reformulate"} => c.of \in Incidents
  BY DEF CoreInv, CallsInv, Numbered
<1>2. kept \subseteq kept' /\ kept' \subseteq Incidents /\ (c.kind = "keep" => c.of \in kept')
  BY <1>1 DEF Keeps, KeptInv
<1>3. \A i \in Incidents :
        device'[i] = "archived" => device[i] = "archived" \/ (c.kind = "keep" /\ i = c.of)
  BY TasksArchive DEF CoreInv, CopiesInv, Unsure
<1> QED  BY <1>2, <1>3 DEF KeptInv

LEMMA KeptNext ==
  ASSUME CoreInv, KeptInv, [Next]_vars
  PROVE  KeptInv' /\ (gen' = gen => kept \subseteq kept')
<1>1. device \in Copies
  BY DEF CoreInv, CopiesInv, Unsure
<1>2. ASSUME NoneArchived(device'), kept' = kept PROVE KeptInv' /\ kept \subseteq kept'
  BY <1>2 DEF NoneArchived, KeptInv
<1>3. ASSUME UNCHANGED <<device, kept>> PROVE KeptInv' /\ kept \subseteq kept'
  BY <1>3 DEF KeptInv
<1>4. CASE User
  <2>1. ASSUME NEW i \in Incidents, OpenIncident(i) PROVE UNCHANGED <<device, kept>>
    BY <2>1 DEF OpenIncident, Opens
  <2>2. ASSUME NEW kind \in Tasks, Perform(kind) PROVE UNCHANGED <<device, kept>>
    BY <2>2 DEF Perform
  <2>3. UNCHANGED <<device, kept>>
    BY <1>4, <2>1, <2>2
    DEF User, Refresh, ReturnToList, Cancel, Write, OpenCreate, CancelCreate, Create, SelectLocal
  <2> QED  BY <1>3, <2>3
<1>5. ASSUME NEW c \in calls, Answer(c) PROVE KeptInv' /\ kept \subseteq kept'
  <2>1. CASE WriteRecorded(c)
    BY <1>1, <1>2, <2>1, OnlyKeepArchives DEF WriteRecorded
  <2>2. CASE WriteAnswered(c)
    <3>1. kept' = kept /\ (device' = device \/ device' = Stored(c.of) \/ device' \in Synchronized)
      BY <2>2 DEF WriteAnswered, Left
    <3> QED  BY <1>1, <1>2, <3>1, OnlyKeepArchives
  <2>3. CASE TaskAnswered(c)
    BY <2>3, KeptByTasks DEF TaskAnswered
  <2>4. CASE TaskFails(c)
    BY <1>3, <2>4, KeptByTasks DEF TaskFails
  <2>5. CASE ~(WriteRecorded(c) \/ WriteAnswered(c) \/ TaskAnswered(c) \/ TaskFails(c))
    <3>1. UNCHANGED <<device, kept>>
      BY <1>5, <2>5
      DEF Answer, ListFails, DetailFails, ReadFails, ListAnswered, DetailAnswered, WriteRecovered,
          CreateFails, CreateSucceeds, TaskRecovered
    <3> QED  BY <1>3, <3>1
  <2> QED  BY <2>1, <2>2, <2>3, <2>4, <2>5
<1>6. CASE EffectRuns \/ OvertakenCaches
  <2>1. PICK value : device' \in {device, Cached(value)} /\ kept' = kept
    BY <1>6 DEF EffectRuns, OvertakenCaches
  <2>2. NoneArchived(device')
    BY <1>1, <2>1, OnlyKeepArchives DEF Cached
  <2> QED  BY <1>2, <2>1, <2>2
<1>7. CASE SessionChanges
  <2>1. gen' # gen
    BY <1>7, Facts DEF SessionChanges
  <2>2. PICK others \in FirstKept : kept' = others \union {i \in Incidents : device'[i] = "archived"}
    BY <1>7 DEF SessionChanges, Finds
  <2> QED  BY <2>1, <2>2, ScreenAssumption DEF KeptInv
<1>8. CASE BecomesUsable \/ UNCHANGED vars
  BY <1>3, <1>8 DEF BecomesUsable, vars
<1> QED  BY <1>4, <1>5, <1>6, <1>7, <1>8 DEF Next

-----------------------------------------------------------------------------
(* A success was confirmed, or what the copy still holds was archived. *)

\* The outcome an answer settles a wait with.
LEMMA SettledSure ==
  ASSUME NEW wait \in Waits, NEW c, NEW o, Awaited(wait, c) => Fits(o, c)
  PROVE  \/ Settled(wait, c, o) = wait
         \/ Settled(wait, c, o).state = "success" => Settled(wait, c, o).value.sure
<1>1. CASE Awaited(wait, c)
  <2>1. Settled(wait, c, o).state = o.state /\ Settled(wait, c, o).value = o.value
    BY <1>1 DEF Settled, Waits
  <2> QED  BY <1>1, <2>1 DEF Fits
<1> QED  BY <1>1 DEF Settled

LEMMA SureWhenUnchanged ==
  ASSUME SureInv, kept \subseteq kept',
         detail' = detail \/ detail'.state # "success",
         attention' = attention \/ attention'.state # "success"
  PROVE  SureInv'
BY DEF SureInv

LEMMA SureByUser ==
  ASSUME CoreInv, SureInv, kept \subseteq kept', User
  PROVE  SureInv'
<1>1. detail \in Waits /\ attention \in Waits /\ NoWait.state # "success"
  BY Idle DEF CoreInv, WaitsInv, Sound
<1>2. ASSUME NEW i \in Incidents, OpenIncident(i)
      PROVE  detail'.state # "success" /\ attention' = NoWait
  BY <1>2 DEF OpenIncident, Opens, Begins, Loading
<1>3. ASSUME NEW i \in Incidents, SelectLocal(i)
      PROVE  detail'.state # "success" /\ attention' = NoWait
  BY <1>3 DEF SelectLocal, Loading
<1>4. ASSUME NEW kind \in Tasks, Perform(kind) PROVE UNCHANGED <<detail, attention>>
  BY <1>4 DEF Perform
<1>5. ASSUME Cancel
      PROVE  /\ detail' = detail \/ detail'.state # "success"
             /\ attention' = attention \/ attention'.state # "success"
  BY <1>1, <1>5 DEF Cancel, Cancelled, Waits
<1>6. ASSUME Write PROVE detail' = detail /\ attention'.state # "success"
  BY <1>6 DEF Write, Begins, Loading
<1>7. ASSUME ReturnToList PROVE detail' = NoWait /\ attention' = NoWait
  BY <1>7 DEF ReturnToList
<1>8. ASSUME Refresh \/ OpenCreate \/ CancelCreate \/ Create PROVE UNCHANGED <<detail, attention>>
  BY <1>8 DEF Refresh, OpenCreate, CancelCreate, Create
<1> QED  BY <1>1, <1>2, <1>3, <1>4, <1>5, <1>6, <1>7, <1>8, SureWhenUnchanged DEF User

\* A task shows a success that the server did not confirm only over a copy
\* whose changes were archived.
LEMMA SureByTasks ==
  ASSUME CoreInv, SureInv, KeptInv', kept \subseteq kept', NEW c \in calls, TaskAnswered(c)
  PROVE  SureInv'
<1>1. PICK copies \in Results(c) :
        /\ device' = copies
        /\ IF Recovers(c, copies) /\ StillShown(c)
           THEN LET state == ShownAs(c, copies) IN
                /\ attention' = NoWait
                /\ detail' = [Loading(c.id, c.of) EXCEPT
                                !.state = state,
                                !.value = [Local(c) EXCEPT !.sure = FromServer(c, copies)]]
           ELSE UNCHANGED <<detail, attention>>
  BY DEF TaskAnswered
<1>2. CASE ~(Recovers(c, copies) /\ StillShown(c))
  BY <1>1, <1>2, SureWhenUnchanged
<1>3. CASE Recovers(c, copies) /\ StillShown(c)
  <2>1. /\ attention' = NoWait /\ detail'.state = ShownAs(c, copies) /\ detail'.sel = c.of
        /\ detail'.value.sure = FromServer(c, copies)
    BY <1>1, <1>3 DEF Loading, Local
  <2>2. c.of \in Incidents /\ copies \in Copies
    BY <1>1, <1>3, Facts, ResultsAre DEF Recovers, Calls, CoreInv, CopiesInv, Unsure
  <2>3. ASSUME ShownAs(c, copies) = "success", ~FromServer(c, copies) PROVE c.of \in kept'
    <3>1. c.kind = "sync" /\ copies[c.of] \notin {"none", "clean", "pending", "conflict"}
      BY <1>3, <2>3 DEF ShownAs, FromServer, Recovers
    <3>2. copies[c.of] = "archived"
      BY <2>2, <3>1 DEF Copies, CopyStates
    <3> QED  BY <1>1, <2>2, <3>2 DEF KeptInv
  <2>4. attention'.state # "success"
    BY <2>1, Idle
  <2>5. FromServer(c, copies) \in BOOLEAN
    BY DEF FromServer
  <2> HIDE DEF ShownAs, FromServer
  <2> QED  BY <2>1, <2>3, <2>4, <2>5 DEF SureInv
<1> QED  BY <1>2, <1>3

LEMMA SureNext ==
  ASSUME CoreInv, KeptInv, SureInv, [Next]_vars
  PROVE  SureInv'
<1>1. KeptInv' /\ (gen' = gen => kept \subseteq kept')
  BY KeptNext
<1>2. detail \in Waits /\ attention \in Waits /\ NoWait.state # "success"
  BY Idle DEF CoreInv, WaitsInv, Sound
<1>3. CASE User
  <2>1. gen' = gen
    <3>1. ASSUME NEW i \in Incidents, OpenIncident(i) PROVE gen' = gen
      BY <3>1 DEF OpenIncident, Opens, session
    <3>2. ASSUME NEW kind \in Tasks, Perform(kind) PROVE gen' = gen
      BY <3>2 DEF Perform, session
    <3> QED  BY <1>3, <3>1, <3>2
             DEF User, Refresh, ReturnToList, Cancel, Write, OpenCreate, CancelCreate, Create,
                 SelectLocal, session
  <2> QED  BY <1>1, <1>3, <2>1, SureByUser
<1>4. ASSUME NEW c \in calls, Answer(c) PROVE SureInv'
  <2>1. c \in Calls
    BY Facts
  <2>2. kept \subseteq kept'
    <3>1. gen' = gen
      BY <1>4
      DEF Answer, ListFails, DetailFails, ReadFails, ListAnswered, DetailAnswered, WriteRecorded,
          WriteAnswered, WriteRecovered, CreateFails, CreateSucceeds, TaskAnswered, TaskFails,
          TaskRecovered, session
    <3> QED  BY <1>1, <3>1
  <2>3. CASE DetailAnswered(c)
    <3>1. PICK o \in Answers(c) \union Fallbacks(c, device[c.of] # "none") :
            detail' = Settled(detail, c, o) /\ attention' = attention
      BY <2>3 DEF DetailAnswered
    <3>2. detail' = detail \/ (detail'.state = "success" => detail'.value.sure)
      BY <1>2, <2>1, <3>1, AnswersFit, SettledSure
    <3> QED  BY <2>2, <3>1, <3>2 DEF SureInv
  <2>4. CASE WriteRecovered(c)
    <3>1. PICK recovered \in {FALSE} \union {Current(c)} :
            attention' = Settled(attention, c, WriteOutcome(c, recovered)) /\ detail' = detail
      BY <2>4 DEF WriteRecovered
    <3>2. recovered \in BOOLEAN /\ (recovered => c.gen = gen)
      BY <3>1 DEF Current
    <3>3. Fits(WriteOutcome(c, recovered), c)
      BY <2>4, <3>2, WriteOutcomeFits DEF WriteRecovered
    <3>4. attention' = attention \/ (attention'.state = "success" => attention'.value.sure)
      BY <1>2, <3>1, <3>3, SettledSure
    <3> QED  BY <2>2, <3>1, <3>4 DEF SureInv
  <2>5. CASE TaskAnswered(c)
    BY <1>1, <2>2, <2>5, SureByTasks
  <2>6. CASE ~(DetailAnswered(c) \/ WriteRecovered(c) \/ TaskAnswered(c))
    <3>1. UNCHANGED <<detail, attention>>
      BY <1>4, <2>6
      DEF Answer, ListFails, DetailFails, ReadFails, ListAnswered, WriteRecorded, WriteAnswered,
          CreateFails, CreateSucceeds, TaskFails, TaskRecovered
    <3> QED  BY <2>2, <3>1, SureWhenUnchanged
  <2> QED  BY <2>3, <2>4, <2>5, <2>6
<1>5. CASE SessionChanges
  BY <1>2, <1>5 DEF SessionChanges, SureInv
<1>6. CASE BecomesUsable \/ EffectRuns \/ OvertakenCaches \/ UNCHANGED vars
  <2>1. gen' = gen /\ UNCHANGED <<detail, attention>>
    BY <1>6 DEF BecomesUsable, EffectRuns, OvertakenCaches, vars, session
  <2> QED  BY <1>1, <2>1, SureWhenUnchanged
<1> QED  BY <1>3, <1>4, <1>5, <1>6 DEF Next

-----------------------------------------------------------------------------
(* The panel's effect. *)

LEMMA RemoteIs ==
  ASSUME WaitsInv
  PROVE  Given(RemoteIncident.value, gen)
<1>1. ASSUME NEW w \in {attention, detail}, w.state = "success" PROVE Given(w.value, gen)
  BY <1>1 DEF WaitsInv, Sound, Waits, Valued, Given
<1> QED  BY <1>1, Idle DEF RemoteIncident

LEMMA PanelInvEffects ==
  ASSUME CoreInv, PanelInv, CoreInv', Effects
  PROVE  PanelInv'
<1>1. Given(RemoteIncident'.value, gen')
  <2>1. ASSUME NEW w \in {attention', detail'}, w.state = "success" PROVE Given(w.value, gen')
    BY <2>1 DEF CoreInv, WaitsInv, Sound, Waits, Valued, Given
  <2> QED  BY <2>1, Idle DEF RemoteIncident
<1>2. NoEffect \in [due : BOOLEAN, value : Values] /\ Given(NoEffect.value, gen')
  BY Idle DEF NoEffect
<1> DEFINE next == [due |-> TRUE, value |-> RemoteIncident'.value]
<1>3. next \in [due : BOOLEAN, value : Values] /\ Given(next.value, gen')
  BY <1>1 DEF Given
<1> HIDE DEF next
<1>4. CASE effect' = NoEffect /\ overtaken' = {}
  BY <1>2, <1>4 DEF PanelInv
<1>5. CASE effect' = next /\ overtaken' = {}
  BY <1>3, <1>5 DEF PanelInv
<1>6. CASE gen' = gen /\ effect' = next /\ overtaken' \in {overtaken, overtaken \union {effect.value}}
  BY <1>3, <1>6 DEF PanelInv, Given
<1>7. CASE gen' = gen /\ UNCHANGED panel
  BY <1>7 DEF PanelInv, panel
<1> QED  BY <1>4, <1>5, <1>6, <1>7 DEF Effects, next

\* What the effect is given is a success shown.
LEMMA GivenByEffects ==
  ASSUME GivenInv, WaitsInv', SureInv', gen' = gen => kept \subseteq kept', Effects
  PROVE  GivenInv'
<1> DEFINE remote == RemoteIncident'.value
<1>1. remote = NoValue \/ remote.sure \/ remote.of \in kept'
  <2>1. CASE attention'.state = "success"
    BY <2>1 DEF RemoteIncident, SureInv
  <2>2. CASE attention'.state # "success" /\ detail'.state = "success" /\ attention'.value = NoValue
    <3>1. detail'.value.of = detail'.sel
      BY <2>2 DEF WaitsInv, Sound, Valued
    <3>2. remote = detail'.value
      BY <2>2 DEF RemoteIncident
    <3> QED  BY <2>2, <3>1, <3>2 DEF SureInv
  <2>3. CASE /\ attention'.state # "success"
             /\ ~(detail'.state = "success" /\ attention'.value = NoValue)
    BY <2>3, Idle DEF RemoteIncident
  <2> QED  BY <2>1, <2>2, <2>3
<1> DEFINE next == [due |-> TRUE, value |-> remote]
<1>2. next.value = remote /\ NoEffect.value = NoValue
  BY DEF NoEffect
<1> HIDE DEF remote, next
<1>3. CASE effect' = NoEffect /\ overtaken' = {}
  BY <1>2, <1>3 DEF GivenInv
<1>4. CASE effect' = next /\ overtaken' = {}
  BY <1>1, <1>2, <1>4 DEF GivenInv
<1>5. CASE gen' = gen /\ effect' = next /\ overtaken' \in {overtaken, overtaken \union {effect.value}}
  BY <1>1, <1>2, <1>5 DEF GivenInv
<1>6. CASE gen' = gen /\ UNCHANGED panel
  BY <1>6 DEF GivenInv, panel
<1> QED  BY <1>3, <1>4, <1>5, <1>6 DEF Effects, next, remote

LEMMA ScreenInvNext == ScreenInv /\ [Next]_vars => ScreenInv'
<1> SUFFICES ASSUME ScreenInv, [Next]_vars PROVE PanelInv' /\ GivenInv'
  BY CoreInvNext, KeptNext, SureNext DEF ScreenInv
<1>1. /\ CoreInv' /\ CoreInv /\ PanelInv /\ GivenInv /\ SureInv'
      /\ (gen' = gen => kept \subseteq kept')
  BY CoreInvNext, KeptNext, SureNext DEF ScreenInv
<1>2. CASE Effects
  BY <1>1, <1>2, PanelInvEffects, GivenByEffects DEF CoreInv
<1>3. CASE EffectRuns
  <2>1. gen' = gen /\ overtaken' = overtaken /\ effect' = NoEffect
    BY <1>3 DEF EffectRuns, session
  <2> QED  BY <1>1, <2>1, Idle DEF PanelInv, GivenInv, NoEffect
<1>4. CASE OvertakenCaches
  <2>1. gen' = gen /\ effect' = effect /\ overtaken' \subseteq overtaken
    BY <1>4 DEF OvertakenCaches, session
  <2> QED  BY <1>1, <2>1 DEF PanelInv, GivenInv
<1>5. CASE UNCHANGED vars
  BY <1>1, <1>5 DEF PanelInv, GivenInv, vars, session, panel
<1> QED  BY <1>2, <1>3, <1>4, <1>5 DEF Next

LEMMA ScreenInvAlways == Spec => []ScreenInv
<1>1. Init => ScreenInv
  <2> SUFFICES ASSUME Init PROVE PanelInv /\ KeptInv /\ SureInv /\ GivenInv
    BY CoreInvInit DEF ScreenInv
  <2>1. effect = NoEffect /\ overtaken = {} /\ detail = NoWait /\ attention = NoWait
    BY DEF Init
  <2>2. PICK others \in FirstKept : kept = others \union {i \in Incidents : device[i] = "archived"}
    BY DEF Init, Finds
  <2>3. KeptInv
    BY <2>2, ScreenAssumption DEF KeptInv
  <2> QED  BY <2>1, <2>3, Idle DEF PanelInv, GivenInv, SureInv, NoEffect
<1> QED  BY <1>1, ScreenInvNext, PTL DEF Spec

-----------------------------------------------------------------------------
(* New actions. *)

LEMMA KindOfCall ==
  ASSUME NEW kind, NEW of
  PROVE  Call(kind, of).kind = kind
BY DEF Call

\* Only Write makes a call that writes; the others list, read, create, run a
\* task or go on with a call.
LEMMA AnswersDoNotWrite ==
  ASSUME CoreInv, NEW d \in calls, Answer(d), NEW c \in calls' \ calls, c.kind = "write"
  PROVE  c.phase # "remote"
<1>1. d \in Calls
  BY Facts
<1>2. CASE ListFails(d) \/ DetailFails(d)
  <2>1. c = [d EXCEPT !.phase = "recovering"]
    BY <1>2 DEF ListFails, DetailFails, ReadFails
  <2> QED  BY <1>1, <2>1 DEF Calls
<1>3. CASE WriteRecorded(d)
  <2>1. c = [d EXCEPT !.phase = "recorded"]
    BY <1>3 DEF WriteRecorded
  <2> QED  BY <1>1, <2>1 DEF Calls
<1>4. CASE WriteAnswered(d)
  <2>1. PICK updated \in BOOLEAN, lost \in BOOLEAN :
          \/ calls' = (calls \ {d}) \union
                {[d EXCEPT !.phase = "recovering", !.updated = updated, !.lost = lost,
                           !.sure = updated /\ (d.start => device'[d.of] = "clean")]}
          \/ calls' = calls \ {d}
    BY <1>4 DEF WriteAnswered
  <2>2. c = [d EXCEPT !.phase = "recovering", !.updated = updated, !.lost = lost,
                      !.sure = updated /\ (d.start => device'[d.of] = "clean")]
    BY <2>1
  <2> QED  BY <1>1, <2>2 DEF Calls
<1>5. CASE TaskAnswered(d)
  <2>1. c = [d EXCEPT !.phase = "recovering"]
    BY <1>5 DEF TaskAnswered
  <2> QED  BY <1>1, <2>1 DEF Calls
<1>6. CASE WriteRecovered(d)
  <2>1. c = Call("list", NoIncident)
    BY <1>6 DEF WriteRecovered
  <2> QED  BY <2>1, KindOfCall
<1>7. CASE CreateSucceeds(d)
  <2>1. c = [Call("list", NoIncident) EXCEPT !.after = TRUE]
    BY <1>7 DEF CreateSucceeds
  <2> QED  BY <2>1 DEF Call
<1>8. CASE ListAnswered(d) \/ DetailAnswered(d) \/ CreateFails(d) \/ TaskFails(d) \/ TaskRecovered(d)
  BY <1>8 DEF ListAnswered, DetailAnswered, CreateFails, TaskFails, TaskRecovered
<1> QED  BY <1>2, <1>3, <1>4, <1>5, <1>6, <1>7, <1>8 DEF Answer

LEMMA OnlyWriteWrites ==
  ASSUME CoreInv, [Next]_vars, NEW c \in calls' \ calls, c.kind = "write", c.phase = "remote"
  PROVE  Write
<1>1. CASE User
  <2>1. ASSUME Refresh PROVE FALSE
    BY <2>1, KindOfCall DEF Refresh, Refreshes
  <2>2. ASSUME NEW i \in Incidents, OpenIncident(i) PROVE FALSE
    <3>1. Opens(i)
      BY <2>2 DEF OpenIncident
    <3> QED  BY <3>1, KindOfCall DEF Opens
  <2>3. ASSUME Create PROVE FALSE
    BY <2>3, KindOfCall DEF Create
  <2>4. ASSUME NEW kind \in Tasks, Perform(kind) PROVE FALSE
    <3>1. PICK seen, local : c = [Call(kind, Shown.of) EXCEPT !.seen = seen, !.local = local]
      BY <2>4 DEF Perform
    <3> QED  BY <2>4, <3>1, ScreenAssumption DEF Call
  <2>5. ASSUME ReturnToList \/ Cancel \/ OpenCreate \/ CancelCreate \/ \E i \in Incidents : SelectLocal(i)
        PROVE  FALSE
    BY <2>5 DEF ReturnToList, Cancel, OpenCreate, CancelCreate, SelectLocal
  <2> QED  BY <1>1, <2>1, <2>2, <2>3, <2>4, <2>5 DEF User
<1>2. CASE SessionChanges \/ BecomesUsable
  <2>1. \E g : c = [Call("list", NoIncident) EXCEPT !.gen = g]
    BY <1>2 DEF SessionChanges, BecomesUsable, Reopens
  <2> QED  BY <2>1 DEF Call
<1>3. CASE EffectRuns \/ OvertakenCaches \/ UNCHANGED vars
  BY <1>3 DEF EffectRuns, OvertakenCaches, vars
<1> QED  BY <1>1, <1>2, <1>3, AnswersDoNotWrite DEF Next

-----------------------------------------------------------------------------
(* Theorems. *)

\* Everything shown or cached was obtained under the session now open and for
\* the incident selected, however late and in whatever order the calls answer.
THEOREM ShownIsOfTheSession == Spec => []ShownIsCurrent
<1>1. ScreenInv => ShownIsCurrent
  <2> SUFFICES ASSUME ScreenInv PROVE ShownIsCurrent
    OBVIOUS
  <2>1. /\ Sound(list, gen) /\ Sound(detail, gen) /\ Sound(attention, gen)
        /\ Over(attention, detail) /\ doubt \subseteq Incidents
    BY DEF ScreenInv, CoreInv, WaitsInv, Admitted
  <2>2. TypeOK
    <3>1. \A w \in {list, detail, attention} : w \in Waits /\ (w.value # NoValue <=> w.state \in Valued)
      BY <2>1 DEF Sound
    <3>2. /\ views \in Views /\ view \in {"list", "detail", "create"} /\ review \in Nat
          /\ device \in Copies /\ createError \in {0, gen} /\ kept \subseteq Incidents
      BY DEF ScreenInv, KeptInv, CoreInv, CopiesInv, FormInv, SoundForm, SoundViews, Unsure
    <3>3. gen \in 1..MaxGeneration /\ usable \in BOOLEAN /\ createError \in 0..MaxGeneration
      BY <3>2, ScreenAssumption DEF ScreenInv, CoreInv, SessionInv
    <3>4. /\ {writing, busy, creating} \subseteq BOOLEAN /\ ids \in Nat /\ calls \subseteq Calls
      BY DEF ScreenInv, CoreInv, CallsInv, Numbered
    <3>5. effect \in [due : BOOLEAN, value : Values] /\ overtaken \subseteq Values
      BY DEF ScreenInv, PanelInv
    <3> QED  BY <2>1, <3>1, <3>2, <3>3, <3>4, <3>5 DEF TypeOK
  <2>3. \A w \in {list, detail, attention} : w.state \in Valued => w.value.from = gen
    BY <2>1 DEF Sound
  <2>4. views.from \in {0, gen} /\ createError \in {0, gen}
    BY DEF ScreenInv, CoreInv, CopiesInv, FormInv, SoundForm, SoundViews
  <2>5. \A value \in {effect.value} \union overtaken : value # NoValue => value.from = gen
    BY DEF ScreenInv, PanelInv, Given
  <2>6. /\ detail.value # NoValue => detail.value.of = detail.sel
        /\ attention.state # "none" => detail.state # "none" /\ attention.sel = detail.sel
        /\ attention.value # NoValue => attention.value.of = attention.sel
    BY <2>1 DEF Sound, Over
  <2> QED  BY <2>2, <2>3, <2>4, <2>5, <2>6 DEF ShownIsCurrent
<1> QED  BY <1>1, ScreenInvAlways, PTL

\* A success of an action was confirmed by the server; one of the panel too, but
\* for a copy whose changes were archived by keepRemote; and what the panel then
\* caches is stored as the server's record only if it is the server's.
THEOREM SuccessIsConfirmedUnlessKept == Spec => []ConfirmedUnlessKept
<1>1. ASSUME ScreenInv, NEW value \in ({effect.value} \union overtaken) \ {NoValue}, Stores(value.of)
      PROVE  value.sure
  BY <1>1 DEF ScreenInv, GivenInv, Stores
<1>2. ScreenInv => ConfirmedUnlessKept
  BY <1>1 DEF ScreenInv, SureInv, ConfirmedUnlessKept
<1> QED  BY <1>2, ScreenInvAlways, PTL

\* No action starts on an incident whose last action is in doubt: the screen
\* keeps the failure over the incident until it is read again.
THEOREM DoubtIsNotRepeated == Spec => NoBlindRepeat
<1>1. ASSUME ScreenInv, [Next]_vars, NEW c \in calls' \ calls, c.kind = "write", c.phase = "remote"
      PROVE  Write
  BY <1>1, OnlyWriteWrites DEF ScreenInv
<1>2. ASSUME ScreenInv, [Next]_vars, NEW c \in calls' \ calls, c.kind = "write", c.phase = "remote"
      PROVE  c.of \notin doubt
  <2>1. Write
    BY <1>1, <1>2
  <2>2. Shown.of \notin doubt
    <3>1. Shown # NoValue /\ detail.state # "offline" /\ MayContinue
      BY <2>1 DEF Write, MayWrite
    <3>2. Shown.of = detail.sel /\ detail.state # "none"
      BY <1>2, <3>1, ShownIs DEF ScreenInv, CoreInv
    <3> QED  BY <1>2, <3>1, <3>2 DEF MayContinue, ScreenInv, CoreInv, WaitsInv, Admitted
  <2>3. c.of = Shown.of
    <3>1. PICK start \in BOOLEAN : calls' = calls \union {[Call("write", Shown.of) EXCEPT !.start = start]}
      BY <2>1 DEF Write
    <3>2. c = [Call("write", Shown.of) EXCEPT !.start = start]
      BY <1>2, <3>1
    <3> QED  BY <3>2 DEF Call
  <2> QED  BY <2>2, <2>3
<1>3. ScreenInv /\ [Next]_vars =>
        [\A c \in calls' \ calls : c.kind = "write" /\ c.phase = "remote" => c.of \notin doubt]_vars
  BY <1>2
<1> QED  BY <1>3, ScreenInvAlways, PTL DEF Spec, NoBlindRepeat

\* No answer moves the selection.
THEOREM SelectionIsTheUsers == Spec => AnswersKeepSelection
<1>1. ASSUME ScreenInv, NEW c \in calls, Answer(c) PROVE detail'.sel = detail.sel
  <2>1. detail \in Waits
    BY <1>1 DEF ScreenInv, CoreInv, WaitsInv, Sound
  <2>2. CASE DetailAnswered(c)
    <3>1. PICK o : detail' = Settled(detail, c, o)
      BY <2>2 DEF DetailAnswered
    <3> QED  BY <2>1, <3>1 DEF Settled, Waits
  <2>3. CASE TaskAnswered(c)
    <3>1. \/ UNCHANGED detail
          \/ /\ StillShown(c)
             /\ \E state, value : detail' = [Loading(c.id, c.of) EXCEPT !.state = state, !.value = value]
      <4>1. PICK copies \in Results(c) :
              IF Recovers(c, copies) /\ StillShown(c)
              THEN LET state == ShownAs(c, copies)
                   IN  detail' = [Loading(c.id, c.of) EXCEPT
                                    !.state = state,
                                    !.value = [Local(c) EXCEPT !.sure = FromServer(c, copies)]]
              ELSE UNCHANGED detail
        BY <2>3 DEF TaskAnswered
      <4> QED  BY <4>1
    <3> QED  BY <3>1 DEF StillShown, Loading
  <2>4. CASE ~DetailAnswered(c) /\ ~TaskAnswered(c)
    BY <1>1, <2>4 DEF Answer, ListFails, DetailFails, ReadFails, ListAnswered, WriteRecorded,
                      WriteAnswered, WriteRecovered, CreateFails, CreateSucceeds, TaskFails,
                      TaskRecovered
  <2> QED  BY <2>2, <2>3, <2>4
<1>2. ScreenInv /\ [Next]_vars => [(\E c \in calls : Answer(c)) => detail'.sel = detail.sel]_vars
  BY <1>1
<1> QED  BY <1>2, ScreenInvAlways, PTL DEF Spec, AnswersKeepSelection

LEMMA AtMostOne ==
  ASSUME NEW S, \A c, d \in S : c = d
  PROVE  Cardinality(S) <= 1
<1>1. CASE S = {}
  BY <1>1, FS_EmptySet
<1>2. CASE S # {}
  <2>1. PICK c \in S : S = {c}
    BY <1>2
  <2>2. Cardinality({c}) = 1
    BY FS_Singleton
  <2>3. Cardinality(S) = 1
    BY <2>1, <2>2
  <2> QED  BY <2>3
<1> QED  BY <1>1, <1>2

\* A loading wait has the call that will end it, and the locks are held exactly
\* by the calls under way, one action or task and one creation at a time: what
\* WaitsMatchCalls says but for the calls being answerable.
THEOREM LocksAreHeldByCalls == Spec => []LocksMatchCalls
<1> DEFINE Running(kinds) == {c \in calls : c.kind \in kinds /\ c.gen = gen}
           Creating == Running({"create"}) \union {c \in Running({"list"}) : c.after}
<1>1. ASSUME NEW c \in calls
      PROVE  /\ Lock(c) = "writing" <=> c.kind = "write"
             /\ Lock(c) = "busy" <=> c.kind \in TaskKinds
             /\ Lock(c) = "creating" <=> c.kind = "create" \/ (c.kind = "list" /\ c.after)
  BY DEF Lock, TaskKinds
<1>2. ASSUME ScreenInv PROVE LocksMatchCalls
  <2>1. HeldInv /\ Locks(calls, gen, writing, busy, creating)
    BY <1>2 DEF ScreenInv, CoreInv, CallsInv
  <2>2. /\ list.state = "loading" => \E c \in calls : c.kind = "list" /\ Awaited(list, c)
        /\ detail.state = "loading" => \E c \in calls : c.kind = "read" /\ Awaited(detail, c)
        /\ attention.state = "loading" => \E c \in calls : c.kind = "write" /\ Awaited(attention, c)
    BY <2>1 DEF HeldInv, Held
  <2>3. writing <=> Running({"write"}) # {}
    BY <1>1, <2>1 DEF Locks, Locked
  <2>4. busy <=> Running(TaskKinds) # {}
    BY <1>1, <2>1 DEF Locks, Locked
  <2>5. creating <=> Creating # {}
    BY <1>1, <2>1 DEF Locks, Locked
  <2>6. Cardinality(Running({"write"} \union TaskKinds)) <= 1
    <3>1. \A c, d \in Running({"write"} \union TaskKinds) : c = d
      BY <1>1, <2>1 DEF Locks, Alone, Shares
    <3> HIDE DEF Running
    <3> QED  BY <3>1, AtMostOne
  <2>7. Cardinality(Creating) <= 1
    <3>1. \A c, d \in Creating : c = d
      BY <1>1, <2>1 DEF Locks, Alone, Shares
    <3> HIDE DEF Creating
    <3> QED  BY <3>1, AtMostOne
  <2> QED  BY <2>2, <2>3, <2>4, <2>5, <2>6, <2>7 DEF LocksMatchCalls
<1> QED  BY <1>2, ScreenInvAlways, PTL
=============================================================================
