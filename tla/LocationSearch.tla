---------------------------- MODULE LocationSearch ----------------------------
(***************************************************************************)
(* The optional location search of the incident form: CreateIncidentScreen *)
(* over LookupIncidentLocation, its MemoryLocationCache (least recently    *)
(* used first) and the one PhotonLocationProvider all forms share.  A      *)
(* request answers late, when the user may have edited the form, searched  *)
(* again or left; the clock does not go back.                              *)
(***************************************************************************)
EXTENDS Integers, Sequences, FiniteSets, SequencesExt

CONSTANTS
  Queries, Keys, NoKey,
  KeyOf,        \* [Queries -> Keys \union {NoKey}]: NFC, trim, spaces, lower case
  Labels, NoText,   \* manual references; NoText is blank
  TTL,          \* cacheTtlMs; 0 disables the cache
  Capacity,     \* of the cache
  RetryAfters,  \* the waits a 429 may ask for
  MaxTime       \* bound on the clock

ASSUME LocationAssumption ==
  /\ TTL \in Nat /\ Capacity \in Nat \ {0} /\ RetryAfters \subseteq Nat /\ MaxTime \in Nat
  /\ KeyOf \in [Queries -> Keys \union {NoKey}] /\ NoKey \notin Keys /\ NoText \notin Labels

VARIABLES
  now,
  cache,        \* entries, the least recently used first
  nextAllowed,  \* of the provider
  requests,     \* requests at the provider
  form,         \* CreateIncidentScreen
  order,        \* history: the keys stored, the least recently used first
  fetched,      \* history: when the provider last gave each key a place
  asked,        \* history: until when the provider asked not to be called
  early         \* history: it was called before

vars == <<now, cache, nextAllowed, requests, form, order, fetched, asked, early>>

-----------------------------------------------------------------------------
(* Data. *)

Failures == {"none", "timeout", "offline", "incomplete", "invalid_coordinates",
             "invalid_response", "unavailable", "rate_limited"}
Places == [label : {"blank", "text"}, coordinates : {"absent", "invalid", "out_of_range", "valid"}]
NoPlace == [label |-> "blank", coordinates |-> "absent"]
Entries == [key : Keys, place : Places, stored : 0..MaxTime, expires : Nat]
\* What a search shows: the provider's place, or the manual label and a failure.
Results ==
  [key : Keys, place : Places, label : Labels \union {NoText}, failure : Failures, hit : BOOLEAN]
NoResult ==
  [key |-> NoKey, place |-> NoPlace, label |-> NoText, failure |-> "none", hit |-> FALSE]
Forms ==
  [query : Queries, label : Labels \union {NoText},
   searching : BOOLEAN, accepted : BOOLEAN, lookup : Results \union {NoResult},
   error : BOOLEAN, loading : BOOLEAN]
NewForm(query) ==
  [query |-> query, label |-> NoText, searching |-> FALSE, accepted |-> FALSE,
   lookup |-> NoResult, error |-> FALSE, loading |-> FALSE]
\* wanted: the form that asked is mounted and its requestId was not raised since.
Requests == [key : Keys, label : Labels, wanted : BOOLEAN]

-----------------------------------------------------------------------------
(* The provider's answer: mapPhoton, then validateProviderLocation. *)

\* A GeoJSON body: unreadable or of another type, without a feature, or a first
\* feature with a label (of its non-blank parts) and a geometry.
Bodies ==
  [kind : {"unreadable", "empty", "malformed"}]
    \union [kind : {"feature"}, label : {"blank", "text"},
            geometry : {"absent", "other", "point"},
            coordinates : {"absent", "invalid", "out_of_range", "valid"}]

\* validateProviderLocation: the failure of a place, "none" for a valid one.
Validated(place) ==
  IF place.coordinates = "absent" THEN "incomplete"
  ELSE IF place.label = "blank" THEN "invalid_response"
  ELSE IF place.coordinates # "valid" THEN "invalid_coordinates"
  ELSE "none"

\* mapPhoton: the failure of the body itself, or the place it names.
Mapped(body) ==
  CASE body.kind \in {"unreadable", "malformed"} -> [failure |-> "invalid_response", place |-> NoPlace]
    [] body.kind = "empty" -> [failure |-> "unavailable", place |-> NoPlace]
    [] body.kind = "feature" /\ body.geometry = "absent" ->
         [failure |-> "none", place |-> [label |-> body.label, coordinates |-> "absent"]]
    [] body.kind = "feature" /\ body.geometry = "other" ->
         [failure |-> "invalid_response", place |-> NoPlace]
    [] OTHER -> [failure |-> "none", place |-> [label |-> body.label, coordinates |-> body.coordinates]]

\* evaluateIncidentLocation: a valid place, or the manual label and the reason.
Evaluated(failure, place) ==
  LET reason == IF failure # "none" THEN failure ELSE Validated(place) IN
  [failure |-> reason, place |-> IF reason = "none" THEN place ELSE NoPlace]

-----------------------------------------------------------------------------
(* MemoryLocationCache. *)

Position(entries, key) == {k \in 1..Len(entries) : entries[k].key = key}
\* Map.delete: a key has one entry at most.
Without(entries, key) ==
  IF Position(entries, key) = {} THEN entries
  ELSE RemoveAt(entries, CHOOSE k \in Position(entries, key) : TRUE)
\* Mutated form: get does not move the entry to the end.
Untouched(entries, key) == entries
\* get: the entry found becomes the most recently used.
Touched(entries, key) ==
  IF Position(entries, key) = {} THEN entries
  ELSE Append(Without(entries, key), entries[CHOOSE k \in Position(entries, key) : TRUE])
Trimmed(entries) == IF Len(entries) > Capacity THEN Tail(entries) ELSE entries
Put(entries, entry) == Trimmed(Append(Without(entries, entry.key), entry))

\* Mutated form: expiry is not compared.
NeverExpires(entry) == entry.stored <= now
Fresh(entry) == entry.stored <= now /\ now < entry.expires
Hits(key) ==
  {e \in ToSet(cache) : TTL > 0 /\ e.key = key /\ Fresh(e) /\ Validated(e.place) = "none"}

-----------------------------------------------------------------------------
(* Searching. *)

Shows(result) ==
  form' = [form EXCEPT !.searching = FALSE, !.lookup = result]
Searching ==
  [form EXCEPT !.searching = TRUE, !.lookup = NoResult, !.accepted = FALSE, !.error = FALSE]
Manual(key, label, failure) == [NoResult EXCEPT !.key = key, !.label = label, !.failure = failure]

\* execute() in what its first await lets through: a blank label or query is
\* rejected, a fresh entry answers, and the provider may refuse at once.
MaySearch == ~form.searching /\ ~form.loading
Raises == {[q EXCEPT !.wanted = FALSE] : q \in requests}
SearchRejected ==
  /\ MaySearch /\ (form.label = NoText \/ KeyOf[form.query] = NoKey)
  /\ form' = [Searching EXCEPT !.searching = FALSE, !.error = TRUE]
  /\ requests' = Raises
  /\ UNCHANGED <<now, cache, nextAllowed, order, fetched, asked, early>>

Recent(key) == Append(RemoveFirst(order, key), key)
Looked(key) ==
  /\ cache' = IF TTL > 0 THEN Touched(cache, key) ELSE cache
  /\ order' = IF Position(cache, key) # {} THEN Recent(key) ELSE order
SearchHits(key) ==
  /\ MaySearch /\ form.label # NoText /\ KeyOf[form.query] = key
  /\ \E e \in Hits(key) :
       form' = [Searching EXCEPT !.searching = FALSE,
                  !.lookup = [NoResult EXCEPT !.key = key, !.place = e.place, !.hit = TRUE]]
  /\ Looked(key) /\ requests' = Raises
  /\ UNCHANGED <<now, nextAllowed, fetched, asked, early>>

InFlight == requests # {}
Refused ==
  IF nextAllowed > now THEN "rate_limited" ELSE IF InFlight THEN "unavailable" ELSE "none"
SearchRefused(key) ==
  /\ MaySearch /\ form.label # NoText /\ KeyOf[form.query] = key
  /\ Hits(key) = {} /\ Refused # "none"
  /\ form' = [Searching EXCEPT !.searching = FALSE, !.lookup = Manual(key, form.label, Refused)]
  /\ Looked(key) /\ requests' = Raises
  /\ UNCHANGED <<now, nextAllowed, fetched, asked, early>>
SearchSent(key) ==
  /\ MaySearch /\ form.label # NoText /\ KeyOf[form.query] = key
  /\ Hits(key) = {} /\ Refused = "none"
  /\ form' = Searching
  /\ requests' = Raises \union {[key |-> key, label |-> form.label, wanted |-> TRUE]}
  /\ early' = (early \/ now < asked)
  /\ Looked(key)
  /\ UNCHANGED <<now, nextAllowed, fetched, asked>>

\* Mutated form: an answer is shown whatever was asked since.
ShowsAnyway(q) == TRUE
\* id === requestId.current, of the form that asked.
Wanted(q) == q.wanted
Ends(q, evaluated) ==
  /\ requests' = requests \ {q}
  /\ IF Wanted(q)
     THEN Shows([NoResult EXCEPT !.key = q.key, !.place = evaluated.place,
                   !.failure = evaluated.failure,
                   !.label = IF evaluated.failure = "none" THEN NoText ELSE q.label])
     ELSE UNCHANGED form

\* 200: the body is mapped and validated; a valid place is stored.
Answered(q) ==
  /\ \E body \in Bodies :
       LET mapped == Mapped(body)
           evaluated == Evaluated(mapped.failure, mapped.place)
           entry == [key |-> q.key, place |-> evaluated.place, stored |-> now, expires |-> now + TTL]
       IN /\ Ends(q, evaluated)
          /\ IF evaluated.failure = "none" /\ TTL > 0
             THEN /\ cache' = Put(cache, entry)
                  /\ order' = Recent(q.key) /\ fetched' = [fetched EXCEPT ![q.key] = now]
             ELSE UNCHANGED <<cache, order, fetched>>
  /\ UNCHANGED <<now, nextAllowed, asked, early>>

\* Mutated form: the wait is not counted from now.
FromZero(wait) == wait
AllowedAfter(wait) == now + wait
\* 429, with a valid Retry-After or without.
RateLimited(q) ==
  /\ Ends(q, [failure |-> "rate_limited", place |-> NoPlace])
  /\ \/ \E wait \in RetryAfters :
          /\ nextAllowed' = AllowedAfter(wait)
          /\ asked' = IF now + wait > asked THEN now + wait ELSE asked
     \/ UNCHANGED <<nextAllowed, asked>>
  /\ UNCHANGED <<now, cache, order, fetched, early>>
\* Another status, a timeout or no connection.
Failed(q) ==
  /\ \E failure \in {"unavailable", "timeout", "offline"} :
       Ends(q, [failure |-> failure, place |-> NoPlace])
  /\ UNCHANGED <<now, cache, nextAllowed, order, fetched, asked, early>>

-----------------------------------------------------------------------------
(* The form. *)

Rest == <<now, cache, nextAllowed, order, fetched, asked, early>>
Still == UNCHANGED requests /\ UNCHANGED Rest

Dropped == Raises
Invalidated ==
  [form EXCEPT !.searching = FALSE, !.lookup = NoResult, !.accepted = FALSE, !.error = FALSE]
Invalidates == requests' = Dropped /\ UNCHANGED Rest

EditQuery(q) == q # form.query /\ form' = [Invalidated EXCEPT !.query = q] /\ Invalidates
EditLabel(l) == l # form.label /\ form' = [Invalidated EXCEPT !.label = l] /\ Invalidates
UseManual == form' = Invalidated /\ Invalidates
Accept == form.lookup.place # NoPlace /\ form' = [form EXCEPT !.accepted = TRUE] /\ Still
\* The form stays, loading, until CampusOpsApp answers.
Submit ==
  /\ ~form.loading /\ form.label # NoText
  /\ form' = [form EXCEPT !.searching = FALSE, !.loading = TRUE]
  /\ requests' = Raises /\ UNCHANGED Rest
SubmitFails == form.loading /\ form' = [form EXCEPT !.loading = FALSE] /\ Still
\* Cancelled, registered or closed by a change of session, and opened again.
Remount(q) == form' = NewForm(q) /\ requests' = Raises /\ UNCHANGED Rest

Tick ==
  /\ now < MaxTime /\ now' = now + 1
  /\ UNCHANGED <<cache, nextAllowed, requests, form, order, fetched, asked, early>>

-----------------------------------------------------------------------------
(* Specification. *)

Init ==
  /\ now = 0 /\ cache = <<>> /\ nextAllowed = 0 /\ requests = {}
  /\ \E q \in Queries : form = NewForm(q)
  /\ order = <<>> /\ fetched = [k \in Keys |-> 0] /\ asked = 0 /\ early = FALSE

Provider == \E q \in requests : Answered(q) \/ RateLimited(q) \/ Failed(q)
Search == SearchRejected \/ \E k \in Keys : SearchHits(k) \/ SearchRefused(k) \/ SearchSent(k)
Edit ==
  \/ \E q \in Queries : EditQuery(q)
  \/ \E l \in Labels \union {NoText} : EditLabel(l)
  \/ UseManual \/ Accept \/ Submit \/ SubmitFails
Next == Search \/ Provider \/ Edit \/ (\E q \in Queries : Remount(q)) \/ Tick
Spec == Init /\ [][Next]_vars

-----------------------------------------------------------------------------
(* Properties. *)

TypeOK ==
  /\ now \in 0..MaxTime /\ nextAllowed \in Nat /\ asked \in Nat /\ early \in BOOLEAN
  /\ ToSet(cache) \subseteq Entries /\ Len(cache) <= Capacity
  /\ \A j, k \in 1..Len(cache) : cache[j].key = cache[k].key => j = k
  /\ requests \subseteq Requests /\ form \in Forms
  /\ ToSet(order) \subseteq Keys /\ fetched \in [Keys -> 0..MaxTime]

\* A place with a label and coordinates in range.
Usable(place) == place.label = "text" /\ place.coordinates = "valid"

\* The result shown is of the query and the reference that are in the form, so
\* what is accepted and registered was looked up for this incident; it is a
\* place that may be used or the reason there is none.
CandidateFitsForm ==
  /\ form.lookup # NoResult => form.lookup.key = KeyOf[form.query]
  /\ form.lookup.failure # "none" => form.lookup.label = form.label
  /\ form.lookup.place # NoPlace => Usable(form.lookup.place)
  /\ form.accepted => form.lookup.failure = "none" /\ form.lookup.place # NoPlace

\* The cache holds usable places for the keys most recently stored or found,
\* whatever their order of insertion: the reference is the history of uses.
KeepsMostRecent ==
  LET kept == Len(cache) IN
  /\ TypeOK
  /\ kept = (IF Len(order) < Capacity THEN Len(order) ELSE Capacity)
  /\ \A k \in 1..kept : cache[k].key = order[Len(order) - kept + k] /\ Usable(cache[k].place)

\* The one provider has one request at a time and none before the time it
\* asked for has passed, whichever form searches.
ProviderLeftAlone == Cardinality(requests) <= 1 /\ ~early

\* A result served from the cache was given by the provider less than TTL ago.
HitsAreRecent ==
  [][form'.lookup.hit /\ ~form.lookup.hit => now < fetched[form'.lookup.key] + TTL]_vars
==============================================================================
