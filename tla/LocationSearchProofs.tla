------------------------- MODULE LocationSearchProofs -------------------------
(***************************************************************************)
(* What is proved of the location search for every number of queries, keys *)
(* and waits and without a bound on the clock's use: the one provider is   *)
(* left alone.                                                             *)
(***************************************************************************)
EXTENDS LocationSearch, SequenceTheorems, FiniteSetTheorems, TLAPS

\* The reason the provider is left alone: it has one request at most, a request
\* is only there once the wait is over, and the wait covers all it asked for.
ProviderInv ==
  /\ now \in Nat /\ nextAllowed \in Nat /\ asked \in Nat
  /\ early = FALSE
  /\ \A q, r \in requests : q = r
  /\ requests # {} => nextAllowed <= now
  /\ asked <= nextAllowed

\* Raising the form's requestId adds and ends no request.
LEMMA RaisesKeep ==
  ASSUME \A q, r \in requests : q = r
  PROVE  /\ \A q, r \in Raises : q = r
         /\ Raises # {} => requests # {}
BY DEF Raises

\* The bound on the provider's requests is a matter of the invariant only.
LEMMA OneRequest == ProviderInv => ProviderLeftAlone
<1> SUFFICES ASSUME ProviderInv PROVE Cardinality(requests) <= 1
  BY DEF ProviderInv, ProviderLeftAlone
<1>1. CASE requests = {}
  <2>1. Cardinality(requests) = 0
    BY <1>1, FS_EmptySet
  <2> QED BY <2>1
<1>2. CASE requests # {}
  <2>1. PICK q : q \in requests
    BY <1>2
  <2>2. requests = {q}
    BY <2>1 DEF ProviderInv
  <2>3. Cardinality(requests) = 1
    BY <2>2, FS_Singleton
  <2> QED BY <2>3
<1> QED BY <1>1, <1>2

LEMMA ProviderInvInit == Init => ProviderInv
BY DEF Init, ProviderInv

\* A step that leaves the provider's state alone and at most raises requestId.
LEMMA ProviderInvRaises ==
  ASSUME ProviderInv, requests' \in {requests, Raises},
         UNCHANGED <<now, nextAllowed, asked, early>>
  PROVE  ProviderInv'
<1>1. CASE requests' = requests
  BY <1>1 DEF ProviderInv
<1>2. CASE requests' = Raises
  BY <1>2, RaisesKeep DEF ProviderInv
<1> QED BY <1>1, <1>2

\* A request that ends leaves the provider free.
LEMMA ProviderInvEnds ==
  ASSUME ProviderInv, NEW q \in requests, requests' = requests \ {q},
         UNCHANGED <<now, early>>,
         nextAllowed' \in Nat, asked' \in Nat, asked' <= nextAllowed'
  PROVE  ProviderInv'
<1>1. requests' = {}
  BY DEF ProviderInv
<1> QED BY <1>1 DEF ProviderInv

LEMMA ProviderInvSent ==
  ASSUME ProviderInv, NEW k \in Keys, SearchSent(k)
  PROVE  ProviderInv'
<1>1. nextAllowed <= now /\ requests = {}
  BY DEF SearchSent, Refused, InFlight, ProviderInv
<1>2. Raises = {}
  BY <1>1 DEF Raises
<1>3. requests' = {[key |-> k, label |-> form.label, wanted |-> TRUE]}
  BY <1>2 DEF SearchSent
<1>4. early' = FALSE
  <2>1. ~(now < asked)
    BY <1>1 DEF ProviderInv
  <2>2. early = FALSE /\ early' = (early \/ now < asked)
    BY Zenon DEF SearchSent, ProviderInv
  <2> QED BY <2>1, <2>2, Zenon
<1> QED BY <1>1, <1>3, <1>4 DEF SearchSent, ProviderInv

LEMMA ProviderInvRateLimited ==
  ASSUME ProviderInv, NEW q \in requests, RateLimited(q)
  PROVE  ProviderInv'
<1>1. nextAllowed <= now /\ asked <= now
  BY DEF ProviderInv
<1>2. requests' = requests \ {q} /\ UNCHANGED <<now, early>>
  BY DEF RateLimited, Ends
<1>3. nextAllowed' \in Nat /\ asked' \in Nat /\ asked' <= nextAllowed'
  <2>1. CASE UNCHANGED <<nextAllowed, asked>>
    BY <2>1 DEF ProviderInv
  <2>2. CASE \E wait \in RetryAfters :
               /\ nextAllowed' = AllowedAfter(wait)
               /\ asked' = IF now + wait > asked THEN now + wait ELSE asked
    <3>1. PICK wait \in RetryAfters :
               /\ nextAllowed' = now + wait
               /\ asked' = IF now + wait > asked THEN now + wait ELSE asked
      BY <2>2 DEF AllowedAfter
    <3>2. wait \in Nat
      BY LocationAssumption
    <3> QED BY <1>1, <3>1, <3>2 DEF ProviderInv
  <2> QED BY <2>1, <2>2 DEF RateLimited
<1> QED BY <1>2, <1>3, ProviderInvEnds

LEMMA ProviderInvNext == ProviderInv /\ [Next]_vars => ProviderInv'
<1> SUFFICES ASSUME ProviderInv, [Next]_vars PROVE ProviderInv'
  OBVIOUS
<1> USE DEF Rest, Still, Invalidates, Dropped
<1>1. CASE SearchRejected
  BY <1>1, ProviderInvRaises DEF SearchRejected
<1>2. ASSUME NEW k \in Keys, SearchHits(k) PROVE ProviderInv'
  BY <1>2, ProviderInvRaises DEF SearchHits
<1>3. ASSUME NEW k \in Keys, SearchRefused(k) PROVE ProviderInv'
  BY <1>3, ProviderInvRaises DEF SearchRefused
<1>4. ASSUME NEW k \in Keys, SearchSent(k) PROVE ProviderInv'
  BY <1>4, ProviderInvSent
<1>5. ASSUME NEW q \in requests, Answered(q) PROVE ProviderInv'
  <2>1. requests' = requests \ {q} /\ UNCHANGED <<now, early, nextAllowed, asked>>
    BY <1>5 DEF Answered, Ends
  <2> QED BY <2>1, ProviderInvEnds DEF ProviderInv
<1>6. ASSUME NEW q \in requests, RateLimited(q) PROVE ProviderInv'
  BY <1>6, ProviderInvRateLimited
<1>7. ASSUME NEW q \in requests, Failed(q) PROVE ProviderInv'
  <2>1. requests' = requests \ {q} /\ UNCHANGED <<now, early, nextAllowed, asked>>
    BY <1>7 DEF Failed, Ends
  <2> QED BY <2>1, ProviderInvEnds DEF ProviderInv
<1>8. CASE Edit
  BY <1>8, ProviderInvRaises DEF Edit, EditQuery, EditLabel, UseManual, Accept, Submit, SubmitFails
<1>9. ASSUME NEW q \in Queries, Remount(q) PROVE ProviderInv'
  BY <1>9, ProviderInvRaises DEF Remount
<1>10. CASE Tick
  BY <1>10 DEF Tick, ProviderInv
<1>11. CASE UNCHANGED vars
  BY <1>11 DEF vars, ProviderInv
<1> QED
  BY <1>1, <1>2, <1>3, <1>4, <1>5, <1>6, <1>7, <1>8, <1>9, <1>10, <1>11
  DEF Next, Search, Provider

\* The provider has one request at a time and none before the time it asked for
\* has passed, whichever forms search and however late it answers.
THEOREM ProviderIsLeftAlone == Spec => []ProviderLeftAlone
<1>1. Spec => []ProviderInv
  BY ProviderInvInit, ProviderInvNext, PTL DEF Spec
<1> QED BY <1>1, OneRequest, PTL

(***************************************************************************)
(* The cache and the form.                                                 *)
(***************************************************************************)

\* Entries and keys in the order of their last use: the cache is the end of the
\* history of uses, as long as the capacity allows, and no key is in it twice.
Unique(o) == \A j, k \in 1..Len(o) : o[j] = o[k] => j = k
Matches(c, o) ==
  /\ c \in Seq(Entries) /\ o \in Seq(Keys) /\ Unique(o)
  /\ Len(c) = IF Len(o) < Capacity THEN Len(o) ELSE Capacity
  /\ \A k \in 1..Len(c) : c[k].key = o[Len(o) - Len(c) + k]

\* An entry's place may be used, and it expires TTL after its key was fetched.
Good(e, given) == Usable(e.place) /\ e.expires <= given[e.key] + TTL

CacheInv ==
  /\ now \in 0..MaxTime
  /\ fetched \in [Keys -> 0..MaxTime] /\ \A key \in Keys : fetched[key] <= now
  /\ Matches(cache, order)
  /\ \A k \in 1..Len(cache) : Good(cache[k], fetched)
  /\ TTL = 0 => cache = <<>>

\* A request whose answer will be shown is about what the form holds, and the
\* form shows nothing meanwhile; a place shown comes without a failure.
FormInv ==
  /\ form \in Forms /\ requests \subseteq Requests
  /\ CandidateFitsForm
  /\ form.lookup.place # NoPlace => form.lookup.failure = "none"
  /\ \A q \in requests : q.wanted =>
       /\ q.key = KeyOf[form.query] /\ q.label = form.label
       /\ form.lookup = NoResult /\ ~form.accepted

SearchInv == ProviderInv /\ CacheInv /\ FormInv

-----------------------------------------------------------------------------
(* Sequences. *)

\* What RemoveAt leaves: the elements before the index and those behind it.
LEMMA RemovedAt ==
  ASSUME NEW S, NEW s \in Seq(S), NEW k \in 1..Len(s)
  PROVE  /\ RemoveAt(s, k) \in Seq(S)
         /\ Len(RemoveAt(s, k)) = Len(s) - 1
         /\ \A j \in 1..Len(s) - 1 : RemoveAt(s, k)[j] = IF j < k THEN s[j] ELSE s[j + 1]
<1> DEFINE a == SubSeq(s, 1, k - 1)
           b == SubSeq(s, k + 1, Len(s))
<1>1. Len(s) \in Nat /\ k \in Int /\ 1 \in Int /\ k - 1 \in Int /\ k + 1 \in Int /\ Len(s) \in Int
  BY LenProperties
<1>2. /\ \A i \in 1..k - 1 : s[i] \in S
      /\ \A i \in k + 1..Len(s) : s[i] \in S
  BY <1>1, ElementOfSeq
<1>3. /\ a \in Seq(S) /\ Len(a) = k - 1
      /\ \A i \in 1..k - 1 : a[i] = s[i]
  <2>1. /\ a \in Seq(S) /\ Len(a) = IF 1 <= k - 1 THEN (k - 1) - 1 + 1 ELSE 0
        /\ \A i \in 1..(k - 1) - 1 + 1 : a[i] = s[1 + i - 1]
    BY <1>1, <1>2, SubSeqProperties
  <2> QED  BY <1>1, <2>1
<1>4. /\ b \in Seq(S) /\ Len(b) = Len(s) - k
      /\ \A i \in 1..Len(s) - k : b[i] = s[k + i]
  <2>1. /\ b \in Seq(S) /\ Len(b) = IF k + 1 <= Len(s) THEN Len(s) - (k + 1) + 1 ELSE 0
        /\ \A i \in 1..Len(s) - (k + 1) + 1 : b[i] = s[(k + 1) + i - 1]
    BY <1>1, <1>2, SubSeqProperties
  <2> QED  BY <1>1, <2>1
<1> HIDE DEF a, b
<1>5. /\ a \o b \in Seq(S) /\ Len(a \o b) = Len(a) + Len(b)
      /\ \A i \in 1..Len(a) + Len(b) : (a \o b)[i] = IF i <= Len(a) THEN a[i] ELSE b[i - Len(a)]
  BY <1>3, <1>4, ConcatProperties
<1>6. RemoveAt(s, k) = a \o b
  BY DEF RemoveAt, a, b
<1> DEFINE r == a \o b
<1> HIDE DEF r
<1>7. r \in Seq(S) /\ Len(r) = Len(s) - 1
  BY <1>1, <1>3, <1>4, <1>5 DEF r
<1>8. ASSUME NEW j \in 1..Len(s) - 1
      PROVE  r[j] = IF j < k THEN s[j] ELSE s[j + 1]
  <2>1. j \in 1..Len(a) + Len(b) /\ j \in Int
    BY <1>1, <1>3, <1>4
  <2>2. CASE j < k
    <3>1. j <= Len(a) /\ j \in 1..k - 1
      BY <1>1, <1>3, <2>1, <2>2
    <3> QED  BY <1>3, <1>5, <2>1, <2>2, <3>1 DEF r
  <2>3. CASE ~(j < k)
    <3>1. ~(j <= Len(a)) /\ j - Len(a) \in 1..Len(s) - k /\ k + (j - Len(a)) = j + 1
      BY <1>1, <1>3, <2>1, <2>3
    <3> QED  BY <1>4, <1>5, <2>1, <2>3, <3>1 DEF r
  <2> QED  BY <2>2, <2>3
<1> QED  BY <1>6, <1>7, <1>8 DEF r

\* Moving an element to the end, perhaps in another form.
LEMMA MovedBack ==
  ASSUME NEW S, NEW s \in Seq(S), NEW p \in 1..Len(s), NEW e \in S
  PROVE  LET t == Append(RemoveAt(s, p), e) IN
         /\ t \in Seq(S) /\ Len(t) = Len(s)
         /\ \A j \in 1..Len(s) - 1 : t[j] = IF j < p THEN s[j] ELSE s[j + 1]
         /\ t[Len(s)] = e
<1> DEFINE t == Append(RemoveAt(s, p), e)
<1>1. /\ RemoveAt(s, p) \in Seq(S) /\ Len(RemoveAt(s, p)) = Len(s) - 1
      /\ \A j \in 1..Len(s) - 1 : RemoveAt(s, p)[j] = IF j < p THEN s[j] ELSE s[j + 1]
  BY RemovedAt
<1> DEFINE r == RemoveAt(s, p)
<1> HIDE DEF r
<1>2. /\ t \in Seq(S) /\ Len(t) = Len(r) + 1
      /\ \A j \in 1..Len(r) : t[j] = r[j]
      /\ t[Len(r) + 1] = e
  BY <1>1, AppendProperties DEF r
<1>3. Len(s) \in Nat
  BY LenProperties
<1> QED  BY <1>1, <1>2, <1>3 DEF r

\* Removing an element that is there once, or not at all.
LEMMA RemovedFirst ==
  ASSUME NEW S, NEW s \in Seq(S), NEW p \in 1..Len(s),
         \A j \in 1..Len(s) : s[j] = s[p] => j = p
  PROVE  RemoveFirst(s, s[p]) = RemoveAt(s, p)
<1> DEFINE e == s[p]
           I == {i \in 1..Len(s) : s[i] = e}
<1>1. I = {p}
  OBVIOUS
<1>2. Min(I) = p
  <2>1. Len(s) \in Nat /\ p \in Nat
    BY LenProperties
  <2>2. p \in I /\ \A i \in I : p <= i
    BY <1>1, <2>1
  <2>3. \A m \in I : m = p
    BY <1>1
  <2> HIDE DEF I
  <2> QED  BY <2>2, <2>3 DEF Min
<1>3. SelectInSeq(s, LAMBDA v : v = e) = p
  BY <1>1, <1>2 DEF SelectInSeq
<1>4. \E i \in 1..Len(s) : s[i] = e
  BY <1>1
<1> QED  BY <1>3, <1>4 DEF RemoveFirst

LEMMA NothingRemoved ==
  ASSUME NEW s, NEW e, \A j \in 1..Len(s) : s[j] # e
  PROVE  RemoveFirst(s, e) = s
BY DEF RemoveFirst

-----------------------------------------------------------------------------
(* The order of uses. *)

\* A key used again moves to the end of the history.
Used(o, key) == Append(RemoveFirst(o, key), key)
RotatedAt(o, q, u) ==
  /\ u \in Seq(Keys) /\ Len(u) = Len(o) /\ Unique(u)
  /\ \A j \in 1..Len(o) - 1 : u[j] = IF j < q THEN o[j] ELSE o[j + 1]
  /\ u[Len(o)] = o[q]
LEMMA Rotated ==
  ASSUME NEW o \in Seq(Keys), Unique(o), NEW q \in 1..Len(o)
  PROVE  RotatedAt(o, q, Used(o, o[q]))
<1> DEFINE u == Used(o, o[q])
<1>1. RemoveFirst(o, o[q]) = RemoveAt(o, q) /\ o[q] \in Keys
  <2>1. \A j \in 1..Len(o) : o[j] = o[q] => j = q
    BY DEF Unique
  <2> QED  BY <2>1, RemovedFirst, ElementOfSeq
<1>2. /\ u \in Seq(Keys) /\ Len(u) = Len(o)
      /\ \A j \in 1..Len(o) - 1 : u[j] = IF j < q THEN o[j] ELSE o[j + 1]
      /\ u[Len(o)] = o[q]
  <2>1. u = Append(RemoveAt(o, q), o[q])
    BY <1>1 DEF Used
  <2> DEFINE v == Append(RemoveAt(o, q), o[q])
  <2>2. /\ v \in Seq(Keys) /\ Len(v) = Len(o)
        /\ \A j \in 1..Len(o) - 1 : v[j] = IF j < q THEN o[j] ELSE o[j + 1]
        /\ v[Len(o)] = o[q]
    BY <1>1, MovedBack
  <2> HIDE DEF v
  <2>3. u = v
    BY <2>1 DEF v
  <2> HIDE DEF u
  <2> QED  BY <2>2, <2>3
<1> DEFINE was(j) == IF j = Len(o) THEN q ELSE IF j < q THEN j ELSE j + 1
<1>3. Len(o) \in Nat
  BY LenProperties
<1>4. \A j \in 1..Len(o) : was(j) \in 1..Len(o) /\ u[j] = o[was(j)]
  BY <1>2, <1>3
<1>5. \A j, k \in 1..Len(o) : was(j) = was(k) => j = k
  BY <1>3
<1> HIDE DEF was, u
<1>6. ASSUME NEW j \in 1..Len(u), NEW k \in 1..Len(u), u[j] = u[k] PROVE j = k
  <2>1. /\ was(j) \in 1..Len(o) /\ was(k) \in 1..Len(o) /\ o[was(j)] = o[was(k)]
        /\ j \in 1..Len(o) /\ k \in 1..Len(o)
    BY <1>2, <1>4, <1>6
  <2> QED  BY <1>5, <2>1 DEF Unique
<1> QED  BY <1>2, <1>6 DEF RotatedAt, Unique, u

\* A key used for the first time.
ExtendedBy(o, key, u) ==
  /\ u \in Seq(Keys) /\ Len(u) = Len(o) + 1 /\ Unique(u)
  /\ \A j \in 1..Len(o) : u[j] = o[j]
  /\ u[Len(o) + 1] = key
Unused(o, key) == \A j \in 1..Len(o) : o[j] # key
LEMMA Extended ==
  ASSUME NEW o \in Seq(Keys), Unique(o), NEW key \in Keys, Unused(o, key)
  PROVE  ExtendedBy(o, key, Used(o, key))
<1> DEFINE u == Used(o, key)
<1>1. u = Append(o, key)
  BY NothingRemoved DEF Used, Unused
<1> HIDE DEF u
<1>2. /\ u \in Seq(Keys) /\ Len(u) = Len(o) + 1
      /\ \A j \in 1..Len(o) : u[j] = o[j]
      /\ u[Len(o) + 1] = key
  BY <1>1, AppendProperties
<1>3. Len(o) \in Nat
  BY LenProperties
<1>4. \A j \in 1..Len(u) : j \in 1..Len(o) \/ j = Len(o) + 1
  BY <1>2, <1>3
<1>5. \A j, k \in 1..Len(u) : u[j] = u[k] => j = k
  BY <1>2, <1>4 DEF Unique, Unused
<1> QED  BY <1>2, <1>5 DEF ExtendedBy, Unique, u

LEMMA Lengths ==
  ASSUME NEW c, NEW o, Matches(c, o)
  PROVE  /\ c \in Seq(Entries) /\ o \in Seq(Keys) /\ Len(c) \in Nat /\ Len(o) \in Nat
         /\ Len(c) <= Len(o) /\ Len(c) <= Capacity /\ Capacity \in Nat \ {0}
         /\ Len(c) < Capacity => Len(c) = Len(o)
         /\ \A k \in 1..Len(c) : c[k] \in Entries /\ c[k].key \in Keys
<1>1. c \in Seq(Entries) /\ o \in Seq(Keys) /\ Len(c) \in Nat /\ Len(o) \in Nat
  BY LenProperties DEF Matches
<1>2. Capacity \in Nat \ {0}
  BY LocationAssumption
<1>3. \A k \in 1..Len(c) : c[k] \in Entries
  BY <1>1, ElementOfSeq
<1>4. \A k \in 1..Len(c) : c[k].key \in Keys
  BY <1>3 DEF Entries
<1> QED  BY <1>1, <1>2, <1>3, <1>4 DEF Matches

MadeOf(t, c, e) == \A k \in 1..Len(t) : t[k] = e \/ \E j \in 1..Len(c) : t[k] = c[j]

\* An entry of the cache that is used, or stored anew, moves to the end.
LEMMA UsedAgain ==
  ASSUME NEW c, NEW o, Matches(c, o), NEW p \in 1..Len(c), NEW e \in Entries, e.key = c[p].key,
         NEW t, t = Append(RemoveAt(c, p), e),
         NEW u, u = Used(o, e.key)
  PROVE  Matches(t, u) /\ MadeOf(t, c, e)
<1> DEFINE m == Len(c)
           n == Len(o)
           q == n - m + p
<1>1. /\ c \in Seq(Entries) /\ o \in Seq(Keys) /\ m \in Nat /\ n \in Nat /\ m <= n
      /\ p \in 1..m
  BY Lengths
<1>2. q \in 1..n /\ o[q] = e.key
  <2>1. q \in 1..n
    BY <1>1
  <2> QED  BY <2>1 DEF Matches
<1>3. /\ t \in Seq(Entries) /\ Len(t) = m
      /\ \A j \in 1..m - 1 : t[j] = IF j < p THEN c[j] ELSE c[j + 1]
      /\ t[m] = e
  BY <1>1, MovedBack
<1>4. /\ u \in Seq(Keys) /\ Len(u) = n /\ Unique(u)
      /\ \A j \in 1..n - 1 : u[j] = IF j < q THEN o[j] ELSE o[j + 1]
      /\ u[n] = e.key
  <2>1. RotatedAt(o, q, u)
    BY <1>1, <1>2, Rotated DEF Matches
  <2> QED  BY <1>2, <2>1 DEF RotatedAt
<1>5. ASSUME NEW k \in 1..Len(t) PROVE t[k].key = u[Len(u) - Len(t) + k]
  <2>1. CASE k = m
    <3>1. Len(u) - Len(t) + k = n
      BY <1>1, <1>3, <1>4, <2>1
    <3> QED  BY <1>3, <1>4, <2>1, <3>1
  <2>2. CASE k # m
    <3>1. k \in 1..m - 1 /\ n - m + k \in 1..n - 1 /\ k \in 1..m /\ k + 1 \in 1..m
      BY <1>1, <1>3, <2>2
    <3>2. k < p <=> n - m + k < q
      BY <1>1, <3>1
    <3>3. c[k].key = o[n - m + k] /\ c[k + 1].key = o[n - m + (k + 1)]
      BY <3>1 DEF Matches
    <3>4. n - m + (k + 1) = n - m + k + 1
      BY <1>1, <3>1
    <3>5. t[k] = IF k < p THEN c[k] ELSE c[k + 1]
      BY <1>3, <3>1
    <3>6. u[n - m + k] = IF k < p THEN o[n - m + k] ELSE o[n - m + k + 1]
      BY <1>4, <3>1, <3>2
    <3> QED  BY <1>3, <1>4, <3>3, <3>4, <3>5, <3>6
  <2> QED  BY <2>1, <2>2
<1>6. Matches(t, u)
  BY <1>3, <1>4, <1>5 DEF Matches
<1>7. ASSUME NEW k \in 1..Len(t) PROVE t[k] = e \/ \E j \in 1..Len(c) : t[k] = c[j]
  <2>1. k = m \/ (k \in 1..m - 1 /\ k \in 1..m /\ k + 1 \in 1..m)
    BY <1>1, <1>3
  <2> QED  BY <1>3, <2>1
<1> QED  BY <1>6, <1>7 DEF MadeOf

\* Dropping the least recently used entry of a cache that is over its capacity.
TrimmedTo(a, m, t) ==
  /\ t \in Seq(Entries)
  /\ m < Capacity => t = a
  /\ m = Capacity => Len(t) = m /\ \A k \in 1..m : t[k] = a[k + 1]
LEMMA TrimmedIs ==
  ASSUME NEW a \in Seq(Entries), NEW m \in Nat, Len(a) = m + 1, m <= Capacity, Capacity \in Nat
  PROVE  TrimmedTo(a, m, Trimmed(a))
<1> DEFINE t == Trimmed(a)
<1>1. CASE m < Capacity
  BY <1>1 DEF Trimmed, TrimmedTo
<1>2. CASE m = Capacity
  <2>1. t = Tail(a) /\ a # <<>>
    BY <1>2, EmptySeq DEF Trimmed
  <2>2. /\ Tail(a) \in Seq(Entries) /\ Len(Tail(a)) = Len(a) - 1
        /\ \A i \in 1..Len(Tail(a)) : Tail(a)[i] = a[i + 1]
    BY <2>1, HeadTailProperties
  <2> QED  BY <1>2, <2>1, <2>2 DEF TrimmedTo
<1> QED  BY <1>1, <1>2

\* An entry that was not in the cache is added, and the oldest may go.
LEMMA NewlyUsed ==
  ASSUME NEW c, NEW o, Matches(c, o), NEW e \in Entries, \A p \in 1..Len(c) : c[p].key # e.key,
         NEW t, t = Trimmed(Append(c, e)),
         NEW u, u = Used(o, e.key)
  PROVE  Matches(t, u) /\ MadeOf(t, c, e)
<1> DEFINE m == Len(c)
           n == Len(o)
           a == Append(c, e)
<1>0. /\ c \in Seq(Entries) /\ o \in Seq(Keys) /\ m \in Nat /\ n \in Nat /\ m <= n
      /\ m <= Capacity /\ Capacity \in Nat \ {0} /\ (m < Capacity => m = n)
      /\ Unique(o)
      /\ \A k \in 1..m : c[k].key = o[n - m + k]
      /\ e.key \in Keys
  BY Lengths DEF Matches, Entries
<1>1. /\ a \in Seq(Entries) /\ Len(a) = m + 1 /\ \A k \in 1..m : a[k] = c[k]
      /\ a[m + 1] = e
  BY <1>0, AppendProperties
<1> HIDE DEF a
<1>2. /\ t \in Seq(Entries)
      /\ m < Capacity => t = a
      /\ m = Capacity => Len(t) = m /\ \A k \in 1..m : t[k] = a[k + 1]
  <2>1. t = Trimmed(a) /\ Capacity \in Nat
    BY <1>0 DEF a
  <2>2. TrimmedTo(a, m, t)
    BY <1>0, <1>1, <2>1, TrimmedIs
  <2> QED  BY <2>2 DEF TrimmedTo
<1>3. ASSUME NEW k \in 1..Len(t) PROVE t[k] = e \/ \E j \in 1..Len(c) : t[k] = c[j]
  <2>1. CASE m < Capacity
    <3>1. k \in 1..m \/ k = m + 1
      BY <1>0, <1>1, <1>2, <2>1
    <3> QED  BY <1>1, <1>2, <2>1, <3>1
  <2>2. CASE m = Capacity
    <3>1. k \in 1..m /\ t[k] = a[k + 1] /\ (k + 1 \in 1..m \/ k + 1 = m + 1)
      BY <1>0, <1>2, <2>2
    <3> QED  BY <1>1, <3>1
  <2> QED  BY <1>0, <2>1, <2>2
<1>4. CASE \E q \in 1..n : o[q] = e.key
  <2>1. PICK q \in 1..n : o[q] = e.key
    BY <1>4
  <2>2. /\ u \in Seq(Keys) /\ Len(u) = n /\ Unique(u)
        /\ \A j \in 1..n - 1 : u[j] = IF j < q THEN o[j] ELSE o[j + 1]
        /\ u[n] = e.key
    <3>1. RotatedAt(o, q, u)
      BY <1>0, <2>1, Rotated
    <3> QED  BY <2>1, <3>1 DEF RotatedAt
  <2>3. q <= n - m
    <3>1. ASSUME ~(q <= n - m) PROVE FALSE
      <4>1. q - (n - m) \in 1..m /\ n - m + (q - (n - m)) = q
        BY <1>0, <2>1, <3>1
      <4> QED  BY <1>0, <2>1, <4>1
    <3> QED  BY <3>1
  <2>4. m = Capacity
    BY <1>0, <2>1, <2>3
  <2>5. ASSUME NEW k \in 1..Len(t) PROVE t[k].key = u[Len(u) - Len(t) + k]
    <3>1. Len(t) = m /\ k \in 1..m /\ t[k] = a[k + 1] /\ Len(u) - Len(t) + k = n - m + k
      BY <1>2, <2>2, <2>4
    <3>2. CASE k = m
      BY <1>0, <1>1, <2>2, <3>1, <3>2
    <3>3. CASE k # m
      <4>1. k + 1 \in 1..m /\ n - m + k \in 1..n - 1 /\ ~(n - m + k < q)
        BY <1>0, <2>1, <2>3, <3>1, <3>3
      <4>2. t[k].key = o[n - m + (k + 1)]
        BY <1>0, <1>1, <3>1, <4>1
      <4>3. u[n - m + k] = o[n - m + k + 1]
        BY <2>2, <4>1
      <4>4. n - m + (k + 1) = n - m + k + 1
        BY <1>0, <3>1
      <4> QED  BY <3>1, <4>2, <4>3, <4>4
    <3> QED  BY <3>2, <3>3
  <2>6. Len(t) = IF Len(u) < Capacity THEN Len(u) ELSE Capacity
    BY <1>0, <1>2, <2>2, <2>4
  <2> QED  BY <1>2, <1>3, <2>2, <2>5, <2>6 DEF Matches, MadeOf
<1>5. CASE ~\E q \in 1..n : o[q] = e.key
  <2>1. /\ u \in Seq(Keys) /\ Len(u) = n + 1
        /\ \A j \in 1..n : u[j] = o[j]
        /\ u[n + 1] = e.key
        /\ Unique(u)
    <3>1. ExtendedBy(o, e.key, u)
      BY <1>0, <1>5, Extended DEF Unused
    <3> QED  BY <3>1 DEF ExtendedBy
  <2>2. CASE m < Capacity
    <3>1. Len(t) = m + 1 /\ m = n /\ t = a
      BY <1>0, <1>1, <1>2, <2>2
    <3>2. Len(t) = IF Len(u) < Capacity THEN Len(u) ELSE Capacity
      BY <1>0, <2>1, <2>2, <3>1
    <3>3. ASSUME NEW k \in 1..Len(t) PROVE t[k].key = u[Len(u) - Len(t) + k]
      <4>1. Len(u) - Len(t) + k = k /\ (k \in 1..m \/ k = m + 1) /\ n - m + k = k
        BY <1>0, <2>1, <3>1
      <4> QED  BY <1>0, <1>1, <2>1, <3>1, <4>1
    <3> QED  BY <1>2, <1>3, <2>1, <3>2, <3>3 DEF Matches, MadeOf
  <2>3. CASE m = Capacity
    <3>1. Len(t) = m /\ \A k \in 1..m : t[k] = a[k + 1]
      BY <1>2, <2>3
    <3>2. Len(t) = IF Len(u) < Capacity THEN Len(u) ELSE Capacity
      BY <1>0, <2>1, <2>3, <3>1
    <3>3. ASSUME NEW k \in 1..Len(t) PROVE t[k].key = u[Len(u) - Len(t) + k]
      <4>1. k \in 1..m /\ Len(u) - Len(t) + k = n - m + (k + 1)
        BY <1>0, <2>1, <3>1
      <4>2. CASE k = m
        BY <1>0, <1>1, <2>1, <3>1, <4>1, <4>2
      <4>3. CASE k # m
        <5>1. k + 1 \in 1..m /\ n - m + (k + 1) \in 1..n
          BY <1>0, <4>1, <4>3
        <5>2. t[k] = c[k + 1] /\ c[k + 1].key = o[n - m + (k + 1)]
          BY <1>0, <1>1, <3>1, <4>1, <5>1
        <5>3. u[n - m + (k + 1)] = o[n - m + (k + 1)]
          BY <2>1, <5>1
        <5> QED  BY <4>1, <5>2, <5>3
      <4> QED  BY <4>2, <4>3
    <3> QED  BY <1>2, <1>3, <2>1, <3>2, <3>3 DEF Matches, MadeOf
  <2> QED  BY <1>0, <2>2, <2>3
<1> QED  BY <1>4, <1>5

-----------------------------------------------------------------------------
(* The cache. *)

LEMMA Cached ==
  ASSUME CacheInv
  PROVE  /\ cache \in Seq(Entries) /\ order \in Seq(Keys) /\ Len(cache) \in Nat
         /\ now \in Nat /\ TTL \in Nat
         /\ \A k \in 1..Len(cache) : cache[k] \in Entries
         /\ ToSet(cache) = {cache[k] : k \in 1..Len(cache)}
<1>1. cache \in Seq(Entries) /\ order \in Seq(Keys)
  BY DEF CacheInv, Matches
<1>2. Len(cache) \in Nat /\ DOMAIN cache = 1..Len(cache)
  BY <1>1, LenProperties
<1>3. \A k \in 1..Len(cache) : cache[k] \in Entries
  BY <1>1, ElementOfSeq
<1> QED  BY <1>1, <1>2, <1>3, LocationAssumption DEF CacheInv, ToSet

LEMMA CacheInvInit == Init => CacheInv
<1> SUFFICES ASSUME Init PROVE CacheInv
  OBVIOUS
<1>1. cache = <<>> /\ order = <<>> /\ Len(cache) = 0 /\ Len(order) = 0
  BY EmptySeq DEF Init
<1>2. cache \in Seq(Entries) /\ order \in Seq(Keys)
  BY <1>1, EmptySeq
<1>3. Matches(cache, order)
  BY <1>1, <1>2, LocationAssumption DEF Matches, Unique
<1> QED  BY <1>1, <1>3, LocationAssumption DEF Init, CacheInv

\* Steps that leave the cache alone; the clock may go on.
LEMMA CacheInvStays ==
  ASSUME CacheInv, UNCHANGED <<cache, order, fetched>>, now' \in 0..MaxTime, now <= now'
  PROVE  CacheInv'
<1>1. \A key \in Keys : fetched[key] \in Int
  BY DEF CacheInv
<1>2. now \in Int /\ now' \in Int
  BY DEF CacheInv
<1>3. \A key \in Keys : fetched'[key] <= now'
  BY <1>1, <1>2 DEF CacheInv
<1>4. Matches(cache', order') /\ \A k \in 1..Len(cache') : Good(cache'[k], fetched')
  BY DEF CacheInv
<1> QED  BY <1>3, <1>4 DEF CacheInv

\* Looking a key up makes its entry the most recently used.
LEMMA CacheInvLooked ==
  ASSUME CacheInv, NEW key \in Keys, Looked(key), UNCHANGED <<now, fetched>>
  PROVE  CacheInv'
<1>1. CASE Position(cache, key) = {}
  <2>1. cache' = cache /\ order' = order
    BY <1>1 DEF Looked, Touched
  <2> QED  BY <2>1 DEF CacheInv, Matches, Good
<1>2. CASE Position(cache, key) # {}
  <2> DEFINE p == CHOOSE k \in Position(cache, key) : TRUE
  <2>1. p \in 1..Len(cache) /\ cache[p].key = key /\ cache[p] \in Entries
    BY <1>2, Cached DEF Position
  <2>2. TTL > 0
    BY <2>1, Cached DEF CacheInv
  <2>3. cache' = Append(RemoveAt(cache, p), cache[p])
    BY <1>2, <2>2 DEF Looked, Touched, Without
  <2>4. order' = Used(order, cache[p].key)
    BY <1>2, <2>1 DEF Looked, Recent, Used
  <2> HIDE DEF p
  <2>5. Matches(cache', order') /\ MadeOf(cache', cache, cache[p])
    <3>1. Matches(cache, order)
      BY DEF CacheInv
    <3> QED  BY <2>1, <2>3, <2>4, <3>1, UsedAgain
  <2>6. \A k \in 1..Len(cache') : Good(cache'[k], fetched')
    BY <2>1, <2>5 DEF CacheInv, MadeOf
  <2>7. now' = now /\ fetched' = fetched
    OBVIOUS
  <2>8. /\ now \in 0..MaxTime /\ fetched \in [Keys -> 0..MaxTime]
        /\ \A j \in Keys : fetched[j] <= now
    BY DEF CacheInv
  <2>9. TTL # 0
    BY <2>2
  <2> QED  BY <2>5, <2>6, <2>7, <2>8, <2>9 DEF CacheInv
<1> QED  BY <1>1, <1>2

\* A place the provider gave is stored, and the least recently used entry goes.
LEMMA CacheInvPut ==
  ASSUME CacheInv, NEW entry \in Entries, Usable(entry.place), entry.expires = now + TTL, TTL > 0,
         cache' = Put(cache, entry), order' = Recent(entry.key),
         fetched' = [fetched EXCEPT ![entry.key] = now], UNCHANGED now
  PROVE  CacheInv'
<1>1. /\ \A key \in Keys : fetched[key] \in Nat /\ fetched[key] <= now
      /\ now \in Nat /\ TTL \in Nat /\ entry.key \in Keys
  BY Cached DEF CacheInv, Entries
<1>2. /\ fetched' \in [Keys -> 0..MaxTime] /\ fetched'[entry.key] = now
      /\ \A key \in Keys : fetched'[key] <= now' /\ fetched[key] <= fetched'[key]
                           /\ fetched'[key] \in Nat
  BY <1>1 DEF CacheInv
<1>3. order' = Used(order, entry.key)
  BY DEF Recent, Used
<1>4. /\ Matches(cache', order')
      /\ MadeOf(cache', cache, entry)
  <2>1. CASE Position(cache, entry.key) = {}
    <3>1. cache' = Trimmed(Append(cache, entry))
      BY <2>1 DEF Put, Without
    <3>2. \A p \in 1..Len(cache) : cache[p].key # entry.key
      BY <2>1 DEF Position
    <3> QED  BY <1>3, <3>1, <3>2, NewlyUsed DEF CacheInv
  <2>2. CASE Position(cache, entry.key) # {}
    <3> DEFINE p == CHOOSE k \in Position(cache, entry.key) : TRUE
               t == Append(RemoveAt(cache, p), entry)
    <3>1. p \in 1..Len(cache) /\ entry.key = cache[p].key
      BY <2>2 DEF Position
    <3>2. cache' = Trimmed(t)
      BY <2>2 DEF Put, Without
    <3> HIDE DEF p
    <3> HIDE DEF t
    <3>3. Matches(t, order') /\ MadeOf(t, cache, entry)
      BY <1>3, <3>1, UsedAgain DEF CacheInv, t
    <3>4. ~(Len(t) > Capacity)
      BY <3>3, Lengths
    <3>5. cache' = t
      BY <3>2, <3>4 DEF Trimmed
    <3> QED  BY <3>3, <3>5
  <2> QED  BY <2>1, <2>2
<1>5. ASSUME NEW k \in 1..Len(cache') PROVE Good(cache'[k], fetched')
  <2>1. CASE cache'[k] = entry
    BY <1>1, <1>2, <2>1 DEF Good
  <2>2. ASSUME NEW j \in 1..Len(cache), cache'[k] = cache[j]
        PROVE  Good(cache'[k], fetched')
    <3>1. Good(cache[j], fetched) /\ cache[j] \in Entries
      BY Cached DEF CacheInv
    <3>2. cache[j].key \in Keys /\ cache[j].expires \in Nat
      BY <3>1 DEF Entries
    <3>3. cache[j].expires <= fetched[cache[j].key] + TTL
      BY <3>1 DEF Good
    <3>4. cache[j].expires <= fetched'[cache[j].key] + TTL
      BY <1>1, <1>2, <3>2, <3>3
    <3> QED  BY <2>2, <3>1, <3>4 DEF Good
  <2> QED  BY <1>4, <2>1, <2>2 DEF MadeOf
<1>6. now' \in 0..MaxTime /\ TTL # 0
  BY <1>1 DEF CacheInv
<1> QED  BY <1>2, <1>4, <1>5, <1>6 DEF CacheInv

-----------------------------------------------------------------------------
(* The form. *)

LEMMA Blank ==
  /\ NoResult \in Results \union {NoResult} /\ NoResult.place = NoPlace
  /\ NoResult.failure = "none" /\ NoResult.label = NoText /\ NoResult.key = NoKey
  /\ NoResult.hit = FALSE /\ ~Usable(NoPlace)
BY DEF NoResult, NoPlace, Usable

LEMMA RaisedOnes ==
  ASSUME requests \subseteq Requests
  PROVE  Raises \subseteq Requests /\ \A q \in Raises : q.wanted = FALSE
BY DEF Raises, Requests

LEMMA FormInvInit == Init => FormInv
<1> SUFFICES ASSUME Init PROVE FormInv
  OBVIOUS
<1>1. PICK q \in Queries : form = NewForm(q)
  BY DEF Init
<1>2. /\ form \in Forms /\ form.lookup = NoResult /\ form.accepted = FALSE
  BY <1>1 DEF NewForm, Forms
<1> QED  BY <1>2, Blank DEF Init, FormInv, CandidateFitsForm

\* The form is emptied, and no answer is waited for any more.
LEMMA FormInvEmptied ==
  ASSUME FormInv, form' \in Forms, form'.lookup = NoResult, form'.accepted = FALSE,
         requests' = Raises
  PROVE  FormInv'
BY Blank, RaisedOnes DEF FormInv, CandidateFitsForm

\* The form keeps what it shows.
LEMMA FormInvKept ==
  ASSUME FormInv, form' \in Forms, form'.lookup = form.lookup, form'.accepted = form.accepted,
         form'.query = form.query, form'.label = form.label,
         requests' \in {requests, Raises}
  PROVE  FormInv'
<1>1. CASE requests' = requests
  BY <1>1 DEF FormInv, CandidateFitsForm
<1>2. CASE requests' = Raises
  BY <1>2, RaisedOnes DEF FormInv, CandidateFitsForm
<1> QED  BY <1>1, <1>2

\* The form shows a result, and no answer is waited for any more.
LEMMA FormInvShows ==
  ASSUME FormInv, form' \in Forms, form'.accepted = FALSE,
         form'.query = form.query, form'.label = form.label,
         form'.lookup.key = KeyOf[form.query],
         form'.lookup.failure # "none" => form'.lookup.label = form.label,
         form'.lookup.place # NoPlace =>
           Usable(form'.lookup.place) /\ form'.lookup.failure = "none",
         requests' \subseteq Requests, \A q \in requests' : ~q.wanted
  PROVE  FormInv'
BY DEF FormInv, CandidateFitsForm

\* The failure of an answer, or a place that may be used.
LEMMA EvaluatedIs ==
  ASSUME NEW failure \in Failures, NEW place \in Places
  PROVE  /\ Evaluated(failure, place).failure \in Failures
         /\ Evaluated(failure, place).place \in Places
         /\ Evaluated(failure, place).failure = "none" => Usable(Evaluated(failure, place).place)
         /\ Evaluated(failure, place).place # NoPlace => Evaluated(failure, place).failure = "none"
<1>1. Validated(place) \in Failures /\ (Validated(place) = "none" => Usable(place))
  BY DEF Validated, Failures, Places, Usable
<1>2. NoPlace \in Places
  BY DEF NoPlace, Places
<1> QED  BY <1>1, <1>2 DEF Evaluated

LEMMA MappedIs ==
  ASSUME NEW body \in Bodies
  PROVE  Mapped(body).failure \in Failures /\ Mapped(body).place \in Places
<1>1. NoPlace \in Places
  BY DEF NoPlace, Places
<1>2. CASE body.kind \in {"unreadable", "malformed"}
  BY <1>1, <1>2 DEF Mapped, Failures
<1>3. CASE body.kind = "empty"
  BY <1>1, <1>3 DEF Mapped, Failures
<1>4. CASE body.kind = "feature"
  <2>1. body.label \in {"blank", "text"}
        /\ body.coordinates \in {"absent", "invalid", "out_of_range", "valid"}
    BY <1>4 DEF Bodies
  <2> QED  BY <1>1, <1>4, <2>1 DEF Mapped, Failures, Places
<1> QED  BY <1>2, <1>3, <1>4 DEF Bodies

\* A request that ends is shown if it is still wanted.
LEMMA FormInvEnds ==
  ASSUME ProviderInv, FormInv, NEW q \in requests, NEW answer, Ends(q, answer),
         answer.failure \in Failures, answer.place \in Places,
         answer.failure = "none" => Usable(answer.place),
         answer.place # NoPlace => answer.failure = "none"
  PROVE  FormInv'
<1>1. requests' = {}
  BY DEF Ends, ProviderInv
<1>2. CASE ~q.wanted
  <2>1. form' = form
    BY <1>2 DEF Ends, Wanted
  <2> QED  BY <1>1, <2>1 DEF FormInv, CandidateFitsForm
<1>3. CASE q.wanted
  <2> DEFINE result == [NoResult EXCEPT !.key = q.key, !.place = answer.place,
                          !.failure = answer.failure,
                          !.label = IF answer.failure = "none" THEN NoText ELSE q.label]
  <2>1. form' = [form EXCEPT !.searching = FALSE, !.lookup = result]
    BY <1>3 DEF Ends, Wanted, Shows
  <2>2. q.key \in Keys /\ q.label \in Labels /\ q.key = KeyOf[form.query] /\ q.label = form.label
        /\ ~form.accepted /\ form \in Forms
    BY <1>3 DEF FormInv, Requests
  <2>3. /\ result \in Results /\ result.key = q.key /\ result.place = answer.place
        /\ result.failure = answer.failure
        /\ answer.failure # "none" => result.label = q.label
    BY <2>2 DEF NoResult, Results
  <2> HIDE DEF result
  <2>4. /\ form' \in Forms /\ form'.lookup = result /\ form'.accepted = FALSE
        /\ form'.query = form.query /\ form'.label = form.label
    BY <2>1, <2>2, <2>3 DEF Forms
  <2> QED  BY <1>1, <2>2, <2>3, <2>4, FormInvShows
<1> QED  BY <1>2, <1>3

\* The form as a search begins.
LEMMA SearchingIs ==
  ASSUME form \in Forms
  PROVE  /\ Searching \in Forms /\ Searching.lookup = NoResult /\ Searching.accepted = FALSE
         /\ Searching.query = form.query /\ Searching.label = form.label
BY Blank DEF Searching, Forms

LEMMA FormInvHits ==
  ASSUME CacheInv, FormInv, NEW key \in Keys, SearchHits(key)
  PROVE  FormInv'
<1>1. PICK e \in Hits(key) :
        form' = [Searching EXCEPT !.searching = FALSE,
                   !.lookup = [NoResult EXCEPT !.key = key, !.place = e.place, !.hit = TRUE]]
  BY DEF SearchHits
<1>2. PICK k \in 1..Len(cache) : e = cache[k]
  BY <1>1, Cached DEF Hits
<1>3. e.place \in Places /\ Usable(e.place)
  BY <1>2, Cached DEF CacheInv, Good, Entries
<1> DEFINE result == [NoResult EXCEPT !.key = key, !.place = e.place, !.hit = TRUE]
<1>4. result \in Results /\ result.key = key /\ result.place = e.place /\ result.failure = "none"
  BY <1>3 DEF NoResult, Results, Failures
<1> HIDE DEF result
<1>5. /\ form' \in Forms /\ form'.lookup = result /\ form'.accepted = FALSE
      /\ form'.query = form.query /\ form'.label = form.label
  <2>1. form' = [Searching EXCEPT !.searching = FALSE, !.lookup = result]
    BY <1>1 DEF result
  <2> QED  BY <1>4, <2>1, SearchingIs DEF FormInv, Forms
<1>6. KeyOf[form.query] = key /\ requests' = Raises
  BY DEF SearchHits
<1>7. requests' \subseteq Requests /\ \A q \in requests' : ~q.wanted
  BY <1>6, RaisedOnes DEF FormInv
<1> QED  BY <1>3, <1>4, <1>5, <1>6, <1>7, FormInvShows

LEMMA FormInvRefused ==
  ASSUME FormInv, NEW key \in Keys, SearchRefused(key)
  PROVE  FormInv'
<1> DEFINE result == Manual(key, form.label, Refused)
<1>1. /\ form' = [Searching EXCEPT !.searching = FALSE, !.lookup = result]
      /\ KeyOf[form.query] = key /\ requests' = Raises /\ form \in Forms
  BY DEF SearchRefused, FormInv
<1>2. Refused \in Failures /\ form.label \in Labels \union {NoText}
  BY <1>1 DEF Refused, Failures, Forms
<1>3. /\ result \in Results /\ result.key = key /\ result.place = NoPlace
      /\ result.label = form.label
  BY <1>2 DEF Manual, NoResult, NoPlace, Results, Places
<1> HIDE DEF result
<1>4. /\ form' \in Forms /\ form'.lookup = result /\ form'.accepted = FALSE
      /\ form'.query = form.query /\ form'.label = form.label
  BY <1>1, <1>3, SearchingIs DEF Forms
<1>5. requests' \subseteq Requests /\ \A q \in requests' : ~q.wanted
  BY <1>1, RaisedOnes DEF FormInv
<1> QED  BY <1>1, <1>3, <1>4, <1>5, FormInvShows

LEMMA FormInvSent ==
  ASSUME FormInv, NEW key \in Keys, SearchSent(key)
  PROVE  FormInv'
<1> DEFINE r == [key |-> key, label |-> form.label, wanted |-> TRUE]
<1>1. /\ form' = Searching /\ requests' = Raises \union {r} /\ KeyOf[form.query] = key
      /\ form.label # NoText /\ form \in Forms
  BY DEF SearchSent, FormInv
<1>2. r \in Requests
  BY <1>1 DEF Requests, Forms
<1>3. /\ form' \in Forms /\ form'.lookup = NoResult /\ form'.accepted = FALSE
      /\ form'.query = form.query /\ form'.label = form.label
  BY <1>1, SearchingIs
<1>4. requests' \subseteq Requests /\ \A q \in requests' : q.wanted => q = r
  BY <1>1, <1>2, RaisedOnes DEF FormInv
<1>5. \A q \in requests' : q.wanted => q.key = key /\ q.label = form.label
  BY <1>4
<1> QED  BY <1>1, <1>3, <1>4, <1>5, Blank DEF FormInv, CandidateFitsForm

LEMMA FormInvEdit ==
  ASSUME FormInv, Edit \/ \E q \in Queries : Remount(q)
  PROVE  FormInv'
<1> USE DEF Still, Invalidates, Dropped
<1>0. form \in Forms
  BY DEF FormInv
<1>1. /\ Invalidated \in Forms /\ Invalidated.lookup = NoResult /\ Invalidated.accepted = FALSE
  BY <1>0, Blank DEF Invalidated, Forms
<1>2. ASSUME NEW q \in Queries, EditQuery(q) PROVE FormInv'
  <2>1. form' \in Forms /\ form'.lookup = NoResult /\ form'.accepted = FALSE
    BY <1>1, <1>2 DEF EditQuery, Forms
  <2> QED  BY <1>2, <2>1, FormInvEmptied DEF EditQuery
<1>3. ASSUME NEW l \in Labels \union {NoText}, EditLabel(l) PROVE FormInv'
  <2>1. form' \in Forms /\ form'.lookup = NoResult /\ form'.accepted = FALSE
    BY <1>1, <1>3 DEF EditLabel, Forms
  <2> QED  BY <1>3, <2>1, FormInvEmptied DEF EditLabel
<1>4. CASE UseManual
  BY <1>1, <1>4, FormInvEmptied DEF UseManual
<1>5. CASE Accept
  <2>1. /\ form' \in Forms /\ form'.lookup = form.lookup /\ form'.accepted = TRUE
        /\ form'.query = form.query /\ form'.label = form.label /\ requests' = requests
        /\ form.lookup.place # NoPlace
    BY <1>0, <1>5 DEF Accept, Forms
  <2> QED  BY <2>1, Blank DEF FormInv, CandidateFitsForm
<1>6. CASE Submit
  <2>1. /\ form' \in Forms /\ form'.lookup = form.lookup /\ form'.accepted = form.accepted
        /\ form'.query = form.query /\ form'.label = form.label
    BY <1>0, <1>6 DEF Submit, Forms
  <2> QED  BY <1>6, <2>1, FormInvKept DEF Submit
<1>7. CASE SubmitFails
  <2>1. /\ form' \in Forms /\ form'.lookup = form.lookup /\ form'.accepted = form.accepted
        /\ form'.query = form.query /\ form'.label = form.label
    BY <1>0, <1>7 DEF SubmitFails, Forms
  <2> QED  BY <1>7, <2>1, FormInvKept DEF SubmitFails
<1>8. ASSUME NEW q \in Queries, Remount(q) PROVE FormInv'
  <2>1. form' \in Forms /\ form'.lookup = NoResult /\ form'.accepted = FALSE
    BY <1>8, Blank DEF Remount, NewForm, Forms
  <2> QED  BY <1>8, <2>1, FormInvEmptied DEF Remount
<1> QED  BY <1>2, <1>3, <1>4, <1>5, <1>6, <1>7, <1>8 DEF Edit

-----------------------------------------------------------------------------
(* Every step. *)

LEMMA AnsweredKeeps ==
  ASSUME SearchInv, NEW q \in requests, Answered(q)
  PROVE  CacheInv' /\ FormInv'
<1>1. PICK body \in Bodies :
        LET mapped == Mapped(body)
            evaluated == Evaluated(mapped.failure, mapped.place)
            entry == [key |-> q.key, place |-> evaluated.place, stored |-> now, expires |-> now + TTL]
        IN /\ Ends(q, evaluated)
           /\ IF evaluated.failure = "none" /\ TTL > 0
              THEN /\ cache' = Put(cache, entry)
                   /\ order' = Recent(q.key) /\ fetched' = [fetched EXCEPT ![q.key] = now]
              ELSE UNCHANGED <<cache, order, fetched>>
  BY DEF Answered
<1> DEFINE ev == Evaluated(Mapped(body).failure, Mapped(body).place)
           entry == [key |-> q.key, place |-> ev.place, stored |-> now, expires |-> now + TTL]
<1>2. /\ ev.failure \in Failures /\ ev.place \in Places
      /\ ev.failure = "none" => Usable(ev.place)
      /\ ev.place # NoPlace => ev.failure = "none"
  BY MappedIs, EvaluatedIs
<1> HIDE DEF ev
<1>3. FormInv'
  <2>1. Ends(q, ev)
    BY <1>1 DEF ev
  <2> QED  BY <1>2, <2>1, FormInvEnds DEF SearchInv
<1>4. UNCHANGED now
  BY DEF Answered
<1>5. CASE ev.failure = "none" /\ TTL > 0
  <2>1. /\ cache' = Put(cache, entry)
        /\ order' = Recent(q.key) /\ fetched' = [fetched EXCEPT ![q.key] = now]
    BY <1>1, <1>5 DEF ev
  <2>2. q.key \in Keys /\ now \in 0..MaxTime /\ now + TTL \in Nat
    BY Cached DEF SearchInv, FormInv, CacheInv, Requests
  <2>3. /\ entry \in Entries /\ entry.key = q.key /\ entry.place = ev.place
        /\ entry.expires = now + TTL
    BY <1>2, <2>2 DEF Entries
  <2> HIDE DEF entry
  <2> QED  BY <1>2, <1>3, <1>4, <1>5, <2>1, <2>3, CacheInvPut DEF SearchInv
<1>6. CASE ~(ev.failure = "none" /\ TTL > 0)
  <2>1. UNCHANGED <<cache, order, fetched>>
    BY <1>1, <1>6 DEF ev
  <2> QED  BY <1>3, <1>4, <2>1, Cached, CacheInvStays DEF SearchInv, CacheInv
<1> QED  BY <1>5, <1>6

LEMMA UnansweredKeeps ==
  ASSUME SearchInv, NEW q \in requests, RateLimited(q) \/ Failed(q)
  PROVE  CacheInv' /\ FormInv'
<1>1. CacheInv'
  BY Cached, CacheInvStays DEF SearchInv, CacheInv, RateLimited, Failed
<1>2. PICK failure \in Failures \ {"none"} : Ends(q, [failure |-> failure, place |-> NoPlace])
  BY DEF RateLimited, Failed, Failures
<1>3. NoPlace \in Places
  BY DEF NoPlace, Places
<1>4. FormInv'
  BY <1>2, <1>3, FormInvEnds DEF SearchInv
<1> QED  BY <1>1, <1>4

LEMMA SearchInvNext == SearchInv /\ [Next]_vars => SearchInv'
<1> SUFFICES ASSUME SearchInv, [Next]_vars PROVE CacheInv' /\ FormInv'
  BY ProviderInvNext DEF SearchInv
<1>0. CacheInv /\ FormInv /\ now \in 0..MaxTime /\ now \in Nat /\ form \in Forms
  BY Cached DEF SearchInv, CacheInv, FormInv
<1>1. CASE SearchRejected
  <2>1. form' = [Searching EXCEPT !.searching = FALSE, !.error = TRUE]
    BY <1>1 DEF SearchRejected
  <2>2. form' \in Forms /\ form'.lookup = NoResult /\ form'.accepted = FALSE
    BY <1>0, <2>1, SearchingIs DEF Forms
  <2>3. UNCHANGED <<now, cache, order, fetched>> /\ requests' = Raises
    BY <1>1 DEF SearchRejected
  <2>4. CacheInv'
    BY <1>0, <2>3, CacheInvStays
  <2>5. FormInv'
    BY <1>0, <2>2, <2>3, FormInvEmptied
  <2> QED  BY <2>4, <2>5
<1>2. ASSUME NEW k \in Keys, SearchHits(k) PROVE CacheInv' /\ FormInv'
  BY <1>0, <1>2, FormInvHits, CacheInvLooked DEF SearchHits
<1>3. ASSUME NEW k \in Keys, SearchRefused(k) PROVE CacheInv' /\ FormInv'
  BY <1>0, <1>3, FormInvRefused, CacheInvLooked DEF SearchRefused
<1>4. ASSUME NEW k \in Keys, SearchSent(k) PROVE CacheInv' /\ FormInv'
  BY <1>0, <1>4, FormInvSent, CacheInvLooked DEF SearchSent
<1>5. ASSUME NEW q \in requests, Answered(q) PROVE CacheInv' /\ FormInv'
  BY <1>5, AnsweredKeeps
<1>6. ASSUME NEW q \in requests, RateLimited(q) \/ Failed(q) PROVE CacheInv' /\ FormInv'
  BY <1>6, UnansweredKeeps
<1>7. CASE Edit \/ \E q \in Queries : Remount(q)
  <2>1. UNCHANGED <<now, cache, order, fetched>>
    BY <1>7 DEF Edit, EditQuery, EditLabel, UseManual, Accept, Submit, SubmitFails, Remount,
                Still, Invalidates, Rest
  <2> QED  BY <1>0, <1>7, <2>1, FormInvEdit, CacheInvStays
<1>8. CASE Tick
  <2>1. CacheInv'
    BY <1>0, <1>8, CacheInvStays, LocationAssumption DEF Tick
  <2>2. FormInv'
    BY <1>0, <1>8 DEF Tick, FormInv, CandidateFitsForm
  <2> QED  BY <2>1, <2>2
<1>9. CASE UNCHANGED vars
  <2>1. CacheInv'
    BY <1>0, <1>9, CacheInvStays DEF vars
  <2>2. FormInv'
    BY <1>0, <1>9 DEF vars, FormInv, CandidateFitsForm
  <2> QED  BY <2>1, <2>2
<1> QED  BY <1>1, <1>2, <1>3, <1>4, <1>5, <1>6, <1>7, <1>8, <1>9 DEF Next, Search, Provider

LEMMA SearchInvAlways == Spec => []SearchInv
<1>1. Init => SearchInv
  BY ProviderInvInit, CacheInvInit, FormInvInit DEF SearchInv
<1> QED  BY <1>1, SearchInvNext, PTL DEF Spec

\* The candidate shown, and the place accepted for the incident, were looked up
\* for the query and the reference now in the form, however late the answer
\* came and whatever was edited, searched again or opened anew meanwhile.
THEOREM CandidatesFitTheForm == Spec => []CandidateFitsForm
<1>1. SearchInv => CandidateFitsForm
  BY DEF SearchInv, FormInv
<1> QED  BY <1>1, SearchInvAlways, PTL

\* The cache holds the keys most recently found or stored, each once and with
\* a usable place, for every capacity.
THEOREM MostRecentAreKept == Spec => []KeepsMostRecent
<1>1. SearchInv => KeepsMostRecent
  <2> SUFFICES ASSUME SearchInv PROVE KeepsMostRecent
    OBVIOUS
  <2>1. Matches(cache, order) /\ Len(cache) \in Nat /\ Len(order) \in Nat /\ Len(cache) <= Len(order)
        /\ Len(cache) <= Capacity
    BY Lengths DEF SearchInv, CacheInv
  <2>2. \A j, k \in 1..Len(cache) : cache[j].key = cache[k].key => j = k
    <3>1. ASSUME NEW j \in 1..Len(cache), NEW k \in 1..Len(cache), cache[j].key = cache[k].key
          PROVE  j = k
      <4>1. /\ Len(order) - Len(cache) + j \in 1..Len(order)
            /\ Len(order) - Len(cache) + k \in 1..Len(order)
        BY <2>1
      <4>2. Len(order) - Len(cache) + j = Len(order) - Len(cache) + k
        BY <2>1, <3>1, <4>1 DEF Matches, Unique
      <4> QED  BY <2>1, <4>2
    <3> QED  BY <3>1
  <2>3. ToSet(cache) \subseteq Entries /\ ToSet(order) \subseteq Keys
    <3>1. order \in Seq(Keys) /\ DOMAIN order = 1..Len(order)
      BY <2>1, LenProperties DEF Matches
    <3>2. \A k \in 1..Len(order) : order[k] \in Keys
      BY <3>1, ElementOfSeq
    <3> QED  BY <3>1, <3>2, Cached DEF SearchInv, ToSet
  <2>4. TypeOK
    BY <2>1, <2>2, <2>3 DEF SearchInv, ProviderInv, CacheInv, FormInv, TypeOK
  <2>5. \A k \in 1..Len(cache) :
          cache[k].key = order[Len(order) - Len(cache) + k] /\ Usable(cache[k].place)
    BY <2>1 DEF SearchInv, CacheInv, Matches, Good
  <2> QED  BY <2>1, <2>4, <2>5 DEF KeepsMostRecent, Matches
<1> QED  BY <1>1, SearchInvAlways, PTL

\* Only a search that finds a fresh entry shows a result as found.
LEMMA OnlyHitsShow ==
  ASSUME SearchInv, [Next]_vars, form'.lookup.hit, ~form.lookup.hit
  PROVE  \E k \in Keys : SearchHits(k)
<1> USE DEF Still, Invalidates, Dropped
<1>0. form \in Forms
  BY DEF SearchInv, FormInv
<1>1. CASE SearchRejected
  <2>1. form' = [Searching EXCEPT !.searching = FALSE, !.error = TRUE]
    BY <1>1 DEF SearchRejected
  <2>2. form'.lookup = NoResult
    BY <1>0, <2>1, SearchingIs DEF Forms
  <2> QED  BY <2>2, Blank
<1>2. ASSUME NEW k \in Keys, SearchRefused(k) PROVE FALSE
  <2> DEFINE result == Manual(k, form.label, Refused)
  <2>1. form' = [Searching EXCEPT !.searching = FALSE, !.lookup = result]
    BY <1>2 DEF SearchRefused
  <2>2. result.hit = FALSE
    BY DEF Manual, NoResult
  <2> HIDE DEF result
  <2>3. form'.lookup = result
    BY <1>0, <2>1, SearchingIs DEF Forms
  <2> QED  BY <2>2, <2>3
<1>3. ASSUME NEW k \in Keys, SearchSent(k) PROVE FALSE
  BY <1>0, <1>3, SearchingIs, Blank DEF SearchSent
<1>4. ASSUME NEW q \in requests, NEW answer, Ends(q, answer) PROVE FALSE
  <2>1. CASE Wanted(q)
    <3> DEFINE result == [NoResult EXCEPT !.key = q.key, !.place = answer.place,
                            !.failure = answer.failure,
                            !.label = IF answer.failure = "none" THEN NoText ELSE q.label]
    <3>1. form' = [form EXCEPT !.searching = FALSE, !.lookup = result]
      BY <1>4, <2>1 DEF Ends, Shows
    <3>2. result.hit = FALSE
      BY DEF NoResult
    <3> HIDE DEF result
    <3> QED  BY <1>0, <3>1, <3>2 DEF Forms
  <2>2. CASE ~Wanted(q)
    BY <1>4, <2>2 DEF Ends
  <2> QED  BY <2>1, <2>2
<1>5. CASE Provider
  <2>1. PICK q \in requests : Answered(q) \/ RateLimited(q) \/ Failed(q)
    BY <1>5 DEF Provider
  <2>2. \E answer : Ends(q, answer)
    BY <2>1 DEF Answered, RateLimited, Failed
  <2> QED  BY <1>4, <2>2
<1>6. CASE Edit \/ \E q \in Queries : Remount(q)
  <2>1. ASSUME NEW q \in Queries, EditQuery(q) PROVE form'.lookup = NoResult
    BY <1>0, <2>1 DEF EditQuery, Invalidated, Forms
  <2>2. ASSUME NEW l \in Labels \union {NoText}, EditLabel(l) PROVE form'.lookup = NoResult
    BY <1>0, <2>2 DEF EditLabel, Invalidated, Forms
  <2>3. CASE UseManual
    BY <1>0, <2>3, Blank DEF UseManual, Invalidated, Forms
  <2>4. CASE Accept
    BY <1>0, <2>4 DEF Accept, Forms
  <2>5. CASE Submit
    BY <1>0, <2>5 DEF Submit, Forms
  <2>6. CASE SubmitFails
    BY <1>0, <2>6 DEF SubmitFails, Forms
  <2>7. ASSUME NEW q \in Queries, Remount(q) PROVE form'.lookup = NoResult
    BY <2>7 DEF Remount, NewForm
  <2> QED  BY <1>6, <2>1, <2>2, <2>3, <2>4, <2>5, <2>6, <2>7, Blank DEF Edit
<1>7. CASE Tick \/ UNCHANGED vars
  BY <1>7 DEF Tick, vars
<1> QED  BY <1>1, <1>2, <1>3, <1>5, <1>6, <1>7 DEF Next, Search

\* A result served from the cache was given by the provider for this very key
\* less than TTL ago.
THEOREM HitsServeRecentPlaces == Spec => HitsAreRecent
<1>1. ASSUME SearchInv, [Next]_vars, form'.lookup.hit, ~form.lookup.hit
      PROVE  now < fetched[form'.lookup.key] + TTL
  <2>1. PICK k \in Keys : SearchHits(k)
    BY <1>1, OnlyHitsShow
  <2>2. PICK e \in Hits(k) :
          form' = [Searching EXCEPT !.searching = FALSE,
                     !.lookup = [NoResult EXCEPT !.key = k, !.place = e.place, !.hit = TRUE]]
    BY <2>1 DEF SearchHits
  <2>3. form'.lookup.key = k
    <3>1. [NoResult EXCEPT !.key = k, !.place = e.place, !.hit = TRUE].key = k
      BY DEF NoResult
    <3>2. Searching \in Forms
      BY <1>1, SearchingIs DEF SearchInv, FormInv
    <3> QED  BY <2>2, <3>1, <3>2 DEF Forms
  <2>4. e.key = k /\ now < e.expires /\ \E j \in 1..Len(cache) : e = cache[j]
    BY <1>1, Cached DEF SearchInv, Hits, Fresh
  <2>5. e.expires <= fetched[e.key] + TTL /\ e \in Entries
    BY <1>1, <2>4, Cached DEF SearchInv, CacheInv, Good
  <2>6. e.expires \in Nat /\ fetched[k] \in Nat /\ now \in Nat /\ TTL \in Nat
    BY <1>1, <2>5, Cached DEF SearchInv, CacheInv, Entries
  <2> QED  BY <2>3, <2>4, <2>5, <2>6
<1>2. SearchInv /\ [Next]_vars
        => [form'.lookup.hit /\ ~form.lookup.hit => now < fetched[form'.lookup.key] + TTL]_vars
  BY <1>1
<1> QED  BY <1>2, SearchInvAlways, PTL DEF Spec, HitsAreRecent
==============================================================================
