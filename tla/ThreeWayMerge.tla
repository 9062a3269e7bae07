--------------------------- MODULE ThreeWayMerge ---------------------------
(***************************************************************************)
(* The three-way merge of whole fields that every synchronization cycle,   *)
(* review and reformulation rests on (resolveSync).  A sync record's       *)
(* `fields` is a function from the names of the fields it has to their     *)
(* JSON values; a field that is absent is a name outside the domain, so a  *)
(* deletion differs from a null.  JSON equality (object keys in any order, *)
(* arrays in order) is equality of TLA+ values.                            *)
(*                                                                         *)
(* The module has no state: IncidentSync uses its operators on incidents,  *)
(* MCThreeWayMerge drives them on an arbitrary edited record, and          *)
(* ThreeWayMergeProofs proves what they guarantee for all records.         *)
(***************************************************************************)

HasField(fields, name) == name \in DOMAIN fields

\* Both records lack the field, or both have it with the same content.
SameField(left, right, name) ==
  /\ HasField(left, name) <=> HasField(right, name)
  /\ HasField(left, name) => left[name] = right[name]

\* The names any of the three records has.
Names(base, local, remote) ==
  DOMAIN base \union DOMAIN local \union DOMAIN remote

\* Mutated form: the same change on both sides is a conflict too.
FieldConflictsWhenBothChanged(base, local, remote, name) ==
  ~SameField(base, local, name) /\ ~SameField(base, remote, name)

\* A field conflicts when both sides moved away from the base, differently.
FieldConflicts(base, local, remote, name) ==
  /\ ~SameField(base, local, name)
  /\ ~SameField(base, remote, name)
  /\ ~SameField(local, remote, name)

\* Mutated form: last write wins, the remote version of a changed field.
RemoteSource(base, local, remote, name) == remote

\* The side whose content the merge keeps: the local one where it changed.
Source(base, local, remote, name) ==
  IF SameField(base, local, name) THEN remote ELSE local

(***************************************************************************)
(* The result of resolveSync: its kind is "conflict" exactly when the set  *)
(* of conflicting fields is not empty, and then no merged record is        *)
(* published; else it is "merged", with MergedFields as the new content.   *)
(* (The sorted list of names the code returns is the set.)                 *)
(***************************************************************************)
Conflicts(base, local, remote) ==
  {name \in Names(base, local, remote) :
     FieldConflicts(base, local, remote, name)}

MergedFields(base, local, remote) ==
  LET kept == {name \in Names(base, local, remote) :
                 HasField(Source(base, local, remote, name), name)}
  IN  [name \in kept |-> Source(base, local, remote, name)[name]]

IsMerged(base, local, remote) == Conflicts(base, local, remote) = {}

(***************************************************************************)
(* The reference: a record honours both sides when it agrees with the      *)
(* local record wherever that one left the base, and with the remote one   *)
(* wherever that one did, and has no other field.                          *)
(***************************************************************************)
Honours(result, base, local, remote) ==
  /\ DOMAIN result \subseteq Names(base, local, remote)
  /\ \A name \in Names(base, local, remote) :
       /\ ~SameField(base, local, name) => SameField(result, local, name)
       /\ ~SameField(base, remote, name) => SameField(result, remote, name)
       /\ SameField(base, local, name) /\ SameField(base, remote, name)
            => SameField(result, base, name)
=============================================================================
