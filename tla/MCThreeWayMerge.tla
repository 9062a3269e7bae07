-------------------------- MODULE MCThreeWayMerge --------------------------
(***************************************************************************)
(* The three-way merge on every record of a few fields: a copy is taken    *)
(* (base = local = remote), then the device and the server edit, add and   *)
(* delete fields on their own.  The merge is compared with the reference   *)
(* Honours on every triple of records reached this way.                    *)
(***************************************************************************)
EXTENDS ThreeWayMerge

CONSTANTS FieldNames, Values

\* Every record of these fields, each present or absent.
EditedRecords == UNION {[names -> Values] : names \in SUBSET FieldNames}

VARIABLES base, local, remote
copies == <<base, local, remote>>

\* The record with one field set, or deleted.
Edits(fields) ==
  {f \in EditedRecords : \E name \in FieldNames :
     \A other \in FieldNames \ {name} : SameField(f, fields, other)}

Init == /\ base \in EditedRecords
        /\ local = base
        /\ remote = base

LocalEdit == local' \in Edits(local) /\ UNCHANGED <<base, remote>>
RemoteEdit == remote' \in Edits(remote) /\ UNCHANGED <<base, local>>
\* A cycle that merges and is not confirmed keeps the merged local record.
KeepMerged ==
  /\ IsMerged(base, local, remote)
  /\ local' = MergedFields(base, local, remote)
  /\ UNCHANGED <<base, remote>>
\* A confirmed cycle takes the remote record as the new copy.
Rebase == base' = remote /\ local' = remote /\ UNCHANGED remote

Next == LocalEdit \/ RemoteEdit \/ KeepMerged \/ Rebase
Spec == Init /\ [][Next]_copies

-----------------------------------------------------------------------------
\* A published merge keeps what either side changed, field by field, and what
\* neither did; it loses no addition and resurrects no deletion.
MergeHonoursBoth ==
  IsMerged(base, local, remote) =>
    Honours(MergedFields(base, local, remote), base, local, remote)

\* A conflict is only reported when no record at all could honour both sides.
ConflictOnlyWhenNecessary ==
  ~IsMerged(base, local, remote) =>
    ~\E result \in EditedRecords : Honours(result, base, local, remote)

\* The merged local record a cycle leaves behind when its request fails merges
\* again, without a conflict and into itself, while the server stays the same.
MergeIsStable ==
  IsMerged(base, local, remote) =>
    LET merged == MergedFields(base, local, remote)
    IN  IsMerged(base, merged, remote) /\ MergedFields(base, merged, remote) = merged
=============================================================================
