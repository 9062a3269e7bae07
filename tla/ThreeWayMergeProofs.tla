------------------------ MODULE ThreeWayMergeProofs ------------------------
(***************************************************************************)
(* What the three-way merge guarantees for all records, and so in every    *)
(* state of an edited copy: the theorems need no assumption on the fields  *)
(* or their values.                                                        *)
(***************************************************************************)
EXTENDS MCThreeWayMerge, TLAPS

\* What the merge publishes for one field: the chosen side's content, or its
\* absence.
LEMMA MergedTakesSource ==
  ASSUME NEW b, NEW l, NEW r, NEW name \in Names(b, l, r)
  PROVE  SameField(MergedFields(b, l, r), Source(b, l, r, name), name)
BY DEF MergedFields, SameField, HasField

\* No name appears from nowhere.
LEMMA MergedNames ==
  ASSUME NEW b, NEW l, NEW r
  PROVE  DOMAIN MergedFields(b, l, r) \subseteq Names(b, l, r)
BY DEF MergedFields

\* resolveSync: a merged result honours every change of both sides.
THEOREM MergeHonours ==
  ASSUME NEW b, NEW l, NEW r, IsMerged(b, l, r)
  PROVE  Honours(MergedFields(b, l, r), b, l, r)
<1> DEFINE m == MergedFields(b, l, r)
<1>1. ASSUME NEW name \in Names(b, l, r)
      PROVE  /\ ~SameField(b, l, name) => SameField(m, l, name)
             /\ ~SameField(b, r, name) => SameField(m, r, name)
             /\ SameField(b, l, name) /\ SameField(b, r, name) => SameField(m, b, name)
  <2>1. SameField(m, Source(b, l, r, name), name)
    BY MergedTakesSource
  <2>2. ~FieldConflicts(b, l, r, name)
    BY DEF IsMerged, Conflicts
  <2>3. CASE SameField(b, l, name)
    <3>1. SameField(m, r, name)
      BY <2>1, <2>3 DEF Source
    <3> QED  BY <2>3, <3>1 DEF SameField
  <2>4. CASE ~SameField(b, l, name)
    <3>1. SameField(m, l, name)
      BY <2>1, <2>4 DEF Source
    <3>2. ~SameField(b, r, name) => SameField(l, r, name)
      BY <2>2, <2>4 DEF FieldConflicts
    <3> QED  BY <2>4, <3>1, <3>2 DEF SameField
  <2> QED  BY <2>3, <2>4
<1> QED  BY <1>1, MergedNames DEF Honours

\* A conflict means that no record could honour both sides.
THEOREM ConflictIsGenuine ==
  ASSUME NEW b, NEW l, NEW r, ~IsMerged(b, l, r), NEW result
  PROVE  ~Honours(result, b, l, r)
<1>1. PICK name \in Names(b, l, r) : FieldConflicts(b, l, r, name)
  BY DEF IsMerged, Conflicts
<1>2. SUFFICES ASSUME SameField(result, l, name), SameField(result, r, name)
               PROVE  FALSE
  BY <1>1 DEF Honours, FieldConflicts
<1> QED  BY <1>1, <1>2 DEF FieldConflicts, SameField

\* Keeping a merge as the local record and merging again gives that record.
THEOREM MergeAgain ==
  ASSUME NEW b, NEW l, NEW r, IsMerged(b, l, r)
  PROVE  LET m == MergedFields(b, l, r)
         IN  IsMerged(b, m, r) /\ MergedFields(b, m, r) = m
<1> DEFINE m == MergedFields(b, l, r)
<1>1. Names(b, m, r) \subseteq Names(b, l, r)
  BY MergedNames DEF Names
<1>2. Honours(m, b, l, r)
  BY MergeHonours
<1>3. ASSUME NEW name \in Names(b, l, r)
      PROVE  SameField(b, r, name) \/ SameField(m, r, name)
  BY <1>2, <1>3 DEF Honours
<1>4. IsMerged(b, m, r)
  BY <1>1, <1>3 DEF IsMerged, Conflicts, FieldConflicts
<1>5. ASSUME NEW name \in Names(b, l, r)
      PROVE  SameField(Source(b, m, r, name), m, name)
  BY <1>3 DEF Source, SameField
<1>6. DOMAIN MergedFields(b, m, r) = DOMAIN m
  <2>1. DOMAIN m \subseteq Names(b, m, r)
    BY DEF Names
  <2> HIDE DEF m
  <2>2. ASSUME NEW name \in Names(b, m, r)
        PROVE  HasField(Source(b, m, r, name), name) <=> name \in DOMAIN m
    BY <1>1, <1>5, <2>2 DEF SameField, HasField
  <2>3. DOMAIN MergedFields(b, m, r) =
          {name \in Names(b, m, r) : HasField(Source(b, m, r, name), name)}
    BY DEF MergedFields
  <2> QED  BY <2>1, <2>2, <2>3
<1>7. ASSUME NEW name \in DOMAIN m
      PROVE  MergedFields(b, m, r)[name] = m[name]
  <2>1. name \in DOMAIN MergedFields(b, m, r)
    BY <1>6, <1>7
  <2> HIDE DEF m
  <2>2. MergedFields(b, m, r)[name] = Source(b, m, r, name)[name]
    BY <2>1 DEF MergedFields
  <2>3. name \in Names(b, l, r)
    BY <1>7, MergedNames DEF m
  <2>4. HasField(Source(b, m, r, name), name)
    BY <2>1 DEF MergedFields
  <2> QED  BY <1>5, <2>2, <2>3, <2>4 DEF SameField, HasField
<1>8. MergedFields(b, m, r) = [name \in DOMAIN m |-> m[name]]
  <2> HIDE DEF m
  <2>1. MergedFields(b, m, r) =
          [name \in DOMAIN MergedFields(b, m, r) |-> MergedFields(b, m, r)[name]]
    BY DEF MergedFields
  <2> QED  BY <1>6, <1>7, <2>1
<1>9. m = [name \in DOMAIN m |-> m[name]]
  BY DEF MergedFields
<1> QED  BY <1>4, <1>8, <1>9

-----------------------------------------------------------------------------
\* The three hold in every state of an edited copy, whatever its fields.

\* A published merge keeps what either side changed.
THEOREM AlwaysHonoursBoth == Spec => []MergeHonoursBoth
<1>1. MergeHonoursBoth
  BY MergeHonours DEF MergeHonoursBoth
<1> QED  BY <1>1, PTL

\* Only what no record could honour is reported as a conflict.
THEOREM AlwaysNecessary == Spec => []ConflictOnlyWhenNecessary
<1>1. ConflictOnlyWhenNecessary
  BY ConflictIsGenuine DEF ConflictOnlyWhenNecessary
<1> QED  BY <1>1, PTL

\* A merge kept after a failed request merges again into itself.
THEOREM AlwaysStable == Spec => []MergeIsStable
<1>1. MergeIsStable
  BY MergeAgain DEF MergeIsStable
<1> QED  BY <1>1, PTL
=============================================================================
