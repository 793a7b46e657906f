------------------------ MODULE AccountEntityProofs ------------------------
(***************************************************************************)
(* What the merge does to a record, for every record and every well-formed *)
(* operation: the lemmas that the proofs of CanonicalEntity and of         *)
(* AccountSync share.                                                      *)
(***************************************************************************)
EXTENDS AccountEntity, TLAPS

\* The merge commits an add on an empty path or a tombstone, a delete on a
\* live record, and a patch that still has a field to apply; nothing else.
LEMMA CommitCases ==
  ASSUME NEW e, NEW o, o.kind \in Kinds
  PROVE  Commits(e, o) <=>
           \/ o.kind = "add" /\ ~SameLifecycle(e, o) /\ CanAdd(e, o)
           \/ /\ o.kind = "delete" /\ Exists(e) /\ ~SameLifecycle(e, o)
              /\ o.expected \in {0, e.revision} /\ CanDelete(e, o)
           \/ o.kind = "patch" /\ Exists(e) /\ CanPatch(e, o) /\ AppliedFields(e, o) # {}
<1>1. CASE o.kind = "add"
  BY <1>1 DEF Commits, MergeStatus
<1>2. CASE o.kind = "delete"
  BY <1>2 DEF Commits, MergeStatus
<1>3. CASE o.kind = "patch"
  BY <1>3 DEF Commits, MergeStatus
<1>4. QED
  BY <1>1, <1>2, <1>3 DEF Kinds

\* A merge leaves a well-formed record.
LEMMA MergeType ==
  ASSUME NEW e \in Entity, NEW o, WellFormed(o)
  PROVE  Merged(e, o) \in Entity
<1>1. WellFormed(o) /\ o \in Operation /\ o.kind \in Kinds
  BY DEF WellFormed, Operation
<1>2. CASE ~Commits(e, o)
  BY <1>2 DEF Merged
<1>3. CASE Commits(e, o) /\ o.kind = "add"
  <2>1. Merged(e, o) = CreateRecord(e, o)
    BY <1>3 DEF Merged
  <2>2. CreateRecord(e, o) \in Entity
    BY <1>1 DEF CreateRecord, Entity, Operation
  <2>3. QED
    BY <2>1, <2>2
<1>4. CASE Commits(e, o) /\ o.kind = "delete"
  <2>1. Merged(e, o) = Tombstone(e, o)
    BY <1>4 DEF Merged
  <2>2. Tombstone(e, o) \in Entity
    BY <1>1 DEF Tombstone, Entity, Operation
  <2>3. QED
    BY <2>1, <2>2
<1>5. CASE Commits(e, o) /\ o.kind = "patch"
  <2>1. Merged(e, o) = PatchedRecord(e, o)
    BY <1>5 DEF Merged
  <2>2. PatchedRecord(e, o) \in Entity
    BY <1>1 DEF PatchedRecord, Entity, Operation
  <2>3. QED
    BY <2>1, <2>2
<1>6. QED
  BY <1>1, <1>2, <1>3, <1>4, <1>5 DEF Kinds

\* What the merge writes over a record, the other devices' validator takes.
LEMMA MergeValid ==
  ASSUME NEW e \in Entity, NEW o, WellFormed(o), Exists(e), Commits(e, o)
  PROVE  ValidTransition(e, Merged(e, o))
<1>1. WellFormed(o) /\ o \in Operation /\ o.kind \in Kinds
  BY DEF WellFormed, Operation
<1>2. CASE o.kind = "add"
  <2>1. ~SameLifecycle(e, o) /\ CanAdd(e, o)
    BY <1>1, <1>2, CommitCases
  <2>2. e.deleted /\ o.generation = e.generation + 1
    BY <2>1 DEF CanAdd
  <2>3. Merged(e, o) = CreateRecord(e, o)
    BY <1>2 DEF Merged
  <2>4. ValidLifecycle(e, CreateRecord(e, o))
    BY <1>1, <2>1, <2>2 DEF ValidLifecycle, CreateRecord, WellFormed, SameLifecycle, Entity, Operation
  <2>5. CreateRecord(e, o).revision = e.revision + 1
    BY DEF CreateRecord
  <2>6. QED
    BY <2>3, <2>4, <2>5 DEF ValidTransition
<1>3. CASE o.kind = "delete"
  <2>1. ~SameLifecycle(e, o) /\ CanDelete(e, o)
    BY <1>1, <1>3, CommitCases
  <2>2. Merged(e, o) = Tombstone(e, o)
    BY <1>3 DEF Merged
  <2>3. ValidLifecycle(e, Tombstone(e, o))
    BY <1>1, <2>1 DEF ValidLifecycle, Tombstone, SameFields, CanDelete, SameLifecycle, Entity
  <2>4. Tombstone(e, o).revision = e.revision + 1
    BY DEF Tombstone, Entity
  <2>5. QED
    BY <2>2, <2>3, <2>4 DEF ValidTransition
<1>4. CASE o.kind = "patch"
  <2> DEFINE n == PatchedRecord(e, o)
  <2>1. Merged(e, o) = n
    BY <1>4 DEF Merged
  <2>2. ASSUME NEW f \in Fields
        PROVE  ValidFieldChange(e, n, f)
    <3>1. CASE f \in AppliedFields(e, o)
      <4>1. ~Settled(e, o, f)
        BY <3>1 DEF AppliedFields
      <4>2. /\ n.values[f] = o.values[f]
            /\ n.fieldRevisions[f] = e.fieldRevisions[f] + 1
            /\ n.fieldMutations[f] = o.id
        BY <3>1 DEF PatchedRecord
      <4>3. QED
        BY <4>1, <4>2 DEF ValidFieldChange, Settled
    <3>2. CASE f \notin AppliedFields(e, o)
      BY <3>2 DEF ValidFieldChange, PatchedRecord
    <3>3. QED
      BY <3>1, <3>2
  <2>3. /\ n.generation = e.generation
        /\ n.deleted = e.deleted
        /\ n.lifecycle = e.lifecycle
        /\ n.revision = e.revision + 1
    BY DEF PatchedRecord
  <2>4. QED
    BY <2>1, <2>2, <2>3 DEF ValidTransition, ValidEdit
<1>5. QED
  BY <1>1, <1>2, <1>3, <1>4 DEF Kinds

\* What has committed is found applied when it is delivered again, if none of its
\* fields was lost; and each field that was not lost is settled then.
LEMMA CommittedIsSettled ==
  ASSUME NEW e \in Entity, NEW o, WellFormed(o), Commits(e, o)
  PROVE  /\ MergeStatus(e, o) = "applied" => MergeStatus(Merged(e, o), o) = "idempotent"
         /\ o.kind = "patch" =>
              \A f \in o.fields \ ConflictFields(e, o) : Settled(Merged(e, o), o, f)
<1>1. o.kind \in Kinds /\ o.fields \subseteq Fields
  BY DEF WellFormed, Operation
<1>2. CASE o.kind = "add"
  <2>1. Merged(e, o) = CreateRecord(e, o)
    BY <1>2 DEF Merged
  <2>2. SameLifecycle(CreateRecord(e, o), o)
    BY DEF SameLifecycle, CreateRecord
  <2>3. QED
    BY <1>2, <2>1, <2>2 DEF MergeStatus
<1>3. CASE o.kind = "delete"
  <2>1. Merged(e, o) = Tombstone(e, o)
    BY <1>3 DEF Merged
  <2>2. SameLifecycle(Tombstone(e, o), o) /\ Exists(Tombstone(e, o))
    BY DEF SameLifecycle, Tombstone, Exists, Entity
  <2>3. QED
    BY <1>3, <2>1, <2>2 DEF MergeStatus
<1>4. CASE o.kind = "patch"
  <2> DEFINE n == PatchedRecord(e, o)
  <2>1. Merged(e, o) = n
    BY <1>4 DEF Merged
  <2>2. Exists(e) /\ CanPatch(e, o)
    BY <1>1, <1>4, CommitCases
  <2>3. n.generation = e.generation /\ n.revision = e.revision + 1 /\ n.deleted = e.deleted
    BY DEF PatchedRecord
  <2>4. Exists(n) /\ CanPatch(n, o)
    BY <2>2, <2>3 DEF Exists, CanPatch, Entity
  <2>5. MergeStatus(e, o) \in {"applied", "applied-with-conflict"}
    BY DEF Commits
  <2>6. /\ MergeStatus(e, o) = "applied" => LostFields(e, o) = {}
        /\ MergeStatus(e, o) = "applied" => ConflictFields(e, o) = {}
        /\ MergeStatus(e, o) = "applied-with-conflict" => ConflictFields(e, o) = LostFields(e, o)
    <3>1. /\ MergeStatus(e, o) = "applied" => ConflictFields(e, o) = {}
          /\ MergeStatus(e, o) = "applied-with-conflict" => ConflictFields(e, o) = LostFields(e, o)
      BY DEF ConflictFields
    <3>2. MergeStatus(e, o) = "applied" => LostFields(e, o) = {}
      BY <1>4, <2>2 DEF MergeStatus
    <3>3. QED
      BY <3>1, <3>2
  <2>7. ASSUME NEW f \in o.fields, f \notin LostFields(e, o)
        PROVE  Settled(n, o, f)
    <3>1. f \in Fields
      BY <1>1
    <3>2. CASE f \in AppliedFields(e, o)
      BY <3>1, <3>2 DEF PatchedRecord, Settled
    <3>3. CASE f \notin AppliedFields(e, o)
      <4>1. Settled(e, o, f)
        BY <2>7, <3>3 DEF AppliedFields, LostFields
      <4>2. n.values[f] = e.values[f] /\ n.fieldMutations[f] = e.fieldMutations[f]
        BY <3>1, <3>3 DEF PatchedRecord
      <4>3. QED
        BY <4>1, <4>2 DEF Settled
    <3>4. QED
      BY <3>2, <3>3
  <2>8. ASSUME MergeStatus(e, o) = "applied"
        PROVE  MergeStatus(n, o) = "idempotent"
    <3>1. AppliedFields(n, o) = {} /\ LostFields(n, o) = {}
      BY <2>6, <2>7, <2>8 DEF AppliedFields, LostFields
    <3>2. QED
      BY <1>4, <2>4, <3>1 DEF MergeStatus
  <2> HIDE DEF n
  <2>9. QED
    BY <2>1, <2>5, <2>6, <2>7, <2>8
<1>5. QED
  BY <1>1, <1>2, <1>3, <1>4 DEF Kinds

\* What commits is one revision further on, in a new generation or with every
\* field as it was or one revision further on.
LEMMA MergeMovesOn ==
  ASSUME NEW e \in Entity, NEW o, WellFormed(o), Commits(e, o),
         ~Exists(e) => e.generation = 0
  PROVE  LET n == Merged(e, o) IN
         /\ n.revision = e.revision + 1
         /\ \/ n.generation > e.generation
            \/ /\ n.generation = e.generation
               /\ \A f \in Fields :
                    \/ n.fieldRevisions[f] = e.fieldRevisions[f] + 1
                    \/ /\ n.fieldRevisions[f] = e.fieldRevisions[f]
                       /\ n.values[f] = e.values[f]
                       /\ n.fieldMutations[f] = e.fieldMutations[f]
<1>1. o.kind \in Kinds /\ o.baseGeneration \in Nat
  BY DEF WellFormed, Operation
<1>2. CASE o.kind = "add"
  <2>1. CanAdd(e, o)
    BY <1>1, <1>2, CommitCases
  <2>2. o.generation = e.generation + 1
    BY <2>1 DEF CanAdd
  <2>3. Merged(e, o) = CreateRecord(e, o)
    BY <1>2 DEF Merged
  <2>4. QED
    BY <2>2, <2>3 DEF CreateRecord, Entity
<1>3. CASE o.kind = "delete"
  <2>1. CanDelete(e, o)
    BY <1>1, <1>3, CommitCases
  <2>2. Merged(e, o) = Tombstone(e, o)
    BY <1>3 DEF Merged
  <2>3. QED
    BY <2>1, <2>2 DEF Tombstone, CanDelete, Entity
<1>4. CASE o.kind = "patch"
  <2> DEFINE n == PatchedRecord(e, o)
  <2>1. Merged(e, o) = n
    BY <1>4 DEF Merged
  <2>2. n.revision = e.revision + 1 /\ n.generation = e.generation
    BY DEF PatchedRecord
  <2>3. ASSUME NEW f \in Fields
        PROVE  \/ n.fieldRevisions[f] = e.fieldRevisions[f] + 1
               \/ /\ n.fieldRevisions[f] = e.fieldRevisions[f]
                  /\ n.values[f] = e.values[f]
                  /\ n.fieldMutations[f] = e.fieldMutations[f]
    BY DEF PatchedRecord
  <2> HIDE DEF n
  <2>4. QED
    BY <2>1, <2>2, <2>3
<1>5. QED
  BY <1>1, <1>2, <1>3, <1>4 DEF Kinds

\* A patch refused on a record that exists finds each field that is not part of
\* its conflict settled there.
LEMMA RefusedIsSettled ==
  ASSUME NEW e, NEW o, Exists(e), o.kind = "patch", ~Commits(e, o), MergeStatus(e, o) # "idempotent"
  PROVE  \A f \in o.fields \ ConflictFields(e, o) : Settled(e, o, f)
<1>1. CASE ~CanPatch(e, o)
  <2>1. MergeStatus(e, o) = "stale-generation"
    BY <1>1 DEF MergeStatus
  <2>2. ConflictFields(e, o) = o.fields
    BY <2>1 DEF ConflictFields
  <2>3. QED
    BY <2>2
<1>2. CASE CanPatch(e, o)
  <2>1. MergeStatus(e, o) = IF AppliedFields(e, o) = {}
            THEN IF LostFields(e, o) = {} THEN "idempotent" ELSE "same-field-conflict"
            ELSE IF LostFields(e, o) = {} THEN "applied" ELSE "applied-with-conflict"
    BY <1>2 DEF MergeStatus
  <2>2. AppliedFields(e, o) = {} /\ MergeStatus(e, o) = "same-field-conflict"
    BY <2>1 DEF Commits
  <2>3. ConflictFields(e, o) = LostFields(e, o)
    BY <2>2 DEF ConflictFields
  <2>4. QED
    BY <2>2, <2>3 DEF AppliedFields, LostFields
<1>3. QED
  BY <1>1, <1>2

\* The fields of a conflict are the operation's.
LEMMA ConflictFieldsType ==
  ASSUME NEW e, NEW o
  PROVE  ConflictFields(e, o) \subseteq o.fields
  BY DEF ConflictFields, LostFields

LEMMA MergeStatusType ==
  ASSUME NEW e, NEW o, o.kind \in Kinds
  PROVE  MergeStatus(e, o) \in MergeStatuses
<1>1. CASE o.kind = "add"
  BY <1>1 DEF MergeStatus, MergeStatuses
<1>2. CASE o.kind = "delete"
  BY <1>2 DEF MergeStatus, MergeStatuses
<1>3. CASE o.kind = "patch"
  BY <1>3 DEF MergeStatus, MergeStatuses
<1>4. QED
  BY <1>1, <1>2, <1>3 DEF Kinds
=============================================================================
