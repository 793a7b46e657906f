----------------------- MODULE CanonicalEntityProofs -----------------------
(***************************************************************************)
(* What CanonicalEntity promises, proved for every set of fields, values   *)
(* and operations.                                                         *)
(*                                                                         *)
(* OneWinner and AppliedOnce are not inductive: a past effect says nothing *)
(* by itself of what the record will accept next.  Overtaken adds why it   *)
(* cannot recur: whatever took effect left the record beyond the version   *)
(* the operation was prepared on, and generations, and the field revisions *)
(* of one generation, never go back.                                       *)
(*                                                                         *)
(* RevisionsCountEdits rests on both: an effect is counted once because it *)
(* is never repeated (NothingTwice), and an add starts the count anew      *)
(* because no effect is yet of the generation it opens (EffectsArePast).   *)
(***************************************************************************)
EXTENDS CanonicalEntity, AccountEntityProofs, FiniteSetTheorems

\* The record is beyond what an effect was prepared on.
Beyond(o, t) ==
  \/ /\ t \in Fields /\ o.kind = "patch" /\ t \in o.fields
     /\ \/ entity.generation > o.generation
        \/ /\ entity.generation = o.generation
           /\ entity.fieldRevisions[t] > o.baseRevisions[t]
  \/ t = Lifecycle /\ o.kind # "patch" /\ entity.generation > o.baseGeneration

Overtaken == \A x \in done : Beyond(x[1], x[2])

\* An empty path has no generation.
EmptyIsNew == ~Exists(entity) => entity.generation = 0

IInv == TypeOK /\ Overtaken /\ EmptyIsNew /\ OneWinner

\* An effect is one of the operation's own targets.
LEMMA EffectsType ==
  ASSUME NEW e, NEW o \in Requests
  PROVE  Effects(e, o) \in SUBSET ({o} \X (Fields \cup {Lifecycle}))
<1>1. o.kind \in Kinds /\ o.fields \subseteq Fields
  BY RequestAssumption DEF WellFormed, Operation
<1>2. AppliedFields(e, o) \subseteq Fields
  BY <1>1 DEF AppliedFields
<1>3. QED
  BY <1>2 DEF Effects

\* The record does not yet stand beyond the version of an effect about to be
\* made: this is what refuses a second one.
LEMMA EffectsAreNew ==
  ASSUME TypeOK, EmptyIsNew, NEW o \in Requests, NEW x \in Effects(entity, o)
  PROVE  /\ x[1] = o
         /\ \/ /\ x[2] \in Fields /\ o.kind = "patch" /\ x[2] \in AppliedFields(entity, o)
               /\ entity.generation = o.generation
               /\ entity.generation = o.baseGeneration
               /\ entity.fieldRevisions[x[2]] = o.baseRevisions[x[2]]
            \/ x[2] = Lifecycle /\ o.kind # "patch" /\ entity.generation = o.baseGeneration
<1>1. WellFormed(o) /\ o \in Operation /\ o.kind \in Kinds
  BY RequestAssumption DEF WellFormed, Operation
<1>2. Commits(entity, o)
  BY DEF Effects
<1>3. CASE o.kind = "patch"
  <2>1. PICK t \in AppliedFields(entity, o) : x = <<o, t>>
    BY <1>2, <1>3 DEF Effects
  <2>2. CanPatch(entity, o)
    BY <1>1, <1>2, <1>3, CommitCases
  <2>3. t \in Fields /\ entity.fieldRevisions[t] = o.baseRevisions[t]
    BY <1>1, <2>1 DEF AppliedFields, Operation
  <2>4. QED
    BY <1>3, <2>1, <2>2, <2>3 DEF CanPatch
<1>4. CASE o.kind # "patch"
  <2>1. x = <<o, Lifecycle>>
    BY <1>2, <1>4 DEF Effects
  <2>2. CanAdd(entity, o) \/ CanDelete(entity, o)
    BY <1>1, <1>2, <1>4, CommitCases
  <2>3. entity.generation = o.baseGeneration
    BY <2>2 DEF CanAdd, CanDelete, EmptyIsNew
  <2>4. QED
    BY <1>4, <2>1, <2>3
<1>5. QED
  BY <1>3, <1>4

LEMMA InitInv ==
  Init => IInv
<1> SUFFICES ASSUME Init PROVE IInv
  OBVIOUS
<1>1. Origin \in Entity /\ (~Exists(Origin) => Origin.generation = 0)
  BY OriginAssumption DEF NoEntity
<1>2. QED
  BY <1>1 DEF Init, IInv, TypeOK, Overtaken, EmptyIsNew, OneWinner

LEMMA IssueInv ==
  ASSUME IInv, NEW o \in Requests, Issue(o)
  PROVE  IInv'
<1>1. TypeOK'
  BY DEF IInv, TypeOK, Issue
<1>2. Overtaken' /\ EmptyIsNew' /\ OneWinner'
  BY DEF IInv, Issue, Overtaken, Beyond, EmptyIsNew, OneWinner
<1>3. QED
  BY <1>1, <1>2 DEF IInv

\* A version never stands behind the one it replaces.
LEMMA MergeAdvances ==
  ASSUME NEW e \in Entity, NEW o \in Requests,
         ~Exists(e) => e.generation = 0
  PROVE  LET n == Merged(e, o) IN
         /\ n.generation >= e.generation
         /\ n.generation = e.generation =>
              \A f \in Fields : n.fieldRevisions[f] >= e.fieldRevisions[f]
         /\ Exists(n) \/ n = e
         /\ \A x \in Effects(e, o) :
              \/ /\ x[2] \in Fields /\ n.generation = e.generation
                 /\ n.fieldRevisions[x[2]] = e.fieldRevisions[x[2]] + 1
              \/ x[2] = Lifecycle /\ n.generation > e.generation
<1>1. WellFormed(o) /\ o \in Operation /\ o.kind \in Kinds
  BY RequestAssumption DEF WellFormed, Operation
<1>2. CASE ~Commits(e, o)
  BY <1>2 DEF Merged, Effects, Entity
<1>3. CASE Commits(e, o) /\ o.kind = "add"
  <2>1. CanAdd(e, o)
    BY <1>1, <1>3, CommitCases
  <2>2. o.generation = e.generation + 1
    BY <1>1, <2>1 DEF CanAdd
  <2>3. Merged(e, o) = CreateRecord(e, o) /\ Effects(e, o) = {<<o, Lifecycle>>}
    BY <1>3 DEF Merged, Effects
  <2>4. QED
    BY <2>2, <2>3 DEF CreateRecord, Entity, Exists
<1>4. CASE Commits(e, o) /\ o.kind = "delete"
  <2>1. CanDelete(e, o)
    BY <1>1, <1>4, CommitCases
  <2>2. Merged(e, o) = Tombstone(e, o) /\ Effects(e, o) = {<<o, Lifecycle>>}
    BY <1>4 DEF Merged, Effects
  <2>3. QED
    BY <2>1, <2>2 DEF Tombstone, CanDelete, Entity, Exists
<1>5. CASE Commits(e, o) /\ o.kind = "patch"
  <2>1. /\ Merged(e, o) = PatchedRecord(e, o)
        /\ Effects(e, o) = {<<o, f>> : f \in AppliedFields(e, o)}
    BY <1>5 DEF Merged, Effects
  <2>2. AppliedFields(e, o) \subseteq Fields
    BY <1>1 DEF AppliedFields, Operation
  <2> DEFINE n == PatchedRecord(e, o)
  <2>3. n.generation = e.generation /\ n.revision = e.revision + 1
    BY DEF PatchedRecord
  <2>4. \A f \in Fields : n.fieldRevisions[f] =
          IF f \in AppliedFields(e, o) THEN e.fieldRevisions[f] + 1 ELSE e.fieldRevisions[f]
    BY DEF PatchedRecord
  <2>5. \A f \in Fields : n.fieldRevisions[f] >= e.fieldRevisions[f]
    <3> SUFFICES ASSUME NEW f \in Fields PROVE n.fieldRevisions[f] >= e.fieldRevisions[f]
      OBVIOUS
    <3>1. e.fieldRevisions[f] \in Nat
      BY DEF Entity
    <3>2. n.fieldRevisions[f] \in {e.fieldRevisions[f], e.fieldRevisions[f] + 1}
      BY <2>4
    <3> HIDE DEF n
    <3>3. QED
      BY <3>1, <3>2
  <2>6. Exists(n)
    BY <2>3 DEF Entity, Exists
  <2>7. \A x \in Effects(e, o) :
          x[2] \in Fields /\ n.fieldRevisions[x[2]] = e.fieldRevisions[x[2]] + 1
    BY <2>1, <2>2, <2>4
  <2>8. e.generation \in Nat
    BY DEF Entity
  <2>9. Merged(e, o) = n
    BY <2>1
  <2> HIDE DEF n
  <2>10. QED
    BY <2>3, <2>5, <2>6, <2>7, <2>8, <2>9
<1>6. QED
  BY <1>1, <1>2, <1>3, <1>4, <1>5 DEF Kinds

LEMMA DeliverInv ==
  ASSUME IInv, NEW o \in issued, Deliver(o)
  PROVE  IInv'
<1>1. o \in Requests /\ entity \in Entity /\ EmptyIsNew
  BY DEF IInv, TypeOK
<1>2. entity' = Merged(entity, o) /\ done' = done \cup Effects(entity, o)
      /\ issued' = issued
  BY DEF Deliver
<1>3. TypeOK'
  <2>1. entity' \in Entity
    BY <1>1, <1>2, RequestAssumption, MergeType
  <2>2. done' \in SUBSET (issued' \X (Fields \cup {Lifecycle}))
    BY <1>1, <1>2, EffectsType DEF IInv, TypeOK
  <2>3. QED
    BY <1>2, <2>1, <2>2 DEF IInv, TypeOK
<1>4. /\ entity'.generation >= entity.generation
      /\ entity'.generation = entity.generation =>
           \A f \in Fields : entity'.fieldRevisions[f] >= entity.fieldRevisions[f]
      /\ Exists(entity') \/ entity' = entity
      /\ \A x \in Effects(entity, o) :
           \/ /\ x[2] \in Fields /\ entity'.generation = entity.generation
              /\ entity'.fieldRevisions[x[2]] = entity.fieldRevisions[x[2]] + 1
           \/ x[2] = Lifecycle /\ entity'.generation > entity.generation
  BY <1>1, <1>2, MergeAdvances DEF EmptyIsNew
<1>5. \A x \in done' : x[1] \in Requests /\ x[2] \in Fields \cup {Lifecycle}
  BY <1>3 DEF TypeOK
<1>6. \A x \in done' : /\ x[1].generation \in Nat /\ x[1].baseGeneration \in Nat
                       /\ x[1].baseRevisions \in [Fields -> Nat]
                       /\ x[1].kind \in Kinds
  BY <1>5, RequestAssumption DEF WellFormed, Operation
<1>7. /\ entity.generation \in Nat /\ entity'.generation \in Nat
      /\ entity.fieldRevisions \in [Fields -> Nat]
      /\ entity'.fieldRevisions \in [Fields -> Nat]
  BY <1>1, <1>3 DEF TypeOK, Entity
<1>8. Overtaken'
  <2> SUFFICES ASSUME NEW x \in done' PROVE Beyond(x[1], x[2])'
    BY DEF Overtaken
  <2>1. CASE x \in done
    <3>1. Beyond(x[1], x[2])
      BY <2>1 DEF IInv, Overtaken
    <3>2. QED
      BY <1>4, <1>6, <1>7, <3>1 DEF Beyond
  <2>2. CASE x \in Effects(entity, o)
    <3>1. x[1] = o /\ AppliedFields(entity, o) \subseteq o.fields
      BY <1>1, <2>2, EffectsAreNew DEF IInv, AppliedFields
    <3>2. CASE x[2] \in Fields
      <4>1. /\ o.kind = "patch" /\ x[2] \in o.fields
            /\ entity.generation = o.generation
            /\ entity.fieldRevisions[x[2]] = o.baseRevisions[x[2]]
        BY <1>1, <2>2, <3>1, <3>2, EffectsAreNew, LifecycleAssumption DEF IInv
      <4>2. /\ entity'.generation = entity.generation
            /\ entity'.fieldRevisions[x[2]] = entity.fieldRevisions[x[2]] + 1
        BY <1>4, <2>2, <3>2, LifecycleAssumption
      <4>3. QED
        BY <1>7, <3>1, <3>2, <4>1, <4>2 DEF Beyond
    <3>3. CASE x[2] = Lifecycle
      <4>1. o.kind # "patch" /\ entity.generation = o.baseGeneration
        BY <1>1, <2>2, <3>3, EffectsAreNew, LifecycleAssumption DEF IInv
      <4>2. entity'.generation > entity.generation
        BY <1>4, <2>2, <3>3, LifecycleAssumption
      <4>3. QED
        BY <3>1, <3>3, <4>1, <4>2 DEF Beyond
    <3>4. QED
      BY <1>5, <3>2, <3>3
  <2>3. QED
    BY <1>2, <2>1, <2>2
<1>9. EmptyIsNew'
  BY <1>4 DEF IInv, EmptyIsNew
<1>10. OneWinner'
  <2> DEFINE SameBase(x, y) ==
        /\ x[2] = y[2]
        /\ x[1].baseGeneration = y[1].baseGeneration
        /\ x[2] \in Fields => x[1].baseRevisions[x[2]] = y[1].baseRevisions[x[2]]
  <2> SUFFICES ASSUME NEW x \in done', NEW y \in done', SameBase(x, y)
               PROVE  x = y
    BY DEF OneWinner
  <2>1. CASE x \in done /\ y \in done
    BY <2>1 DEF IInv, OneWinner
  <2>2. ASSUME NEW p \in done, NEW q \in Effects(entity, o), SameBase(p, q)
        PROVE  FALSE
    <3>1. Beyond(p[1], p[2]) /\ p \in done'
      BY <1>2, <2>2 DEF IInv, Overtaken
    <3>2. CASE q[2] \in Fields
      <4>1. /\ entity.generation = o.baseGeneration
            /\ entity.fieldRevisions[q[2]] = o.baseRevisions[q[2]]
            /\ q[1] = o
        BY <1>1, <3>2, EffectsAreNew, LifecycleAssumption DEF IInv
      <4>2. p[2] \in Fields /\ p[1].kind = "patch"
        BY <2>2, <3>1, <3>2, LifecycleAssumption DEF Beyond
      <4>3. p[1].generation = p[1].baseGeneration
        BY <1>5, <3>1, <4>2, RequestAssumption DEF WellFormed
      <4>4. QED
        BY <1>6, <1>7, <2>2, <3>1, <4>1, <4>2, <4>3, LifecycleAssumption DEF Beyond
    <3>3. CASE q[2] = Lifecycle
      <4>1. entity.generation = o.baseGeneration /\ q[1] = o
        BY <1>1, <3>3, EffectsAreNew, LifecycleAssumption DEF IInv
      <4>2. entity.generation > p[1].baseGeneration
        BY <2>2, <3>1, <3>3, LifecycleAssumption DEF Beyond
      <4>3. QED
        BY <1>6, <1>7, <2>2, <3>1, <4>1, <4>2
    <3>4. QED
      BY <1>1, <3>2, <3>3, EffectsAreNew DEF IInv
  <2>3. CASE x \in Effects(entity, o) /\ y \in Effects(entity, o)
    <3>1. x \in {o} \X (Fields \cup {Lifecycle}) /\ y \in {o} \X (Fields \cup {Lifecycle})
      BY <1>1, <2>3, EffectsType
    <3>2. QED
      BY <3>1
  <2>4. SameBase(y, x)
    OBVIOUS
  <2>5. QED
    BY <1>2, <2>1, <2>2, <2>3, <2>4
<1>11. QED
  BY <1>3, <1>8, <1>9, <1>10 DEF IInv

LEMMA NextInv ==
  IInv /\ [Next]_vars => IInv'
<1> SUFFICES ASSUME IInv, [Next]_vars PROVE IInv'
  OBVIOUS
<1>1. ASSUME NEW o \in Requests, Issue(o) PROVE IInv'
  BY <1>1, IssueInv
<1>2. ASSUME NEW o \in issued, Deliver(o) PROVE IInv'
  BY <1>2, DeliverInv
<1>3. CASE UNCHANGED vars
  BY <1>3 DEF vars, IInv, TypeOK, Overtaken, Beyond, EmptyIsNew, OneWinner
<1>4. QED
  BY <1>1, <1>2, <1>3 DEF Next

\* The record keeps its types, and what took effect stays overtaken.
THEOREM Invariance == Spec => []IInv
<1>1. QED
  BY InitInv, NextInv, PTL DEF Spec

-----------------------------------------------------------------------------
\* The record, the issued operations and their effects keep their types
\* under every delivery of mergeOperation.
THEOREM TypeCorrect == Spec => []TypeOK
<1>1. IInv => TypeOK
  BY DEF IInv
<1>2. QED
  BY <1>1, Invariance, PTL

\* Two operations prepared on one version of a field, or of the record's
\* lifecycle, never both take effect: the first accepted one wins.
THEOREM FirstAcceptedWins == Spec => []OneWinner
<1>1. IInv => OneWinner
  BY DEF IInv
<1>2. QED
  BY <1>1, Invariance, PTL

\* A second effect is refused: the record is beyond the version of the first.
LEMMA NothingTwice ==
  ASSUME IInv, NEW o \in issued
  PROVE  Effects(entity, o) \cap done = {}
  <1> SUFFICES ASSUME NEW x \in Effects(entity, o), x \in done PROVE FALSE
    OBVIOUS
  <1>1. o \in Requests /\ TypeOK /\ EmptyIsNew
    BY DEF IInv, TypeOK
  <1>2. Beyond(o, x[2]) /\ x[1] = o
    BY <1>1, EffectsAreNew DEF IInv, Overtaken
  <1>3. /\ o.generation \in Nat /\ o.baseGeneration \in Nat
        /\ o.baseRevisions \in [Fields -> Nat]
    BY <1>1, RequestAssumption DEF WellFormed, Operation
  <1>4. entity.generation \in Nat /\ entity.fieldRevisions \in [Fields -> Nat]
    BY <1>1 DEF TypeOK, Entity
  <1>5. QED
    BY <1>1, <1>2, <1>3, <1>4, EffectsAreNew, LifecycleAssumption DEF Beyond

\* However often an operation is delivered, it takes effect on each of its
\* targets at most once.
THEOREM RedeliveryIsSafe == Spec => AppliedOnce
<1>1. IInv => [\A o \in issued : Deliver(o) => Effects(entity, o) \cap done = {}]_vars
  BY NothingTwice
<1>2. QED
  BY <1>1, Invariance, PTL DEF AppliedOnce

\* No version the merge commits is refused by the validator with which the
\* other devices check it.
THEOREM EveryCommitIsValid == Spec => CommitsAreValid
<1>1. ASSUME IInv, Next, Exists(entity), entity' # entity
      PROVE  ValidTransition(entity, entity')
  <2>1. ASSUME NEW o \in Requests, Issue(o) PROVE FALSE
    BY <1>1, <2>1 DEF Issue
  <2>2. ASSUME NEW o \in issued, Deliver(o)
        PROVE  ValidTransition(entity, entity')
    <3>1. o \in Requests /\ entity \in Entity
      BY <1>1, <2>2 DEF IInv, TypeOK
    <3>2. entity' = Merged(entity, o)
      BY <2>2 DEF Deliver
    <3>3. Commits(entity, o)
      BY <1>1, <3>2 DEF Merged
    <3>4. QED
      BY <1>1, <3>1, <3>2, <3>3, RequestAssumption, MergeValid
  <2>3. QED
    BY <1>1, <2>1, <2>2 DEF Next
<1>2. IInv /\ [Next]_vars =>
        [Exists(entity) /\ entity' # entity => ValidTransition(entity, entity')]_vars
  BY <1>1
<1>3. QED
  BY <1>2, Invariance, PTL DEF Spec, CommitsAreValid

-----------------------------------------------------------------------------
(***************************************************************************)
(* The count of the edits of a field.                                      *)
(***************************************************************************)
\* The effects of d on target t in generation n.
InLife(d, n, t) == {x \in d : x[2] = t /\ x[1].generation = n}

AtStart(d, n, f) ==
  IF n = Origin.generation THEN Origin.fieldRevisions[f]
  ELSE Cardinality({x \in InLife(d, n, Lifecycle) : f \in x[1].fields})

Counts(e, d) ==
  ~e.deleted =>
    \A f \in Fields :
      e.fieldRevisions[f] = AtStart(d, e.generation, f) + Cardinality(InLife(d, e.generation, f))

CountInv == IsFiniteSet(done) /\ entity.generation >= Origin.generation /\ Counts(entity, done)

LEMMA CountsIsTheProperty == RevisionsCountEdits <=> Counts(entity, done)
  BY DEF RevisionsCountEdits, Counts, AtStart, InLife

LEMMA CountInit == Init => CountInv
<1> SUFFICES ASSUME Init PROVE CountInv
  OBVIOUS
<1>1. entity = Origin /\ done = {} /\ Origin \in Entity
  BY OriginAssumption DEF Init
<1>2. IsFiniteSet({}) /\ Cardinality({}) = 0
  BY FS_EmptySet
<1>3. ASSUME NEW f \in Fields
      PROVE  Origin.fieldRevisions[f] = AtStart({}, Origin.generation, f) + Cardinality(InLife({}, Origin.generation, f))
  <2>1. Cardinality(InLife({}, Origin.generation, f)) = 0
    <3>1. InLife({}, Origin.generation, f) = {}
      BY DEF InLife
    <3>2. QED
      BY <1>2, <3>1
  <2>2. PICK k : k = Origin.fieldRevisions[f]
    OBVIOUS
  <2>3. k \in Nat /\ AtStart({}, Origin.generation, f) = k
    BY <1>1, <2>2 DEF Entity, AtStart
  <2>4. QED
    BY <2>1, <2>2, <2>3
<1>4. \A f \in Fields : Origin.fieldRevisions[f] = AtStart({}, Origin.generation, f) + Cardinality(InLife({}, Origin.generation, f))
  BY <1>3
<1>5. Origin.generation >= Origin.generation
  BY <1>1 DEF Entity
<1>6. QED
  BY <1>1, <1>2, <1>4, <1>5 DEF CountInv, Counts

\* No effect is of a generation the record has not reached.
LEMMA EffectsArePast ==
  ASSUME IInv, NEW x \in done
  PROVE  x[1].generation =< entity.generation
<1>1. Beyond(x[1], x[2])
  BY DEF IInv, Overtaken
<1>2. x[1] \in Requests /\ entity \in Entity
  BY DEF IInv, TypeOK
<1>3. /\ x[1].generation \in Nat /\ x[1].baseGeneration \in Nat /\ entity.generation \in Nat
      /\ x[1].kind # "patch" => x[1].generation = x[1].baseGeneration + 1
  BY <1>2, RequestAssumption DEF WellFormed, Operation, Entity
<1>4. QED
  BY <1>1, <1>3 DEF Beyond

\* A patch adds one to the revision and to the effects of each field it takes.
LEMMA PatchIsCounted ==
  ASSUME IInv, CountInv, NEW o \in Requests, o.kind = "patch", Commits(entity, o),
         Effects(entity, o) \cap done = {},
         NEW d, d = done \cup Effects(entity, o)
  PROVE  Counts(PatchedRecord(entity, o), d)
<1>1. o.kind \in Kinds /\ entity \in Entity /\ o.fields \subseteq Fields
  BY RequestAssumption DEF WellFormed, Operation, IInv, TypeOK
<1>2. o.generation = entity.generation
  BY <1>1, CommitCases DEF CanPatch
<1>3. PICK taken : taken = AppliedFields(entity, o)
  OBVIOUS
<1>4. Effects(entity, o) = {<<o, f>> : f \in taken} /\ taken \subseteq Fields
  BY <1>1, <1>3 DEF Effects, AppliedFields
<1>5. PICK n : n = entity.generation
  OBVIOUS
<1>6. \A f \in Fields : InLife(d, n, f) = IF f \in taken THEN InLife(done, n, f) \cup {<<o, f>>} ELSE InLife(done, n, f)
  BY <1>2, <1>4, <1>5 DEF InLife
<1>7. InLife(d, n, Lifecycle) = InLife(done, n, Lifecycle)
  BY <1>4, LifecycleAssumption DEF InLife
<1>8. \A f \in Fields : AtStart(d, n, f) = AtStart(done, n, f)
  BY <1>7 DEF AtStart
<1>9. \A f \in Fields : /\ IsFiniteSet(InLife(done, n, f)) /\ Cardinality(InLife(done, n, f)) \in Nat
                        /\ AtStart(done, n, f) \in Nat
  <2>1. \A S \in SUBSET done : IsFiniteSet(S) /\ Cardinality(S) \in Nat
    BY FS_Subset, FS_CardinalityType DEF CountInv
  <2>2. \A f \in Fields : Origin.fieldRevisions[f] \in Nat
    BY OriginAssumption DEF Entity
  <2>3. \A f \in Fields : InLife(done, n, f) \in SUBSET done
                        /\ {x \in InLife(done, n, Lifecycle) : f \in x[1].fields} \in SUBSET done
    BY DEF InLife
  <2>4. QED
    BY <2>1, <2>2, <2>3 DEF AtStart
<1>10. ASSUME NEW f \in taken PROVE Cardinality(InLife(d, n, f)) = Cardinality(InLife(done, n, f)) + 1
  <2>1. <<o, f>> \notin InLife(done, n, f)
    BY <1>4 DEF InLife
  <2>2. InLife(d, n, f) = InLife(done, n, f) \cup {<<o, f>>}
    BY <1>4, <1>6
  <2>3. QED
    BY <1>4, <1>9, <2>1, <2>2, FS_AddElement
<1>11. PICK r : r = PatchedRecord(entity, o)
  OBVIOUS
<1>12. /\ r.deleted = entity.deleted /\ r.generation = n
       /\ \A f \in Fields : r.fieldRevisions[f] = IF f \in taken THEN entity.fieldRevisions[f] + 1
                                                  ELSE entity.fieldRevisions[f]
  BY <1>3, <1>5, <1>11 DEF PatchedRecord
<1>13. ASSUME ~r.deleted, NEW f \in Fields
       PROVE  r.fieldRevisions[f] = AtStart(d, n, f) + Cardinality(InLife(d, n, f))
  <2>1. entity.fieldRevisions[f] = AtStart(done, n, f) + Cardinality(InLife(done, n, f))
    BY <1>5, <1>12, <1>13 DEF CountInv, Counts
  <2>2. CASE f \in taken
    <3>1. PICK x : x = AtStart(done, n, f)
      OBVIOUS
    <3>2. PICK c : c = Cardinality(InLife(done, n, f))
      OBVIOUS
    <3>3. x \in Nat /\ c \in Nat
      BY <1>9, <3>1, <3>2
    <3>4. AtStart(d, n, f) = x /\ Cardinality(InLife(d, n, f)) = c + 1 /\ entity.fieldRevisions[f] = x + c
      BY <1>8, <1>10, <2>1, <2>2, <3>1, <3>2
    <3>5. r.fieldRevisions[f] = (x + c) + 1
      BY <1>12, <2>2, <3>4
    <3>6. QED
      BY <3>3, <3>4, <3>5
  <2>3. CASE f \notin taken
    BY <1>6, <1>8, <1>12, <2>1, <2>3
  <2>4. QED
    BY <2>2, <2>3
<1>14. QED
  BY <1>11, <1>12, <1>13 DEF Counts

\* A record that is added anew has one edit of each field the add carries.
LEMMA AddIsCounted ==
  ASSUME IInv, CountInv, NEW o \in Requests, o.kind = "add", Commits(entity, o),
         NEW d, d = done \cup Effects(entity, o)
  PROVE  Counts(CreateRecord(entity, o), d)
<1>1. WellFormed(o) /\ o.kind \in Kinds /\ entity \in Entity /\ EmptyIsNew /\ o.fields \subseteq Fields
  BY RequestAssumption DEF WellFormed, Operation, IInv, TypeOK
<1>2. o.generation = entity.generation + 1
  BY <1>1, CommitCases DEF CanAdd, EmptyIsNew
<1>3. entity.generation \in Nat /\ Origin.generation \in Nat /\ entity.generation >= Origin.generation
  BY <1>1, OriginAssumption DEF Entity, CountInv
<1>4. PICK n : n = o.generation
  OBVIOUS
<1>5. n # Origin.generation /\ \A x \in done : x[1].generation # n
  <2>1. \A x \in done : x[1].generation \in Nat
    BY RequestAssumption DEF IInv, TypeOK, WellFormed, Operation
  <2>2. QED
    BY <1>2, <1>3, <1>4, <2>1, EffectsArePast
<1>6. d = done \cup {<<o, Lifecycle>>}
  BY DEF Effects
<1>7. InLife(d, n, Lifecycle) = {<<o, Lifecycle>>} /\ \A f \in Fields : InLife(d, n, f) = {}
  BY <1>4, <1>5, <1>6, LifecycleAssumption DEF InLife
<1>8. \A f \in Fields : {x \in InLife(d, n, Lifecycle) : f \in x[1].fields} =
                          IF f \in o.fields THEN {<<o, Lifecycle>>} ELSE {}
  <2>1. PICK z : z = <<o, Lifecycle>>
    OBVIOUS
  <2>2. z[1] = o /\ InLife(d, n, Lifecycle) = {z}
    BY <1>7, <2>1
  <2>3. ASSUME NEW f \in Fields, f \in o.fields PROVE {x \in {z} : f \in x[1].fields} = {z}
    BY <2>2, <2>3
  <2>4. ASSUME NEW f \in Fields, f \notin o.fields PROVE {x \in {z} : f \in x[1].fields} = {}
    BY <2>2, <2>4
  <2>5. QED
    BY <2>1, <2>2, <2>3, <2>4
<1>9. Cardinality({}) = 0 /\ Cardinality({<<o, Lifecycle>>}) = 1
  BY FS_EmptySet, FS_Singleton
<1>10. \A f \in Fields : AtStart(d, n, f) = IF f \in o.fields THEN 1 ELSE 0
  BY <1>5, <1>8, <1>9 DEF AtStart
<1>11. PICK r : r = CreateRecord(entity, o)
  OBVIOUS
<1>12. r.generation = n /\ \A f \in Fields : r.fieldRevisions[f] = IF f \in o.fields THEN 1 ELSE 0
  BY <1>4, <1>11 DEF CreateRecord
<1>13. ASSUME NEW f \in Fields
       PROVE  r.fieldRevisions[f] = AtStart(d, n, f) + Cardinality(InLife(d, n, f))
  <2>1. Cardinality(InLife(d, n, f)) = 0
    BY <1>7, <1>9
  <2>2. QED
    BY <1>10, <1>12, <2>1
<1>14. QED
  BY <1>11, <1>12, <1>13 DEF Counts

LEMMA CountDelivers ==
  ASSUME IInv, CountInv, NEW o \in issued, Deliver(o), Effects(entity, o) \cap done = {}
  PROVE  CountInv'
<1>1. o \in Requests /\ o.kind \in Kinds /\ entity \in Entity /\ EmptyIsNew
  BY RequestAssumption DEF IInv, TypeOK, WellFormed, Operation
<1>2. entity' = Merged(entity, o) /\ done' = done \cup Effects(entity, o)
  BY DEF Deliver
<1>3. IsFiniteSet(done')
  <2>1. IsFiniteSet(Effects(entity, o))
    <3>1. CASE Commits(entity, o) /\ o.kind = "patch"
      <4>1. IsFiniteSet({o} \X Fields)
        BY FieldAssumption, FS_Singleton, FS_Product
      <4>2. o.fields \subseteq Fields
        BY <1>1, RequestAssumption DEF WellFormed, Operation
      <4>3. Effects(entity, o) \in SUBSET ({o} \X Fields)
        BY <3>1, <4>2 DEF Effects, AppliedFields
      <4>4. QED
        BY <4>1, <4>3, FS_Subset
    <3>2. CASE Commits(entity, o) /\ o.kind # "patch"
      BY <3>2, FS_Singleton DEF Effects
    <3>3. CASE ~Commits(entity, o)
      BY <3>3, FS_EmptySet DEF Effects
    <3>4. QED
      BY <3>1, <3>2, <3>3
  <2>2. QED
    BY <1>2, <2>1, FS_Union DEF CountInv
<1>4. entity'.generation >= Origin.generation
  <2>1. entity'.generation >= entity.generation
    BY <1>1, <1>2, MergeAdvances DEF EmptyIsNew
  <2>2. entity'.generation \in Nat /\ entity.generation \in Nat /\ Origin.generation \in Nat
    BY <1>1, <1>2, RequestAssumption, MergeType, OriginAssumption DEF Entity
  <2>3. QED
    BY <2>1, <2>2 DEF CountInv
<1>5. Counts(entity', done')
  <2>1. PICK d : d = done \cup Effects(entity, o)
    OBVIOUS
  <2>2. CASE ~Commits(entity, o)
    BY <1>2, <2>2 DEF Merged, Effects, CountInv
  <2>3. CASE Commits(entity, o) /\ o.kind = "patch"
    <3>1. Counts(PatchedRecord(entity, o), d)
      BY <1>1, <2>1, <2>3, PatchIsCounted
    <3>2. QED
      BY <1>2, <2>1, <2>3, <3>1 DEF Merged
  <2>4. CASE Commits(entity, o) /\ o.kind = "add"
    <3>1. Counts(CreateRecord(entity, o), d)
      BY <1>1, <2>1, <2>4, AddIsCounted
    <3>2. QED
      BY <1>2, <2>1, <2>4, <3>1 DEF Merged
  <2>5. CASE Commits(entity, o) /\ o.kind = "delete"
    <3>1. entity' = Tombstone(entity, o)
      BY <1>2, <2>5 DEF Merged
    <3>2. QED
      BY <3>1 DEF Tombstone, Counts
  <2>6. QED
    BY <1>1, <2>2, <2>3, <2>4, <2>5 DEF Kinds
<1>6. QED
  BY <1>3, <1>4, <1>5 DEF CountInv

LEMMA CountNext == IInv /\ CountInv /\ [Next]_vars => CountInv'
<1> SUFFICES ASSUME IInv, CountInv, [Next]_vars PROVE CountInv'
  OBVIOUS
<1>1. ASSUME NEW o \in Requests, Issue(o) PROVE CountInv'
  BY <1>1 DEF Issue, CountInv
<1>2. ASSUME NEW o \in issued, Deliver(o) PROVE CountInv'
  BY <1>2, NothingTwice, CountDelivers
<1>3. CASE UNCHANGED vars
  BY <1>3 DEF vars, CountInv
<1>4. QED
  BY <1>1, <1>2, <1>3 DEF Next

\* While the record lives, a field's revision counts the edits that took effect
\* on it: no value is replaced without the revision that tells its author.
THEOREM EditsAreCounted == Spec => []RevisionsCountEdits
<1>1. CountInv => RevisionsCountEdits
  BY CountsIsTheProperty DEF CountInv
<1>2. QED
  BY <1>1, InitInv, NextInv, CountInit, CountNext, PTL DEF Spec
=============================================================================
