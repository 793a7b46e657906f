-------------------------- MODULE CanonicalEntity --------------------------
(***************************************************************************)
(* What the account's database promises of one logical entity, whatever    *)
(* the devices that write it do: operations are issued, and each of them   *)
(* is delivered any number of times, at any time and in any order.         *)
(*                                                                         *)
(* A delivery is one database transaction of applyOperation: mergeOperation*)
(* on the stored record, committed or left as it was.  Where an operation  *)
(* comes from, and what a device makes of the answer, is AccountSync's     *)
(* concern; AccountSync implements this specification.                     *)
(***************************************************************************)
EXTENDS AccountEntity, FiniteSets

CONSTANTS
  Requests,   \* operations the devices may issue
  Origin,     \* the record operations that are long settled have left
  Lifecycle   \* the target of an add or a delete, beside the fields

ASSUME RequestAssumption == \A o \in Requests : WellFormed(o)
ASSUME OriginAssumption ==
  /\ Origin \in Entity
  /\ ~Exists(Origin) => Origin = NoEntity
ASSUME LifecycleAssumption == Lifecycle \notin Fields
ASSUME FieldAssumption == IsFiniteSet(Fields)

VARIABLES
  entity,     \* the record at the entity's path
  issued,     \* operations in some device's journal
  done        \* <<operation, target>>: what has taken effect so far

vars == <<entity, issued, done>>

\* The targets a delivery of o to the record e takes effect on.
Effects(e, o) ==
  CASE ~Commits(e, o)                      -> {}
    [] Commits(e, o) /\ o.kind = "patch"   -> {<<o, f>> : f \in AppliedFields(e, o)}
    [] Commits(e, o) /\ o.kind # "patch"   -> {<<o, Lifecycle>>}

-----------------------------------------------------------------------------
Init ==
  /\ entity = Origin
  /\ issued = {}
  /\ done = {}

\* A journal takes an operation: one id never stands for two contents.
Issue(o) ==
  /\ \A p \in issued : p.id # o.id
  /\ issued' = issued \cup {o}
  /\ UNCHANGED <<entity, done>>

\* The first delivery, a redelivery after a lost answer, or a late one.
Deliver(o) ==
  /\ entity' = Merged(entity, o)
  /\ done' = done \cup Effects(entity, o)
  /\ UNCHANGED issued

Next ==
  \/ \E o \in Requests : Issue(o)
  \/ \E o \in issued : Deliver(o)

Spec == Init /\ [][Next]_vars

-----------------------------------------------------------------------------
TypeOK ==
  /\ entity \in Entity
  /\ issued \in SUBSET Requests
  /\ done \in SUBSET (issued \X (Fields \cup {Lifecycle}))

\* Of two operations on one target prepared on the same version of it, at
\* most one ever takes effect: the first accepted edit of a field wins, and
\* one of two concurrent adds or deletes does (accountSyncMerge.js:138, 147,
\* 154 and 162).
OneWinner ==
  \A x, y \in done :
    /\ x[2] = y[2]
    /\ x[1].baseGeneration = y[1].baseGeneration
    /\ x[2] \in Fields => x[1].baseRevisions[x[2]] = y[1].baseRevisions[x[2]]
    => x = y

\* Redelivery never applies an operation to the same target twice, even when
\* other devices wrote the target in between: retries after a lost answer are
\* safe (accountSyncMerge.js:135, 145, 160 and 162).
AppliedOnce ==
  [][\A o \in issued : Deliver(o) => Effects(entity, o) \cap done = {}]_vars

\* Every version the merge commits over another one passes the validator with
\* which every other device checks the next version it sees
\* (validateTransition, accountSyncController.js:142-145).
CommitsAreValid ==
  [][Exists(entity) /\ entity' # entity => ValidTransition(entity, entity')]_vars

\* A committed edit is never undone silently: while the generation lasts, a
\* field's revision counts the edits that took effect on it, so no value is
\* replaced without the revision that tells its author (accountSyncMerge.js:
\* 121 and 164).
RevisionsCountEdits ==
  LET inLife(t) == {x \in done : x[2] = t /\ x[1].generation = entity.generation}
      atStart(f) == IF entity.generation = Origin.generation THEN Origin.fieldRevisions[f]
                    ELSE Cardinality({x \in inLife(Lifecycle) : f \in x[1].fields})
  IN ~entity.deleted =>
       \A f \in Fields : entity.fieldRevisions[f] = atStart(f) + Cardinality(inLife(f))
=============================================================================
