--------------------------- MODULE AccountEntity ---------------------------
(***************************************************************************)
(* The merge algebra of cross-device sync: the record the server keeps for *)
(* one logical entity (a trade entry, a Favorite or a tag), the operations *)
(* a device sends against it, and the rules by which an operation, or a    *)
(* version read from the server, is taken or refused.                      *)
(*                                                                         *)
(* Source: js/domain/accountSyncMerge.js, js/domain/accountSyncModel.js    *)
(* and monotonicEntity of js/data/accountSyncController.js.                *)
(*                                                                         *)
(* An operation's id stands for its pair (operationId, inputHash): the     *)
(* journal refuses one id with two contents.  Timestamps, owner and        *)
(* identity bindings are left out: no rule below depends on them once an   *)
(* entity is read at its own path.                                         *)
(***************************************************************************)
EXTENDS Naturals

CONSTANTS
  Fields,     \* mutable field paths of the entity
  Values,     \* values a field may take
  OpIds,      \* operation ids
  NoValue,    \* a field the record does not hold
  NoOp        \* no mutation

ASSUME ValueAssumption == NoValue \notin Values
ASSUME OpAssumption    == NoOp \notin OpIds

Kinds == {"add", "patch", "delete"}

\* A record of the entity's path; revision 0 is the path holding nothing.
Entity ==
  [ generation : Nat, revision : Nat, deleted : BOOLEAN,
    values : [Fields -> Values \cup {NoValue}],
    fieldRevisions : [Fields -> Nat],
    fieldMutations : [Fields -> OpIds \cup {NoOp}],
    lifecycle : OpIds \cup {NoOp} ]

NoEntity ==
  [ generation |-> 0, revision |-> 0, deleted |-> FALSE,
    values         |-> [f \in Fields |-> NoValue],
    fieldRevisions |-> [f \in Fields |-> 0],
    fieldMutations |-> [f \in Fields |-> NoOp],
    lifecycle      |-> NoOp ]

Exists(e) == e.revision > 0

\* fields: the paths of the patch; expected: the delete's expectedRevision
\* guard, 0 when the operation carries none.
Operation ==
  [ id : OpIds, kind : Kinds, baseGeneration : Nat, generation : Nat,
    fields : SUBSET Fields, values : [Fields -> Values \cup {NoValue}],
    baseRevisions : [Fields -> Nat], expected : Nat ]

(***************************************************************************)
(* createOperation's rules on an operation's shape.                        *)
(***************************************************************************)
WellFormed(o) ==
  /\ o \in Operation
  /\ (o.kind = "delete") <=> (o.fields = {})
  /\ o.kind = "patch"  => o.generation = o.baseGeneration /\ o.generation > 0
  /\ o.kind # "patch"  => o.generation = o.baseGeneration + 1
  /\ o.kind # "delete" => o.expected = 0
  /\ \A f \in Fields : f \in o.fields <=> o.values[f] # NoValue

-----------------------------------------------------------------------------
(***************************************************************************)
(* mergeOperation.                                                         *)
(***************************************************************************)
SameLifecycle(e, o) == e.lifecycle = o.id

\* A patched field the record already carries, by this operation's own hand
\* or because both devices chose the same value.
Settled(e, o, f) == e.fieldMutations[f] = o.id \/ e.values[f] = o.values[f]

\* Mutant of AppliedFields: the last writer wins, whatever version it edited.
LastWriterWins(e, o) == {f \in o.fields : ~Settled(e, o, f)}

AppliedFields(e, o) ==
  {f \in o.fields : ~Settled(e, o, f) /\ e.fieldRevisions[f] = o.baseRevisions[f]}

LostFields(e, o) ==
  {f \in o.fields : ~Settled(e, o, f) /\ e.fieldRevisions[f] # o.baseRevisions[f]}

\* Mutant of CreateRecord: the re-added record starts over at revision 1.
RestartedRecord(e, o) ==
  [ generation |-> o.generation, revision |-> 1, deleted |-> FALSE,
    values         |-> o.values,
    fieldRevisions |-> [f \in Fields |-> IF f \in o.fields THEN 1 ELSE 0],
    fieldMutations |-> [f \in Fields |-> IF f \in o.fields THEN o.id ELSE NoOp],
    lifecycle      |-> o.id ]

\* Mutant of CreateRecord: the re-added record keeps the revisions of its fields.
ContinuedRecord(e, o) ==
  [ generation |-> o.generation, revision |-> e.revision + 1, deleted |-> FALSE,
    values         |-> o.values,
    fieldRevisions |-> [f \in Fields |-> IF f \in o.fields THEN e.fieldRevisions[f] + 1 ELSE 0],
    fieldMutations |-> [f \in Fields |-> IF f \in o.fields THEN o.id ELSE NoOp],
    lifecycle      |-> o.id ]

\* createRecord, with the revision a re-add carries on from the tombstone.
CreateRecord(e, o) ==
  [ generation |-> o.generation, revision |-> e.revision + 1, deleted |-> FALSE,
    values         |-> o.values,
    fieldRevisions |-> [f \in Fields |-> IF f \in o.fields THEN 1 ELSE 0],
    fieldMutations |-> [f \in Fields |-> IF f \in o.fields THEN o.id ELSE NoOp],
    lifecycle      |-> o.id ]

Tombstone(e, o) ==
  [ generation |-> o.generation, revision |-> e.revision + 1, deleted |-> TRUE,
    values |-> e.values, fieldRevisions |-> e.fieldRevisions,
    fieldMutations |-> e.fieldMutations, lifecycle |-> o.id ]

\* Mutant of PatchedRecord: an applied field keeps its revision.
UncountedPatch(e, o) ==
  LET taken == AppliedFields(e, o) IN
  [ e EXCEPT !.revision = e.revision + 1,
             !.values = [f \in Fields |-> IF f \in taken THEN o.values[f] ELSE e.values[f]],
             !.fieldMutations = [f \in Fields |-> IF f \in taken THEN o.id ELSE e.fieldMutations[f]] ]

PatchedRecord(e, o) ==
  LET taken == AppliedFields(e, o) IN
  [ generation |-> e.generation, revision |-> e.revision + 1, deleted |-> e.deleted,
    values         |-> [f \in Fields |-> IF f \in taken THEN o.values[f] ELSE e.values[f]],
    fieldRevisions |-> [f \in Fields |-> IF f \in taken THEN e.fieldRevisions[f] + 1
                                                        ELSE e.fieldRevisions[f]],
    fieldMutations |-> [f \in Fields |-> IF f \in taken THEN o.id ELSE e.fieldMutations[f]],
    lifecycle      |-> e.lifecycle ]

\* When the operation creates the record, or re-creates it on a tombstone.
CanAdd(e, o) ==
  \/ ~Exists(e) /\ o.baseGeneration = 0 /\ o.generation = 1
  \/ /\ Exists(e) /\ e.deleted
     /\ o.baseGeneration = e.generation /\ o.generation = e.generation + 1

CanDelete(e, o) ==
  ~e.deleted /\ o.baseGeneration = e.generation /\ o.generation = e.generation + 1

CanPatch(e, o) ==
  ~e.deleted /\ o.generation = e.generation /\ o.baseGeneration = e.generation

MergeStatuses ==
  {"idempotent", "applied", "applied-with-conflict", "lifecycle-conflict", "entity-missing",
   "source-revision-conflict", "stale-generation", "same-field-conflict"}

MergeStatus(e, o) ==
  CASE o.kind = "add" /\ SameLifecycle(e, o)                    -> "idempotent"
    [] o.kind = "add" /\ ~SameLifecycle(e, o) /\ CanAdd(e, o)   -> "applied"
    [] o.kind = "add" /\ ~SameLifecycle(e, o) /\ ~CanAdd(e, o)  -> "lifecycle-conflict"
    [] o.kind # "add" /\ ~Exists(e)                             -> "entity-missing"
    [] o.kind = "delete" /\ Exists(e) /\ SameLifecycle(e, o)    -> "idempotent"
    [] /\ o.kind = "delete" /\ Exists(e) /\ ~SameLifecycle(e, o)
       /\ o.expected # 0 /\ e.revision # o.expected             -> "source-revision-conflict"
    [] /\ o.kind = "delete" /\ Exists(e) /\ ~SameLifecycle(e, o)
       /\ o.expected \in {0, e.revision}                        ->
          IF CanDelete(e, o) THEN "applied" ELSE "lifecycle-conflict"
    [] o.kind = "patch" /\ Exists(e) /\ ~CanPatch(e, o)         -> "stale-generation"
    [] o.kind = "patch" /\ Exists(e) /\ CanPatch(e, o)          ->
          IF AppliedFields(e, o) = {}
            THEN IF LostFields(e, o) = {} THEN "idempotent" ELSE "same-field-conflict"
            ELSE IF LostFields(e, o) = {} THEN "applied" ELSE "applied-with-conflict"

Conflicting(status) ==
  status \in {"lifecycle-conflict", "entity-missing", "source-revision-conflict",
              "stale-generation", "same-field-conflict"}

\* Mutant of ConflictFields: a patch applied in part reports no conflict.
RefusedFieldsOnly(e, o) ==
  IF MergeStatus(e, o) = "same-field-conflict" THEN LostFields(e, o) ELSE {}

\* The fields of the conflict a merge reports: none of a lifecycle conflict.
ConflictFields(e, o) ==
  CASE MergeStatus(e, o) = "stale-generation"                                 -> o.fields
    [] MergeStatus(e, o) \in {"same-field-conflict", "applied-with-conflict"} -> LostFields(e, o)
    [] OTHER                                                                  -> {}

Commits(e, o) == MergeStatus(e, o) \in {"applied", "applied-with-conflict"}
Accepts(e, o) == Commits(e, o) \/ MergeStatus(e, o) = "idempotent"

\* The record after the merge; unchanged by one that does not commit.
Merged(e, o) ==
  CASE ~Commits(e, o)                        -> e
    [] Commits(e, o) /\ o.kind = "add"       -> CreateRecord(e, o)
    [] Commits(e, o) /\ o.kind = "delete"    -> Tombstone(e, o)
    [] Commits(e, o) /\ o.kind = "patch"     -> PatchedRecord(e, o)

-----------------------------------------------------------------------------
(***************************************************************************)
(* validateTransition: what one committed revision may do to the previous. *)
(***************************************************************************)
SameFields(e, n) ==
  /\ n.values = e.values
  /\ n.fieldRevisions = e.fieldRevisions
  /\ n.fieldMutations = e.fieldMutations

ValidFieldChange(e, n, f) ==
  \/ /\ n.values[f] = e.values[f]
     /\ n.fieldRevisions[f] = e.fieldRevisions[f]
     /\ n.fieldMutations[f] = e.fieldMutations[f]
  \/ /\ n.values[f] # e.values[f]
     /\ n.fieldRevisions[f] = e.fieldRevisions[f] + 1
     /\ n.fieldMutations[f] # e.fieldMutations[f]

ValidEdit(e, n) ==
  /\ n.generation = e.generation
  /\ n.deleted = e.deleted
  /\ n.lifecycle = e.lifecycle
  /\ \A f \in Fields : ValidFieldChange(e, n, f)

ValidLifecycle(e, n) ==
  /\ n.generation = e.generation + 1
  /\ n.deleted # e.deleted
  /\ n.lifecycle # e.lifecycle
  /\ \/ n.deleted /\ SameFields(e, n)
     \/ /\ ~n.deleted
        /\ \A f \in Fields : n.values[f] # NoValue =>
             n.fieldRevisions[f] = 1 /\ n.fieldMutations[f] = n.lifecycle

ValidTransition(e, n) ==
  n.revision = e.revision + 1 /\ (ValidEdit(e, n) \/ ValidLifecycle(e, n))

(***************************************************************************)
(* monotonicEntity: what a device does with a version read from the server *)
(* given the last one it accepted.  A verdict other than "take" and "keep" *)
(* makes the device stop trusting its listener.                            *)
(***************************************************************************)
MonotonicVerdict(prior, incoming) ==
  LET sameVersion == /\ incoming.generation = prior.generation
                     /\ incoming.revision = prior.revision
      notNewer    == /\ incoming.generation =< prior.generation
                     /\ incoming.revision =< prior.revision
  IN
  CASE ~Exists(prior)                              -> "take"
    [] Exists(prior) /\ sameVersion                ->
         IF incoming = prior THEN "keep" ELSE "version-substitution"
    [] Exists(prior) /\ ~sameVersion /\ notNewer   -> "keep"
    [] Exists(prior) /\ ~sameVersion /\ ~notNewer  ->
         IF incoming.generation < prior.generation \/ incoming.revision =< prior.revision
           THEN "revision-invalid"
         ELSE IF incoming.revision = prior.revision + 1 /\ ~ValidTransition(prior, incoming)
           THEN "transition-invalid"
         ELSE "take"

\* operationBase: the base a new operation records of the entity it is
\* prepared against.
OperationBase(e) == [generation |-> e.generation, revisions |-> e.fieldRevisions]

\* createOperation on top of what the device shows of the entity.
NewOperation(id, kind, e, patch, expected) ==
  LET base == OperationBase(e)
      paths == {f \in Fields : patch[f] # NoValue} IN
  [ id |-> id, kind |-> kind,
    baseGeneration |-> base.generation,
    generation     |-> IF kind = "patch" THEN base.generation ELSE base.generation + 1,
    fields         |-> paths,
    values         |-> patch,
    baseRevisions  |-> [f \in Fields |-> IF f \in paths THEN base.revisions[f] ELSE 0],
    expected       |-> expected ]
=============================================================================
