------------------------- MODULE AccountSyncProofs -------------------------
(***************************************************************************)
(* What AccountSync promises, proved for every set of devices, sessions,   *)
(* fields, values, operations and scenes.                                  *)
(*                                                                         *)
(* The argument is in layers; a step from a state where all of them hold   *)
(* preserves each.                                                         *)
(*                                                                         *)
(*   Types      the shape of the state.                                    *)
(*   History    the versions of the record form a chain: a version is known*)
(*              by its revision, and within a generation a field's revision*)
(*              determines its value.                                      *)
(*   Delivery   what waits in a session's queue is in the order of the     *)
(*              versions, and a dispatch that holds its authority has none *)
(*              before its answer.                                         *)
(*   Dispatched a session's task is about an operation of its journal, and *)
(*              its verdict has a witness among the versions.              *)
(*   Retained   every record of a journal that ended has such a witness.   *)
(*   IdsAreNew  an operation's id is in one record of one journal.         *)
(*   OneTab     with one tab on a device only its session settles records. *)
(*   Viewing    what a session shows, and what it prepares, are records of *)
(*              the entity.                                                *)
(*                                                                         *)
(* The safety invariants, two action properties and the refinement of      *)
(* CanonicalEntity follow from them.                                       *)
(***************************************************************************)
EXTENDS AccountSync, AccountEntityProofs, WellFoundedInduction, FiniteSetTheorems

Stages == {"sent", "merged", "answered", "accepted", "failing", "settling", "retaining"}

\* A record of a well-formed operation.
Entry == {r \in Record : WellFormed(r.op)}

ActiveTask ==
  [ stage : Stages, i : Nat \ {0}, saved : Entry, manual : BOOLEAN, auth : BOOLEAN,
    version : Nat, verdict : MergeStatuses \cup {"none"}, lost : SUBSET Fields, cause : Causes ]

Active(s) == task[s].stage # "idle"

-----------------------------------------------------------------------------
LogType == log \in Seq(Entity) /\ log # <<>>

JournalType == journal \in [Devices -> Seq(Entry)]

PlacesType ==
  /\ listener \in [Sessions -> Listening \cup {"off", "retired"}]
  /\ seen \in [Sessions -> Nat] /\ accepted \in [Sessions -> Nat]
  /\ queue \in [Sessions -> Seq(Nat)]

TaskTyped == task \in [Sessions -> ActiveTask \cup {NoTask}]

EditTyped ==
  /\ DOMAIN edit = Sessions
  /\ \A s \in Sessions :
       /\ edit[s].phase \in {"none", "prepared", "resolving"}
       /\ edit[s].phase = "prepared" => WellFormed(edit[s].op) /\ edit[s].basis \in Nat

SceneTyped == scene \in Scenes /\ faults \in 0..scene.faults

Types == LogType /\ JournalType /\ PlacesType /\ TaskTyped /\ EditTyped /\ SceneTyped

-----------------------------------------------------------------------------
\* n follows e in the chain of versions, possibly from afar.
Follows(e, n) ==
  /\ e.generation =< n.generation
  /\ e.generation = n.generation =>
       \A f \in Fields :
         /\ e.fieldRevisions[f] =< n.fieldRevisions[f]
         /\ e.fieldRevisions[f] = n.fieldRevisions[f] =>
              /\ e.values[f] = n.values[f]
              /\ e.fieldMutations[f] = n.fieldMutations[f]

History ==
  /\ log[1] = Origin
  /\ \A i \in DOMAIN log : log[i].revision = Origin.revision + (i - 1)
  /\ \A i, j \in DOMAIN log : i =< j => Follows(log[i], log[j])
  /\ \A i, j \in DOMAIN log :
       j = i + 1 /\ Exists(log[i]) => ValidTransition(log[i], log[j])

-----------------------------------------------------------------------------
\* The queue q in the order of the versions: none is beyond the version seen,
\* and each that waits is at or after the accepted one and those before it.
Ordered(acceptedOne, seenOne, q) ==
  /\ acceptedOne =< seenOne
  /\ \A i \in DOMAIN q : q[i] =< seenOne /\ (q[i] # Result => acceptedOne =< q[i])
  /\ \A i, j \in DOMAIN q : i < j /\ q[i] # Result /\ q[j] # Result => q[i] =< q[j]

NoVersions(q) == \A i \in DOMAIN q : q[i] = Result

\* The one answer that may wait is the task's.
OneAnswer(q, t) ==
  /\ \A i \in DOMAIN q : q[i] = Result => t.stage = "answered"
  /\ \A i, j \in DOMAIN q : q[i] = Result /\ q[j] = Result => i = j

\* What holds of a session with listener l, task t and queue q, when there are
\* n versions.
Delivered(l, n, seenOne, acceptedOne, q, t) ==
  /\ seenOne =< n
  /\ Ordered(acceptedOne, seenOne, q)
  /\ OneAnswer(q, t)
  /\ l = "healthy" => acceptedOne > 0 /\ NoVersions(q)
  /\ t.stage # "idle" => seenOne > 0
  /\ t.stage # "idle" /\ t.auth => NoVersions(q)
  /\ t.stage \in {"merged", "answered"} =>
       t.version \in 1..n /\ (t.auth => acceptedOne =< t.version)
  /\ t.stage = "answered" => t.version =< seenOne

Delivery ==
  \A s \in Sessions : Delivered(listener[s], Len(log), seen[s], accepted[s], queue[s], task[s])

-----------------------------------------------------------------------------
Proven(versions, o) == \E i \in DOMAIN versions : MergeStatus(versions[i], o) = "idempotent"

Kept(versions, o, lost) ==
  Exists(Origin) /\ o.kind = "patch" =>
    \A f \in o.fields \ lost : \E i \in DOMAIN versions : Settled(versions[i], o, f)

\* The record of journal j that task t is about.
Concerns(t, j) ==
  /\ t.i \in DOMAIN j
  /\ t.saved.op = j[t.i].op
  /\ t.saved.basis = j[t.i].basis

OfJournal(s) == Concerns(task[s], journal[DeviceOf[s]])

Witnessed(versions, t) ==
  t.stage \in {"merged", "answered", "accepted", "settling"} =>
    IF t.verdict \in {"applied", "idempotent"} THEN Proven(versions, t.saved.op)
    ELSE Kept(versions, t.saved.op, t.lost)

Dispatched ==
  \A s \in Sessions : Active(s) => OfJournal(s) /\ Witnessed(log, task[s])

RecordKept(versions, r) ==
  /\ r.basis \in DOMAIN versions
  /\ r.status = "acknowledged" => Proven(versions, r.op)
  /\ r.status \in {"conflict", "resolved"} => Kept(versions, r.op, r.lost)

\* An edit under way, on journal j.
EditKept(versions, j, e) ==
  /\ e.phase = "prepared" =>
       e.basis \in DOMAIN versions /\ (e.resolves = 0 \/ e.resolves \in DOMAIN j)
  /\ e.phase = "resolving" => e.resolves \in DOMAIN j

Retained ==
  /\ \A d \in Devices : \A i \in DOMAIN journal[d] : RecordKept(log, journal[d][i])
  /\ \A s \in Sessions : EditKept(log, journal[DeviceOf[s]], edit[s])

-----------------------------------------------------------------------------
\* One operation id stands for one operation.
IdsAreNew ==
  /\ \A c, d \in Devices : \A i \in DOMAIN journal[c], j \in DOMAIN journal[d] :
       journal[c][i].op.id = journal[d][j].op.id => c = d /\ i = j
  /\ \A s \in Sessions : edit[s].phase = "prepared" =>
       /\ \A d \in Devices : \A i \in DOMAIN journal[d] : journal[d][i].op.id # edit[s].op.id
       /\ \A t \in Sessions :
            edit[t].phase = "prepared" /\ edit[t].op.id = edit[s].op.id => s = t

-----------------------------------------------------------------------------
OneTab ==
  /\ \A s \in Sessions : listener[s] = "off" => ~Active(s)
  /\ scene.tabs = 1 =>
       /\ \A s, t \in Sessions : Live(s) /\ Live(t) /\ DeviceOf[s] = DeviceOf[t] => s = t
       /\ \A s \in Sessions : Live(s) /\ Active(s) =>
            journal[DeviceOf[s]][task[s].i].status \in {"pending", "blocked"}

IInv == Types /\ History /\ Delivery /\ Dispatched /\ Retained /\ IdsAreNew /\ OneTab

-----------------------------------------------------------------------------
(***************************************************************************)
(* What the journal's functions make of a record.                          *)
(***************************************************************************)
\* r became q: the same operation, with an end only a settlement gives it.
SameOperation(r, q) == q.op = r.op /\ q.basis = r.basis

LEMMA AttemptedRecord ==
  ASSUME NEW r \in Record, NEW cause \in Causes
  PROVE  /\ Attempted(r, cause) \in Record /\ SameOperation(r, Attempted(r, cause))
         /\ Attempted(r, cause).status \in {"pending", "blocked"}
<1>1. PICK n \in Nat : n = r.attempts + 1
  BY DEF Record
<1>2. PICK b \in BOOLEAN : b = (~Retryable(cause) \/ r.attempts + 1 >= MaxAttempts)
  OBVIOUS
<1>3. PICK status \in {"pending", "blocked"} : status = IF b THEN "blocked" ELSE "pending"
  OBVIOUS
<1>4. PICK q : q = [r EXCEPT !.attempts = n, !.cause = cause, !.due = b, !.status = status]
  OBVIOUS
<1>5. Attempted(r, cause) = q
  BY <1>1, <1>2, <1>3, <1>4 DEF Attempted
<1>6. q \in Record
  BY <1>4 DEF Record, Statuses
<1>7. q.op = r.op /\ q.basis = r.basis /\ q.status \in {"pending", "blocked"}
  BY <1>4 DEF Record
<1>8. QED
  BY <1>5, <1>6, <1>7 DEF SameOperation

LEMMA RetainedRecord ==
  ASSUME NEW r \in Record, NEW cause \in Causes
  PROVE  /\ RetainedBlocked(r, cause) \in Record /\ SameOperation(r, RetainedBlocked(r, cause))
         /\ RetainedBlocked(r, cause).status = r.status
<1>1. PICK n \in Nat : n = r.attempts + 1
  BY DEF Record
<1>2. RetainedBlocked(r, cause) = [r EXCEPT !.attempts = n, !.cause = cause]
  BY <1>1 DEF RetainedBlocked
<1>3. QED
  BY <1>2 DEF Record, SameOperation

LEMMA AcknowledgedRecord ==
  ASSUME NEW r \in Record
  PROVE  /\ Acknowledged(r) \in Record /\ SameOperation(r, Acknowledged(r))
         /\ Acknowledged(r).status = "acknowledged"
  BY DEF Acknowledged, Record, SameOperation, Statuses, Causes

LEMMA ConflictedRecord ==
  ASSUME NEW r \in Record, NEW lost \in SUBSET Fields
  PROVE  /\ Conflicted(r, lost) \in Record /\ SameOperation(r, Conflicted(r, lost))
         /\ Conflicted(r, lost).status = "conflict" /\ Conflicted(r, lost).lost = lost
  BY DEF Conflicted, Record, SameOperation, Statuses, Causes

LEMMA ResolvedRecord ==
  ASSUME NEW r \in Record
  PROVE  /\ Resolved(r) \in Record /\ SameOperation(r, Resolved(r))
         /\ Resolved(r).lost = r.lost
         /\ IF r.status = "conflict" THEN Resolved(r).status = "resolved" ELSE Resolved(r) = r
<1>1. CASE r.status = "conflict"
  <2>1. PICK q : q = [r EXCEPT !.status = "resolved", !.due = FALSE]
    OBVIOUS
  <2>2. Resolved(r) = q
    BY <1>1, <2>1 DEF Resolved
  <2>3. q \in Record
    BY <2>1 DEF Record, Statuses
  <2>4. q.op = r.op /\ q.basis = r.basis /\ q.lost = r.lost /\ q.status = "resolved"
    BY <2>1 DEF Record
  <2>5. QED
    BY <1>1, <2>2, <2>3, <2>4 DEF SameOperation
<1>2. CASE r.status # "conflict"
  BY <1>2 DEF Resolved, SameOperation
<1>3. QED
  BY <1>1, <1>2

LEMMA QueuedRecord ==
  ASSUME NEW o, WellFormed(o), NEW basis \in Nat
  PROVE  /\ Queued(o, basis) \in Entry
         /\ Queued(o, basis).op = o /\ Queued(o, basis).basis = basis
         /\ Queued(o, basis).status = "pending"
  BY DEF Queued, Entry, Record, WellFormed, Statuses, Causes

LEMMA WrittenRecord ==
  ASSUME NEW t \in ActiveTask, NEW r \in Entry,
         t.saved.op = r.op, t.saved.basis = r.basis
  PROVE  /\ Settlement(t) \in Entry /\ SameOperation(r, Settlement(t))
         /\ IF t.verdict \in {"applied", "idempotent"}
              THEN Settlement(t).status = "acknowledged"
              ELSE Settlement(t).status = "conflict" /\ Settlement(t).lost = t.lost
         /\ Retention(t, r) \in Entry /\ SameOperation(r, Retention(t, r))
         /\ Retention(t, r).status \in {"pending", "blocked"} \/ Retention(t, r) = r
<1>1. t.saved \in Record /\ t.cause \in Causes /\ t.lost \in SUBSET Fields
  BY DEF ActiveTask, Entry
<1>2. /\ Settlement(t) \in Entry /\ SameOperation(r, Settlement(t))
      /\ IF t.verdict \in {"applied", "idempotent"}
           THEN Settlement(t).status = "acknowledged"
           ELSE Settlement(t).status = "conflict" /\ Settlement(t).lost = t.lost
  BY <1>1, AcknowledgedRecord, ConflictedRecord DEF Settlement, SameOperation, Entry
<1>3. CASE ~t.manual
  <2>1. Retention(t, r) = Attempted(t.saved, t.cause)
    BY <1>3 DEF Retention
  <2>2. QED
    BY <1>1, <1>2, <2>1, AttemptedRecord DEF SameOperation, Entry
<1>4. CASE t.manual /\ t.saved.status = "blocked"
  <2>1. Retention(t, r) = RetainedBlocked(t.saved, t.cause)
    BY <1>4 DEF Retention
  <2>2. QED
    BY <1>1, <1>2, <1>4, <2>1, RetainedRecord DEF SameOperation, Entry
<1>5. CASE t.manual /\ t.saved.status # "blocked"
  <2>1. Retention(t, r) = r
    BY <1>5 DEF Retention
  <2>2. QED
    BY <1>2, <2>1 DEF SameOperation
<1>6. QED
  BY <1>3, <1>4, <1>5

-----------------------------------------------------------------------------
(***************************************************************************)
(* What becomes of a task.                                                 *)
(***************************************************************************)
LEMMA SentTask ==
  ASSUME NEW r \in Entry, NEW i \in Nat \ {0}, NEW manual \in BOOLEAN
  PROVE  SendTask(r, i, manual) \in ActiveTask
  BY DEF SendTask, ActiveTask, Stages, Causes

LEMMA ConcludedTask ==
  ASSUME NEW t \in ActiveTask, NEW known, NEW version \in Nat
  PROVE  /\ Concluded(t, known, version) \in ActiveTask
         /\ Concluded(t, known, version).stage = "merged"
         /\ Concluded(t, known, version).version = version
         /\ Concluded(t, known, version).verdict = MergeStatus(known, t.saved.op)
         /\ Concluded(t, known, version).lost = ConflictFields(known, t.saved.op)
         /\ Concluded(t, known, version).saved = t.saved
         /\ Concluded(t, known, version).i = t.i
         /\ Concluded(t, known, version).auth = t.auth
<1>1. t.saved.op.kind \in Kinds /\ t.saved.op.fields \subseteq Fields
  BY DEF ActiveTask, Entry, WellFormed, Operation
<1>2. PICK verdict \in MergeStatuses : verdict = MergeStatus(known, t.saved.op)
  BY <1>1, MergeStatusType
<1>3. PICK lost \in SUBSET Fields : lost = ConflictFields(known, t.saved.op)
  BY <1>1, ConflictFieldsType
<1>4. PICK q : q = [t EXCEPT !.stage = "merged", !.version = version, !.verdict = verdict, !.lost = lost]
  OBVIOUS
<1>5. Concluded(t, known, version) = q
  BY <1>2, <1>3, <1>4 DEF Concluded
<1>6. q \in ActiveTask
  BY <1>4 DEF ActiveTask, Stages
<1>7. /\ q.stage = "merged" /\ q.version = version /\ q.verdict = verdict /\ q.lost = lost
      /\ q.saved = t.saved /\ q.i = t.i /\ q.auth = t.auth
  BY <1>4 DEF ActiveTask
<1>8. QED
  BY <1>2, <1>3, <1>5, <1>6, <1>7

\* Losing its authority changes nothing else of a task.
LEMMA TaskWithoutAuthority ==
  ASSUME NEW t \in ActiveTask \cup {NoTask}
  PROVE  LET q == WithoutAuthority(t) IN
         /\ q \in ActiveTask \cup {NoTask}
         /\ q.stage = t.stage
         /\ q.stage # "idle" => /\ ~q.auth /\ q.saved = t.saved /\ q.i = t.i /\ q.version = t.version
                                /\ q.verdict = t.verdict /\ q.lost = t.lost
<1>1. CASE t = NoTask
  BY <1>1 DEF WithoutAuthority, NoTask
<1>2. CASE t \in ActiveTask
  <2>1. t.stage # "idle"
    BY <1>2 DEF ActiveTask, Stages
  <2>2. PICK q : q = [t EXCEPT !.auth = FALSE]
    OBVIOUS
  <2>3. WithoutAuthority(t) = q
    BY <2>1, <2>2 DEF WithoutAuthority
  <2>4. q \in ActiveTask
    BY <1>2, <2>2 DEF ActiveTask
  <2>5. /\ q.stage = t.stage /\ ~q.auth /\ q.saved = t.saved /\ q.i = t.i /\ q.version = t.version
        /\ q.verdict = t.verdict /\ q.lost = t.lost
    BY <1>2, <2>2 DEF ActiveTask
  <2>6. QED
    BY <2>3, <2>4, <2>5
<1>3. QED
  BY <1>1, <1>2

LEMMA ActiveIsTyped ==
  ASSUME NEW t \in ActiveTask \cup {NoTask}
  PROVE  t.stage # "idle" <=> t \in ActiveTask
  BY DEF ActiveTask, NoTask, Stages

-----------------------------------------------------------------------------
(***************************************************************************)
(* Types.                                                                  *)
(***************************************************************************)
LEMMA TypesInit == Init => Types
<1> SUFFICES ASSUME Init PROVE Types
  OBVIOUS
<1>1. LogType
  BY OriginAssumption DEF Init, LogType
<1>2. JournalType
  BY DEF Init, JournalType
<1>3. PlacesType
  BY DEF Init, PlacesType
<1>4. TaskTyped
  BY DEF Init, TaskTyped
<1>5. EditTyped
  BY DEF Init, EditTyped, NoEdit
<1>6. SceneTyped
  BY SceneAssumption DEF Init, SceneTyped
<1>7. QED
  BY <1>1, <1>2, <1>3, <1>4, <1>5, <1>6 DEF Types

\* A fault adds one to faults and stays within the scene's.
LEMMA FaultTyped ==
  ASSUME SceneTyped, scene' = scene,
         faults' = faults \/ (faults < scene.faults /\ faults' = faults + 1)
  PROVE  SceneTyped'
<1>1. scene.faults \in Nat /\ faults \in 0..scene.faults
  BY SceneAssumption DEF SceneTyped
<1>2. faults' \in 0..scene.faults
  BY <1>1
<1>3. QED
  BY <1>2 DEF SceneTyped

\* The record i of d's journal becomes r.
WritesRecord(d, i, r) == journal' = [journal EXCEPT ![d] = [@ EXCEPT ![i] = r]]

LEMMA WritesTyped ==
  ASSUME JournalType, NEW d \in Devices, NEW i \in DOMAIN journal[d], NEW r \in Entry,
         WritesRecord(d, i, r)
  PROVE  /\ JournalType'
         /\ DOMAIN journal'[d] = DOMAIN journal[d]
         /\ journal'[d][i] = r
         /\ \A j \in DOMAIN journal[d] : j # i => journal'[d][j] = journal[d][j]
         /\ \A c \in Devices : c # d => journal'[c] = journal[c]
<1>1. journal[d] \in Seq(Entry)
  BY DEF JournalType
<1>2. PICK j : j = [journal[d] EXCEPT ![i] = r]
  OBVIOUS
<1>3. j \in Seq(Entry) /\ DOMAIN j = DOMAIN journal[d] /\ j[i] = r
  BY <1>1, <1>2
<1>4. \A k \in DOMAIN journal[d] : k # i => j[k] = journal[d][k]
  BY <1>2
<1>5. journal' = [journal EXCEPT ![d] = j]
  BY <1>2 DEF WritesRecord
<1>6. journal' \in [Devices -> Seq(Entry)] /\ journal'[d] = j
  BY <1>3, <1>5 DEF JournalType
<1>7. \A c \in Devices : c # d => journal'[c] = journal[c]
  BY <1>5 DEF JournalType
<1>8. QED
  BY <1>3, <1>4, <1>6, <1>7 DEF JournalType

\* The session's task becomes t.
TaskBecomes(s, t) == task' = [task EXCEPT ![s] = t]

LEMMA TaskBecomesTyped ==
  ASSUME TaskTyped, NEW s \in Sessions, NEW t \in ActiveTask \cup {NoTask}, TaskBecomes(s, t)
  PROVE  /\ TaskTyped' /\ task'[s] = t
         /\ \A r \in Sessions : r # s => task'[r] = task[r]
  BY DEF TaskTyped, TaskBecomes

LEMMA RecordOfJournal ==
  ASSUME JournalType, NEW d \in Devices, NEW i \in DOMAIN journal[d]
  PROVE  journal[d][i] \in Entry /\ i \in Nat \ {0} /\ journal[d] \in Seq(Entry)
  BY DEF JournalType

-----------------------------------------------------------------------------
(***************************************************************************)
(* What each step does to the task of its session.                         *)
(***************************************************************************)
\* A set of natural numbers has a least element: induction without a scheme.
LEMMA SomeLeast ==
  ASSUME NEW S \in SUBSET Nat, S # {}
  PROVE  \E n \in S : \A m \in S : n =< m
<1>1. PICK x \in S : \A y \in S : ~(<<y, x>> \in OpToRel(<, Nat))
  BY NatLessThanWellFounded, WFMin
<1>2. \A y \in S : ~(y < x)
  BY <1>1 DEF OpToRel
<1>3. QED
  BY <1>2

LEMMA LeastOfSome ==
  ASSUME NEW S \in SUBSET Nat, S # {}
  PROVE  Min(S) \in S
  BY SomeLeast DEF Min

LEMMA DispatchStep ==
  ASSUME Types, NEW s \in Sessions, Dispatch(s) \/ RetryBlocked(s)
  PROVE  \E t \in ActiveTask : \E i \in DOMAIN journal[DeviceOf[s]] :
           /\ TaskBecomes(s, t) /\ Healthy(s) /\ ~Active(s)
           /\ t.stage = "sent" /\ t.i = i /\ t.auth
           /\ t.saved = journal[DeviceOf[s]][i]
           /\ journal[DeviceOf[s]][i].status \in {"pending", "blocked"}
           /\ UNCHANGED <<log, done, journal, listener, seen, accepted, shown, queue, edit, faults>>
<1> DEFINE d == DeviceOf[s]
<1>1. d \in Devices
  BY DeviceAssumption
<1>2. ASSUME NEW i \in DOMAIN journal[d], NEW manual \in BOOLEAN, Send(s, i, manual),
             journal[d][i].status \in {"pending", "blocked"}
      PROVE  \E t \in ActiveTask :
               /\ TaskBecomes(s, t) /\ Healthy(s) /\ ~Active(s)
               /\ t.stage = "sent" /\ t.i = i /\ t.auth
               /\ t.saved = journal[d][i]
               /\ UNCHANGED <<log, done, journal, listener, seen, accepted, shown, queue, edit, faults>>
  <2>1. PICK t : t = SendTask(journal[d][i], i, manual)
    OBVIOUS
  <2>2. t \in ActiveTask
    BY <1>1, <2>1, RecordOfJournal, SentTask DEF Types
  <2>3. t.stage = "sent" /\ t.i = i /\ t.auth /\ t.saved = journal[d][i]
    BY <2>1 DEF SendTask
  <2>4. TaskBecomes(s, t)
    BY <1>2, <2>1 DEF Send, TaskBecomes
  <2>5. QED
    BY <1>2, <2>2, <2>3, <2>4 DEF Send, Active
<1>3. CASE Dispatch(s)
  <2>1. NextOperation(journal[d]) # 0 /\ Send(s, NextOperation(journal[d]), FALSE)
    BY <1>3 DEF Dispatch
  <2>2. Due(journal[d]) \in SUBSET Nat
    BY <1>1 DEF Due, Types, JournalType
  <2>3. NextOperation(journal[d]) \in Due(journal[d])
    BY <2>1, <2>2, LeastOfSome DEF NextOperation
  <2>4. PICK i \in DOMAIN journal[d] : i = NextOperation(journal[d]) /\ journal[d][i].status = "pending"
    BY <2>3 DEF Due
  <2>5. QED
    BY <1>2, <2>1, <2>4
<1>4. CASE RetryBlocked(s)
  <2>1. PICK i \in DOMAIN journal[d] : RetryEligible(journal[d][i]) /\ Send(s, i, TRUE)
    BY <1>4 DEF RetryBlocked
  <2>2. QED
    BY <1>2, <2>1 DEF RetryEligible
<1>5. QED
  BY <1>3, <1>4

\* A task in a stage of its own is a typed one.
LEMMA TaskType1 ==
  ASSUME Types, NEW s \in Sessions
  PROVE  /\ task[s] \in ActiveTask \cup {NoTask}
         /\ Active(s) => task[s] \in ActiveTask
  BY ActiveIsTyped DEF Types, TaskTyped, Active

LEMMA ConcludeStep ==
  ASSUME Types, NEW s \in Sessions, AbortLocally(s) \/ MergeAtDatabase(s), seen[s] \in DOMAIN log
  PROVE  \E t \in ActiveTask : \E known \in Entity :
           /\ TaskBecomes(s, t) /\ task[s].stage = "sent" /\ task[s] \in ActiveTask
           /\ t.stage = "merged" /\ t.saved = task[s].saved /\ t.i = task[s].i
           /\ t.auth = task[s].auth
           /\ t.verdict = MergeStatus(known, t.saved.op)
           /\ t.lost = ConflictFields(known, t.saved.op)
           /\ UNCHANGED <<journal, listener, seen, accepted, shown, queue, edit, faults>>
           /\ \/ /\ known = log[seen[s]] /\ ~Commits(known, t.saved.op)
                 /\ t.version = seen[s] /\ UNCHANGED <<log, done>>
              \/ /\ known = entity /\ t.version = Len(log')
                 /\ log' = IF Commits(known, t.saved.op) THEN Append(log, Merged(known, t.saved.op)) ELSE log
                 /\ done' = done \cup Canonical!Effects(known, t.saved.op)
<1>1. task[s].stage = "sent"
  BY DEF AbortLocally, MergeAtDatabase
<1>2. task[s] \in ActiveTask
  BY <1>1, TaskType1 DEF Active
<1>3. log \in Seq(Entity) /\ Len(log) \in DOMAIN log
  BY DEF Types, LogType
<1>4. CASE AbortLocally(s)
  <2>1. PICK known \in Entity : known = log[seen[s]]
    BY <1>3
  <2>2. seen[s] \in Nat
    BY DEF Types, PlacesType
  <2>3. PICK t : t = Concluded(task[s], known, seen[s])
    OBVIOUS
  <2>4. /\ t \in ActiveTask /\ t.stage = "merged" /\ t.version = seen[s]
        /\ t.verdict = MergeStatus(known, task[s].saved.op)
        /\ t.lost = ConflictFields(known, task[s].saved.op)
        /\ t.saved = task[s].saved /\ t.i = task[s].i /\ t.auth = task[s].auth
    BY <1>2, <2>2, <2>3, ConcludedTask
  <2>5. TaskBecomes(s, t)
    BY <1>4, <2>1, <2>3 DEF AbortLocally, TaskBecomes
  <2>6. ~Commits(known, t.saved.op) /\ UNCHANGED <<log, done>>
    BY <1>4, <2>1, <2>4 DEF AbortLocally, TaskOp
  <2>7. UNCHANGED <<journal, listener, seen, accepted, shown, queue, edit, faults>>
    BY <1>4 DEF AbortLocally
  <2>8. QED
    BY <1>1, <1>2, <2>1, <2>4, <2>5, <2>6, <2>7
<1>5. CASE MergeAtDatabase(s)
  <2>1. PICK known \in Entity : known = entity
    BY <1>3 DEF entity
  <2>2. log' = IF Commits(known, task[s].saved.op) THEN Append(log, Merged(known, task[s].saved.op)) ELSE log
    BY <1>5, <2>1 DEF MergeAtDatabase, MergeBase, TaskOp
  <2>3. PICK n \in Nat : n = Len(log')
    <3>1. CASE log' = log
      BY <1>3, <3>1
    <3>2. CASE log' = Append(log, Merged(known, task[s].saved.op))
      BY <1>3, <3>2
    <3>3. QED
      BY <2>2, <3>1, <3>2
  <2>4. PICK t : t = Concluded(task[s], known, n)
    OBVIOUS
  <2>5. /\ t \in ActiveTask /\ t.stage = "merged" /\ t.version = n
        /\ t.verdict = MergeStatus(known, task[s].saved.op)
        /\ t.lost = ConflictFields(known, task[s].saved.op)
        /\ t.saved = task[s].saved /\ t.i = task[s].i /\ t.auth = task[s].auth
    BY <1>2, <2>4, ConcludedTask
  <2>6. TaskBecomes(s, t)
    BY <1>5, <2>1, <2>3, <2>4 DEF MergeAtDatabase, MergeBase, TaskBecomes
  <2>7. done' = done \cup Canonical!Effects(known, t.saved.op)
    BY <1>5, <2>1, <2>5 DEF MergeAtDatabase, MergeBase, TaskOp
  <2>8. UNCHANGED <<journal, listener, seen, accepted, shown, queue, edit, faults>>
    BY <1>5 DEF MergeAtDatabase
  <2>9. QED
    BY <1>1, <1>2, <2>1, <2>2, <2>3, <2>5, <2>6, <2>7, <2>8
<1>6. QED
  BY <1>4, <1>5

\* t is the task, further on: about the same operation, with the same verdict.
Same(t, task0) ==
  /\ t.saved = task0.saved /\ t.i = task0.i /\ t.verdict = task0.verdict /\ t.lost = task0.lost

LEMMA FailStep ==
  ASSUME Types, NEW s \in Sessions, CallFails(s)
  PROVE  \E t \in ActiveTask :
           /\ TaskBecomes(s, t) /\ task[s].stage \in {"sent", "merged"} /\ task[s] \in ActiveTask
           /\ t.stage = "failing" /\ Same(t, task[s]) /\ t.auth = task[s].auth
           /\ UNCHANGED <<log, done, journal, listener, seen, accepted, shown, queue, edit>>
           /\ SceneTyped /\ faults < scene.faults /\ faults' = faults + 1
<1>1. task[s] \in ActiveTask
  BY TaskType1 DEF CallFails, Active
<1>2. PICK cause \in Causes :
        task' = [task EXCEPT ![s] = [@ EXCEPT !.stage = "failing", !.cause = cause]]
  BY DEF CallFails, Causes
<1>3. PICK t : t = [task[s] EXCEPT !.stage = "failing", !.cause = cause]
  OBVIOUS
<1>4. t \in ActiveTask
  BY <1>1, <1>3 DEF ActiveTask, Stages
<1>5. t.stage = "failing" /\ Same(t, task[s]) /\ t.auth = task[s].auth
  BY <1>1, <1>3 DEF ActiveTask, Same
<1>6. TaskBecomes(s, t)
  BY <1>2, <1>3 DEF TaskBecomes
<1>7. QED
  BY <1>1, <1>4, <1>5, <1>6 DEF CallFails, Types

LEMMA AnswerStep ==
  ASSUME Types, NEW s \in Sessions, Answer(s)
  PROVE  \E t \in ActiveTask :
           /\ TaskBecomes(s, t) /\ task[s].stage = "merged" /\ task[s] \in ActiveTask
           /\ task[s].version =< seen[s]
           /\ Same(t, task[s]) /\ t.auth = task[s].auth
           /\ UNCHANGED <<log, done, journal, listener, seen, accepted, shown, edit, faults>>
           /\ \/ t.stage = "failing" /\ UNCHANGED queue
              \/ /\ t.stage = "answered" /\ t.version \in {task[s].version, seen[s]}
                 /\ queue' = [queue EXCEPT ![s] = Append(@, Result)]
<1>1. task[s] \in ActiveTask
  BY TaskType1 DEF Answer, Active
<1>2. seen[s] \in Nat /\ task[s].version \in Nat
  BY <1>1 DEF Types, PlacesType, ActiveTask
<1>3. task[s].stage = "merged" /\ task[s].version =< seen[s]
  BY <1>2 DEF Answer
<1>4. UNCHANGED <<log, done, journal, listener, seen, accepted, shown, edit, faults>>
  BY DEF Answer
<1>5. CASE /\ task' = [task EXCEPT ![s] = [task[s] EXCEPT !.stage = "failing", !.cause = "unproven"]]
           /\ UNCHANGED queue
  <2>1. PICK t : t = [task[s] EXCEPT !.stage = "failing", !.cause = "unproven"]
    OBVIOUS
  <2>2. t \in ActiveTask
    BY <1>1, <2>1 DEF ActiveTask, Stages, Causes
  <2>3. t.stage = "failing" /\ Same(t, task[s]) /\ t.auth = task[s].auth
    BY <1>1, <2>1 DEF ActiveTask, Same
  <2>4. TaskBecomes(s, t)
    BY <1>5, <2>1 DEF TaskBecomes
  <2>5. QED
    BY <1>1, <1>3, <1>4, <1>5, <2>2, <2>3, <2>4
<1>6. CASE /\ task' = [task EXCEPT ![s] =
                [task[s] EXCEPT !.stage = "answered",
                                !.version = IF Conflicting(task[s].verdict) THEN @ ELSE seen[s]]]
           /\ queue' = [queue EXCEPT ![s] = Append(@, Result)]
  <2>1. PICK version \in {task[s].version, seen[s]} :
          version = IF Conflicting(task[s].verdict) THEN task[s].version ELSE seen[s]
    OBVIOUS
  <2>2. PICK t : t = [task[s] EXCEPT !.stage = "answered", !.version = version]
    OBVIOUS
  <2>3. version \in Nat
    BY <1>2
  <2>4. t \in ActiveTask
    BY <1>1, <2>2, <2>3 DEF ActiveTask, Stages
  <2>5. t.stage = "answered" /\ Same(t, task[s]) /\ t.auth = task[s].auth /\ t.version = version
    BY <1>1, <2>2 DEF ActiveTask, Same
  <2>6. TaskBecomes(s, t)
    BY <1>6, <2>1, <2>2 DEF TaskBecomes
  <2>7. QED
    BY <1>1, <1>3, <1>4, <1>6, <2>4, <2>5, <2>6
<1>7. QED
  BY <1>5, <1>6 DEF Answer

\* What an answer in its turn makes of the accepted version.
LEMMA AcceptResultStep ==
  ASSUME Types, NEW s \in Sessions, AcceptResult(s), task[s] \in ActiveTask
  PROVE  \E t \in ActiveTask \cup {NoTask} :
           /\ TaskBecomes(s, t)
           /\ Live(s) /\ queue[s] # <<>> /\ Head(queue[s]) = Result
           /\ queue' = [queue EXCEPT ![s] = Tail(@)]
           /\ UNCHANGED <<log, done, journal, listener, seen, shown, edit, faults>>
           /\ t = NoTask \/ (t.stage \in {"accepted", "failing"} /\ Same(t, task[s]))
           /\ \/ /\ task[s].auth
                 /\ accepted' = [accepted EXCEPT ![s] = AfterAccepting(@, task[s].version)]
              \/ UNCHANGED accepted /\ (t = NoTask \/ Healthy(s))
<1>1. /\ Live(s) /\ queue[s] # <<>> /\ Head(queue[s]) = Result
      /\ queue' = [queue EXCEPT ![s] = Tail(@)]
      /\ UNCHANGED <<log, done, journal, listener, seen, shown, edit, faults>>
  BY DEF AcceptResult
<1>2. CASE /\ task[s].auth
           /\ accepted' = [accepted EXCEPT ![s] = AfterAccepting(@, task[s].version)]
           /\ task' = [task EXCEPT ![s] =
                IF Trusted(accepted[s], task[s].version) THEN [task[s] EXCEPT !.stage = "accepted"]
                ELSE [task[s] EXCEPT !.stage = "failing", !.cause = "unproven"]]
  <2>1. PICK t : t = IF Trusted(accepted[s], task[s].version) THEN [task[s] EXCEPT !.stage = "accepted"]
                     ELSE [task[s] EXCEPT !.stage = "failing", !.cause = "unproven"]
    OBVIOUS
  <2>2. t \in ActiveTask /\ t.stage \in {"accepted", "failing"} /\ Same(t, task[s])
    <3>1. CASE t = [task[s] EXCEPT !.stage = "accepted"]
      BY <3>1 DEF ActiveTask, Stages, Same
    <3>2. CASE t = [task[s] EXCEPT !.stage = "failing", !.cause = "unproven"]
      BY <3>2 DEF ActiveTask, Stages, Causes, Same
    <3>3. QED
      BY <2>1, <3>1, <3>2
  <2>3. TaskBecomes(s, t)
    BY <1>2, <2>1 DEF TaskBecomes
  <2>4. QED
    BY <1>1, <1>2, <2>2, <2>3
<1>3. CASE /\ Healthy(s) /\ UNCHANGED accepted
           /\ task' = [task EXCEPT ![s] = [task[s] EXCEPT !.stage = "accepted", !.auth = TRUE]]
  <2>1. PICK t : t = [task[s] EXCEPT !.stage = "accepted", !.auth = TRUE]
    OBVIOUS
  <2>2. t \in ActiveTask /\ t.stage \in {"accepted", "failing"} /\ Same(t, task[s])
    BY <2>1 DEF ActiveTask, Stages, Same
  <2>3. TaskBecomes(s, t)
    BY <1>3, <2>1 DEF TaskBecomes
  <2>4. QED
    BY <1>1, <1>3, <2>2, <2>3
<1>4. CASE UNCHANGED accepted /\ task' = [task EXCEPT ![s] = NoTask]
  <2>1. TaskBecomes(s, NoTask)
    BY <1>4 DEF TaskBecomes
  <2>2. QED
    BY <1>1, <1>4, <2>1
<1>5. QED
  BY <1>2, <1>3, <1>4 DEF AcceptResult

LEMMA ReadStep ==
  ASSUME Types, NEW s \in Sessions, ReadRecord(s), task[s].i \in DOMAIN journal[DeviceOf[s]]
  PROVE  \E t \in ActiveTask \cup {NoTask} :
           /\ TaskBecomes(s, t) /\ Live(s)
           /\ task[s].stage \in {"accepted", "failing"} /\ task[s] \in ActiveTask
           /\ UNCHANGED <<log, done, journal, listener, seen, accepted, shown, queue, edit, faults>>
           /\ \/ t = NoTask
              \/ /\ t.stage = IF task[s].stage = "accepted" THEN "settling" ELSE "retaining"
                 /\ t.saved = journal[DeviceOf[s]][t.i] /\ t.i = task[s].i
                 /\ t.verdict = task[s].verdict /\ t.lost = task[s].lost
                 /\ t.auth /\ task[s].auth
<1>1. task[s] \in ActiveTask
  BY TaskType1 DEF ReadRecord, Active
<1>2. PICK r \in Entry : r = journal[DeviceOf[s]][task[s].i]
  BY DeviceAssumption, RecordOfJournal DEF Types
<1>3. /\ Live(s) /\ task[s].stage \in {"accepted", "failing"}
      /\ UNCHANGED <<log, done, journal, listener, seen, accepted, shown, queue, edit, faults>>
  BY DEF ReadRecord
<1>4. CASE ~task[s].auth
  <2>1. TaskBecomes(s, NoTask)
    BY <1>4 DEF ReadRecord, TaskBecomes
  <2>2. QED
    BY <1>1, <1>3, <2>1
<1>5. CASE task[s].auth
  <2>1. PICK stage \in {"settling", "retaining"} :
          stage = IF task[s].stage = "accepted" THEN "settling" ELSE "retaining"
    OBVIOUS
  <2>2. PICK t : t = [task[s] EXCEPT !.saved = r, !.stage = stage]
    OBVIOUS
  <2>3. t \in ActiveTask
    BY <1>1, <2>2 DEF ActiveTask, Stages
  <2>4. /\ t.stage = stage /\ t.saved = r /\ t.i = task[s].i
        /\ t.verdict = task[s].verdict /\ t.lost = task[s].lost /\ t.auth
    BY <1>1, <1>5, <2>2 DEF ActiveTask
  <2>5. TaskBecomes(s, t)
    BY <1>2, <1>5, <2>1, <2>2 DEF ReadRecord, TaskBecomes
  <2>6. QED
    BY <1>1, <1>2, <1>3, <1>5, <2>1, <2>3, <2>4, <2>5
<1>6. QED
  BY <1>4, <1>5

LEMMA WriteStep ==
  ASSUME Types, NEW s \in Sessions, WriteRecord(s), OfJournal(s)
  PROVE  /\ TaskBecomes(s, NoTask)
         /\ task[s].stage \in {"settling", "retaining"} /\ task[s] \in ActiveTask
         /\ UNCHANGED <<log, done, listener, seen, accepted, queue, edit, faults>>
         /\ \/ UNCHANGED journal
            \/ /\ Live(s)
               /\ \E r \in Entry :
                    /\ WritesRecord(DeviceOf[s], task[s].i, r)
                    /\ SameOperation(journal[DeviceOf[s]][task[s].i], r)
                    /\ \/ /\ task[s].stage = "settling"
                          /\ IF task[s].verdict \in {"applied", "idempotent"}
                               THEN r.status = "acknowledged"
                               ELSE r.status = "conflict" /\ r.lost = task[s].lost
                       \/ r.status \in {"pending", "blocked"}
                       \/ r = journal[DeviceOf[s]][task[s].i]
<1> DEFINE d == DeviceOf[s]
<1>1. task[s] \in ActiveTask /\ d \in Devices
  BY TaskType1, DeviceAssumption DEF WriteRecord, Active
<1>2. PICK old \in Entry : old = journal[d][task[s].i]
  BY <1>1, RecordOfJournal DEF Types, OfJournal, Concerns
<1>3. /\ TaskBecomes(s, NoTask) /\ task[s].stage \in {"settling", "retaining"}
      /\ UNCHANGED <<log, done, listener, seen, accepted, queue, edit, faults>>
  BY DEF WriteRecord, TaskBecomes
<1>4. task[s].saved.op = old.op /\ task[s].saved.basis = old.basis
  BY <1>2 DEF OfJournal, Concerns
<1>5. CASE Live(s) /\ task[s].stage = "settling"
  <2>1. PICK r : r = Settlement(task[s])
    OBVIOUS
  <2>2. /\ r \in Entry /\ SameOperation(old, r)
        /\ IF task[s].verdict \in {"applied", "idempotent"}
             THEN r.status = "acknowledged"
             ELSE r.status = "conflict" /\ r.lost = task[s].lost
    BY <1>1, <1>4, <2>1, WrittenRecord
  <2>3. WritesRecord(d, task[s].i, r)
    BY <1>5, <2>1 DEF WriteRecord, Writable, WritesRecord
  <2>4. QED
    BY <1>1, <1>2, <1>3, <1>5, <2>2, <2>3
<1>6. CASE Live(s) /\ task[s].stage = "retaining"
  <2>1. PICK r : r = Retention(task[s], old)
    OBVIOUS
  <2>2. /\ r \in Entry /\ SameOperation(old, r)
        /\ r.status \in {"pending", "blocked"} \/ r = old
    BY <1>1, <1>4, <2>1, WrittenRecord
  <2>3. WritesRecord(d, task[s].i, r)
    <3>1. journal' = [journal EXCEPT ![d][task[s].i] = Retention(task[s], @)]
      BY <1>6 DEF WriteRecord, Writable
    <3>2. QED
      BY <1>1, <1>2, <2>1, <3>1 DEF WritesRecord, Types, JournalType
  <2>4. QED
    BY <1>1, <1>2, <1>3, <1>6, <2>2, <2>3
<1>7. CASE ~Live(s)
  BY <1>1, <1>3, <1>7 DEF WriteRecord, Writable
<1>8. QED
  BY <1>3, <1>5, <1>6, <1>7

-----------------------------------------------------------------------------
(***************************************************************************)
(* What the steps do to the edits and to the journals.                     *)
(***************************************************************************)
LEMMA PrepareStep ==
  ASSUME Types, NEW s \in Sessions, PrepareEdit(s) \/ PrepareReapply(s)
  PROVE  /\ Healthy(s) /\ edit[s].phase = "none"
         /\ UNCHANGED <<log, done, journal, listener, seen, accepted, shown, queue, task, faults>>
         /\ \E e :
              /\ edit' = [edit EXCEPT ![s] = e]
              /\ e.phase = "prepared" /\ WellFormed(e.op) /\ e.basis = accepted[s]
              /\ e.op.id \notin Ids
              /\ e.resolves = 0 \/ e.resolves \in DOMAIN journal[DeviceOf[s]]
<1> DEFINE prepared(o, k) == [ phase |-> "prepared", op |-> o, value |-> Merged(shown[s], o),
                               basis |-> accepted[s], resolves |-> k ]
<1>1. ASSUME NEW o, NEW k, Prepare(s, o, k), o.id \notin Ids,
             k = 0 \/ k \in DOMAIN journal[DeviceOf[s]]
      PROVE  /\ UNCHANGED <<log, done, journal, listener, seen, accepted, shown, queue, task, faults>>
             /\ \E e :
                  /\ edit' = [edit EXCEPT ![s] = e]
                  /\ e.phase = "prepared" /\ WellFormed(e.op) /\ e.basis = accepted[s]
                  /\ e.op.id \notin Ids
                  /\ e.resolves = 0 \/ e.resolves \in DOMAIN journal[DeviceOf[s]]
  <2>1. PICK e : e = prepared(o, k)
    OBVIOUS
  <2>2. edit' = [edit EXCEPT ![s] = e]
    BY <1>1, <2>1 DEF Prepare
  <2>3. e.phase = "prepared" /\ e.op = o /\ e.basis = accepted[s] /\ e.resolves = k
    BY <2>1
  <2>4. QED
    BY <1>1, <2>2, <2>3 DEF Prepare
<1>2. Healthy(s) /\ edit[s].phase = "none"
  BY DEF PrepareEdit, PrepareReapply, MayPrepare
<1>3. CASE PrepareEdit(s)
  <2>1. PICK id \in OpIds \ Ids, kind \in Kinds, patch \in scene.patches :
          Prepare(s, NewOperation(id, kind, shown[s], patch, 0), 0)
    BY <1>3 DEF PrepareEdit
  <2>2. NewOperation(id, kind, shown[s], patch, 0).id = id
    BY DEF NewOperation
  <2>3. QED
    BY <1>1, <1>2, <2>1, <2>2
<1>4. CASE PrepareReapply(s)
  <2>1. PICK id \in OpIds \ Ids, i \in DOMAIN journal[DeviceOf[s]] :
          LET r == journal[DeviceOf[s]][i] IN
          Prepare(s, NewOperation(id, "patch", shown[s],
                    [f \in Fields |-> IF f \in r.lost THEN r.op.values[f] ELSE NoValue], 0), i)
    BY <1>4 DEF PrepareReapply
  <2>2. PICK o : o = NewOperation(id, "patch", shown[s],
                       [f \in Fields |-> IF f \in journal[DeviceOf[s]][i].lost
                                           THEN journal[DeviceOf[s]][i].op.values[f] ELSE NoValue], 0)
    OBVIOUS
  <2>3. o.id = id
    BY <2>2 DEF NewOperation
  <2>4. Prepare(s, o, i)
    BY <2>1, <2>2
  <2>5. QED
    BY <1>1, <1>2, <2>1, <2>3, <2>4
<1>5. QED
  BY <1>3, <1>4

LEMMA CommitStep ==
  ASSUME Types, NEW s \in Sessions, CommitEdit(s)
  PROVE  /\ edit[s].phase = "prepared"
         /\ UNCHANGED <<log, done, listener, seen, accepted, queue, task, faults>>
         /\ \/ UNCHANGED journal
            \/ journal' = [journal EXCEPT ![DeviceOf[s]] = Append(@, Queued(edit[s].op, edit[s].basis))]
         /\ \E e : /\ edit' = [edit EXCEPT ![s] = e]
                   /\ \/ e.phase = "none"
                      \/ /\ e.phase = "resolving" /\ e.resolves = edit[s].resolves
                         /\ edit[s].resolves # 0
<1> DEFINE d == DeviceOf[s]
<1>1. /\ edit[s].phase = "prepared"
      /\ UNCHANGED <<log, done, listener, seen, accepted, queue, task, faults>>
  BY DEF CommitEdit
<1>2. NoEdit.phase = "none"
  BY DEF NoEdit
<1>3. CASE Healthy(s)
  <2>1. /\ journal' = [journal EXCEPT ![d] = Enqueued(@, edit[s].op, edit[s].basis)]
        /\ edit' = [edit EXCEPT ![s] = IF edit[s].resolves = 0 THEN NoEdit
                                       ELSE [phase |-> "resolving", resolves |-> edit[s].resolves]]
    BY <1>3 DEF CommitEdit
  <2>2. \/ UNCHANGED journal
        \/ journal' = [journal EXCEPT ![d] = Append(@, Queued(edit[s].op, edit[s].basis))]
    <3>1. d \in Devices /\ journal = [c \in Devices |-> journal[c]]
      BY DeviceAssumption DEF Types, JournalType
    <3>2. CASE edit[s].op \in OpsIn(journal[d])
      BY <2>1, <3>1, <3>2 DEF Enqueued
    <3>3. CASE edit[s].op \notin OpsIn(journal[d])
      BY <2>1, <3>1, <3>3 DEF Enqueued
    <3>4. QED
      BY <3>2, <3>3
  <2>3. \E e : /\ edit' = [edit EXCEPT ![s] = e]
               /\ \/ e.phase = "none"
                  \/ /\ e.phase = "resolving" /\ e.resolves = edit[s].resolves
                     /\ edit[s].resolves # 0
    <3>1. CASE edit[s].resolves = 0
      BY <1>2, <2>1, <3>1
    <3>2. CASE edit[s].resolves # 0
      <4>1. PICK e : e = [phase |-> "resolving", resolves |-> edit[s].resolves]
        OBVIOUS
      <4>2. e.phase = "resolving" /\ e.resolves = edit[s].resolves
        BY <4>1
      <4>3. edit' = [edit EXCEPT ![s] = e]
        BY <2>1, <3>2, <4>1
      <4>4. QED
        BY <3>2, <4>2, <4>3
    <3>3. QED
      BY <3>1, <3>2
  <2>4. QED
    BY <1>1, <2>2, <2>3
<1>4. CASE ~Healthy(s)
  <2>1. UNCHANGED journal /\ edit' = [edit EXCEPT ![s] = NoEdit]
    BY <1>4 DEF CommitEdit
  <2>2. QED
    BY <1>1, <1>2, <2>1
<1>5. QED
  BY <1>3, <1>4

\* A conflict is resolved, or the backoff of an attempt ends.
LEMMA ResolveStep ==
  ASSUME Types, NEW s \in Sessions, AcceptConflict(s) \/ ResolveReapplied(s),
         edit[s].phase = "resolving" => edit[s].resolves \in DOMAIN journal[DeviceOf[s]]
  PROVE  /\ UNCHANGED <<log, done, listener, seen, accepted, shown, queue, task, faults>>
         /\ Live(s)
         /\ \E i \in DOMAIN journal[DeviceOf[s]] : \E r \in Entry :
              /\ r = Resolved(journal[DeviceOf[s]][i])
              /\ WritesRecord(DeviceOf[s], i, r)
              /\ SameOperation(journal[DeviceOf[s]][i], r)
         /\ UNCHANGED edit \/ (edit' = [edit EXCEPT ![s] = NoEdit])
<1> DEFINE d == DeviceOf[s]
<1>1. d \in Devices
  BY DeviceAssumption
<1>2. ASSUME NEW i \in DOMAIN journal[d], journal' = [journal EXCEPT ![d][i] = Resolved(@)]
      PROVE  \E r \in Entry : /\ r = Resolved(journal[d][i])
                              /\ WritesRecord(d, i, r)
                              /\ SameOperation(journal[d][i], r)
  <2>1. PICK old \in Entry : old = journal[d][i]
    BY <1>1, RecordOfJournal DEF Types
  <2>2. PICK r : r = Resolved(old)
    OBVIOUS
  <2>3. r \in Entry /\ SameOperation(old, r)
    BY <2>2, ResolvedRecord DEF Entry, SameOperation
  <2>4. WritesRecord(d, i, r)
    BY <1>1, <1>2, <2>1, <2>2 DEF WritesRecord, Types, JournalType
  <2>5. QED
    BY <2>1, <2>2, <2>3, <2>4
<1>3. CASE AcceptConflict(s)
  BY <1>2, <1>3 DEF AcceptConflict, Live, Healthy, Listening
<1>4. CASE ResolveReapplied(s)
  <2>1. edit[s].resolves \in DOMAIN journal[d]
    BY <1>4 DEF ResolveReapplied
  <2>2. journal' = [journal EXCEPT ![d][edit[s].resolves] = Resolved(@)]
    BY <1>4 DEF ResolveReapplied
  <2>3. QED
    BY <1>2, <1>4, <2>1, <2>2 DEF ResolveReapplied, Writable
<1>5. QED
  BY <1>3, <1>4

LEMMA BackoffStep ==
  ASSUME Types, NEW d \in Devices, BackoffEnds(d)
  PROVE  /\ UNCHANGED <<log, done, listener, seen, accepted, shown, queue, task, edit, faults>>
         /\ \E i \in DOMAIN journal[d] : \E r \in Entry :
              /\ WritesRecord(d, i, r) /\ SameOperation(journal[d][i], r)
              /\ r.status = "pending" /\ journal[d][i].status = "pending"
<1>1. PICK i \in DOMAIN journal[d] :
        /\ journal[d][i].status = "pending"
        /\ journal' = [journal EXCEPT ![d][i].due = TRUE]
  BY DEF BackoffEnds
<1>2. PICK old \in Entry : old = journal[d][i]
  BY RecordOfJournal DEF Types
<1>3. PICK r : r = [old EXCEPT !.due = TRUE]
  OBVIOUS
<1>4. r \in Record /\ SameOperation(old, r) /\ r.status = old.status
  BY <1>3 DEF Entry, Record, SameOperation
<1>5. r \in Entry
  BY <1>4 DEF Entry, SameOperation
<1>6. WritesRecord(d, i, r)
  BY <1>1, <1>2, <1>3 DEF WritesRecord, Types, JournalType
<1>7. QED
  BY <1>1, <1>2, <1>4, <1>5, <1>6 DEF BackoffEnds

\* The listener speaks, fails or goes away: the task goes on without authority.
LEMMA ListenerStep ==
  ASSUME Types, NEW s \in Sessions,
         HearVersion(s) \/ HearOther(s) \/ ListenerFails(s) \/ Stop(s)
  PROVE  \E t \in ActiveTask \cup {NoTask} :
           /\ TaskBecomes(s, t) /\ Live(s)
           /\ \/ t = NoTask
              \/ /\ task[s] \in ActiveTask /\ t \in ActiveTask /\ t.stage = task[s].stage /\ ~t.auth
                 /\ Same(t, task[s]) /\ t.version = task[s].version
           /\ UNCHANGED <<log, done, journal>>
           /\ faults' = faults \/ (faults < scene.faults /\ faults' = faults + 1)
<1>1. task[s] \in ActiveTask \cup {NoTask}
  BY TaskType1
<1>2. PICK w : w = WithoutAuthority(task[s])
  OBVIOUS
<1>3. /\ w \in ActiveTask \cup {NoTask}
      /\ \/ w = NoTask
         \/ /\ task[s] \in ActiveTask /\ w \in ActiveTask /\ w.stage = task[s].stage /\ ~w.auth
            /\ Same(w, task[s]) /\ w.version = task[s].version
  BY <1>1, <1>2, TaskWithoutAuthority, ActiveIsTyped DEF Same
<1>4. /\ UNCHANGED <<log, done, journal>> /\ Live(s)
      /\ faults' = faults \/ (faults < scene.faults /\ faults' = faults + 1)
  BY DEF HearVersion, HearOther, Hear, ListenerFails, Stop, Live, Listening
<1>5. TaskBecomes(s, w) \/ TaskBecomes(s, NoTask)
  <2>1. CASE HearVersion(s) \/ HearOther(s)
    BY <1>2, <2>1 DEF HearVersion, HearOther, Hear, TaskBecomes
  <2>2. CASE ListenerFails(s)
    BY <1>2, <2>2 DEF ListenerFails, TaskBecomes
  <2>3. CASE Stop(s)
    <3>1. CASE task[s].stage \in {"sent", "settling", "retaining"}
      BY <1>2, <2>3, <3>1 DEF Stop, TaskBecomes
    <3>2. CASE task[s].stage \notin {"sent", "settling", "retaining"}
      BY <2>3, <3>2 DEF Stop, TaskBecomes
    <3>3. QED
      BY <3>1, <3>2
  <2>4. QED
    BY <2>1, <2>2, <2>3
<1>6. QED
  BY <1>3, <1>4, <1>5

-----------------------------------------------------------------------------
(***************************************************************************)
(* The steps of all sessions together.                                     *)
(***************************************************************************)
ListenerMoves(s) == HearVersion(s) \/ HearOther(s) \/ ListenerFails(s) \/ Stop(s)
Prepares(s)      == PrepareEdit(s) \/ PrepareReapply(s)
Resolves(s)      == AcceptConflict(s) \/ ResolveReapplied(s)
Sends(s)         == Dispatch(s) \/ RetryBlocked(s)
Concludes(s)     == AbortLocally(s) \/ MergeAtDatabase(s)

LEMMA StepKinds ==
  ASSUME Types, Next
  PROVE  /\ scene' = scene
         /\ \/ \E s \in Sessions :
                 \/ Start(s) \/ ListenerMoves(s) \/ AcceptVersion(s)
                 \/ Prepares(s) \/ CommitEdit(s) \/ Resolves(s)
                 \/ Sends(s) \/ Concludes(s) \/ CallFails(s) \/ Answer(s)
                 \/ AcceptResult(s) \/ ReadRecord(s) \/ WriteRecord(s)
            \/ \E d \in Devices : BackoffEnds(d)
<1>1. scene.sessions \subseteq Sessions
  BY SceneAssumption DEF Types, SceneTyped
<1>2. QED
  BY <1>1 DEF Next, SessionStep, UserStep, FaultStep, ListenerMoves, Prepares, Resolves, Sends, Concludes

\* What the layers say of a task in the stages that read its place or its record.
LEMMA TaskHolds ==
  ASSUME Types, Delivery, Dispatched, NEW s \in Sessions
  PROVE  /\ Active(s) => OfJournal(s) /\ seen[s] \in DOMAIN log /\ task[s] \in ActiveTask
         /\ AcceptResult(s) => task[s] \in ActiveTask /\ task[s].stage = "answered"
<1>1. Active(s) => OfJournal(s) /\ task[s] \in ActiveTask
  BY TaskType1 DEF Dispatched
<1>2. seen[s] \in Nat /\ queue[s] \in Seq(Nat) /\ log \in Seq(Entity)
  BY DEF Types, PlacesType, LogType
<1>3. Active(s) => seen[s] > 0
  BY DEF Delivery, Delivered, Active
<1>4. seen[s] =< Len(log)
  BY DEF Delivery, Delivered
<1>5. seen[s] > 0 => seen[s] \in DOMAIN log
  BY <1>2, <1>4
<1>6. ASSUME AcceptResult(s) PROVE task[s] \in ActiveTask /\ task[s].stage = "answered"
  <2>1. queue[s] # <<>> /\ queue[s][1] = Result
    BY <1>2, <1>6 DEF AcceptResult
  <2>2. 1 \in DOMAIN queue[s]
    BY <1>2, <2>1
  <2>3. task[s].stage = "answered"
    BY <2>1, <2>2 DEF Delivery, Delivered, OneAnswer
  <2>4. QED
    BY <1>1, <2>3 DEF Active
<1>7. QED
  BY <1>1, <1>3, <1>5, <1>6

LEMMA LogStep ==
  ASSUME Types, Delivery, Dispatched, [Next]_<<scene, vars>>
  PROVE  /\ \/ log' = log
            \/ \E o : WellFormed(o) /\ Commits(entity, o) /\ log' = Append(log, Merged(entity, o))
         /\ LogType'
         /\ DOMAIN log \subseteq DOMAIN log'
         /\ \A i \in DOMAIN log : log'[i] = log[i]
<1>1. log \in Seq(Entity) /\ log # <<>> /\ entity \in Entity
  BY DEF Types, LogType, entity
<1>2. log' = log \/ \E o : WellFormed(o) /\ Commits(entity, o) /\ log' = Append(log, Merged(entity, o))
  <2>1. ASSUME NEW s \in Sessions, Concludes(s)
        PROVE  log' = log \/ \E o : WellFormed(o) /\ Commits(entity, o) /\ log' = Append(log, Merged(entity, o))
    <3>1. Active(s)
      BY <2>1 DEF Concludes, AbortLocally, MergeAtDatabase, Active
    <3>2. seen[s] \in DOMAIN log
      BY <3>1, TaskHolds
    <3>3. PICK t \in ActiveTask, known \in Entity :
            \/ log' = log
            \/ /\ known = entity
               /\ log' = IF Commits(known, t.saved.op) THEN Append(log, Merged(known, t.saved.op)) ELSE log
      BY <2>1, <3>2, ConcludeStep DEF Concludes
    <3>4. WellFormed(t.saved.op)
      BY DEF ActiveTask, Entry
    <3>5. QED
      BY <3>3, <3>4
  <2>2. ASSUME NEW s \in Sessions,
               \/ Start(s) \/ ListenerMoves(s) \/ AcceptVersion(s)
               \/ Prepares(s) \/ CommitEdit(s) \/ Resolves(s)
               \/ Sends(s) \/ CallFails(s) \/ Answer(s)
               \/ AcceptResult(s) \/ ReadRecord(s) \/ WriteRecord(s)
        PROVE  log' = log
    <3>1. CASE Start(s) \/ AcceptVersion(s) \/ CommitEdit(s) \/ CallFails(s) \/ Answer(s)
      BY <3>1 DEF Start, AcceptVersion, CommitEdit, CallFails, Answer
    <3>2. CASE AcceptResult(s) \/ ReadRecord(s) \/ WriteRecord(s)
      BY <3>2 DEF AcceptResult, ReadRecord, WriteRecord
    <3>3. CASE ListenerMoves(s)
      BY <3>3 DEF ListenerMoves, HearVersion, HearOther, Hear, ListenerFails, Stop
    <3>4. CASE Prepares(s)
      BY <3>4, PrepareStep DEF Prepares
    <3>5. CASE Resolves(s)
      BY <3>5 DEF Resolves, AcceptConflict, ResolveReapplied
    <3>6. CASE Sends(s)
      BY <3>6, DispatchStep DEF Sends
    <3>7. QED
      BY <2>2, <3>1, <3>2, <3>3, <3>4, <3>5, <3>6
  <2>3. ASSUME NEW d \in Devices, BackoffEnds(d) PROVE log' = log
    BY <2>3 DEF BackoffEnds
  <2>4. CASE UNCHANGED <<scene, vars>>
    BY <2>4 DEF vars
  <2>5. QED
    BY <2>1, <2>2, <2>3, <2>4, StepKinds
<1>3. CASE log' = log
  BY <1>1, <1>3 DEF LogType
<1>4. ASSUME NEW o, WellFormed(o), Commits(entity, o), log' = Append(log, Merged(entity, o))
      PROVE  /\ LogType' /\ DOMAIN log \subseteq DOMAIN log'
             /\ \A i \in DOMAIN log : log'[i] = log[i]
  <2>1. PICK n \in Entity : n = Merged(entity, o)
    BY <1>1, <1>4, MergeType
  <2>2. log' = Append(log, n)
    BY <1>4, <2>1
  <2>3. log' \in Seq(Entity) /\ log' # <<>>
    BY <1>1, <2>2
  <2>4. DOMAIN log \subseteq DOMAIN log' /\ \A i \in DOMAIN log : log'[i] = log[i]
    BY <1>1, <2>2
  <2>5. QED
    BY <2>3, <2>4 DEF LogType
<1>5. QED
  BY <1>2, <1>3, <1>4

\* Steps that leave the journals alone.
LEMMA JournalRests ==
  ASSUME Types, NEW s \in Sessions,
         \/ Start(s) \/ ListenerMoves(s) \/ AcceptVersion(s) \/ Prepares(s)
         \/ Sends(s) \/ Concludes(s) \/ CallFails(s) \/ Answer(s)
         \/ AcceptResult(s) \/ ReadRecord(s)
  PROVE  UNCHANGED journal
<1>1. CASE Start(s) \/ AcceptVersion(s) \/ CallFails(s) \/ Answer(s)
  BY <1>1 DEF Start, AcceptVersion, CallFails, Answer
<1>2. CASE AcceptResult(s) \/ ReadRecord(s)
  BY <1>2 DEF AcceptResult, ReadRecord
<1>3. CASE ListenerMoves(s)
  BY <1>3 DEF ListenerMoves, HearVersion, HearOther, Hear, ListenerFails, Stop
<1>4. CASE Prepares(s)
  BY <1>4, PrepareStep DEF Prepares
<1>5. CASE Concludes(s)
  BY <1>5 DEF Concludes, AbortLocally, MergeAtDatabase
<1>6. CASE Sends(s)
  BY <1>6, DispatchStep DEF Sends
<1>7. QED
  BY <1>1, <1>2, <1>3, <1>4, <1>5, <1>6

\* A journal keeps its records' operations and grows by prepared edits only.
LEMMA JournalStep ==
  ASSUME Types, Delivery, Dispatched, Retained, [Next]_<<scene, vars>>
  PROVE  \/ UNCHANGED journal
         \/ \E d \in Devices : \E i \in DOMAIN journal[d], r \in Entry :
              WritesRecord(d, i, r) /\ SameOperation(journal[d][i], r)
         \/ \E s \in Sessions :
              /\ CommitEdit(s) /\ edit[s].phase = "prepared"
              /\ journal' = [journal EXCEPT ![DeviceOf[s]] = Append(@, Queued(edit[s].op, edit[s].basis))]
<1>1. ASSUME NEW s \in Sessions, WriteRecord(s)
      PROVE  \/ UNCHANGED journal
             \/ \E d \in Devices : \E i \in DOMAIN journal[d], r \in Entry :
                  WritesRecord(d, i, r) /\ SameOperation(journal[d][i], r)
  <2>1. Active(s)
    BY <1>1 DEF WriteRecord, Active
  <2>2. OfJournal(s) /\ task[s].i \in DOMAIN journal[DeviceOf[s]] /\ DeviceOf[s] \in Devices
    BY <2>1, TaskHolds, DeviceAssumption DEF OfJournal, Concerns
  <2>3. QED
    BY <1>1, <2>2, WriteStep
<1>2. ASSUME NEW s \in Sessions, Resolves(s)
      PROVE  \E d \in Devices : \E i \in DOMAIN journal[d], r \in Entry :
                  WritesRecord(d, i, r) /\ SameOperation(journal[d][i], r)
  BY <1>2, ResolveStep, DeviceAssumption DEF Retained, EditKept, Resolves
<1>3. ASSUME NEW d \in Devices, BackoffEnds(d)
      PROVE  \E i \in DOMAIN journal[d], r \in Entry :
                  WritesRecord(d, i, r) /\ SameOperation(journal[d][i], r)
  BY <1>3, BackoffStep
<1>4. ASSUME NEW s \in Sessions, CommitEdit(s)
      PROVE  \/ UNCHANGED journal
             \/ /\ CommitEdit(s) /\ edit[s].phase = "prepared"
                /\ journal' = [journal EXCEPT ![DeviceOf[s]] = Append(@, Queued(edit[s].op, edit[s].basis))]
  BY <1>4, CommitStep
<1>5. ASSUME NEW s \in Sessions,
               \/ Start(s) \/ ListenerMoves(s) \/ AcceptVersion(s) \/ Prepares(s)
               \/ Sends(s) \/ Concludes(s) \/ CallFails(s) \/ Answer(s)
               \/ AcceptResult(s) \/ ReadRecord(s)
      PROVE  UNCHANGED journal
  BY <1>5, JournalRests
<1>6. CASE UNCHANGED <<scene, vars>>
  BY <1>6 DEF vars
<1>7. QED
  BY <1>1, <1>2, <1>3, <1>4, <1>5, <1>6, StepKinds

LEMMA JournalGrows ==
  ASSUME Types, Delivery, Dispatched, Retained, [Next]_<<scene, vars>>
  PROVE  /\ JournalType'
         /\ \A d \in Devices : \A i \in DOMAIN journal[d] :
              i \in DOMAIN journal'[d] /\ SameOperation(journal[d][i], journal'[d][i])
<1>1. CASE UNCHANGED journal
  BY <1>1 DEF Types, JournalType, SameOperation
<1>2. ASSUME NEW d \in Devices, NEW i \in DOMAIN journal[d], NEW r \in Entry,
             WritesRecord(d, i, r), SameOperation(journal[d][i], r)
      PROVE  /\ JournalType'
             /\ \A c \in Devices : \A k \in DOMAIN journal[c] :
                  k \in DOMAIN journal'[c] /\ SameOperation(journal[c][k], journal'[c][k])
  <2>1. /\ JournalType'
        /\ DOMAIN journal'[d] = DOMAIN journal[d]
        /\ journal'[d][i] = r
        /\ \A j \in DOMAIN journal[d] : j # i => journal'[d][j] = journal[d][j]
        /\ \A c \in Devices : c # d => journal'[c] = journal[c]
    BY <1>2, WritesTyped DEF Types
  <2>2. QED
    BY <1>2, <2>1 DEF SameOperation
<1>3. ASSUME NEW s \in Sessions, edit[s].phase = "prepared",
             journal' = [journal EXCEPT ![DeviceOf[s]] = Append(@, Queued(edit[s].op, edit[s].basis))]
      PROVE  /\ JournalType'
             /\ \A c \in Devices : \A k \in DOMAIN journal[c] :
                  k \in DOMAIN journal'[c] /\ SameOperation(journal[c][k], journal'[c][k])
  <2>1. PICK r \in Entry : r = Queued(edit[s].op, edit[s].basis)
    BY <1>3, QueuedRecord DEF Types, EditTyped
  <2>2. DeviceOf[s] \in Devices /\ journal[DeviceOf[s]] \in Seq(Entry)
    BY DeviceAssumption DEF Types, JournalType
  <2>3. journal' = [journal EXCEPT ![DeviceOf[s]] = Append(journal[DeviceOf[s]], r)]
    BY <1>3, <2>1
  <2>4. PICK j : j = Append(journal[DeviceOf[s]], r)
    OBVIOUS
  <2>5. \A k \in DOMAIN journal[DeviceOf[s]] : k \in DOMAIN j /\ j[k] = journal[DeviceOf[s]][k]
    BY <2>2, <2>4
  <2>6. j \in Seq(Entry) /\ journal' = [journal EXCEPT ![DeviceOf[s]] = j]
    BY <2>1, <2>2, <2>3, <2>4
  <2>7. JournalType' /\ journal'[DeviceOf[s]] = j /\ \A c \in Devices : c # DeviceOf[s] => journal'[c] = journal[c]
    BY <2>2, <2>6 DEF Types, JournalType
  <2>8. QED
    BY <2>5, <2>7 DEF SameOperation
<1>4. QED
  BY <1>1, <1>2, <1>3, JournalStep

\* Steps that leave the tasks alone.
LEMMA TaskRests ==
  ASSUME Types, NEW s \in Sessions,
         Start(s) \/ AcceptVersion(s) \/ Prepares(s) \/ CommitEdit(s) \/ Resolves(s)
  PROVE  UNCHANGED task
<1>1. CASE Start(s) \/ AcceptVersion(s) \/ CommitEdit(s)
  BY <1>1 DEF Start, AcceptVersion, CommitEdit
<1>2. CASE Prepares(s)
  BY <1>2, PrepareStep DEF Prepares
<1>3. CASE Resolves(s)
  BY <1>3 DEF Resolves, AcceptConflict, ResolveReapplied
<1>4. QED
  BY <1>1, <1>2, <1>3

LEMMA TaskStep ==
  ASSUME Types, Delivery, Dispatched, [Next]_<<scene, vars>>
  PROVE  UNCHANGED task \/ \E s \in Sessions, t \in ActiveTask \cup {NoTask} : TaskBecomes(s, t)
<1>1. ASSUME NEW s \in Sessions, ListenerMoves(s) PROVE \E t \in ActiveTask \cup {NoTask} : TaskBecomes(s, t)
  BY <1>1, ListenerStep DEF ListenerMoves
<1>2. ASSUME NEW s \in Sessions, Sends(s) PROVE \E t \in ActiveTask \cup {NoTask} : TaskBecomes(s, t)
  BY <1>2, DispatchStep DEF Sends
<1>3. ASSUME NEW s \in Sessions, Concludes(s) PROVE \E t \in ActiveTask \cup {NoTask} : TaskBecomes(s, t)
  <2>1. Active(s)
    BY <1>3 DEF Concludes, AbortLocally, MergeAtDatabase, Active
  <2>2. QED
    BY <1>3, <2>1, TaskHolds, ConcludeStep DEF Concludes
<1>4. ASSUME NEW s \in Sessions, CallFails(s) PROVE \E t \in ActiveTask \cup {NoTask} : TaskBecomes(s, t)
  BY <1>4, FailStep
<1>5. ASSUME NEW s \in Sessions, Answer(s) PROVE \E t \in ActiveTask \cup {NoTask} : TaskBecomes(s, t)
  BY <1>5, AnswerStep
<1>6. ASSUME NEW s \in Sessions, AcceptResult(s) PROVE \E t \in ActiveTask \cup {NoTask} : TaskBecomes(s, t)
  BY <1>6, TaskHolds, AcceptResultStep
<1>7. ASSUME NEW s \in Sessions, ReadRecord(s) PROVE \E t \in ActiveTask \cup {NoTask} : TaskBecomes(s, t)
  <2>1. Active(s)
    BY <1>7 DEF ReadRecord, Active
  <2>2. task[s].i \in DOMAIN journal[DeviceOf[s]]
    BY <2>1, TaskHolds DEF OfJournal, Concerns
  <2>3. QED
    BY <1>7, <2>2, ReadStep
<1>8. ASSUME NEW s \in Sessions, WriteRecord(s) PROVE TaskBecomes(s, NoTask)
  BY <1>8 DEF WriteRecord, TaskBecomes
<1>9. ASSUME NEW s \in Sessions,
             Start(s) \/ AcceptVersion(s) \/ Prepares(s) \/ CommitEdit(s) \/ Resolves(s)
      PROVE  UNCHANGED task
  BY <1>9, TaskRests
<1>10. CASE UNCHANGED task
  BY <1>10
<1>11. ASSUME NEW d \in Devices, BackoffEnds(d) PROVE UNCHANGED task
  BY <1>11 DEF BackoffEnds
<1>12. CASE UNCHANGED <<scene, vars>>
  BY <1>12 DEF vars
<1>13. QED
  BY <1>1, <1>2, <1>3, <1>4, <1>5, <1>6, <1>7, <1>8, <1>9, <1>11, <1>12, StepKinds

\* Steps that leave the places of all sessions alone.
LEMMA PlacesRest ==
  ASSUME Types, NEW s \in Sessions,
         \/ Prepares(s) \/ CommitEdit(s) \/ Resolves(s)
         \/ Sends(s) \/ Concludes(s) \/ CallFails(s) \/ ReadRecord(s) \/ WriteRecord(s)
  PROVE  UNCHANGED <<listener, seen, accepted, queue>>
<1>1. CASE CommitEdit(s) \/ CallFails(s) \/ ReadRecord(s) \/ WriteRecord(s)
  BY <1>1 DEF CommitEdit, CallFails, ReadRecord, WriteRecord
<1>2. CASE Prepares(s)
  BY <1>2, PrepareStep DEF Prepares
<1>3. CASE Resolves(s)
  BY <1>3 DEF Resolves, AcceptConflict, ResolveReapplied
<1>4. CASE Sends(s)
  BY <1>4, DispatchStep DEF Sends
<1>5. CASE Concludes(s)
  BY <1>5 DEF Concludes, AbortLocally, MergeAtDatabase
<1>6. QED
  BY <1>1, <1>2, <1>3, <1>4, <1>5

LEMMA PlacesTypeNext ==
  ASSUME Types, Delivery, Dispatched, [Next]_<<scene, vars>>
  PROVE  PlacesType'
<1>1. PlacesType
  BY DEF Types
<1>2. ASSUME NEW s \in Sessions, Start(s) PROVE PlacesType'
  BY <1>1, <1>2 DEF Start, PlacesType, Listening
<1>3. ASSUME NEW s \in Sessions, NEW version \in Nat, Hear(s, version) PROVE PlacesType'
  <2>1. queue[s] \in Seq(Nat)
    BY <1>1 DEF PlacesType
  <2>2. PICK q : q = Append(queue[s], version)
    OBVIOUS
  <2>3. q \in Seq(Nat) /\ queue' = [queue EXCEPT ![s] = q]
    BY <1>3, <2>1, <2>2 DEF Hear
  <2>4. QED
    BY <1>1, <1>3, <2>3 DEF Hear, PlacesType, Listening
<1>4. ASSUME NEW s \in Sessions, ListenerMoves(s) PROVE PlacesType'
  <2>1. CASE HearVersion(s)
    <3>1. PICK version \in seen[s] + 1 .. Len(log) : Hear(s, version)
      BY <2>1 DEF HearVersion
    <3>2. version \in Nat
      BY <1>1, <3>1 DEF PlacesType, Types, LogType
    <3>3. QED
      BY <1>3, <3>1, <3>2
  <2>2. CASE HearOther(s)
    <3>1. seen[s] \in Nat /\ Hear(s, seen[s])
      BY <1>1, <2>2 DEF HearOther, PlacesType
    <3>2. QED
      BY <1>3, <3>1
  <2>3. CASE ListenerFails(s)
    BY <1>1, <2>3 DEF ListenerFails, PlacesType, Listening
  <2>4. CASE Stop(s)
    BY <1>1, <2>4 DEF Stop, PlacesType
  <2>5. QED
    BY <1>4, <2>1, <2>2, <2>3, <2>4 DEF ListenerMoves
<1>5. ASSUME NEW s \in Sessions, AcceptVersion(s) PROVE PlacesType'
  <2>1. queue[s] \in Seq(Nat) /\ queue[s] # <<>> /\ accepted[s] \in Nat
    BY <1>1, <1>5 DEF PlacesType, AcceptVersion
  <2>2. Head(queue[s]) \in Nat /\ Tail(queue[s]) \in Seq(Nat)
    BY <2>1
  <2>3. \E n \in Nat : accepted' = [accepted EXCEPT ![s] = n]
    BY <1>5, <2>1, <2>2 DEF AcceptVersion, AfterAccepting
  <2>4. \E l \in {"healthy", "failed", listener[s]} : listener' = [listener EXCEPT ![s] = l]
    BY <1>5 DEF AcceptVersion
  <2>5. queue' = [queue EXCEPT ![s] = Tail(queue[s])] /\ UNCHANGED seen
    BY <1>5 DEF AcceptVersion
  <2>6. QED
    BY <1>1, <2>2, <2>3, <2>4, <2>5 DEF PlacesType, Listening
<1>6. ASSUME NEW s \in Sessions, Answer(s) PROVE PlacesType'
  <2>1. queue[s] \in Seq(Nat)
    BY <1>1 DEF PlacesType
  <2>2. PICK q : q = Append(queue[s], Result)
    OBVIOUS
  <2>3. q \in Seq(Nat) /\ (queue' = queue \/ queue' = [queue EXCEPT ![s] = q])
    BY <1>6, <2>1, <2>2 DEF Answer, Result
  <2>4. QED
    BY <1>1, <1>6, <2>3 DEF Answer, PlacesType
<1>7. ASSUME NEW s \in Sessions, AcceptResult(s) PROVE PlacesType'
  <2>1. queue[s] \in Seq(Nat) /\ queue[s] # <<>> /\ accepted[s] \in Nat
    BY <1>1, <1>7 DEF PlacesType, AcceptResult
  <2>2. Tail(queue[s]) \in Seq(Nat)
    BY <2>1
  <2>3. task[s].version \in Nat
    BY <1>7, TaskHolds DEF ActiveTask
  <2>4. accepted' = accepted \/ \E n \in Nat : accepted' = [accepted EXCEPT ![s] = n]
    BY <1>7, <2>1, <2>3 DEF AcceptResult, AfterAccepting
  <2>5. queue' = [queue EXCEPT ![s] = Tail(queue[s])] /\ UNCHANGED <<seen, listener>>
    BY <1>7 DEF AcceptResult
  <2>6. QED
    BY <1>1, <2>2, <2>4, <2>5 DEF PlacesType
<1>8. ASSUME NEW s \in Sessions,
             \/ Prepares(s) \/ CommitEdit(s) \/ Resolves(s)
             \/ Sends(s) \/ Concludes(s) \/ CallFails(s) \/ ReadRecord(s) \/ WriteRecord(s)
      PROVE  UNCHANGED <<listener, seen, accepted, queue>>
  BY <1>8, PlacesRest
<1>9. ASSUME UNCHANGED <<listener, seen, accepted, queue>> PROVE PlacesType'
  BY <1>1, <1>9 DEF PlacesType
<1>10. ASSUME NEW d \in Devices, BackoffEnds(d) PROVE PlacesType'
  BY <1>9, <1>10 DEF BackoffEnds
<1>11. CASE UNCHANGED <<scene, vars>>
  BY <1>9, <1>11 DEF vars
<1>12. QED
  BY <1>2, <1>4, <1>5, <1>6, <1>7, <1>8, <1>9, <1>10, <1>11, StepKinds

\* Steps that leave the edits alone.
LEMMA EditRests ==
  ASSUME Types, NEW s \in Sessions,
         \/ Start(s) \/ AcceptVersion(s) \/ Sends(s) \/ Concludes(s) \/ CallFails(s)
         \/ Answer(s) \/ AcceptResult(s) \/ ReadRecord(s) \/ WriteRecord(s)
  PROVE  UNCHANGED edit
<1>1. CASE Start(s) \/ AcceptVersion(s) \/ CallFails(s) \/ Answer(s)
  BY <1>1 DEF Start, AcceptVersion, CallFails, Answer
<1>2. CASE AcceptResult(s) \/ ReadRecord(s) \/ WriteRecord(s)
  BY <1>2 DEF AcceptResult, ReadRecord, WriteRecord
<1>3. CASE Sends(s)
  BY <1>3, DispatchStep DEF Sends
<1>4. CASE Concludes(s)
  BY <1>4 DEF Concludes, AbortLocally, MergeAtDatabase
<1>5. QED
  BY <1>1, <1>2, <1>3, <1>4

LEMMA EditTypedNext ==
  ASSUME Types, Delivery, Dispatched, Retained, [Next]_<<scene, vars>>
  PROVE  EditTyped'
<1>1. EditTyped
  BY DEF Types
<1>2. ASSUME NEW s \in Sessions, NEW e, edit' = [edit EXCEPT ![s] = e],
             e.phase \in {"none", "prepared", "resolving"},
             e.phase = "prepared" => WellFormed(e.op) /\ e.basis \in Nat
      PROVE  EditTyped'
  BY <1>1, <1>2 DEF EditTyped
<1>3. ASSUME UNCHANGED edit PROVE EditTyped'
  BY <1>1, <1>3 DEF EditTyped
<1>4. NoEdit.phase = "none"
  BY DEF NoEdit
<1>5. ASSUME NEW s \in Sessions, ListenerMoves(s) PROVE EditTyped'
  <2>1. UNCHANGED edit \/ edit' = [edit EXCEPT ![s] = NoEdit]
    BY <1>5 DEF ListenerMoves, HearVersion, HearOther, Hear, ListenerFails, Stop
  <2>2. QED
    BY <1>2, <1>3, <1>4, <2>1
<1>6. ASSUME NEW s \in Sessions, Prepares(s) PROVE EditTyped'
  <2>1. accepted[s] \in Nat
    BY DEF Types, PlacesType
  <2>2. \E e : /\ edit' = [edit EXCEPT ![s] = e]
               /\ e.phase = "prepared" /\ WellFormed(e.op) /\ e.basis = accepted[s]
    BY <1>6, PrepareStep DEF Prepares
  <2>3. QED
    BY <1>2, <2>1, <2>2
<1>7. ASSUME NEW s \in Sessions, CommitEdit(s) PROVE EditTyped'
  <2>1. \E e : edit' = [edit EXCEPT ![s] = e] /\ e.phase \in {"none", "resolving"}
    BY <1>7, CommitStep
  <2>2. QED
    BY <1>2, <2>1
<1>8. ASSUME NEW s \in Sessions, Resolves(s) PROVE EditTyped'
  <2>1. UNCHANGED edit \/ edit' = [edit EXCEPT ![s] = NoEdit]
    BY <1>8 DEF Resolves, AcceptConflict, ResolveReapplied
  <2>2. QED
    BY <1>2, <1>3, <1>4, <2>1
<1>9. ASSUME NEW s \in Sessions,
             \/ Start(s) \/ AcceptVersion(s) \/ Sends(s) \/ Concludes(s) \/ CallFails(s)
             \/ Answer(s) \/ AcceptResult(s) \/ ReadRecord(s) \/ WriteRecord(s)
      PROVE  UNCHANGED edit
  BY <1>9, EditRests
<1>10. ASSUME NEW d \in Devices, BackoffEnds(d) PROVE UNCHANGED edit
  BY <1>10 DEF BackoffEnds
<1>11. CASE UNCHANGED <<scene, vars>>
  BY <1>3, <1>11 DEF vars
<1>12. QED
  BY <1>3, <1>5, <1>6, <1>7, <1>8, <1>9, <1>10, <1>11, StepKinds

LEMMA SceneTypedNext ==
  ASSUME Types, Delivery, Dispatched, [Next]_<<scene, vars>>
  PROVE  SceneTyped'
<1>1. SceneTyped
  BY DEF Types
<1>2. ASSUME NEW s \in Sessions,
             \/ Start(s) \/ ListenerMoves(s) \/ AcceptVersion(s)
             \/ Prepares(s) \/ CommitEdit(s) \/ Resolves(s)
             \/ Sends(s) \/ Concludes(s) \/ CallFails(s) \/ Answer(s)
             \/ AcceptResult(s) \/ ReadRecord(s) \/ WriteRecord(s)
      PROVE  faults' = faults \/ (faults < scene.faults /\ faults' = faults + 1)
  <2>1. CASE Start(s) \/ AcceptVersion(s) \/ CommitEdit(s) \/ CallFails(s) \/ Answer(s)
    BY <2>1 DEF Start, AcceptVersion, CommitEdit, CallFails, Answer
  <2>2. CASE AcceptResult(s) \/ ReadRecord(s) \/ WriteRecord(s)
    BY <2>2 DEF AcceptResult, ReadRecord, WriteRecord
  <2>3. CASE ListenerMoves(s)
    BY <2>3, ListenerStep DEF ListenerMoves
  <2>4. CASE Prepares(s)
    BY <2>4, PrepareStep DEF Prepares
  <2>5. CASE Resolves(s)
    BY <2>5 DEF Resolves, AcceptConflict, ResolveReapplied
  <2>6. CASE Sends(s)
    BY <2>6, DispatchStep DEF Sends
  <2>7. CASE Concludes(s)
    BY <2>7 DEF Concludes, AbortLocally, MergeAtDatabase
  <2>8. QED
    BY <1>2, <2>1, <2>2, <2>3, <2>4, <2>5, <2>6, <2>7
<1>3. ASSUME NEW d \in Devices, BackoffEnds(d) PROVE faults' = faults
  BY <1>3 DEF BackoffEnds
<1>4. CASE UNCHANGED <<scene, vars>>
  BY <1>1, <1>4 DEF vars, SceneTyped
<1>5. QED
  BY <1>1, <1>2, <1>3, <1>4, StepKinds, FaultTyped

LEMMA TypesNext ==
  ASSUME Types, Delivery, Dispatched, Retained, [Next]_<<scene, vars>>
  PROVE  Types'
<1>1. TaskTyped'
  <2>1. TaskTyped
    BY DEF Types
  <2>2. CASE UNCHANGED task
    BY <2>1, <2>2 DEF TaskTyped
  <2>3. QED
    BY <2>1, <2>2, TaskStep, TaskBecomesTyped
<1>2. QED
  BY <1>1, LogStep, JournalGrows, PlacesTypeNext, EditTypedNext, SceneTypedNext DEF Types

-----------------------------------------------------------------------------
(***************************************************************************)
(* History.                                                                *)
(***************************************************************************)
LEMMA FollowsTransitive ==
  ASSUME NEW x \in Entity, NEW y \in Entity, NEW z \in Entity, Follows(x, y), Follows(y, z)
  PROVE  Follows(x, z)
<1>1. x.generation \in Nat /\ y.generation \in Nat /\ z.generation \in Nat
  BY DEF Entity
<1>2. x.generation =< z.generation
  BY <1>1 DEF Follows
<1>3. ASSUME x.generation = z.generation, NEW f \in Fields
      PROVE  /\ x.fieldRevisions[f] =< z.fieldRevisions[f]
             /\ x.fieldRevisions[f] = z.fieldRevisions[f] =>
                  x.values[f] = z.values[f] /\ x.fieldMutations[f] = z.fieldMutations[f]
  <2>1. x.generation = y.generation /\ y.generation = z.generation
    BY <1>1, <1>3 DEF Follows
  <2>2. /\ x.fieldRevisions[f] \in Nat /\ y.fieldRevisions[f] \in Nat /\ z.fieldRevisions[f] \in Nat
    BY DEF Entity
  <2>3. /\ x.fieldRevisions[f] =< y.fieldRevisions[f] /\ y.fieldRevisions[f] =< z.fieldRevisions[f]
        /\ x.fieldRevisions[f] = y.fieldRevisions[f] =>
             x.values[f] = y.values[f] /\ x.fieldMutations[f] = y.fieldMutations[f]
        /\ y.fieldRevisions[f] = z.fieldRevisions[f] =>
             y.values[f] = z.values[f] /\ y.fieldMutations[f] = z.fieldMutations[f]
    BY <2>1 DEF Follows
  <2>4. x.fieldRevisions[f] =< z.fieldRevisions[f]
    BY <2>2, <2>3
  <2>5. x.fieldRevisions[f] = z.fieldRevisions[f] =>
          x.fieldRevisions[f] = y.fieldRevisions[f] /\ y.fieldRevisions[f] = z.fieldRevisions[f]
    BY <2>2, <2>3
  <2>6. QED
    BY <2>3, <2>4, <2>5
<1>4. QED
  BY <1>2, <1>3 DEF Follows

LEMMA FollowsItself ==
  ASSUME NEW x \in Entity
  PROVE  Follows(x, x)
  BY DEF Follows, Entity

\* A version that does not exist is the origin, and holds nothing.
LEMMA OnlyTheOriginIsMissing ==
  ASSUME LogType, History, NEW i \in DOMAIN log, ~Exists(log[i])
  PROVE  i = 1 /\ log[i] = NoEntity /\ ~Exists(Origin)
<1>1. log[i] \in Entity /\ i \in Nat \ {0}
  BY DEF LogType
<1>2. log[i].revision \in Nat /\ Origin.revision \in Nat
  BY <1>1, OriginAssumption DEF Entity
<1>3. log[i].revision = Origin.revision + (i - 1)
  BY DEF History
<1>4. i = 1 /\ Origin.revision = 0
  BY <1>1, <1>2, <1>3 DEF Exists
<1>5. QED
  BY <1>4, OriginAssumption DEF History, Exists

LEMMA HistoryInit == Init => History
<1> SUFFICES ASSUME Init PROVE History
  OBVIOUS
<1>1. log = <<Origin>> /\ Origin \in Entity
  BY OriginAssumption DEF Init
<1>2. DOMAIN log = {1} /\ log[1] = Origin
  BY <1>1
<1>3. Follows(Origin, Origin)
  BY <1>1, FollowsItself
<1>4. Origin.revision = Origin.revision + (1 - 1)
  BY <1>1 DEF Entity
<1>5. \A i \in DOMAIN log : log[i].revision = Origin.revision + (i - 1)
  BY <1>2, <1>4
<1>6. \A i, j \in DOMAIN log : i =< j => Follows(log[i], log[j])
  BY <1>2, <1>3
<1>7. \A i, j \in DOMAIN log : j # i + 1
  BY <1>2
<1>8. QED
  BY <1>2, <1>5, <1>6, <1>7 DEF History

LEMMA HistoryGrows ==
  ASSUME LogType, History, NEW o, WellFormed(o), Commits(entity, o), log' = Append(log, Merged(entity, o))
  PROVE  History'
<1>1. /\ log \in Seq(Entity) /\ Len(log) \in DOMAIN log /\ entity = log[Len(log)] /\ entity \in Entity
      /\ Len(log) \in Nat \ {0}
  BY DEF LogType, entity
<1>2. ~Exists(entity) => entity.generation = 0
  BY <1>1, OnlyTheOriginIsMissing DEF NoEntity
<1>3. PICK n \in Entity : n = Merged(entity, o)
  BY <1>1, MergeType
<1>4. /\ log' = Append(log, n) /\ DOMAIN log' = 1..Len(log) + 1
      /\ \A i \in DOMAIN log : log'[i] = log[i]
      /\ log'[Len(log) + 1] = n /\ 1 \in DOMAIN log
  BY <1>1, <1>3
<1>5. /\ n.revision = entity.revision + 1
      /\ \/ n.generation > entity.generation
         \/ /\ n.generation = entity.generation
            /\ \A f \in Fields :
                 \/ n.fieldRevisions[f] = entity.fieldRevisions[f] + 1
                 \/ /\ n.fieldRevisions[f] = entity.fieldRevisions[f]
                    /\ n.values[f] = entity.values[f]
                    /\ n.fieldMutations[f] = entity.fieldMutations[f]
  BY <1>1, <1>2, <1>3, MergeMovesOn
<1>6. Follows(entity, n)
  <2>1. entity.generation \in Nat /\ n.generation \in Nat
    BY <1>1 DEF Entity
  <2>2. \A f \in Fields : entity.fieldRevisions[f] \in Nat /\ n.fieldRevisions[f] \in Nat
    BY <1>1 DEF Entity
  <2>3. entity.generation =< n.generation
    BY <1>5, <2>1
  <2>4. ASSUME entity.generation = n.generation, NEW f \in Fields
        PROVE  /\ entity.fieldRevisions[f] =< n.fieldRevisions[f]
               /\ entity.fieldRevisions[f] = n.fieldRevisions[f] =>
                    entity.values[f] = n.values[f] /\ entity.fieldMutations[f] = n.fieldMutations[f]
    BY <1>5, <2>1, <2>2, <2>4
  <2>5. QED
    BY <2>3, <2>4 DEF Follows
<1>7. \A i \in DOMAIN log : Follows(log[i], n)
  <2>1. ASSUME NEW i \in DOMAIN log PROVE Follows(log[i], n)
    <3>1. log[i] \in Entity /\ i =< Len(log)
      BY <1>1
    <3>2. Follows(log[i], entity)
      BY <1>1, <3>1 DEF History
    <3>3. QED
      BY <1>1, <1>6, <3>1, <3>2, FollowsTransitive
  <2>2. QED
    BY <2>1
<1>8. log'[1] = Origin
  BY <1>4 DEF History
<1>9. \A i \in DOMAIN log' : log'[i].revision = Origin.revision + (i - 1)
  <2>1. ASSUME NEW i \in DOMAIN log PROVE log'[i].revision = Origin.revision + (i - 1)
    BY <1>4 DEF History
  <2>2. log'[Len(log) + 1].revision = Origin.revision + ((Len(log) + 1) - 1)
    <3>1. entity.revision = Origin.revision + (Len(log) - 1)
      BY <1>1 DEF History
    <3>2. Origin.revision \in Nat
      BY OriginAssumption DEF Entity
    <3>3. n.revision = Origin.revision + ((Len(log) + 1) - 1)
      BY <1>1, <1>5, <3>1, <3>2
    <3>4. log'[Len(log) + 1] = n
      BY <1>4
    <3>5. QED
      BY <3>3, <3>4
  <2>3. QED
    BY <1>1, <1>4, <2>1, <2>2
<1>10. \A i, j \in DOMAIN log' : i =< j => Follows(log'[i], log'[j])
  <2>1. ASSUME NEW i \in DOMAIN log', NEW j \in DOMAIN log', i =< j
        PROVE  Follows(log'[i], log'[j])
    <3>1. CASE i \in DOMAIN log /\ j \in DOMAIN log
      BY <1>4, <2>1, <3>1 DEF History
    <3>2. CASE i \in DOMAIN log /\ j = Len(log) + 1
      BY <1>4, <1>7, <3>2
    <3>3. CASE i = Len(log) + 1 /\ j = Len(log) + 1
      BY <1>4, <3>3, FollowsItself
    <3>4. QED
      BY <1>1, <1>4, <2>1, <3>1, <3>2, <3>3
  <2>2. QED
    BY <2>1
<1>11. \A i, j \in DOMAIN log' : j = i + 1 /\ Exists(log'[i]) => ValidTransition(log'[i], log'[j])
  <2>1. ASSUME NEW i \in DOMAIN log', NEW j \in DOMAIN log', j = i + 1, Exists(log'[i])
        PROVE  ValidTransition(log'[i], log'[j])
    <3>1. CASE j \in DOMAIN log
      <4>1. i \in DOMAIN log
        BY <1>1, <1>4, <2>1, <3>1
      <4>2. QED
        BY <1>4, <2>1, <3>1, <4>1 DEF History
    <3>2. CASE j = Len(log) + 1
      <4>1. i = Len(log) /\ i \in DOMAIN log
        BY <1>1, <1>4, <2>1, <3>2
      <4>2. log'[i] = entity /\ log'[j] = n
        BY <1>1, <1>4, <3>2, <4>1
      <4>3. QED
        BY <1>1, <1>3, <2>1, <4>2, MergeValid
    <3>3. QED
      BY <1>1, <1>4, <2>1, <3>1, <3>2
  <2>2. QED
    BY <2>1
<1>12. QED
  BY <1>8, <1>9, <1>10, <1>11 DEF History

LEMMA HistoryNext ==
  ASSUME Types, History, Delivery, Dispatched, [Next]_<<scene, vars>>
  PROVE  History'
<1>1. CASE log' = log
  BY <1>1 DEF History
<1>2. QED
  BY <1>1, LogStep, HistoryGrows DEF Types

-----------------------------------------------------------------------------
(***************************************************************************)
(* Delivery.                                                               *)
(***************************************************************************)
LEMMA TailOf ==
  ASSUME NEW q \in Seq(Nat), q # <<>>
  PROVE  /\ Tail(q) \in Seq(Nat) /\ Head(q) = q[1] /\ 1 \in DOMAIN q
         /\ \A i \in DOMAIN Tail(q) : i \in Nat \ {0} /\ i + 1 \in DOMAIN q /\ Tail(q)[i] = q[i + 1]
  OBVIOUS

LEMMA AppendOf ==
  ASSUME NEW q \in Seq(Nat), NEW x \in Nat
  PROVE  /\ Append(q, x) \in Seq(Nat)
         /\ DOMAIN Append(q, x) = DOMAIN q \cup {Len(q) + 1}
         /\ Append(q, x)[Len(q) + 1] = x
         /\ \A i \in DOMAIN q : i \in Nat /\ i < Len(q) + 1 /\ Append(q, x)[i] = q[i]
         /\ \A i \in DOMAIN Append(q, x) : ~(Len(q) + 1 < i)
  OBVIOUS

\* The queue without its head, which was at or after the accepted version and
\* may itself be accepted now.
LEMMA OrderedTail ==
  ASSUME NEW q \in Seq(Nat), q # <<>>, NEW a \in Nat, NEW v \in Nat, Ordered(a, v, q),
         NEW b \in {a, Head(q)}, b = Head(q) => Head(q) # Result
  PROVE  Ordered(b, v, Tail(q))
<1>1. /\ Tail(q) \in Seq(Nat) /\ Head(q) = q[1] /\ 1 \in DOMAIN q
      /\ \A i \in DOMAIN Tail(q) : i \in Nat \ {0} /\ i + 1 \in DOMAIN q /\ Tail(q)[i] = q[i + 1]
  BY TailOf
<1>2. b =< v
  BY <1>1 DEF Ordered
<1>3. ASSUME NEW i \in DOMAIN Tail(q)
      PROVE  Tail(q)[i] =< v /\ (Tail(q)[i] # Result => b =< Tail(q)[i])
  <2>1. i \in Nat \ {0} /\ i + 1 \in DOMAIN q /\ Tail(q)[i] = q[i + 1] /\ 1 < i + 1
    BY <1>1
  <2>2. q[i + 1] =< v /\ (q[i + 1] # Result => a =< q[i + 1])
    BY <2>1 DEF Ordered
  <2>3. q[1] # Result /\ q[i + 1] # Result => q[1] =< q[i + 1]
    BY <1>1, <2>1 DEF Ordered
  <2>4. QED
    BY <1>1, <2>1, <2>2, <2>3
<1>4. ASSUME NEW i \in DOMAIN Tail(q), NEW j \in DOMAIN Tail(q), i < j,
             Tail(q)[i] # Result, Tail(q)[j] # Result
      PROVE  Tail(q)[i] =< Tail(q)[j]
  <2>1. /\ i + 1 \in DOMAIN q /\ j + 1 \in DOMAIN q /\ i + 1 < j + 1
        /\ Tail(q)[i] = q[i + 1] /\ Tail(q)[j] = q[j + 1]
    BY <1>1, <1>4
  <2>2. QED
    BY <1>4, <2>1 DEF Ordered
<1>5. QED
  BY <1>2, <1>3, <1>4 DEF Ordered

\* Without versions in it, a queue is in order whatever is accepted.
LEMMA OrderedAnswers ==
  ASSUME NEW q \in Seq(Nat), NoVersions(q), NEW a \in Nat, NEW v \in Nat, a =< v
  PROVE  Ordered(a, v, q)
  BY DEF NoVersions, Ordered, Result

\* The connection delivers a version, new or again.
LEMMA HeardVersion ==
  ASSUME NEW l, NEW n \in Nat, NEW v \in Nat, NEW a \in Nat, NEW q \in Seq(Nat),
         NEW t \in ActiveTask \cup {NoTask}, Delivered(l, n, v, a, q, t),
         NEW w \in Nat, w > 0, v =< w, w =< n,
         NEW u, u.stage = t.stage, u.stage # "idle" => ~u.auth /\ u.version = t.version
  PROVE  Delivered("listening", n, w, a, Append(q, w), u)
<1>1. /\ DOMAIN Append(q, w) = DOMAIN q \cup {Len(q) + 1}
      /\ Append(q, w)[Len(q) + 1] = w
      /\ \A i \in DOMAIN q : i \in Nat /\ i < Len(q) + 1 /\ Append(q, w)[i] = q[i]
      /\ \A i \in DOMAIN Append(q, w) : ~(Len(q) + 1 < i)
  BY AppendOf
<1>2. w # Result
  BY DEF Result
<1>3. \A i \in DOMAIN q : q[i] \in Nat /\ q[i] =< v
  BY DEF Delivered, Ordered
<1>4. Ordered(a, w, Append(q, w))
  <2>1. a =< w
    BY DEF Delivered, Ordered
  <2>2. ASSUME NEW i \in DOMAIN Append(q, w)
        PROVE  Append(q, w)[i] =< w /\ (Append(q, w)[i] # Result => a =< Append(q, w)[i])
    <3>1. CASE i = Len(q) + 1
      BY <1>1, <2>1, <3>1
    <3>2. CASE i \in DOMAIN q
      <4>1. Append(q, w)[i] = q[i] /\ q[i] \in Nat /\ q[i] =< v
        BY <1>1, <1>3, <3>2
      <4>2. q[i] # Result => a =< q[i]
        BY <3>2 DEF Delivered, Ordered
      <4>3. QED
        BY <4>1, <4>2
    <3>3. QED
      BY <1>1, <3>1, <3>2
  <2>3. ASSUME NEW i \in DOMAIN Append(q, w), NEW j \in DOMAIN Append(q, w), i < j,
               Append(q, w)[i] # Result, Append(q, w)[j] # Result
        PROVE  Append(q, w)[i] =< Append(q, w)[j]
    <3>1. i \in DOMAIN q
      BY <1>1, <2>3
    <3>2. CASE j = Len(q) + 1
      BY <1>1, <1>3, <3>1, <3>2
    <3>3. CASE j \in DOMAIN q
      BY <1>1, <2>3, <3>1, <3>3 DEF Delivered, Ordered
    <3>4. QED
      BY <1>1, <3>2, <3>3
  <2>4. QED
    BY <2>1, <2>2, <2>3 DEF Ordered
<1>5. OneAnswer(q, t)
  BY DEF Delivered
<1>6. u.stage = t.stage
  OBVIOUS
<1>7. OneAnswer(Append(q, w), u)
  BY <1>1, <1>2, <1>5, <1>6 DEF OneAnswer
<1>8. u.stage # "idle" => ~u.auth /\ u.version = t.version
  OBVIOUS
<1>9. u.stage \in {"merged", "answered"} => u.version \in 1..n
  BY <1>6, <1>8 DEF Delivered
<1>10. u.stage = "answered" => u.version =< v /\ u.version \in Nat
  BY <1>6, <1>8, <1>9 DEF Delivered
<1>11. QED
  BY <1>4, <1>6, <1>7, <1>8, <1>9, <1>10 DEF Delivered

\* No version waits behind the head of the queue.
HeadIsLatest(q) == \A i \in 2..Len(q) : q[i] = Result

\* A version is accepted, or refused, in its turn.
LEMMA TurnOfVersion ==
  ASSUME NEW l, NEW n \in Nat, NEW v \in Nat, NEW a \in Nat, NEW q \in Seq(Nat),
         NEW t \in ActiveTask \cup {NoTask}, Delivered(l, n, v, a, q, t),
         q # <<>>, Head(q) # Result,
         NEW b \in {a, Head(q)},
         NEW k, k = "healthy" => k = l \/ (b > 0 /\ HeadIsLatest(q))
  PROVE  Delivered(k, n, v, b, Tail(q), t)
<1>1. /\ Tail(q) \in Seq(Nat) /\ Head(q) = q[1] /\ 1 \in DOMAIN q
      /\ \A i \in DOMAIN Tail(q) : i \in Nat \ {0} /\ i + 1 \in DOMAIN q /\ Tail(q)[i] = q[i + 1]
  BY TailOf
<1>2. ~NoVersions(q)
  BY <1>1 DEF NoVersions
<1>3. Ordered(b, v, Tail(q))
  BY OrderedTail DEF Delivered
<1>4. OneAnswer(Tail(q), t)
  <2>1. OneAnswer(q, t)
    BY DEF Delivered
  <2>2. \A i \in DOMAIN Tail(q) : Tail(q)[i] = Result => t.stage = "answered"
    BY <1>1, <2>1 DEF OneAnswer
  <2>3. ASSUME NEW i \in DOMAIN Tail(q), NEW j \in DOMAIN Tail(q), Tail(q)[i] = Result, Tail(q)[j] = Result
        PROVE  i = j
    <3>1. i + 1 = j + 1
      BY <1>1, <2>1, <2>3 DEF OneAnswer
    <3>2. QED
      BY <1>1, <3>1
  <2>4. QED
    BY <2>2, <2>3 DEF OneAnswer
<1>5. k = "healthy" => b > 0 /\ NoVersions(Tail(q))
  <2>1. ASSUME HeadIsLatest(q) PROVE NoVersions(Tail(q))
    <3>1. \A i \in DOMAIN Tail(q) : i + 1 \in 2..Len(q)
      BY <1>1
    <3>2. QED
      BY <1>1, <2>1, <3>1 DEF NoVersions, HeadIsLatest
  <2>2. l # "healthy"
    BY <1>2 DEF Delivered
  <2>3. QED
    BY <2>1, <2>2
<1>6. t.stage # "idle" => ~t.auth
  BY <1>2 DEF Delivered
<1>7. QED
  BY <1>3, <1>4, <1>5, <1>6 DEF Delivered

\* The answer in its turn.
LEMMA TurnOfAnswer ==
  ASSUME NEW l, NEW n \in Nat, NEW v \in Nat, NEW a \in Nat, NEW q \in Seq(Nat),
         NEW t \in ActiveTask, Delivered(l, n, v, a, q, t),
         q # <<>>, Head(q) = Result,
         NEW b \in {a, t.version}, b = a \/ t.auth,
         NEW u, u.stage \in {"idle", "accepted", "failing"},
         u.stage # "idle" => t.auth \/ l = "healthy"
  PROVE  Delivered(l, n, v, b, Tail(q), u)
<1>1. /\ Tail(q) \in Seq(Nat) /\ Head(q) = q[1] /\ 1 \in DOMAIN q
      /\ \A i \in DOMAIN Tail(q) : i \in Nat \ {0} /\ i + 1 \in DOMAIN q /\ Tail(q)[i] = q[i + 1]
  BY TailOf
<1>2. t.stage = "answered" /\ t.version \in 1..n /\ t.version =< v /\ v > 0
  BY <1>1 DEF Delivered, OneAnswer
<1>3. NoVersions(q) => NoVersions(Tail(q))
  BY <1>1 DEF NoVersions
<1>4. t.auth => NoVersions(q)
  BY <1>2 DEF Delivered
<1>5. Ordered(b, v, Tail(q))
  <2>1. CASE b = a
    <3>1. Ordered(a, v, Tail(q))
      <4>1. CASE a = Head(q)
        <5>1. \A i \in DOMAIN Tail(q) : Tail(q)[i] =< v
          BY <1>1 DEF Delivered, Ordered
        <5>2. \A i, j \in DOMAIN Tail(q) :
                i < j /\ Tail(q)[i] # Result /\ Tail(q)[j] # Result => Tail(q)[i] =< Tail(q)[j]
          <6>1. ASSUME NEW i \in DOMAIN Tail(q), NEW j \in DOMAIN Tail(q), i < j,
                       Tail(q)[i] # Result, Tail(q)[j] # Result
                PROVE  Tail(q)[i] =< Tail(q)[j]
            <7>1. /\ i + 1 \in DOMAIN q /\ j + 1 \in DOMAIN q /\ i + 1 < j + 1
                  /\ Tail(q)[i] = q[i + 1] /\ Tail(q)[j] = q[j + 1]
              BY <1>1, <6>1
            <7>2. QED
              BY <6>1, <7>1 DEF Delivered, Ordered
          <6>2. QED
            BY <6>1
        <5>3. \A i \in DOMAIN Tail(q) : Tail(q)[i] \in Nat
          BY <1>1
        <5>4. a = 0
          BY <4>1 DEF Result
        <5>5. QED
          BY <5>1, <5>2, <5>3, <5>4 DEF Ordered
      <4>2. CASE a # Head(q)
        BY <4>2, OrderedTail DEF Delivered
      <4>3. QED
        BY <4>1, <4>2
    <3>2. QED
      BY <2>1, <3>1
  <2>2. CASE b = t.version /\ t.auth
    <3>1. b \in Nat /\ b =< v
      BY <1>2, <2>2
    <3>2. QED
      BY <1>1, <1>3, <1>4, <2>2, <3>1, OrderedAnswers
  <2>3. QED
    BY <2>1, <2>2
<1>6. OneAnswer(Tail(q), u)
  <2>1. ASSUME NEW i \in DOMAIN Tail(q) PROVE Tail(q)[i] # Result
    <3>1. i + 1 \in DOMAIN q /\ Tail(q)[i] = q[i + 1] /\ i + 1 # 1
      BY <1>1
    <3>2. QED
      BY <1>1, <3>1 DEF Delivered, OneAnswer
  <2>2. QED
    BY <2>1 DEF OneAnswer
<1>7. l = "healthy" => b > 0 /\ NoVersions(Tail(q))
  BY <1>2, <1>3 DEF Delivered
<1>8. u.stage # "idle" => NoVersions(Tail(q))
  BY <1>3, <1>4 DEF Delivered
<1>9. v =< n
  BY DEF Delivered
<1>10. QED
  BY <1>2, <1>5, <1>6, <1>7, <1>8, <1>9 DEF Delivered

\* The answer comes, and waits its turn.
LEMMA AnswerComes ==
  ASSUME NEW l, NEW n \in Nat, NEW v \in Nat, NEW a \in Nat, NEW q \in Seq(Nat),
         NEW t \in ActiveTask, Delivered(l, n, v, a, q, t), t.stage = "merged", t.version =< v,
         NEW u, u.stage = "answered", u.version \in {t.version, v}, u.auth = t.auth
  PROVE  Delivered(l, n, v, a, Append(q, Result), u)
<1>1. Result \in Nat
  BY DEF Result
<1>2. /\ DOMAIN Append(q, Result) = DOMAIN q \cup {Len(q) + 1}
      /\ Append(q, Result)[Len(q) + 1] = Result
      /\ \A i \in DOMAIN q : i \in Nat /\ i < Len(q) + 1 /\ Append(q, Result)[i] = q[i]
      /\ \A i \in DOMAIN Append(q, Result) : ~(Len(q) + 1 < i)
  BY <1>1, AppendOf
<1>3. \A i \in DOMAIN q : q[i] # Result
  BY DEF Delivered, OneAnswer
<1>4. Ordered(a, v, q) /\ a =< v /\ v =< n /\ v > 0
  BY DEF Delivered, Ordered
<1>5. Ordered(a, v, Append(q, Result))
  <2>1. ASSUME NEW i \in DOMAIN Append(q, Result)
        PROVE  Append(q, Result)[i] =< v /\ (Append(q, Result)[i] # Result => a =< Append(q, Result)[i])
    <3>1. CASE i = Len(q) + 1
      BY <1>2, <3>1 DEF Result
    <3>2. CASE i \in DOMAIN q
      BY <1>2, <1>4, <3>2 DEF Ordered
    <3>3. QED
      BY <1>2, <3>1, <3>2
  <2>2. ASSUME NEW i \in DOMAIN Append(q, Result), NEW j \in DOMAIN Append(q, Result), i < j,
               Append(q, Result)[i] # Result, Append(q, Result)[j] # Result
        PROVE  Append(q, Result)[i] =< Append(q, Result)[j]
    <3>1. i \in DOMAIN q /\ j \in DOMAIN q
      BY <1>2, <2>2
    <3>2. QED
      BY <1>2, <1>4, <2>2, <3>1 DEF Ordered
  <2>3. QED
    BY <1>4, <2>1, <2>2 DEF Ordered
<1>6. OneAnswer(Append(q, Result), u)
  BY <1>2, <1>3 DEF OneAnswer
<1>7. NoVersions(q) => NoVersions(Append(q, Result))
  BY <1>2 DEF NoVersions
<1>8. t.version \in 1..n /\ (t.auth => a =< t.version)
  BY DEF Delivered
<1>9. u.version \in 1..n /\ u.version =< v /\ (u.auth => a =< u.version)
  BY <1>4, <1>8
<1>10. (l = "healthy" => a > 0 /\ NoVersions(q)) /\ (t.auth => NoVersions(q))
  BY DEF Delivered
<1>11. QED
  BY <1>4, <1>5, <1>6, <1>7, <1>9, <1>10 DEF Delivered

\* The task moves on, or one begins or ends, while no answer waits.
LEMMA TaskMoves ==
  ASSUME NEW l, NEW n \in Nat, NEW v \in Nat, NEW a \in Nat, NEW q \in Seq(Nat),
         NEW t \in ActiveTask \cup {NoTask}, Delivered(l, n, v, a, q, t), t.stage # "answered",
         NEW m \in Nat, n =< m,
         NEW u, u.stage # "answered",
         u.stage # "idle" => v > 0 /\ (u.auth => NoVersions(q)),
         u.stage = "merged" => u.version \in 1..m /\ (u.auth => a =< u.version)
  PROVE  Delivered(l, m, v, a, q, u)
<1>1. OneAnswer(q, u)
  BY DEF Delivered, OneAnswer
<1>2. v =< m
  BY DEF Delivered
<1>3. QED
  BY <1>1, <1>2 DEF Delivered

\* Nothing moves but the log, or the listener closes, or authority is lost.
LEMMA Loosened ==
  ASSUME NEW l, NEW n \in Nat, NEW v \in Nat, NEW a \in Nat, NEW q \in Seq(Nat),
         NEW t, Delivered(l, n, v, a, q, t),
         NEW m \in Nat, n =< m, NEW k, k = "healthy" => l = "healthy",
         NEW u, u.stage = t.stage,
         u.stage # "idle" => u.version = t.version /\ (u.auth => t.auth)
  PROVE  Delivered(k, m, v, a, q, u)
<1>1. OneAnswer(q, u)
  BY DEF Delivered, OneAnswer
<1>2. v =< m
  BY DEF Delivered
<1>3. u.stage \in {"merged", "answered"} => u.version \in 1..m
  BY DEF Delivered
<1>4. QED
  BY <1>1, <1>2, <1>3 DEF Delivered

\* The session stops.
LEMMA Stopped ==
  ASSUME NEW l, NEW n \in Nat, NEW v \in Nat, NEW a, NEW q, NEW t,
         Delivered(l, n, v, a, q, t),
         NEW u, u.stage = "idle" \/ (u.stage = t.stage /\ u.stage \notin {"merged", "answered"})
  PROVE  Delivered("retired", n, v, 0, <<>>, u)
<1>1. Ordered(0, v, <<>>) /\ OneAnswer(<<>>, u) /\ NoVersions(<<>>)
  BY DEF Ordered, OneAnswer, NoVersions
<1>2. QED
  BY <1>1 DEF Delivered

\* One session's places change.
PlacesBecome(s, l, v, a, q, t) ==
  /\ listener' = [listener EXCEPT ![s] = l] /\ seen' = [seen EXCEPT ![s] = v]
  /\ accepted' = [accepted EXCEPT ![s] = a] /\ queue' = [queue EXCEPT ![s] = q]
  /\ task' = [task EXCEPT ![s] = t]

LEMMA LogGrows ==
  ASSUME Types, Delivery, Dispatched, [Next]_<<scene, vars>>
  PROVE  Len(log) \in Nat \ {0} /\ Len(log') \in Nat \ {0} /\ Len(log) =< Len(log')
<1>1. log \in Seq(Entity) /\ log # <<>>
  BY DEF Types, LogType
<1>2. log' \in Seq(Entity) /\ log' # <<>> /\ DOMAIN log \subseteq DOMAIN log'
  BY LogStep DEF LogType
<1>3. Len(log) \in DOMAIN log
  BY <1>1
<1>4. QED
  BY <1>1, <1>2, <1>3

\* One session has what it needs, and the others only see the log grow.
LEMMA DeliveryOf ==
  ASSUME Types, Delivery, Dispatched, [Next]_<<scene, vars>>,
         NEW s \in Sessions, NEW l, NEW v, NEW a, NEW q, NEW t,
         PlacesBecome(s, l, v, a, q, t), Delivered(l, Len(log'), v, a, q, t)
  PROVE  Delivery'
<1>1. ASSUME NEW r \in Sessions
      PROVE  Delivered(listener'[r], Len(log'), seen'[r], accepted'[r], queue'[r], task'[r])
  <2>1. CASE r = s
    <3>1. listener'[r] = l /\ seen'[r] = v /\ accepted'[r] = a /\ queue'[r] = q /\ task'[r] = t
      BY <2>1 DEF PlacesBecome, Types, PlacesType, TaskTyped
    <3>2. QED
      BY <3>1
  <2>2. CASE r # s
    <3>1. /\ listener'[r] = listener[r] /\ seen'[r] = seen[r] /\ accepted'[r] = accepted[r]
          /\ queue'[r] = queue[r] /\ task'[r] = task[r]
      BY <2>2 DEF PlacesBecome, Types, PlacesType, TaskTyped
    <3>2. /\ seen[r] \in Nat /\ accepted[r] \in Nat /\ queue[r] \in Seq(Nat)
          /\ Delivered(listener[r], Len(log), seen[r], accepted[r], queue[r], task[r])
      BY DEF Types, PlacesType, Delivery
    <3>3. Len(log) \in Nat /\ Len(log') \in Nat /\ Len(log) =< Len(log')
      BY LogGrows
    <3>4. Delivered(listener[r], Len(log'), seen[r], accepted[r], queue[r], task[r])
      BY <3>2, <3>3, Loosened
    <3>5. QED
      BY <3>1, <3>4
  <2>3. QED
    BY <2>1, <2>2
<1>2. QED
  BY <1>1 DEF Delivery

\* No session's places change.
LEMMA DeliveryFrame ==
  ASSUME Types, Delivery, Dispatched, [Next]_<<scene, vars>>,
         UNCHANGED <<listener, seen, accepted, queue, task>>
  PROVE  Delivery'
<1>1. Len(log) \in Nat /\ Len(log') \in Nat /\ Len(log) =< Len(log')
  BY LogGrows
<1>2. ASSUME NEW r \in Sessions
      PROVE  Delivered(listener[r], Len(log'), seen[r], accepted[r], queue[r], task[r])
  <2>1. /\ seen[r] \in Nat /\ accepted[r] \in Nat /\ queue[r] \in Seq(Nat)
        /\ Delivered(listener[r], Len(log), seen[r], accepted[r], queue[r], task[r])
    BY DEF Types, PlacesType, Delivery
  <2>2. QED
    BY <1>1, <2>1, Loosened
<1>3. QED
  BY <1>2 DEF Delivery

\* The places of a session, as they are.
LEMMA PlacesOf ==
  ASSUME Types, Delivery, NEW s \in Sessions
  PROVE  /\ seen[s] \in Nat /\ accepted[s] \in Nat /\ queue[s] \in Seq(Nat)
         /\ task[s] \in ActiveTask \cup {NoTask} /\ Len(log) \in Nat
         /\ Delivered(listener[s], Len(log), seen[s], accepted[s], queue[s], task[s])
         /\ listener = [listener EXCEPT ![s] = listener[s]] /\ seen = [seen EXCEPT ![s] = seen[s]]
         /\ accepted = [accepted EXCEPT ![s] = accepted[s]] /\ queue = [queue EXCEPT ![s] = queue[s]]
         /\ task = [task EXCEPT ![s] = task[s]]
<1>1. /\ seen[s] \in Nat /\ accepted[s] \in Nat /\ queue[s] \in Seq(Nat)
      /\ task[s] \in ActiveTask \cup {NoTask} /\ Len(log) \in Nat
  BY DEF Types, PlacesType, TaskTyped, LogType
<1>2. /\ listener = [listener EXCEPT ![s] = listener[s]] /\ seen = [seen EXCEPT ![s] = seen[s]]
      /\ accepted = [accepted EXCEPT ![s] = accepted[s]] /\ queue = [queue EXCEPT ![s] = queue[s]]
  BY DEF Types, PlacesType
<1>3. task = [task EXCEPT ![s] = task[s]]
  BY DEF Types, TaskTyped
<1>4. QED
  BY <1>1, <1>2, <1>3 DEF Delivery

LEMMA DeliveryInit == Init => Delivery
<1> SUFFICES ASSUME Init, NEW s \in Sessions
             PROVE  Delivered(listener[s], Len(log), seen[s], accepted[s], queue[s], task[s])
  BY DEF Delivery
<1>1. /\ listener[s] = "off" /\ seen[s] = 0 /\ accepted[s] = 0 /\ queue[s] = <<>> /\ task[s] = NoTask
      /\ Len(log) = 1
  BY DEF Init
<1>2. Delivered("off", 1, 0, 0, <<>>, NoTask)
  BY DEF Delivered, Ordered, OneAnswer, NoVersions, NoTask
<1>3. QED
  BY <1>1, <1>2

LEMMA DeliveryListener ==
  ASSUME Types, Delivery, Dispatched, [Next]_<<scene, vars>>, NEW s \in Sessions, ListenerMoves(s)
  PROVE  Delivery'
<1>1. /\ seen[s] \in Nat /\ accepted[s] \in Nat /\ queue[s] \in Seq(Nat)
      /\ task[s] \in ActiveTask \cup {NoTask} /\ Len(log) \in Nat
      /\ Delivered(listener[s], Len(log), seen[s], accepted[s], queue[s], task[s])
      /\ listener = [listener EXCEPT ![s] = listener[s]] /\ seen = [seen EXCEPT ![s] = seen[s]]
      /\ accepted = [accepted EXCEPT ![s] = accepted[s]] /\ queue = [queue EXCEPT ![s] = queue[s]]
  BY PlacesOf
<1>2. PICK u : u = WithoutAuthority(task[s])
  OBVIOUS
<1>3. u.stage = task[s].stage /\ (u.stage # "idle" => ~u.auth /\ u.version = task[s].version)
  BY <1>1, <1>2, TaskWithoutAuthority
<1>4. log' = log
  BY DEF ListenerMoves, HearVersion, HearOther, Hear, ListenerFails, Stop
<1>5. ASSUME NEW version \in Nat, Hear(s, version), version > 0, seen[s] =< version, version =< Len(log)
      PROVE  Delivery'
  <2>1. Delivered("listening", Len(log), version, accepted[s], Append(queue[s], version), u)
    BY <1>1, <1>3, <1>5, HeardVersion
  <2>2. PlacesBecome(s, "listening", version, accepted[s], Append(queue[s], version), u)
    BY <1>1, <1>2, <1>5 DEF Hear, PlacesBecome
  <2>3. QED
    BY <1>4, <2>1, <2>2, DeliveryOf
<1>6. CASE HearVersion(s)
  <2>1. PICK version \in seen[s] + 1 .. Len(log) : Hear(s, version)
    BY <1>6 DEF HearVersion
  <2>2. version \in Nat /\ version > 0 /\ seen[s] =< version /\ version =< Len(log)
    BY <1>1, <2>1
  <2>3. QED
    BY <1>5, <2>1, <2>2
<1>7. CASE HearOther(s)
  <2>1. Hear(s, seen[s]) /\ seen[s] > 0
    BY <1>7 DEF HearOther
  <2>2. seen[s] =< Len(log) /\ seen[s] =< seen[s]
    BY <1>1 DEF Delivered
  <2>3. QED
    BY <1>1, <1>5, <2>1, <2>2
<1>8. CASE ListenerFails(s)
  <2>1. Len(log) =< Len(log)
    BY <1>1
  <2>2. Delivered("failed", Len(log), seen[s], accepted[s], queue[s], u)
    BY <1>1, <1>3, <2>1, Loosened
  <2>3. PlacesBecome(s, "failed", seen[s], accepted[s], queue[s], u)
    BY <1>1, <1>2, <1>8 DEF ListenerFails, PlacesBecome
  <2>4. QED
    BY <1>4, <2>2, <2>3, DeliveryOf
<1>9. CASE Stop(s)
  <2>1. PICK w : w = IF task[s].stage \in {"sent", "settling", "retaining"} THEN u ELSE NoTask
    OBVIOUS
  <2>2. w.stage = "idle" \/ (w.stage = task[s].stage /\ w.stage \notin {"merged", "answered"})
    BY <1>3, <2>1 DEF NoTask
  <2>3. Delivered("retired", Len(log), seen[s], 0, <<>>, w)
    BY <1>1, <2>2, Stopped
  <2>4. task' = [task EXCEPT ![s] = w]
    BY <1>2, <1>9, <2>1 DEF Stop
  <2>5. PlacesBecome(s, "retired", seen[s], 0, <<>>, w)
    BY <1>1, <1>9, <2>4 DEF Stop, PlacesBecome
  <2>6. QED
    BY <1>4, <2>3, <2>5, DeliveryOf
<1>10. QED
  BY <1>6, <1>7, <1>8, <1>9 DEF ListenerMoves

LEMMA DeliveryAcceptVersion ==
  ASSUME Types, Delivery, Dispatched, [Next]_<<scene, vars>>, NEW s \in Sessions, AcceptVersion(s)
  PROVE  Delivery'
<1>1. /\ seen[s] \in Nat /\ accepted[s] \in Nat /\ queue[s] \in Seq(Nat)
      /\ task[s] \in ActiveTask \cup {NoTask} /\ Len(log) \in Nat
      /\ Delivered(listener[s], Len(log), seen[s], accepted[s], queue[s], task[s])
      /\ seen = [seen EXCEPT ![s] = seen[s]] /\ task = [task EXCEPT ![s] = task[s]]
  BY PlacesOf
<1>2. queue[s] # <<>> /\ Head(queue[s]) # Result
  BY DEF AcceptVersion
<1>3. PICK version : version = Head(queue[s])
  OBVIOUS
<1>4. version \in Nat /\ version > 0
  BY <1>1, <1>2, <1>3 DEF Result
<1>5. PICK b : b = IF Trusted(accepted[s], version) THEN AfterAccepting(accepted[s], version) ELSE accepted[s]
  OBVIOUS
<1>6. b \in {accepted[s], Head(queue[s])} /\ (Trusted(accepted[s], version) => b > 0)
  BY <1>1, <1>3, <1>4, <1>5 DEF AfterAccepting, Verdict, Trusted
<1>7. PICK k : k = IF HeadIsLatest(queue[s]) /\ listener[s] = "listening"
                     THEN IF Trusted(accepted[s], version) THEN "healthy" ELSE "failed"
                     ELSE listener[s]
  OBVIOUS
<1>8. k = "healthy" => k = listener[s] \/ (b > 0 /\ HeadIsLatest(queue[s]))
  BY <1>6, <1>7
<1>9. Delivered(k, Len(log), seen[s], b, Tail(queue[s]), task[s])
  <2>1. PICK q \in Seq(Nat) : q = queue[s]
    BY <1>1
  <2>2. PICK a \in Nat : a = accepted[s]
    BY <1>1
  <2>3. PICK t \in ActiveTask \cup {NoTask} : t = task[s]
    BY <1>1
  <2>4. PICK l : l = listener[s]
    OBVIOUS
  <2>5. PICK v \in Nat : v = seen[s]
    BY <1>1
  <2>6. PICK n \in Nat : n = Len(log)
    BY <1>1
  <2>7. Delivered(l, n, v, a, q, t) /\ q # <<>> /\ Head(q) # Result /\ b \in {a, Head(q)}
    BY <1>1, <1>2, <1>6, <2>1, <2>2, <2>3, <2>4, <2>5, <2>6
  <2>8. k = "healthy" => k = l \/ (b > 0 /\ HeadIsLatest(q))
    BY <1>8, <2>1, <2>4
  <2>9. Delivered(k, n, v, b, Tail(q), t)
    BY <2>7, <2>8, TurnOfVersion
  <2>10. QED
    BY <2>1, <2>3, <2>5, <2>6, <2>9
<1>10. /\ queue' = [queue EXCEPT ![s] = Tail(queue[s])]
       /\ accepted' = [accepted EXCEPT ![s] = b]
  BY <1>3, <1>5 DEF AcceptVersion
<1>11. listener' = [listener EXCEPT ![s] = k]
  BY <1>3, <1>7 DEF AcceptVersion, HeadIsLatest
<1>12. UNCHANGED <<log, seen, task>>
  BY DEF AcceptVersion
<1>13. PlacesBecome(s, k, seen[s], b, Tail(queue[s]), task[s])
  BY <1>1, <1>10, <1>11, <1>12 DEF PlacesBecome
<1>14. QED
  BY <1>9, <1>12, <1>13, DeliveryOf

LEMMA DeliveryAcceptResult ==
  ASSUME Types, Delivery, Dispatched, [Next]_<<scene, vars>>, NEW s \in Sessions, AcceptResult(s)
  PROVE  Delivery'
<1>1. /\ seen[s] \in Nat /\ accepted[s] \in Nat /\ queue[s] \in Seq(Nat) /\ Len(log) \in Nat
      /\ Delivered(listener[s], Len(log), seen[s], accepted[s], queue[s], task[s])
      /\ listener = [listener EXCEPT ![s] = listener[s]] /\ seen = [seen EXCEPT ![s] = seen[s]]
      /\ accepted = [accepted EXCEPT ![s] = accepted[s]]
  BY PlacesOf
<1>2. task[s] \in ActiveTask
  BY TaskHolds
<1>3. PICK u \in ActiveTask \cup {NoTask} :
        /\ TaskBecomes(s, u)
        /\ Live(s) /\ queue[s] # <<>> /\ Head(queue[s]) = Result
        /\ queue' = [queue EXCEPT ![s] = Tail(@)]
        /\ UNCHANGED <<log, done, journal, listener, seen, shown, edit, faults>>
        /\ u = NoTask \/ (u.stage \in {"accepted", "failing"} /\ Same(u, task[s]))
        /\ \/ /\ task[s].auth
              /\ accepted' = [accepted EXCEPT ![s] = AfterAccepting(@, task[s].version)]
           \/ UNCHANGED accepted /\ (u = NoTask \/ Healthy(s))
  BY <1>2, AcceptResultStep
<1>4. u.stage \in {"idle", "accepted", "failing"} /\ (u = NoTask => u.stage = "idle")
  BY <1>3 DEF NoTask
<1>5. ASSUME NEW b \in {accepted[s], task[s].version}, b = accepted[s] \/ task[s].auth,
             u.stage # "idle" => task[s].auth \/ listener[s] = "healthy",
             accepted' = [accepted EXCEPT ![s] = b]
      PROVE  Delivery'
  <2>1. PICK q \in Seq(Nat) : q = queue[s]
    BY <1>1
  <2>2. PICK a \in Nat : a = accepted[s]
    BY <1>1
  <2>3. PICK t \in ActiveTask : t = task[s]
    BY <1>2
  <2>4. PICK l : l = listener[s]
    OBVIOUS
  <2>5. PICK v \in Nat : v = seen[s]
    BY <1>1
  <2>6. PICK n \in Nat : n = Len(log)
    BY <1>1
  <2>7. Delivered(l, n, v, a, q, t) /\ q # <<>> /\ Head(q) = Result
    BY <1>1, <1>3, <2>1, <2>2, <2>3, <2>4, <2>5, <2>6
  <2>8. b \in {a, t.version} /\ (b = a \/ t.auth)
    BY <1>5, <2>2, <2>3
  <2>9. u.stage # "idle" => t.auth \/ l = "healthy"
    BY <1>5, <2>3, <2>4
  <2>10. Delivered(l, n, v, b, Tail(q), u)
    BY <1>4, <2>7, <2>8, <2>9, TurnOfAnswer, SMTT(90)
  <2>11. PlacesBecome(s, l, v, b, Tail(q), u)
    BY <1>1, <1>3, <1>5, <2>1, <2>4, <2>5 DEF PlacesBecome, TaskBecomes
  <2>12. Len(log') = n
    BY <1>3, <2>6
  <2>13. QED
    BY <2>10, <2>11, <2>12, DeliveryOf
<1>6. CASE task[s].auth /\ accepted' = [accepted EXCEPT ![s] = AfterAccepting(@, task[s].version)]
  <2>1. PICK b : b = AfterAccepting(accepted[s], task[s].version)
    OBVIOUS
  <2>2. b \in {accepted[s], task[s].version}
    BY <2>1 DEF AfterAccepting
  <2>3. accepted' = [accepted EXCEPT ![s] = b]
    BY <1>6, <2>1
  <2>4. QED
    BY <1>5, <1>6, <2>2, <2>3
<1>7. CASE UNCHANGED accepted /\ (u = NoTask \/ Healthy(s))
  <2>1. accepted' = [accepted EXCEPT ![s] = accepted[s]]
    BY <1>1, <1>7
  <2>2. u.stage # "idle" => listener[s] = "healthy"
    BY <1>4, <1>7 DEF Healthy
  <2>3. QED
    BY <1>5, <2>1, <2>2
<1>8. QED
  BY <1>3, <1>6, <1>7

\* A step that changes a session's task and nothing else of its places, while
\* no answer waits.
LEMMA DeliveryTask ==
  ASSUME Types, Delivery, Dispatched, [Next]_<<scene, vars>>, NEW s \in Sessions,
         NEW u, TaskBecomes(s, u), UNCHANGED <<listener, seen, accepted, queue>>,
         task[s].stage # "answered", u.stage # "answered",
         u.stage # "idle" => seen[s] > 0 /\ (u.auth => NoVersions(queue[s])),
         u.stage = "merged" => u.version \in 1..Len(log') /\ (u.auth => accepted[s] =< u.version)
  PROVE  Delivery'
<1>1. /\ seen[s] \in Nat /\ accepted[s] \in Nat /\ queue[s] \in Seq(Nat)
      /\ task[s] \in ActiveTask \cup {NoTask}
      /\ Delivered(listener[s], Len(log), seen[s], accepted[s], queue[s], task[s])
      /\ listener = [listener EXCEPT ![s] = listener[s]] /\ seen = [seen EXCEPT ![s] = seen[s]]
      /\ accepted = [accepted EXCEPT ![s] = accepted[s]] /\ queue = [queue EXCEPT ![s] = queue[s]]
  BY PlacesOf
<1>2. Len(log) \in Nat /\ Len(log') \in Nat /\ Len(log) =< Len(log')
  BY LogGrows
<1>3. Delivered(listener[s], Len(log'), seen[s], accepted[s], queue[s], u)
  BY <1>1, <1>2, TaskMoves
<1>4. PlacesBecome(s, listener[s], seen[s], accepted[s], queue[s], u)
  BY <1>1 DEF PlacesBecome, TaskBecomes
<1>5. QED
  BY <1>3, <1>4, DeliveryOf

\* What a task under way may rely on.
LEMMA UnderWay ==
  ASSUME Types, Delivery, NEW s \in Sessions, Active(s)
  PROVE  seen[s] > 0 /\ seen[s] \in 1..Len(log) /\ accepted[s] =< seen[s]
         /\ (task[s].auth => NoVersions(queue[s]))
<1>1. /\ seen[s] \in Nat /\ Len(log) \in Nat
      /\ Delivered(listener[s], Len(log), seen[s], accepted[s], queue[s], task[s])
  BY PlacesOf
<1>2. QED
  BY <1>1 DEF Delivered, Ordered, Active

LEMMA DeliverySends ==
  ASSUME Types, Delivery, Dispatched, [Next]_<<scene, vars>>, NEW s \in Sessions, Sends(s)
  PROVE  Delivery'
<1>1. /\ seen[s] \in Nat /\ accepted[s] \in Nat
      /\ Delivered(listener[s], Len(log), seen[s], accepted[s], queue[s], task[s])
  BY PlacesOf
<1>2. PICK u : /\ TaskBecomes(s, u) /\ Healthy(s) /\ ~Active(s) /\ u.stage = "sent"
               /\ UNCHANGED <<listener, seen, accepted, queue>>
  BY DispatchStep DEF Sends
<1>3. seen[s] > 0 /\ NoVersions(queue[s])
  BY <1>1, <1>2 DEF Delivered, Ordered, Healthy
<1>4. QED
  BY <1>2, <1>3, DeliveryTask DEF Active

LEMMA DeliveryConcludes ==
  ASSUME Types, Delivery, Dispatched, [Next]_<<scene, vars>>, NEW s \in Sessions, Concludes(s)
  PROVE  Delivery'
<1>1. Active(s) /\ task[s].stage = "sent"
  BY DEF Concludes, AbortLocally, MergeAtDatabase, Active
<1>2. seen[s] \in DOMAIN log
  BY <1>1, TaskHolds
<1>3. PICK u : /\ TaskBecomes(s, u) /\ u.stage = "merged" /\ u.auth = task[s].auth
               /\ UNCHANGED <<listener, seen, accepted, queue>>
               /\ u.version = seen[s] \/ u.version = Len(log')
  BY <1>2, ConcludeStep DEF Concludes
<1>4. /\ seen[s] \in 1..Len(log) /\ accepted[s] =< seen[s] /\ seen[s] > 0
      /\ (task[s].auth => NoVersions(queue[s]))
  BY <1>1, UnderWay
<1>5. Len(log) \in Nat /\ Len(log') \in Nat \ {0} /\ Len(log) =< Len(log') /\ accepted[s] \in Nat
  BY LogGrows, PlacesOf
<1>6. u.version \in 1..Len(log') /\ accepted[s] =< u.version
  BY <1>3, <1>4, <1>5
<1>7. QED
  BY <1>1, <1>3, <1>4, <1>6, DeliveryTask

LEMMA DeliveryAnswer ==
  ASSUME Types, Delivery, Dispatched, [Next]_<<scene, vars>>, NEW s \in Sessions, Answer(s)
  PROVE  Delivery'
<1>1. /\ seen[s] \in Nat /\ accepted[s] \in Nat /\ queue[s] \in Seq(Nat) /\ Len(log) \in Nat
      /\ Delivered(listener[s], Len(log), seen[s], accepted[s], queue[s], task[s])
      /\ listener = [listener EXCEPT ![s] = listener[s]] /\ seen = [seen EXCEPT ![s] = seen[s]]
      /\ accepted = [accepted EXCEPT ![s] = accepted[s]]
  BY PlacesOf
<1>2. PICK u \in ActiveTask :
        /\ TaskBecomes(s, u) /\ task[s].stage = "merged" /\ task[s] \in ActiveTask
        /\ task[s].version =< seen[s] /\ u.auth = task[s].auth
        /\ UNCHANGED <<log, listener, seen, accepted>>
        /\ \/ u.stage = "failing" /\ UNCHANGED queue
           \/ /\ u.stage = "answered" /\ u.version \in {task[s].version, seen[s]}
              /\ queue' = [queue EXCEPT ![s] = Append(@, Result)]
  BY AnswerStep
<1>3. Active(s)
  BY <1>2 DEF Active
<1>4. seen[s] > 0 /\ (task[s].auth => NoVersions(queue[s]))
  BY <1>3, UnderWay
<1>5. CASE u.stage = "failing" /\ UNCHANGED queue
  BY <1>2, <1>4, <1>5, DeliveryTask
<1>6. CASE /\ u.stage = "answered" /\ u.version \in {task[s].version, seen[s]}
           /\ queue' = [queue EXCEPT ![s] = Append(@, Result)]
  <2>1. PICK t \in ActiveTask : t = task[s]
    BY <1>2
  <2>2. PICK q \in Seq(Nat) : q = queue[s]
    BY <1>1
  <2>3. PICK n \in Nat : n = Len(log)
    BY <1>1
  <2>4. PICK l : l = listener[s]
    OBVIOUS
  <2>5. PICK v \in Nat : v = seen[s]
    BY <1>1
  <2>6. PICK a \in Nat : a = accepted[s]
    BY <1>1
  <2>7. /\ Delivered(l, n, v, a, q, t) /\ t.stage = "merged" /\ t.version =< v
        /\ u.version \in {t.version, v} /\ u.auth = t.auth
    BY <1>1, <1>2, <1>6, <2>1, <2>2, <2>3, <2>4, <2>5, <2>6
  <2>8. Delivered(l, n, v, a, Append(q, Result), u)
    BY <1>6, <2>7, AnswerComes
  <2>9. PlacesBecome(s, l, v, a, Append(q, Result), u)
    BY <1>1, <1>2, <1>6, <2>2, <2>4, <2>5, <2>6 DEF PlacesBecome, TaskBecomes
  <2>10. Len(log') = n
    BY <1>2, <2>3
  <2>11. QED
    BY <2>8, <2>9, <2>10, DeliveryOf
<1>7. QED
  BY <1>2, <1>5, <1>6

LEMMA DeliveryEnds ==
  ASSUME Types, Delivery, Dispatched, [Next]_<<scene, vars>>, NEW s \in Sessions,
         CallFails(s) \/ ReadRecord(s) \/ WriteRecord(s)
  PROVE  Delivery'
<1>1. Active(s) /\ task[s].stage # "answered"
  BY DEF CallFails, ReadRecord, WriteRecord, Active
<1>2. seen[s] > 0 /\ (task[s].auth => NoVersions(queue[s]))
  BY <1>1, UnderWay
<1>3. UNCHANGED <<listener, seen, accepted, queue>>
  BY DEF CallFails, ReadRecord, WriteRecord
<1>4. NoTask.stage = "idle"
  BY DEF NoTask
<1>5. CASE CallFails(s)
  <2>1. PICK u : TaskBecomes(s, u) /\ u.stage = "failing" /\ u.auth = task[s].auth
    BY <1>5, FailStep
  <2>2. QED
    BY <1>1, <1>2, <1>3, <2>1, DeliveryTask
<1>6. CASE ReadRecord(s)
  <2>1. task[s].i \in DOMAIN journal[DeviceOf[s]]
    BY <1>1, TaskHolds DEF OfJournal, Concerns
  <2>2. PICK u : /\ TaskBecomes(s, u)
                 /\ u = NoTask \/ (u.stage \in {"settling", "retaining"} /\ task[s].auth)
    BY <1>6, <2>1, ReadStep
  <2>3. u.stage \in {"idle", "settling", "retaining"} /\ (u.stage # "idle" => task[s].auth)
    BY <1>4, <2>2
  <2>4. QED
    BY <1>1, <1>2, <1>3, <2>2, <2>3, DeliveryTask
<1>7. CASE WriteRecord(s)
  <2>1. TaskBecomes(s, NoTask)
    BY <1>7 DEF WriteRecord, TaskBecomes
  <2>2. QED
    BY <1>1, <1>3, <1>4, <2>1, DeliveryTask
<1>8. QED
  BY <1>5, <1>6, <1>7

LEMMA DeliveryStart ==
  ASSUME Types, Delivery, Dispatched, [Next]_<<scene, vars>>, NEW s \in Sessions, Start(s)
  PROVE  Delivery'
<1>1. /\ seen[s] \in Nat /\ accepted[s] \in Nat /\ queue[s] \in Seq(Nat) /\ Len(log) \in Nat
      /\ Delivered(listener[s], Len(log), seen[s], accepted[s], queue[s], task[s])
      /\ seen = [seen EXCEPT ![s] = seen[s]] /\ accepted = [accepted EXCEPT ![s] = accepted[s]]
      /\ queue = [queue EXCEPT ![s] = queue[s]] /\ task = [task EXCEPT ![s] = task[s]]
  BY PlacesOf
<1>2. UNCHANGED <<log, seen, accepted, queue, task>> /\ listener' = [listener EXCEPT ![s] = "listening"]
  BY DEF Start
<1>3. Len(log) =< Len(log)
  BY <1>1
<1>4. Delivered("listening", Len(log), seen[s], accepted[s], queue[s], task[s])
  BY <1>1, <1>3, Loosened
<1>5. PlacesBecome(s, "listening", seen[s], accepted[s], queue[s], task[s])
  BY <1>1, <1>2 DEF PlacesBecome
<1>6. QED
  BY <1>2, <1>4, <1>5, DeliveryOf

LEMMA DeliveryNext ==
  ASSUME Types, Delivery, Dispatched, [Next]_<<scene, vars>>
  PROVE  Delivery'
<1>1. ASSUME NEW s \in Sessions, Prepares(s) \/ CommitEdit(s) \/ Resolves(s) PROVE Delivery'
  <2>1. CASE Prepares(s)
    <3>1. UNCHANGED <<listener, seen, accepted, queue, task>>
      BY <2>1, PrepareStep DEF Prepares
    <3>2. QED
      BY <3>1, DeliveryFrame
  <2>2. CASE CommitEdit(s)
    <3>1. UNCHANGED <<listener, seen, accepted, queue, task>>
      BY <2>2 DEF CommitEdit
    <3>2. QED
      BY <3>1, DeliveryFrame
  <2>3. CASE Resolves(s)
    <3>1. UNCHANGED <<listener, seen, accepted, queue, task>>
      BY <2>3 DEF Resolves, AcceptConflict, ResolveReapplied
    <3>2. QED
      BY <3>1, DeliveryFrame
  <2>4. QED
    BY <1>1, <2>1, <2>2, <2>3
<1>2. ASSUME NEW d \in Devices, BackoffEnds(d) PROVE Delivery'
  <2>1. UNCHANGED <<listener, seen, accepted, queue, task>>
    BY <1>2 DEF BackoffEnds
  <2>2. QED
    BY <2>1, DeliveryFrame
<1>3. CASE UNCHANGED <<scene, vars>>
  <2>1. UNCHANGED <<listener, seen, accepted, queue, task>>
    BY <1>3 DEF vars
  <2>2. QED
    BY <2>1, DeliveryFrame
<1>4. ASSUME NEW s \in Sessions, CallFails(s) \/ ReadRecord(s) \/ WriteRecord(s) PROVE Delivery'
  BY <1>4, DeliveryEnds
<1>5. QED
  BY <1>1, <1>2, <1>3, <1>4, StepKinds, DeliveryStart, DeliveryListener, DeliveryAcceptVersion,
     DeliverySends, DeliveryConcludes, DeliveryAnswer, DeliveryAcceptResult

-----------------------------------------------------------------------------
(***************************************************************************)
(* Dispatch.                                                               *)
(***************************************************************************)
\* A longer log proves and keeps as much.
Extends(versions, longer) ==
  DOMAIN versions \subseteq DOMAIN longer /\ \A i \in DOMAIN versions : longer[i] = versions[i]

LEMMA WitnessesLast ==
  ASSUME NEW versions, NEW longer, Extends(versions, longer)
  PROVE  /\ \A o : Proven(versions, o) => Proven(longer, o)
         /\ \A o, lost : Kept(versions, o, lost) => Kept(longer, o, lost)
         /\ \A t : Witnessed(versions, t) => Witnessed(longer, t)
         /\ \A r : RecordKept(versions, r) => RecordKept(longer, r)
<1>1. ASSUME NEW o, Proven(versions, o) PROVE Proven(longer, o)
  BY <1>1 DEF Proven, Extends
<1>2. ASSUME NEW o, NEW lost, Kept(versions, o, lost) PROVE Kept(longer, o, lost)
  BY <1>2 DEF Kept, Extends
<1>3. ASSUME NEW t, Witnessed(versions, t) PROVE Witnessed(longer, t)
  BY <1>1, <1>2, <1>3 DEF Witnessed
<1>4. ASSUME NEW r, RecordKept(versions, r) PROVE RecordKept(longer, r)
  BY <1>1, <1>2, <1>4 DEF RecordKept, Extends
<1>5. QED
  BY <1>1, <1>2, <1>3, <1>4

LEMMA ConcernsLasts ==
  ASSUME Types, Delivery, Dispatched, Retained, [Next]_<<scene, vars>>, NEW d \in Devices,
         NEW t, Concerns(t, journal[d])
  PROVE  Concerns(t, journal'[d])
<1>1. \A i \in DOMAIN journal[d] : i \in DOMAIN journal'[d] /\ SameOperation(journal[d][i], journal'[d][i])
  BY JournalGrows
<1>2. QED
  BY <1>1 DEF Concerns, SameOperation

LEMMA DispatchedFrame ==
  ASSUME Types, Delivery, Dispatched, Retained, [Next]_<<scene, vars>>, UNCHANGED task
  PROVE  Dispatched'
<1> SUFFICES ASSUME NEW r \in Sessions, task[r].stage # "idle"
             PROVE  Concerns(task[r], journal'[DeviceOf[r]]) /\ Witnessed(log', task[r])
  BY DEF Dispatched, Active, OfJournal
<1>1. Concerns(task[r], journal[DeviceOf[r]]) /\ Witnessed(log, task[r]) /\ DeviceOf[r] \in Devices
  BY DeviceAssumption DEF Dispatched, Active, OfJournal
<1>2. Extends(log, log')
  BY LogStep DEF Extends
<1>3. QED
  BY <1>1, <1>2, ConcernsLasts, WitnessesLast

LEMMA DispatchedOf ==
  ASSUME Types, Delivery, Dispatched, Retained, [Next]_<<scene, vars>>, NEW s \in Sessions,
         NEW u \in ActiveTask \cup {NoTask}, TaskBecomes(s, u),
         u.stage # "idle" => Concerns(u, journal'[DeviceOf[s]]) /\ Witnessed(log', u)
  PROVE  Dispatched'
<1> SUFFICES ASSUME NEW r \in Sessions, task'[r].stage # "idle"
             PROVE  Concerns(task'[r], journal'[DeviceOf[r]]) /\ Witnessed(log', task'[r])
  BY DEF Dispatched, Active, OfJournal
<1>1. task'[s] = u /\ \A q \in Sessions : q # s => task'[q] = task[q]
  BY TaskBecomesTyped DEF Types
<1>2. CASE r = s
  BY <1>1, <1>2
<1>3. CASE r # s
  <2>1. task'[r] = task[r]
    BY <1>1, <1>3
  <2>2. Concerns(task[r], journal[DeviceOf[r]]) /\ Witnessed(log, task[r]) /\ DeviceOf[r] \in Devices
    BY <2>1, DeviceAssumption DEF Dispatched, Active, OfJournal
  <2>3. Extends(log, log')
    BY LogStep DEF Extends
  <2>4. QED
    BY <2>1, <2>2, <2>3, ConcernsLasts, WitnessesLast
<1>4. QED
  BY <1>2, <1>3

\* A task about the same operation in a stage of its own: what was witnessed
\* stays so.
LEMMA DispatchedMoves ==
  ASSUME Types, Delivery, Dispatched, Retained, [Next]_<<scene, vars>>, NEW s \in Sessions,
         NEW u \in ActiveTask, TaskBecomes(s, u), Active(s),
         u.i = task[s].i, u.saved.op = task[s].saved.op, u.saved.basis = task[s].saved.basis,
         u.verdict = task[s].verdict, u.lost = task[s].lost,
         u.stage \in {"merged", "answered", "accepted", "settling"} =>
           task[s].stage \in {"merged", "answered", "accepted", "settling"}
  PROVE  Dispatched'
<1>1. Concerns(task[s], journal[DeviceOf[s]]) /\ Witnessed(log, task[s]) /\ DeviceOf[s] \in Devices
  BY DeviceAssumption DEF Dispatched, OfJournal
<1>2. Extends(log, log')
  BY LogStep DEF Extends
<1>3. Concerns(task[s], journal'[DeviceOf[s]]) /\ Witnessed(log', task[s])
  BY <1>1, <1>2, ConcernsLasts, WitnessesLast
<1>4. Concerns(u, journal'[DeviceOf[s]]) /\ Witnessed(log', u)
  BY <1>3 DEF Concerns, Witnessed
<1>5. QED
  BY <1>4, DispatchedOf

\* The verdict of a merge has its witness among the versions.
LEMMA VerdictWitnessed ==
  ASSUME LogType, History, NEW o, WellFormed(o), NEW known, NEW versions, NEW i \in DOMAIN versions,
         \/ known \in {log[k] : k \in DOMAIN log} /\ versions[i] = known /\ ~Commits(known, o)
         \/ known \in Entity /\ Commits(known, o) /\ versions[i] = Merged(known, o)
  PROVE  IF MergeStatus(known, o) \in {"applied", "idempotent"} THEN Proven(versions, o)
         ELSE Kept(versions, o, ConflictFields(known, o))
<1>1. CASE known \in {log[k] : k \in DOMAIN log} /\ versions[i] = known /\ ~Commits(known, o)
  <2>1. MergeStatus(known, o) # "applied"
    BY <1>1 DEF Commits
  <2>2. Exists(Origin) => Exists(known)
    BY <1>1, OnlyTheOriginIsMissing
  <2>3. MergeStatus(known, o) = "idempotent" => Proven(versions, o)
    BY <1>1 DEF Proven
  <2>4. ASSUME Exists(Origin), o.kind = "patch", MergeStatus(known, o) # "idempotent"
        PROVE  \A f \in o.fields \ ConflictFields(known, o) : Settled(known, o, f)
    BY <1>1, <2>2, <2>4, RefusedIsSettled
  <2>5. QED
    BY <1>1, <2>1, <2>3, <2>4 DEF Kept
<1>2. CASE known \in Entity /\ Commits(known, o) /\ versions[i] = Merged(known, o)
  <2>1. /\ MergeStatus(known, o) = "applied" => MergeStatus(versions[i], o) = "idempotent"
        /\ o.kind = "patch" =>
             \A f \in o.fields \ ConflictFields(known, o) : Settled(versions[i], o, f)
    BY <1>2, CommittedIsSettled
  <2>2. MergeStatus(known, o) # "idempotent"
    BY <1>2 DEF Commits
  <2>3. QED
    BY <2>1, <2>2 DEF Proven, Kept
<1>3. QED
  BY <1>1, <1>2

LEMMA DispatchedConcludes ==
  ASSUME Types, History, Delivery, Dispatched, Retained, [Next]_<<scene, vars>>, NEW s \in Sessions, Concludes(s)
  PROVE  Dispatched'
<1>1. Active(s)
  BY DEF Concludes, AbortLocally, MergeAtDatabase, Active
<1>2. seen[s] \in DOMAIN log /\ task[s] \in ActiveTask
  BY <1>1, TaskHolds
<1>3. PICK u \in ActiveTask, known \in Entity :
        /\ TaskBecomes(s, u) /\ u.stage = "merged" /\ u.saved = task[s].saved /\ u.i = task[s].i
        /\ u.verdict = MergeStatus(known, u.saved.op)
        /\ u.lost = ConflictFields(known, u.saved.op)
        /\ \/ known = log[seen[s]] /\ ~Commits(known, u.saved.op) /\ UNCHANGED log
           \/ /\ known = entity
              /\ log' = IF Commits(known, u.saved.op) THEN Append(log, Merged(known, u.saved.op)) ELSE log
  BY <1>2, ConcludeStep DEF Concludes
<1>4. WellFormed(u.saved.op)
  BY DEF ActiveTask, Entry
<1>5. log \in Seq(Entity) /\ Len(log) \in DOMAIN log
  BY DEF Types, LogType
<1>6. Witnessed(log', u)
  <2>1. CASE ~Commits(known, u.saved.op)
    <3>1. PICK k \in DOMAIN log : known = log[k]
      BY <1>2, <1>3, <1>5 DEF entity
    <3>2. log' = log
      BY <1>3, <2>1
    <3>3. IF MergeStatus(known, u.saved.op) \in {"applied", "idempotent"} THEN Proven(log, u.saved.op)
          ELSE Kept(log, u.saved.op, ConflictFields(known, u.saved.op))
      BY <1>4, <2>1, <3>1, VerdictWitnessed DEF Types
    <3>4. QED
      BY <1>3, <3>2, <3>3 DEF Witnessed
  <2>2. CASE Commits(known, u.saved.op)
    <3>1. PICK n : n = Merged(known, u.saved.op)
      OBVIOUS
    <3>2. log' = Append(log, n)
      BY <1>3, <2>2, <3>1
    <3>3. PICK versions : versions = Append(log, n)
      OBVIOUS
    <3>4. Len(log) + 1 \in DOMAIN versions /\ versions[Len(log) + 1] = n
      BY <1>5, <3>3
    <3>5. IF MergeStatus(known, u.saved.op) \in {"applied", "idempotent"} THEN Proven(versions, u.saved.op)
          ELSE Kept(versions, u.saved.op, ConflictFields(known, u.saved.op))
      BY <1>4, <2>2, <3>1, <3>4, VerdictWitnessed DEF Types
    <3>6. QED
      BY <1>3, <3>2, <3>3, <3>5 DEF Witnessed
  <2>3. QED
    BY <2>1, <2>2
<1>7. Concerns(task[s], journal'[DeviceOf[s]])
  BY <1>1, ConcernsLasts, DeviceAssumption DEF Dispatched, OfJournal
<1>8. Concerns(u, journal'[DeviceOf[s]])
  BY <1>3, <1>7 DEF Concerns
<1>9. QED
  BY <1>3, <1>6, <1>8, DispatchedOf

LEMMA DispatchedInit == Init => Dispatched
  BY DEF Init, Dispatched, Active, NoTask

LEMMA DispatchedNext ==
  ASSUME Types, History, Delivery, Dispatched, Retained, [Next]_<<scene, vars>>
  PROVE  Dispatched'
<1>1. NoTask \in ActiveTask \cup {NoTask} /\ NoTask.stage = "idle"
  BY DEF NoTask
<1>2. ASSUME NEW s \in Sessions, TaskBecomes(s, NoTask) PROVE Dispatched'
  BY <1>1, <1>2, DispatchedOf
<1>3. ASSUME NEW s \in Sessions, NEW u \in ActiveTask, TaskBecomes(s, u), task[s] \in ActiveTask, Same(u, task[s]),
             u.stage \in {"merged", "answered", "accepted", "settling"} =>
               task[s].stage \in {"merged", "answered", "accepted", "settling"}
      PROVE  Dispatched'
  <2>1. Active(s)
    BY <1>3, ActiveIsTyped DEF Active
  <2>2. QED
    BY <1>3, <2>1, DispatchedMoves DEF Same
<1>4. ASSUME NEW s \in Sessions, ListenerMoves(s) PROVE Dispatched'
  <2>1. PICK u \in ActiveTask \cup {NoTask} :
          /\ TaskBecomes(s, u)
          /\ \/ u = NoTask
             \/ task[s] \in ActiveTask /\ u \in ActiveTask /\ u.stage = task[s].stage /\ Same(u, task[s])
    BY <1>4, ListenerStep DEF ListenerMoves
  <2>2. QED
    BY <1>2, <1>3, <2>1
<1>5. ASSUME NEW s \in Sessions, Sends(s) PROVE Dispatched'
  <2>1. PICK u \in ActiveTask, i \in DOMAIN journal[DeviceOf[s]] :
          /\ TaskBecomes(s, u) /\ u.stage = "sent" /\ u.i = i
          /\ u.saved = journal[DeviceOf[s]][i] /\ journal' = journal
    BY <1>5, DispatchStep DEF Sends
  <2>2. Concerns(u, journal'[DeviceOf[s]]) /\ Witnessed(log', u)
    BY <2>1 DEF Concerns, Witnessed
  <2>3. QED
    BY <2>1, <2>2, DispatchedOf
<1>6. ASSUME NEW s \in Sessions, CallFails(s) PROVE Dispatched'
  <2>1. PICK u \in ActiveTask :
          TaskBecomes(s, u) /\ task[s] \in ActiveTask /\ u.stage = "failing" /\ Same(u, task[s])
    BY <1>6, FailStep
  <2>2. QED
    BY <1>3, <2>1
<1>7. ASSUME NEW s \in Sessions, Answer(s) PROVE Dispatched'
  <2>1. PICK u \in ActiveTask :
          TaskBecomes(s, u) /\ task[s] \in ActiveTask /\ task[s].stage = "merged" /\ Same(u, task[s])
    BY <1>7, AnswerStep
  <2>2. QED
    BY <1>3, <2>1
<1>8. ASSUME NEW s \in Sessions, AcceptResult(s) PROVE Dispatched'
  <2>1. task[s] \in ActiveTask /\ task[s].stage = "answered"
    BY <1>8, TaskHolds
  <2>2. PICK u \in ActiveTask \cup {NoTask} :
          TaskBecomes(s, u) /\ (u = NoTask \/ (u.stage \in {"accepted", "failing"} /\ Same(u, task[s])))
    BY <1>8, <2>1, AcceptResultStep
  <2>3. QED
    BY <1>2, <1>3, <2>1, <2>2
<1>9. ASSUME NEW s \in Sessions, ReadRecord(s) PROVE Dispatched'
  <2>1. Active(s)
    BY <1>9 DEF ReadRecord, Active
  <2>2. OfJournal(s) /\ task[s].i \in DOMAIN journal[DeviceOf[s]]
    BY <2>1, TaskHolds DEF OfJournal, Concerns
  <2>3. PICK u \in ActiveTask \cup {NoTask} :
          /\ TaskBecomes(s, u) /\ task[s].stage \in {"accepted", "failing"}
          /\ \/ u = NoTask
             \/ /\ u.stage = IF task[s].stage = "accepted" THEN "settling" ELSE "retaining"
                /\ u.saved = journal[DeviceOf[s]][u.i] /\ u.i = task[s].i
                /\ u.verdict = task[s].verdict /\ u.lost = task[s].lost
    BY <1>9, <2>2, ReadStep
  <2>4. CASE u # NoTask
    <3>1. u \in ActiveTask
      BY <2>4
    <3>2. u.saved.op = task[s].saved.op /\ u.saved.basis = task[s].saved.basis
      BY <2>2, <2>3, <2>4 DEF OfJournal, Concerns
    <3>3. u.stage \in {"merged", "answered", "accepted", "settling"} => task[s].stage = "accepted"
      BY <2>3, <2>4
    <3>4. QED
      BY <2>1, <2>3, <2>4, <3>1, <3>2, <3>3, DispatchedMoves
  <2>5. QED
    BY <1>2, <2>3, <2>4
<1>10. ASSUME NEW s \in Sessions, WriteRecord(s) PROVE Dispatched'
  BY <1>2, <1>10 DEF WriteRecord, TaskBecomes
<1>11. ASSUME NEW s \in Sessions,
              Start(s) \/ AcceptVersion(s) \/ Prepares(s) \/ CommitEdit(s) \/ Resolves(s)
       PROVE  Dispatched'
  <2>1. CASE Start(s) \/ AcceptVersion(s) \/ CommitEdit(s)
    BY <2>1, DispatchedFrame DEF Start, AcceptVersion, CommitEdit
  <2>2. CASE Prepares(s)
    BY <2>2, PrepareStep, DispatchedFrame DEF Prepares
  <2>3. CASE Resolves(s)
    BY <2>3, DispatchedFrame DEF Resolves, AcceptConflict, ResolveReapplied
  <2>4. QED
    BY <1>11, <2>1, <2>2, <2>3
<1>12. ASSUME NEW d \in Devices, BackoffEnds(d) PROVE Dispatched'
  BY <1>12, DispatchedFrame DEF BackoffEnds
<1>13. CASE UNCHANGED <<scene, vars>>
  BY <1>13, DispatchedFrame DEF vars
<1>14. QED
  BY <1>4, <1>5, <1>6, <1>7, <1>8, <1>9, <1>10, <1>11, <1>12, <1>13, StepKinds, DispatchedConcludes

-----------------------------------------------------------------------------
(***************************************************************************)
(* Retained records.                                                       *)
(***************************************************************************)
LEMMA RetainedInit == Init => Retained
  BY DEF Init, Retained, EditKept, NoEdit

\* What becomes of the record i, and of the edit of each session.
LEMMA RecordsKept ==
  ASSUME Types, Delivery, Dispatched, Retained, [Next]_<<scene, vars>>
  PROVE  \A d \in Devices : \A i \in DOMAIN journal'[d] : RecordKept(log', journal'[d][i])
<1>1. Extends(log, log') /\ \A r : RecordKept(log, r) => RecordKept(log', r)
  <2>1. Extends(log, log')
    BY LogStep DEF Extends
  <2>2. QED
    BY <2>1, WitnessesLast
<1>2. \A d \in Devices : \A i \in DOMAIN journal[d] : RecordKept(log', journal[d][i])
  BY <1>1 DEF Retained
<1>3. CASE UNCHANGED journal
  BY <1>2, <1>3
<1>4. ASSUME NEW d \in Devices, NEW i \in DOMAIN journal[d], NEW r \in Entry,
             WritesRecord(d, i, r), RecordKept(log', r)
      PROVE  \A c \in Devices : \A k \in DOMAIN journal'[c] : RecordKept(log', journal'[c][k])
  <2>1. /\ DOMAIN journal'[d] = DOMAIN journal[d]
        /\ journal'[d][i] = r
        /\ \A j \in DOMAIN journal[d] : j # i => journal'[d][j] = journal[d][j]
        /\ \A c \in Devices : c # d => journal'[c] = journal[c]
    BY <1>4, WritesTyped DEF Types
  <2>2. ASSUME NEW c \in Devices, NEW k \in DOMAIN journal'[c] PROVE RecordKept(log', journal'[c][k])
    <3>1. CASE c = d /\ k = i
      BY <1>4, <2>1, <3>1
    <3>2. CASE c = d /\ k # i
      BY <1>2, <2>1, <2>2, <3>2
    <3>3. CASE c # d
      BY <1>2, <2>1, <2>2, <3>3
    <3>4. QED
      BY <3>1, <3>2, <3>3
  <2>3. QED
    BY <2>2
<1>5. ASSUME NEW s \in Sessions, WriteRecord(s)
      PROVE  \A c \in Devices : \A k \in DOMAIN journal'[c] : RecordKept(log', journal'[c][k])
  <2>1. Active(s) /\ DeviceOf[s] \in Devices
    BY <1>5, DeviceAssumption DEF WriteRecord, Active
  <2>2. /\ OfJournal(s) /\ task[s].i \in DOMAIN journal[DeviceOf[s]]
        /\ task[s].saved.op = journal[DeviceOf[s]][task[s].i].op
        /\ Witnessed(log, task[s])
    BY <2>1, TaskHolds DEF OfJournal, Concerns, Dispatched
  <2>3. PICK old : old = journal[DeviceOf[s]][task[s].i]
    OBVIOUS
  <2>4. RecordKept(log, old)
    BY <2>1, <2>2, <2>3 DEF Retained
  <2>5. CASE UNCHANGED journal
    BY <1>3, <2>5
  <2>6. CASE journal' # journal
    <3>1. PICK r \in Entry :
            /\ WritesRecord(DeviceOf[s], task[s].i, r) /\ SameOperation(old, r)
            /\ \/ /\ task[s].stage = "settling"
                  /\ IF task[s].verdict \in {"applied", "idempotent"}
                       THEN r.status = "acknowledged"
                       ELSE r.status = "conflict" /\ r.lost = task[s].lost
               \/ r.status \in {"pending", "blocked"}
               \/ r = old
      BY <1>5, <2>2, <2>3, <2>6, WriteStep
    <3>2. r.op = old.op /\ r.basis \in DOMAIN log
      BY <2>4, <3>1 DEF SameOperation, RecordKept
    <3>3. RecordKept(log, r)
      <4>1. CASE /\ task[s].stage = "settling"
                 /\ IF task[s].verdict \in {"applied", "idempotent"}
                      THEN r.status = "acknowledged"
                      ELSE r.status = "conflict" /\ r.lost = task[s].lost
        BY <2>2, <2>3, <3>2, <4>1 DEF Witnessed, RecordKept
      <4>2. CASE r.status \in {"pending", "blocked"}
        BY <3>2, <4>2 DEF RecordKept
      <4>3. QED
        BY <2>4, <3>1, <4>1, <4>2
    <3>4. QED
      BY <1>1, <1>4, <2>1, <2>2, <3>1, <3>3
  <2>7. QED
    BY <2>5, <2>6
<1>6. ASSUME NEW s \in Sessions, Resolves(s)
      PROVE  \A c \in Devices : \A k \in DOMAIN journal'[c] : RecordKept(log', journal'[c][k])
  <2>1. PICK i \in DOMAIN journal[DeviceOf[s]], r \in Entry :
          /\ r = Resolved(journal[DeviceOf[s]][i])
          /\ WritesRecord(DeviceOf[s], i, r)
    BY <1>6, ResolveStep DEF Retained, EditKept, Resolves
  <2>2. DeviceOf[s] \in Devices
    BY DeviceAssumption
  <2>3. PICK old \in Entry : old = journal[DeviceOf[s]][i]
    BY <2>2, RecordOfJournal DEF Types
  <2>4. /\ SameOperation(old, r) /\ r.lost = old.lost
        /\ IF old.status = "conflict" THEN r.status = "resolved" ELSE r = old
    BY <2>1, <2>3, ResolvedRecord DEF Entry
  <2>5. RecordKept(log, old)
    BY <2>2, <2>3 DEF Retained
  <2>6. RecordKept(log, r)
    BY <2>4, <2>5 DEF RecordKept, SameOperation
  <2>7. QED
    BY <1>1, <1>4, <2>1, <2>2, <2>6
<1>7. ASSUME NEW d \in Devices, BackoffEnds(d)
      PROVE  \A c \in Devices : \A k \in DOMAIN journal'[c] : RecordKept(log', journal'[c][k])
  <2>1. PICK i \in DOMAIN journal[d], r \in Entry :
          WritesRecord(d, i, r) /\ SameOperation(journal[d][i], r) /\ r.status = "pending"
    BY <1>7, BackoffStep
  <2>2. RecordKept(log, journal[d][i])
    BY DEF Retained
  <2>3. RecordKept(log, r)
    BY <2>1, <2>2 DEF RecordKept, SameOperation
  <2>4. QED
    BY <1>1, <1>4, <2>1, <2>3
<1>8. ASSUME NEW s \in Sessions, CommitEdit(s)
      PROVE  \A c \in Devices : \A k \in DOMAIN journal'[c] : RecordKept(log', journal'[c][k])
  <2>1. CASE UNCHANGED journal
    BY <1>3, <2>1
  <2>2. CASE journal' = [journal EXCEPT ![DeviceOf[s]] = Append(@, Queued(edit[s].op, edit[s].basis))]
    <3>1. edit[s].phase = "prepared"
      BY <1>8 DEF CommitEdit
    <3>2. PICK r \in Entry : r = Queued(edit[s].op, edit[s].basis) /\ r.basis = edit[s].basis /\ r.status = "pending"
      BY <3>1, QueuedRecord DEF Types, EditTyped
    <3>3. RecordKept(log, r)
      BY <3>1, <3>2 DEF Retained, EditKept, RecordKept
    <3>4. DeviceOf[s] \in Devices /\ journal[DeviceOf[s]] \in Seq(Entry)
      BY DeviceAssumption DEF Types, JournalType
    <3>5. PICK j : j = Append(journal[DeviceOf[s]], r)
      OBVIOUS
    <3>6. \A k \in DOMAIN j : j[k] = r \/ (k \in DOMAIN journal[DeviceOf[s]] /\ j[k] = journal[DeviceOf[s]][k])
      BY <3>2, <3>4, <3>5
    <3>7. journal' = [journal EXCEPT ![DeviceOf[s]] = j]
      BY <2>2, <3>2, <3>5
    <3>8. journal'[DeviceOf[s]] = j /\ \A c \in Devices : c # DeviceOf[s] => journal'[c] = journal[c]
      BY <3>4, <3>7 DEF Types, JournalType
    <3>9. ASSUME NEW c \in Devices, NEW k \in DOMAIN journal'[c] PROVE RecordKept(log', journal'[c][k])
      <4>1. CASE c = DeviceOf[s]
        BY <1>1, <1>2, <3>3, <3>6, <3>8, <3>9, <4>1
      <4>2. CASE c # DeviceOf[s]
        BY <1>2, <3>8, <3>9, <4>2
      <4>3. QED
        BY <4>1, <4>2
    <3>10. QED
      BY <3>9
  <2>3. QED
    BY <1>8, <2>1, <2>2, CommitStep
<1>9. ASSUME NEW s \in Sessions,
               \/ Start(s) \/ ListenerMoves(s) \/ AcceptVersion(s) \/ Prepares(s)
               \/ Sends(s) \/ Concludes(s) \/ CallFails(s) \/ Answer(s)
               \/ AcceptResult(s) \/ ReadRecord(s)
      PROVE  UNCHANGED journal
  BY <1>9, JournalRests
<1>10. CASE UNCHANGED <<scene, vars>>
  BY <1>3, <1>10 DEF vars
<1>11. QED
  BY <1>3, <1>5, <1>6, <1>7, <1>8, <1>9, <1>10, StepKinds

LEMMA EditsKept ==
  ASSUME Types, Delivery, Dispatched, Retained, [Next]_<<scene, vars>>, NEW r \in Sessions
  PROVE  EditKept(log', journal'[DeviceOf[r]], edit'[r])
<1>1. DOMAIN log \subseteq DOMAIN log' /\ DOMAIN journal[DeviceOf[r]] \subseteq DOMAIN journal'[DeviceOf[r]]
  BY LogStep, JournalGrows, DeviceAssumption
<1>2. EditKept(log', journal'[DeviceOf[r]], edit[r])
  BY <1>1 DEF Retained, EditKept
<1>3. CASE edit'[r] = edit[r]
  BY <1>2, <1>3
<1>4. ASSUME NEW s \in Sessions, NEW e, edit' = [edit EXCEPT ![s] = e],
             s = r => EditKept(log', journal'[DeviceOf[r]], e)
      PROVE  EditKept(log', journal'[DeviceOf[r]], edit'[r])
  <2>1. edit'[r] = IF s = r THEN e ELSE edit[r]
    BY <1>4 DEF Types, EditTyped
  <2>2. QED
    BY <1>2, <1>4, <2>1
<1>5. EditKept(log', journal'[DeviceOf[r]], NoEdit)
  BY DEF EditKept, NoEdit
<1>6. ASSUME NEW s \in Sessions, Prepares(s) PROVE EditKept(log', journal'[DeviceOf[r]], edit'[r])
  <2>1. PICK e : /\ Healthy(s) /\ edit' = [edit EXCEPT ![s] = e]
                 /\ e.phase = "prepared" /\ e.basis = accepted[s]
                 /\ e.resolves = 0 \/ e.resolves \in DOMAIN journal[DeviceOf[s]]
    BY <1>6, PrepareStep DEF Prepares
  <2>2. /\ accepted[s] \in Nat /\ seen[s] \in Nat /\ Len(log) \in Nat
        /\ Delivered(listener[s], Len(log), seen[s], accepted[s], queue[s], task[s])
    BY PlacesOf
  <2>3. accepted[s] \in 1..Len(log)
    BY <2>1, <2>2 DEF Delivered, Ordered, Healthy
  <2>4. accepted[s] \in DOMAIN log
    BY <2>3 DEF Types, LogType
  <2>5. s = r => EditKept(log', journal'[DeviceOf[r]], e)
    BY <1>1, <2>1, <2>4 DEF EditKept
  <2>6. QED
    BY <1>4, <2>1, <2>5
<1>7. ASSUME NEW s \in Sessions, CommitEdit(s) PROVE EditKept(log', journal'[DeviceOf[r]], edit'[r])
  <2>1. PICK e : /\ edit[s].phase = "prepared" /\ edit' = [edit EXCEPT ![s] = e]
                 /\ \/ e.phase = "none"
                    \/ e.phase = "resolving" /\ e.resolves = edit[s].resolves /\ edit[s].resolves # 0
    BY <1>7, CommitStep
  <2>2. s = r => EditKept(log', journal'[DeviceOf[r]], e)
    BY <1>2, <2>1 DEF EditKept
  <2>3. QED
    BY <1>4, <2>1, <2>2
<1>8. ASSUME NEW s \in Sessions, Resolves(s) \/ ListenerMoves(s)
      PROVE  EditKept(log', journal'[DeviceOf[r]], edit'[r])
  <2>1. UNCHANGED edit \/ edit' = [edit EXCEPT ![s] = NoEdit]
    BY <1>8 DEF Resolves, AcceptConflict, ResolveReapplied, ListenerMoves, HearVersion, HearOther, Hear,
                ListenerFails, Stop
  <2>2. QED
    BY <1>3, <1>4, <1>5, <2>1
<1>9. ASSUME NEW s \in Sessions,
             \/ Start(s) \/ AcceptVersion(s) \/ Sends(s) \/ Concludes(s) \/ CallFails(s)
             \/ Answer(s) \/ AcceptResult(s) \/ ReadRecord(s) \/ WriteRecord(s)
      PROVE  UNCHANGED edit
  BY <1>9, EditRests
<1>10. ASSUME NEW d \in Devices, BackoffEnds(d) PROVE UNCHANGED edit
  BY <1>10 DEF BackoffEnds
<1>11. CASE UNCHANGED <<scene, vars>>
  BY <1>3, <1>11 DEF vars
<1>12. QED
  BY <1>3, <1>6, <1>7, <1>8, <1>9, <1>10, <1>11, StepKinds

LEMMA RetainedNext ==
  ASSUME Types, Delivery, Dispatched, Retained, [Next]_<<scene, vars>>
  PROVE  Retained'
  BY RecordsKept, EditsKept DEF Retained

-----------------------------------------------------------------------------
(***************************************************************************)
(* Ids.                                                                    *)
(***************************************************************************)
LEMMA IdsInit == Init => IdsAreNew
  BY DEF Init, IdsAreNew, NoEdit

\* The id of a record, or of a prepared edit, is taken.
LEMMA TakenIds ==
  /\ \A d \in Devices : \A i \in DOMAIN journal[d] : journal[d][i].op.id \in Ids
  /\ \A s \in Sessions : edit[s].phase = "prepared" => edit[s].op.id \in Ids
<1>1. ASSUME NEW d \in Devices, NEW i \in DOMAIN journal[d]
      PROVE  journal[d][i].op.id \in Ids
  <2>1. journal[d][i] \in ToSet(journal[d])
    BY DEF ToSet
  <2>2. journal[d][i] \in UNION {ToSet(journal[c]) : c \in Devices}
    BY <2>1
  <2>3. QED
    BY <2>2 DEF Ids
<1>2. ASSUME NEW s \in Sessions, edit[s].phase = "prepared"
      PROVE  edit[s].op.id \in Ids
  BY <1>2 DEF Ids
<1>3. QED
  BY <1>1, <1>2

\* No id is taken: each record keeps its own, no edit is prepared.
LEMMA IdsFrame ==
  ASSUME IdsAreNew,
         \A d \in Devices : /\ DOMAIN journal'[d] = DOMAIN journal[d]
                            /\ \A i \in DOMAIN journal[d] : journal'[d][i].op = journal[d][i].op,
         \A s \in Sessions : edit'[s] = edit[s] \/ edit'[s].phase # "prepared"
  PROVE  IdsAreNew'
<1>1. ASSUME NEW c \in Devices, NEW d \in Devices, NEW i \in DOMAIN journal'[c], NEW j \in DOMAIN journal'[d],
             journal'[c][i].op.id = journal'[d][j].op.id
      PROVE  c = d /\ i = j
  <2>1. i \in DOMAIN journal[c] /\ j \in DOMAIN journal[d] /\ journal[c][i].op.id = journal[d][j].op.id
    BY <1>1
  <2>2. QED
    BY <2>1 DEF IdsAreNew
<1>2. ASSUME NEW s \in Sessions, edit'[s].phase = "prepared", NEW d \in Devices, NEW i \in DOMAIN journal'[d]
      PROVE  journal'[d][i].op.id # edit'[s].op.id
  <2>1. edit'[s] = edit[s] /\ edit[s].phase = "prepared" /\ i \in DOMAIN journal[d]
        /\ journal'[d][i].op = journal[d][i].op
    BY <1>2
  <2>2. QED
    BY <2>1 DEF IdsAreNew
<1>3. ASSUME NEW s \in Sessions, edit'[s].phase = "prepared", NEW t \in Sessions, edit'[t].phase = "prepared",
             edit'[t].op.id = edit'[s].op.id
      PROVE  s = t
  <2>1. edit'[s] = edit[s] /\ edit'[t] = edit[t]
    BY <1>3
  <2>2. QED
    BY <1>3, <2>1 DEF IdsAreNew
<1>4. QED
  BY <1>1, <1>2, <1>3 DEF IdsAreNew

LEMMA IdsPrepare ==
  ASSUME Types, IdsAreNew, NEW s \in Sessions, Prepares(s)
  PROVE  IdsAreNew'
<1>1. PICK e : /\ edit' = [edit EXCEPT ![s] = e] /\ e.op.id \notin Ids /\ UNCHANGED journal
  BY PrepareStep DEF Prepares
<1>2. /\ edit'[s] = e /\ \A t \in Sessions : t # s => edit'[t] = edit[t]
  BY <1>1 DEF Types, EditTyped
<1>3. ASSUME NEW t \in Sessions, edit'[t].phase = "prepared", NEW d \in Devices, NEW i \in DOMAIN journal[d]
      PROVE  journal[d][i].op.id # edit'[t].op.id
  <2>1. CASE t = s
    BY <1>1, <1>2, <2>1, TakenIds
  <2>2. CASE t # s
    BY <1>2, <1>3, <2>2 DEF IdsAreNew
  <2>3. QED
    BY <2>1, <2>2
<1>4. ASSUME NEW t \in Sessions, edit'[t].phase = "prepared", NEW r \in Sessions, edit'[r].phase = "prepared",
             edit'[r].op.id = edit'[t].op.id
      PROVE  t = r
  <2>1. CASE t = s /\ r # s
    BY <1>1, <1>2, <1>4, <2>1, TakenIds
  <2>2. CASE t # s /\ r = s
    BY <1>1, <1>2, <1>4, <2>2, TakenIds
  <2>3. CASE t # s /\ r # s
    BY <1>2, <1>4, <2>3 DEF IdsAreNew
  <2>4. QED
    BY <2>1, <2>2, <2>3
<1>5. QED
  BY <1>1, <1>3, <1>4 DEF IdsAreNew

LEMMA IdsCommit ==
  ASSUME Types, IdsAreNew, NEW s \in Sessions, CommitEdit(s),
         journal' = [journal EXCEPT ![DeviceOf[s]] = Append(@, Queued(edit[s].op, edit[s].basis))]
  PROVE  IdsAreNew'
<1> DEFINE home == DeviceOf[s]
<1>1. edit[s].phase = "prepared" /\ home \in Devices /\ journal[home] \in Seq(Entry)
  BY DeviceAssumption DEF CommitEdit, Types, JournalType
<1>2. PICK r \in Entry : r = Queued(edit[s].op, edit[s].basis) /\ r.op = edit[s].op
  BY <1>1, QueuedRecord DEF Types, EditTyped
<1>3. PICK n : n = Len(journal[home]) + 1
  OBVIOUS
<1>4. PICK j : j = Append(journal[home], r)
  OBVIOUS
<1>5. /\ DOMAIN j = DOMAIN journal[home] \cup {n} /\ j[n] = r /\ n \notin DOMAIN journal[home]
      /\ \A k \in DOMAIN journal[home] : j[k] = journal[home][k]
  BY <1>1, <1>2, <1>3, <1>4
<1>6. journal' = [journal EXCEPT ![home] = j]
  BY <1>2, <1>4
<1>7. journal'[home] = j /\ \A c \in Devices : c # home => journal'[c] = journal[c]
  BY <1>1, <1>6 DEF Types, JournalType
<1>8. PICK e : edit' = [edit EXCEPT ![s] = e] /\ e.phase \in {"none", "resolving"}
  BY CommitStep
<1>9. edit'[s] = e /\ \A t \in Sessions : t # s => edit'[t] = edit[t]
  BY <1>8 DEF Types, EditTyped
\* A record of a new journal is an old one, or the new one.
<1>10. ASSUME NEW c \in Devices, NEW i \in DOMAIN journal'[c]
       PROVE  \/ i \in DOMAIN journal[c] /\ journal'[c][i] = journal[c][i]
              \/ c = home /\ i = n /\ journal'[c][i] = r
  BY <1>5, <1>7, <1>10
<1>11. \A c \in Devices : \A i \in DOMAIN journal[c] : journal[c][i].op.id # r.op.id
  BY <1>1, <1>2 DEF IdsAreNew
<1>12. ASSUME NEW c \in Devices, NEW d \in Devices, NEW i \in DOMAIN journal'[c], NEW k \in DOMAIN journal'[d],
              journal'[c][i].op.id = journal'[d][k].op.id
       PROVE  c = d /\ i = k
  <2>1. CASE i \in DOMAIN journal[c] /\ journal'[c][i] = journal[c][i]
    <3>1. CASE k \in DOMAIN journal[d] /\ journal'[d][k] = journal[d][k]
      BY <1>12, <2>1, <3>1 DEF IdsAreNew
    <3>2. CASE journal'[d][k] = r
      BY <1>11, <1>12, <2>1, <3>2
    <3>3. QED
      BY <1>10, <3>1, <3>2
  <2>2. CASE c = home /\ i = n /\ journal'[c][i] = r
    <3>1. CASE k \in DOMAIN journal[d] /\ journal'[d][k] = journal[d][k]
      BY <1>11, <1>12, <2>2, <3>1
    <3>2. CASE d = home /\ k = n
      BY <2>2, <3>2
    <3>3. QED
      BY <1>10, <3>1, <3>2
  <2>3. QED
    BY <1>10, <2>1, <2>2
<1>13. ASSUME NEW t \in Sessions, edit'[t].phase = "prepared", NEW c \in Devices, NEW i \in DOMAIN journal'[c]
       PROVE  journal'[c][i].op.id # edit'[t].op.id
  <2>1. t # s /\ edit'[t] = edit[t]
    BY <1>8, <1>9, <1>13
  <2>2. edit[t].op.id # edit[s].op.id
    BY <1>1, <1>13, <2>1 DEF IdsAreNew
  <2>3. CASE i \in DOMAIN journal[c] /\ journal'[c][i] = journal[c][i]
    BY <1>13, <2>1, <2>3 DEF IdsAreNew
  <2>4. CASE journal'[c][i] = r
    BY <1>2, <2>1, <2>2, <2>4
  <2>5. QED
    BY <1>10, <2>3, <2>4
<1>14. ASSUME NEW t \in Sessions, edit'[t].phase = "prepared", NEW q \in Sessions, edit'[q].phase = "prepared",
              edit'[q].op.id = edit'[t].op.id
       PROVE  t = q
  <2>1. edit'[t] = edit[t] /\ edit'[q] = edit[q]
    BY <1>8, <1>9, <1>14
  <2>2. QED
    BY <1>14, <2>1 DEF IdsAreNew
<1>15. QED
  BY <1>12, <1>13, <1>14 DEF IdsAreNew

\* The edit of a session is kept, ends or is prepared.
LEMMA EditStep ==
  ASSUME Types, Delivery, Dispatched, [Next]_<<scene, vars>>, NEW r \in Sessions
  PROVE  \/ edit'[r] = edit[r] \/ edit'[r].phase # "prepared" \/ Prepares(r)
<1>1. ASSUME NEW s \in Sessions, NEW e, edit' = [edit EXCEPT ![s] = e]
      PROVE  edit'[r] = IF s = r THEN e ELSE edit[r]
  BY <1>1 DEF Types, EditTyped
<1>2. NoEdit.phase # "prepared"
  BY DEF NoEdit
<1>3. ASSUME NEW s \in Sessions, Prepares(s) PROVE edit'[r] = edit[r] \/ Prepares(r)
  <2>1. \E e : edit' = [edit EXCEPT ![s] = e]
    BY <1>3, PrepareStep DEF Prepares
  <2>2. QED
    BY <1>1, <1>3, <2>1
<1>4. ASSUME NEW s \in Sessions, CommitEdit(s) PROVE edit'[r] = edit[r] \/ edit'[r].phase # "prepared"
  <2>1. \E e : edit' = [edit EXCEPT ![s] = e] /\ e.phase # "prepared"
    BY <1>4, CommitStep
  <2>2. QED
    BY <1>1, <2>1
<1>5. ASSUME NEW s \in Sessions, Resolves(s) \/ ListenerMoves(s)
      PROVE  edit'[r] = edit[r] \/ edit'[r].phase # "prepared"
  <2>1. UNCHANGED edit \/ edit' = [edit EXCEPT ![s] = NoEdit]
    BY <1>5 DEF Resolves, AcceptConflict, ResolveReapplied, ListenerMoves, HearVersion, HearOther, Hear,
                ListenerFails, Stop
  <2>2. QED
    BY <1>1, <1>2, <2>1
<1>6. ASSUME NEW s \in Sessions,
             \/ Start(s) \/ AcceptVersion(s) \/ Sends(s) \/ Concludes(s) \/ CallFails(s)
             \/ Answer(s) \/ AcceptResult(s) \/ ReadRecord(s) \/ WriteRecord(s)
      PROVE  UNCHANGED edit
  BY <1>6, EditRests
<1>7. ASSUME NEW d \in Devices, BackoffEnds(d) PROVE UNCHANGED edit
  BY <1>7 DEF BackoffEnds
<1>8. CASE UNCHANGED <<scene, vars>>
  BY <1>8 DEF vars
<1>9. QED
  BY <1>3, <1>4, <1>5, <1>6, <1>7, <1>8, StepKinds

LEMMA IdsNext ==
  ASSUME Types, Delivery, Dispatched, Retained, IdsAreNew, [Next]_<<scene, vars>>
  PROVE  IdsAreNew'
<1>1. CASE \E s \in Sessions : Prepares(s)
  BY <1>1, IdsPrepare
<1>2. CASE \E s \in Sessions :
             /\ CommitEdit(s)
             /\ journal' = [journal EXCEPT ![DeviceOf[s]] = Append(@, Queued(edit[s].op, edit[s].basis))]
  BY <1>2, IdsCommit
<1>3. ASSUME \A s \in Sessions : ~Prepares(s),
             \A d \in Devices : /\ DOMAIN journal'[d] = DOMAIN journal[d]
                                /\ \A i \in DOMAIN journal[d] : journal'[d][i].op = journal[d][i].op
      PROVE  IdsAreNew'
  <2>1. \A r \in Sessions : edit'[r] = edit[r] \/ edit'[r].phase # "prepared"
    BY <1>3, EditStep
  <2>2. QED
    BY <1>3, <2>1, IdsFrame
<1>4. ASSUME NEW d \in Devices, NEW i \in DOMAIN journal[d], NEW r \in Entry,
             WritesRecord(d, i, r), SameOperation(journal[d][i], r)
      PROVE  \A c \in Devices : /\ DOMAIN journal'[c] = DOMAIN journal[c]
                                /\ \A k \in DOMAIN journal[c] : journal'[c][k].op = journal[c][k].op
  <2>1. /\ DOMAIN journal'[d] = DOMAIN journal[d]
        /\ journal'[d][i] = r
        /\ \A j \in DOMAIN journal[d] : j # i => journal'[d][j] = journal[d][j]
        /\ \A c \in Devices : c # d => journal'[c] = journal[c]
    BY <1>4, WritesTyped DEF Types
  <2>2. QED
    BY <1>4, <2>1 DEF SameOperation
<1>5. QED
  BY <1>1, <1>2, <1>3, <1>4, JournalStep

-----------------------------------------------------------------------------
(***************************************************************************)
(* One tab.                                                                *)
(***************************************************************************)
LEMMA OneTabInit == Init => OneTab
  BY DEF Init, OneTab, Active, NoTask, Live, Listening

\* A record's status changes only when a live session writes the record of its
\* task, or resolves a conflict.
LEMMA StatusStep ==
  ASSUME Types, Delivery, Dispatched, Retained, [Next]_<<scene, vars>>,
         NEW d \in Devices, NEW i \in DOMAIN journal[d]
  PROVE  \/ journal'[d][i].status = journal[d][i].status
         \/ journal[d][i].status = "conflict" /\ journal'[d][i].status = "resolved"
         \/ \E s \in Sessions : /\ WriteRecord(s) /\ Live(s) /\ DeviceOf[s] = d /\ task[s].i = i
                                /\ Active(s)
<1>1. ASSUME NEW c \in Devices, NEW k \in DOMAIN journal[c], NEW r \in Entry, WritesRecord(c, k, r)
      PROVE  journal'[d][i] = IF c = d /\ k = i THEN r ELSE journal[d][i]
  <2>1. /\ journal'[c][k] = r
        /\ \A j \in DOMAIN journal[c] : j # k => journal'[c][j] = journal[c][j]
        /\ \A b \in Devices : b # c => journal'[b] = journal[b]
    BY <1>1, WritesTyped DEF Types
  <2>2. QED
    BY <2>1
<1>2. ASSUME NEW s \in Sessions, WriteRecord(s)
      PROVE  journal'[d][i] = journal[d][i] \/ (Live(s) /\ DeviceOf[s] = d /\ task[s].i = i /\ Active(s))
  <2>1. Active(s) /\ DeviceOf[s] \in Devices
    BY <1>2, DeviceAssumption DEF WriteRecord, Active
  <2>2. OfJournal(s) /\ task[s].i \in DOMAIN journal[DeviceOf[s]]
    BY <2>1, TaskHolds DEF OfJournal, Concerns
  <2>3. \/ UNCHANGED journal
        \/ Live(s) /\ \E r \in Entry : WritesRecord(DeviceOf[s], task[s].i, r)
    BY <1>2, <2>2, WriteStep
  <2>4. QED
    BY <1>1, <2>1, <2>2, <2>3
<1>3. ASSUME NEW s \in Sessions, Resolves(s)
      PROVE  \/ journal'[d][i] = journal[d][i]
             \/ journal[d][i].status = "conflict" /\ journal'[d][i].status = "resolved"
  <2>1. PICK k \in DOMAIN journal[DeviceOf[s]], r \in Entry :
          r = Resolved(journal[DeviceOf[s]][k]) /\ WritesRecord(DeviceOf[s], k, r)
    BY <1>3, ResolveStep DEF Retained, EditKept, Resolves
  <2>2. PICK old \in Entry : old = journal[DeviceOf[s]][k]
    BY <2>1, DeviceAssumption, RecordOfJournal DEF Types
  <2>3. IF old.status = "conflict" THEN r.status = "resolved" ELSE r = old
    BY <2>1, <2>2, ResolvedRecord DEF Entry
  <2>4. QED
    BY <1>1, <2>1, <2>2, <2>3, DeviceAssumption
<1>4. ASSUME NEW c \in Devices, BackoffEnds(c) PROVE journal'[d][i].status = journal[d][i].status
  BY <1>1, <1>4, BackoffStep
<1>5. ASSUME NEW s \in Sessions, CommitEdit(s) PROVE journal'[d][i] = journal[d][i]
  <2>1. CASE UNCHANGED journal
    BY <2>1
  <2>2. CASE journal' = [journal EXCEPT ![DeviceOf[s]] = Append(@, Queued(edit[s].op, edit[s].basis))]
    <3>1. edit[s].phase = "prepared" /\ DeviceOf[s] \in Devices
      BY <1>5, DeviceAssumption DEF CommitEdit
    <3>2. PICK r \in Entry : r = Queued(edit[s].op, edit[s].basis)
      BY <3>1, QueuedRecord DEF Types, EditTyped
    <3>3. journal \in [Devices -> Seq(Entry)]
      BY DEF Types, JournalType
    <3>4. PICK j : j = Append(journal[DeviceOf[s]], r)
      OBVIOUS
    <3>5. \A k \in DOMAIN journal[DeviceOf[s]] : j[k] = journal[DeviceOf[s]][k]
      BY <3>1, <3>3, <3>4
    <3>6. journal' = [journal EXCEPT ![DeviceOf[s]] = j]
      BY <2>2, <3>2, <3>4
    <3>7. QED
      BY <3>1, <3>3, <3>5, <3>6
  <2>3. QED
    BY <1>5, <2>1, <2>2, CommitStep
<1>6. ASSUME NEW s \in Sessions,
               \/ Start(s) \/ ListenerMoves(s) \/ AcceptVersion(s) \/ Prepares(s)
               \/ Sends(s) \/ Concludes(s) \/ CallFails(s) \/ Answer(s)
               \/ AcceptResult(s) \/ ReadRecord(s)
      PROVE  UNCHANGED journal
  BY <1>6, JournalRests
<1>7. CASE UNCHANGED <<scene, vars>>
  BY <1>7 DEF vars
<1>8. QED
  BY <1>2, <1>3, <1>4, <1>5, <1>6, <1>7, StepKinds

\* A task is about the record it was about, or is dispatched by this step.
LEMMA TaskIndex ==
  ASSUME Types, Delivery, Dispatched, Retained, [Next]_<<scene, vars>>, NEW r \in Sessions,
         task'[r].stage # "idle"
  PROVE  \/ Active(r) /\ task'[r].i = task[r].i /\ ~WriteRecord(r)
         \/ /\ Healthy(r) /\ task'[r].i \in DOMAIN journal[DeviceOf[r]]
            /\ journal[DeviceOf[r]][task'[r].i].status \in {"pending", "blocked"}
            /\ UNCHANGED <<journal, listener>>
<1>1. ASSUME NEW s \in Sessions, NEW u \in ActiveTask \cup {NoTask}, TaskBecomes(s, u)
      PROVE  task'[r] = IF s = r THEN u ELSE task[r]
  BY <1>1, TaskBecomesTyped DEF Types
<1>2. NoTask.stage = "idle"
  BY DEF NoTask
<1>3. ~WriteRecord(r)
  <2>1. ASSUME WriteRecord(r) PROVE FALSE
    <3>1. TaskBecomes(r, NoTask)
      BY <2>1 DEF WriteRecord, TaskBecomes
    <3>2. QED
      BY <1>1, <1>2, <3>1
  <2>2. QED
    BY <2>1
<1>4. task[r] \in ActiveTask => Active(r)
  BY ActiveIsTyped DEF Active
<1>5. ASSUME task'[r] = task[r] PROVE Active(r) /\ task'[r].i = task[r].i
  BY <1>5 DEF Active
<1>6. ASSUME NEW s \in Sessions, NEW u \in ActiveTask \cup {NoTask}, TaskBecomes(s, u),
             u = NoTask \/ (task[s] \in ActiveTask /\ u.i = task[s].i)
      PROVE  Active(r) /\ task'[r].i = task[r].i
  BY <1>1, <1>2, <1>4, <1>5, <1>6
<1>7. ASSUME NEW s \in Sessions, Sends(s)
      PROVE  \/ Active(r) /\ task'[r].i = task[r].i
             \/ /\ Healthy(r) /\ task'[r].i \in DOMAIN journal[DeviceOf[r]]
                /\ journal[DeviceOf[r]][task'[r].i].status \in {"pending", "blocked"}
                /\ UNCHANGED <<journal, listener>>
  <2>1. PICK u \in ActiveTask, i \in DOMAIN journal[DeviceOf[s]] :
          /\ TaskBecomes(s, u) /\ Healthy(s) /\ u.i = i
          /\ journal[DeviceOf[s]][i].status \in {"pending", "blocked"}
          /\ UNCHANGED <<journal, listener>>
    BY <1>7, DispatchStep DEF Sends
  <2>2. QED
    BY <1>1, <1>5, <2>1
<1>8. ASSUME NEW s \in Sessions, ListenerMoves(s) PROVE Active(r) /\ task'[r].i = task[r].i
  BY <1>6, <1>8, ListenerStep DEF ListenerMoves, Same
<1>9. ASSUME NEW s \in Sessions, Concludes(s) PROVE Active(r) /\ task'[r].i = task[r].i
  <2>1. Active(s)
    BY <1>9 DEF Concludes, AbortLocally, MergeAtDatabase, Active
  <2>2. seen[s] \in DOMAIN log
    BY <2>1, TaskHolds
  <2>3. \E u \in ActiveTask : TaskBecomes(s, u) /\ task[s] \in ActiveTask /\ u.i = task[s].i
    BY <1>9, <2>2, ConcludeStep DEF Concludes
  <2>4. QED
    BY <1>6, <2>3
<1>10. ASSUME NEW s \in Sessions, CallFails(s) PROVE Active(r) /\ task'[r].i = task[r].i
  BY <1>6, <1>10, FailStep DEF Same
<1>11. ASSUME NEW s \in Sessions, Answer(s) PROVE Active(r) /\ task'[r].i = task[r].i
  BY <1>6, <1>11, AnswerStep DEF Same
<1>12. ASSUME NEW s \in Sessions, AcceptResult(s) PROVE Active(r) /\ task'[r].i = task[r].i
  BY <1>6, <1>12, TaskHolds, AcceptResultStep DEF Same
<1>13. ASSUME NEW s \in Sessions, ReadRecord(s) PROVE Active(r) /\ task'[r].i = task[r].i
  <2>1. Active(s)
    BY <1>13 DEF ReadRecord, Active
  <2>2. task[s].i \in DOMAIN journal[DeviceOf[s]]
    BY <2>1, TaskHolds DEF OfJournal, Concerns
  <2>3. QED
    BY <1>6, <1>13, <2>2, ReadStep
<1>14. ASSUME NEW s \in Sessions, WriteRecord(s) PROVE Active(r) /\ task'[r].i = task[r].i
  <2>1. TaskBecomes(s, NoTask)
    BY <1>14 DEF WriteRecord, TaskBecomes
  <2>2. QED
    BY <1>6, <2>1
<1>15. ASSUME NEW s \in Sessions,
              Start(s) \/ AcceptVersion(s) \/ Prepares(s) \/ CommitEdit(s) \/ Resolves(s)
       PROVE  UNCHANGED task
  BY <1>15, TaskRests
<1>16. ASSUME NEW d \in Devices, BackoffEnds(d) PROVE UNCHANGED task
  BY <1>16 DEF BackoffEnds
<1>17. CASE UNCHANGED <<scene, vars>>
  BY <1>5, <1>3, <1>17 DEF vars
<1>18. QED
  BY <1>3, <1>5, <1>7, <1>8, <1>9, <1>10, <1>11, <1>12, <1>13, <1>14, <1>15, <1>16, <1>17, StepKinds

\* A session is live only if it was, or starts by this step; and none is put
\* back to where it has not started.
LEMMA LiveStep ==
  ASSUME Types, Delivery, Dispatched, [Next]_<<scene, vars>>, NEW r \in Sessions
  PROVE  /\ listener'[r] = "off" => listener[r] = "off"
         /\ listener'[r] \in Listening => Live(r) \/ Start(r)
<1>1. ASSUME NEW s \in Sessions, NEW l, listener' = [listener EXCEPT ![s] = l]
      PROVE  listener'[r] = IF s = r THEN l ELSE listener[r]
  BY <1>1 DEF Types, PlacesType
<1>2. ASSUME NEW s \in Sessions, NEW l, listener' = [listener EXCEPT ![s] = l], Live(s), l # "off"
      PROVE  /\ listener'[r] = "off" => listener[r] = "off"
             /\ listener'[r] \in Listening => Live(r)
  BY <1>1, <1>2 DEF Live
<1>3. ASSUME UNCHANGED listener
      PROVE  /\ listener'[r] = "off" => listener[r] = "off"
             /\ listener'[r] \in Listening => Live(r)
  BY <1>3 DEF Live
<1>4. ASSUME NEW s \in Sessions, Start(s)
      PROVE  /\ listener'[r] = "off" => listener[r] = "off"
             /\ listener'[r] \in Listening => Live(r) \/ Start(r)
  <2>1. listener' = [listener EXCEPT ![s] = "listening"]
    BY <1>4 DEF Start
  <2>2. listener'[r] = IF s = r THEN "listening" ELSE listener[r]
    BY <1>1, <2>1
  <2>3. QED
    BY <1>4, <2>2 DEF Live
<1>5. ASSUME NEW s \in Sessions, ListenerMoves(s)
      PROVE  /\ listener'[r] = "off" => listener[r] = "off"
             /\ listener'[r] \in Listening => Live(r)
  <2>1. Live(s)
    BY <1>5, ListenerStep DEF ListenerMoves
  <2>2. \E l : l # "off" /\ listener' = [listener EXCEPT ![s] = l]
    BY <1>5 DEF ListenerMoves, HearVersion, HearOther, Hear, ListenerFails, Stop
  <2>3. QED
    BY <1>2, <2>1, <2>2
<1>6. ASSUME NEW s \in Sessions, AcceptVersion(s)
      PROVE  /\ listener'[r] = "off" => listener[r] = "off"
             /\ listener'[r] \in Listening => Live(r)
  <2>1. \E l \in {"healthy", "failed", listener[s]} : listener' = [listener EXCEPT ![s] = l]
    BY <1>6 DEF AcceptVersion
  <2>2. Live(s)
    BY <1>6 DEF AcceptVersion
  <2>3. QED
    BY <1>2, <2>1, <2>2 DEF Live, Listening
<1>7. ASSUME NEW s \in Sessions,
             \/ Prepares(s) \/ CommitEdit(s) \/ Resolves(s) \/ Sends(s) \/ Concludes(s) \/ CallFails(s)
             \/ Answer(s) \/ AcceptResult(s) \/ ReadRecord(s) \/ WriteRecord(s)
      PROVE  UNCHANGED listener
  <2>1. CASE Answer(s) \/ AcceptResult(s)
    BY <2>1 DEF Answer, AcceptResult
  <2>2. QED
    BY <1>7, <2>1, PlacesRest
<1>8. ASSUME NEW d \in Devices, BackoffEnds(d) PROVE UNCHANGED listener
  BY <1>8 DEF BackoffEnds
<1>9. CASE UNCHANGED <<scene, vars>>
  BY <1>3, <1>9 DEF vars
<1>10. QED
  BY <1>3, <1>4, <1>5, <1>6, <1>7, <1>8, <1>9, StepKinds

LEMMA OneTabNext ==
  ASSUME Types, Delivery, Dispatched, Retained, OneTab, [Next]_<<scene, vars>>
  PROVE  OneTab'
<1>1. scene' = scene
  BY StepKinds DEF vars
<1>2. ASSUME NEW s \in Sessions, listener'[s] = "off", task'[s].stage # "idle" PROVE FALSE
  <2>1. listener[s] = "off" /\ ~Active(s) /\ ~Healthy(s)
    BY <1>2, LiveStep DEF OneTab, Healthy
  <2>2. QED
    BY <1>2, <2>1, TaskIndex
\* A session that starts is alone on its device.
<1>3. ASSUME scene.tabs = 1, NEW s \in Sessions, Start(s), NEW t \in Sessions, DeviceOf[t] = DeviceOf[s]
      PROVE  ~Live(t)
  <2>1. PICK others : others = {r \in Sessions : DeviceOf[r] = DeviceOf[s] /\ Live(r)}
    OBVIOUS
  <2>2. IsFiniteSet(others)
    BY <2>1, DeviceAssumption, FS_Subset
  <2>3. Cardinality(others) < 1 /\ Cardinality(others) \in Nat
    BY <1>3, <2>1, <2>2, FS_CardinalityType DEF Start
  <2>4. others = {}
    <3>1. Cardinality(others) = 0
      BY <2>3
    <3>2. QED
      BY <2>2, <3>1, FS_EmptySet
  <2>5. QED
    BY <1>3, <2>1, <2>4
<1>4. ASSUME scene.tabs = 1, NEW s \in Sessions, NEW t \in Sessions,
             listener'[s] \in Listening, listener'[t] \in Listening, DeviceOf[s] = DeviceOf[t]
      PROVE  s = t
  <2>1. (Live(s) \/ Start(s)) /\ (Live(t) \/ Start(t))
    BY <1>4, LiveStep
  <2>2. CASE Start(s) /\ Start(t) /\ s # t
    <3>1. listener' = [listener EXCEPT ![s] = "listening"] /\ listener[t] = "off"
      BY <2>2 DEF Start
    <3>2. listener'[t] = "off"
      BY <2>2, <3>1 DEF Types, PlacesType
    <3>3. QED
      BY <1>4, <3>2 DEF Listening
  <2>3. CASE Start(s) /\ Live(t)
    BY <1>3, <1>4, <2>3
  <2>4. CASE Live(s) /\ Start(t)
    BY <1>3, <1>4, <2>4
  <2>5. CASE Live(s) /\ Live(t)
    BY <1>4, <2>5 DEF OneTab
  <2>6. QED
    BY <2>1, <2>2, <2>3, <2>4, <2>5
<1>5. ASSUME scene.tabs = 1, NEW s \in Sessions, listener'[s] \in Listening, task'[s].stage # "idle"
      PROVE  journal'[DeviceOf[s]][task'[s].i].status \in {"pending", "blocked"}
  <2>1. CASE Active(s) /\ task'[s].i = task[s].i /\ ~WriteRecord(s)
    <3>1. listener[s] # "off"
      BY <2>1 DEF OneTab
    <3>2. Live(s)
      BY <1>5, <3>1, LiveStep DEF Start
    <3>3. journal[DeviceOf[s]][task[s].i].status \in {"pending", "blocked"}
      BY <1>5, <2>1, <3>2 DEF OneTab
    <3>4. task[s].i \in DOMAIN journal[DeviceOf[s]] /\ DeviceOf[s] \in Devices
      BY <2>1, TaskHolds, DeviceAssumption DEF OfJournal, Concerns
    <3>5. ASSUME NEW r \in Sessions, WriteRecord(r), Live(r), DeviceOf[r] = DeviceOf[s] PROVE FALSE
      <4>1. r = s
        BY <1>5, <3>2, <3>5 DEF OneTab
      <4>2. QED
        BY <2>1, <3>5, <4>1
    <3>6. journal'[DeviceOf[s]][task[s].i].status = journal[DeviceOf[s]][task[s].i].status
      BY <3>3, <3>4, <3>5, StatusStep
    <3>7. QED
      BY <2>1, <3>3, <3>6
  <2>2. CASE /\ journal[DeviceOf[s]][task'[s].i].status \in {"pending", "blocked"}
             /\ UNCHANGED journal
    BY <2>2
  <2>3. QED
    BY <1>5, <2>1, <2>2, TaskIndex
<1>6. QED
  BY <1>1, <1>2, <1>4, <1>5 DEF OneTab, Active, Live

-----------------------------------------------------------------------------
(***************************************************************************)
(* The invariant, and what follows from it.                                *)
(***************************************************************************)
LEMMA IInvInit == Init => IInv
  BY TypesInit, HistoryInit, DeliveryInit, DispatchedInit, RetainedInit, IdsInit, OneTabInit DEF IInv

LEMMA IInvNext == IInv /\ [Next]_<<scene, vars>> => IInv'
  BY TypesNext, HistoryNext, DeliveryNext, DispatchedNext, RetainedNext, IdsNext, OneTabNext DEF IInv

\* The layers hold in every reachable state.
THEOREM Invariance == Spec => []IInv
  BY IInvInit, IInvNext, PTL DEF Spec

-----------------------------------------------------------------------------
\* A version that comes at or after the accepted one is taken, or is no news.
LEMMA LaterIsTrusted ==
  ASSUME LogType, History, NEW a \in Nat, NEW v \in DOMAIN log, a =< v
  PROVE  Trusted(a, v)
<1>1. CASE a = 0
  BY <1>1 DEF Trusted, Verdict
<1>2. CASE a # 0
  <2>1. log \in Seq(Entity) /\ a \in DOMAIN log /\ v \in Nat /\ log[a] \in Entity /\ log[v] \in Entity
    BY <1>2 DEF LogType
  <2>2. ~(Exists(log[a]) /\ ~Exists(log[v]))
    <3>1. ASSUME ~Exists(log[v]) PROVE v = 1
      BY <3>1, OnlyTheOriginIsMissing
    <3>2. ~Exists(log[v]) => a = v
      BY <1>2, <2>1, <3>1
    <3>3. QED
      BY <3>2
  <2>3. Verdict(a, v) = MonotonicVerdict(log[a], log[v])
    BY <1>2, <2>2 DEF Verdict
  <2>4. CASE ~Exists(log[a])
    BY <2>3, <2>4 DEF MonotonicVerdict, Trusted
  <2>5. CASE Exists(log[a])
    <3>1. /\ log[a].revision = Origin.revision + (a - 1) /\ log[v].revision = Origin.revision + (v - 1)
          /\ Origin.revision \in Nat
      BY <2>1, OriginAssumption DEF History, Entity
    <3>2. log[a].revision \in Nat /\ log[v].revision \in Nat
          /\ log[a].generation \in Nat /\ log[v].generation \in Nat /\ log[a].generation =< log[v].generation
      BY <2>1 DEF History, Follows, Entity
    <3>3. CASE a = v
      BY <2>3, <2>5, <3>3 DEF MonotonicVerdict, Trusted
    <3>4. CASE a < v
      <4>1. log[a].revision < log[v].revision
        BY <2>1, <3>1, <3>4
      <4>2. log[v].revision = log[a].revision + 1 => v = a + 1
        BY <2>1, <3>1
      <4>3. log[v].revision = log[a].revision + 1 => ValidTransition(log[a], log[v])
        BY <2>1, <2>5, <4>2 DEF History
      <4>4. /\ log[v].revision # log[a].revision /\ ~(log[v].revision =< log[a].revision)
            /\ ~(log[v].generation < log[a].generation)
        BY <3>2, <4>1
      <4>5. MonotonicVerdict(log[a], log[v]) = "take"
        BY <2>5, <4>3, <4>4 DEF MonotonicVerdict
      <4>6. QED
        BY <2>3, <4>5 DEF Trusted
    <3>5. QED
      BY <2>1, <3>3, <3>4
  <2>6. QED
    BY <2>4, <2>5
<1>3. QED
  BY <1>1, <1>2

LEMMA AlarmsAreTrue == IInv => NoFalseAlarm
<1> SUFFICES ASSUME IInv, NEW s \in Sessions, Live(s), queue[s] # <<>>
             PROVE  IF Head(queue[s]) = Result
                      THEN task[s].auth => Trusted(accepted[s], task[s].version)
                      ELSE Trusted(accepted[s], Head(queue[s]))
  BY DEF NoFalseAlarm
<1>1. Types /\ History /\ Delivery
  BY DEF IInv
<1>2. /\ seen[s] \in Nat /\ accepted[s] \in Nat /\ queue[s] \in Seq(Nat) /\ Len(log) \in Nat
      /\ Delivered(listener[s], Len(log), seen[s], accepted[s], queue[s], task[s])
  BY <1>1, PlacesOf
<1>3. LogType /\ DOMAIN log = 1..Len(log)
  BY <1>1 DEF Types, LogType
<1>4. 1 \in DOMAIN queue[s] /\ Head(queue[s]) = queue[s][1] /\ Head(queue[s]) \in Nat
  BY <1>2
<1>5. CASE Head(queue[s]) = Result
  <2>1. task[s].stage = "answered"
    BY <1>2, <1>4, <1>5 DEF Delivered, OneAnswer
  <2>2. task[s].version \in DOMAIN log /\ (task[s].auth => accepted[s] =< task[s].version)
    BY <1>2, <1>3, <2>1 DEF Delivered
  <2>3. QED
    BY <1>1, <1>2, <1>3, <1>5, <2>2, LaterIsTrusted
<1>6. CASE Head(queue[s]) # Result
  <2>1. Head(queue[s]) =< seen[s] /\ seen[s] =< Len(log) /\ accepted[s] =< Head(queue[s])
    BY <1>2, <1>4, <1>6 DEF Delivered, Ordered
  <2>2. Head(queue[s]) \in DOMAIN log
    BY <1>2, <1>3, <1>4, <1>6, <2>1 DEF Result
  <2>3. QED
    BY <1>1, <1>2, <1>3, <1>6, <2>1, <2>2, LaterIsTrusted
<1>7. QED
  BY <1>5, <1>6

\* Whatever the number of sessions, versions skipped or repeated and answers
\* overtaken, no session comes to distrust a database that only merges.
THEOREM NoSessionIsAlarmed == Spec => []NoFalseAlarm
  BY Invariance, AlarmsAreTrue, PTL

LEMMA RecordsWitnessed == IInv => AckHasProof /\ ConflictKeepsIntent
<1> SUFFICES ASSUME IInv PROVE AckHasProof /\ ConflictKeepsIntent
  OBVIOUS
<1>1. ASSUME NEW r \in Records PROVE RecordKept(log, r)
  <2>1. PICK d \in Devices : r \in ToSet(journal[d])
    BY DEF Records
  <2>2. PICK i \in DOMAIN journal[d] : r = journal[d][i]
    BY <2>1 DEF ToSet
  <2>3. QED
    BY <2>2 DEF IInv, Retained
<1>2. AckHasProof
  BY <1>1 DEF AckHasProof, RecordKept, Proven
<1>3. ConflictKeepsIntent
  BY <1>1 DEF ConflictKeepsIntent, RecordKept, Kept
<1>4. QED
  BY <1>2, <1>3

\* No operation is acknowledged that no version of the record proves.
THEOREM AcknowledgedIsProven == Spec => []AckHasProof
  BY Invariance, RecordsWitnessed, PTL

\* No field of a losing patch is left out of its conflict unless the record
\* came to hold what the patch wanted.
THEOREM ConflictsAreComplete == Spec => []ConflictKeepsIntent
  BY Invariance, RecordsWitnessed, PTL

-----------------------------------------------------------------------------
\* One tab on a device never reopens what was settled.
LEMMA SettledStep ==
  ASSUME IInv, [Next]_<<scene, vars>>, scene.tabs = 1, NEW d \in Devices, NEW i \in DOMAIN journal[d],
         journal[d][i].status \in {"acknowledged", "resolved"}
  PROVE  journal'[d][i].status = journal[d][i].status
<1>1. Types /\ Delivery /\ Dispatched /\ Retained /\ OneTab
  BY DEF IInv
<1>2. ASSUME NEW s \in Sessions, Live(s), DeviceOf[s] = d, task[s].i = i, Active(s) PROVE FALSE
  BY <1>1, <1>2 DEF OneTab
<1>3. QED
  BY <1>1, <1>2, StatusStep

\* What a device has settled stays settled, whatever answers arrive later, while one
\* tab of it is open at a time.
THEOREM SettledForGood == Spec => SettledStays
<1>1. IInv /\ [Next]_<<scene, vars>> =>
        [scene.tabs = 1 =>
           \A d \in Devices : \A i \in DOMAIN journal[d] :
             journal[d][i].status \in {"acknowledged", "resolved"} =>
               journal'[d][i].status = journal[d][i].status]_vars
  BY SettledStep
<1>2. QED
  BY <1>1, Invariance, PTL DEF Spec, SettledStays

-----------------------------------------------------------------------------
(***************************************************************************)
(* The database, as the sessions use it.                                   *)
(***************************************************************************)
\* A step changes the record only as the merge of an operation that some
\* session has taken from its journal.
LEMMA DatabaseStep ==
  ASSUME Types, Delivery, Dispatched, [Next]_<<scene, vars>>
  PROVE  \/ UNCHANGED <<log, done>>
         \/ \E s \in Sessions : \E t \in ActiveTask :
              /\ task[s] \in ActiveTask /\ task[s].stage = "sent" /\ OfJournal(s)
              /\ TaskBecomes(s, t) /\ t.stage = "merged" /\ UNCHANGED journal
              /\ log' = IF Commits(entity, TaskOp(s)) THEN Append(log, Merged(entity, TaskOp(s))) ELSE log
              /\ done' = done \cup Canonical!Effects(entity, TaskOp(s))
<1>1. ASSUME NEW s \in Sessions, Concludes(s)
      PROVE  \/ UNCHANGED <<log, done>>
             \/ \E t \in ActiveTask :
                  /\ task[s] \in ActiveTask /\ task[s].stage = "sent" /\ OfJournal(s)
                  /\ TaskBecomes(s, t) /\ t.stage = "merged" /\ UNCHANGED journal
                  /\ log' = IF Commits(entity, TaskOp(s)) THEN Append(log, Merged(entity, TaskOp(s))) ELSE log
                  /\ done' = done \cup Canonical!Effects(entity, TaskOp(s))
  <2>1. Active(s)
    BY <1>1 DEF Concludes, AbortLocally, MergeAtDatabase, Active
  <2>2. OfJournal(s) /\ seen[s] \in DOMAIN log
    BY <2>1, TaskHolds
  <2>3. PICK t \in ActiveTask, known \in Entity :
          /\ TaskBecomes(s, t) /\ task[s].stage = "sent" /\ task[s] \in ActiveTask
          /\ t.stage = "merged" /\ t.saved = task[s].saved /\ UNCHANGED journal
          /\ \/ UNCHANGED <<log, done>>
             \/ /\ known = entity
                /\ log' = IF Commits(known, t.saved.op) THEN Append(log, Merged(known, t.saved.op)) ELSE log
                /\ done' = done \cup Canonical!Effects(known, t.saved.op)
    BY <1>1, <2>2, ConcludeStep DEF Concludes
  <2>4. t.saved.op = TaskOp(s)
    BY <2>3 DEF TaskOp
  <2>5. QED
    BY <2>2, <2>3, <2>4
<1>2. ASSUME NEW s \in Sessions,
             \/ Start(s) \/ ListenerMoves(s) \/ AcceptVersion(s)
             \/ Prepares(s) \/ CommitEdit(s) \/ Resolves(s)
             \/ Sends(s) \/ CallFails(s) \/ Answer(s)
             \/ AcceptResult(s) \/ ReadRecord(s) \/ WriteRecord(s)
      PROVE  UNCHANGED <<log, done>>
  <2>1. CASE Start(s) \/ AcceptVersion(s) \/ CommitEdit(s) \/ CallFails(s) \/ Answer(s)
    BY <2>1 DEF Start, AcceptVersion, CommitEdit, CallFails, Answer
  <2>2. CASE AcceptResult(s) \/ ReadRecord(s) \/ WriteRecord(s)
    BY <2>2 DEF AcceptResult, ReadRecord, WriteRecord
  <2>3. CASE ListenerMoves(s)
    BY <2>3 DEF ListenerMoves, HearVersion, HearOther, Hear, ListenerFails, Stop
  <2>4. CASE Prepares(s)
    BY <2>4, PrepareStep DEF Prepares
  <2>5. CASE Resolves(s)
    BY <2>5 DEF Resolves, AcceptConflict, ResolveReapplied
  <2>6. CASE Sends(s)
    BY <2>6, DispatchStep DEF Sends
  <2>7. QED
    BY <1>2, <2>1, <2>2, <2>3, <2>4, <2>5, <2>6
<1>3. ASSUME NEW d \in Devices, BackoffEnds(d) PROVE UNCHANGED <<log, done>>
  BY <1>3 DEF BackoffEnds
<1>4. CASE UNCHANGED <<scene, vars>>
  BY <1>4 DEF vars
<1>5. QED
  BY <1>1, <1>2, <1>3, <1>4, StepKinds

\* What the merge of patch o, prepared on base, took of a field.
LEMMA PatchReplaces ==
  ASSUME NEW base \in Entity, NEW e \in Entity, NEW o, WellFormed(o), o.kind = "patch",
         Follows(base, e), Commits(e, o), NEW f \in o.fields,
         base.generation = o.baseGeneration, base.fieldRevisions[f] = o.baseRevisions[f],
         Merged(e, o).fieldMutations[f] = o.id, e.fieldMutations[f] # o.id
  PROVE  e.values[f] = base.values[f] /\ e.fieldMutations[f] = base.fieldMutations[f]
<1>1. o.kind \in Kinds /\ f \in Fields
  BY DEF WellFormed, Operation
<1>2. CanPatch(e, o)
  BY <1>1, CommitCases
<1>3. Merged(e, o) = PatchedRecord(e, o)
  BY DEF Merged
<1>4. PatchedRecord(e, o).fieldMutations[f] = IF f \in AppliedFields(e, o) THEN o.id ELSE e.fieldMutations[f]
  BY <1>1 DEF PatchedRecord
<1>5. f \in AppliedFields(e, o)
  BY <1>3, <1>4
<1>6. e.fieldRevisions[f] = o.baseRevisions[f] /\ e.generation = o.baseGeneration
  BY <1>2, <1>5 DEF AppliedFields, CanPatch
<1>7. QED
  BY <1>1, <1>6 DEF Follows

LEMMA AuthorStep ==
  ASSUME IInv, [Next]_<<scene, vars>>, NEW s \in Sessions,
         task[s].stage = "sent", task'[s].stage = "merged", log' # log, TaskOp(s).kind = "patch",
         NEW f \in TaskOp(s).fields,
         log[task[s].saved.basis].generation = TaskOp(s).baseGeneration,
         log[task[s].saved.basis].fieldRevisions[f] = TaskOp(s).baseRevisions[f],
         log'[Len(log')].fieldMutations[f] = TaskOp(s).id,
         entity.fieldMutations[f] # TaskOp(s).id
  PROVE  /\ entity.values[f] = log[task[s].saved.basis].values[f]
         /\ entity.fieldMutations[f] = log[task[s].saved.basis].fieldMutations[f]
<1>1. Types /\ History /\ Delivery /\ Dispatched /\ Retained
  BY DEF IInv
<1>2. PICK r \in Sessions, t \in ActiveTask :
        /\ task[r] \in ActiveTask /\ OfJournal(r) /\ TaskBecomes(r, t)
        /\ log' = IF Commits(entity, TaskOp(r)) THEN Append(log, Merged(entity, TaskOp(r))) ELSE log
  BY <1>1, DatabaseStep
<1>3. r = s
  <2>1. r # s => task'[s] = task[s]
    BY <1>1, <1>2, TaskBecomesTyped DEF Types
  <2>2. QED
    BY <2>1
<1>4. PICK o : o = TaskOp(s)
  OBVIOUS
<1>5. WellFormed(o) /\ Commits(entity, o) /\ log' = Append(log, Merged(entity, o))
  BY <1>2, <1>3, <1>4 DEF ActiveTask, Entry, TaskOp
<1>6. log \in Seq(Entity) /\ Len(log) \in DOMAIN log /\ entity \in Entity
  BY <1>1 DEF Types, LogType, entity
<1>7. PICK n : n = Merged(entity, o)
  OBVIOUS
<1>8. log'[Len(log')] = n
  <2>1. n \in Entity
    BY <1>5, <1>6, <1>7, MergeType
  <2>2. PICK longer : longer = Append(log, n)
    OBVIOUS
  <2>3. longer[Len(longer)] = n
    BY <1>6, <2>1, <2>2
  <2>4. QED
    BY <1>5, <1>7, <2>2, <2>3
<1>9. PICK b : b = task[s].saved.basis
  OBVIOUS
<1>10. b \in DOMAIN log
  <2>1. DeviceOf[s] \in Devices /\ Concerns(task[s], journal[DeviceOf[s]])
    BY <1>2, <1>3, DeviceAssumption DEF OfJournal
  <2>2. RecordKept(log, journal[DeviceOf[s]][task[s].i])
    BY <1>1, <2>1 DEF Retained, Concerns
  <2>3. QED
    BY <1>9, <2>1, <2>2 DEF Concerns, RecordKept
<1>11. log[b] \in Entity /\ b =< Len(log)
  BY <1>6, <1>10
<1>12. Follows(log[b], entity)
  BY <1>1, <1>6, <1>10, <1>11 DEF History, entity
<1>13. QED
  BY <1>4, <1>5, <1>6, <1>7, <1>8, <1>9, <1>11, <1>12, PatchReplaces

\* A patch that was prepared on the version its session had accepted replaces, of each field, what
\* that version held and nothing later, across any number of versions, answers and retries in
\* between.  It says nothing of a patch chained on an edit of the same device that the database
\* had not taken: its base revision is not that of the accepted version, and another device's
\* edit may come to have it (NoBlindOverwrite fails).  (operationBase and mergeOperation.)
THEOREM EditsOfAcceptedVersions == Spec => AuthorSaw
<1>1. IInv /\ [Next]_<<scene, vars>> =>
        [\A s \in Sessions :
           /\ task[s].stage = "sent" /\ task'[s].stage = "merged" /\ log' # log
           /\ TaskOp(s).kind = "patch"
           => LET o == TaskOp(s) base == log[task[s].saved.basis] IN
              \A f \in o.fields :
                /\ base.generation = o.baseGeneration
                /\ base.fieldRevisions[f] = o.baseRevisions[f]
                /\ log'[Len(log')].fieldMutations[f] = o.id
                /\ entity.fieldMutations[f] # o.id
                => /\ entity.values[f] = base.values[f]
                   /\ entity.fieldMutations[f] = base.fieldMutations[f]]_vars
  BY AuthorStep
<1>2. QED
  BY <1>1, Invariance, PTL DEF Spec, AuthorSaw

-----------------------------------------------------------------------------
(***************************************************************************)
(* AccountSync implements CanonicalEntity: entity and done are its own, and*)
(* issued is what some device's journal holds.                             *)
(***************************************************************************)
IssuedOps == UNION {OpsIn(journal[d]) : d \in Devices}

LEMMA IssuedIsJournaled ==
  \A o : o \in IssuedOps <=> \E d \in Devices : \E i \in DOMAIN journal[d] : o = journal[d][i].op
  BY DEF IssuedOps, OpsIn, ToSet

LEMMA IssuedRests ==
  ASSUME \A d \in Devices : /\ DOMAIN journal'[d] = DOMAIN journal[d]
                            /\ \A i \in DOMAIN journal[d] : journal'[d][i].op = journal[d][i].op
  PROVE  IssuedOps' = IssuedOps
<1>1. \A o : o \in IssuedOps' <=> \E d \in Devices : \E i \in DOMAIN journal'[d] : o = journal'[d][i].op
  BY DEF IssuedOps, OpsIn, ToSet
<1>2. \A o : o \in IssuedOps' <=> o \in IssuedOps
  BY <1>1, IssuedIsJournaled
<1>3. QED
  BY <1>2

\* A committed edit is a new operation, under a new id.
LEMMA IssuedGrows ==
  ASSUME Types, IdsAreNew, NEW s \in Sessions, edit[s].phase = "prepared",
         journal' = [journal EXCEPT ![DeviceOf[s]] = Append(@, Queued(edit[s].op, edit[s].basis))]
  PROVE  /\ IssuedOps' = IssuedOps \cup {edit[s].op}
         /\ \A p \in IssuedOps : p.id # edit[s].op.id
         /\ WellFormed(edit[s].op)
<1> DEFINE home == DeviceOf[s]
<1>1. home \in Devices /\ journal[home] \in Seq(Entry) /\ journal \in [Devices -> Seq(Entry)]
  BY DeviceAssumption DEF Types, JournalType
<1>2. PICK r \in Entry : r = Queued(edit[s].op, edit[s].basis) /\ r.op = edit[s].op
  BY QueuedRecord DEF Types, EditTyped
<1>3. PICK j : j = Append(journal[home], r)
  OBVIOUS
<1>4. PICK n : n = Len(journal[home]) + 1
  OBVIOUS
<1>5. DOMAIN j = DOMAIN journal[home] \cup {n} /\ j[n] = r /\ \A k \in DOMAIN journal[home] : j[k] = journal[home][k]
  BY <1>1, <1>3, <1>4
<1>6. journal'[home] = j /\ \A d \in Devices : d # home => journal'[d] = journal[d]
  BY <1>1, <1>2, <1>3
<1>7. \A o : o \in IssuedOps' <=> \E d \in Devices : \E i \in DOMAIN journal'[d] : o = journal'[d][i].op
  BY DEF IssuedOps, OpsIn, ToSet
<1>8. ASSUME NEW o, o \in IssuedOps' PROVE o \in IssuedOps \cup {edit[s].op}
  <2>1. PICK d \in Devices : \E i \in DOMAIN journal'[d] : o = journal'[d][i].op
    BY <1>7, <1>8
  <2>2. PICK i \in DOMAIN journal'[d] : o = journal'[d][i].op
    BY <2>1
  <2>3. CASE d # home
    BY <1>6, <2>2, <2>3, IssuedIsJournaled
  <2>4. CASE d = home /\ i = n
    BY <1>2, <1>5, <1>6, <2>2, <2>4
  <2>5. CASE d = home /\ i # n
    <3>1. i \in DOMAIN journal[home] /\ o = journal[home][i].op
      BY <1>5, <1>6, <2>2, <2>5
    <3>2. QED
      BY <1>1, <3>1, IssuedIsJournaled
  <2>6. QED
    BY <2>3, <2>4, <2>5
<1>9. ASSUME NEW o, o \in IssuedOps PROVE o \in IssuedOps'
  <2>1. PICK d \in Devices : \E i \in DOMAIN journal[d] : o = journal[d][i].op
    BY <1>9, IssuedIsJournaled
  <2>2. PICK i \in DOMAIN journal[d] : o = journal[d][i].op
    BY <2>1
  <2>3. i \in DOMAIN journal'[d] /\ o = journal'[d][i].op
    BY <1>5, <1>6, <2>2
  <2>4. QED
    BY <1>7, <2>3
<1>10. edit[s].op \in IssuedOps'
  <2>1. n \in DOMAIN journal'[home] /\ journal'[home][n].op = edit[s].op
    BY <1>2, <1>5, <1>6
  <2>2. QED
    BY <1>1, <1>7, <2>1
<1>11. \A p \in IssuedOps : p.id # edit[s].op.id
  BY IssuedIsJournaled DEF IdsAreNew
<1>12. QED
  BY <1>8, <1>9, <1>10, <1>11 DEF Types, EditTyped

LEMMA EntityMerges ==
  ASSUME LogType, NEW o, WellFormed(o),
         log' = IF Commits(entity, o) THEN Append(log, Merged(entity, o)) ELSE log
  PROVE  entity' = Merged(entity, o)
<1>1. log \in Seq(Entity) /\ entity \in Entity /\ entity = log[Len(log)]
  BY DEF LogType, entity
<1>2. PICK n \in Entity : n = Merged(entity, o)
  BY <1>1, MergeType
<1>3. CASE Commits(entity, o)
  <2>1. PICK longer : longer = Append(log, n)
    OBVIOUS
  <2>2. longer[Len(longer)] = n
    BY <1>1, <2>1
  <2>3. QED
    BY <1>2, <1>3, <2>1, <2>2 DEF entity
<1>4. CASE ~Commits(entity, o)
  BY <1>4 DEF entity, Merged
<1>5. QED
  BY <1>3, <1>4

LEMMA StepImplements ==
  ASSUME {o \in Operation : WellFormed(o)} \subseteq Requests, IInv, [Next]_<<scene, vars>>
  PROVE  \/ UNCHANGED <<entity, IssuedOps, done>>
         \/ \E o \in Requests : /\ \A p \in IssuedOps : p.id # o.id
                                /\ IssuedOps' = IssuedOps \cup {o}
                                /\ UNCHANGED <<entity, done>>
         \/ \E o \in IssuedOps : /\ entity' = Merged(entity, o)
                                 /\ done' = done \cup Canonical!Effects(entity, o)
                                 /\ UNCHANGED IssuedOps
<1>1. Types /\ LogType /\ Delivery /\ Dispatched /\ Retained /\ IdsAreNew
  BY DEF IInv, Types
<1>2. CASE \E s \in Sessions : \E t \in ActiveTask :
              /\ task[s] \in ActiveTask /\ task[s].stage = "sent" /\ OfJournal(s)
              /\ TaskBecomes(s, t) /\ t.stage = "merged" /\ UNCHANGED journal
              /\ log' = IF Commits(entity, TaskOp(s)) THEN Append(log, Merged(entity, TaskOp(s))) ELSE log
              /\ done' = done \cup Canonical!Effects(entity, TaskOp(s))
  <2>1. PICK s \in Sessions :
              /\ task[s] \in ActiveTask /\ OfJournal(s) /\ UNCHANGED journal
              /\ log' = IF Commits(entity, TaskOp(s)) THEN Append(log, Merged(entity, TaskOp(s))) ELSE log
              /\ done' = done \cup Canonical!Effects(entity, TaskOp(s))
    BY <1>2
  <2>2. PICK o : o = TaskOp(s)
    OBVIOUS
  <2>3. WellFormed(o)
    BY <2>1, <2>2 DEF ActiveTask, Entry, TaskOp
  <2>4. entity' = Merged(entity, o)
    BY <1>1, <2>1, <2>2, <2>3, EntityMerges
  <2>5. UNCHANGED IssuedOps
    BY <2>1 DEF IssuedOps
  <2>6. DeviceOf[s] \in Devices /\ task[s].i \in DOMAIN journal[DeviceOf[s]]
        /\ o = journal[DeviceOf[s]][task[s].i].op
    BY <2>1, <2>2, DeviceAssumption DEF OfJournal, Concerns, TaskOp
  <2>7. o \in IssuedOps
    BY <2>6, IssuedIsJournaled
  <2>8. QED
    BY <2>1, <2>2, <2>4, <2>5, <2>7
<1>3. ASSUME NEW s \in Sessions, CommitEdit(s), edit[s].phase = "prepared",
             journal' = [journal EXCEPT ![DeviceOf[s]] = Append(@, Queued(edit[s].op, edit[s].basis))]
      PROVE  \E o \in Requests : /\ \A p \in IssuedOps : p.id # o.id
                                /\ IssuedOps' = IssuedOps \cup {o}
                                /\ UNCHANGED <<entity, done>>
  <2>1. UNCHANGED <<log, done>>
    BY <1>1, <1>3, CommitStep
  <2>2. UNCHANGED <<entity, done>>
    BY <2>1 DEF entity
  <2>3. /\ IssuedOps' = IssuedOps \cup {edit[s].op}
        /\ \A p \in IssuedOps : p.id # edit[s].op.id
        /\ WellFormed(edit[s].op)
    BY <1>1, <1>3, IssuedGrows
  <2>4. edit[s].op \in Requests
    BY <2>3 DEF WellFormed
  <2>5. QED
    BY <2>2, <2>3, <2>4
<1>4. ASSUME UNCHANGED <<log, done>>,
             \/ UNCHANGED journal
             \/ \E d \in Devices : \E i \in DOMAIN journal[d], r \in Entry :
                  WritesRecord(d, i, r) /\ SameOperation(journal[d][i], r)
      PROVE  UNCHANGED <<entity, IssuedOps, done>>
  <2>1. UNCHANGED <<entity, done>>
    BY <1>4 DEF entity
  <2>2. CASE UNCHANGED journal
    BY <2>1, <2>2 DEF IssuedOps
  <2>3. ASSUME NEW d \in Devices, NEW i \in DOMAIN journal[d], NEW r \in Entry,
               WritesRecord(d, i, r), SameOperation(journal[d][i], r)
        PROVE  UNCHANGED IssuedOps
    <3>1. /\ DOMAIN journal'[d] = DOMAIN journal[d]
          /\ journal'[d][i] = r
          /\ \A j \in DOMAIN journal[d] : j # i => journal'[d][j] = journal[d][j]
          /\ \A c \in Devices : c # d => journal'[c] = journal[c]
      BY <1>1, <2>3, WritesTyped DEF Types
    <3>2. \A c \in Devices : /\ DOMAIN journal'[c] = DOMAIN journal[c]
                             /\ \A k \in DOMAIN journal[c] : journal'[c][k].op = journal[c][k].op
      BY <2>3, <3>1 DEF SameOperation
    <3>3. QED
      BY <3>2, IssuedRests
  <2>4. QED
    BY <1>4, <2>1, <2>2, <2>3
<1>5. QED
  BY <1>1, <1>2, <1>3, <1>4, DatabaseStep, JournalStep

\* The merge of the database's specification is the merge of this one.
LEMMA SameMerge ==
  ASSUME NEW e, NEW o
  PROVE  Canonical!Merged(e, o) = Merged(e, o)
<1>1. Canonical!Exists(e) = Exists(e) /\ Canonical!SameLifecycle(e, o) = SameLifecycle(e, o)
  BY DEF Canonical!Exists, Exists, Canonical!SameLifecycle, SameLifecycle
<1>2. /\ Canonical!CanAdd(e, o) = CanAdd(e, o)
      /\ Canonical!CanDelete(e, o) = CanDelete(e, o)
      /\ Canonical!CanPatch(e, o) = CanPatch(e, o)
  BY <1>1 DEF Canonical!CanAdd, CanAdd, Canonical!CanDelete, CanDelete, Canonical!CanPatch, CanPatch
<1>3. \A f : Canonical!Settled(e, o, f) = Settled(e, o, f)
  BY DEF Canonical!Settled, Settled
<1>4. Canonical!AppliedFields(e, o) = AppliedFields(e, o) /\ Canonical!LostFields(e, o) = LostFields(e, o)
  BY <1>3 DEF Canonical!AppliedFields, AppliedFields, Canonical!LostFields, LostFields
<1>5. Canonical!MergeStatus(e, o) = MergeStatus(e, o)
  BY <1>1, <1>2, <1>4 DEF Canonical!MergeStatus, MergeStatus
<1>6. Canonical!Commits(e, o) = Commits(e, o)
  BY <1>5 DEF Canonical!Commits, Commits
<1>7. Canonical!CreateRecord(e, o) = CreateRecord(e, o) /\ Canonical!Tombstone(e, o) = Tombstone(e, o)
  BY DEF Canonical!CreateRecord, CreateRecord, Canonical!Tombstone, Tombstone
<1>8. Canonical!PatchedRecord(e, o) = PatchedRecord(e, o)
  BY <1>4 DEF Canonical!PatchedRecord, PatchedRecord
<1>9. QED
  BY <1>6, <1>7, <1>8 DEF Canonical!Merged, Merged

\* The sessions' actions, seen as the database's: an edit kept in a journal is
\* an operation issued, a merge at the database is a delivery, and every other
\* step leaves the record, the operations and their effects as they were.  The
\* assumption: Requests leaves no operation out.
THEOREM Implementation ==
  ASSUME {o \in Operation : WellFormed(o)} \subseteq Requests
  PROVE  Spec => CanonicalSpec
<1>1. Init => Canonical!Init
  <2>1. SUFFICES ASSUME Init PROVE Canonical!Init
    OBVIOUS
  <2>2. log = <<Origin>> /\ done = {} /\ journal = [d \in Devices |-> <<>>]
    BY <2>1 DEF Init
  <2>3. entity = Origin
    BY <2>2 DEF entity
  <2>4. \A o : o \notin IssuedOps
    BY <2>2, IssuedIsJournaled
  <2>5. IssuedOps = {}
    BY <2>4
  <2>6. QED
    BY <2>2, <2>3, <2>5 DEF Canonical!Init, IssuedOps
<1>2. IInv /\ [Next]_<<scene, vars>> => [Canonical!Next]_(Canonical!vars)
  <2>1. SUFFICES ASSUME IInv, [Next]_<<scene, vars>> PROVE [Canonical!Next]_(Canonical!vars)
    OBVIOUS
  <2>2. CASE UNCHANGED <<entity, IssuedOps, done>>
    BY <2>2 DEF Canonical!vars, IssuedOps
  <2>3. ASSUME NEW o \in Requests, \A p \in IssuedOps : p.id # o.id,
               IssuedOps' = IssuedOps \cup {o}, UNCHANGED <<entity, done>>
        PROVE  Canonical!Next
    BY <2>3 DEF Canonical!Next, Canonical!Issue, IssuedOps
  <2>4. ASSUME NEW o \in IssuedOps, entity' = Merged(entity, o),
               done' = done \cup Canonical!Effects(entity, o), UNCHANGED IssuedOps
        PROVE  Canonical!Next
    <3>1. Canonical!Deliver(o)
      <4>1. entity' = Canonical!Merged(entity, o)
        BY <2>4, SameMerge
      <4>2. QED
        BY <2>4, <4>1 DEF Canonical!Deliver, IssuedOps
    <3>2. QED
      BY <3>1 DEF Canonical!Next, IssuedOps
  <2>5. QED
    BY <2>1, <2>2, <2>3, <2>4, StepImplements
<1>3. QED
  BY <1>1, <1>2, Invariance, PTL DEF Spec, CanonicalSpec, Canonical!Spec

-----------------------------------------------------------------------------
(***************************************************************************)
(* The type of what a session shows.  Overlay runs through the journal; its*)
(* value is typed because a least place where it is not would follow one   *)
(* where it is.                                                            *)
(***************************************************************************)
\* g holds what is shown after each of the first n records.
Shows(e, kept, g, n) ==
  g = [m \in 0..n |-> IF m = 0 THEN e ELSE Overlaid(g[m - 1], kept[m])]

LEMMA ViewExists ==
  ASSUME NEW e, NEW kept, NEW k \in Nat
  PROVE  \E g : Shows(e, kept, g, k)
<1>1. SUFFICES ASSUME ~\E g : Shows(e, kept, g, k) PROVE FALSE
  OBVIOUS
<1> DEFINE Bad == {n \in Nat : ~\E g : Shows(e, kept, g, n)}
<1>2. PICK n \in Bad : \A m \in Bad : n =< m
  <2>1. k \in Bad
    BY <1>1
  <2>2. Bad \in SUBSET Nat
    OBVIOUS
  <2> HIDE DEF Bad
  <2>3. QED
    BY <2>1, <2>2, SomeLeast
<1>3. CASE n = 0
  <2>1. PICK g : g = [m \in 0..0 |-> e]
    OBVIOUS
  <2>2. Shows(e, kept, g, 0)
    BY <2>1 DEF Shows
  <2>3. QED
    BY <1>2, <1>3, <2>2
<1>4. CASE n # 0
  <2>1. n \in Nat /\ n - 1 \in Nat /\ n - 1 \notin Bad
    BY <1>2, <1>4
  <2>2. PICK g : Shows(e, kept, g, n - 1)
    BY <2>1
  <2>3. PICK h : h = [m \in 0..n |-> IF m = n THEN Overlaid(g[n - 1], kept[n]) ELSE g[m]]
    OBVIOUS
  <2>4. \A m \in 0..n : h[m] = IF m = 0 THEN e ELSE Overlaid(h[m - 1], kept[m])
    <3>1. ASSUME NEW m \in 0..n PROVE h[m] = IF m = 0 THEN e ELSE Overlaid(h[m - 1], kept[m])
      <4>1. CASE m = n
        <5>1. h[m] = Overlaid(g[n - 1], kept[n])
          BY <2>3, <4>1
        <5>2. h[n - 1] = g[n - 1]
          BY <2>1, <2>3
        <5>3. QED
          BY <1>4, <4>1, <5>1, <5>2
      <4>2. CASE m # n
        <5>1. m \in 0..(n - 1) /\ h[m] = g[m]
          BY <2>1, <2>3, <4>2
        <5>2. g[m] = IF m = 0 THEN e ELSE Overlaid(g[m - 1], kept[m])
          BY <2>2, <5>1 DEF Shows
        <5>3. m # 0 => h[m - 1] = g[m - 1]
          BY <2>1, <2>3, <4>2, <5>1
        <5>4. QED
          BY <5>1, <5>2, <5>3
      <4>3. QED
        BY <4>1, <4>2
    <3>2. QED
      BY <3>1
  <2>5. h = [m \in 0..n |-> h[m]]
    BY <2>3
  <2>6. Shows(e, kept, h, n)
    BY <2>4, <2>5 DEF Shows
  <2>7. QED
    BY <1>2, <2>6
<1>5. QED
  BY <1>3, <1>4

LEMMA OverlayShows ==
  ASSUME NEW e, NEW kept
  PROVE  Overlay(e, kept) = (CHOOSE g : Shows(e, kept, g, Len(kept)))[Len(kept)]
  BY DEF Overlay, Shows

LEMMA OverlayType ==
  ASSUME NEW e \in Entity, NEW kept \in Seq(Entry)
  PROVE  Overlay(e, kept) \in Entity
<1>1. PICK k \in Nat : k = Len(kept)
  OBVIOUS
<1>2. PICK g : g = CHOOSE f : Shows(e, kept, f, k)
  OBVIOUS
<1>3. Shows(e, kept, g, k)
  BY <1>2, ViewExists
<1>4. Overlay(e, kept) = g[k]
  BY <1>1, <1>2, OverlayShows
<1>5. \A n \in 0..k : g[n] = IF n = 0 THEN e ELSE Overlaid(g[n - 1], kept[n])
  BY <1>3 DEF Shows
<1> DEFINE Bad == {n \in 0..k : g[n] \notin Entity}
<1>6. SUFFICES ASSUME g[k] \notin Entity PROVE FALSE
  BY <1>4
<1>7. PICK n \in Bad : \A m \in Bad : n =< m
  <2>1. k \in Bad
    BY <1>6
  <2>2. Bad \in SUBSET Nat
    OBVIOUS
  <2> HIDE DEF Bad
  <2>3. QED
    BY <2>1, <2>2, SomeLeast
<1>8. n \in 0..k /\ n # 0
  BY <1>5, <1>7
<1>9. g[n - 1] \in Entity
  BY <1>7, <1>8
<1>10. kept[n] \in Record /\ WellFormed(kept[n].op)
  BY <1>1, <1>8 DEF Entry
<1>11. Overlaid(g[n - 1], kept[n]) \in Entity
  BY <1>9, <1>10, MergeType DEF Overlaid
<1>12. QED
  BY <1>5, <1>7, <1>8, <1>11

ShownTyped  == shown \in [Sessions -> Entity]
ValuesTyped == \A s \in Sessions : edit[s].phase = "prepared" => edit[s].value \in Entity
\* A dispatch that holds its authority works on an accepted version.
Reading     == \A s \in Sessions : Active(s) /\ task[s].auth => accepted[s] > 0
Viewing     == ShownTyped /\ ValuesTyped /\ Reading

LEMMA NothingIsEntity == NoEntity \in Entity
  BY DEF NoEntity, Entity

LEMMA ViewingInit == Init => Viewing
<1> SUFFICES ASSUME Init PROVE Viewing
  OBVIOUS
<1>1. ShownTyped
  BY NothingIsEntity DEF Init, ShownTyped
<1>2. ValuesTyped
  BY DEF Init, ValuesTyped, NoEdit
<1>3. Reading
  BY DEF Init, Reading, Active, NoTask
<1>4. QED
  BY <1>1, <1>2, <1>3 DEF Viewing

\* The version a session has after it has heard v.
LEMMA VersionTaken ==
  ASSUME NEW a \in Nat, NEW v \in Nat \ {0}
  PROVE  /\ AfterAccepting(a, v) \in {a, v}
         /\ a > 0 => AfterAccepting(a, v) > 0
         /\ Trusted(a, v) => AfterAccepting(a, v) > 0
  BY DEF AfterAccepting, Trusted, Verdict

LEMMA ReadingOf ==
  ASSUME Types, Reading, NEW s \in Sessions, NEW u \in ActiveTask \cup {NoTask}, NEW b,
         TaskBecomes(s, u), accepted' = [accepted EXCEPT ![s] = b],
         u.stage # "idle" /\ u.auth => b > 0
  PROVE  Reading'
<1>1. task'[s] = u /\ \A r \in Sessions : r # s => task'[r] = task[r]
  BY TaskBecomesTyped DEF Types
<1>2. accepted'[s] = b /\ \A r \in Sessions : r # s => accepted'[r] = accepted[r]
  BY DEF Types, PlacesType
<1>3. ASSUME NEW r \in Sessions, task'[r].stage # "idle", task'[r].auth PROVE accepted'[r] > 0
  <2>1. CASE r = s
    BY <1>1, <1>2, <1>3, <2>1
  <2>2. CASE r # s
    BY <1>1, <1>2, <1>3, <2>2 DEF Reading, Active
  <2>3. QED
    BY <2>1, <2>2
<1>4. QED
  BY <1>3 DEF Reading, Active

\* A task goes on with the authority it had, on the version it had.
LEMMA ReadingGoesOn ==
  ASSUME Types, Reading, NEW s \in Sessions, NEW u \in ActiveTask \cup {NoTask},
         TaskBecomes(s, u), UNCHANGED accepted,
         u.stage # "idle" /\ u.auth => Active(s) /\ task[s].auth
  PROVE  Reading'
<1>1. accepted' = [accepted EXCEPT ![s] = accepted[s]]
  BY DEF Types, PlacesType
<1>2. u.stage # "idle" /\ u.auth => accepted[s] > 0
  BY DEF Reading
<1>3. QED
  BY <1>1, <1>2, ReadingOf

LEMMA ReadingAcceptsVersion ==
  ASSUME Types, Delivery, Reading, NEW s \in Sessions, AcceptVersion(s)
  PROVE  Reading'
<1>1. seen[s] \in Nat /\ accepted[s] \in Nat /\ queue[s] \in Seq(Nat) /\ task = [task EXCEPT ![s] = task[s]]
      /\ task[s] \in ActiveTask \cup {NoTask}
  BY PlacesOf
<1>2. queue[s] # <<>> /\ Head(queue[s]) # Result /\ UNCHANGED task
  BY DEF AcceptVersion
<1>3. PICK v \in Nat \ {0} : v = Head(queue[s])
  BY <1>1, <1>2 DEF Result
<1>4. PICK b : b = IF Trusted(accepted[s], v) THEN AfterAccepting(accepted[s], v) ELSE accepted[s]
  OBVIOUS
<1>5. accepted[s] > 0 => b > 0
  BY <1>1, <1>3, <1>4, VersionTaken
<1>6. accepted' = [accepted EXCEPT ![s] = b]
  BY <1>3, <1>4 DEF AcceptVersion
<1>7. task[s].stage # "idle" /\ task[s].auth => b > 0
  BY <1>5 DEF Reading, Active
<1>8. TaskBecomes(s, task[s])
  BY <1>1, <1>2 DEF TaskBecomes
<1>9. QED
  BY <1>1, <1>6, <1>7, <1>8, ReadingOf

LEMMA ReadingAcceptsResult ==
  ASSUME Types, Delivery, Dispatched, Reading, NEW s \in Sessions, AcceptResult(s)
  PROVE  Reading'
<1>1. accepted[s] \in Nat /\ accepted = [accepted EXCEPT ![s] = accepted[s]]
      /\ Delivered(listener[s], Len(log), seen[s], accepted[s], queue[s], task[s])
  BY PlacesOf
<1>2. task[s] \in ActiveTask /\ task[s].stage = "answered"
  BY TaskHolds
<1>3. PICK u \in ActiveTask \cup {NoTask} :
        /\ TaskBecomes(s, u)
        /\ \/ /\ task[s].auth
              /\ accepted' = [accepted EXCEPT ![s] = AfterAccepting(@, task[s].version)]
           \/ UNCHANGED accepted /\ (u = NoTask \/ Healthy(s))
  BY <1>2, AcceptResultStep
<1>4. task[s].version \in Nat \ {0}
  BY <1>1, <1>2 DEF Delivered, ActiveTask
<1>5. CASE /\ task[s].auth
           /\ accepted' = [accepted EXCEPT ![s] = AfterAccepting(@, task[s].version)]
  <2>1. PICK b : b = AfterAccepting(accepted[s], task[s].version)
    OBVIOUS
  <2>2. accepted[s] > 0
    BY <1>2, <1>5 DEF Reading, Active
  <2>3. b > 0
    BY <1>1, <1>4, <2>1, <2>2, VersionTaken
  <2>4. accepted' = [accepted EXCEPT ![s] = b]
    BY <1>5, <2>1
  <2>5. QED
    BY <1>3, <2>3, <2>4, ReadingOf
<1>6. CASE UNCHANGED accepted /\ (u = NoTask \/ Healthy(s))
  <2>1. u.stage # "idle" => accepted[s] > 0
    BY <1>1, <1>6 DEF NoTask, Healthy, Delivered
  <2>2. accepted' = [accepted EXCEPT ![s] = accepted[s]]
    BY <1>1, <1>6
  <2>3. QED
    BY <1>3, <2>1, <2>2, ReadingOf
<1>7. QED
  BY <1>3, <1>5, <1>6

LEMMA ReadingNext ==
  ASSUME Types, Delivery, Dispatched, Reading, [Next]_<<scene, vars>>
  PROVE  Reading'
<1>1. ASSUME UNCHANGED <<task, accepted>> PROVE Reading'
  BY <1>1 DEF Reading, Active
<1>2. ASSUME NEW s \in Sessions, Start(s) \/ Prepares(s) \/ CommitEdit(s) \/ Resolves(s) PROVE Reading'
  <2>1. UNCHANGED task
    BY <1>2, TaskRests
  <2>2. UNCHANGED accepted
    BY <1>2, PlacesRest DEF Start
  <2>3. QED
    BY <1>1, <2>1, <2>2
<1>3. ASSUME NEW s \in Sessions, ListenerMoves(s) PROVE Reading'
  <2>1. PICK u \in ActiveTask \cup {NoTask} :
          TaskBecomes(s, u) /\ (u = NoTask \/ ~u.auth)
    BY <1>3, ListenerStep DEF ListenerMoves
  <2>2. accepted = [accepted EXCEPT ![s] = accepted[s]]
    BY DEF Types, PlacesType
  <2>3. PICK b : accepted' = [accepted EXCEPT ![s] = b]
    BY <1>3, <2>2 DEF ListenerMoves, HearVersion, HearOther, Hear, ListenerFails, Stop
  <2>4. ~(u.stage # "idle" /\ u.auth)
    BY <2>1 DEF NoTask
  <2>5. QED
    BY <2>1, <2>3, <2>4, ReadingOf
<1>4. ASSUME NEW s \in Sessions, Sends(s) PROVE Reading'
  <2>1. PICK u \in ActiveTask : TaskBecomes(s, u) /\ Healthy(s) /\ UNCHANGED accepted
    BY <1>4, DispatchStep DEF Sends
  <2>2. accepted[s] > 0 /\ accepted = [accepted EXCEPT ![s] = accepted[s]]
    BY <2>1, PlacesOf DEF Delivered, Healthy
  <2>3. accepted' = [accepted EXCEPT ![s] = accepted[s]]
    BY <2>1, <2>2
  <2>4. QED
    BY <2>1, <2>2, <2>3, ReadingOf
<1>5. ASSUME NEW s \in Sessions, Concludes(s) PROVE Reading'
  <2>1. Active(s)
    BY <1>5 DEF Concludes, AbortLocally, MergeAtDatabase, Active
  <2>2. PICK u \in ActiveTask : TaskBecomes(s, u) /\ u.auth = task[s].auth /\ UNCHANGED accepted
    BY <1>5, <2>1, TaskHolds, ConcludeStep DEF Concludes
  <2>3. QED
    BY <2>1, <2>2, ReadingGoesOn
<1>6. ASSUME NEW s \in Sessions, CallFails(s) \/ Answer(s) PROVE Reading'
  <2>1. Active(s)
    BY <1>6 DEF CallFails, Answer, Active
  <2>2. PICK u \in ActiveTask : TaskBecomes(s, u) /\ u.auth = task[s].auth /\ UNCHANGED accepted
    BY <1>6, FailStep, AnswerStep
  <2>3. QED
    BY <2>1, <2>2, ReadingGoesOn
<1>7. ASSUME NEW s \in Sessions, ReadRecord(s) PROVE Reading'
  <2>1. Active(s)
    BY <1>7 DEF ReadRecord, Active
  <2>2. task[s].i \in DOMAIN journal[DeviceOf[s]]
    BY <2>1, TaskHolds DEF OfJournal, Concerns
  <2>3. PICK u \in ActiveTask \cup {NoTask} : TaskBecomes(s, u) /\ UNCHANGED accepted /\ (u = NoTask \/ task[s].auth)
    BY <1>7, <2>2, ReadStep
  <2>4. u.stage # "idle" => task[s].auth
    BY <2>3 DEF NoTask
  <2>5. QED
    BY <2>1, <2>3, <2>4, ReadingGoesOn
<1>8. ASSUME NEW s \in Sessions, WriteRecord(s) PROVE Reading'
  <2>1. TaskBecomes(s, NoTask) /\ UNCHANGED accepted /\ NoTask.stage = "idle"
    BY <1>8 DEF WriteRecord, TaskBecomes, NoTask
  <2>2. QED
    BY <2>1, ReadingGoesOn
<1>9. ASSUME NEW d \in Devices, BackoffEnds(d) PROVE Reading'
  BY <1>1, <1>9 DEF BackoffEnds
<1>10. CASE UNCHANGED <<scene, vars>>
  BY <1>1, <1>10 DEF vars
<1>11. QED
  BY <1>2, <1>3, <1>4, <1>5, <1>6, <1>7, <1>8, <1>9, <1>10, ReadingAcceptsVersion, ReadingAcceptsResult, StepKinds

\* What a session shows after a step.
LEMMA ShownBecomes ==
  ASSUME ShownTyped, NEW s \in Sessions, NEW e \in Entity, shown' = [shown EXCEPT ![s] = e]
  PROVE  ShownTyped'
  BY DEF ShownTyped

LEMMA ShownNext ==
  ASSUME Types, Delivery, Dispatched, Retained, Viewing, [Next]_<<scene, vars>>
  PROVE  ShownTyped'
<1>1. log \in Seq(Entity) /\ ShownTyped /\ \A d \in Devices : journal[d] \in Seq(Entry)
  BY DEF Types, LogType, JournalType, Viewing
<1>2. ASSUME UNCHANGED shown PROVE ShownTyped'
  BY <1>1, <1>2 DEF ShownTyped
<1>3. ASSUME NEW s \in Sessions, AcceptVersion(s) PROVE ShownTyped'
  <2>1. /\ seen[s] \in Nat /\ accepted[s] \in Nat /\ queue[s] \in Seq(Nat) /\ Len(log) \in Nat
        /\ Delivered(listener[s], Len(log), seen[s], accepted[s], queue[s], task[s])
    BY PlacesOf
  <2>2. queue[s] # <<>> /\ Head(queue[s]) # Result
    BY <1>3 DEF AcceptVersion
  <2>3. PICK v \in Nat \ {0} : v = Head(queue[s]) /\ v =< seen[s] /\ seen[s] =< Len(log) /\ accepted[s] =< seen[s]
    <3>1. 1 \in DOMAIN queue[s] /\ Head(queue[s]) = queue[s][1] /\ queue[s][1] \in Nat
      BY <2>1, <2>2
    <3>2. QED
      BY <2>1, <2>2, <3>1 DEF Delivered, Ordered, Result
  <2>4. CASE Trusted(accepted[s], v)
    <3>1. PICK taken : taken = AfterAccepting(accepted[s], v)
      OBVIOUS
    <3>2. taken \in {accepted[s], v} /\ taken > 0
      BY <2>1, <2>4, <3>1, VersionTaken
    <3>3. taken \in DOMAIN log
      BY <1>1, <2>1, <2>3, <3>2
    <3>4. PICK e : e = Overlay(log[taken], journal[DeviceOf[s]])
      OBVIOUS
    <3>5. e \in Entity
      BY <1>1, <3>3, <3>4, OverlayType, DeviceAssumption
    <3>6. shown' = [shown EXCEPT ![s] = e]
      BY <1>3, <2>3, <2>4, <3>1, <3>4 DEF AcceptVersion
    <3>7. QED
      BY <1>1, <3>5, <3>6, ShownBecomes
  <2>5. CASE ~Trusted(accepted[s], v)
    <3>1. shown' = [shown EXCEPT ![s] = shown[s]]
      BY <1>3, <2>3, <2>5 DEF AcceptVersion
    <3>2. shown[s] \in Entity
      BY <1>1 DEF ShownTyped
    <3>3. QED
      BY <1>1, <3>1, <3>2, ShownBecomes
  <2>6. QED
    BY <2>4, <2>5
<1>4. ASSUME NEW s \in Sessions, CommitEdit(s) PROVE ShownTyped'
  <2>1. CASE Healthy(s)
    <3>1. edit[s].value \in Entity
      BY <1>4 DEF CommitEdit, Viewing, ValuesTyped
    <3>2. shown' = [shown EXCEPT ![s] = edit[s].value]
      BY <1>4, <2>1 DEF CommitEdit
    <3>3. QED
      BY <1>1, <3>1, <3>2, ShownBecomes
  <2>2. CASE ~Healthy(s)
    BY <1>2, <1>4, <2>2 DEF CommitEdit
  <2>3. QED
    BY <2>1, <2>2
<1>5. ASSUME NEW s \in Sessions, WriteRecord(s) PROVE ShownTyped'
  <2>1. CASE task[s].stage = "settling" /\ task[s].auth
    <3>1. accepted[s] > 0
      BY <2>1 DEF Viewing, Reading, Active
    <3>2. accepted[s] \in Nat /\ accepted[s] =< Len(log) /\ Len(log) \in Nat
      <4>1. /\ seen[s] \in Nat /\ accepted[s] \in Nat /\ Len(log) \in Nat
            /\ Delivered(listener[s], Len(log), seen[s], accepted[s], queue[s], task[s])
        BY PlacesOf
      <4>2. QED
        BY <4>1 DEF Delivered, Ordered
    <3>3. accepted[s] \in DOMAIN log
      BY <1>1, <3>1, <3>2
    <3>4. PICK j : j = journal'[DeviceOf[s]]
      OBVIOUS
    <3>5. j \in Seq(Entry)
      BY <3>4, JournalGrows, DeviceAssumption DEF JournalType
    <3>6. PICK e : e = Overlay(log[accepted[s]], j)
      OBVIOUS
    <3>7. e \in Entity
      BY <1>1, <3>3, <3>5, <3>6, OverlayType
    <3>8. shown' = [shown EXCEPT ![s] = e]
      BY <1>5, <2>1, <3>4, <3>6 DEF WriteRecord
    <3>9. QED
      BY <1>1, <3>7, <3>8, ShownBecomes
  <2>2. CASE ~(task[s].stage = "settling" /\ task[s].auth)
    BY <1>2, <1>5, <2>2 DEF WriteRecord
  <2>3. QED
    BY <2>1, <2>2
<1>6. ASSUME NEW s \in Sessions, ListenerMoves(s) PROVE ShownTyped'
  <2>1. CASE Stop(s)
    <3>1. shown' = [shown EXCEPT ![s] = NoEntity]
      BY <2>1 DEF Stop
    <3>2. QED
      BY <1>1, <3>1, ShownBecomes, NothingIsEntity
  <2>2. CASE HearVersion(s) \/ HearOther(s) \/ ListenerFails(s)
    BY <1>2, <2>2 DEF HearVersion, HearOther, Hear, ListenerFails
  <2>3. QED
    BY <1>6, <2>1, <2>2 DEF ListenerMoves
<1>7. ASSUME NEW s \in Sessions,
             Start(s) \/ Prepares(s) \/ Resolves(s) \/ Sends(s) \/ Concludes(s) PROVE ShownTyped'
  <2>1. CASE Start(s)
    BY <1>2, <2>1 DEF Start
  <2>2. CASE Prepares(s)
    BY <1>2, <2>2, PrepareStep DEF Prepares
  <2>3. CASE Resolves(s)
    BY <1>2, <2>3 DEF Resolves, AcceptConflict, ResolveReapplied
  <2>4. CASE Sends(s)
    BY <1>2, <2>4, DispatchStep DEF Sends
  <2>5. CASE Concludes(s)
    BY <1>2, <2>5 DEF Concludes, AbortLocally, MergeAtDatabase
  <2>6. QED
    BY <1>7, <2>1, <2>2, <2>3, <2>4, <2>5
<1>8. ASSUME NEW s \in Sessions, CallFails(s) \/ Answer(s) \/ AcceptResult(s) \/ ReadRecord(s) PROVE ShownTyped'
  BY <1>2, <1>8 DEF CallFails, Answer, AcceptResult, ReadRecord
<1>9. ASSUME NEW d \in Devices, BackoffEnds(d) PROVE ShownTyped'
  BY <1>2, <1>9 DEF BackoffEnds
<1>10. CASE UNCHANGED <<scene, vars>>
  BY <1>2, <1>10 DEF vars
<1>11. QED
  BY <1>3, <1>4, <1>5, <1>6, <1>7, <1>8, <1>9, <1>10, StepKinds

\* Every prepared value is the merge of an operation with what was shown.
LEMMA ValuesNext ==
  ASSUME Types, Delivery, Dispatched, Viewing, [Next]_<<scene, vars>>
  PROVE  ValuesTyped'
<1>1. ASSUME NEW s \in Sessions, NEW e, edit' = [edit EXCEPT ![s] = e],
             e.phase = "prepared" => e.value \in Entity
      PROVE  ValuesTyped'
  <2>1. edit'[s] = e /\ \A r \in Sessions : r # s => edit'[r] = edit[r]
    BY <1>1 DEF Types, EditTyped
  <2>2. ASSUME NEW r \in Sessions, edit'[r].phase = "prepared" PROVE edit'[r].value \in Entity
    BY <1>1, <2>1, <2>2 DEF Viewing, ValuesTyped
  <2>3. QED
    BY <2>2 DEF ValuesTyped
<1>2. ASSUME UNCHANGED edit PROVE ValuesTyped'
  BY <1>2 DEF Viewing, ValuesTyped
<1>3. ASSUME NEW s \in Sessions, NEW o, NEW n, Prepare(s, o, n) PROVE ValuesTyped'
  <2>1. PICK value : value = Merged(shown[s], o)
    OBVIOUS
  <2>2. value \in Entity
    <3>1. shown[s] \in Entity
      BY DEF Viewing, ShownTyped
    <3>2. WellFormed(o)
      BY <1>3 DEF Prepare
    <3>3. QED
      BY <2>1, <3>1, <3>2, MergeType
  <2>3. PICK e : e = [phase |-> "prepared", op |-> o, value |-> value, basis |-> accepted[s], resolves |-> n]
    OBVIOUS
  <2>4. edit' = [edit EXCEPT ![s] = e] /\ e.value = value
    BY <1>3, <2>1, <2>3 DEF Prepare
  <2>5. QED
    BY <1>1, <2>2, <2>4
<1>4. ASSUME NEW s \in Sessions, Prepares(s) PROVE ValuesTyped'
  BY <1>3, <1>4 DEF Prepares, PrepareEdit, PrepareReapply
<1>5. ASSUME NEW s \in Sessions, CommitEdit(s) PROVE ValuesTyped'
  <2>1. PICK e : edit' = [edit EXCEPT ![s] = e] /\ e.phase \in {"none", "resolving"}
    BY <1>5, CommitStep
  <2>2. QED
    BY <1>1, <2>1
<1>6. ASSUME NEW s \in Sessions, edit' = [edit EXCEPT ![s] = NoEdit] PROVE ValuesTyped'
  BY <1>1, <1>6 DEF NoEdit
<1>7. ASSUME NEW s \in Sessions, Resolves(s) PROVE ValuesTyped'
  BY <1>2, <1>6, <1>7 DEF Resolves, AcceptConflict, ResolveReapplied
<1>8. ASSUME NEW s \in Sessions, ListenerMoves(s) PROVE ValuesTyped'
  BY <1>2, <1>6, <1>8 DEF ListenerMoves, HearVersion, HearOther, Hear, ListenerFails, Stop
<1>9. ASSUME NEW s \in Sessions,
             \/ Start(s) \/ AcceptVersion(s) \/ CallFails(s) \/ Answer(s)
             \/ AcceptResult(s) \/ ReadRecord(s) \/ WriteRecord(s)
      PROVE  ValuesTyped'
  <2>1. CASE Start(s) \/ AcceptVersion(s) \/ CallFails(s) \/ Answer(s)
    BY <1>2, <2>1 DEF Start, AcceptVersion, CallFails, Answer
  <2>2. CASE AcceptResult(s) \/ ReadRecord(s) \/ WriteRecord(s)
    BY <1>2, <2>2 DEF AcceptResult, ReadRecord, WriteRecord
  <2>3. QED
    BY <1>9, <2>1, <2>2
<1>10. ASSUME NEW s \in Sessions, Sends(s) \/ Concludes(s) PROVE ValuesTyped'
  <2>1. CASE Sends(s)
    BY <1>2, <2>1, DispatchStep DEF Sends
  <2>2. CASE Concludes(s)
    BY <1>2, <2>2 DEF Concludes, AbortLocally, MergeAtDatabase
  <2>3. QED
    BY <1>10, <2>1, <2>2
<1>11. ASSUME NEW d \in Devices, BackoffEnds(d) PROVE ValuesTyped'
  BY <1>2, <1>11 DEF BackoffEnds
<1>12. CASE UNCHANGED <<scene, vars>>
  BY <1>2, <1>12 DEF vars
<1>13. QED
  BY <1>4, <1>5, <1>7, <1>8, <1>9, <1>10, <1>11, <1>12, StepKinds

LEMMA ViewingNext == IInv /\ Viewing /\ [Next]_<<scene, vars>> => Viewing'
<1> SUFFICES ASSUME IInv, Viewing, [Next]_<<scene, vars>> PROVE Viewing'
  OBVIOUS
<1>1. Types /\ Delivery /\ Dispatched /\ Retained /\ Reading
  BY DEF IInv, Viewing
<1>2. QED
  BY <1>1, ShownNext, ValuesNext, ReadingNext DEF Viewing

LEMMA TypesAreRight == IInv /\ Viewing => TypeOK
<1> SUFFICES ASSUME IInv, Viewing PROVE TypeOK
  OBVIOUS
<1>1. Types /\ Delivery
  BY DEF IInv
<1>2. log \in Seq(Entity) /\ log # <<>> /\ Len(log) \in Nat
  BY <1>1 DEF Types, LogType
<1>3. ASSUME NEW d \in Devices PROVE journal[d] \in Seq(Record)
  <2>1. journal[d] \in Seq(Entry) /\ Entry \subseteq Record
    BY <1>1 DEF Types, JournalType, Entry
  <2>2. QED
    BY <2>1
<1>4. ASSUME NEW s \in Sessions
      PROVE  /\ listener[s] \in Listening \cup {"off", "retired"}
             /\ seen[s] \in 0..Len(log) /\ accepted[s] \in 0..Len(log)
             /\ queue[s] \in Seq(0..Len(log))
             /\ task[s] \in TaskType
             /\ edit[s].phase \in {"none", "prepared", "resolving"}
  <2>1. /\ seen[s] \in Nat /\ accepted[s] \in Nat /\ queue[s] \in Seq(Nat)
        /\ task[s] \in ActiveTask \cup {NoTask}
        /\ Delivered(listener[s], Len(log), seen[s], accepted[s], queue[s], task[s])
    BY <1>1, PlacesOf
  <2>2. listener[s] \in Listening \cup {"off", "retired"} /\ edit[s].phase \in {"none", "prepared", "resolving"}
    BY <1>1 DEF Types, PlacesType, EditTyped
  <2>3. seen[s] =< Len(log) /\ accepted[s] =< seen[s] /\ \A i \in DOMAIN queue[s] : queue[s][i] =< seen[s]
    BY <2>1 DEF Delivered, Ordered
  <2>4. seen[s] \in 0..Len(log) /\ accepted[s] \in 0..Len(log)
    BY <1>2, <2>1, <2>3
  <2>5. queue[s] \in Seq(0..Len(log))
    <3>1. \A i \in 1..Len(queue[s]) : queue[s][i] \in 0..Len(log)
      BY <1>2, <2>1, <2>3
    <3>2. QED
      BY <2>1, <3>1
  <2>6. task[s] \in TaskType
    <3>1. CASE task[s] = NoTask
      BY <3>1 DEF TaskType
    <3>2. CASE task[s] \in ActiveTask
      BY <3>2 DEF TaskType, ActiveTask, Stages, Entry
    <3>3. QED
      BY <2>1, <3>1, <3>2
  <2>7. QED
    BY <2>2, <2>4, <2>5, <2>6
<1>5. scene \in Scenes /\ faults \in 0..scene.faults
  BY <1>1 DEF Types, SceneTyped
<1>6. StateTypes
  BY <1>2, <1>3, <1>4, <1>5 DEF StateTypes
<1>7. QED
  BY <1>6 DEF TypeOK, Viewing, ShownTyped

\* Whatever the devices and the database do, the state keeps its types: the
\* places a session keeps are places of the log, and what it shows is a record.
THEOREM TypeCorrectness == Spec => []TypeOK
  BY IInvInit, IInvNext, ViewingInit, ViewingNext, TypesAreRight, PTL DEF Spec
=============================================================================
