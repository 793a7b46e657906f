----------------------------- MODULE AccountSync -----------------------------
(***************************************************************************)
(* Cross-device sync of one logical entity: devices with a durable journal *)
(* of their user's edits, the sessions (browser tabs or successive runtimes*)
(* ) that send them, and the account's database.                           *)
(*                                                                         *)
(* Source: js/data/accountSyncController.js, accountSyncJournal.js,        *)
(* accountSyncRepository.js and stop() of accountSyncRuntime.js.           *)
(*                                                                         *)
(* Every accepted version of the entity stays in log, and a version is     *)
(* known elsewhere by its place in it; place 1 is the origin, place 0 is   *)
(* "none yet".  Only log[Len(log)] exists in the database: the rest is     *)
(* history.  The database connection delivers versions in order, may skip  *)
(* some, and delivers what a transaction wrote before its answer.          *)
(*                                                                         *)
(* Places where the code awaits are places where this specification has a  *)
(* step boundary; a listener event closes the session's authority at once, *)
(* and the work it brings waits its turn in the canonical queue.           *)
(***************************************************************************)
EXTENDS SyncJournal

CONSTANTS
  Devices,
  Sessions,     \* runtimes; each starts and stops at most once
  DeviceOf,     \* the device whose journal a session works on
  Origin,       \* the record as operations long settled have left it
  Lifecycle,    \* the target of an add or a delete
  Requests,     \* operations that these users can come to issue
  Scenes        \* what the world may do; each behaviour plays one of them

ASSUME DeviceAssumption == DeviceOf \in [Sessions -> Devices] /\ IsFiniteSet(Sessions)
ASSUME OriginAssumption ==
  /\ Origin \in Entity
  /\ ~Exists(Origin) => Origin = NoEntity
ASSUME RequestAssumption   == \A o \in Requests : WellFormed(o)
ASSUME LifecycleAssumption == Lifecycle \notin Fields
ASSUME SceneAssumption  ==
  Scenes \subseteq [ sessions : SUBSET Sessions,   \* the runtimes of the behaviour
                     tabs     : Nat \ {0},         \* live on one device at once
                     patches  : SUBSET [Fields -> Values \cup {NoValue}],
                     edits    : 0..Cardinality(OpIds),
                     faults   : Nat ]              \* failed calls, listener failures,
                                                   \* unrelated events and stops

VARIABLES
  scene,      \* the scene that is played
  log,        \* versions of the record
  done,       \* history: the effects committed, as in CanonicalEntity
  journal,    \* [Devices -> Seq(Record)], durable
  listener,   \* [Sessions -> state of the account listener]
  seen,       \* the version the connection last delivered to a session
  accepted,   \* acceptedEntities: the version a session validated and took
  shown,      \* entities: what a session shows and prepares edits on
  queue,      \* remoteAcceptPromise: versions and the result waiting
  task,       \* the operation a session is sending
  edit,       \* the mutation a session is preparing or resolving
  faults      \* faults so far

vars == <<log, done, journal, listener, seen, accepted, shown, queue, task, edit, faults>>

entity == log[Len(log)]

Canonical ==
  INSTANCE CanonicalEntity WITH issued <- UNION {OpsIn(journal[d]) : d \in Devices}

-----------------------------------------------------------------------------
Listening == {"listening", "healthy", "failed"}
Live(s)   == listener[s] \in Listening
Healthy(s) == listener[s] = "healthy"

\* Mutant of Writable: a stopped runtime's journal is not retired.
NeverRetired(s) == TRUE

\* requireWritable: a stopped runtime's journal refuses to write.
Writable(s) == Live(s)

Result == 0     \* the task's result in the canonical queue

NoTask == [stage |-> "idle"]

\* auth: the listener authority the dispatch holds is still the current one.
\* saved: the journal record as the task last read it.
SendTask(r, i, manual) ==
  [ stage |-> "sent", i |-> i, saved |-> r, manual |-> manual, auth |-> TRUE,
    version |-> 0, verdict |-> "none", lost |-> {}, cause |-> "none" ]

NoEdit == [phase |-> "none"]

TaskOp(s) == task[s].saved.op

\* accountEntities and monotonicEntity: a version is taken, is no news, or
\* makes the session distrust its listener.
Verdict(prior, incoming) ==
  IF prior = 0 THEN "take"
  ELSE IF Exists(log[prior]) /\ ~Exists(log[incoming]) THEN "entity-missing"
  ELSE MonotonicVerdict(log[prior], log[incoming])

Trusted(prior, incoming) == Verdict(prior, incoming) \in {"take", "keep"}

\* Mutant of AfterAccepting: the first accepted version stays.
FirstAccepted(prior, incoming) == IF prior = 0 THEN incoming ELSE prior

AfterAccepting(prior, incoming) ==
  IF Verdict(prior, incoming) = "take" THEN incoming ELSE prior

\* closeListenerAuthority, as seen by the dispatch under way.
WithoutAuthority(t) == IF t.stage = "idle" THEN t ELSE [t EXCEPT !.auth = FALSE]

-----------------------------------------------------------------------------
Init ==
  /\ scene \in Scenes
  /\ log = <<Origin>>
  /\ done = {}
  /\ journal = [d \in Devices |-> <<>>]
  /\ listener = [s \in Sessions |-> "off"]
  /\ seen = [s \in Sessions |-> 0]
  /\ accepted = [s \in Sessions |-> 0]
  /\ shown = [s \in Sessions |-> NoEntity]
  /\ queue = [s \in Sessions |-> <<>>]
  /\ task = [s \in Sessions |-> NoTask]
  /\ edit = [s \in Sessions |-> NoEdit]
  /\ faults = 0

\* activate: the listener is attached; nothing can be edited or sent before
\* its first event is accepted.
Start(s) ==
  /\ listener[s] = "off"
  /\ Cardinality({t \in Sessions : DeviceOf[t] = DeviceOf[s] /\ Live(t)}) < scene.tabs
  /\ listener' = [listener EXCEPT ![s] = "listening"]
  /\ UNCHANGED <<log, done, journal, seen, accepted, shown, queue, task, edit, faults>>

\* stop, or the tab is gone.  What was sent may still reach the database, and
\* a journal write under way is fenced; the rest of a task is without effect,
\* and nothing reads the memory of a stopped session again.
Stop(s) ==
  /\ Live(s) /\ faults < scene.faults
  /\ listener' = [listener EXCEPT ![s] = "retired"]
  /\ queue' = [queue EXCEPT ![s] = <<>>]
  /\ edit' = [edit EXCEPT ![s] = NoEdit]
  /\ accepted' = [accepted EXCEPT ![s] = 0]
  /\ shown' = [shown EXCEPT ![s] = NoEntity]
  /\ task' = [task EXCEPT ![s] =
                IF @.stage \in {"sent", "settling", "retaining"} THEN WithoutAuthority(@) ELSE NoTask]
  /\ faults' = faults + 1
  /\ UNCHANGED <<log, done, journal, seen>>

\* handleListenerData, its synchronous part.
Hear(s, version) ==
  /\ Live(s)
  /\ seen' = [seen EXCEPT ![s] = version]
  /\ listener' = [listener EXCEPT ![s] = "listening"]
  /\ task' = [task EXCEPT ![s] = WithoutAuthority(@)]
  /\ queue' = [queue EXCEPT ![s] = Append(@, version)]
  /\ UNCHANGED <<log, done, journal, accepted, shown, edit>>

HearVersion(s) ==
  /\ \E version \in seen[s] + 1 .. Len(log) : Hear(s, version)
  /\ UNCHANGED faults

\* Another entity, the profile or the metadata of the account changed.
HearOther(s) ==
  /\ seen[s] > 0 /\ faults < scene.faults
  /\ Hear(s, seen[s])
  /\ faults' = faults + 1

\* applyRemote in its turn.  Authority comes back only if no later event, and
\* no failure, has closed it again.
AcceptVersion(s) ==
  /\ Live(s)
  /\ queue[s] # <<>> /\ Head(queue[s]) # Result
  /\ LET version == Head(queue[s])
         latest  == \A i \in 2..Len(queue[s]) : queue[s][i] = Result
         ok      == Trusted(accepted[s], version)
         taken   == AfterAccepting(accepted[s], version)
     IN
     /\ queue' = [queue EXCEPT ![s] = Tail(@)]
     /\ accepted' = [accepted EXCEPT ![s] = IF ok THEN taken ELSE @]
     /\ shown' = [shown EXCEPT ![s] =
                    IF ok THEN Overlay(log[taken], journal[DeviceOf[s]]) ELSE @]
     /\ listener' = [listener EXCEPT ![s] =
                       IF latest /\ @ = "listening"
                         THEN IF ok THEN "healthy" ELSE "failed" ELSE @]
  /\ UNCHANGED <<log, done, journal, seen, task, edit, faults>>

\* The subscription is cancelled, or a caller waited too long for it.
ListenerFails(s) ==
  /\ listener[s] \in {"listening", "healthy"} /\ faults < scene.faults
  /\ listener' = [listener EXCEPT ![s] = "failed"]
  /\ task' = [task EXCEPT ![s] = WithoutAuthority(@)]
  /\ faults' = faults + 1
  /\ UNCHANGED <<log, done, journal, seen, accepted, shown, queue, edit>>

-----------------------------------------------------------------------------
(***************************************************************************)
(* Editing: performMutationBatch, and the resolution of conflicts.         *)
(***************************************************************************)
Ids == {r.op.id : r \in UNION {ToSet(journal[d]) : d \in Devices}}
       \cup {edit[s].op.id : s \in {t \in Sessions : edit[t].phase = "prepared"}}

MayPrepare(s) == Healthy(s) /\ edit[s].phase = "none" /\ Cardinality(Ids) < scene.edits

\* prepareMutation, on what the session shows; refused when it does not merge.
Prepare(s, o, resolves) ==
  /\ WellFormed(o) /\ Accepts(shown[s], o)
  /\ edit' = [edit EXCEPT ![s] =
                [ phase |-> "prepared", op |-> o, value |-> Merged(shown[s], o),
                  basis |-> accepted[s], resolves |-> resolves ]]
  /\ UNCHANGED <<log, done, journal, listener, seen, accepted, shown, queue, task, faults>>

PrepareEdit(s) ==
  /\ MayPrepare(s)
  /\ \E id \in OpIds \ Ids, kind \in Kinds, patch \in scene.patches :
       Prepare(s, NewOperation(id, kind, shown[s], patch, 0), 0)

\* reapplyConflict: the device's values of the conflicting fields again, as a
\* new operation on what the session shows now.
PrepareReapply(s) ==
  /\ MayPrepare(s)
  /\ \E id \in OpIds \ Ids, i \in DOMAIN journal[DeviceOf[s]] :
    LET r == journal[DeviceOf[s]][i] IN
    /\ r.status = "conflict" /\ r.op.kind = "patch" /\ r.lost # {}
    /\ Prepare(s, NewOperation(id, "patch", shown[s],
                    [f \in Fields |-> IF f \in r.lost THEN r.op.values[f] ELSE NoValue], 0), i)

\* Refused if the listener is not healthy any more, or again: the view the
\* edit was prepared on may be older than the one shown.
CommitEdit(s) ==
  LET d == DeviceOf[s] e == edit[s] IN
  /\ Live(s) /\ e.phase = "prepared"
  /\ IF Healthy(s)
       THEN /\ journal' = [journal EXCEPT ![d] = Enqueued(@, e.op, e.basis)]
            /\ shown' = [shown EXCEPT ![s] = e.value]
            /\ edit' = [edit EXCEPT ![s] =
                          IF e.resolves = 0 THEN NoEdit
                          ELSE [phase |-> "resolving", resolves |-> e.resolves]]
       ELSE /\ edit' = [edit EXCEPT ![s] = NoEdit]
            /\ UNCHANGED <<journal, shown>>
  /\ UNCHANGED <<log, done, listener, seen, accepted, queue, task, faults>>

\* The second half of reapplyConflict.
ResolveReapplied(s) ==
  /\ Writable(s) /\ edit[s].phase = "resolving"
  /\ journal' = [journal EXCEPT ![DeviceOf[s]][edit[s].resolves] = Resolved(@)]
  /\ edit' = [edit EXCEPT ![s] = NoEdit]
  /\ UNCHANGED <<log, done, listener, seen, accepted, shown, queue, task, faults>>

\* acceptConflict: the user keeps the account's values.
AcceptConflict(s) ==
  /\ Healthy(s)
  /\ \E i \in DOMAIN journal[DeviceOf[s]] :
       /\ journal[DeviceOf[s]][i].status = "conflict"
       /\ journal' = [journal EXCEPT ![DeviceOf[s]][i] = Resolved(@)]
  /\ UNCHANGED <<log, done, listener, seen, accepted, shown, queue, task, edit, faults>>

-----------------------------------------------------------------------------
(***************************************************************************)
(* Sending: drain, dispatch and applyOperation.                            *)
(***************************************************************************)
Send(s, i, manual) ==
  /\ Healthy(s) /\ task[s].stage = "idle"
  /\ task' = [task EXCEPT ![s] = SendTask(journal[DeviceOf[s]][i], i, manual)]
  /\ UNCHANGED <<log, done, journal, listener, seen, accepted, shown, queue, edit, faults>>

Dispatch(s) ==
  /\ NextOperation(journal[DeviceOf[s]]) # 0
  /\ Send(s, NextOperation(journal[DeviceOf[s]]), FALSE)

RetryBlocked(s) ==
  \E i \in DOMAIN journal[DeviceOf[s]] :
    RetryEligible(journal[DeviceOf[s]][i]) /\ Send(s, i, TRUE)

\* A transaction ends with its merge on some version.
Concluded(t, known, version) ==
  [t EXCEPT !.stage = "merged", !.version = version,
            !.verdict = MergeStatus(known, t.saved.op),
            !.lost = ConflictFields(known, t.saved.op)]

\* On the version the connection holds the operation does not commit: the
\* transaction is given up before it reaches the database.
AbortLocally(s) ==
  /\ Live(s) /\ task[s].stage = "sent"
  /\ ~Commits(log[seen[s]], TaskOp(s))
  /\ task' = [task EXCEPT ![s] = Concluded(@, log[seen[s]], seen[s])]
  /\ UNCHANGED <<log, done, journal, listener, seen, accepted, shown, queue, edit, faults>>

\* Mutant of MergeBase: the merge with the version at hand is stored.
CachedBase(s) == log[seen[s]]

\* The database compares and sets: the merge is run again until it is on the
\* current version.
MergeBase(s) == entity

MergeAtDatabase(s) ==
  LET o == TaskOp(s) base == MergeBase(s) IN
  /\ task[s].stage = "sent"
  /\ Commits(log[seen[s]], o)
  /\ log' = IF Commits(base, o) THEN Append(log, Merged(base, o)) ELSE log
  /\ done' = done \cup Canonical!Effects(base, o)
  /\ task' = [task EXCEPT ![s] = Concluded(@, base, Len(log'))]
  /\ UNCHANGED <<journal, listener, seen, accepted, shown, queue, edit, faults>>

\* The call fails: before the database took it, or after, its answer lost.
CallFails(s) ==
  /\ Live(s) /\ task[s].stage \in {"sent", "merged"} /\ faults < scene.faults
  /\ \E cause \in {"network", "denied"} :
       /\ cause = "denied" => task[s].stage = "sent"
       /\ task' = [task EXCEPT ![s] = [@ EXCEPT !.stage = "failing", !.cause = cause]]
  /\ faults' = faults + 1
  /\ UNCHANGED <<log, done, journal, listener, seen, accepted, shown, queue, edit>>

\* The answer follows the version it is about.  What was committed, or found
\* applied already, is read back; the latter must still show it.
Answer(s) ==
  LET t == task[s] IN
  /\ Live(s) /\ t.stage = "merged" /\ seen[s] >= t.version
  /\ \/ /\ t.verdict = "idempotent"
        /\ MergeStatus(log[seen[s]], TaskOp(s)) # "idempotent"
        /\ task' = [task EXCEPT ![s] = [t EXCEPT !.stage = "failing", !.cause = "unproven"]]
        /\ UNCHANGED queue
     \/ /\ t.verdict = "idempotent" => MergeStatus(log[seen[s]], TaskOp(s)) = "idempotent"
        /\ task' = [task EXCEPT ![s] =
                      [t EXCEPT !.stage = "answered",
                                !.version = IF Conflicting(t.verdict) THEN @ ELSE seen[s]]]
        /\ queue' = [queue EXCEPT ![s] = Append(@, Result)]
  /\ UNCHANGED <<log, done, journal, listener, seen, accepted, shown, edit, faults>>

\* acceptCanonicalResult in its turn.  A dispatch that lost its authority goes
\* on under a new one only if exactly its version has been accepted.
AcceptResult(s) ==
  LET t == task[s] IN
  /\ Live(s)
  /\ queue[s] # <<>> /\ Head(queue[s]) = Result
  /\ queue' = [queue EXCEPT ![s] = Tail(@)]
  /\ \/ /\ t.auth
        /\ accepted' = [accepted EXCEPT ![s] = AfterAccepting(@, t.version)]
        /\ task' = [task EXCEPT ![s] =
                      IF Trusted(accepted[s], t.version) THEN [t EXCEPT !.stage = "accepted"]
                      ELSE [t EXCEPT !.stage = "failing", !.cause = "unproven"]]
     \/ /\ ~t.auth /\ accepted[s] = t.version /\ Healthy(s)
        /\ task' = [task EXCEPT ![s] = [t EXCEPT !.stage = "accepted", !.auth = TRUE]]
        /\ UNCHANGED accepted
     \/ /\ ~t.auth /\ ~(accepted[s] = t.version /\ Healthy(s))
        /\ task' = [task EXCEPT ![s] = NoTask]
        /\ UNCHANGED accepted
  /\ UNCHANGED <<log, done, journal, listener, seen, shown, edit, faults>>

\* The journal functions read the record, and write it in a later transaction.
\* A dispatch without authority leaves the operation as it is.
ReadRecord(s) ==
  LET t == task[s] r == journal[DeviceOf[s]][t.i] IN
  /\ Live(s) /\ t.stage \in {"accepted", "failing"}
  /\ task' = [task EXCEPT ![s] =
                IF ~t.auth THEN NoTask
                ELSE [t EXCEPT !.saved = r,
                               !.stage = IF t.stage = "accepted" THEN "settling" ELSE "retaining"]]
  /\ UNCHANGED <<log, done, journal, listener, seen, accepted, shown, queue, edit, faults>>

\* Mutant of Settlement: any answer acknowledges the operation.
AnsweredIsDone(t) == Acknowledged(t.saved)

\* What an answered operation becomes, and one whose call failed.  A failed
\* manual retry leaves a record that is no longer blocked alone.
Settlement(t) ==
  IF t.verdict \in {"applied", "idempotent"} THEN Acknowledged(t.saved)
  ELSE Conflicted(t.saved, t.lost)

Retention(t, current) ==
  IF ~t.manual THEN Attempted(t.saved, t.cause)
  ELSE IF t.saved.status = "blocked" THEN RetainedBlocked(t.saved, t.cause)
  ELSE current

WriteRecord(s) ==
  LET t == task[s] d == DeviceOf[s] IN
  /\ t.stage \in {"settling", "retaining"}
  /\ journal' = IF ~Writable(s) THEN journal
                ELSE [journal EXCEPT ![d][t.i] =
                        IF t.stage = "settling" THEN Settlement(t) ELSE Retention(t, @)]
  /\ shown' = IF t.stage = "settling" /\ t.auth
                THEN [shown EXCEPT ![s] = Overlay(log[accepted[s]], journal'[d])] ELSE shown
  /\ task' = [task EXCEPT ![s] = NoTask]
  /\ UNCHANGED <<log, done, listener, seen, accepted, queue, edit, faults>>

\* The backoff of a failed attempt runs out.
BackoffEnds(d) ==
  /\ \E i \in DOMAIN journal[d] :
       /\ journal[d][i].status = "pending" /\ ~journal[d][i].due
       /\ journal' = [journal EXCEPT ![d][i].due = TRUE]
  /\ UNCHANGED <<log, done, listener, seen, accepted, shown, queue, task, edit, faults>>
-----------------------------------------------------------------------------
SessionStep(s) ==
  \/ HearVersion(s) \/ AcceptVersion(s) \/ AcceptResult(s)
  \/ CommitEdit(s) \/ ResolveReapplied(s)
  \/ Dispatch(s) \/ AbortLocally(s) \/ MergeAtDatabase(s) \/ Answer(s)
  \/ ReadRecord(s) \/ WriteRecord(s)

UserStep(s) ==
  \/ Start(s)
  \/ PrepareEdit(s) \/ PrepareReapply(s) \/ AcceptConflict(s) \/ RetryBlocked(s)

FaultStep(s) == Stop(s) \/ HearOther(s) \/ ListenerFails(s) \/ CallFails(s)

Next ==
  /\ \/ \E s \in scene.sessions : SessionStep(s) \/ UserStep(s) \/ FaultStep(s)
     \/ \E d \in Devices : BackoffEnds(d)
  /\ UNCHANGED scene

Spec == Init /\ [][Next]_<<scene, vars>>

\* The event loop runs every ready continuation, the connection delivers what
\* the database has, a timer fires; users and faults owe nothing.
Fairness ==
  /\ \A s \in Sessions :
       /\ WF_vars(HearVersion(s))
       /\ WF_vars(AcceptVersion(s))
       /\ WF_vars(AcceptResult(s))
       /\ WF_vars(CommitEdit(s) \/ ResolveReapplied(s))
       /\ WF_vars(Dispatch(s))
       /\ WF_vars(AbortLocally(s) \/ MergeAtDatabase(s))
       /\ WF_vars(Answer(s))
       /\ WF_vars(ReadRecord(s))
       /\ WF_vars(WriteRecord(s))
  /\ \A d \in Devices : WF_vars(BackoffEnds(d))

LiveSpec == Spec /\ Fairness

-----------------------------------------------------------------------------
Records == UNION {ToSet(journal[d]) : d \in Devices}

TaskType ==
  {NoTask} \cup
  [ stage : {"sent", "merged", "answered", "accepted", "failing", "settling", "retaining"},
    i : Nat \ {0}, saved : Record, manual : BOOLEAN, auth : BOOLEAN, version : Nat,
    verdict : MergeStatuses \cup {"none"}, lost : SUBSET Fields, cause : Causes ]

StateTypes ==
  /\ log \in Seq(Entity) /\ log # <<>>
  /\ \A d \in Devices : journal[d] \in Seq(Record)
  /\ \A s \in Sessions :
       /\ listener[s] \in Listening \cup {"off", "retired"}
       /\ seen[s] \in 0..Len(log) /\ accepted[s] \in 0..Len(log)
       /\ queue[s] \in Seq(0..Len(log))
       /\ task[s] \in TaskType
       /\ edit[s].phase \in {"none", "prepared", "resolving"}
  /\ scene \in Scenes /\ faults \in 0..scene.faults

TypeOK == StateTypes /\ \A s \in Sessions : shown[s] \in Entity

\* A database that only merges never makes a session distrust its listener:
\* versions skipped, repeated, or overtaken by an answer are no substitution,
\* no disappearance and no invalid transition (accountSyncController.js:133-
\* 167).  A false alarm would stop sync on a healthy account.
NoFalseAlarm ==
  \A s \in Sessions :
    Live(s) /\ queue[s] # <<>> =>
      IF Head(queue[s]) = Result
        THEN task[s].auth => Trusted(accepted[s], task[s].version)
        ELSE Trusted(accepted[s], Head(queue[s]))

\* An operation is acknowledged only if some version of the record proves it,
\* all of its fields at once (accountSyncController.js:452-455).
AckHasProof ==
  \A r \in Records :
    r.status = "acknowledged" =>
      \E i \in DOMAIN log : MergeStatus(log[i], r.op) = "idempotent"

\* Whatever a losing patch wanted of a field is in the record's history, or
\* among the fields of the conflict its author can reapply: "one recoverable
\* conflict containing every conflicting field" (docs/CROSS-DEVICE-SYNC.md:51).
\* It is so of an entity that exists: of one whose add is still on its way, a
\* patch sent before it ends as a conflict that names no field.
ConflictKeepsIntent ==
  Exists(Origin) =>
    \A r \in Records :
      r.status \in {"conflict", "resolved"} /\ r.op.kind = "patch" =>
        \A f \in r.op.fields \ r.lost : \E i \in DOMAIN log : Settled(log[i], r.op, f)

\* A stopped runtime's late failure or acknowledgement does not reopen what
\* its replacement has settled (accountSyncJournal.js:43, 51;
\* tests/account-sync-runtime.test.cjs:152).  Two tabs at once may: one sends
\* again what the other has settled.
SettledStays ==
  [][scene.tabs = 1 =>
     \A d \in Devices : \A i \in DOMAIN journal[d] :
       journal[d][i].status \in {"acknowledged", "resolved"} =>
         journal'[d][i].status = journal[d][i].status]_vars

\* A patch prepared on what its author had accepted replaces exactly what the
\* author had seen in that version, however many versions, answers and retries
\* lie between (accountSyncMerge.js:162).
AuthorSaw ==
  [][\A s \in Sessions :
       /\ task[s].stage = "sent" /\ task'[s].stage = "merged" /\ log' # log
       /\ TaskOp(s).kind = "patch"
       => LET o == TaskOp(s) base == log[task[s].saved.basis] IN
          \A f \in o.fields :
            /\ base.generation = o.baseGeneration
            /\ base.fieldRevisions[f] = o.baseRevisions[f]
            /\ log'[Len(log')].fieldMutations[f] = o.id
            /\ entity.fieldMutations[f] # o.id
            => /\ entity.values[f] = base.values[f]
               /\ entity.fieldMutations[f] = base.fieldMutations[f]]_vars

\* The database promises of CanonicalEntity hold of the composition.
CanonicalSpec == Canonical!Spec

\* On a device of a session whose listener keeps working, every retained edit comes to be
\* acknowledged, blocked or recorded as a conflict, and the session comes to accept the current
\* version and to show it under the device's own edits; save what a blocked or resolved
\* operation left in the view, which is rebuilt only when the session accepts a version or
\* settles an operation.  (drain, dispatchOperation, applyRemote and rebuildEntity.)
Convergence ==
  \A s \in Sessions :
    <>[](listener[s] \in {"listening", "healthy"}) =>
      <>[](/\ accepted[s] = Len(log)
           /\ \A r \in ToSet(journal[DeviceOf[s]]) : r.status # "pending"
           /\ \/ \E r \in ToSet(journal[DeviceOf[s]]) : r.status \in {"blocked", "resolved"}
              \/ shown[s] = Overlay(entity, journal[DeviceOf[s]]))

-----------------------------------------------------------------------------
(***************************************************************************)
(* What the documentation says and the code does not keep.                 *)
(***************************************************************************)
\* "Duplicate delivery and response loss are idempotent through the operation
\* ID and input hash" (docs/CROSS-DEVICE-SYNC.md:53): no operation that has
\* taken effect on all of its fields ends as a conflict.
NoFalseConflict ==
  \A r \in Records :
    r.status = "conflict" /\ r.op.kind = "patch" =>
      \E f \in r.op.fields : <<r.op, f>> \notin done

\* "The first server-accepted same-field edit wins" (docs/CROSS-DEVICE-SYNC.md:
\* 50): an edit never replaces another device's edit of the field that its
\* author's session had not accepted when the edit was made.
NoBlindOverwrite ==
  [][\A s \in Sessions :
       /\ task[s].stage = "sent" /\ task'[s].stage = "merged" /\ log' # log
       /\ TaskOp(s).kind = "patch"
       => \A f \in Fields :
            LET past == {i \in DOMAIN log :
                           i > task[s].saved.basis
                           /\ log[i].fieldMutations[f] = entity.fieldMutations[f]
                           /\ log[task[s].saved.basis].fieldMutations[f] # entity.fieldMutations[f]}
            IN log'[Len(log')].fieldMutations[f] = TaskOp(s).id /\ past # {}
                 => entity.fieldMutations[f] \in {r.op.id : r \in ToSet(journal[DeviceOf[s]])}]_vars
=============================================================================
