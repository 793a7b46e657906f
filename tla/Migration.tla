----------------------------- MODULE Migration -----------------------------
(***************************************************************************)
(* Each device of an account moves what it knows from before cross-device  *)
(* sync into the account: it plans on one read of the account, seeds what  *)
(* the account lacks, replays what is safe to replay, keeps the rest as    *)
(* recovery candidates, leaves a create-only record, marks the account as  *)
(* initialized and then itself as complete (start and ensureMigration of   *)
(* js/data/accountSyncRuntime.js; js/domain/accountSyncMigration.js).      *)
(*                                                                         *)
(* What a device knows does not change while it moves.  A device may be    *)
(* reloaded between any two steps, and any of its writes may land without  *)
(* an answer, or not at all.  Devices that are done edit the account.      *)
(***************************************************************************)
EXTENDS Naturals, FiniteSets, SequencesExt

CONSTANTS
  Movers,         \* devices
  ListItems,      \* entities of the legacy lists
  BoardItems,     \* entities of the legacy board
  HeldItems,      \* tags and Favorites, which only devices held
  NoRow,          \* no row
  Removed,        \* a queued deletion
  Legacies,       \* what devices may know; each behaviour is about one of them
  MaxUserEdits,   \* bound of the edits of devices that are done
  MaxMishaps      \* bound of reloads and of writes without an answer

Items  == ListItems \cup BoardItems \cup HeldItems
Levels == {"H", "M", "L"}
Orders == {"first", "second", "unknown"}      \* unknown: 100000
Row    == [priority : Levels, sortOrder : Orders]
Paths  == {"priority", "sortOrder"}

\* A device's own rows and queue; whether the queue holds a whole board.
Knowledge ==
  [ local  : [Items -> Row \cup {NoRow}],
    queued : [Items -> Row \cup {NoRow, Removed}],
    board  : BOOLEAN ]

ASSUME LegacyAssumption ==
  /\ Legacies \subseteq [remote : [Items -> Row \cup {NoRow}], of : [Movers -> Knowledge]]
  /\ NoRow \notin Levels \cup Orders
  /\ MaxUserEdits \in Nat /\ MaxMishaps \in Nat

VARIABLES
  legacy,      \* of Legacies
  account,     \* accountSync/<uid>: entities, meta, migrations (one for each device), recoveryCandidates
  mover,       \* each device's runtime and journal
  held,        \* history: rows the account's entities have had
  userEdits, mishaps

moveVars == <<legacy, account, mover, held, userEdits, mishaps>>

----------------------------------------------------------------------------
(* Operations and what they do to an entity *)

Makers == {"migration", "user"}

\* A migration's operation is named after its whole input, a user's is unique.
MoveId ==
  [ by : Makers, kind : {"add", "patch", "delete"}, generation : Nat,
    revisions : [Paths -> Nat], values : [Paths -> Levels \cup Orders \cup {NoRow}], nth : Nat ]

ASSUME NameAssumption == NoRow \notin MoveId

Ent == INSTANCE AccountEntity WITH
         Fields <- Paths, Values <- Levels \cup Orders, OpIds <- MoveId, NoValue <- NoRow, NoOp <- NoRow

Unset == [p \in Paths |-> NoRow]

\* A mutant: a migration's operation is named after the device that makes it.
OwnName(d, kind, e, patch) ==
  [ by |-> d, kind |-> kind, generation |-> e.generation,
    revisions |-> e.fieldRevisions, values |-> patch, nth |-> 0 ]

MigrationId(d, kind, e, patch) ==
  [ by |-> "migration", kind |-> kind, generation |-> e.generation,
    revisions |-> [p \in Paths |-> IF patch[p] # NoRow THEN e.fieldRevisions[p] ELSE 0],
    values |-> patch, nth |-> 0 ]

UserId(kind, e, patch) ==
  [ by |-> "user", kind |-> kind, generation |-> e.generation,
    revisions |-> e.fieldRevisions, values |-> patch, nth |-> userEdits ]

Alive(e)   == Ent!Exists(e) /\ ~e.deleted
Is(e, row) == Alive(e) /\ e.values = row

----------------------------------------------------------------------------
(***************************************************************************)
(* buildMigrationPlan, of device d, on an account as it was read.  A row   *)
(* is offered unless the device's queue says something newer of it.        *)
(***************************************************************************)
Spoken(d, i) ==
  \/ i \in ListItems /\ legacy.of[d].queued[i] # NoRow
  \/ i \in BoardItems /\ legacy.of[d].board

Silent(d, rows) == {i \in ListItems \cup BoardItems : rows[i] # NoRow /\ ~Spoken(d, i)}

Remote(d) == Silent(d, legacy.remote)
Local(d)  == Silent(d, legacy.of[d].local)
HeldBy(d) == {i \in HeldItems : legacy.of[d].local[i] # NoRow}
QueuedRows(d) ==
  {i \in ListItems \cup BoardItems : Spoken(d, i) /\ legacy.of[d].queued[i] \notin {NoRow, Removed}}
Deleted(d) == {i \in ListItems : legacy.of[d].queued[i] = Removed}

\* Rows of the former board that the queued one lacks: where the account's and the device's
\* copy differ, neither counts.
Dropped(d) ==
  {i \in BoardItems : /\ Spoken(d, i) /\ legacy.of[d].queued[i] = NoRow
                      /\ {legacy.remote[i], legacy.of[d].local[i]} # {NoRow}
                      /\ NoRow \notin {legacy.remote[i], legacy.of[d].local[i]} =>
                           legacy.remote[i] = legacy.of[d].local[i]}

\* unknownLegacyOrderOnly, of a row of the legacy account's lists.
OrderOnly(i, e, row) ==
  i \in ListItems /\ Alive(e) /\ row.sortOrder = "unknown" /\ e.values.priority = row.priority

Entry(i, row) == [item |-> i, row |-> row]
Entries(S, rows) == {Entry(i, rows[i]) : i \in S}

\* fingerprint: the candidate's id covers it.
Candidate(d, reason, i, row) ==
  [reason |-> reason, item |-> i, row |-> row, fingerprint |-> legacy.of[d]]

TombstoneOf(i, e) ==
  [ item |-> i, generation |-> e.generation + 1, revision |-> e.revision + 1, values |-> e.values,
    prior |-> e.lifecycle ]

\* What becomes of the row of an item that the account has no such row of.
Seeded(d, read) ==
  LET absent == {i \in Items : ~Ent!Exists(read.entities[i])} IN
    Entries(absent \cap QueuedRows(d), legacy.of[d].queued) \cup
    IF read.initialized THEN {}
    ELSE Entries(absent \cap Remote(d), legacy.remote) \cup
         Entries(absent \cap (Local(d) \ Remote(d)), legacy.of[d].local) \cup
         Entries(absent \cap HeldBy(d), legacy.of[d].local)

Equal(d, read) ==
  {n \in Entries(Remote(d), legacy.remote) \cup
         Entries(Local(d) \cup HeldBy(d), legacy.of[d].local) \cup
         Entries(QueuedRows(d), legacy.of[d].queued) : Is(read.entities[n.item], n.row)}

\* A mutant: a queued edit is replayed on whatever row the account has.
AnyBase(read, i) == read.initialized /\ Alive(read.entities[i])

OnLegacyBase(read, i) ==
  read.initialized /\ legacy.remote[i] # NoRow /\ Is(read.entities[i], legacy.remote[i])

\* Queued rows that replace, and dropped rows that are deleted, where the account still has
\* the row that the device's queue was filled on.
Replaced(d, read) ==
  {n \in Entries(QueuedRows(d), legacy.of[d].queued) :
     OnLegacyBase(read, n.item) /\ ~Is(read.entities[n.item], n.row)}

Erased(d, read) == {i \in Dropped(d) : OnLegacyBase(read, i)}

RemoteCandidates(d, read, reduced) ==
  {Candidate(d, IF read.initialized THEN "legacy-after-canonical" ELSE "remote-divergence",
             n.item, n.row) :
     n \in {m \in Entries(Remote(d), legacy.remote) \ (Seeded(d, read) \cup Equal(d, read)) :
              ~(reduced /\ OrderOnly(m.item, read.entities[m.item], m.row))}}

\* A mutant: a row of the device that differs from the account's is taken for an old copy.
NoLocalCandidates(d, read) == {}

LocalCandidates(d, read) ==
  {Candidate(d, IF read.initialized THEN "stale-device" ELSE "divergence", n.item, n.row) :
     n \in Entries(Local(d) \cup HeldBy(d), legacy.of[d].local)
           \ (Seeded(d, read) \cup Equal(d, read) \cup Entries(Remote(d), legacy.remote))}

QueueCandidates(d, read) ==
  {Candidate(d, IF n.item \in BoardItems /\ read.initialized THEN "queued-edit-requires-review"
                ELSE "queued-edit-requires-replay", n.item, n.row) :
     n \in Entries(QueuedRows(d), legacy.of[d].queued)
           \ (Seeded(d, read) \cup Equal(d, read) \cup Replaced(d, read))}

\* Deletions are never replayed, save those of board rows.
DeleteCandidates(d, read) ==
  IF ~read.initialized THEN {}
  ELSE {Candidate(d, IF Alive(read.entities[i]) THEN "queued-delete-requires-review"
                     ELSE "queued-delete-missing-base", i,
                  IF Alive(read.entities[i]) THEN read.entities[i].values
                  ELSE IF legacy.remote[i] # NoRow THEN legacy.remote[i]
                  ELSE legacy.of[d].local[i]) : i \in Deleted(d)} \cup
       {Candidate(d, "queued-board-delete-requires-review", i, read.entities[i].values) :
          i \in {j \in Dropped(d) \ Erased(d, read) : Alive(read.entities[j])}}

Plan(d, read, reduced) ==
  [ seeds      |-> Seeded(d, read),
    replays    |-> Replaced(d, read) \cup {Entry(i, NoRow) : i \in Erased(d, read)},
    verified   |-> Seeded(d, read) \cup Equal(d, read) \cup Replaced(d, read),
    tombstones |-> {TombstoneOf(i, read.entities[i]) : i \in Erased(d, read)},
    candidates |-> RemoteCandidates(d, read, reduced) \cup LocalCandidates(d, read) \cup
                   QueueCandidates(d, read) \cup DeleteCandidates(d, read),
    revisions  |-> [i \in Items |-> read.entities[i].revision],
    exact      |-> ~read.initialized ]

SeedCount(plan) == Cardinality(plan.verified) + Cardinality(plan.tombstones)

EvidenceOf(d, plan) ==
  [ fingerprint |-> legacy.of[d], seedCount |-> SeedCount(plan),
    candidateCount |-> Cardinality(plan.candidates) ]

\* verifyMigration: the counts, and that everything is there; as planned, while the account
\* has not been initialized.
Verified(d, plan, record, read) ==
  /\ record = EvidenceOf(d, plan)
  /\ \A n \in plan.verified :
       /\ Ent!Exists(read.entities[n.item])
       /\ plan.exact => Is(read.entities[n.item], n.row)
  /\ \A t \in plan.tombstones :
       LET e == read.entities[t.item] IN
         /\ Ent!Exists(e)
         /\ plan.exact => /\ e.deleted /\ e.generation = t.generation /\ e.revision = t.revision
                          /\ e.values = t.values /\ e.lifecycle # t.prior
  /\ plan.candidates \subseteq read.candidates

\* The reduced plan, unless there is a record of just as many candidates as the other has.
PlanFor(d, read) ==
  LET full    == Plan(d, read, FALSE)
      reduced == Plan(d, read, TRUE)
      Recorded(plan) ==
        \E prior \in read.records[d] : prior.candidateCount = Cardinality(plan.candidates) IN
    IF ~Recorded(full) /\ (read.records[d] = {} \/ Recorded(reduced)) THEN reduced ELSE full

----------------------------------------------------------------------------
NoPlan ==
  [ seeds |-> {}, replays |-> {}, verified |-> {}, tombstones |-> {}, candidates |-> {},
    revisions |-> [i \in Items |-> 0], exact |-> TRUE ]

NotStarted ==
  [ phase |-> "off", plan |-> NoPlan,
    queue |-> <<>>, conflicts |-> {}, kept |-> {}, complete |-> FALSE ]   \* the journal

MoveInit ==
  /\ legacy \in Legacies
  /\ account = [ entities |-> [i \in Items |-> Ent!NoEntity], initialized |-> FALSE,
                 records |-> [d \in Movers |-> {}], candidates |-> {} ]
  /\ mover = [d \in Movers |-> NotStarted]
  /\ held = {} /\ userEdits = 0 /\ mishaps = 0

In(d, phase) == mover[d].phase = phase
AllTried(d) == \A o \in ToSet(mover[d].queue) : o.tried
Working(d) == ~In(d, "off") /\ ~In(d, "blocked") /\ ~In(d, "ready")

\* What a device does next is done, or goes wrong and ends this run of its.
MovesOn(d, phase)   == mover' = [mover EXCEPT ![d].phase = phase]
Mishap              == mishaps < MaxMishaps /\ mishaps' = mishaps + 1
GoesWrong(d)        == Mishap /\ MovesOn(d, "blocked")

Commit(i, e) ==
  /\ account' = [account EXCEPT !.entities[i] = e]
  /\ held' = IF Alive(e) THEN held \cup {Entry(i, e.values)} ELSE held

\* Operations the last runtime left are sent before anything is read.
MoveStarts(d) ==
  /\ In(d, "off") /\ MovesOn(d, "draining")
  /\ UNCHANGED <<legacy, account, held, userEdits, mishaps>>

MoveReads(d) ==
  /\ In(d, "draining") /\ AllTried(d)
  /\ LET plan     == PlanFor(d, account)
         resuming == account.records[d] # {} IN
       IF mover[d].complete
       THEN MovesOn(d, IF account.initialized /\ resuming THEN "ready" ELSE "blocked")
       ELSE mover' = [mover EXCEPT ![d].plan = plan, ![d].phase =
              IF ~resuming THEN "seeding"
              ELSE IF \A record \in account.records[d] : ~Verified(d, plan, record, account)
                THEN "blocked"
              ELSE IF plan.exact THEN "initializing" ELSE "completing"]
  /\ UNCHANGED <<legacy, account, held, userEdits, mishaps>>

\* A seed or a replay is prepared on what the device shows by now, the account under the
\* device's own operations, and saved; the next one waits until it has been sent, once.
Over(i, e, o) == IF o.item = i THEN Ent!Merged(e, o.op) ELSE e

Shown(d, i) ==
  LET queue == mover[d].queue
      shown[k \in 0..Len(queue)] ==
        IF k = 0 THEN account.entities[i] ELSE Over(i, shown[k - 1], queue[k]) IN
    shown[Len(queue)]

Prepared(d, n, kind) ==
  LET e     == Shown(d, n.item)
      patch == IF kind = "delete" THEN Unset ELSE n.row IN
    [ item |-> n.item, tried |-> FALSE, planned |-> mover[d].plan.revisions[n.item],
      op |-> Ent!NewOperation(MigrationId(d, kind, e, patch), kind, e, patch, 0) ]

Enqueues(d, o, plan) ==
  /\ AllTried(d)
  /\ mover' = IF Ent!Accepts(Shown(d, o.item), o.op)
              THEN [mover EXCEPT ![d].plan = plan, ![d].queue = Append(@, o)]
              ELSE [mover EXCEPT ![d].phase = "blocked"]
  /\ UNCHANGED <<legacy, account, held, userEdits, mishaps>>

MoveSeeds(d) ==
  \E n \in mover[d].plan.seeds :
    /\ In(d, "seeding")
    /\ Enqueues(d, Prepared(d, n, "add"), [mover[d].plan EXCEPT !.seeds = @ \ {n}])

MoveReplays(d) ==
  \E n \in mover[d].plan.replays :
    /\ In(d, "seeding") /\ mover[d].plan.seeds = {}
    /\ Enqueues(d, Prepared(d, n, IF n.row = NoRow THEN "delete" ELSE "patch"),
                [mover[d].plan EXCEPT !.replays = @ \ {n}])

\* An entity's operations are sent in their order.
Sendable(d) ==
  {k \in DOMAIN mover[d].queue :
     \A l \in 1..k - 1 : mover[d].queue[l].item # mover[d].queue[k].item}

\* A mutant: an operation of which a part is taken leaves no conflict.
TakenInPart(e, op) == Ent!Accepts(e, op)

\* The answer has no conflicts: nothing of the operation is lost.
Taken(e, op) == Ent!MergeStatus(e, op) \in {"applied", "idempotent"}

\* applyOperation: the answer settles the operation, which is taken, or is a conflict that
\* stays for the user, even when a part of it was applied.
MoveSends(d) ==
  \E k \in Sendable(d) :
    LET o == mover[d].queue[k]
        e == account.entities[o.item] IN
      /\ ~In(d, "off")
      /\ Commit(o.item, Ent!Merged(e, o.op))
      /\ mover' = [mover EXCEPT ![d].queue = RemoveAt(@, k),
                     ![d].conflicts = IF Taken(e, o.op) THEN @ ELSE @ \cup {o}]
      /\ UNCHANGED <<legacy, userEdits, mishaps>>

\* No answer: the operation stays, whether or not the account has taken it.
SendIsLost(d) ==
  \E k \in Sendable(d) :
    LET o == mover[d].queue[k] IN
      /\ Working(d) /\ ~o.tried /\ Mishap
      /\ \/ Commit(o.item, Ent!Merged(account.entities[o.item], o.op))
         \/ UNCHANGED <<account, held>>
      /\ mover' = [mover EXCEPT ![d].queue[k].tried = TRUE]
      /\ UNCHANGED <<legacy, userEdits>>

\* Every operation must have been accepted.
MoveChecks(d) ==
  /\ In(d, "seeding") /\ mover[d].plan.seeds = {} /\ mover[d].plan.replays = {}
  /\ AllTried(d)
  /\ MovesOn(d, IF mover[d].queue = <<>> /\ mover[d].conflicts = {} THEN "keeping" ELSE "blocked")
  /\ UNCHANGED <<legacy, account, held, userEdits, mishaps>>

\* putCandidate: on the device, then in the account.
MoveKeeps(d) ==
  \E c \in mover[d].plan.candidates \ (mover[d].kept \cap account.candidates) :
    /\ In(d, "keeping")
    /\ \/ /\ account' = [account EXCEPT !.candidates = @ \cup {c}]
          /\ mover' = [mover EXCEPT ![d].kept = @ \cup {c}]
          /\ UNCHANGED mishaps
       \/ /\ Mishap /\ mover' = [mover EXCEPT ![d].kept = @ \cup {c}, ![d].phase = "blocked"]
          /\ \/ account' = [account EXCEPT !.candidates = @ \cup {c}]
             \/ UNCHANGED account
    /\ UNCHANGED <<legacy, held, userEdits>>

\* The account is read again, and what is found there is what the record will say.
MoveVerifies(d) ==
  /\ In(d, "keeping") /\ mover[d].plan.candidates \subseteq mover[d].kept \cap account.candidates
  /\ MovesOn(d, IF Verified(d, [mover[d].plan EXCEPT !.exact = TRUE], EvidenceOf(d, mover[d].plan), account)
             THEN "recording" ELSE "blocked")
  /\ UNCHANGED <<legacy, account, held, userEdits, mishaps>>

AfterRecord(d) == IF mover[d].plan.exact THEN "initializing" ELSE "completing"

MoveRecords(d) ==
  LET record == EvidenceOf(d, mover[d].plan)
      Create == account' = [account EXCEPT !.records[d] = IF @ = {} THEN {record} ELSE @] IN
    /\ In(d, "recording")
    /\ \/ Create /\ MovesOn(d, AfterRecord(d)) /\ UNCHANGED mishaps
       \/ Create /\ GoesWrong(d)
       \/ UNCHANGED account /\ GoesWrong(d)
    /\ UNCHANGED <<legacy, held, userEdits>>

MoveInitializes(d) ==
  LET Update == account' = [account EXCEPT !.initialized = TRUE] IN
    /\ In(d, "initializing")
    /\ \/ Update /\ MovesOn(d, "completing") /\ UNCHANGED mishaps
       \/ Update /\ GoesWrong(d)
       \/ UNCHANGED account /\ GoesWrong(d)
    /\ UNCHANGED <<legacy, held, userEdits>>

MoveCompletes(d) ==
  /\ In(d, "completing")
  /\ mover' = [mover EXCEPT ![d].complete = TRUE, ![d].phase = "ready"]
  /\ UNCHANGED <<legacy, account, held, userEdits, mishaps>>

\* A mutant: an operation that had no answer is not sent again.
StaysTried(d) == mover' = [mover EXCEPT ![d].phase = "off", ![d].plan = NoPlan]

\* A new runtime of the device: after a reload at any time, or another try.
Forgotten(d) ==
  mover' = [mover EXCEPT ![d].phase = "off", ![d].plan = NoPlan,
                         ![d].queue = [k \in DOMAIN @ |-> [@[k] EXCEPT !.tried = FALSE]]]

MoveIsReloaded(d) ==
  /\ Working(d) \/ In(d, "ready")
  /\ Mishap /\ Forgotten(d)
  /\ UNCHANGED <<legacy, account, held, userEdits>>

MoveIsRetried(d) ==
  /\ In(d, "blocked") /\ Forgotten(d)
  /\ UNCHANGED <<legacy, account, held, userEdits, mishaps>>

\* acceptConflict: the user lets the account's row stand.
ConflictIsAccepted(d) ==
  \E o \in mover[d].conflicts :
    /\ ~In(d, "off") /\ mover' = [mover EXCEPT ![d].conflicts = @ \ {o}]
    /\ UNCHANGED <<legacy, account, held, userEdits, mishaps>>

\* The user edits on a device that is done; AccountSync has how the edit gets to the account.
OtherRow == [priority |-> "L", sortOrder |-> NoRow]
OtherOrder == [priority |-> NoRow, sortOrder |-> "second"]

UserEdits(d) ==
  \E i \in Items, kind \in {"add", "patch", "delete"}, patch \in {OtherRow, OtherOrder} :
    LET e == account.entities[i]
        values == CASE kind = "add"    -> [priority |-> "L", sortOrder |-> "second"]
                    [] kind = "patch"  -> patch
                    [] kind = "delete" -> Unset
        op == Ent!NewOperation(UserId(kind, e, values), kind, e, values, 0) IN
      /\ In(d, "ready") /\ userEdits < MaxUserEdits
      /\ Ent!Commits(e, op) /\ Commit(i, Ent!Merged(e, op))
      /\ userEdits' = userEdits + 1
      /\ UNCHANGED <<legacy, mover, mishaps>>

MoveStep(d) ==
  \/ MoveStarts(d) \/ MoveReads(d) \/ MoveSeeds(d) \/ MoveReplays(d) \/ MoveSends(d)
  \/ MoveChecks(d) \/ MoveKeeps(d) \/ MoveVerifies(d) \/ MoveRecords(d) \/ MoveInitializes(d)
  \/ MoveCompletes(d) \/ MoveIsRetried(d)

MoveNext ==
  \E d \in Movers :
    MoveStep(d) \/ SendIsLost(d) \/ MoveIsReloaded(d) \/ ConflictIsAccepted(d) \/ UserEdits(d)

\* A device's work goes on, and is tried again when it is blocked.
MoveFairness == \A d \in Movers : WF_moveVars(MoveStep(d))

MoveSpec == MoveInit /\ [][MoveNext]_moveVars
FairMoveSpec == MoveSpec /\ MoveFairness

----------------------------------------------------------------------------
MoveTypeOK ==
  /\ account.entities \in [Items -> Ent!Entity] /\ account.initialized \in BOOLEAN
  /\ \A d \in Movers :
       /\ mover[d].phase \in {"off", "draining", "seeding", "keeping", "recording", "initializing",
                              "completing", "ready", "blocked"}
       /\ \A o \in ToSet(mover[d].queue) \cup mover[d].conflicts : Ent!WellFormed(o.op)
       /\ In(d, "off") => \A o \in ToSet(mover[d].queue) : ~o.tried
  /\ userEdits \in 0..MaxUserEdits /\ mishaps \in 0..MaxMishaps

\* A device that is done has lost no row it offered: the account has had the row, or keeps
\* it as a candidate, as the device does.  Of a list row whose order was never known, the
\* account has had the rest.  (buildMigrationPlan, putCandidate, ensureMigration.)
Offered(d) ==
  Entries(Remote(d), legacy.remote) \cup Entries(Local(d) \cup HeldBy(d), legacy.of[d].local) \cup
  Entries(QueuedRows(d), legacy.of[d].queued)

OrderIsAllItLacks(d, n) ==
  /\ n \in Entries(Remote(d) \cap ListItems, legacy.remote) /\ n.row.sortOrder = "unknown"
  /\ \E m \in held : m.item = n.item /\ m.row.priority = n.row.priority

RowsAreKept ==
  \A d \in Movers : mover[d].complete =>
    \A n \in Offered(d) \ held :
      \/ \E c \in account.candidates \cap mover[d].kept : Entry(c.item, c.row) = n
      \/ OrderIsAllItLacks(d, n)

\* While no user has edited, a migration's operation is refused only where the account says
\* something else: the same operation of two devices is one operation.  (prepareMutation's ids.)
Said(e, op) == IF op.kind = "delete" THEN Ent!Exists(e) /\ e.deleted ELSE Is(e, op.values)

ConflictsAreReal ==
  [][userEdits = 0 =>
       \A d \in Movers : \A o \in mover'[d].conflicts \ mover[d].conflicts :
         ~Said(account.entities[o.item], o.op)]_moveVars

\* What a migration has sent leaves its queue only when the account has had the whole row, or has
\* deleted it, or as a conflict that stays for the user: an operation that lost a field to another
\* device is not taken, although the rest of it was applied, and an answer may have been lost
\* before.  (mergeOperation and dispatch: js/domain/accountSyncMerge.js:174, accountSyncController.js:455.)
SentRowsArrive ==
  [][\A d \in Movers : \A o \in ToSet(mover[d].queue) :
       ~(\E n \in ToSet(mover'[d].queue) : n.op = o.op) =>
         \/ o.op.kind = "delete" /\ account'.entities[o.item].deleted
         \/ o.op.kind # "delete" /\ Entry(o.item, o.op.values) \in held'
         \/ o \in mover'[d].conflicts]_moveVars

\* A device that says it is done has its record in an account that says it is initialized;
\* and some device's record is there before the account says so.  (ensureMigration.)
CompletionHasEvidence ==
  /\ \A d \in Movers : mover[d].complete => account.initialized /\ account.records[d] # {}
  /\ account.initialized => \E d \in Movers : account.records[d] # {}

\* A migration changes a value the account has, or deletes a row, only where that is what the
\* legacy account had, which the device's queue was filled on; or where the row has changed
\* since the migration read it.  (buildMigrationPlan's replays; the exception is a replay that
\* is prepared on a newer row than the plan.)
Loses(e, next) == {p \in Paths : next.values[p] # e.values[p] \/ next.deleted}

NewerRowsStand ==
  [][\A i \in Items :
       LET e == account.entities[i] IN
         Alive(e) /\ userEdits' = userEdits =>
           \/ \A p \in Loses(e, account'.entities[i]) :
                legacy.remote[i] # NoRow /\ e.values[p] = legacy.remote[i][p]
           \/ \E d \in Movers : \E o \in ToSet(mover[d].queue) :
                o.item = i /\ o.planned # e.revision]_moveVars

\* A migration loses nothing: what a device offered is in the account or kept beside it, and
\* what the account says of its own initialization has a record behind it.
NothingIsLost == MoveTypeOK /\ RowsAreKept /\ CompletionHasEvidence

\* From some time on every device is done for good, unless a conflict waits for its user, also
\* one of an operation that was taken in part; or it was interrupted after its record was created
\* and would make another plan by now.  (start, ensureMigration.)
Refused(d) ==
  /\ ~mover[d].complete /\ account.records[d] # {}
  /\ \A record \in account.records[d] : ~Verified(d, PlanFor(d, account), record, account)

MovesEnd ==
  \A d \in Movers : <>[](In(d, "ready") \/ mover[d].conflicts # {} \/ Refused(d))

\* A device that reads the account again and finds its own record is never refused.
\* (docs/CROSS-DEVICE-SYNC.md, Migration, of a restart; start and ensureMigration.)
RestartsResume ==
  [][\A d \in Movers :
       In(d, "draining") /\ account.records[d] # {} => ~In(d, "blocked")']_moveVars
=============================================================================
