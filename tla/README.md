# A formal model of Trade App's data protocols

TLA+ modules for the parts of this repository that keep a user's data right when
several devices, calls and failures interleave; the TLC runs that check them on
small instances; and the theorems that TLAPS proves of them for every instance.
`PROJECT.json` maps each definition to the lines it models, and lists the
hazards of the code with the properties that watch them.

    tlc -config SyncScenes.cfg MCAccountSync.tla        # one run
    tlapm CanonicalEntityProofs.tla                     # one module of proofs

## 1. The system

Trade App is a browser application (js/) over Firebase, with a few Cloud
Functions (functions/).  Most of its source is pages, catalogue data,
translations and release tools.  The logic below is where order and failure
matter.

| Part | State it keeps | Operations | Works with | Hard | Correct when | Model |
|---|---|---|---|---|---|---|
| Sync merge (`accountSyncMerge.js`) | none: functions of a record and an operation | merge, validate a transition | repository, controller | redelivery, re-add after delete | one winner per version; applied once; every commit valid | `AccountEntity`, `CanonicalEntity` |
| Sync journal (`accountSyncJournal.js`) | IndexedDB: operations, conflicts, entities, meta | enqueue, next, attempt, acknowledge, conflict, resolve | controller | two tabs, stopped runtimes | nothing settled is reopened; nothing lost | `SyncJournal` |
| Sync repository (`accountSyncRepository.js`) | none; the account's records in the Realtime Database | listen, apply in a transaction, read back | controller, database | lost answers, late events | one transaction is one merge | `AccountSync` |
| Sync controller (`accountSyncController.js`) | accepted and shown entities, listener authority, canonical queue, drain | hear, accept, edit, dispatch, retry, resolve conflicts | all of the above | awaits everywhere; events between commit and answer | no false alarm, no unseen overwrite, convergence | `AccountSync` |
| Publication (controller, `application.js`) | public share, durable marker, passes, timer | mark, publish, verify, unmark, repair | runtime, journal | writes that land after their deadline, reloads | the share is right, or the marker says it is not | `Publication` |
| Sync migration (`accountSyncMigration.js`, `accountSyncRuntime.js`) | create-only records, recovery candidates, `meta` | plan, seed, replay, keep, verify, record, initialize | controller, journal | a crash between steps, two devices at once | nothing lost, nothing newer overwritten, it ends | `Migration` |
| Owned list queue (`application.js`, `sessionCacheBoundary.js`) | stored list, queue of edits, session | edit, queue, flush, restore | database | overlapping flushes, sessions that change | edits survive, are shown and sent by their owner | `ListQueue` |
| Favourite additions (`favoriteAdditionRepository.js`) | records and slots in the database | add, remove, retry | rules | two devices at the limit, late updates | limit kept, one slot per Favorite, no resurrection | `FavoriteSlots` |
| Favourite resolver (`functions/favorite-resolver`) | one quota object per caller: window, counters, leases | acquire, release, answer by a deadline | clients, GCS | lost races, throttled writes, work after the deadline | limits kept, leases freed | `FavoriteQuota` |
| Trusted operations (`functions/src/domain`, `firebaseTrustedAdapter.js`) | request records, handles, tags, favourites, history, grants | begin, execute, complete, fail | clients, database | a crash after the commit, retries under one id | one effect per request; two indexes agree | `TrustedRequests` |
| Legacy PIN reset (`functions/legacy-pin-reset`) | one ledger object, replaced by generation | reserve, update, verify, finish, status | GCS, Identity Toolkit | an update that lands late, lost answers, killed instances | one update per request; answers true | `PinReset` |
| E1 authority (`functions/e1-authority-service`) | Firestore documents of the identity foundations | create, reserve, repair, migrate, freeze, read, find, share | gateway, operator | replays, lost commits, a freeze in between | name, account and subject are one fact | `E1Authority` |
| Group E ledger and admission (`functions/production`, `functions/e1-gateway`) | a directory of snapshots with HEAD and LOCK; create-only control records | each command of the operators, admission of a call | authority, operators | deaths between two files, stale digests | one capability and one admission per slot | `GroupELedger` |
| Preference queue (`trainerPreferenceSyncQueue.js`) | localStorage queue | enqueue, next, attempt, acknowledge | nothing: the feature is off | - | - | not modelled |
| Listener lifecycle, session caches | maps by key | subscribe, replace, clear | every page | changed synchronously | - | not modelled |
| Account linking, onboarding, transfer and reconciliation | a dialogue's state; classifications | pure decisions | user | - | - | not modelled |
| Lists, search, schedules, comparison, pages, translations, service worker | none, or display only | pure functions, rendering | - | - | - | not modelled |
| Database rules, deployment and release tools | - | declarative; run by hand | - | - | - | not modelled |

How they interact: a page edits through the **controller**, which prepares an
operation on the record it shows, stores it in the **journal** and dispatches it
by a **repository** transaction whose body is the **merge**.  The listener of the
account delivers versions to every controller, which validates each against the
one before; one that does not follow closes the session's *authority* to write.
Accepted rows are **published** to the share of an account's owner, and the
**migration** brings what a device knew before sync into the account through
the same journal and merge.  A page whose account is not canonical uses the
**owned list queue** instead.  The functions share no state with
sync, nor with each other: calls meet in a ledger or quota object
(conditional replacement), in database transactions, or in files.

## 2. The modules

`AccountEntity` is used by `CanonicalEntity`, `SyncJournal` (and so
`AccountSync`) and `Migration`.  `AccountSync` implements `CanonicalEntity`, and
`PinReset` implements `ResetRequests`.
The other components share nothing and stand alone.

Some properties are conjunctions of named parts, so that one run and one theorem
speak of all that a component promises of a state: `ChargesAreExact`,
`IndexesAgree`, `RecordsAdvance`, `FoundationsHold`, `RunIsExclusive`,
`ChainHolds`, `EditsArePreserved`, `SeatsHold`, `LandingsAreSound`,
`DebtsAreKnown`, `NothingIsLost`, `LedgerIsAccepted`, `AnswersHold`.

### AccountEntity - records and the merge
`accountSyncMerge.js` as operators: `Operation`, `Merged`, `MergeStatus`,
`ValidTransition`, `MonotonicVerdict`, and `NewOperation` of the controller.  An entity has a
generation (its life), a revision, and for each field a value, a revision and the
operation that wrote it last.  A batch touches entities one by one, so one
entity is enough.  Left out: owners, hashes and times, which no rule used here
tells apart, and the tie of two records created in one millisecond.

### CanonicalEntity - what the database promises
Operations are issued (`Issue`), and each is delivered any number of times in any
order (`Deliver`, one transaction).  `done` is history: which operation took
effect on which field.  It is the abstract specification that `AccountSync`
implements.

### SyncJournal - the retained operations of one device
`Enqueued`, `NextOperation`, `Attempted`, `RetainedBlocked`, `Acknowledged`,
`Conflicted`, `Resolved`, `Overlay`.  Times become "due or not"; error codes become
the causes that the retry rules distinguish.

### AccountSync - devices, sessions and the database
| Variable | In the code |
|---|---|
| `scene` | which sessions, patches, number of edits and faults this behaviour has |
| `log`, `done` | the record in the database; older versions, and the effects, are history |
| `journal` | the IndexedDB operations of each device |
| `listener` | `off`, `listening` (started, nothing accepted), `healthy`, `failed`, `retired` (stopped) |
| `seen` | the version the SDK delivered last; a `get` under an active listener returns it |
| `accepted`, `shown` | `acceptedEntities` and the optimistic `entities` |
| `queue` | the promise chain of canonical work: versions, and the result of the dispatch |
| `task` | one dispatch: `sent`, `merged`, answered, accepted, read, written |
| `edit` | a mutation between its preparation and its enqueueing |

Each `await` of `controller`, `repository` and `journal` that another step can
use is a step boundary.  A listener event ends the session's authority at once,
whereas the work it brings waits in the queue.  `MergeAtDatabase` is the
transaction body on the stored record; the SDK's first try on a cached one can
only end the operation (`AbortLocally`).  Being offline is a call
that fails or is late.  An unrelated event (`HearOther`) is a listener event
that brings no new version of this entity.

Assumed of the Realtime Database: one connection delivers versions in order,
may skip some, and delivers what a transaction wrote before its answer.

### PinReset - the owner's reset of a PIN
| Variable | In the code |
|---|---|
| `ledger`, `generation` | the GCS object: a record or None for each request id |
| `writes` | the replacements that were sent, with the generation each read, and whether they were saved, refused (412) or are still on their way |
| `pc`, `goal`, `attempt`, `answer` | where a call of `run` stands, which change it makes (`reserve`, or the end it records), the retry counter of `change`, what it returned |
| `update`, `password`, `identity` | the password request of a call, who set a password last, and a counter for the identity's fingerprint |

`Reserve` and `Finish` are the functions given to `change`, with the read they
decide on; `StoreReplaces` is the bucket's conditional write, separate from both
the sending and the answer.  `CallFails` is any rejected await (a write or an
update may still land afterwards), `Dies` a killed instance, `Drift` a change of
the target's account records.  Calls overlap: an old instance can still be at work when
a new one starts, and a request that was given up goes on.  `inspect` is read-only
and left out.  The rules of `identity()` and `authorize()` are one comparison
of fingerprints; a failing authorization is a `CallFails`.

`ResetRequests` says what all this is for: each request has a record that changes by
single steps, and changes the password at most once, between reservation and end.  Its
`records` are the ledger, and its `changes` the updates of all calls.

### FavoriteQuota - a caller of the favourite resolver
`quota` is the object with its generation, `calls` the requests (where each stands, its
lease, the replacement it would make), `clock` is `Date.now`, `charged` is history.
A request acquires, resolves and releases; a replacement may land although it was
answered as throttled or after its request gave it up; at its deadline a request is
answered while its work goes on until the platform ends it.

### TrustedRequests - the callable operations
`requests` are the records by request key, `operations` the calls, `executed` is history;
`accounts`, `shareDirectory`, `tags`, `labels`, `favorites`, `share`, `history` and `grants`
are the database.  A call begins its request, reads, runs one transaction, completes or
fails the record; it may throw or die at every await.  `RequestScenes` says which
requests can meet.

### E1Authority - the identity foundations
The documents are variables under their collections' names, `rateLimits` with the history
`admitted`; `legacyNames` and `rulesFrozen` stand for the legacy application,
`provisioningFreeze`, `inventory` and `certification` for what the operator does.  A call
asks whether its request is known, passes the limit, reads the legacy application, runs one
serializable transaction whose commit may be lost to it, and reads back.

### GroupELedger - a controlled run of two calls
`head`, `sequence`, `files` and `lockOwner` are the ledger directory; `operators` the
processes, each between the locks, the snapshot and HEAD of one command; `capabilities`,
`consumptions`, `reconciliations` and `closeout` the files and create-only records;
`gatewayCalls` and `authorityCalls` what passed the gateway.  A process may die between any
two files, and a person may clear its lock.

### FavoriteSlots - additions at the limit
`favorites` and `favoriteSlots` are the database, `updates` the root updates on their way with
the plan each was made on, `favoriteCalls` the devices.  The database rules decide what a
late update may still do.  `unseated` are Favorites from before there were slots.

### ListQueue - the owner's list outside sync
`stored` is localStorage (owner, list, queue); `listQueue`, `edits` and `flushes` the page: the
queue in memory, calls that wait for their turn, and loops that hold the entries they took;
`wire` the writes on their way.  `promised` and `edited` are history.  Sessions end, pass to
another user, and the page is reloaded at any step.

### Publication - the public share
`version` counts the changes of the account's rows (the content is its parity), `share` is the
public document, `marker` the journal's entry, `page` the controller and its runtime (what it
heard and accepted, its pass, its timer), `publicWrites` the writes on their way, of which one
at most is awaited, `proof` the late acknowledgement that spares the next pass its write.

### Migration - into the account
`legacy` is what the devices know (it does not change), `account` the entities, records,
candidates and initialization in the database, `mover` each device's runtime and journal
(phase, plan, queue, conflicts, kept candidates, completion).  `Plan` is
`buildMigrationPlan` on one read of the account: seeds for what the account lacks, replays
where the queue was filled on the row the account still has, candidates for the rest.  The
actions are the awaits of `ensureMigration` and `start`; `Mishap` is a reload, a lost answer
or a write that is not made.  An operation of which the account took only a part leaves a
conflict (`Taken`), and a device with one gets no further than `MoveChecks`.  Of what a user
can do about it, letting the account's row stand is here; `AccountSync` has both.

## 3. The runs

Only small instances that share no state are put in one run: a behaviour picks its
`part` (or its `scene`) and is a behaviour of that one.

| Run | Instance and bounds | Distinct states | Question |
|---|---|---|---|
| `sync_scenes` | `AccountSync` in four scenes: two devices with 2 edits and 1 fault; a session stopped and replaced, 2 faults; two live tabs on one journal, 2 edits without or 1 with a fault; two devices with 3 edits of 2 fields | 561 477 | `TypeOK`, `NoFalseAlarm`, `AckHasProof`, `ConflictKeepsIntent`, `AuthorSaw`, `SettledStays` |
| `sync_live` | two devices with 2 edits; one device with 2 edits and 1 fault | 34 053 | `Convergence`; `CanonicalSpec`: the composition implements `CanonicalEntity` |
| `pin_calls` | 3 calls, 3 requests, 2 targets, 2 records fit, 1 fault | 2 129 984 | all safety of the PIN reset; `RequestSpec`: it implements `ResetRequests` |
| `services` | quota: 2 of 3 calls, 3 replacements each, clock to 6; trusted: 3 calls in 5 scenes; authority: 3 calls in 8 scenes | 687 219 | all safety of the three services |
| `components` | entity: 3 operations; ledger: 2 processes, 2 gateway calls; list: 2 rows, 2 flushes, 3 events; slots: 3 Favorites, 2 seats, 2 devices, 2 operations | 1 312 463 | all safety of the four components |
| `live` | PIN: 2 calls, 3 attempts, 1 change of identity; share: 2 runtimes, 1 change, 2 writes at once, 1 mishap; move: 2 devices, 9 cases of what they know, 1 edit, 1 mishap | 99 401 | safety of the last two; `ReservationsEnd`, `LateAcksConverge`, `MigrationsEnd` |
| `false_conflict`, `blind_overwrite`, `stale_flush`, `tag_limit`, `share_changes`, `restarts` | one each | - | what is documented and not so (section 6) |

No run checks for deadlock: operations, sessions, calls and events run out, and then the
system rests; that nothing stops before its end is what the liveness properties ask.

The bounds.  Two devices are the least that compete, and each rule of the merge
compares one operation with one record; a third operation gives conflicts over
conflicts and reapplied edits.  Two fields let a patch win in part.  `MaxAttempts`
is 2 in the sync runs (12 in the code): one failed try that is retried and one that
blocks.  A scene's `faults` counts failed calls, listener failures, unrelated events and
stops together.  In `PinReset` three calls make two rivals of one owner; 2
attempts (5 in the code) make a lost race final early, and in `live` 3 attempts are one
more than the other call's two replacements can spoil; a ledger of 2 records (1000
in the code) meets its limit with the third request.  In `FavoriteQuota` the times keep the
code's order, deadline < platform's timeout < lease < window, and the clock passes a
window.  Two operators and two gateway calls race for each slot.  Two seats for three
Favorites meet the limit.  In the page's queue three events suffice for an edit behind a
flush behind an edit; its two rows are interchangeable.  The share's content is one of two,
so that an edit can be taken back.  The migration's cases are one for every way a row can go
through the plan.  The safety properties of these bounded runs are all proved without bounds
(section 5), but for `ConflictsAreReal`.

## 4. Fairness

`AccountSync`: weak fairness of each continuation of an await, of a session's
queue, of the delivery of versions, of dispatching, and of the retry timer.  The
code justifies them: promises settle, the SDK redelivers, the drain is started
again by an accepted version, a commit or the timer (`accountSyncController.js`
276, 312-316, 381, 491).  None is assumed of users, stops or faults.  So
`Convergence` asks nothing of operations that are blocked until their user acts.

`PinReset`: weak fairness of a running call's steps, of its update and of the
writes that were sent.  Calls that fail or die are excluded from `live`, because
the documented outcome then is a target that stays locked (`README.md` of
functions/legacy-pin-reset: "lock their target indefinitely").  The same happens
without any fault when an end loses five races: `ReservationsEnd` needs more
attempts than the other calls have replacements, twice their number.

`Publication`: weak fairness of the running pass, of writes that were sent, and of
hearing and applying events.  `LateAcksConverge` supposes that a runtime stays up
and that late writes land between passes: one that lands during a retry requests
another pass and is the proof of the running one, and the same content can be written for
ever.

`Migration`: weak fairness of each device's steps, of which one is starting again when it
was blocked, by the user or the recovery coordinator.  `MigrationsEnd` asks that from some time on each
device is done for good; it allows a conflict that waits for its user, and a device that was
interrupted after its record was created (the divergence `restarts`).  An operation that was
applied in part is such a conflict: while it is there, `ensureMigration` refuses to go on
(`accountSyncRuntime.js` 516), at every start.

`CanonicalEntity`, `FavoriteQuota`, `TrustedRequests`, `E1Authority`, `GroupELedger`,
`ListQueue` and `FavoriteSlots` promise nothing to happen: a call may be the last of an
instance that dies, and people may never act.

## 5. What is proved

TLAPS proves these for all values of the constants, from the named assumptions of the
modules and nothing else: that inputs are typed, that null values are no values, that bounds
are natural numbers, that what is counted is finite, and what is named below.  The history
variables of the modules are part of what is typed.

| Module of proofs | Theorems (property) |
|---|---|
| `AccountEntityProofs` | lemmas about the merge, for the two below |
| `CanonicalEntityProofs` | `FirstAcceptedWins` (`OneWinner`), `RedeliveryIsSafe` (`AppliedOnce`), `EveryCommitIsValid` (`CommitsAreValid`), `EditsAreCounted` (`RevisionsCountEdits`) |
| `AccountSyncProofs` | `TypeCorrectness`, `NoSessionIsAlarmed` (`NoFalseAlarm`), `AcknowledgedIsProven` (`AckHasProof`), `ConflictsAreComplete` (`ConflictKeepsIntent`), `SettledForGood` (`SettledStays`), `EditsOfAcceptedVersions` (`AuthorSaw`), `Implementation` (`CanonicalSpec`) |
| `PinResetProofs` | `OneUpdate` (`MutatesOnce`), `LateUpdatesAreLocked` (`NoLateUpdate`), `LedgerStaysReadable` (`LedgerIsAccepted`), `AnswersStayTrue` (`AnswersHold`), `EndsAreFinal` (`RecordsAreFinal`), `Implementation` (`RequestSpec`) |
| `ServicesProofs` | quota: `WorkIsLimited` (`AtMostConcurrent`), `ObjectIsExact` (`ChargesAreExact`); trusted: `MutatesOnce` (`ExecutedOnce`), `IndexesStay` (`IndexesAgree`), `RecordsStand` (`RecordsAdvance`); authority: `FoundationsAreWhole` (`FoundationsHold`), `AnswersStayTrue` (`AnswersAreTrue`), `ProviderNamesStayNew` (`ProviderNamesAreNew`) |
| `StoreProofs` | slots: `AccountHolds` (`SeatsHold`), `LateUpdates` (`LandingsAreSound`); ledger: `OneRun` (`RunIsExclusive`), `TrueEnds` (`EndsAreTrue`), `ChainIsKept` (`ChainHolds`) |
| `PageProofs` | list: `EditsStay` (`EditsArePreserved`); share: `DebtsStayKnownUnlessForgotten` (`DebtsAreKnown`) |
| `MigrationProofs` | `NothingLost` (`NothingIsLost`), `NewerRowsStay` (`NewerRowsStand`), `SentRowsStay` (`SentRowsArrive`) |

Three of them say less than their names might suggest, because the code does:
- `AuthorSaw` is about an edit prepared on an accepted version.  The second of two chained
  edits is prepared on what the first would make, and may replace what its author never saw:
  `blind_overwrite` (section 6).
- `DebtsAreKnown` is about a page that has not forgotten an event it heard while it removed
  its marker; one that has rests over an old share: `share_changes`.
- `SettledStays` is about a device with one live tab at a time.

The arguments, each from an inductive invariant, because none of the properties is
inductive as it stands:

- *Record* (requests are well formed, the origin is a record, `Lifecycle` is no field).  A
  past effect does not say what the record will accept next.  `Overtaken` says that every
  effect left the record beyond the version its operation was prepared on, and the record
  never goes back: generations grow, and field revisions grow within one.  The revision of a
  field is the number of effects on it in its life, a cardinality.
- *Account sync*, in eight layers, each preserved where the ones before it hold: types;
  the versions form a chain, in which a revision names a version; what waits in a session's
  queue is in their order; a task and each settled record have a witness among the versions;
  an id is in one journal; one tab settles alone; what is shown is a record.  The pending edits
  laid over a record (`Overlay`) are a recursive function, and what they make is typed along
  the queue by the least place where it would not be.  Each step maps to an `Issue`, a
  `Deliver` or a stutter of `CanonicalEntity`; the refinement assumes that `Requests` has
  every operation a user can come to issue.
- *PIN reset*.  A replacement whose generation is still current is what its call
  decided of the current ledger (`WritesFit`).  So one reservation per request is
  ever saved, and its call is the request's owner (`OneOwner`); updates and ends
  come from owners only, and `DriftSeen` ties the confirmed identity to the inspected one.
  For the refinement, the record of an owner that has decided on no end is pending
  (`Early`), so an update is sent only while it is.
- *Quota*.  In the same way a replacement is of the current object (`Fresh`).  A lease
  outlives the platform's timeout, so whoever still works holds one that no other call
  dropped.
- *Trusted operations* (users and calls are finite; no two users are given one name to begin
  with).  Whoever made the record of a request is the only call under it for good (`Alone`),
  because a record is never removed; so its awaits are as if they were one step.  Each index is
  written in the transaction that writes what it stands for.
- *Authority*.  Foundations are write-once: what a call has read of one holds for good
  (`FoundationsStay`), so an answer that was true when it was decided stays so.  While a
  freeze stands no legacy name is new, so an inventory of that freeze still has them all when
  a provider account is created (`FrozenNames`).  The documents from
  before are of users of the legacy application, and a certified scene is one the operator
  could have brought about.
- *Slots*.  A Favorite without a seat is one that no operation has touched, so an addition
  on its way was planned on a read that shows it; an operation that has ended finds its
  own generation used up.
- *Ledger*.  Only the holder of the lock moves HEAD, and only from the ledger its input was
  written for (`CommandsFit`); a ledger never forgets, so what the control records and the
  gateway were given under one ledger agrees with every later one (`StoresFit`).
- *List queue*.  Each accepted edit has the number of its turn; the stored queue has the
  entry of the last, and a flush removes an entry only if it is still the one it sent.
- *Share*.  The marker is set while a pass works or a write is on its way; authority means
  the accepted rows were read; a pass awaits one write, and removes the marker only over a
  share that is right.
- *Migration* (what the devices know is typed).  Rows the account has had are held; a plan
  accounts for all its device offers (`Covers`); so a device that gets as far as its record
  has kept everything (`AllKept`), and the account only grows.  A replay carries the revision
  that was read, and revisions only grow; while the row is still of that revision, it is the
  legacy account's own (`ReplayFits`).  An operation is named after what it does, so a name
  the account has taken is of the same row (`LifeSigned`, `FieldsSigned`): when a redelivery is
  answered as already taken, the row has been there.

What stays with TLC:
- `Convergence`, `ReservationsEnd`, `LateAcksConverge`, `MigrationsEnd`: liveness
  under fairness is out of the prover's reach.
- `ConflictsAreReal` (a migration's operation is refused only where the account says something
  else) is checked for two devices, and does not hold for three: when one device replays its
  queued value over the value another device seeded, the same value that a third planned to add before is
  refused although the account has it.  The conflict is spurious and loses nothing.

## 6. Where the documentation and the code differ

Each is a run with a counterexample.
- *false_conflict*: a version from another device between the read-back of a
  committed edit and its acknowledgement makes the session send the edit again;
  the redelivery is then a conflict, though docs/CROSS-DEVICE-SYNC.md:53 promises
  idempotence.
- *blind_overwrite*: the second of two chained offline edits carries the revision its
  own predecessor would have produced; if another device's edit takes that
  revision, it is replaced without a conflict (docs/CROSS-DEVICE-SYNC.md:50: first
  accepted wins).
- *stale_flush*: a flush that waits for its first entry sends the list as it took it after a
  later flush has sent a newer edit of the row (tests/my-list-sync-safety.test.cjs:306).
- *tag_limit*: renaming a deleted tag makes it active without a comparison with the limit
  (docs/TRAINER-PREFERENCE-SYNC-READINESS.md:239).
- *share_changes*: a change that is heard while a pass removes its marker is forgotten by it.
- *restarts*: a device interrupted after its migration record was created makes another
  plan when it starts again, and is refused (docs/CROSS-DEVICE-SYNC.md:66).

Smaller ones that the properties state around:
- a replay that waits for its turn is prepared on the row shown by then, and overwrites what
  another device wrote in between (the exception in `NewerRowsStand`;
  docs/CROSS-DEVICE-SYNC.md:64);
- after "keep the account's value" the session still shows its own until the next version
  (docs/CROSS-DEVICE-SYNC.md:58);
- a late acknowledgement during each retry keeps a page publishing (section 4);
- an order that a device does not know (100000) is not kept when the priority is one the
  account has had (the exception in `RowsAreKept`, which buildMigrationPlan intends).

## 7. Next

In this order:
1. Abstract promises of the components whose detail is proved by invariants, with a
   refinement of each: a register that applies each request at most once
   (`TrustedRequests`), a counter that charges atomically (`FavoriteQuota`), a log of one
   writer (`GroupELedger`).
2. Watched mutations, the recovery review and reconnection of the sync runtime, with
   `AccountSync`.
3. A migration of three and more devices with `ConflictsAreReal` weakened to what is true.

## 8. Not modelled, and why

Pure functions over catalogue data (lists, search, comparison, schedules) have
unit tests and no interleaving.  Pages, translations and the service worker only
display.  The preference queue belongs to a feature that is off in every build.  Account
linking is a dialogue of one user.  Rules, deployment and release tools are
declarative or run by hand; where a model relies on a rule it names it.  Of the
modelled parts: the provider's own publication and profile, the acceptance of recovery
candidates, rows without an identity, and the gateway's stateless operations.  Hashes,
signatures, path syntax and size limits are data to every model here.
