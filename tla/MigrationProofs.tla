-------------------------- MODULE MigrationProofs --------------------------
(***************************************************************************)
(* What the migration promises, for every set of devices and entities and  *)
(* all that the devices may know.                                          *)
(*                                                                         *)
(* Nothing is lost: a row the account has had is held; a plan accounts for *)
(* every row its device offers (Covers), as one the account has, as a      *)
(* candidate, or as an order it already had; so a device that gets as far  *)
(* as its record has kept them all (AllKept), and stays so because the     *)
(* account only grows.                                                     *)
(*                                                                         *)
(* Newer rows stand: a replay carries the revision its plan read, and      *)
(* revisions only grow; while the row is still of that revision it is the  *)
(* row the plan compared, and that was the legacy account's (ReplayFits).  *)
(***************************************************************************)
EXTENDS Migration, TLAPS, WellFoundedInduction, SequenceTheorems

----------------------------------------------------------------------------
(* What the merge does to an entity of the account. *)

\* Operations of the code's, named after what they do.
Ops ==
  {o \in Ent!Operation : Ent!WellFormed(o) /\ o.id.kind = o.kind /\ o.id.values = o.values}

\* A record that exists is in its first life at least.
Living(e) == Ent!Exists(e) => e.generation > 0

LEMMA OpsAre ==
  ASSUME NEW o \in Ops
  PROVE  /\ Ent!WellFormed(o) /\ o \in Ent!Operation
         /\ \/ o.kind = "add" \/ o.kind = "delete" \/ o.kind = "patch"
  BY DEF Ops, Ent!Operation, Ent!Kinds

\* A merge that writes creates, deletes or patches, and counts the revision.
LEMMA MergeCases ==
  ASSUME NEW e, NEW o \in Ops
  PROVE  \/ Ent!Merged(e, o) = e
         \/ /\ o.kind = "add" /\ Ent!CanAdd(e, o)
            /\ Ent!Merged(e, o) = Ent!CreateRecord(e, o)
         \/ /\ o.kind = "delete" /\ Ent!Exists(e) /\ Ent!CanDelete(e, o)
            /\ Ent!Merged(e, o) = Ent!Tombstone(e, o)
         \/ /\ o.kind = "patch" /\ Ent!Exists(e)
            /\ Ent!Merged(e, o) = Ent!PatchedRecord(e, o)
<1>1. CASE ~Ent!Commits(e, o)
  BY <1>1 DEF Ent!Merged
<1>2. CASE Ent!Commits(e, o) /\ o.kind = "add"
  BY <1>2 DEF Ent!Merged, Ent!Commits, Ent!MergeStatus
<1>3. CASE Ent!Commits(e, o) /\ o.kind = "delete"
  BY <1>3 DEF Ent!Merged, Ent!Commits, Ent!MergeStatus
<1>4. CASE Ent!Commits(e, o) /\ o.kind = "patch"
  BY <1>4 DEF Ent!Merged, Ent!Commits, Ent!MergeStatus
<1>5. QED
  BY <1>1, <1>2, <1>3, <1>4, OpsAre

LEMMA MergeType ==
  ASSUME NEW e \in Ent!Entity, NEW o \in Ops, Living(e)
  PROVE  /\ Ent!Merged(e, o) \in Ent!Entity
         /\ Living(Ent!Merged(e, o))
         /\ Ent!Merged(e, o) = e \/ Ent!Merged(e, o).revision = e.revision + 1
<1>1. o \in Ent!Operation /\ Ent!WellFormed(o)
  BY OpsAre
<1>2. CASE o.kind = "add" /\ Ent!CanAdd(e, o)
  <2>1. Ent!CreateRecord(e, o) \in Ent!Entity
    BY <1>1 DEF Ent!CreateRecord, Ent!Entity, Ent!Operation
  <2>2. Ent!CreateRecord(e, o).generation > 0
    BY <1>1, <1>2 DEF Ent!CreateRecord, Ent!CanAdd, Ent!Entity
  <2>3. Ent!CreateRecord(e, o).revision = e.revision + 1
    BY DEF Ent!CreateRecord
  <2>4. QED
    BY <1>2, <2>1, <2>2, <2>3, MergeCases DEF Living
<1>3. CASE o.kind = "delete" /\ Ent!Exists(e) /\ Ent!CanDelete(e, o)
  <2>1. Ent!Tombstone(e, o) \in Ent!Entity
    BY <1>1 DEF Ent!Tombstone, Ent!Entity, Ent!Operation
  <2>2. Ent!Tombstone(e, o).generation > 0
    BY <1>1, <1>3 DEF Ent!Tombstone, Ent!CanDelete, Ent!Entity
  <2>3. Ent!Tombstone(e, o).revision = e.revision + 1
    BY DEF Ent!Tombstone
  <2>4. QED
    BY <1>3, <2>1, <2>2, <2>3, MergeCases DEF Living
<1>4. CASE o.kind = "patch" /\ Ent!Exists(e)
  <2>1. Ent!PatchedRecord(e, o) \in Ent!Entity
    BY <1>1 DEF Ent!PatchedRecord, Ent!Entity, Ent!Operation
  <2>2. Ent!PatchedRecord(e, o).generation > 0
    BY <1>4 DEF Ent!PatchedRecord, Living
  <2>3. Ent!PatchedRecord(e, o).revision = e.revision + 1
    BY DEF Ent!PatchedRecord
  <2>4. QED
    BY <1>4, <2>1, <2>2, <2>3, MergeCases DEF Living
<1>5. QED
  BY <1>2, <1>3, <1>4, MergeCases

\* An add takes nothing from a row that is there.
LEMMA AddTakesNothing ==
  ASSUME NEW e, NEW o \in Ops, Alive(e), o.kind = "add"
  PROVE  Ent!Merged(e, o) = e
  BY MergeCases DEF Alive, Ent!CanAdd

\* What a patch is accepted on exists.
LEMMA PatchNeedsRecord ==
  ASSUME NEW e, NEW o, o.kind = "patch", Ent!Accepts(e, o)
  PROVE  Ent!Exists(e)
  BY DEF Ent!Accepts, Ent!Commits, Ent!MergeStatus

Rows   == [Paths -> Levels \cup Orders \cup {NoRow}]
Ids    == [ by : Makers, kind : {"add", "patch", "delete"}, generation : Nat,
            revisions : [Paths -> Nat], values : Rows, nth : Nat ]

\* An operation of the code's is well formed.
LEMMA NewOps ==
  ASSUME NEW e \in Ent!Entity, NEW kind \in {"add", "patch", "delete"}, NEW patch \in Rows,
         NEW id \in MoveId, kind = "delete" <=> patch = Unset, kind = "patch" => e.generation > 0,
         id.kind = kind, id.values = patch
  PROVE  Ent!NewOperation(id, kind, e, patch, 0) \in Ops
<1>1. PICK o : o = Ent!NewOperation(id, kind, e, patch, 0)
  OBVIOUS
<1>2. /\ o.id = id /\ o.kind = kind /\ o.baseGeneration = e.generation
      /\ o.generation = (IF kind = "patch" THEN e.generation ELSE e.generation + 1)
      /\ o.fields = {f \in Paths : patch[f] # NoRow}
      /\ o.values = patch /\ o.expected = 0
  BY <1>1 DEF Ent!NewOperation, Ent!OperationBase
<1>3. o \in Ent!Operation
  BY <1>1 DEF Ent!NewOperation, Ent!OperationBase, Ent!Operation, Ent!Entity, Ent!Kinds, Rows
<1>4. (kind = "delete") <=> o.fields = {}
  BY <1>2 DEF Rows, Unset
<1>5. QED
  BY <1>1, <1>2, <1>3, <1>4 DEF Ops, Ent!WellFormed, Ent!Entity

----------------------------------------------------------------------------
(* Types of what devices know, plan, send and keep. *)

Phases == {"off", "draining", "seeding", "keeping", "recording", "initializing", "completing",
           "ready", "blocked"}

Reasons == {"legacy-after-canonical", "remote-divergence", "stale-device", "divergence",
            "queued-edit-requires-review", "queued-edit-requires-replay",
            "queued-delete-requires-review", "queued-delete-missing-base",
            "queued-board-delete-requires-review"}

ItemRows   == [item : Items, row : Row]
ItemEdits  == [item : Items, row : Row \cup {NoRow}]
Candidates == [reason : Reasons, item : Items, row : Rows \cup {NoRow}, fingerprint : Knowledge]
Tombstones == [item : Items, generation : Nat, revision : Nat, values : Rows, prior : MoveId \cup {NoRow}]

Plans ==
  [ seeds : SUBSET ItemRows, replays : SUBSET ItemEdits, verified : SUBSET ItemRows,
    tombstones : SUBSET Tombstones, candidates : SUBSET Candidates,
    revisions : [Items -> Nat], exact : BOOLEAN ]

Records ==
  {[ fingerprint |-> k, seedCount |-> SeedCount(p), candidateCount |-> Cardinality(p.candidates) ] :
     k \in Knowledge, p \in Plans}

\* A migration sends whole rows, and deletes.
WholeOps == {o \in Ops : o.kind # "delete" => o.values \in Row}

Sent == [item : Items, tried : BOOLEAN, planned : Nat, op : WholeOps]

Device ==
  [ phase : Phases, plan : Plans, queue : Seq(Sent), conflicts : SUBSET Sent,
    kept : SUBSET Candidates, complete : BOOLEAN ]

Accounts ==
  [ entities : [Items -> Ent!Entity], initialized : BOOLEAN,
    records : [Movers -> SUBSET Records], candidates : SUBSET Candidates ]

MoveTyped ==
  /\ legacy \in Legacies /\ account \in Accounts /\ mover \in [Movers -> Device]
  /\ userEdits \in 0..MaxUserEdits /\ mishaps \in 0..MaxMishaps

LEMMA RowsAre == Row \subseteq Rows /\ \A row \in Row : row # Unset
<1>1. Row \subseteq Rows
  BY DEF Row, Rows, Paths
<1>2. \A row \in Row : row # Unset
  BY LegacyAssumption DEF Row, Unset, Paths
<1>3. QED
  BY <1>1, <1>2

LEMMA LegacyType ==
  ASSUME MoveTyped
  PROVE  /\ \A i \in Items : legacy.remote[i] \in Row \cup {NoRow}
         /\ \A d \in Movers : /\ legacy.of[d] \in Knowledge
                              /\ \A i \in Items : legacy.of[d].local[i] \in Row \cup {NoRow}
                              /\ \A i \in Items : legacy.of[d].queued[i] \in Row \cup {NoRow, Removed}
<1>1. legacy \in [remote : [Items -> Row \cup {NoRow}], of : [Movers -> Knowledge]]
  BY LegacyAssumption DEF MoveTyped
<1>2. ASSUME NEW d \in Movers PROVE legacy.of[d] \in Knowledge
  BY <1>1
<1>3. QED
  BY <1>1, <1>2 DEF Knowledge

\* The rows a device offers are rows of items.
LEMMA OfferedRows ==
  ASSUME MoveTyped, NEW d \in Movers
  PROVE  /\ Entries(Remote(d), legacy.remote) \subseteq ItemRows
         /\ Entries(Local(d) \cup HeldBy(d), legacy.of[d].local) \subseteq ItemRows
         /\ Entries(QueuedRows(d), legacy.of[d].queued) \subseteq ItemRows
<1>1. ASSUME NEW S, NEW rows, \A i \in S : i \in Items /\ rows[i] \in Row
      PROVE  Entries(S, rows) \subseteq ItemRows
  BY <1>1 DEF Entries, Entry, ItemRows
<1>2. \A i \in Remote(d) : i \in Items /\ legacy.remote[i] \in Row
  BY LegacyType DEF Remote, Silent, Items
<1>3. \A i \in Local(d) \cup HeldBy(d) : i \in Items /\ legacy.of[d].local[i] \in Row
  BY LegacyType DEF Local, Silent, HeldBy, Items
<1>4. \A i \in QueuedRows(d) : i \in Items /\ legacy.of[d].queued[i] \in Row
  BY LegacyType DEF QueuedRows, Items
<1>5. QED
  BY <1>1, <1>2, <1>3, <1>4

\* A part of what is offered.
LEMMA SeededOffered ==
  ASSUME NEW d, NEW read
  PROVE  Seeded(d, read) \cup Equal(d, read) \cup Replaced(d, read) \subseteq Offered(d)
  BY DEF Seeded, Equal, Replaced, Offered, Entries

LEMMA OfferedType ==
  ASSUME MoveTyped, NEW d \in Movers
  PROVE  Offered(d) \subseteq ItemRows
  BY OfferedRows DEF Offered

LEMMA CandidateType ==
  ASSUME MoveTyped, NEW d \in Movers, NEW reason \in Reasons, NEW i \in Items, NEW row \in Rows \cup {NoRow}
  PROVE  Candidate(d, reason, i, row) \in Candidates
  BY LegacyType DEF Candidate, Candidates

LEMMA CandidatesType ==
  ASSUME MoveTyped, NEW d \in Movers, NEW reduced \in BOOLEAN
  PROVE  /\ RemoteCandidates(d, account, reduced) \subseteq Candidates
         /\ LocalCandidates(d, account) \subseteq Candidates
         /\ QueueCandidates(d, account) \subseteq Candidates
         /\ DeleteCandidates(d, account) \subseteq Candidates
<1>1. \A n \in ItemRows : n.item \in Items /\ n.row \in Rows \cup {NoRow}
  BY RowsAre DEF ItemRows
<1>2. RemoteCandidates(d, account, reduced) \subseteq Candidates
  <2>1. ASSUME NEW n \in ItemRows, NEW r \in Reasons
        PROVE  Candidate(d, r, n.item, n.row) \in Candidates
    BY <1>1, CandidateType
  <2>2. "legacy-after-canonical" \in Reasons /\ "remote-divergence" \in Reasons
    BY DEF Reasons
  <2>3. QED
    BY <2>1, <2>2, OfferedRows DEF RemoteCandidates
<1>3. LocalCandidates(d, account) \subseteq Candidates
  <2>1. ASSUME NEW n \in ItemRows, NEW r \in Reasons
        PROVE  Candidate(d, r, n.item, n.row) \in Candidates
    BY <1>1, CandidateType
  <2>2. "stale-device" \in Reasons /\ "divergence" \in Reasons
    BY DEF Reasons
  <2>3. QED
    BY <2>1, <2>2, OfferedRows DEF LocalCandidates
<1>4. QueueCandidates(d, account) \subseteq Candidates
  <2>1. ASSUME NEW n \in ItemRows, NEW r \in Reasons
        PROVE  Candidate(d, r, n.item, n.row) \in Candidates
    BY <1>1, CandidateType
  <2>2. "queued-edit-requires-review" \in Reasons /\ "queued-edit-requires-replay" \in Reasons
    BY DEF Reasons
  <2>3. QED
    BY <2>1, <2>2, OfferedRows DEF QueueCandidates
<1>5. DeleteCandidates(d, account) \subseteq Candidates
  <2>1. \A i \in Items : account.entities[i].values \in Rows
    BY DEF MoveTyped, Accounts, Ent!Entity, Rows
  <2>2. \A i \in Items : /\ legacy.remote[i] \in Rows \cup {NoRow}
                         /\ legacy.of[d].local[i] \in Rows \cup {NoRow}
    BY LegacyType, RowsAre
  <2>3. Deleted(d) \subseteq Items /\ Dropped(d) \subseteq Items
    BY DEF Deleted, Dropped, Items
  <2>4. /\ "queued-delete-requires-review" \in Reasons /\ "queued-delete-missing-base" \in Reasons
        /\ "queued-board-delete-requires-review" \in Reasons
    BY DEF Reasons
  <2>5. ASSUME NEW i \in Items, NEW r \in Reasons, NEW row \in Rows \cup {NoRow}
        PROVE  Candidate(d, r, i, row) \in Candidates
    BY CandidateType
  <2>6. QED
    BY <2>1, <2>2, <2>3, <2>4, <2>5 DEF DeleteCandidates
<1>6. QED
  BY <1>2, <1>3, <1>4, <1>5

LEMMA PlanType ==
  ASSUME MoveTyped, NEW d \in Movers, NEW reduced \in BOOLEAN
  PROVE  Plan(d, account, reduced) \in Plans
<1>1. /\ Seeded(d, account) \subseteq ItemRows /\ Equal(d, account) \subseteq ItemRows
      /\ Replaced(d, account) \subseteq ItemRows
  BY SeededOffered, OfferedType
<1>2. ItemRows \subseteq ItemEdits
  BY DEF ItemRows, ItemEdits
<1>3. Erased(d, account) \subseteq Items
  BY DEF Erased, Dropped, Items
<1>4. {Entry(i, NoRow) : i \in Erased(d, account)} \subseteq ItemEdits
  BY <1>3 DEF Entry, ItemEdits
<1>5. {TombstoneOf(i, account.entities[i]) : i \in Erased(d, account)} \subseteq Tombstones
  <2>1. ASSUME NEW i \in Items PROVE TombstoneOf(i, account.entities[i]) \in Tombstones
    <3>1. PICK e : e = account.entities[i]
      OBVIOUS
    <3>2. e \in Ent!Entity
      BY <3>1 DEF MoveTyped, Accounts
    <3>3. TombstoneOf(i, e) \in Tombstones
      BY <3>2 DEF TombstoneOf, Tombstones, Ent!Entity, Rows
    <3>4. QED
      BY <3>1, <3>3
  <2>2. QED
    BY <1>3, <2>1
<1>6. [i \in Items |-> account.entities[i].revision] \in [Items -> Nat]
  BY DEF MoveTyped, Accounts, Ent!Entity
<1>7. (~account.initialized) \in BOOLEAN
  OBVIOUS
<1>8. QED
  BY <1>1, <1>2, <1>4, <1>5, <1>6, <1>7, CandidatesType DEF Plan, Plans

LEMMA PlanForIs ==
  ASSUME NEW d, NEW read
  PROVE  PlanFor(d, read) = Plan(d, read, FALSE) \/ PlanFor(d, read) = Plan(d, read, TRUE)
  BY DEF PlanFor

----------------------------------------------------------------------------
(***************************************************************************)
(* What a plan leaves out.  m is a device's state, a the account, h the    *)
(* rows the account has had; O and R stand for what the device offers and  *)
(* for what of it are list rows that the legacy account has.               *)
(***************************************************************************)
Remotes(d) == Entries(Remote(d) \cap ListItems, legacy.remote)

Orderless(n, R, h) ==
  /\ n \in R /\ n.row.sortOrder = "unknown"
  /\ \E x \in h : x.item = n.item /\ x.row.priority = n.row.priority

Covers(plan, O, R, h) ==
  \A n \in O : \/ n \in plan.verified \/ n \in h \/ Orderless(n, R, h)
              \/ \E c \in plan.candidates : Entry(c.item, c.row) = n

AllKept(m, a, O, R, h) ==
  \A n \in O : \/ n \in h \/ Orderless(n, R, h)
              \/ \E c \in a.candidates \cap m.kept : Entry(c.item, c.row) = n

\* What the account has is held.
HeldIs(a, h) == \A i \in Items : Alive(a.entities[i]) => Entry(i, a.entities[i].values) \in h

LEMMA EntriesAre ==
  ASSUME NEW S, NEW rows, NEW n \in Entries(S, rows)
  PROVE  n.item \in S /\ n.row = rows[n.item] /\ n = Entry(n.item, n.row)
  BY DEF Entries, Entry

LEMMA PlanCovers ==
  ASSUME MoveTyped, NEW d \in Movers, NEW reduced \in BOOLEAN, HeldIs(account, held)
  PROVE  Covers(Plan(d, account, reduced), Offered(d), Remotes(d), held)
<1> DEFINE plan == Plan(d, account, reduced)
<1>1. /\ plan.verified = Seeded(d, account) \cup Equal(d, account) \cup Replaced(d, account)
      /\ plan.candidates = RemoteCandidates(d, account, reduced) \cup LocalCandidates(d, account) \cup
                           QueueCandidates(d, account) \cup DeleteCandidates(d, account)
  BY DEF Plan
<1> HIDE DEF plan
<1>2. SUFFICES ASSUME NEW n \in Offered(d), n \notin plan.verified, n \notin held,
                      ~Orderless(n, Remotes(d), held)
               PROVE  \E c \in plan.candidates : Entry(c.item, c.row) = n
  BY DEF Covers, plan
<1>3. \A r : /\ Candidate(d, r, n.item, n.row).item = n.item
             /\ Candidate(d, r, n.item, n.row).row = n.row
  BY DEF Candidate
<1>4. n = Entry(n.item, n.row)
  BY EntriesAre DEF Offered
<1>5. SUFFICES \E r : Candidate(d, r, n.item, n.row) \in plan.candidates
  BY <1>3, <1>4
<1>6. CASE n \in Entries(Remote(d), legacy.remote)
  <2>1. CASE OrderOnly(n.item, account.entities[n.item], n.row)
    <3>1. /\ n.item \in ListItems /\ Alive(account.entities[n.item]) /\ n.row.sortOrder = "unknown"
          /\ account.entities[n.item].values.priority = n.row.priority
      BY <2>1 DEF OrderOnly
    <3>2. n.item \in Items
      BY <3>1 DEF Items
    <3>3. PICK x \in held : x = Entry(n.item, account.entities[n.item].values)
      BY <3>1, <3>2 DEF HeldIs
    <3>4. x.item = n.item /\ x.row.priority = n.row.priority
      BY <3>1, <3>3 DEF Entry
    <3>5. n \in Remotes(d)
      BY <1>6, <3>1, EntriesAre DEF Remotes, Entries, Entry
    <3>6. QED
      BY <1>2, <3>1, <3>4, <3>5 DEF Orderless
  <2>2. CASE ~OrderOnly(n.item, account.entities[n.item], n.row)
    <3>1. \E r : Candidate(d, r, n.item, n.row) \in RemoteCandidates(d, account, reduced)
      BY <1>1, <1>2, <1>6, <2>2 DEF RemoteCandidates
    <3>2. QED
      BY <1>1, <3>1
  <2>3. QED
    BY <2>1, <2>2
<1>7. CASE /\ n \in Entries(Local(d) \cup HeldBy(d), legacy.of[d].local)
           /\ n \notin Entries(Remote(d), legacy.remote)
  <2>1. \E r : Candidate(d, r, n.item, n.row) \in LocalCandidates(d, account)
    BY <1>1, <1>2, <1>7 DEF LocalCandidates
  <2>2. QED
    BY <1>1, <2>1
<1>8. CASE n \in Entries(QueuedRows(d), legacy.of[d].queued)
  <2>1. \E r : Candidate(d, r, n.item, n.row) \in QueueCandidates(d, account)
    BY <1>1, <1>2, <1>8 DEF QueueCandidates
  <2>2. QED
    BY <1>1, <2>1
<1>9. QED
  BY <1>6, <1>7, <1>8 DEF Offered

\* A plan replays only on the row the device's queue was filled on, as it was read.
\* L is what the legacy account has.
Based(L, a, i) == L[i] # NoRow /\ Is(a.entities[i], L[i])

LEMMA PlanReplays ==
  ASSUME NEW d, NEW read, NEW reduced, NEW n \in Plan(d, read, reduced).replays
  PROVE  Based(legacy.remote, read, n.item)
<1>1. Plan(d, read, reduced).replays = Replaced(d, read) \cup {Entry(i, NoRow) : i \in Erased(d, read)}
  BY DEF Plan
<1>2. CASE n \in Replaced(d, read)
  BY <1>2 DEF Replaced, OnLegacyBase, Based
<1>3. CASE n \in {Entry(i, NoRow) : i \in Erased(d, read)}
  BY <1>3 DEF Erased, OnLegacyBase, Entry, Based
<1>4. QED
  BY <1>1, <1>2, <1>3

----------------------------------------------------------------------------
(***************************************************************************)
(* The type of what a device shows, along its queue: a least place where   *)
(* it is not typed would follow one where it is.                           *)
(***************************************************************************)
LEMMA SomeLeast ==
  ASSUME NEW S \in SUBSET Nat, S # {}
  PROVE  \E n \in S : \A m \in S : n =< m
<1>1. PICK x \in S : \A y \in S : ~(<<y, x>> \in OpToRel(<, Nat))
  BY NatLessThanWellFounded, WFMin
<1>2. \A y \in S : ~(y < x)
  BY <1>1 DEF OpToRel
<1>3. QED
  BY <1>2

\* g holds what is shown after each of the first n operations of q.
Shows(i, e, q, g, n) ==
  g = [k \in 0..n |-> IF k = 0 THEN e ELSE Over(i, g[k - 1], q[k])]

LEMMA ViewExists ==
  ASSUME NEW i, NEW e, NEW q, NEW k \in Nat
  PROVE  \E g : Shows(i, e, q, g, k)
<1>1. SUFFICES ASSUME ~\E g : Shows(i, e, q, g, k) PROVE FALSE
  OBVIOUS
<1> DEFINE Bad == {n \in Nat : ~\E g : Shows(i, e, q, g, n)}
<1>2. PICK n \in Bad : \A m \in Bad : n =< m
  <2>1. k \in Bad
    BY <1>1
  <2>2. Bad \in SUBSET Nat
    OBVIOUS
  <2> HIDE DEF Bad
  <2>3. QED
    BY <2>1, <2>2, SomeLeast
<1>3. CASE n = 0
  <2>1. PICK g : g = [m \in 0..0 |-> e]
    OBVIOUS
  <2>2. Shows(i, e, q, g, 0)
    BY <2>1 DEF Shows
  <2>3. QED
    BY <1>2, <1>3, <2>2
<1>4. CASE n # 0
  <2>1. n \in Nat /\ n - 1 \in Nat /\ n - 1 \notin Bad
    BY <1>2, <1>4
  <2>2. PICK g : Shows(i, e, q, g, n - 1)
    BY <2>1
  <2>3. PICK h : h = [m \in 0..n |-> IF m = n THEN Over(i, g[n - 1], q[n]) ELSE g[m]]
    OBVIOUS
  <2>4. ASSUME NEW m \in 0..n
        PROVE  h[m] = IF m = 0 THEN e ELSE Over(i, h[m - 1], q[m])
    <3>1. CASE m = n
      <4>1. h[m] = Over(i, g[n - 1], q[n])
        BY <2>3, <3>1
      <4>2. h[n - 1] = g[n - 1]
        BY <2>1, <2>3
      <4>3. QED
        BY <1>4, <3>1, <4>1, <4>2
    <3>2. CASE m # n
      <4>1. m \in 0..(n - 1) /\ h[m] = g[m]
        BY <2>1, <2>3, <3>2
      <4>2. g[m] = IF m = 0 THEN e ELSE Over(i, g[m - 1], q[m])
        BY <2>2, <4>1 DEF Shows
      <4>3. m # 0 => h[m - 1] = g[m - 1]
        BY <2>1, <2>3, <3>2, <4>1
      <4>4. QED
        BY <4>1, <4>2, <4>3
    <3>3. QED
      BY <3>1, <3>2
  <2>5. h = [m \in 0..n |-> h[m]]
    BY <2>3
  <2>6. Shows(i, e, q, h, n)
    BY <2>4, <2>5 DEF Shows
  <2>7. QED
    BY <1>2, <2>6
<1>5. QED
  BY <1>3, <1>4

LEMMA ShownIs ==
  ASSUME NEW d, NEW i
  PROVE  LET q == mover[d].queue IN
           Shown(d, i) = (CHOOSE g : Shows(i, account.entities[i], q, g, Len(q)))[Len(q)]
  BY DEF Shown, Shows

LEMMA ShownType ==
  ASSUME MoveTyped, NEW d \in Movers, NEW i \in Items, Living(account.entities[i])
  PROVE  Shown(d, i) \in Ent!Entity /\ Living(Shown(d, i))
<1>1. PICK q \in Seq(Sent) : q = mover[d].queue
  BY DEF MoveTyped, Device
<1>2. PICK k \in Nat : k = Len(q)
  OBVIOUS
<1>3. PICK e \in Ent!Entity : e = account.entities[i]
  BY DEF MoveTyped, Accounts
<1>4. PICK g : g = CHOOSE f : Shows(i, e, q, f, k)
  OBVIOUS
<1>5. Shows(i, e, q, g, k)
  BY <1>4, ViewExists
<1>6. Shown(d, i) = g[k]
  BY <1>1, <1>2, <1>3, <1>4, ShownIs
<1>7. \A n \in 0..k : g[n] = IF n = 0 THEN e ELSE Over(i, g[n - 1], q[n])
  BY <1>5 DEF Shows
<1> DEFINE Bad == {n \in 0..k : ~(g[n] \in Ent!Entity /\ Living(g[n]))}
<1>8. SUFFICES ASSUME ~(g[k] \in Ent!Entity /\ Living(g[k])) PROVE FALSE
  BY <1>6
<1>9. PICK n \in Bad : \A m \in Bad : n =< m
  <2>1. k \in Bad
    BY <1>8
  <2>2. Bad \in SUBSET Nat
    OBVIOUS
  <2> HIDE DEF Bad
  <2>3. QED
    BY <2>1, <2>2, SomeLeast
<1>10. n \in 0..k /\ n # 0
  BY <1>3, <1>7, <1>9
<1>11. g[n - 1] \in Ent!Entity /\ Living(g[n - 1])
  BY <1>9, <1>10
<1>12. q[n] \in Sent /\ q[n].op \in Ops
  <2>1. q[n] \in Sent
    BY <1>2, <1>10
  <2>2. QED
    BY <2>1 DEF Sent, WholeOps
<1>13. /\ Over(i, g[n - 1], q[n]) \in Ent!Entity
       /\ Living(Over(i, g[n - 1], q[n]))
  BY <1>11, <1>12, MergeType DEF Over
<1>14. QED
  BY <1>7, <1>9, <1>10, <1>13

----------------------------------------------------------------------------
(***************************************************************************)
(* The inductive invariant.  m is the state of device d, a the account, h  *)
(* the rows the account has had; O, R and L are as above.                  *)
(***************************************************************************)

\* A device keeps what it offers, from its plan to its record.
KeepFits(d, m, a, h, O, R) ==
  /\ m.phase \in {"seeding", "keeping", "recording"} => Covers(m.plan, O, R, h)
  /\ m.phase = "recording" \/ a.records[d] # {} => AllKept(m, a, O, R, h)
  /\ m.complete \/ m.phase \in {"initializing", "completing"} => a.records[d] # {}
  /\ m.complete \/ m.phase = "completing" \/ ~m.plan.exact => a.initialized

\* A replay of the revision that was read is of the row that was read.
QueuedFits(o, a, L) ==
  /\ o.planned =< a.entities[o.item].revision
  /\ o.op.kind # "add" /\ o.planned = a.entities[o.item].revision => Based(L, a, o.item)

PlanFits(plan, a, L) ==
  /\ \A i \in Items : plan.revisions[i] =< a.entities[i].revision
  /\ \A n \in plan.replays :
       plan.revisions[n.item] = a.entities[n.item].revision => Based(L, a, n.item)

ReplayFits(m, a, L) ==
  /\ m.phase = "off" => \A k \in DOMAIN m.queue : ~m.queue[k].tried
  /\ PlanFits(m.plan, a, L)
  /\ \A k \in DOMAIN m.queue : QueuedFits(m.queue[k], a, L)

Fits(d, m, a, h, O, R, L) == KeepFits(d, m, a, h, O, R) /\ ReplayFits(m, a, L)

\* What an operation's name on a record tells: a field has the value it gave, the record is
\* deleted by its last lifecycle step, or has had the row that step gave it.
FieldsSigned(e) ==
  \A p \in Paths : e.fieldMutations[p] \in MoveId => e.values[p] = e.fieldMutations[p].values[p]

LifeSigned(e, i, h) ==
  e.lifecycle \in MoveId =>
    /\ e.lifecycle.kind = "delete" => e.deleted
    /\ e.lifecycle.kind = "add" => Entry(i, e.lifecycle.values) \in h

AccountFits(a, h) ==
  /\ HeldIs(a, h)
  /\ \A i \in Items : FieldsSigned(a.entities[i]) /\ LifeSigned(a.entities[i], i, h)
  /\ \A i \in Items : Living(a.entities[i])
  /\ a.initialized => \E d \in Movers : a.records[d] # {}

DevicesFit ==
  \A d \in Movers : Fits(d, mover[d], account, held, Offered(d), Remotes(d), legacy.remote)

IInv == MoveTyped /\ AccountFits(account, held) /\ DevicesFit

\* What a step does to the account only adds to it.
Grows(a, b, h, k) ==
  /\ h \subseteq k /\ a.candidates \subseteq b.candidates
  /\ a.initialized => b.initialized
  /\ \A d \in Movers : a.records[d] # {} => b.records[d] # {}
  /\ \A i \in Items : \/ b.entities[i] = a.entities[i]
                      \/ b.entities[i].revision > a.entities[i].revision

LEMMA BasedStays ==
  ASSUME NEW a \in Accounts, NEW b \in Accounts, NEW h, NEW k, Grows(a, b, h, k),
         NEW i \in Items, NEW r \in Nat, r =< a.entities[i].revision, NEW L,
         NEW P \in BOOLEAN, P /\ r = a.entities[i].revision => Based(L, a, i)
  PROVE  /\ r =< b.entities[i].revision
         /\ P /\ r = b.entities[i].revision => Based(L, b, i)
<1>1. a.entities[i].revision \in Nat /\ b.entities[i].revision \in Nat
  BY DEF Accounts, Ent!Entity
<1>2. b.entities[i] = a.entities[i] \/ b.entities[i].revision > a.entities[i].revision
  BY DEF Grows
<1>3. CASE b.entities[i] = a.entities[i]
  BY <1>3 DEF Based
<1>4. CASE b.entities[i].revision > a.entities[i].revision
  BY <1>1, <1>4
<1>5. QED
  BY <1>2, <1>3, <1>4

LEMMA QueuedStays ==
  ASSUME NEW a \in Accounts, NEW b \in Accounts, NEW h, NEW k, Grows(a, b, h, k),
         NEW o \in Sent, NEW L, QueuedFits(o, a, L)
  PROVE  QueuedFits(o, b, L)
<1>1. o.item \in Items /\ o.planned \in Nat
  BY DEF Sent
<1>2. PICK P \in BOOLEAN : P <=> o.op.kind # "add"
  OBVIOUS
<1>3. P /\ o.planned = a.entities[o.item].revision => Based(L, a, o.item)
  BY <1>2 DEF QueuedFits
<1>4. /\ o.planned =< b.entities[o.item].revision
      /\ P /\ o.planned = b.entities[o.item].revision => Based(L, b, o.item)
  BY <1>1, <1>3, BasedStays DEF QueuedFits
<1>5. QED
  BY <1>2, <1>4 DEF QueuedFits

LEMMA PlanStays ==
  ASSUME NEW a \in Accounts, NEW b \in Accounts, NEW h, NEW k, Grows(a, b, h, k),
         NEW p \in Plans, NEW L, PlanFits(p, a, L)
  PROVE  PlanFits(p, b, L)
<1>1. p.revisions \in [Items -> Nat] /\ \A n \in p.replays : n.item \in Items
  BY DEF Plans, ItemEdits
<1>2. ASSUME NEW i \in Items PROVE p.revisions[i] =< b.entities[i].revision
  <2>1. FALSE \in BOOLEAN /\ p.revisions[i] \in Nat /\ p.revisions[i] =< a.entities[i].revision
    BY <1>1 DEF PlanFits
  <2>2. QED
    BY <2>1, BasedStays
<1>3. ASSUME NEW n \in p.replays, p.revisions[n.item] = b.entities[n.item].revision
      PROVE  Based(L, b, n.item)
  <2>1. TRUE \in BOOLEAN /\ n.item \in Items /\ p.revisions[n.item] \in Nat
        /\ p.revisions[n.item] =< a.entities[n.item].revision
    BY <1>1 DEF PlanFits
  <2>2. TRUE /\ p.revisions[n.item] = a.entities[n.item].revision => Based(L, a, n.item)
    BY DEF PlanFits
  <2>3. QED
    BY <1>3, <2>1, <2>2, BasedStays
<1>4. QED
  BY <1>2, <1>3 DEF PlanFits

\* What fits one account fits what it grows to.
LEMMA FitsStay ==
  ASSUME NEW d \in Movers, NEW m \in Device, NEW a \in Accounts, NEW b \in Accounts, NEW h, NEW k,
         NEW O, NEW R, NEW L, Grows(a, b, h, k), Fits(d, m, a, h, O, R, L),
         b.records[d] # {} => a.records[d] # {} \/ m.phase = "recording"
  PROVE  Fits(d, m, b, k, O, R, L)
<1>1. \A n : Orderless(n, R, h) => Orderless(n, R, k)
  BY DEF Orderless, Grows
<1>2. Covers(m.plan, O, R, h) => Covers(m.plan, O, R, k)
  BY <1>1 DEF Covers, Grows
<1>3. AllKept(m, a, O, R, h) => AllKept(m, b, O, R, k)
  BY <1>1 DEF AllKept, Grows
<1>4. KeepFits(d, m, b, k, O, R)
  BY <1>2, <1>3 DEF Fits, KeepFits, Grows
<1>5. m.plan \in Plans /\ \A j \in DOMAIN m.queue : m.queue[j] \in Sent
  <2>1. m.queue \in Seq(Sent) /\ m.plan \in Plans
    BY DEF Device
  <2>2. QED
    BY <2>1
<1>6. PlanFits(m.plan, b, L)
  BY <1>5, PlanStays DEF Fits, ReplayFits
<1>7. \A j \in DOMAIN m.queue : QueuedFits(m.queue[j], b, L)
  BY <1>5, QueuedStays DEF Fits, ReplayFits
<1>8. QED
  BY <1>4, <1>6, <1>7 DEF Fits, ReplayFits

----------------------------------------------------------------------------
(* Steps. *)

\* What a device knows, and so what it offers, stays.
LEMMA LegacyStays ==
  ASSUME legacy' = legacy, NEW d
  PROVE  Offered(d)' = Offered(d) /\ Remotes(d)' = Remotes(d)
<1>1. \A i : Spoken(d, i)' = Spoken(d, i)
  BY DEF Spoken
<1>2. Remote(d)' = Remote(d) /\ Local(d)' = Local(d)
  BY <1>1 DEF Remote, Local, Silent
<1>3. HeldBy(d)' = HeldBy(d) /\ QueuedRows(d)' = QueuedRows(d)
  BY <1>1 DEF HeldBy, QueuedRows
<1>4. QED
  BY <1>2, <1>3 DEF Offered, Remotes, Entries, Entry

\* A step of one device, which may add to the account: m is its next state, b the account's.
LEMMA DeviceMoves ==
  ASSUME IInv, NEW d \in Movers, NEW m \in Device, NEW b \in Accounts, NEW k,
         legacy' = legacy, account' = b, held' = k, mover' = [mover EXCEPT ![d] = m],
         userEdits' \in 0..MaxUserEdits, mishaps' \in 0..MaxMishaps,
         Grows(account, b, held, k), AccountFits(b, k),
         \A e \in Movers : b.records[e] # {} => account.records[e] # {} \/ mover[e].phase = "recording",
         Fits(d, m, b, k, Offered(d), Remotes(d), legacy.remote)
  PROVE  IInv'
<1>1. mover \in [Movers -> Device] /\ account \in Accounts /\ legacy \in Legacies
  BY DEF IInv, MoveTyped
<1>2. mover' \in [Movers -> Device] /\ mover'[d] = m /\ \A e \in Movers \ {d} : mover'[e] = mover[e]
  BY <1>1
<1>3. MoveTyped'
  BY <1>1, <1>2 DEF MoveTyped
<1>4. AccountFits(account, held)'
  BY DEF AccountFits, HeldIs
<1>5. ASSUME NEW e \in Movers
      PROVE  Fits(e, mover'[e], b, k, Offered(e), Remotes(e), legacy.remote)
  <2>1. CASE e = d
    BY <1>2, <2>1
  <2>2. CASE e # d
    <3>1. mover[e] \in Device /\ mover'[e] = mover[e]
      BY <1>1, <1>2, <2>2
    <3>2. Fits(e, mover[e], account, held, Offered(e), Remotes(e), legacy.remote)
      BY DEF IInv, DevicesFit
    <3>3. Fits(e, mover[e], b, k, Offered(e), Remotes(e), legacy.remote)
      BY <1>1, <3>1, <3>2, FitsStay
    <3>4. QED
      BY <3>1, <3>3
  <2>3. QED
    BY <2>1, <2>2
<1>6. DevicesFit'
  <2>1. \A e \in Movers : Offered(e)' = Offered(e) /\ Remotes(e)' = Remotes(e)
    BY LegacyStays
  <2>2. ASSUME NEW e \in Movers
        PROVE  Fits(e, mover'[e], account', held', Offered(e)', Remotes(e)', legacy'.remote)
    BY <1>5, <2>1
  <2>3. QED
    BY <2>2 DEF DevicesFit, Fits, KeepFits, ReplayFits, PlanFits, QueuedFits, Based, Covers, AllKept, Orderless, Alive, Is
<1>7. QED
  BY <1>3, <1>4, <1>6 DEF IInv

\* A step that leaves the account as it is.
LEMMA OnlyDevice ==
  ASSUME IInv, NEW d \in Movers, NEW m \in Device,
         legacy' = legacy, account' = account, held' = held, mover' = [mover EXCEPT ![d] = m],
         userEdits' \in 0..MaxUserEdits, mishaps' \in 0..MaxMishaps,
         Fits(d, m, account, held, Offered(d), Remotes(d), legacy.remote)
  PROVE  IInv'
<1>1. account \in Accounts /\ Grows(account, account, held, held)
  BY DEF IInv, MoveTyped, Grows
<1>2. AccountFits(account, held)
  BY DEF IInv
<1>3. \A e \in Movers : account.records[e] # {} => account.records[e] # {} \/ mover[e].phase = "recording"
  OBVIOUS
<1>4. QED
  BY <1>1, <1>2, <1>3, DeviceMoves

\* A device goes on to a phase that asks nothing of it, or that its state is fit for.
LEMMA PhaseMoves ==
  ASSUME IInv, NEW d \in Movers, NEW p \in Phases, NEW b \in Accounts, NEW k,
         legacy' = legacy, account' = b, held' = k,
         mover' = [mover EXCEPT ![d].phase = p],
         userEdits' \in 0..MaxUserEdits, mishaps' \in 0..MaxMishaps,
         Grows(account, b, held, k), AccountFits(b, k),
         \A e \in Movers : b.records[e] # {} => account.records[e] # {} \/ mover[e].phase = "recording",
         p # "off",
         p \in {"seeding", "keeping", "recording"} => Covers(mover[d].plan, Offered(d), Remotes(d), k),
         p = "recording" => AllKept(mover[d], b, Offered(d), Remotes(d), k),
         p \in {"initializing", "completing"} => b.records[d] # {},
         p = "completing" => b.initialized
  PROVE  IInv'
<1>1. mover[d] \in Device
  BY DEF IInv, MoveTyped
<1>2. PICK m : m = [mover[d] EXCEPT !.phase = p]
  OBVIOUS
<1>3. m \in Device
  BY <1>1, <1>2 DEF Device
<1>4. /\ m.phase = p /\ m.plan = mover[d].plan /\ m.queue = mover[d].queue
      /\ m.conflicts = mover[d].conflicts /\ m.kept = mover[d].kept /\ m.complete = mover[d].complete
  BY <1>1, <1>2 DEF Device
<1>5. mover' = [mover EXCEPT ![d] = m]
  BY <1>2
<1>6. Fits(d, mover[d], b, k, Offered(d), Remotes(d), legacy.remote)
  <2>1. Fits(d, mover[d], account, held, Offered(d), Remotes(d), legacy.remote) /\ account \in Accounts
    BY DEF IInv, DevicesFit, MoveTyped
  <2>2. QED
    BY <1>1, <2>1, FitsStay
<1>7. AllKept(m, b, Offered(d), Remotes(d), k) <=> AllKept(mover[d], b, Offered(d), Remotes(d), k)
  BY <1>4 DEF AllKept
<1>8. KeepFits(d, m, b, k, Offered(d), Remotes(d))
  BY <1>4, <1>6, <1>7 DEF Fits, KeepFits
<1>9. ReplayFits(m, b, legacy.remote)
  BY <1>4, <1>6 DEF Fits, ReplayFits
<1>10. QED
  BY <1>3, <1>5, <1>8, <1>9, DeviceMoves DEF Fits

LEMMA PhaseOnly ==
  ASSUME IInv, NEW d \in Movers, NEW p \in Phases,
         legacy' = legacy, account' = account, held' = held,
         mover' = [mover EXCEPT ![d].phase = p],
         userEdits' \in 0..MaxUserEdits, mishaps' \in 0..MaxMishaps, p # "off",
         p \in {"seeding", "keeping", "recording"} => Covers(mover[d].plan, Offered(d), Remotes(d), held),
         p = "recording" => AllKept(mover[d], account, Offered(d), Remotes(d), held),
         p \in {"initializing", "completing"} => account.records[d] # {},
         p = "completing" => account.initialized
  PROVE  IInv'
<1>1. account \in Accounts /\ Grows(account, account, held, held)
  BY DEF IInv, MoveTyped, Grows
<1>2. AccountFits(account, held)
  BY DEF IInv
<1>3. \A e \in Movers : account.records[e] # {} => account.records[e] # {} \/ mover[e].phase = "recording"
  OBVIOUS
<1>4. QED
  BY <1>1, <1>2, <1>3, PhaseMoves

\* Counters that stay, or count one more mishap.
LEMMA CountersStay ==
  ASSUME IInv
  PROVE  /\ UNCHANGED userEdits => userEdits' \in 0..MaxUserEdits
         /\ UNCHANGED mishaps \/ Mishap => mishaps' \in 0..MaxMishaps
  BY LegacyAssumption DEF IInv, MoveTyped, Mishap

\* What fits the state of a device.
LEMMA DeviceFits ==
  ASSUME IInv, NEW d \in Movers
  PROVE  /\ mover[d] \in Device
         /\ Fits(d, mover[d], account, held, Offered(d), Remotes(d), legacy.remote)
  BY DEF IInv, MoveTyped, DevicesFit

LEMMA StartsHolds ==
  ASSUME IInv, NEW d \in Movers, MoveStarts(d)
  PROVE  IInv'
<1>1. "draining" \in Phases
  BY DEF Phases
<1>2. QED
  BY <1>1, CountersStay, PhaseOnly DEF MoveStarts, MovesOn

LEMMA ReadsHolds ==
  ASSUME IInv, NEW d \in Movers, MoveReads(d)
  PROVE  IInv'
<1>1. /\ userEdits' \in 0..MaxUserEdits /\ mishaps' \in 0..MaxMishaps
      /\ legacy' = legacy /\ account' = account /\ held' = held
  BY CountersStay DEF MoveReads
<1>2. MoveTyped /\ AccountFits(account, held) /\ mover \in [Movers -> Device]
  BY DEF IInv, MoveTyped
<1>3. CASE mover[d].complete
  <2>1. PICK p : p = IF account.initialized /\ account.records[d] # {} THEN "ready" ELSE "blocked"
    OBVIOUS
  <2>2. p \in Phases /\ p \notin {"off", "seeding", "keeping", "recording", "initializing", "completing"}
    BY <2>1 DEF Phases
  <2>3. mover' = [mover EXCEPT ![d].phase = p]
    BY <1>3, <2>1 DEF MoveReads, MovesOn
  <2>4. QED
    BY <1>1, <2>2, <2>3, PhaseOnly
<1>4. CASE ~mover[d].complete
  <2>1. PICK plan : plan = PlanFor(d, account)
    OBVIOUS
  <2>2. PICK reduced \in BOOLEAN : plan = Plan(d, account, reduced)
    BY <2>1, PlanForIs
  <2>3. plan \in Plans /\ Covers(plan, Offered(d), Remotes(d), held)
    BY <1>2, <2>2, PlanType, PlanCovers DEF AccountFits
  <2>4. /\ plan.revisions = [i \in Items |-> account.entities[i].revision]
        /\ plan.exact <=> ~account.initialized
    BY <2>2 DEF Plan
  <2>5. \A n \in plan.replays : Based(legacy.remote, account, n.item)
    BY <2>2, PlanReplays
  <2>6. PlanFits(plan, account, legacy.remote)
    <3>1. \A i \in Items : account.entities[i].revision \in Nat
      BY <1>2 DEF MoveTyped, Accounts, Ent!Entity
    <3>2. QED
      BY <2>4, <2>5, <3>1 DEF PlanFits
  <2>7. PICK p : p = IF account.records[d] = {} THEN "seeding"
                     ELSE IF \A record \in account.records[d] : ~Verified(d, plan, record, account)
                       THEN "blocked"
                     ELSE IF plan.exact THEN "initializing" ELSE "completing"
    OBVIOUS
  <2>8. /\ p \in Phases /\ p \notin {"off", "keeping", "recording"}
        /\ p \in {"initializing", "completing"} => account.records[d] # {}
        /\ p = "completing" => account.initialized
    BY <2>4, <2>7 DEF Phases
  <2>9. mover' = [mover EXCEPT ![d].plan = plan, ![d].phase = p]
    BY <1>4, <2>1, <2>7 DEF MoveReads
  <2>10. PICK m : m = [mover[d] EXCEPT !.plan = plan, !.phase = p]
    OBVIOUS
  <2>11. mover' = [mover EXCEPT ![d] = m]
    BY <1>2, <2>9, <2>10
  <2>12. /\ m \in Device /\ m.phase = p /\ m.plan = plan /\ m.queue = mover[d].queue
         /\ m.kept = mover[d].kept /\ m.complete = mover[d].complete
    BY <2>3, <2>8, <2>10, DeviceFits DEF Device
  <2>13. KeepFits(d, m, account, held, Offered(d), Remotes(d))
    <3>1. KeepFits(d, mover[d], account, held, Offered(d), Remotes(d))
      BY DeviceFits DEF Fits
    <3>2. AllKept(m, account, Offered(d), Remotes(d), held)
            <=> AllKept(mover[d], account, Offered(d), Remotes(d), held)
      BY <2>12 DEF AllKept
    <3>3. QED
      BY <1>4, <2>3, <2>4, <2>8, <2>12, <3>1, <3>2 DEF KeepFits
  <2>14. ReplayFits(m, account, legacy.remote)
    <3>1. ReplayFits(mover[d], account, legacy.remote)
      BY DeviceFits DEF Fits
    <3>2. QED
      BY <2>6, <2>8, <2>12, <3>1 DEF ReplayFits
  <2>15. QED
    BY <1>1, <2>11, <2>12, <2>13, <2>14, OnlyDevice DEF Fits
<1>5. QED
  BY <1>3, <1>4

\* An operation that is prepared for a plan's entry, and accepted on what is shown.
LEMMA PreparedType ==
  ASSUME IInv, NEW d \in Movers, NEW n \in ItemEdits, NEW kind \in {"add", "patch", "delete"},
         kind = "delete" \/ n.row \in Row,
         Ent!Accepts(Shown(d, n.item), Prepared(d, n, kind).op)
  PROVE  /\ Prepared(d, n, kind) \in Sent
         /\ Prepared(d, n, kind).op.kind = kind
<1>1. PICK i \in Items : i = n.item
  BY DEF ItemEdits
<1>2. PICK e : e = Shown(d, i)
  OBVIOUS
<1>3. e \in Ent!Entity /\ Living(e)
  <2>1. MoveTyped /\ Living(account.entities[i])
    BY DEF IInv, AccountFits
  <2>2. QED
    BY <1>2, <2>1, ShownType
<1>4. PICK patch : patch = IF kind = "delete" THEN Unset ELSE n.row
  OBVIOUS
<1>5. patch \in Rows /\ (kind = "delete" <=> patch = Unset)
  <2>1. Unset \in Rows
    BY DEF Unset, Rows
  <2>2. QED
    BY <1>4, <2>1, RowsAre
<1>6. PICK id : id = MigrationId(d, kind, e, patch)
  OBVIOUS
<1>7. id \in MoveId /\ id.kind = kind /\ id.values = patch
  <2>1. e.fieldRevisions \in [Paths -> Nat] /\ e.generation \in Nat
    BY <1>3 DEF Ent!Entity
  <2>2. PICK r : r = [p \in Paths |-> IF patch[p] # NoRow THEN e.fieldRevisions[p] ELSE 0]
    OBVIOUS
  <2>3. r \in [Paths -> Nat]
    BY <2>1, <2>2
  <2>4. id = [ by |-> "migration", kind |-> kind, generation |-> e.generation,
               revisions |-> r, values |-> patch, nth |-> 0 ]
    BY <1>6, <2>2 DEF MigrationId
  <2>5. QED
    BY <1>5, <2>1, <2>3, <2>4 DEF MoveId, Makers, Rows
<1>8. PICK op : op = Ent!NewOperation(id, kind, e, patch, 0)
  OBVIOUS
<1>9. Prepared(d, n, kind) = [ item |-> i, tried |-> FALSE, planned |-> mover[d].plan.revisions[i], op |-> op ]
  BY <1>1, <1>2, <1>4, <1>6, <1>8 DEF Prepared
<1>10. op.kind = kind
  BY <1>8 DEF Ent!NewOperation
<1>11. kind = "patch" => e.generation > 0
  <2>1. Ent!Accepts(e, op)
    BY <1>1, <1>2, <1>9
  <2>2. QED
    BY <1>3, <1>10, <2>1, PatchNeedsRecord DEF Living
<1>12. op \in Ops
  BY <1>3, <1>5, <1>7, <1>8, <1>11, NewOps
<1>13. mover[d].plan.revisions[i] \in Nat
  <2>1. mover[d].plan \in Plans
    BY DeviceFits DEF Device
  <2>2. QED
    BY <2>1 DEF Plans
<1>14. op \in WholeOps
  <2>1. op.values = patch
    BY <1>8 DEF Ent!NewOperation
  <2>2. QED
    BY <1>4, <1>10, <1>12, <2>1 DEF WholeOps
<1>15. QED
  BY <1>9, <1>10, <1>13, <1>14 DEF Sent

\* o is of an entry of the plan that is left out of the next plan.
LEMMA EnqueuesHolds ==
  ASSUME IInv, NEW d \in Movers, NEW n \in ItemEdits, NEW kind \in {"add", "patch", "delete"},
         NEW plan \in Plans, In(d, "seeding"),
         kind = "delete" \/ n.row \in Row, kind # "add" => n \in mover[d].plan.replays,
         plan.revisions = mover[d].plan.revisions, plan.replays \subseteq mover[d].plan.replays,
         plan.verified = mover[d].plan.verified, plan.candidates = mover[d].plan.candidates,
         plan.exact = mover[d].plan.exact,
         Enqueues(d, Prepared(d, n, kind), plan)
  PROVE  IInv'
<1>1. PICK o : o = Prepared(d, n, kind)
  OBVIOUS
<1>2. /\ userEdits' \in 0..MaxUserEdits /\ mishaps' \in 0..MaxMishaps
      /\ legacy' = legacy /\ account' = account /\ held' = held
  BY CountersStay DEF Enqueues
<1>3. CASE ~Ent!Accepts(Shown(d, o.item), o.op)
  <2>1. mover' = [mover EXCEPT ![d].phase = "blocked"]
    BY <1>1, <1>3 DEF Enqueues
  <2>2. "blocked" \in Phases
    BY DEF Phases
  <2>3. QED
    BY <1>2, <2>1, <2>2, PhaseOnly
<1>4. CASE Ent!Accepts(Shown(d, o.item), o.op)
  <2>1. mover' = [mover EXCEPT ![d].plan = plan, ![d].queue = Append(@, o)]
    BY <1>1, <1>4 DEF Enqueues
  <2>2. o.item = n.item /\ o.planned = mover[d].plan.revisions[n.item] /\ n.item \in Items
    BY <1>1 DEF Prepared, ItemEdits
  <2>3. o \in Sent /\ o.op.kind = kind
    BY <1>1, <1>4, <2>2, PreparedType
  <2>4. PICK q \in Seq(Sent) : q = mover[d].queue
    BY DeviceFits DEF Device
  <2>5. PICK m : m = [mover[d] EXCEPT !.plan = plan, !.queue = Append(q, o)]
    OBVIOUS
  <2>6. mover' = [mover EXCEPT ![d] = m]
    BY <2>1, <2>4, <2>5
  <2>7. Append(q, o) \in Seq(Sent)
    BY <2>3, <2>4
  <2>8. /\ m \in Device /\ m.phase = mover[d].phase /\ m.plan = plan /\ m.queue = Append(q, o)
        /\ m.kept = mover[d].kept /\ m.complete = mover[d].complete
    BY <2>5, <2>7, DeviceFits DEF Device
  <2>9. KeepFits(d, m, account, held, Offered(d), Remotes(d))
    <3>1. KeepFits(d, mover[d], account, held, Offered(d), Remotes(d))
      BY DeviceFits DEF Fits
    <3>2. AllKept(m, account, Offered(d), Remotes(d), held)
            <=> AllKept(mover[d], account, Offered(d), Remotes(d), held)
      BY <2>8 DEF AllKept
    <3>3. Covers(plan, Offered(d), Remotes(d), held)
            <=> Covers(mover[d].plan, Offered(d), Remotes(d), held)
      BY DEF Covers
    <3>4. QED
      BY <2>8, <3>1, <3>2, <3>3 DEF KeepFits
  <2>10. ReplayFits(m, account, legacy.remote)
    <3>1. /\ PlanFits(mover[d].plan, account, legacy.remote)
          /\ \A k \in DOMAIN q : QueuedFits(q[k], account, legacy.remote)
      BY <2>4, DeviceFits DEF Fits, ReplayFits
    <3>2. PlanFits(plan, account, legacy.remote)
      BY <3>1 DEF PlanFits
    <3>3. QueuedFits(o, account, legacy.remote)
      BY <2>2, <2>3, <3>1 DEF PlanFits, QueuedFits
    <3>4. \A k \in DOMAIN Append(q, o) : (k \in DOMAIN q /\ Append(q, o)[k] = q[k]) \/ Append(q, o)[k] = o
      BY <2>4
    <3>5. m.phase # "off"
      BY <2>8 DEF In
    <3>6. QED
      BY <2>8, <3>1, <3>2, <3>3, <3>4, <3>5 DEF ReplayFits
  <2>11. QED
    BY <1>2, <2>6, <2>8, <2>9, <2>10, OnlyDevice DEF Fits
<1>5. QED
  BY <1>3, <1>4

LEMMA SeedsHolds ==
  ASSUME IInv, NEW d \in Movers, MoveSeeds(d)
  PROVE  IInv'
<1>1. PICK n \in mover[d].plan.seeds :
        /\ In(d, "seeding")
        /\ Enqueues(d, Prepared(d, n, "add"), [mover[d].plan EXCEPT !.seeds = @ \ {n}])
  BY DEF MoveSeeds
<1>2. PICK p \in Plans : p = mover[d].plan
  BY DeviceFits DEF Device
<1>3. n \in ItemRows /\ n \in ItemEdits /\ n.row \in Row
  BY <1>1, <1>2 DEF Plans, ItemRows, ItemEdits
<1>4. PICK q : q = [p EXCEPT !.seeds = @ \ {n}]
  OBVIOUS
<1>5. /\ q \in Plans /\ q.revisions = p.revisions /\ q.replays = p.replays
      /\ q.verified = p.verified /\ q.candidates = p.candidates /\ q.exact = p.exact
  BY <1>2, <1>4 DEF Plans
<1>6. Enqueues(d, Prepared(d, n, "add"), q)
  BY <1>1, <1>2, <1>4
<1>7. QED
  BY <1>1, <1>2, <1>3, <1>5, <1>6, EnqueuesHolds

LEMMA ReplaysHolds ==
  ASSUME IInv, NEW d \in Movers, MoveReplays(d)
  PROVE  IInv'
<1>1. PICK n \in mover[d].plan.replays :
        /\ In(d, "seeding")
        /\ Enqueues(d, Prepared(d, n, IF n.row = NoRow THEN "delete" ELSE "patch"),
                    [mover[d].plan EXCEPT !.replays = @ \ {n}])
  BY DEF MoveReplays
<1>2. PICK p \in Plans : p = mover[d].plan
  BY DeviceFits DEF Device
<1>3. n \in ItemEdits /\ n.row \in Row \cup {NoRow}
  BY <1>1, <1>2 DEF Plans, ItemEdits
<1>4. PICK q : q = [p EXCEPT !.replays = @ \ {n}]
  OBVIOUS
<1>5. /\ q \in Plans /\ q.revisions = p.revisions /\ q.replays \subseteq p.replays
      /\ q.verified = p.verified /\ q.candidates = p.candidates /\ q.exact = p.exact
  BY <1>2, <1>4 DEF Plans
<1>6. PICK kind \in {"add", "patch", "delete"} : kind = IF n.row = NoRow THEN "delete" ELSE "patch"
  OBVIOUS
<1>7. Enqueues(d, Prepared(d, n, kind), q)
  BY <1>1, <1>2, <1>4, <1>6
<1>8. kind = "delete" \/ n.row \in Row
  BY <1>3, <1>6
<1>9. QED
  BY <1>1, <1>2, <1>3, <1>5, <1>7, <1>8, EnqueuesHolds

----------------------------------------------------------------------------
(* Steps that write to the account. *)

\* What a merge writes is signed with the operation's name.
LEMMA MergeSigned ==
  ASSUME NEW i \in Items, NEW e \in Ent!Entity, NEW o \in Ops, NEW k,
         FieldsSigned(e), LifeSigned(e, i, k),
         Alive(Ent!Merged(e, o)) => Entry(i, Ent!Merged(e, o).values) \in k
  PROVE  FieldsSigned(Ent!Merged(e, o)) /\ LifeSigned(Ent!Merged(e, o), i, k)
<1>1. PICK n : n = Ent!Merged(e, o)
  OBVIOUS
<1>2. o.id.kind = o.kind /\ o.id.values = o.values
  BY DEF Ops
<1>3. CASE n = e
  BY <1>1, <1>3
<1>4. CASE o.kind = "add" /\ n = Ent!CreateRecord(e, o)
  <2>1. /\ n.values = o.values /\ ~n.deleted /\ n.lifecycle = o.id /\ n.revision = e.revision + 1
        /\ \A p \in Paths : n.fieldMutations[p] = o.id \/ n.fieldMutations[p] = NoRow
    BY <1>4 DEF Ent!CreateRecord
  <2>2. FieldsSigned(n)
    BY <1>2, <2>1, NameAssumption DEF FieldsSigned
  <2>3. Alive(n)
    BY <2>1 DEF Alive, Ent!Exists, Ent!Entity
  <2>4. Entry(i, n.lifecycle.values) \in k
    BY <1>1, <1>2, <2>1, <2>3
  <2>5. n.lifecycle.kind # "delete"
    BY <1>2, <1>4, <2>1
  <2>6. QED
    BY <1>1, <2>2, <2>4, <2>5 DEF LifeSigned
<1>5. CASE o.kind = "delete" /\ n = Ent!Tombstone(e, o)
  <2>1. /\ n.values = e.values /\ n.fieldMutations = e.fieldMutations /\ n.deleted /\ n.lifecycle = o.id
    BY <1>5 DEF Ent!Tombstone
  <2>2. FieldsSigned(n)
    BY <2>1 DEF FieldsSigned
  <2>3. n.lifecycle.kind # "add"
    BY <1>2, <1>5, <2>1
  <2>4. QED
    BY <1>1, <2>1, <2>2, <2>3 DEF LifeSigned
<1>6. CASE o.kind = "patch" /\ n = Ent!PatchedRecord(e, o)
  <2>1. n.deleted = e.deleted /\ n.lifecycle = e.lifecycle
    BY <1>6 DEF Ent!PatchedRecord
  <2>2. \A p \in Paths : \/ n.values[p] = e.values[p] /\ n.fieldMutations[p] = e.fieldMutations[p]
                         \/ n.values[p] = o.values[p] /\ n.fieldMutations[p] = o.id
    BY <1>6 DEF Ent!PatchedRecord
  <2>3. FieldsSigned(n)
    BY <1>2, <2>2 DEF FieldsSigned
  <2>4. QED
    BY <1>1, <2>1, <2>3 DEF LifeSigned
<1>7. QED
  BY <1>1, <1>3, <1>4, <1>5, <1>6, MergeCases

\* An operation that reaches the account.
LEMMA CommitGrows ==
  ASSUME IInv, NEW i \in Items, NEW o \in Ops,
         Commit(i, Ent!Merged(account.entities[i], o))
  PROVE  /\ account' \in Accounts /\ Grows(account, account', held, held') /\ AccountFits(account', held')
         /\ account'.records = account.records
         /\ account'.entities = [account.entities EXCEPT ![i] = Ent!Merged(account.entities[i], o)]
<1>1. PICK a \in Accounts : a = account
  BY DEF IInv, MoveTyped
<1>2. PICK h : h = held
  OBVIOUS
<1>3. PICK e \in Ent!Entity : e = a.entities[i]
  BY DEF Accounts
<1>4. Living(e)
  BY <1>1, <1>3 DEF IInv, AccountFits
<1>5. PICK n : n = Ent!Merged(e, o)
  OBVIOUS
<1>6. /\ n \in Ent!Entity /\ Living(n)
      /\ n = e \/ n.revision = e.revision + 1
  BY <1>4, <1>5, MergeType
<1>7. PICK f : f = [a.entities EXCEPT ![i] = n]
  OBVIOUS
<1>8. /\ f \in [Items -> Ent!Entity] /\ f[i] = n /\ \A j \in Items \ {i} : f[j] = a.entities[j]
  BY <1>6, <1>7 DEF Accounts
<1>9. PICK b : b = [a EXCEPT !.entities = f]
  OBVIOUS
<1>10. /\ b \in Accounts /\ b.entities = f /\ b.records = a.records
       /\ b.candidates = a.candidates /\ b.initialized = a.initialized
  BY <1>8, <1>9 DEF Accounts
<1>11. account' = b
  BY <1>1, <1>3, <1>5, <1>7, <1>9 DEF Commit
<1>12. PICK k : k = IF Alive(n) THEN h \cup {Entry(i, n.values)} ELSE h
  OBVIOUS
<1>13. held' = k
  BY <1>1, <1>2, <1>3, <1>5, <1>12 DEF Commit
<1>14. Grows(a, b, h, k)
  <2>1. e.revision \in Nat
    BY DEF Ent!Entity
  <2>2. \A j \in Items : f[j] = a.entities[j] \/ f[j].revision > a.entities[j].revision
    BY <1>3, <1>6, <1>8, <2>1
  <2>3. QED
    BY <1>10, <1>12, <2>2 DEF Grows
<1>15. AccountFits(a, h)
  BY <1>1, <1>2 DEF IInv
<1>16. HeldIs(b, k)
  <2>1. ASSUME NEW j \in Items, Alive(f[j]) PROVE Entry(j, f[j].values) \in k
    <3>1. CASE j = i
      BY <1>8, <1>12, <2>1, <3>1
    <3>2. CASE j # i
      BY <1>8, <1>12, <1>15, <2>1, <3>2 DEF AccountFits, HeldIs
    <3>3. QED
      BY <3>1, <3>2
  <2>2. QED
    BY <1>10, <2>1 DEF HeldIs
<1>17. AccountFits(b, k)
  <2>1. \A j \in Items : Living(f[j])
    BY <1>6, <1>8, <1>15 DEF AccountFits
  <2>2. \A j \in Items : FieldsSigned(f[j]) /\ LifeSigned(f[j], j, k)
    <3>1. h \subseteq k /\ (Alive(n) => Entry(i, n.values) \in k)
      BY <1>12
    <3>2. \A j \in Items : FieldsSigned(a.entities[j]) /\ LifeSigned(a.entities[j], j, k)
      BY <1>15, <3>1 DEF AccountFits, LifeSigned
    <3>3. FieldsSigned(n) /\ LifeSigned(n, i, k)
      BY <1>3, <1>5, <3>1, <3>2, MergeSigned
    <3>4. QED
      BY <1>8, <3>2, <3>3
  <2>3. QED
    BY <1>10, <1>15, <1>16, <2>1, <2>2 DEF AccountFits
<1>18. QED
  BY <1>1, <1>2, <1>3, <1>5, <1>7, <1>10, <1>11, <1>13, <1>14, <1>17

LEMMA SentAre ==
  ASSUME IInv, NEW d \in Movers, NEW k \in DOMAIN mover[d].queue
  PROVE  mover[d].queue[k] \in Sent /\ mover[d].queue[k].op \in Ops /\ mover[d].queue[k].item \in Items
<1>1. mover[d].queue \in Seq(Sent)
  BY DeviceFits DEF Device
<1>2. mover[d].queue[k] \in Sent
  BY <1>1
<1>3. QED
  BY <1>2 DEF Sent, WholeOps

LEMMA RemovedIs ==
  ASSUME NEW S, NEW q \in Seq(S), NEW k \in DOMAIN q
  PROVE  /\ RemoveAt(q, k) \in Seq(S) /\ DOMAIN RemoveAt(q, k) = 1..(Len(q) - 1)
         /\ \A j \in 1..(Len(q) - 1) : RemoveAt(q, k)[j] = IF j < k THEN q[j] ELSE q[j + 1]
<1>1. k \in 1..Len(q) /\ Len(q) \in Nat
  OBVIOUS
<1>2. PICK left, right : left = SubSeq(q, 1, k - 1) /\ right = SubSeq(q, k + 1, Len(q))
  OBVIOUS
<1>3. /\ left \in Seq(S) /\ Len(left) = k - 1 /\ \A j \in 1..(k - 1) : left[j] = q[j]
  BY <1>1, <1>2
<1>4. /\ right \in Seq(S) /\ Len(right) = Len(q) - k /\ \A j \in 1..(Len(q) - k) : right[j] = q[k + j]
  BY <1>1, <1>2
<1>5. PICK r : r = left \o right
  OBVIOUS
<1>6. r \in Seq(S) /\ Len(r) = Len(q) - 1 /\ DOMAIN r = 1..(Len(q) - 1)
  BY <1>1, <1>3, <1>4, <1>5
<1>7. ASSUME NEW j \in 1..(Len(q) - 1)
      PROVE  r[j] = IF j < k THEN q[j] ELSE q[j + 1]
  <2>1. j \in 1..(Len(left) + Len(right))
    BY <1>1, <1>3, <1>4
  <2>2. r[j] = IF j =< Len(left) THEN left[j] ELSE right[j - Len(left)]
    BY <1>3, <1>4, <1>5, <2>1, ConcatProperties
  <2>3. CASE j < k
    BY <1>1, <1>3, <2>2, <2>3
  <2>4. CASE ~(j < k)
    <3>1. PICK n \in 1..(Len(q) - k) : n = j - (k - 1)
      BY <1>1, <2>4
    <3>2. ~(j =< Len(left)) /\ j - Len(left) = n /\ k + n = j + 1
      BY <1>1, <1>3, <2>4, <3>1
    <3>3. r[j] = right[n] /\ right[n] = q[k + n]
      BY <1>4, <2>2, <3>2
    <3>4. QED
      BY <2>4, <3>2, <3>3
  <2>5. QED
    BY <2>3, <2>4
<1>8. RemoveAt(q, k) = r
  BY <1>2, <1>5 DEF RemoveAt
<1>9. QED
  BY <1>6, <1>7, <1>8

LEMMA RemovedAre ==
  ASSUME NEW S, NEW q \in Seq(S), NEW k \in DOMAIN q
  PROVE  /\ RemoveAt(q, k) \in Seq(S)
         /\ \A j \in DOMAIN RemoveAt(q, k) : \E l \in DOMAIN q : RemoveAt(q, k)[j] = q[l]
<1>1. DOMAIN q = 1..Len(q) /\ Len(q) \in Nat
  OBVIOUS
<1>2. ASSUME NEW j \in 1..(Len(q) - 1)
      PROVE  \E l \in DOMAIN q : RemoveAt(q, k)[j] = q[l]
  <2>1. j \in DOMAIN q /\ j + 1 \in DOMAIN q
    BY <1>1
  <2>2. RemoveAt(q, k)[j] = q[j] \/ RemoveAt(q, k)[j] = q[j + 1]
    BY RemovedIs
  <2>3. QED
    BY <2>1, <2>2
<1>3. QED
  BY <1>2, RemovedIs

\* A step of a device's queue that leaves its plan, and what it has kept.
LEMMA QueueMoves ==
  ASSUME IInv, NEW d \in Movers, NEW m \in Device, NEW b \in Accounts, NEW k,
         legacy' = legacy, account' = b, held' = k, mover' = [mover EXCEPT ![d] = m],
         userEdits' \in 0..MaxUserEdits, mishaps' \in 0..MaxMishaps,
         Grows(account, b, held, k), AccountFits(b, k), b.records = account.records,
         m.phase = mover[d].phase, m.plan = mover[d].plan, m.kept = mover[d].kept,
         m.complete = mover[d].complete, ~In(d, "off"),
         \A j \in DOMAIN m.queue : QueuedFits(m.queue[j], b, legacy.remote)
  PROVE  IInv'
<1>1. Fits(d, mover[d], b, k, Offered(d), Remotes(d), legacy.remote)
  <2>1. account \in Accounts
    BY DEF IInv, MoveTyped
  <2>2. QED
    BY <2>1, DeviceFits, FitsStay
<1>2. KeepFits(d, m, b, k, Offered(d), Remotes(d))
  BY <1>1 DEF Fits, KeepFits, AllKept
<1>3. ReplayFits(m, b, legacy.remote)
  BY <1>1 DEF Fits, ReplayFits, In
<1>4. \A e \in Movers : b.records[e] # {} => account.records[e] # {} \/ mover[e].phase = "recording"
  OBVIOUS
<1>5. QED
  BY <1>2, <1>3, <1>4, DeviceMoves DEF Fits

\* What is queued fits the account that a step leaves.
LEMMA QueueStays ==
  ASSUME IInv, NEW d \in Movers, NEW b \in Accounts, NEW k, Grows(account, b, held, k)
  PROVE  \A j \in DOMAIN mover[d].queue : QueuedFits(mover[d].queue[j], b, legacy.remote)
<1>1. ASSUME NEW j \in DOMAIN mover[d].queue
      PROVE  QueuedFits(mover[d].queue[j], b, legacy.remote)
  <2>1. PICK o \in Sent : o = mover[d].queue[j]
    BY SentAre
  <2>2. QueuedFits(o, account, legacy.remote) /\ account \in Accounts
    BY <2>1, DeviceFits DEF Fits, ReplayFits, IInv, MoveTyped
  <2>3. QED
    BY <2>1, <2>2, QueuedStays
<1>2. QED
  BY <1>1

LEMMA SendsHolds ==
  ASSUME IInv, NEW d \in Movers, MoveSends(d)
  PROVE  IInv'
<1>1. PICK k \in DOMAIN mover[d].queue :
        /\ ~In(d, "off")
        /\ Commit(mover[d].queue[k].item,
                  Ent!Merged(account.entities[mover[d].queue[k].item], mover[d].queue[k].op))
        /\ mover' = [mover EXCEPT ![d].queue = RemoveAt(@, k),
                       ![d].conflicts = IF Taken(account.entities[mover[d].queue[k].item], mover[d].queue[k].op)
                                        THEN @ ELSE @ \cup {mover[d].queue[k]}]
        /\ UNCHANGED <<legacy, userEdits, mishaps>>
  BY DEF MoveSends, Sendable
<1>2. PICK o \in Sent : o = mover[d].queue[k]
  BY SentAre
<1>3. o.op \in Ops /\ o.item \in Items
  BY <1>2, SentAre
<1>4. PICK b \in Accounts, h \in {held'} :
        /\ account' = b /\ Grows(account, b, held, h) /\ AccountFits(b, h) /\ b.records = account.records
  BY <1>1, <1>2, <1>3, CommitGrows
<1>5. PICK q \in Seq(Sent) : q = mover[d].queue
  BY DeviceFits DEF Device
<1>6. PICK r : r = RemoveAt(q, k)
  OBVIOUS
<1>7. r \in Seq(Sent) /\ \A j \in DOMAIN r : \E l \in DOMAIN q : r[j] = q[l]
  BY <1>5, <1>6, RemovedAre
<1>8. PICK C : C = IF Taken(account.entities[o.item], o.op) THEN mover[d].conflicts
                   ELSE mover[d].conflicts \cup {o}
  OBVIOUS
<1>9. C \subseteq Sent
  <2>1. mover[d].conflicts \subseteq Sent
    BY DeviceFits DEF Device
  <2>2. QED
    BY <1>8, <2>1
<1>10. PICK m : m = [mover[d] EXCEPT !.queue = r, !.conflicts = C]
  OBVIOUS
<1>11. mover' = [mover EXCEPT ![d] = m]
  BY <1>1, <1>2, <1>5, <1>6, <1>8, <1>10
<1>12. /\ m \in Device /\ m.phase = mover[d].phase /\ m.plan = mover[d].plan /\ m.queue = r
       /\ m.kept = mover[d].kept /\ m.complete = mover[d].complete
  BY <1>7, <1>9, <1>10, DeviceFits DEF Device
<1>13. \A j \in DOMAIN m.queue : QueuedFits(m.queue[j], b, legacy.remote)
  BY <1>4, <1>5, <1>7, <1>12, QueueStays
<1>14. userEdits' \in 0..MaxUserEdits /\ mishaps' \in 0..MaxMishaps /\ legacy' = legacy /\ held' = h
  BY <1>1, <1>4, CountersStay
<1>15. QED
  BY <1>1, <1>4, <1>11, <1>12, <1>13, <1>14, QueueMoves

LEMMA SendIsLostHolds ==
  ASSUME IInv, NEW d \in Movers, SendIsLost(d)
  PROVE  IInv'
<1>1. PICK k \in DOMAIN mover[d].queue :
        /\ Working(d) /\ Mishap
        /\ \/ Commit(mover[d].queue[k].item,
                     Ent!Merged(account.entities[mover[d].queue[k].item], mover[d].queue[k].op))
           \/ UNCHANGED <<account, held>>
        /\ mover' = [mover EXCEPT ![d].queue[k].tried = TRUE]
        /\ UNCHANGED <<legacy, userEdits>>
  BY DEF SendIsLost, Sendable
<1>2. PICK o \in Sent : o = mover[d].queue[k]
  BY SentAre
<1>3. o.op \in Ops /\ o.item \in Items
  BY <1>2, SentAre
<1>4. PICK b \in Accounts, h \in {held'} :
        /\ account' = b /\ Grows(account, b, held, h) /\ AccountFits(b, h) /\ b.records = account.records
  <2>1. CASE UNCHANGED <<account, held>>
    BY <2>1 DEF IInv, MoveTyped, Grows
  <2>2. CASE Commit(o.item, Ent!Merged(account.entities[o.item], o.op))
    BY <1>3, <2>2, CommitGrows
  <2>3. QED
    BY <1>1, <1>2, <2>1, <2>2
<1>5. PICK q \in Seq(Sent) : q = mover[d].queue
  BY DeviceFits DEF Device
<1>6. PICK x : x = [o EXCEPT !.tried = TRUE]
  OBVIOUS
<1>7. x \in Sent /\ x.item = o.item /\ x.planned = o.planned /\ x.op = o.op
  BY <1>6 DEF Sent
<1>8. PICK r : r = [q EXCEPT ![k] = x]
  OBVIOUS
<1>9. r \in Seq(Sent) /\ DOMAIN r = DOMAIN q /\ r[k] = x /\ \A j \in DOMAIN q : j # k => r[j] = q[j]
  BY <1>5, <1>7, <1>8
<1>10. PICK m : m = [mover[d] EXCEPT !.queue = r]
  OBVIOUS
<1>11. mover' = [mover EXCEPT ![d] = m]
  BY <1>1, <1>2, <1>5, <1>6, <1>8, <1>10
<1>12. /\ m \in Device /\ m.phase = mover[d].phase /\ m.plan = mover[d].plan /\ m.queue = r
       /\ m.kept = mover[d].kept /\ m.complete = mover[d].complete
  BY <1>9, <1>10, DeviceFits DEF Device
<1>13. \A j \in DOMAIN m.queue : QueuedFits(m.queue[j], b, legacy.remote)
  <2>1. \A j \in DOMAIN q : QueuedFits(q[j], b, legacy.remote)
    BY <1>4, <1>5, QueueStays
  <2>2. QueuedFits(o, b, legacy.remote)
    BY <1>2, <1>5, <2>1
  <2>3. QueuedFits(x, b, legacy.remote)
    BY <1>7, <2>2 DEF QueuedFits
  <2>4. QED
    BY <1>9, <1>12, <2>1, <2>3
<1>14. /\ userEdits' \in 0..MaxUserEdits /\ mishaps' \in 0..MaxMishaps /\ legacy' = legacy /\ held' = h
       /\ ~In(d, "off")
  BY <1>1, <1>4, CountersStay DEF Working
<1>15. QED
  BY <1>4, <1>11, <1>12, <1>13, <1>14, QueueMoves

LEMMA ChecksHolds ==
  ASSUME IInv, NEW d \in Movers, MoveChecks(d)
  PROVE  IInv'
<1>1. PICK p : p = IF mover[d].queue = <<>> /\ mover[d].conflicts = {} THEN "keeping" ELSE "blocked"
  OBVIOUS
<1>2. p \in Phases /\ (p = "keeping" \/ p = "blocked")
  BY <1>1 DEF Phases
<1>3. /\ userEdits' \in 0..MaxUserEdits /\ mishaps' \in 0..MaxMishaps
      /\ legacy' = legacy /\ account' = account /\ held' = held
      /\ mover' = [mover EXCEPT ![d].phase = p]
  BY <1>1, CountersStay DEF MoveChecks, MovesOn
<1>4. Covers(mover[d].plan, Offered(d), Remotes(d), held)
  BY DeviceFits DEF Fits, KeepFits, MoveChecks, In
<1>5. QED
  BY <1>2, <1>3, <1>4, PhaseOnly

\* A candidate that the device keeps, and that may have reached the account.
LEMMA KeepsHolds ==
  ASSUME IInv, NEW d \in Movers, MoveKeeps(d)
  PROVE  IInv'
<1>1. PICK c \in mover[d].plan.candidates :
        /\ In(d, "keeping")
        /\ \/ /\ account' = [account EXCEPT !.candidates = @ \cup {c}]
              /\ mover' = [mover EXCEPT ![d].kept = @ \cup {c}]
              /\ UNCHANGED mishaps
           \/ /\ Mishap /\ mover' = [mover EXCEPT ![d].kept = @ \cup {c}, ![d].phase = "blocked"]
              /\ \/ account' = [account EXCEPT !.candidates = @ \cup {c}]
                 \/ UNCHANGED account
        /\ UNCHANGED <<legacy, held, userEdits>>
  BY DEF MoveKeeps
<1>2. mover[d].plan \in Plans /\ mover[d].kept \subseteq Candidates
  BY DeviceFits DEF Device
<1>3. c \in Candidates
  BY <1>1, <1>2 DEF Plans
<1>4. PICK a \in Accounts : a = account
  BY DEF IInv, MoveTyped
<1>5. PICK b : b = IF account' = account THEN a ELSE [a EXCEPT !.candidates = @ \cup {c}]
  OBVIOUS
<1>6. account' = b
  BY <1>1, <1>4, <1>5
<1>7. /\ b \in Accounts /\ b.entities = a.entities /\ b.records = a.records
      /\ b.initialized = a.initialized /\ a.candidates \subseteq b.candidates
  BY <1>3, <1>4, <1>5 DEF Accounts
<1>8. Grows(a, b, held, held)
  BY <1>7 DEF Grows
<1>9. AccountFits(b, held)
  <2>1. AccountFits(a, held)
    BY <1>4 DEF IInv
  <2>2. QED
    BY <1>7, <2>1 DEF AccountFits, HeldIs
<1>10. PICK p \in {"keeping", "blocked"} : mover' = [mover EXCEPT ![d].kept = @ \cup {c}, ![d].phase = p]
  <2>1. CASE mover' = [mover EXCEPT ![d].kept = @ \cup {c}, ![d].phase = "blocked"]
    BY <2>1
  <2>2. CASE mover' = [mover EXCEPT ![d].kept = @ \cup {c}]
    <3>1. mover \in [Movers -> Device] /\ mover[d] \in Device /\ mover[d].phase = "keeping"
      BY <1>1, DeviceFits DEF In, IInv, MoveTyped
    <3>2. PICK m : m = [mover[d] EXCEPT !.kept = @ \cup {c}]
      OBVIOUS
    <3>3. m = [mover[d] EXCEPT !.kept = @ \cup {c}, !.phase = "keeping"]
      BY <3>1, <3>2 DEF Device
    <3>4. mover' = [mover EXCEPT ![d] = m]
      BY <2>2, <3>2
    <3>5. mover' = [mover EXCEPT ![d].kept = @ \cup {c}, ![d].phase = "keeping"]
      BY <3>1, <3>3, <3>4
    <3>6. QED
      BY <3>5
  <2>3. QED
    BY <1>1, <2>1, <2>2
<1>11. PICK m : m = [mover[d] EXCEPT !.kept = @ \cup {c}, !.phase = p]
  OBVIOUS
<1>12. mover' = [mover EXCEPT ![d] = m]
  BY <1>10, <1>11
<1>13. p \in Phases /\ p # "off" /\ p # "seeding" /\ p # "recording" /\ p # "initializing" /\ p # "completing"
  BY DEF Phases
<1>14. /\ m \in Device /\ m.phase = p /\ m.plan = mover[d].plan /\ m.queue = mover[d].queue
       /\ m.kept = mover[d].kept \cup {c} /\ m.complete = mover[d].complete
  BY <1>2, <1>3, <1>11, <1>13, DeviceFits DEF Device
<1>15. Fits(d, mover[d], b, held, Offered(d), Remotes(d), legacy.remote)
  BY <1>4, <1>7, <1>8, DeviceFits, FitsStay
<1>16. AllKept(mover[d], b, Offered(d), Remotes(d), held) => AllKept(m, b, Offered(d), Remotes(d), held)
  BY <1>14 DEF AllKept
<1>17. KeepFits(d, m, b, held, Offered(d), Remotes(d))
  BY <1>1, <1>13, <1>14, <1>15, <1>16 DEF Fits, KeepFits, In
<1>18. ReplayFits(m, b, legacy.remote)
  BY <1>13, <1>14, <1>15 DEF Fits, ReplayFits
<1>19. \A e \in Movers : b.records[e] # {} => account.records[e] # {} \/ mover[e].phase = "recording"
  BY <1>4, <1>7
<1>20. userEdits' \in 0..MaxUserEdits /\ mishaps' \in 0..MaxMishaps /\ legacy' = legacy /\ held' = held
  BY <1>1, CountersStay
<1>21. QED
  BY <1>4, <1>6, <1>7, <1>8, <1>9, <1>12, <1>14, <1>17, <1>18, <1>19, <1>20, DeviceMoves DEF Fits

\* What is verified in the account is held.
LEMMA VerifiedIsKept ==
  ASSUME IInv, NEW d \in Movers, In(d, "keeping"),
         mover[d].plan.candidates \subseteq mover[d].kept \cap account.candidates,
         \A n \in mover[d].plan.verified : Is(account.entities[n.item], n.row)
  PROVE  AllKept(mover[d], account, Offered(d), Remotes(d), held)
<1>1. Covers(mover[d].plan, Offered(d), Remotes(d), held)
  BY DeviceFits DEF Fits, KeepFits, In
<1>2. ASSUME NEW n \in Offered(d), n \in mover[d].plan.verified PROVE n \in held
  <2>1. n.item \in Items
    BY OfferedType DEF IInv, ItemRows
  <2>2. n = Entry(n.item, n.row)
    BY EntriesAre DEF Offered
  <2>3. Alive(account.entities[n.item]) /\ account.entities[n.item].values = n.row
    BY <1>2 DEF Is
  <2>4. QED
    BY <2>1, <2>2, <2>3 DEF IInv, AccountFits, HeldIs
<1>3. QED
  BY <1>1, <1>2 DEF Covers, AllKept

LEMMA VerifiesHolds ==
  ASSUME IInv, NEW d \in Movers, MoveVerifies(d)
  PROVE  IInv'
<1>1. PICK plan : plan = [mover[d].plan EXCEPT !.exact = TRUE]
  OBVIOUS
<1>2. PICK p : p = IF Verified(d, plan, EvidenceOf(d, mover[d].plan), account) THEN "recording" ELSE "blocked"
  OBVIOUS
<1>3. p \in Phases /\ (p = "recording" \/ p = "blocked")
  BY <1>2 DEF Phases
<1>4. /\ userEdits' \in 0..MaxUserEdits /\ mishaps' \in 0..MaxMishaps
      /\ legacy' = legacy /\ account' = account /\ held' = held
      /\ mover' = [mover EXCEPT ![d].phase = p]
  BY <1>1, <1>2, CountersStay DEF MoveVerifies, MovesOn
<1>5. ASSUME p = "recording"
      PROVE  /\ AllKept(mover[d], account, Offered(d), Remotes(d), held)
             /\ Covers(mover[d].plan, Offered(d), Remotes(d), held)
  <2>1. mover[d].plan \in Plans
    BY DeviceFits DEF Device
  <2>2. plan.verified = mover[d].plan.verified /\ plan.exact
    BY <1>1, <2>1 DEF Plans
  <2>3. Verified(d, plan, EvidenceOf(d, mover[d].plan), account)
    BY <1>2, <1>5
  <2>4. \A n \in mover[d].plan.verified : Is(account.entities[n.item], n.row)
    BY <2>2, <2>3 DEF Verified
  <2>5. /\ In(d, "keeping")
        /\ mover[d].plan.candidates \subseteq mover[d].kept \cap account.candidates
    BY DEF MoveVerifies
  <2>6. QED
    BY <2>4, <2>5, VerifiedIsKept, DeviceFits DEF Fits, KeepFits, In
<1>6. QED
  BY <1>3, <1>4, <1>5, PhaseOnly

LEMMA RecordsHolds ==
  ASSUME IInv, NEW d \in Movers, MoveRecords(d)
  PROVE  IInv'
<1>1. In(d, "recording") /\ UNCHANGED <<legacy, held, userEdits>> /\ (UNCHANGED mishaps \/ Mishap)
  BY DEF MoveRecords, GoesWrong
<1>2. PICK a \in Accounts : a = account
  BY DEF IInv, MoveTyped
<1>3. EvidenceOf(d, mover[d].plan) \in Records
  <2>1. mover[d].plan \in Plans /\ legacy.of[d] \in Knowledge
    BY DeviceFits, LegacyType DEF Device, IInv
  <2>2. QED
    BY <2>1 DEF EvidenceOf, Records
<1>4. PICK r : r = IF a.records[d] = {} THEN {EvidenceOf(d, mover[d].plan)} ELSE a.records[d]
  OBVIOUS
<1>5. r # {} /\ r \subseteq Records
  BY <1>3, <1>4 DEF Accounts
<1>6. PICK f : f = [a.records EXCEPT ![d] = r]
  OBVIOUS
<1>7. f \in [Movers -> SUBSET Records] /\ f[d] = r /\ \A e \in Movers \ {d} : f[e] = a.records[e]
  BY <1>5, <1>6 DEF Accounts
<1>8. PICK b : b = [a EXCEPT !.records = f]
  OBVIOUS
<1>9. /\ b \in Accounts /\ b.records = f /\ b.entities = a.entities
      /\ b.candidates = a.candidates /\ b.initialized = a.initialized
  BY <1>7, <1>8 DEF Accounts
<1>10. account' = b \/ account' = a
  BY <1>2, <1>4, <1>6, <1>8 DEF MoveRecords, GoesWrong
<1>11. ASSUME NEW c \in {a, b}
       PROVE  /\ c \in Accounts /\ Grows(account, c, held, held) /\ AccountFits(c, held)
              /\ \A e \in Movers : c.records[e] # {} => account.records[e] # {} \/ mover[e].phase = "recording"
              /\ c.candidates = account.candidates /\ c.initialized = account.initialized
  <2>1. AccountFits(a, held)
    BY <1>2 DEF IInv
  <2>2. CASE c = a
    BY <1>2, <2>1, <2>2 DEF Grows
  <2>3. CASE c = b
    <3>1. \A e \in Movers : a.records[e] # {} => b.records[e] # {}
      BY <1>5, <1>7, <1>9
    <3>2. Grows(a, b, held, held)
      BY <1>9, <3>1 DEF Grows
    <3>3. AccountFits(b, held)
      BY <1>9, <2>1, <3>1 DEF AccountFits, HeldIs
    <3>4. \A e \in Movers : b.records[e] # {} => a.records[e] # {} \/ mover[e].phase = "recording"
      BY <1>1, <1>7, <1>9 DEF In
    <3>5. QED
      BY <1>2, <1>9, <2>3, <3>2, <3>3, <3>4
  <2>4. QED
    BY <2>2, <2>3
<1>12. PICK p : p = IF mover' = [mover EXCEPT ![d].phase = "blocked"] THEN "blocked" ELSE AfterRecord(d)
  OBVIOUS
<1>13. mover' = [mover EXCEPT ![d].phase = p]
  BY <1>12 DEF MoveRecords, GoesWrong, MovesOn
<1>14. /\ p \in Phases /\ p \in {"blocked", "initializing", "completing"}
       /\ p = "completing" => ~mover[d].plan.exact
  BY <1>12 DEF AfterRecord, Phases
<1>15. p # "blocked" => account' = b
  BY <1>2, <1>4, <1>6, <1>8, <1>12 DEF MoveRecords, GoesWrong, MovesOn
<1>16. p \in {"initializing", "completing"} => account'.records[d] # {}
  BY <1>5, <1>7, <1>9, <1>15
<1>17. p = "completing" => account'.initialized
  BY <1>10, <1>11, <1>14, DeviceFits DEF Fits, KeepFits
<1>18. PICK c \in {a, b} : account' = c
  BY <1>10
<1>19. userEdits' \in 0..MaxUserEdits /\ mishaps' \in 0..MaxMishaps /\ legacy' = legacy /\ held' = held
  BY <1>1, CountersStay
<1>20. /\ c \in Accounts /\ Grows(account, c, held, held) /\ AccountFits(c, held)
       /\ \A e \in Movers : c.records[e] # {} => account.records[e] # {} \/ mover[e].phase = "recording"
  BY <1>11
<1>21. /\ p \notin {"off", "seeding", "keeping", "recording"}
       /\ p \in {"initializing", "completing"} => c.records[d] # {}
       /\ p = "completing" => c.initialized
  BY <1>14, <1>16, <1>17, <1>18
<1>22. p \in Phases
  BY <1>14
<1>23. QED
  BY <1>13, <1>18, <1>19, <1>20, <1>21, <1>22, PhaseMoves

LEMMA InitializesHolds ==
  ASSUME IInv, NEW d \in Movers, MoveInitializes(d)
  PROVE  IInv'
<1>1. In(d, "initializing") /\ UNCHANGED <<legacy, held, userEdits>> /\ (UNCHANGED mishaps \/ Mishap)
  BY DEF MoveInitializes, GoesWrong
<1>2. PICK a \in Accounts : a = account
  BY DEF IInv, MoveTyped
<1>3. PICK b : b = [a EXCEPT !.initialized = TRUE]
  OBVIOUS
<1>4. /\ b \in Accounts /\ b.records = a.records /\ b.entities = a.entities
      /\ b.candidates = a.candidates /\ b.initialized
  BY <1>3 DEF Accounts
<1>5. account' = b \/ account' = a
  BY <1>2, <1>3 DEF MoveInitializes
<1>6. account.records[d] # {}
  BY <1>1, DeviceFits DEF Fits, KeepFits, In
<1>7. ASSUME NEW c \in {a, b}
      PROVE  c \in Accounts /\ Grows(account, c, held, held) /\ AccountFits(c, held) /\ c.records = account.records
  <2>1. AccountFits(a, held)
    BY <1>2 DEF IInv
  <2>2. CASE c = a
    BY <1>2, <2>1, <2>2 DEF Grows
  <2>3. CASE c = b
    BY <1>2, <1>4, <1>6, <2>1, <2>3 DEF Grows, AccountFits, HeldIs
  <2>4. QED
    BY <2>2, <2>3
<1>8. PICK p : p = IF mover' = [mover EXCEPT ![d].phase = "blocked"] THEN "blocked" ELSE "completing"
  OBVIOUS
<1>9. mover' = [mover EXCEPT ![d].phase = p]
  BY <1>8 DEF MoveInitializes, GoesWrong, MovesOn
<1>10. p \in Phases /\ (p = "blocked" \/ p = "completing")
  BY <1>8 DEF Phases
<1>11. p = "completing" => account' = b
  BY <1>2, <1>3, <1>8 DEF MoveInitializes, GoesWrong, MovesOn
<1>12. PICK c \in {a, b} : account' = c
  BY <1>5
<1>13. p = "completing" => c.records[d] # {} /\ c.initialized
  BY <1>4, <1>6, <1>7, <1>11, <1>12
<1>14. \A e \in Movers : c.records[e] # {} => account.records[e] # {} \/ mover[e].phase = "recording"
  BY <1>7
<1>15. userEdits' \in 0..MaxUserEdits /\ mishaps' \in 0..MaxMishaps /\ legacy' = legacy /\ held' = held
  BY <1>1, CountersStay
<1>16. QED
  BY <1>7, <1>9, <1>10, <1>12, <1>13, <1>14, <1>15, PhaseMoves

LEMMA CompletesHolds ==
  ASSUME IInv, NEW d \in Movers, MoveCompletes(d)
  PROVE  IInv'
<1>1. /\ userEdits' \in 0..MaxUserEdits /\ mishaps' \in 0..MaxMishaps
      /\ legacy' = legacy /\ account' = account /\ held' = held
      /\ mover[d].phase = "completing"
      /\ mover' = [mover EXCEPT ![d].complete = TRUE, ![d].phase = "ready"]
  BY CountersStay DEF MoveCompletes, In
<1>2. PICK m : m = [mover[d] EXCEPT !.complete = TRUE, !.phase = "ready"]
  OBVIOUS
<1>3. mover' = [mover EXCEPT ![d] = m]
  BY <1>1, <1>2
<1>4. /\ m \in Device /\ m.phase = "ready" /\ m.plan = mover[d].plan /\ m.queue = mover[d].queue
      /\ m.kept = mover[d].kept
  BY <1>2, DeviceFits DEF Device, Phases
<1>5. KeepFits(d, m, account, held, Offered(d), Remotes(d))
  BY <1>1, <1>4, DeviceFits DEF Fits, KeepFits, AllKept
<1>6. ReplayFits(m, account, legacy.remote)
  BY <1>4, DeviceFits DEF Fits, ReplayFits
<1>7. QED
  BY <1>1, <1>3, <1>4, <1>5, <1>6, OnlyDevice DEF Fits

LEMMA NoPlanType == NoPlan \in Plans
  BY DEF NoPlan, Plans

\* A device that begins anew keeps its queue and its candidates.
LEMMA ForgottenHolds ==
  ASSUME IInv, NEW d \in Movers, Forgotten(d), legacy' = legacy, account' = account, held' = held,
         userEdits' \in 0..MaxUserEdits, mishaps' \in 0..MaxMishaps
  PROVE  IInv'
<1>1. PICK q \in Seq(Sent) : q = mover[d].queue
  BY DeviceFits DEF Device
<1>2. PICK r : r = [k \in DOMAIN q |-> [q[k] EXCEPT !.tried = FALSE]]
  OBVIOUS
<1>3. ASSUME NEW k \in DOMAIN q
      PROVE  r[k] \in Sent /\ r[k].item = q[k].item /\ r[k].planned = q[k].planned /\ r[k].op = q[k].op
             /\ ~r[k].tried
  <2>1. PICK o \in Sent : o = q[k]
    BY <1>1
  <2>2. r[k] = [o EXCEPT !.tried = FALSE]
    BY <1>2, <2>1
  <2>3. QED
    BY <2>1, <2>2 DEF Sent
<1>4. r \in Seq(Sent) /\ DOMAIN r = DOMAIN q
  <2>1. PICK n \in Nat : n = Len(q) /\ DOMAIN q = 1..n
    BY <1>1
  <2>2. \A k \in 1..n : r[k] \in Sent
    BY <1>3, <2>1
  <2>3. r = [k \in 1..n |-> r[k]]
    BY <1>2, <2>1
  <2>4. r \in [1..n -> Sent]
    BY <2>2, <2>3
  <2>5. r \in Seq(Sent)
    BY <2>3, <2>4
  <2>6. QED
    BY <1>2, <2>5
<1>5. PICK m : m = [mover[d] EXCEPT !.phase = "off", !.plan = NoPlan, !.queue = r]
  OBVIOUS
<1>6. mover' = [mover EXCEPT ![d] = m]
  BY <1>1, <1>2, <1>5 DEF Forgotten
<1>7. /\ m \in Device /\ m.phase = "off" /\ m.plan = NoPlan /\ m.queue = r
      /\ m.kept = mover[d].kept /\ m.complete = mover[d].complete
  BY <1>4, <1>5, DeviceFits, NoPlanType DEF Device, Phases
<1>8. KeepFits(d, m, account, held, Offered(d), Remotes(d))
  <2>1. KeepFits(d, mover[d], account, held, Offered(d), Remotes(d))
    BY DeviceFits DEF Fits
  <2>2. NoPlan.exact
    BY DEF NoPlan
  <2>3. QED
    BY <1>7, <2>1, <2>2 DEF KeepFits, AllKept
<1>9. ReplayFits(m, account, legacy.remote)
  <2>1. PlanFits(NoPlan, account, legacy.remote)
    <3>1. \A i \in Items : account.entities[i].revision \in Nat
      BY DEF IInv, MoveTyped, Accounts, Ent!Entity
    <3>2. QED
      BY <3>1 DEF NoPlan, PlanFits
  <2>2. \A k \in DOMAIN q : QueuedFits(q[k], account, legacy.remote)
    BY <1>1, DeviceFits DEF Fits, ReplayFits
  <2>3. \A k \in DOMAIN r : QueuedFits(r[k], account, legacy.remote) /\ ~r[k].tried
    BY <1>3, <1>4, <2>2 DEF QueuedFits
  <2>4. QED
    BY <1>7, <2>1, <2>3 DEF ReplayFits
<1>10. QED
  BY <1>6, <1>7, <1>8, <1>9, OnlyDevice DEF Fits

LEMMA ConflictIsAcceptedHolds ==
  ASSUME IInv, NEW d \in Movers, ConflictIsAccepted(d)
  PROVE  IInv'
<1>1. PICK o \in mover[d].conflicts :
        /\ mover' = [mover EXCEPT ![d].conflicts = @ \ {o}]
        /\ UNCHANGED <<legacy, account, held, userEdits, mishaps>>
  BY DEF ConflictIsAccepted
<1>2. PICK m : m = [mover[d] EXCEPT !.conflicts = @ \ {o}]
  OBVIOUS
<1>3. mover' = [mover EXCEPT ![d] = m]
  BY <1>1, <1>2
<1>4. /\ m \in Device /\ m.phase = mover[d].phase /\ m.plan = mover[d].plan /\ m.queue = mover[d].queue
      /\ m.kept = mover[d].kept /\ m.complete = mover[d].complete
  BY <1>2, DeviceFits DEF Device
<1>5. Fits(d, m, account, held, Offered(d), Remotes(d), legacy.remote)
  BY <1>4, DeviceFits DEF Fits, KeepFits, ReplayFits, AllKept
<1>6. userEdits' \in 0..MaxUserEdits /\ mishaps' \in 0..MaxMishaps
  BY <1>1, CountersStay
<1>7. QED
  BY <1>1, <1>3, <1>4, <1>5, <1>6, OnlyDevice

LEMMA UserEditsHolds ==
  ASSUME IInv, NEW d \in Movers, UserEdits(d)
  PROVE  IInv'
<1>1. PICK i \in Items, kind \in {"add", "patch", "delete"}, patch \in {OtherRow, OtherOrder} :
        LET e == account.entities[i]
            values == CASE kind = "add"    -> [priority |-> "L", sortOrder |-> "second"]
                        [] kind = "patch"  -> patch
                        [] kind = "delete" -> Unset
            op == Ent!NewOperation(UserId(kind, e, values), kind, e, values, 0) IN
          /\ userEdits < MaxUserEdits
          /\ Ent!Commits(e, op) /\ Commit(i, Ent!Merged(e, op))
          /\ userEdits' = userEdits + 1
          /\ UNCHANGED <<legacy, mover, mishaps>>
  BY DEF UserEdits
<1>2. PICK e \in Ent!Entity : e = account.entities[i]
  BY DEF IInv, MoveTyped, Accounts
<1>3. Living(e)
  BY <1>2 DEF IInv, AccountFits
<1>4. PICK values : values = CASE kind = "add"    -> [priority |-> "L", sortOrder |-> "second"]
                               [] kind = "patch"  -> patch
                               [] kind = "delete" -> Unset
  OBVIOUS
<1>5. values \in Rows /\ (kind = "delete" <=> values = Unset)
  <2>1. "L" # NoRow /\ "second" # NoRow
    BY LegacyAssumption DEF Levels, Orders
  <2>2. \A row \in {OtherRow, OtherOrder, [priority |-> "L", sortOrder |-> "second"]} : row \in Rows /\ row # Unset
    BY <2>1 DEF OtherRow, OtherOrder, Rows, Paths, Levels, Orders, Unset
  <2>3. Unset \in Rows
    BY DEF Unset, Rows
  <2>4. QED
    BY <1>4, <2>2, <2>3
<1>6. PICK id : id = UserId(kind, e, values)
  OBVIOUS
<1>7. id \in MoveId /\ id.kind = kind /\ id.values = values
  BY <1>2, <1>5, <1>6 DEF UserId, MoveId, Makers, Rows, Ent!Entity, IInv, MoveTyped
<1>8. PICK op : op = Ent!NewOperation(id, kind, e, values, 0)
  OBVIOUS
<1>9. Ent!Commits(e, op) /\ Commit(i, Ent!Merged(e, op))
  BY <1>1, <1>2, <1>4, <1>6, <1>8
<1>10. kind = "patch" => e.generation > 0
  <2>1. op.kind = kind /\ Ent!Accepts(e, op)
    BY <1>8, <1>9 DEF Ent!NewOperation, Ent!Accepts
  <2>2. QED
    BY <1>3, <2>1, PatchNeedsRecord DEF Living
<1>11. op \in Ops
  BY <1>2, <1>5, <1>7, <1>8, <1>10, NewOps
<1>12. PICK b \in Accounts, h \in {held'} :
        /\ account' = b /\ Grows(account, b, held, h) /\ AccountFits(b, h) /\ b.records = account.records
  BY <1>2, <1>9, <1>11, CommitGrows
<1>13. PICK m \in Device : m = mover[d]
  BY DeviceFits
<1>14. mover' = [mover EXCEPT ![d] = m]
  BY <1>1, <1>13 DEF IInv, MoveTyped
<1>15. Fits(d, m, b, h, Offered(d), Remotes(d), legacy.remote)
  <2>1. account \in Accounts
    BY DEF IInv, MoveTyped
  <2>2. QED
    BY <1>12, <1>13, <2>1, DeviceFits, FitsStay
<1>16. userEdits' \in 0..MaxUserEdits /\ mishaps' \in 0..MaxMishaps /\ legacy' = legacy /\ held' = h
  BY <1>1, <1>12, LegacyAssumption, CountersStay DEF IInv, MoveTyped
<1>17. \A f \in Movers : b.records[f] # {} => account.records[f] # {} \/ mover[f].phase = "recording"
  BY <1>12
<1>18. QED
  BY <1>12, <1>14, <1>15, <1>16, <1>17, DeviceMoves

----------------------------------------------------------------------------
LEMMA InitHolds == MoveInit => IInv
<1>1. SUFFICES ASSUME MoveInit PROVE IInv
  OBVIOUS
<1>2. PICK none : none = Ent!NoEntity
  OBVIOUS
<1>3. none \in Ent!Entity /\ ~Ent!Exists(none)
  BY <1>2 DEF Ent!NoEntity, Ent!Entity, Ent!Exists
<1>4. /\ account.entities = [i \in Items |-> none] /\ ~account.initialized
      /\ account.records = [d \in Movers |-> {}] /\ account.candidates = {}
      /\ account \in Accounts
  <2>1. account = [ entities |-> [i \in Items |-> none], initialized |-> FALSE,
                    records |-> [d \in Movers |-> {}], candidates |-> {} ]
    BY <1>1, <1>2 DEF MoveInit
  <2>2. QED
    BY <1>3, <2>1 DEF Accounts
<1>5. NotStarted \in Device /\ mover = [d \in Movers |-> NotStarted]
  BY <1>1, NoPlanType DEF MoveInit, NotStarted, Device, Phases
<1>6. MoveTyped
  BY <1>1, <1>4, <1>5, LegacyAssumption DEF MoveInit, MoveTyped
<1>7. AccountFits(account, held)
  <2>1. FieldsSigned(none) /\ \A i : LifeSigned(none, i, held)
    BY <1>2, NameAssumption DEF Ent!NoEntity, FieldsSigned, LifeSigned
  <2>2. QED
    BY <1>3, <1>4, <2>1 DEF AccountFits, HeldIs, Alive, Living
<1>8. ASSUME NEW d \in Movers
      PROVE  Fits(d, NotStarted, account, held, Offered(d), Remotes(d), legacy.remote)
  <2>1. PlanFits(NoPlan, account, legacy.remote)
    BY <1>3, <1>4 DEF PlanFits, NoPlan, Ent!Entity
  <2>2. ReplayFits(NotStarted, account, legacy.remote)
    BY <2>1 DEF ReplayFits, NotStarted
  <2>3. KeepFits(d, NotStarted, account, held, Offered(d), Remotes(d))
    BY <1>4 DEF KeepFits, NotStarted, NoPlan
  <2>4. QED
    BY <2>2, <2>3 DEF Fits
<1>9. QED
  BY <1>5, <1>6, <1>7, <1>8 DEF IInv, DevicesFit

LEMMA StepHolds == IInv /\ [MoveNext]_moveVars => IInv'
<1>1. SUFFICES ASSUME IInv, [MoveNext]_moveVars PROVE IInv'
  OBVIOUS
<1>2. CASE UNCHANGED moveVars
  <2>1. legacy' = legacy /\ account' = account /\ held' = held /\ mover' = mover
        /\ userEdits' = userEdits /\ mishaps' = mishaps
    BY <1>2 DEF moveVars
  <2>2. \A d \in Movers : Offered(d)' = Offered(d) /\ Remotes(d)' = Remotes(d)
    BY <2>1, LegacyStays
  <2>3. MoveTyped' /\ AccountFits(account, held)'
    BY <1>1, <2>1 DEF IInv, MoveTyped, AccountFits, HeldIs
  <2>4. \A d \in Movers : Fits(d, mover'[d], account', held', Offered(d)', Remotes(d)', legacy'.remote)
    BY <1>1, <2>1, <2>2 DEF IInv, DevicesFit
  <2>5. DevicesFit'
    BY <2>4 DEF DevicesFit, Fits, KeepFits, ReplayFits, PlanFits, QueuedFits, Based, Covers, AllKept, Orderless, Alive, Is
  <2>6. QED
    BY <2>3, <2>5 DEF IInv
<1>3. ASSUME NEW d \in Movers, MoveStep(d) PROVE IInv'
  <2>1. CASE MoveIsRetried(d)
    <3>1. /\ Forgotten(d) /\ legacy' = legacy /\ account' = account /\ held' = held
          /\ userEdits' \in 0..MaxUserEdits /\ mishaps' \in 0..MaxMishaps
      BY <1>1, <2>1, CountersStay DEF MoveIsRetried
    <3>2. QED
      BY <1>1, <3>1, ForgottenHolds
  <2>2. QED
    BY <1>1, <1>3, <2>1, StartsHolds, ReadsHolds, SeedsHolds, ReplaysHolds, SendsHolds, ChecksHolds,
       KeepsHolds, VerifiesHolds, RecordsHolds, InitializesHolds, CompletesHolds DEF MoveStep
<1>4. ASSUME NEW d \in Movers, MoveIsReloaded(d) PROVE IInv'
  <2>1. /\ Forgotten(d) /\ legacy' = legacy /\ account' = account /\ held' = held
        /\ userEdits' \in 0..MaxUserEdits /\ mishaps' \in 0..MaxMishaps
    BY <1>1, <1>4, CountersStay DEF MoveIsReloaded
  <2>2. QED
    BY <1>1, <2>1, ForgottenHolds
<1>5. QED
  BY <1>1, <1>2, <1>3, <1>4, SendIsLostHolds, ConflictIsAcceptedHolds, UserEditsHolds DEF MoveNext

LEMMA Invariance == MoveSpec => []IInv
  BY InitHolds, StepHolds, PTL DEF MoveSpec

----------------------------------------------------------------------------
LEMMA TypeFollows == IInv => MoveTypeOK
<1>1. SUFFICES ASSUME IInv PROVE MoveTypeOK
  OBVIOUS
<1>2. account.entities \in [Items -> Ent!Entity] /\ account.initialized \in BOOLEAN
  BY <1>1 DEF IInv, MoveTyped, Accounts
<1>3. ASSUME NEW d \in Movers
      PROVE  /\ mover[d].phase \in Phases
             /\ \A o \in ToSet(mover[d].queue) \cup mover[d].conflicts : Ent!WellFormed(o.op)
             /\ In(d, "off") => \A o \in ToSet(mover[d].queue) : ~o.tried
  <2>1. mover[d] \in Device
    BY <1>1, DeviceFits
  <2>2. mover[d].phase \in Phases /\ mover[d].conflicts \subseteq Sent
    BY <2>1 DEF Device
  <2>3. \A o \in ToSet(mover[d].queue) : o \in Sent
    BY <1>1, SentAre DEF ToSet
  <2>4. \A o \in Sent : Ent!WellFormed(o.op)
    BY OpsAre DEF Sent, WholeOps
  <2>5. In(d, "off") => \A o \in ToSet(mover[d].queue) : ~o.tried
    BY <1>1, DeviceFits DEF Fits, ReplayFits, In, ToSet
  <2>6. QED
    BY <2>2, <2>3, <2>4, <2>5
<1>4. QED
  BY <1>1, <1>2, <1>3 DEF MoveTypeOK, IInv, MoveTyped, Phases

LEMMA RowsFollow == IInv => RowsAreKept /\ CompletionHasEvidence
<1>1. SUFFICES ASSUME IInv PROVE RowsAreKept /\ CompletionHasEvidence
  OBVIOUS
<1>2. ASSUME NEW d \in Movers, mover[d].complete
      PROVE  /\ account.initialized /\ account.records[d] # {}
             /\ AllKept(mover[d], account, Offered(d), Remotes(d), held)
  BY <1>1, <1>2, DeviceFits DEF Fits, KeepFits
<1>3. \A d \in Movers : \A n : Orderless(n, Remotes(d), held) => OrderIsAllItLacks(d, n)
  BY DEF Orderless, Remotes, OrderIsAllItLacks
<1>4. RowsAreKept
  BY <1>2, <1>3 DEF RowsAreKept, AllKept
<1>5. CompletionHasEvidence
  BY <1>1, <1>2 DEF CompletionHasEvidence, IInv, AccountFits
<1>6. QED
  BY <1>4, <1>5

\* What a device offered is in the account, was, or is a candidate of it, once its migration is
\* recorded; whoever is complete has a record, in an account that is initialized.
\* (buildMigrationPlan, verifyMigration and ensureMigration.)
THEOREM NothingLost == MoveSpec => []NothingIsLost
<1>1. IInv => NothingIsLost
  BY TypeFollows, RowsFollow DEF NothingIsLost
<1>2. QED
  BY <1>1, Invariance, PTL

----------------------------------------------------------------------------
(* What a step takes from a row that is there. *)

LEMMA SameTakesNothing ==
  ASSUME NEW e, Alive(e)
  PROVE  Loses(e, e) = {}
  BY DEF Loses, Alive

\* An operation that reaches the account replaces what it was planned on, or nothing.
LEMMA SendTakes ==
  ASSUME IInv, NEW d \in Movers, NEW k \in DOMAIN mover[d].queue, NEW i \in Items,
         account'.entities = account.entities \/
         Commit(mover[d].queue[k].item,
                Ent!Merged(account.entities[mover[d].queue[k].item], mover[d].queue[k].op)),
         Alive(account.entities[i])
  PROVE  \/ \A p \in Loses(account.entities[i], account'.entities[i]) :
              legacy.remote[i] # NoRow /\ account.entities[i].values[p] = legacy.remote[i][p]
         \/ \E o \in ToSet(mover[d].queue) : o.item = i /\ o.planned # account.entities[i].revision
<1>1. PICK o \in Sent : o = mover[d].queue[k]
  BY SentAre
<1>2. o.op \in Ops /\ o.item \in Items /\ o \in ToSet(mover[d].queue)
  BY <1>1, SentAre DEF ToSet
<1>3. CASE account'.entities[i] = account.entities[i]
  BY <1>3, SameTakesNothing
<1>4. CASE account'.entities[i] # account.entities[i]
  <2>1. account'.entities = [account.entities EXCEPT ![o.item] = Ent!Merged(account.entities[o.item], o.op)]
    BY <1>1, <1>2, <1>4, CommitGrows
  <2>2. account.entities \in [Items -> Ent!Entity]
    BY DEF IInv, MoveTyped, Accounts
  <2>3. o.item = i /\ Ent!Merged(account.entities[i], o.op) # account.entities[i]
    BY <1>2, <1>4, <2>1, <2>2
  <2>4. o.op.kind # "add"
    BY <1>2, <2>3, AddTakesNothing
  <2>5. QueuedFits(o, account, legacy.remote)
    BY <1>1, DeviceFits DEF Fits, ReplayFits
  <2>6. CASE o.planned # account.entities[i].revision
    BY <1>2, <2>3, <2>6
  <2>7. CASE o.planned = account.entities[i].revision
    <3>1. Based(legacy.remote, account, i)
      BY <2>3, <2>4, <2>5, <2>7 DEF QueuedFits
    <3>2. legacy.remote[i] # NoRow /\ account.entities[i].values = legacy.remote[i]
      BY <3>1 DEF Based, Is
    <3>3. QED
      BY <3>2
  <2>8. QED
    BY <2>6, <2>7
<1>5. QED
  BY <1>3, <1>4

LEMMA StepTakes ==
  ASSUME IInv, [MoveNext]_moveVars, NEW i \in Items, Alive(account.entities[i]), userEdits' = userEdits
  PROVE  \/ \A p \in Loses(account.entities[i], account'.entities[i]) :
              legacy.remote[i] # NoRow /\ account.entities[i].values[p] = legacy.remote[i][p]
         \/ \E d \in Movers : \E o \in ToSet(mover[d].queue) :
              o.item = i /\ o.planned # account.entities[i].revision
<1>1. CASE account'.entities = account.entities
  BY <1>1, SameTakesNothing
<1>2. ASSUME NEW d \in Movers, MoveSends(d) \/ SendIsLost(d), account'.entities # account.entities
      PROVE  \E k \in DOMAIN mover[d].queue :
               Commit(mover[d].queue[k].item,
                      Ent!Merged(account.entities[mover[d].queue[k].item], mover[d].queue[k].op))
  BY <1>2 DEF MoveSends, SendIsLost, Sendable
<1>3. ASSUME NEW d \in Movers, MoveStep(d) \/ MoveIsReloaded(d) \/ ConflictIsAccepted(d), ~MoveSends(d)
      PROVE  account'.entities = account.entities
  <2>1. PICK a \in Accounts : a = account
    BY DEF IInv, MoveTyped
  <2>2. CASE MoveKeeps(d)
    <3>1. PICK c : account' = [a EXCEPT !.candidates = @ \cup {c}] \/ account' = a
      BY <2>1, <2>2 DEF MoveKeeps
    <3>2. QED
      BY <2>1, <3>1 DEF Accounts
  <2>3. CASE MoveRecords(d)
    <3>1. PICK f : account' = [a EXCEPT !.records = f] \/ account' = a
      <4>1. PICK r : r = IF a.records[d] = {} THEN {EvidenceOf(d, mover[d].plan)} ELSE a.records[d]
        OBVIOUS
      <4>2. PICK f : f = [a.records EXCEPT ![d] = r]
        OBVIOUS
      <4>3. account' = [a EXCEPT !.records = f] \/ account' = a
        BY <2>1, <2>3, <4>1, <4>2 DEF MoveRecords
      <4>4. QED
        BY <4>3
    <3>2. QED
      BY <2>1, <3>1 DEF Accounts
  <2>4. CASE MoveInitializes(d)
    <3>1. account' = [a EXCEPT !.initialized = TRUE] \/ account' = a
      BY <2>1, <2>4 DEF MoveInitializes
    <3>2. QED
      BY <2>1, <3>1 DEF Accounts
  <2>5. CASE MoveSeeds(d) \/ MoveReplays(d)
    BY <2>5 DEF MoveSeeds, MoveReplays, Enqueues
  <2>6. CASE MoveStarts(d) \/ MoveReads(d) \/ MoveChecks(d) \/ MoveVerifies(d) \/ MoveCompletes(d)
             \/ MoveIsRetried(d) \/ MoveIsReloaded(d) \/ ConflictIsAccepted(d)
    BY <2>6 DEF MoveStarts, MoveReads, MoveChecks, MoveVerifies, MoveCompletes, MoveIsRetried,
                MoveIsReloaded, ConflictIsAccepted
  <2>7. QED
    BY <1>3, <2>2, <2>3, <2>4, <2>5, <2>6 DEF MoveStep
<1>4. ASSUME NEW d \in Movers, UserEdits(d) PROVE FALSE
  BY <1>4 DEF UserEdits, IInv, MoveTyped
<1>5. CASE account'.entities # account.entities
  <2>1. PICK d \in Movers : MoveSends(d) \/ SendIsLost(d)
    BY <1>3, <1>4, <1>5 DEF MoveNext, moveVars, MoveStep
  <2>2. PICK k \in DOMAIN mover[d].queue :
          Commit(mover[d].queue[k].item,
                 Ent!Merged(account.entities[mover[d].queue[k].item], mover[d].queue[k].op))
    BY <1>2, <1>5, <2>1
  <2>3. QED
    BY <2>2, SendTakes
<1>6. QED
  BY <1>1, <1>5

\* A step of a migration takes from a row of the account nothing but what the legacy account
\* said, unless the row has changed since the replay was planned.  (buildMigrationPlan's replays,
\* replayMutation and dispatch.)
THEOREM NewerRowsStay == MoveSpec => NewerRowsStand
<1>1. IInv /\ [MoveNext]_moveVars =>
        \A i \in Items :
          LET e == account.entities[i] IN
            Alive(e) /\ userEdits' = userEdits =>
              \/ \A p \in Loses(e, account'.entities[i]) :
                   legacy.remote[i] # NoRow /\ e.values[p] = legacy.remote[i][p]
              \/ \E d \in Movers : \E o \in ToSet(mover[d].queue) :
                   o.item = i /\ o.planned # e.revision
  BY StepTakes
<1>2. QED
  BY <1>1, Invariance, PTL DEF MoveSpec, NewerRowsStand
----------------------------------------------------------------------------
(* What has been sent arrives. *)

\* A record that is alive and shows a row holds it.
LEMMA ShownIsHeld ==
  ASSUME NEW i \in Items, NEW e \in Ent!Entity, NEW row \in Row, NEW k,
         \A p \in Paths : e.values[p] = row[p], Entry(i, e.values) \in k
  PROVE  Entry(i, row) \in k
<1>1. e.values \in Rows /\ row \in Rows
  BY RowsAre DEF Ent!Entity, Rows
<1>2. e.values = row
  BY <1>1 DEF Rows
<1>3. QED
  BY <1>2

\* An operation that is taken has been held, or has deleted.
LEMMA TakenArrives ==
  ASSUME NEW i \in Items, NEW e \in Ent!Entity, NEW o \in WholeOps, NEW h, NEW k,
         FieldsSigned(e), LifeSigned(e, i, h), h \subseteq k, Taken(e, o), Living(e),
         Alive(e) => Entry(i, e.values) \in h,
         Alive(Ent!Merged(e, o)) => Entry(i, Ent!Merged(e, o).values) \in k
  PROVE  \/ o.kind = "delete" /\ Ent!Merged(e, o).deleted
         \/ o.kind # "delete" /\ Entry(i, o.values) \in k
<1>1. PICK n : n = Ent!Merged(e, o)
  OBVIOUS
<1>2. /\ o \in Ops /\ o.id \in MoveId /\ o.id.kind = o.kind /\ o.id.values = o.values
      /\ o.kind # "delete" => o.values \in Row
  BY DEF WholeOps, Ops, Ent!Operation
<1>3. Ent!MergeStatus(e, o) = "applied" \/ Ent!MergeStatus(e, o) = "idempotent"
  BY DEF Taken
<1>4. CASE o.kind = "add"
  <2>1. CASE Ent!MergeStatus(e, o) = "applied"
    <3>1. n = Ent!CreateRecord(e, o)
      BY <1>1, <1>4, <2>1 DEF Ent!Merged, Ent!Commits
    <3>2. n.values = o.values /\ ~n.deleted /\ n.revision = e.revision + 1
      BY <3>1 DEF Ent!CreateRecord
    <3>3. Alive(n)
      BY <3>2 DEF Alive, Ent!Exists, Ent!Entity
    <3>4. QED
      BY <1>1, <1>4, <3>2, <3>3
  <2>2. CASE Ent!MergeStatus(e, o) = "idempotent"
    <3>1. e.lifecycle = o.id
      BY <1>4, <2>2 DEF Ent!MergeStatus, Ent!SameLifecycle
    <3>2. Entry(i, o.values) \in h
      BY <1>2, <1>4, <3>1 DEF LifeSigned
    <3>3. QED
      BY <1>4, <3>2
  <2>3. QED
    BY <1>3, <2>1, <2>2
<1>5. CASE o.kind = "delete"
  <2>1. CASE Ent!MergeStatus(e, o) = "applied"
    <3>1. n = Ent!Tombstone(e, o)
      BY <1>1, <1>5, <2>1 DEF Ent!Merged, Ent!Commits
    <3>2. QED
      BY <1>1, <1>5, <3>1 DEF Ent!Tombstone
  <2>2. CASE Ent!MergeStatus(e, o) = "idempotent"
    <3>1. n = e
      BY <1>1, <2>2 DEF Ent!Merged, Ent!Commits
    <3>2. e.lifecycle = o.id
      BY <1>5, <2>2 DEF Ent!MergeStatus, Ent!SameLifecycle
    <3>3. QED
      BY <1>1, <1>2, <1>5, <3>1, <3>2 DEF LifeSigned
  <2>3. QED
    BY <1>3, <2>1, <2>2
<1>6. CASE o.kind = "patch"
  <2>1. o.values \in Row /\ \A p \in Paths : p \in o.fields
    <3>1. o.values \in Row
      BY <1>2, <1>6
    <3>2. \A p \in Paths : o.values[p] # NoRow
      BY <3>1, LegacyAssumption DEF Row, Paths
    <3>3. Ent!WellFormed(o)
      BY <1>2, OpsAre
    <3>4. QED
      BY <3>1, <3>2, <3>3 DEF Ent!WellFormed
  <2>2. /\ Ent!Exists(e) /\ ~e.deleted
        /\ \A p \in Paths : p \in Ent!AppliedFields(e, o) \/ Ent!Settled(e, o, p)
        /\ Ent!MergeStatus(e, o) = "idempotent" => Ent!AppliedFields(e, o) = {}
    <3>1. Ent!Exists(e) /\ Ent!CanPatch(e, o) /\ Ent!LostFields(e, o) = {}
          /\ (Ent!MergeStatus(e, o) = "idempotent" => Ent!AppliedFields(e, o) = {})
      BY <1>3, <1>6 DEF Ent!MergeStatus
    <3>2. QED
      BY <2>1, <3>1 DEF Ent!CanPatch, Ent!LostFields, Ent!AppliedFields
  <2>3. \A p \in Paths : Ent!Settled(e, o, p) => e.values[p] = o.values[p]
    BY <1>2 DEF Ent!Settled, FieldsSigned
  <2>4. CASE Ent!MergeStatus(e, o) = "applied"
    <3>1. n = Ent!PatchedRecord(e, o)
      BY <1>1, <1>6, <2>4 DEF Ent!Merged, Ent!Commits
    <3>2. /\ ~n.deleted /\ n.revision = e.revision + 1
          /\ \A p \in Paths : n.values[p] = IF p \in Ent!AppliedFields(e, o) THEN o.values[p] ELSE e.values[p]
      BY <2>2, <3>1 DEF Ent!PatchedRecord
    <3>3. \A p \in Paths : n.values[p] = o.values[p]
      BY <2>2, <2>3, <3>2
    <3>4. Alive(n)
      BY <3>2 DEF Alive, Ent!Exists, Ent!Entity
    <3>5. n \in Ent!Entity
      BY <1>1, <1>2, MergeType
    <3>6. Entry(i, n.values) \in k
      BY <1>1, <3>4
    <3>7. Entry(i, o.values) \in k
      BY <2>1, <3>3, <3>5, <3>6, ShownIsHeld
    <3>8. QED
      BY <1>6, <3>7
  <2>5. CASE Ent!MergeStatus(e, o) = "idempotent"
    <3>1. \A p \in Paths : e.values[p] = o.values[p]
      BY <2>2, <2>3, <2>5
    <3>2. Entry(i, e.values) \in k
      BY <2>2 DEF Alive
    <3>3. Entry(i, o.values) \in k
      BY <2>1, <3>1, <3>2, ShownIsHeld
    <3>4. QED
      BY <1>6, <3>3
  <2>6. QED
    BY <1>3, <2>4, <2>5
<1>7. QED
  BY <1>2, <1>4, <1>5, <1>6, OpsAre

\* What the answer takes from a queue.
LEMMA RemovedLoses ==
  ASSUME NEW S, NEW q \in Seq(S), NEW k \in DOMAIN q, NEW l \in DOMAIN q, l # k
  PROVE  \E j \in DOMAIN RemoveAt(q, k) : RemoveAt(q, k)[j] = q[l]
<1>1. k \in 1..Len(q) /\ l \in 1..Len(q) /\ Len(q) \in Nat
  OBVIOUS
<1>2. CASE l < k
  <2>1. l \in 1..(Len(q) - 1)
    BY <1>1, <1>2
  <2>2. RemoveAt(q, k)[l] = q[l]
    BY <1>2, <2>1, RemovedIs
  <2>3. QED
    BY <2>1, <2>2, RemovedIs
<1>3. CASE l > k
  <2>1. PICK j \in 1..(Len(q) - 1) : j = l - 1 /\ ~(j < k) /\ j + 1 = l
    BY <1>1, <1>3
  <2>2. RemoveAt(q, k)[j] = q[j + 1]
    BY <2>1, RemovedIs
  <2>3. QED
    BY <2>1, <2>2, RemovedIs
<1>4. l < k \/ l > k
  BY <1>1
<1>5. QED
  BY <1>2, <1>3, <1>4

SendSettles(d, o) ==
  \/ o.op.kind = "delete" /\ account'.entities[o.item].deleted
  \/ o.op.kind # "delete" /\ Entry(o.item, o.op.values) \in held'
  \/ o \in mover'[d].conflicts

LEMMA SendArrives ==
  ASSUME IInv, NEW d \in Movers, MoveSends(d), NEW l \in DOMAIN mover[d].queue,
         \A j \in DOMAIN mover'[d].queue : mover'[d].queue[j].op # mover[d].queue[l].op
  PROVE  SendSettles(d, mover[d].queue[l])
<1>1. PICK k \in DOMAIN mover[d].queue :
        /\ Commit(mover[d].queue[k].item,
                  Ent!Merged(account.entities[mover[d].queue[k].item], mover[d].queue[k].op))
        /\ mover' = [mover EXCEPT ![d].queue = RemoveAt(@, k),
                       ![d].conflicts = IF Taken(account.entities[mover[d].queue[k].item], mover[d].queue[k].op)
                                        THEN @ ELSE @ \cup {mover[d].queue[k]}]
  BY DEF MoveSends, Sendable
<1>2. PICK q \in Seq(Sent) : q = mover[d].queue
  BY DeviceFits DEF Device
<1>3. PICK o \in Sent : o = q[k]
  BY <1>2, SentAre
<1>4. PICK r : r = RemoveAt(q, k)
  OBVIOUS
<1>5. PICK C : C = IF Taken(account.entities[o.item], o.op) THEN mover[d].conflicts
                   ELSE mover[d].conflicts \cup {o}
  OBVIOUS
<1>6. PICK m : m = [mover[d] EXCEPT !.queue = r, !.conflicts = C]
  OBVIOUS
<1>7. m.queue = r /\ m.conflicts = C
  BY <1>6, DeviceFits DEF Device
<1>8. mover' = [mover EXCEPT ![d] = m]
  BY <1>1, <1>2, <1>3, <1>4, <1>5, <1>6
<1>9. mover'[d] = m
  BY <1>8 DEF IInv, MoveTyped
<1>10. l = k
  <2>1. \A j \in DOMAIN r : r[j].op # q[l].op
    BY <1>2, <1>7, <1>9
  <2>2. QED
    BY <1>2, <1>4, <2>1, RemovedLoses
<1>11. o.item \in Items /\ o.op \in WholeOps /\ o.op \in Ops
  BY DEF Sent, WholeOps
<1>12. CASE ~Taken(account.entities[o.item], o.op)
  <2>1. o \in m.conflicts
    BY <1>5, <1>7, <1>12
  <2>2. QED
    BY <1>2, <1>3, <1>9, <1>10, <2>1 DEF SendSettles
<1>13. CASE Taken(account.entities[o.item], o.op)
  <2>1. PICK e \in Ent!Entity : e = account.entities[o.item]
    BY <1>11 DEF IInv, MoveTyped, Accounts
  <2>2. /\ FieldsSigned(e) /\ LifeSigned(e, o.item, held) /\ Living(e)
        /\ Alive(e) => Entry(o.item, e.values) \in held
    BY <1>11, <2>1 DEF IInv, AccountFits, HeldIs
  <2>3. Commit(o.item, Ent!Merged(account.entities[o.item], o.op))
    BY <1>1, <1>2, <1>3
  <2>4. PICK n : n = Ent!Merged(e, o.op)
    OBVIOUS
  <2>5. PICK h : h = held'
    OBVIOUS
  <2>6. account'.entities = [account.entities EXCEPT ![o.item] = n] /\ held \subseteq h
    BY <1>11, <2>1, <2>3, <2>4, <2>5, CommitGrows DEF Grows
  <2>7. account'.entities[o.item] = n
    BY <1>11, <2>6 DEF IInv, MoveTyped, Accounts
  <2>8. Alive(n) => Entry(o.item, n.values) \in h
    BY <2>1, <2>3, <2>4, <2>5 DEF Commit
  <2>9. \/ o.op.kind = "delete" /\ n.deleted
        \/ o.op.kind # "delete" /\ Entry(o.item, o.op.values) \in h
    BY <1>11, <1>13, <2>1, <2>2, <2>4, <2>6, <2>8, TakenArrives
  <2>10. QED
    BY <1>2, <1>3, <1>10, <2>5, <2>7, <2>9 DEF SendSettles
<1>14. QED
  BY <1>12, <1>13

\* A step that leaves the operations of a queue.
QueueKeeps(d) ==
  \A l \in DOMAIN mover[d].queue :
    \E j \in DOMAIN mover'[d].queue : mover'[d].queue[j].op = mover[d].queue[l].op

LEMMA QueueKept ==
  ASSUME IInv, NEW c \in Movers, NEW d \in Movers,
         MoveStep(c) \/ SendIsLost(c) \/ MoveIsReloaded(c) \/ ConflictIsAccepted(c) \/ UserEdits(c),
         ~MoveSends(c)
  PROVE  QueueKeeps(d)
<1>1. mover \in [Movers -> Device]
  BY DEF IInv, MoveTyped
<1>2. PICK q \in Seq(Sent) : q = mover[c].queue
  BY DeviceFits DEF Device
<1>3. ASSUME NEW m, mover' = [mover EXCEPT ![c] = m],
             \A l \in DOMAIN q : \E j \in DOMAIN m.queue : m.queue[j].op = q[l].op
      PROVE  QueueKeeps(d)
  <2>1. CASE d = c
    BY <1>1, <1>2, <1>3, <2>1 DEF QueueKeeps
  <2>2. CASE d # c
    BY <1>1, <1>3, <2>2 DEF QueueKeeps
  <2>3. QED
    BY <2>1, <2>2
<1>4. ASSUME NEW m, mover' = [mover EXCEPT ![c] = m], m.queue = q
      PROVE  QueueKeeps(d)
  BY <1>3, <1>4
<1>5. CASE mover' = mover
  BY <1>5 DEF QueueKeeps
<1>6. ASSUME NEW f, MovesOn(c, f) PROVE QueueKeeps(d)
  <2>1. PICK m : m = [mover[c] EXCEPT !.phase = f]
    OBVIOUS
  <2>2. mover' = [mover EXCEPT ![c] = m]
    BY <1>6, <2>1 DEF MovesOn
  <2>3. m.queue = q
    BY <1>1, <1>2, <2>1 DEF Device
  <2>4. QED
    BY <1>4, <2>2, <2>3
<1>7. ASSUME Forgotten(c) PROVE QueueKeeps(d)
  <2>1. PICK r : r = [k \in DOMAIN q |-> [q[k] EXCEPT !.tried = FALSE]]
    OBVIOUS
  <2>2. ASSUME NEW k \in DOMAIN q PROVE k \in DOMAIN r /\ r[k].op = q[k].op
    <3>1. PICK o \in Sent : o = q[k]
      BY <1>2
    <3>2. r[k] = [o EXCEPT !.tried = FALSE] /\ k \in DOMAIN r
      BY <2>1, <3>1
    <3>3. QED
      BY <3>1, <3>2 DEF Sent
  <2>3. PICK m : m = [mover[c] EXCEPT !.phase = "off", !.plan = NoPlan, !.queue = r]
    OBVIOUS
  <2>4. mover' = [mover EXCEPT ![c] = m]
    BY <1>2, <1>7, <2>1, <2>3 DEF Forgotten
  <2>5. m.queue = r
    BY <1>1, <2>3 DEF Device
  <2>6. QED
    BY <1>3, <2>2, <2>4, <2>5
<1>8. CASE MoveSeeds(c) \/ MoveReplays(c)
  <2>1. PICK o, p : \/ mover' = [mover EXCEPT ![c].plan = p, ![c].queue = Append(@, o)]
                    \/ mover' = [mover EXCEPT ![c].phase = "blocked"]
    BY <1>8 DEF MoveSeeds, MoveReplays, Enqueues
  <2>2. CASE mover' = [mover EXCEPT ![c].phase = "blocked"]
    BY <1>6, <2>2 DEF MovesOn
  <2>3. CASE mover' = [mover EXCEPT ![c].plan = p, ![c].queue = Append(@, o)]
    <3>1. PICK r : r = Append(q, o)
      OBVIOUS
    <3>2. \A l \in DOMAIN q : l \in DOMAIN r /\ r[l] = q[l]
      BY <1>2, <3>1
    <3>3. PICK m : m = [mover[c] EXCEPT !.plan = p, !.queue = r]
      OBVIOUS
    <3>4. mover' = [mover EXCEPT ![c] = m]
      BY <1>2, <2>3, <3>1, <3>3
    <3>5. m.queue = r
      BY <1>1, <3>3 DEF Device
    <3>6. QED
      BY <1>3, <3>2, <3>4, <3>5
  <2>4. QED
    BY <2>1, <2>2, <2>3
<1>9. CASE SendIsLost(c)
  <2>1. PICK k \in DOMAIN q : mover' = [mover EXCEPT ![c].queue[k].tried = TRUE]
    BY <1>2, <1>9 DEF SendIsLost, Sendable
  <2>2. PICK o \in Sent : o = q[k]
    BY <1>2
  <2>3. PICK x : x = [o EXCEPT !.tried = TRUE]
    OBVIOUS
  <2>4. x.op = o.op
    BY <2>3 DEF Sent
  <2>5. PICK r : r = [q EXCEPT ![k] = x]
    OBVIOUS
  <2>6. \A l \in DOMAIN q : l \in DOMAIN r /\ r[l].op = q[l].op
    BY <1>2, <2>2, <2>4, <2>5
  <2>7. PICK m : m = [mover[c] EXCEPT !.queue = r]
    OBVIOUS
  <2>8. mover' = [mover EXCEPT ![c] = m]
    BY <1>2, <2>1, <2>2, <2>3, <2>5, <2>7
  <2>9. m.queue = r
    BY <1>1, <2>7 DEF Device
  <2>10. QED
    BY <1>3, <2>6, <2>8, <2>9
<1>10. CASE MoveReads(c)
  <2>1. PICK p, f : MovesOn(c, f) \/ mover' = [mover EXCEPT ![c].plan = p, ![c].phase = f]
    BY <1>10 DEF MoveReads
  <2>2. PICK m : m = [mover[c] EXCEPT !.plan = p, !.phase = f]
    OBVIOUS
  <2>3. m.queue = q
    BY <1>1, <1>2, <2>2 DEF Device
  <2>4. mover' = [mover EXCEPT ![c].plan = p, ![c].phase = f] => mover' = [mover EXCEPT ![c] = m]
    BY <2>2
  <2>5. QED
    BY <1>4, <1>6, <2>1, <2>3, <2>4
<1>11. CASE MoveKeeps(c)
  <2>1. PICK x : \/ mover' = [mover EXCEPT ![c].kept = @ \cup {x}]
                 \/ mover' = [mover EXCEPT ![c].kept = @ \cup {x}, ![c].phase = "blocked"]
    BY <1>11 DEF MoveKeeps
  <2>2. PICK m : m = [mover[c] EXCEPT !.kept = @ \cup {x}]
    OBVIOUS
  <2>3. PICK n : n = [mover[c] EXCEPT !.kept = @ \cup {x}, !.phase = "blocked"]
    OBVIOUS
  <2>4. m.queue = q /\ n.queue = q
    BY <1>1, <1>2, <2>2, <2>3 DEF Device
  <2>5. mover' = [mover EXCEPT ![c] = m] \/ mover' = [mover EXCEPT ![c] = n]
    BY <2>1, <2>2, <2>3
  <2>6. QED
    BY <1>4, <2>4, <2>5
<1>12. CASE MoveCompletes(c)
  <2>1. PICK m : m = [mover[c] EXCEPT !.complete = TRUE, !.phase = "ready"]
    OBVIOUS
  <2>2. mover' = [mover EXCEPT ![c] = m]
    BY <1>12, <2>1 DEF MoveCompletes
  <2>3. m.queue = q
    BY <1>1, <1>2, <2>1 DEF Device
  <2>4. QED
    BY <1>4, <2>2, <2>3
<1>13. CASE ConflictIsAccepted(c)
  <2>1. PICK o : mover' = [mover EXCEPT ![c].conflicts = @ \ {o}]
    BY <1>13 DEF ConflictIsAccepted
  <2>2. PICK m : m = [mover[c] EXCEPT !.conflicts = @ \ {o}]
    OBVIOUS
  <2>3. mover' = [mover EXCEPT ![c] = m]
    BY <2>1, <2>2
  <2>4. m.queue = q
    BY <1>1, <1>2, <2>2 DEF Device
  <2>5. QED
    BY <1>4, <2>3, <2>4
<1>14. CASE MoveStarts(c) \/ MoveChecks(c) \/ MoveVerifies(c) \/ MoveRecords(c) \/ MoveInitializes(c)
  BY <1>6, <1>14 DEF MoveStarts, MoveChecks, MoveVerifies, MoveRecords, MoveInitializes, GoesWrong
<1>15. CASE MoveIsRetried(c) \/ MoveIsReloaded(c)
  BY <1>7, <1>15 DEF MoveIsRetried, MoveIsReloaded
<1>16. CASE UserEdits(c)
  BY <1>5, <1>16 DEF UserEdits
<1>17. QED
  BY <1>8, <1>9, <1>10, <1>11, <1>12, <1>13, <1>14, <1>15, <1>16 DEF MoveStep

LEMMA StepArrives ==
  ASSUME IInv, [MoveNext]_moveVars, NEW d \in Movers, NEW o \in ToSet(mover[d].queue),
         ~(\E n \in ToSet(mover'[d].queue) : n.op = o.op)
  PROVE  SendSettles(d, o)
<1>1. PICK l \in DOMAIN mover[d].queue : o = mover[d].queue[l]
  BY DEF ToSet
<1>2. \A j \in DOMAIN mover'[d].queue : mover'[d].queue[j].op # o.op
  BY DEF ToSet
<1>3. ~QueueKeeps(d)
  BY <1>1, <1>2 DEF QueueKeeps
<1>4. ~UNCHANGED moveVars
  BY <1>3 DEF QueueKeeps, moveVars
<1>5. PICK c \in Movers : MoveStep(c) \/ SendIsLost(c) \/ MoveIsReloaded(c) \/ ConflictIsAccepted(c) \/ UserEdits(c)
  BY <1>4 DEF MoveNext
<1>6. MoveSends(c)
  BY <1>3, <1>5, QueueKept
<1>7. c = d
  <2>1. CASE c # d
    <3>1. mover'[d] = mover[d]
      BY <1>6, <2>1 DEF MoveSends, IInv, MoveTyped
    <3>2. QED
      BY <1>3, <3>1 DEF QueueKeeps
  <2>2. QED
    BY <2>1
<1>8. QED
  BY <1>1, <1>2, <1>6, <1>7, SendArrives

\* An operation that a migration has sent leaves the device's queue only when the account has had
\* all of its row, or has deleted the record, or as a conflict for the user; a part that was
\* applied is not enough.  (mergeOperation, dispatch, markConflict.)
THEOREM SentRowsStay == MoveSpec => SentRowsArrive
<1>1. IInv /\ [MoveNext]_moveVars =>
        \A d \in Movers : \A o \in ToSet(mover[d].queue) :
          ~(\E n \in ToSet(mover'[d].queue) : n.op = o.op) =>
            \/ o.op.kind = "delete" /\ account'.entities[o.item].deleted
            \/ o.op.kind # "delete" /\ Entry(o.item, o.op.values) \in held'
            \/ o \in mover'[d].conflicts
  BY StepArrives DEF SendSettles
<1>2. QED
  BY <1>1, Invariance, PTL DEF MoveSpec, SentRowsArrive
=============================================================================
