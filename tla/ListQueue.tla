----------------------------- MODULE ListQueue -----------------------------
(***************************************************************************)
(* The owner's list while the account is not canonical: edits are taken in *)
(* turn, put in a queue that a session keeps in storage, and sent by       *)
(* flushes (writeList, queueMyListUpdate, queueSync and flushSyncQueue of  *)
(* js/app/application.js; js/data/sessionCacheBoundary.js).                *)
(*                                                                         *)
(* One page of one device.  Its queue holds at most two kinds of entry,    *)
(* "list", the patch of the changed rows, and "seen", a field of the       *)
(* profile.  A flush takes the entries there are and sends them one after  *)
(* the other; while it waits the user edits, a second flush starts, the    *)
(* session is lost or handed to another user, the page is reloaded, or     *)
(* another device writes the same row.                                     *)
(***************************************************************************)
EXTENDS Naturals, Sequences, FiniteSets, TLC

CONSTANTS
  Rows,              \* names of list rows
  Qualifiers,        \* the fields encoded in a row
  Owner, Guest,      \* two users of the device
  NoUser, Absent,
  MaxFlushes,        \* bound of the flushes that run at once: nothing in the code keeps them apart
  MaxListEvents      \* bound of the edits on this device, the writes of the other one and what
                     \* interrupts: session ends, reloads, failed and rejected writes

ASSUME ListAssumption ==
  /\ NoUser \notin {Owner, Guest} /\ Owner # Guest /\ Absent \notin [Qualifiers -> BOOLEAN]
  /\ {MaxFlushes, MaxListEvents} \subseteq Nat

Users == {Owner, Guest}
Loops == 1..MaxFlushes
RowValues == {Absent} \union [Qualifiers -> BOOLEAN]
Lists == [Rows -> RowValues]
EmptyList == [n \in Rows |-> Absent]

VARIABLES
  listServer,        \* the owner's list in the database
  session,           \* the active owner of the session cache, and the signed-in user
  hydrated,          \* the list has been delivered since the session began
  stored,            \* storage: [owner, list, queue]
  listQueue,         \* syncQueue: a sequence of [key, data]
  edits,             \* the calls of writeList that wait for their turn
  flushes,           \* of each flush: its entries, the first being written
  wire,              \* writes of the flushes and their answers, in order
  promised,          \* of a row: the last accepted edit and whether it reached the database
  edited,            \* rows this user edited
  listCounts         \* edits, writes of the other device, interruptions

pageVars == <<session, hydrated, stored, listQueue>>
flushVars == <<flushes, wire>>
ghostVars == <<promised, edited>>
listVars == <<listServer, pageVars, edits, flushVars, ghostVars, listCounts>>

ListInit ==
  /\ listServer = [n \in Rows |-> [q \in Qualifiers |-> FALSE]]
  /\ session = NoUser /\ hydrated = FALSE
  /\ stored = [owner |-> NoUser, list |-> EmptyList, queue |-> <<>>]
  /\ listQueue = <<>>
  /\ edits = <<>>
  /\ flushes = [l \in Loops |-> <<>>]
  /\ wire = <<>>
  /\ promised = <<>> /\ edited = {}
  /\ listCounts = [edits |-> 0, others |-> 0, breaks |-> 0]

----------------------------------------------------------------------------
(* The queue: an object whose keys keep their place when they are set again *)

Holds(queue, key) == \E i \in DOMAIN queue : queue[i].key = key

Place(queue, key) == CHOOSE i \in DOMAIN queue : queue[i].key = key

Entry(queue, key) == queue[Place(queue, key)].data

Put(queue, key, data) ==
  IF Holds(queue, key)
  THEN [i \in DOMAIN queue |-> IF queue[i].key = key THEN [key |-> key, data |-> data] ELSE queue[i]]
  ELSE Append(queue, [key |-> key, data |-> data])

Without(queue, key) ==
  IF Holds(queue, key)
  THEN [i \in 1..(Len(queue) - 1) |-> queue[IF i < Place(queue, key) THEN i ELSE i + 1]]
  ELSE queue

\* The rows of an edit, each with the number of the edit that set it.
Patch(queue) == IF Holds(queue, "list") THEN Entry(queue, "list") ELSE <<>>

Over(patch, older) ==
  [n \in DOMAIN patch \union DOMAIN older |-> IF n \in DOMAIN patch THEN patch[n] ELSE older[n]]

Overlay(list, patch) == [n \in Rows |-> IF n \in DOMAIN patch THEN patch[n].row ELSE list[n]]

Changed(before, after) == {n \in Rows : before[n] # after[n]}

\* A row of the requested list that differs from what the call was based on is taken;
\* of a row that both have, only the qualifiers that differ.
Rebase(base, current, wanted) ==
  [n \in Rows |->
     IF n \notin Changed(base, wanted) THEN current[n]
     ELSE IF Absent \in {wanted[n], base[n], current[n]} THEN wanted[n]
     ELSE [q \in Qualifiers |-> IF base[n][q] # wanted[n][q] THEN wanted[n][q] ELSE current[n][q]]]

\* The objects that these flushes took are no longer those of the queue.
Outdated(fs, keys) ==
  [l \in Loops |-> [i \in DOMAIN fs[l] |->
     IF fs[l][i].key \in keys THEN [fs[l][i] EXCEPT !.current = FALSE] ELSE fs[l][i]]]

Keys == {"list", "seen"}

\* saveSyncQueue: without an active session nothing is saved and the queue in memory is emptied.
SaveQueue(queue) ==
  IF session = NoUser THEN listQueue' = <<>> /\ UNCHANGED stored
  ELSE listQueue' = queue /\ stored' = [stored EXCEPT !.queue = queue]

----------------------------------------------------------------------------
(* Sessions *)

\* Only what the same owner left is restored; what another left is discarded.
Restorable(u) == stored.owner \in {NoUser, u}

ActivateSession(u) ==
  /\ session = NoUser
  /\ session' = u /\ hydrated' = FALSE
  /\ IF Restorable(u)
     THEN /\ stored' = [stored EXCEPT !.owner = u]
          /\ UNCHANGED promised
     ELSE /\ stored' = [owner |-> u, list |-> EmptyList, queue |-> <<>>]
          /\ promised' = <<>>
  /\ listQueue' = stored'.queue
  /\ flushes' = Outdated(flushes, Keys)
  /\ UNCHANGED <<listServer, edits, wire, edited, listCounts>>

MoreEvents == listCounts.edits + listCounts.others + listCounts.breaks < MaxListEvents

Breaks ==
  /\ MoreEvents
  /\ listCounts' = [listCounts EXCEPT !.breaks = @ + 1]

SuspendSession ==
  /\ session # NoUser /\ Breaks
  /\ session' = NoUser /\ hydrated' = FALSE
  /\ listQueue' = <<>>
  /\ flushes' = Outdated(flushes, Keys)
  /\ UNCHANGED <<listServer, stored, edits, wire, ghostVars>>

Logout ==
  /\ session # NoUser /\ Breaks
  /\ session' = NoUser /\ hydrated' = FALSE
  /\ stored' = [owner |-> NoUser, list |-> EmptyList, queue |-> <<>>]
  /\ listQueue' = <<>>
  /\ promised' = <<>>
  /\ flushes' = Outdated(flushes, Keys)
  /\ UNCHANGED <<listServer, edits, wire, edited>>

\* The page is closed or reloaded: what it had sent may be lost with it.
Reload ==
  /\ Breaks
  /\ session' = NoUser /\ hydrated' = FALSE
  /\ listQueue' = <<>> /\ edits' = <<>> /\ wire' = <<>>
  /\ flushes' = [l \in Loops |-> <<>>]
  /\ UNCHANGED <<listServer, stored, ghostVars>>

\* The database delivers the list; the edits that are still queued stay on top of it.
Shown(list) == Overlay(list, Patch(listQueue))

Snapshot ==
  /\ session = Owner
  /\ hydrated' = TRUE
  /\ stored' = [stored EXCEPT !.list = Shown(listServer)]
  /\ UNCHANGED <<listServer, session, listQueue, edits, flushVars, ghostVars, listCounts>>

----------------------------------------------------------------------------
(* Edits *)

\* What the editor does to one row: remove it, add it, or set one of its qualifiers.
Wishes(row) ==
  IF row = Absent THEN {[q \in Qualifiers |-> FALSE]}
  ELSE {Absent} \union {[row EXCEPT ![q] = ~row[q]] : q \in Qualifiers}

WriteList(n) ==
  /\ session = Owner /\ hydrated /\ MoreEvents
  /\ \E v \in Wishes(stored.list[n]) :
       edits' = Append(edits, [base |-> stored.list, wanted |-> [stored.list EXCEPT ![n] = v]])
  /\ edited' = edited \union {n}
  /\ listCounts' = [listCounts EXCEPT !.edits = @ + 1]
  /\ UNCHANGED <<listServer, pageVars, flushVars, promised>>

\* The call's turn: the session changed, the authority is blocked or the list is not there yet.
RefuseEdit ==
  /\ edits # <<>>
  /\ edits' = Tail(edits)
  /\ UNCHANGED <<listServer, pageVars, flushVars, ghostVars, listCounts>>

\* The number of the edit whose turn it is.
EditNumber == listCounts.edits - Len(edits)

AcceptEdit ==
  /\ edits # <<>> /\ session = Owner /\ hydrated
  /\ LET list  == Rebase(Head(edits).base, stored.list, Head(edits).wanted)
         rows  == Changed(stored.list, list)
         patch == [n \in rows |-> [row |-> list[n], edit |-> EditNumber]]
         next  == IF rows = {} THEN listQueue
                  ELSE Put(listQueue, "list", Over(patch, Patch(listQueue)))
     IN /\ listQueue' = Put(next, "seen", <<>>)
        /\ stored' = [stored EXCEPT !.list = list, !.queue = listQueue']
        /\ flushes' = Outdated(flushes, {"seen"} \union IF rows = {} THEN {} ELSE {"list"})
        /\ promised' = Over([n \in rows |-> [row |-> list[n], edit |-> EditNumber, delivered |-> FALSE]],
                            promised)
  /\ edits' = Tail(edits)
  /\ UNCHANGED <<listServer, session, hydrated, wire, edited, listCounts>>

----------------------------------------------------------------------------
(* Flushes *)

Item(l) == Head(flushes[l])

\* queueEntryClassification: a list is its owner's only, a field may be anyone's.
Classified(key) == session # NoUser /\ (key = "list" => session = Owner)

\* The entries from the first one that may be sent; those before it are left out.
Sendable(entries) ==
  LET first == {i \in DOMAIN entries : Classified(entries[i].key)}
  IN IF first = {} THEN <<>>
     ELSE SubSeq(entries, CHOOSE i \in first : \A j \in first : i <= j, Len(entries))

Taken(queue) ==
  [i \in DOMAIN queue |-> [key |-> queue[i].key, data |-> queue[i].data, current |-> TRUE]]

\* A flush goes on with these entries, in one step up to its next write; each is sent as
\* it was when the flush began.
Proceed(l, fs, entries, sent) ==
  LET rest == Sendable(entries)
  IN /\ flushes' = [fs EXCEPT ![l] = rest]
     /\ wire' = IF rest = <<>> THEN sent
                ELSE Append(sent, [ loop |-> l, key |-> Head(rest).key, data |-> Head(rest).data,
                                    as |-> session, answer |-> "none" ])

FlushStart(l) ==
  /\ session # NoUser /\ listQueue # <<>>
  /\ flushes[l] = <<>> /\ \A k \in 1..(l - 1) : flushes[k] # <<>>
  /\ Proceed(l, flushes, Taken(listQueue), wire)
  /\ UNCHANGED <<listServer, pageVars, edits, ghostVars, listCounts>>

\* Mutant: a flush removes whatever the queue holds under its key
SettleByKey(l) ==
  LET key == Item(l).key
  IN /\ SaveQueue(Without(listQueue, key))
     /\ Proceed(l, Outdated(flushes, {key}), Tail(Outdated(flushes, {key})[l]), Tail(wire))

\* The entry leaves the queue if it is the one this flush took.
Settle(l) ==
  LET key == Item(l).key
  IN IF Item(l).current
     THEN /\ SaveQueue(Without(listQueue, key))
          /\ Proceed(l, Outdated(flushes, {key}), Tail(Outdated(flushes, {key})[l]), Tail(wire))
     ELSE /\ SaveQueue(listQueue)
          /\ Proceed(l, flushes, Tail(flushes[l]), Tail(wire))

\* The database takes the writes in their order.
Waits(i) == wire[i].answer = "none" /\ \A j \in 1..(i - 1) : wire[j].answer # "none"

Accepted(write) ==
  /\ session = Owner
  /\ listServer' = IF write.key = "list" THEN Overlay(listServer, write.data) ELSE listServer
  /\ promised' = [n \in DOMAIN promised |->
                    IF n \in DOMAIN write.data /\ write.data[n].edit = promised[n].edit
                    THEN [promised[n] EXCEPT !.delivered = TRUE] ELSE promised[n]]
  /\ UNCHANGED listCounts

\* The owner of the path is not signed in, or the rules reject the write.
Denied ==
  /\ IF session = Owner THEN Breaks ELSE UNCHANGED listCounts
  /\ UNCHANGED <<listServer, promised>>

Failed ==
  /\ Breaks
  /\ UNCHANGED <<listServer, promised>>

DatabaseAnswers ==
  /\ \E i \in DOMAIN wire :
       /\ Waits(i)
       /\ \/ Accepted(wire[i]) /\ wire' = [wire EXCEPT ![i].answer = "ok"]
          \/ Denied /\ wire' = [wire EXCEPT ![i].answer = "denied"]
          \/ Failed /\ wire' = [wire EXCEPT ![i].answer = "failed"]
  /\ UNCHANGED <<pageVars, edits, flushes, edited>>

\* The answers reach the flushes in the same order.
Answered(l, answer) == wire # <<>> /\ Head(wire).loop = l /\ Head(wire).answer = answer

FlushAcknowledged(l) ==
  /\ Answered(l, "ok")
  /\ Settle(l)
  /\ UNCHANGED <<listServer, session, hydrated, edits, ghostVars, listCounts>>

\* An entry that was rejected for good is dropped with a notice to the user.
FlushDropped(l) ==
  /\ Answered(l, "denied")
  /\ Settle(l)
  /\ promised' = IF Item(l).current /\ Item(l).key = "list"
                 THEN [n \in DOMAIN promised \ DOMAIN Item(l).data |-> promised[n]] ELSE promised
  /\ UNCHANGED <<listServer, session, hydrated, edits, edited, listCounts>>

\* Kept for the next flush.
FlushFailed(l) ==
  /\ Answered(l, "failed")
  /\ Proceed(l, flushes, Tail(flushes[l]), Tail(wire))
  /\ UNCHANGED <<listServer, pageVars, edits, ghostVars, listCounts>>

----------------------------------------------------------------------------
OtherDeviceWrites(n) ==
  /\ MoreEvents
  /\ \E v \in Wishes(listServer[n]) : listServer' = [listServer EXCEPT ![n] = v]
  /\ promised' = IF n \in DOMAIN promised /\ promised[n].delivered
                 THEN [m \in DOMAIN promised \ {n} |-> promised[m]] ELSE promised
  /\ listCounts' = [listCounts EXCEPT !.others = @ + 1]
  /\ UNCHANGED <<pageVars, edits, flushVars, edited>>

SessionStep == (\E u \in Users : ActivateSession(u)) \/ SuspendSession \/ Logout \/ Reload \/ Snapshot
EditStep    == (\E n \in Rows : WriteList(n)) \/ RefuseEdit \/ AcceptEdit
FlushStep(l) == \/ FlushStart(l) \/ FlushAcknowledged(l)
                 \/ FlushDropped(l) \/ FlushFailed(l)

ListNext ==
  \/ SessionStep
  \/ EditStep
  \/ \E l \in Loops : FlushStep(l)
  \/ DatabaseAnswers
  \/ \E n \in Rows : OtherDeviceWrites(n)

ListSpec == ListInit /\ [][ListNext]_listVars

----------------------------------------------------------------------------
(* Properties *)

\* The queue in memory is the one in storage while a session is active, each flush waits for at
\* most one write, and no key is queued twice.
ListTypeOK ==
  /\ listServer \in Lists /\ stored.list \in Lists
  /\ session \in Users \union {NoUser} /\ (session # NoUser => stored.owner = session)
  /\ listQueue = IF session = NoUser THEN <<>> ELSE stored.queue
  /\ Len(stored.queue) = Cardinality({stored.queue[i].key : i \in DOMAIN stored.queue})
  /\ \A l \in Loops : flushes[l] # <<>> <=> \E i \in DOMAIN wire : wire[i].loop = l

\* An edit that was accepted stays in the owner's stored queue until it has reached the
\* database, was rejected there, or the queue was discarded for another user (flushSyncQueue's
\* queueItemIsCurrent; activate's restoring of the queue).
EditsSurvive ==
  \A n \in DOMAIN promised :
     ~promised[n].delivered =>
       /\ stored.owner = Owner
       /\ n \in DOMAIN Patch(stored.queue)
       /\ Patch(stored.queue)[n] = [row |-> promised[n].row, edit |-> promised[n].edit]

\* What the user sees of a row that waits to be sent is the edit, whatever was delivered meanwhile.
EditsAreShown ==
  session = Owner =>
    \A n \in DOMAIN promised : ~promised[n].delivered => stored.list[n] = promised[n].row

\* A list is sent under its owner's session only, although a flush outlives the session it began in.
SentByOwner == \A i \in DOMAIN wire : wire[i].key = "list" => wire[i].as = Owner

\* A write changes only rows the user edited, although the list an edit was made on may have been
\* replaced by the time it is accepted.
OnlyEditedRows ==
  \A i \in DOMAIN stored.queue :
     stored.queue[i].key = "list" => DOMAIN stored.queue[i].data \subseteq edited

\* Through reloads, logouts, other users and snapshots an accepted edit stays queued and shown,
\* carries no row along that the user did not edit, and goes out under its owner alone.
EditsArePreserved ==
  ListTypeOK /\ EditsSurvive /\ EditsAreShown /\ SentByOwner /\ OnlyEditedRows
----------------------------------------------------------------------------
\* "successive offline edits use explicit same-Pokemon last-write-wins semantics"
\* (tests/my-list-sync-safety.test.cjs:306): once the last edit of a row has reached the
\* database, no older edit of this device takes its place.  flushSyncQueue sends the entries it
\* took without looking whether they are still those of the queue.
LastEditStands ==
  \A n \in DOMAIN promised : promised[n].delivered => listServer[n] = promised[n].row

=============================================================================
