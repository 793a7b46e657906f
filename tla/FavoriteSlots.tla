--------------------------- MODULE FavoriteSlots ---------------------------
(***************************************************************************)
(* The Favorites of an account and the slots that limit their number.      *)
(* Devices add and remove Favorites with one root update each, planned on  *)
(* two reads that no transaction joins (js/data/                           *)
(* favoriteAdditionRepository.js); the database rules decide what a late   *)
(* or stale update may still do (favoriteSlots and accountSync/favorites   *)
(* of the rules that tests/firebase/database.rules.favorite-resolver.json  *)
(* records).                                                               *)
(*                                                                         *)
(* A write that timed out may land much later.  Favorites from before the  *)
(* slots existed hold none until an addition seats them.                   *)
(***************************************************************************)
EXTENDS Naturals, FiniteSets

CONSTANTS
  FavoriteIds,       \* the trainers one may favour, numbered in the order of their ids
  Capacity,          \* CAPACITY
  FavoriteDevices,
  NoFavorite,
  MaxFavoriteOps     \* bound of the operations of all devices

ASSUME SlotAssumption ==
  /\ FavoriteIds \subseteq Nat /\ IsFiniteSet(FavoriteIds) /\ NoFavorite \notin FavoriteIds
  /\ Capacity \in Nat \ {0} /\ MaxFavoriteOps \in Nat

SlotNumbers == 1..Capacity

VARIABLES
  favorites,         \* accountSync/<uid>/favorites: [generation, deleted, by]
  favoriteSlots,     \* favoriteSlots/<uid>
  unseated,          \* Favorites that are older than the slots
  favoriteCalls,     \* of each device: [pc, op, attempt, failed, read]
  updates,           \* root updates under way: [from, attempt, op, record, changes]
  submitted,         \* how many operations there have been
  applied,           \* operations the database has taken
  refused            \* operations that were answered as a conflict

favoriteData == <<favorites, favoriteSlots, unseated>>
slotVars == <<favoriteData, favoriteCalls, updates, submitted, applied, refused>>

NoRecord == [generation |-> 0, deleted |-> TRUE, by |-> 0]
IdleCall == [pc |-> "idle", op |-> 0, attempt |-> 1, failed |-> FALSE, read |-> <<>>]

Active(records) == {i \in FavoriteIds : ~records[i].deleted}
Seats(slots, i) == {s \in SlotNumbers : slots[s] = i}

SlotsInit ==
  /\ \E seated \in SUBSET FavoriteIds : \E old \in SUBSET (FavoriteIds \ seated) :
       /\ Cardinality(seated) + Cardinality(old) =< Capacity
       /\ unseated = old
       /\ favorites = [i \in FavoriteIds |->
                         IF i \in seated \union old THEN [generation |-> 1, deleted |-> FALSE, by |-> 0]
                         ELSE NoRecord]
       /\ favoriteSlots \in [SlotNumbers -> seated \union {NoFavorite}]
       /\ \A i \in seated : Cardinality(Seats(favoriteSlots, i)) = 1
  /\ favoriteCalls = [d \in FavoriteDevices |-> IdleCall]
  /\ updates = {} /\ submitted = 0 /\ applied = {} /\ refused = {}

----------------------------------------------------------------------------
(* The plans *)

Lowest(S) == CHOOSE s \in S : \A t \in S : s =< t

\* The Favorites there are to seat, the added one included.
Planned(records, i) == Active(records) \union {i}

\* What the slots keep: such a Favorite, at its first seat.
Kept(records, slots, i) ==
  [s \in SlotNumbers |->
     IF slots[s] \in Planned(records, i) /\ s = Lowest(Seats(slots, slots[s])) THEN slots[s]
     ELSE NoFavorite]

\* Those that hold no seat.
Waiting(records, slots, i) ==
  {j \in Planned(records, i) : Seats(Kept(records, slots, i), j) = {}}

\* capacityPlan: every one of them is seated, in the order of the ids at the lowest free seats.
Seated(records, slots, i) ==
  LET kept == Kept(records, slots, i)
      free == {s \in SlotNumbers : kept[s] = NoFavorite}
      wait == Waiting(records, slots, i)
      Rank(S, x) == Cardinality({y \in S : y < x})
  IN [s \in SlotNumbers |->
        IF s \in free /\ \E j \in wait : Rank(wait, j) = Rank(free, s)
        THEN CHOOSE j \in wait : Rank(wait, j) = Rank(free, s) ELSE kept[s]]

OverCapacity(records, i) == Cardinality(Planned(records, i)) > Capacity

Differences(slots, planned) == {<<s, planned[s]>> : s \in {t \in SlotNumbers : planned[t] # slots[t]}}

\* releasePlan
Released(slots, i) == {<<s, NoFavorite>> : s \in Seats(slots, i)}

----------------------------------------------------------------------------
(* The database rules *)

AfterChanges(slots, changes) ==
  [s \in SlotNumbers |->
     IF \E c \in changes : c[1] = s THEN (CHOOSE c \in changes : c[1] = s)[2] ELSE slots[s]]

\* Mutant: the record an operation was planned on may have moved on.
AnyTransition(before, after) == TRUE

\* Each lifecycle step is one generation up and turns the Favorite on or off.
Transition(before, after) ==
  /\ after.generation = before.generation + 1
  /\ after.deleted # before.deleted
  /\ after.by # before.by

\* Mutant: a seat may be taken from an active Favorite.
AnySeat(records, slots, s) == TRUE

\* A seat is taken only from a Favorite that is gone, or that has another seat.
Vacant(records, slots, s) ==
  \/ favoriteSlots[s] \in {NoFavorite, slots[s]}
  \/ records[favoriteSlots[s]].deleted
  \/ Seats(slots, favoriteSlots[s]) # {}

\* The rules of a root update, on the data as it would be afterwards.
Allowed(u) ==
  LET records == [favorites EXCEPT ![u.op.id] = u.record]
      slots   == AfterChanges(favoriteSlots, u.changes)
  IN /\ Transition(favorites[u.op.id], u.record)
     /\ ~u.record.deleted => Seats(slots, u.op.id) # {}
     /\ \A c \in u.changes :
          /\ Vacant(records, slots, c[1])
          /\ c[2] # NoFavorite => ~records[c[2]].deleted

----------------------------------------------------------------------------
(* applyAddition and applyDeletion *)

Goes(d, call) == favoriteCalls' = [favoriteCalls EXCEPT ![d] = call]

\* The operation is based on the generation the device knows when it is asked for.
Submit(d, i) ==
  /\ favoriteCalls[d].pc = "idle" /\ submitted < MaxFavoriteOps
  /\ submitted' = submitted + 1
  /\ Goes(d, [IdleCall EXCEPT !.pc = "record",
                !.op = [number |-> submitted + 1, id |-> i, base |-> favorites[i].generation,
                        kind |-> IF favorites[i].deleted THEN "add" ELSE "delete"]])
  /\ UNCHANGED <<favoriteData, updates, applied, refused>>

\* The record is asked for first; its answer is the older of the two.
ReadRecord(d) ==
  /\ favoriteCalls[d].pc \in {"record", "proof record"}
  /\ Goes(d, [favoriteCalls[d] EXCEPT !.read = favorites,
                !.pc = IF @ = "record" THEN "slots" ELSE "proof slots"])
  /\ UNCHANGED <<favoriteData, updates, submitted, applied, refused>>

\* mergeOperation for the two kinds of a lifecycle step
Idempotent(op, record) == record.by = op.number
Applies(op, record) ==
  record.generation = op.base /\ record.deleted = (op.kind = "add")

Written(op) == [generation |-> op.base + 1, deleted |-> op.kind = "delete", by |-> op.number]

Plan(op, records) ==
  IF op.kind = "add" THEN Differences(favoriteSlots, Seated(records, favoriteSlots, op.id))
  ELSE Released(favoriteSlots, op.id)

\* The loop of three attempts has none left.
LastAttempt(call) == call.attempt = 3

\* The answer of a call ends it; a failure keeps the operation for a retry.
Finishes(d, call, pc) == Goes(d, [IdleCall EXCEPT !.pc = pc, !.op = IF pc = "idle" THEN 0 ELSE call.op])

ReadSlots(d) ==
  LET call == favoriteCalls[d]
      op == call.op
      record == call.read[op.id]
  IN
  /\ call.pc = "slots"
  /\ \/ /\ Idempotent(op, record)
        /\ Goes(d, [call EXCEPT !.pc = "proof record", !.attempt = 3, !.failed = FALSE])
        /\ UNCHANGED <<updates, refused>>
     \/ /\ ~Idempotent(op, record) /\ ~Applies(op, record)
        /\ Finishes(d, call, "idle") /\ refused' = refused \union {op.number}
        /\ UNCHANGED updates
     \/ /\ Applies(op, record) /\ op.kind = "add" /\ OverCapacity(call.read, op.id)
        /\ Finishes(d, call, "blocked")
        /\ UNCHANGED <<updates, refused>>
     \/ /\ Applies(op, record) /\ ~(op.kind = "add" /\ OverCapacity(call.read, op.id))
        /\ Goes(d, [call EXCEPT !.pc = "sent", !.failed = FALSE])
        /\ updates' = updates \union
             {[from |-> d, attempt |-> call.attempt, op |-> op, record |-> Written(op),
               changes |-> Plan(op, call.read)]}
        /\ UNCHANGED refused
  /\ UNCHANGED <<favoriteData, submitted, applied>>

Awaits(d, u) == favoriteCalls[d].pc = "sent" /\ favoriteCalls[d].op = u.op
                /\ favoriteCalls[d].attempt = u.attempt

\* The update reaches the database, in time or long after its caller gave up; one that never does is lost.
Land(u) ==
  /\ updates' = updates \ {u}
  /\ IF Allowed(u)
     THEN /\ favorites' = [favorites EXCEPT ![u.op.id] = u.record]
          /\ favoriteSlots' = AfterChanges(favoriteSlots, u.changes)
          /\ applied' = applied \union {u.op.number}
     ELSE UNCHANGED <<favorites, favoriteSlots, applied>>
  /\ IF Awaits(u.from, u)
     THEN Goes(u.from, [favoriteCalls[u.from] EXCEPT !.pc = "proof record"])
     ELSE UNCHANGED favoriteCalls
  /\ UNCHANGED <<unseated, submitted, refused>>

\* bounded: the write is not confirmed in time, whether it is lost, late or done.
TimeOutWrite(d) ==
  /\ favoriteCalls[d].pc = "sent"
  /\ Goes(d, [favoriteCalls[d] EXCEPT !.pc = "proof record", !.failed = TRUE])
  /\ UNCHANGED <<favoriteData, updates, submitted, applied, refused>>

\* proof: the record is this operation's and the seats agree with it.
Proven(op, record) ==
  /\ Idempotent(op, record)
  /\ (Seats(favoriteSlots, op.id) # {}) = (op.kind = "add")

ReadProof(d) ==
  LET call == favoriteCalls[d]
  IN
  /\ call.pc = "proof slots"
  /\ \/ Proven(call.op, call.read[call.op.id]) /\ Finishes(d, call, "idle")
     \/ /\ ~Proven(call.op, call.read[call.op.id])
        /\ IF call.failed \/ LastAttempt(call)
           THEN Finishes(d, call, "blocked")
           ELSE Goes(d, [call EXCEPT !.pc = "record", !.attempt = @ + 1, !.read = <<>>])
  /\ UNCHANGED <<favoriteData, updates, submitted, applied, refused>>

\* A read fails, or the page is gone: the journal keeps the operation.
ReadFails(d) ==
  /\ favoriteCalls[d].pc \in {"record", "slots", "proof record", "proof slots"}
  /\ Finishes(d, favoriteCalls[d], "blocked")
  /\ UNCHANGED <<favoriteData, updates, submitted, applied, refused>>

\* The same operation is tried again.
RetryOperation(d) ==
  /\ favoriteCalls[d].pc = "blocked"
  /\ Goes(d, [favoriteCalls[d] EXCEPT !.pc = "record"])
  /\ UNCHANGED <<favoriteData, updates, submitted, applied, refused>>

SlotsNext ==
  \/ \E d \in FavoriteDevices :
       \/ \E i \in FavoriteIds : Submit(d, i)
       \/ ReadRecord(d) \/ ReadSlots(d) \/ TimeOutWrite(d) \/ ReadProof(d)
       \/ ReadFails(d) \/ RetryOperation(d)
  \/ \E u \in updates : Land(u)

SlotsSpec == SlotsInit /\ [][SlotsNext]_slotVars

----------------------------------------------------------------------------
(* Properties *)

SlotsTypeOK ==
  /\ \A i \in FavoriteIds : favorites[i].generation \in Nat /\ favorites[i].by \in 0..submitted
  /\ favoriteSlots \in [SlotNumbers -> FavoriteIds \union {NoFavorite}]
  /\ \A d \in FavoriteDevices : favoriteCalls[d].attempt \in 1..3

\* However late an update lands and however stale its plan, there are never more Favorites than
\* the limit, those without a seat included.
WithinCapacity == Cardinality(Active(favorites)) =< Capacity

\* A Favorite that was given a seat keeps one for as long as it is active, whichever of the
\* additions and removals planned before it was given the seat land afterwards.
SeatedStaySeated == \A i \in Active(favorites) \ unseated : Seats(favoriteSlots, i) # {}

\* After an addition lands every Favorite has a seat, those from before the slots and those that
\* came and went while it was on its way included (capacityPlan seats whatever waits).
AdditionsSeatAll ==
  [][\A u \in updates :
       (u.op.kind = "add" /\ applied' = applied \union {u.op.number} /\ applied' # applied) =>
         \A i \in Active(favorites') : Seats(favoriteSlots', i) # {}]_slotVars

\* An operation is applied at most once, and one that was answered as a conflict never afterwards,
\* although an earlier attempt of it may still be on its way.
LateWritesAreRefused ==
  [][\A n \in 1..submitted :
       (\E i \in FavoriteIds : favorites'[i].by = n /\ favorites[i].by # n) => n \notin applied \union refused]_slotVars

\* Late and stale updates neither pass the limit nor cost a Favorite its seat.
SeatsHold == SlotsTypeOK /\ WithinCapacity /\ SeatedStaySeated

\* An update that lands late is refused when its operation has been answered, and one that is
\* applied leaves no Favorite without a seat.
LandingsAreSound == LateWritesAreRefused /\ AdditionsSeatAll

=============================================================================
