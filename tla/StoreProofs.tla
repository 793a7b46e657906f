---------------------------- MODULE StoreProofs ----------------------------
(***************************************************************************)
(* Stores that no transaction spans, for every number of devices, slots,   *)
(* operators and calls: the Favorites and the slots that limit them        *)
(* (FavoriteSlots); and the ledger directory of a run, its control records *)
(* and the gateway's calls (GroupELedger).                                 *)
(***************************************************************************)
EXTENDS FavoriteSlots, GroupELedger, TLAPS, FiniteSetTheorems, FunctionTheorems

----------------------------------------------------------------------------
(***************************************************************************)
(* The Favorites of an account.  A Favorite without a seat is one that no  *)
(* operation has touched (BareIsOld), so every addition on its way was     *)
(* planned on a read that shows it and has a seat for it (UpdateFits); and *)
(* generations only grow, so an operation that has ended finds its own     *)
(* used up (OpFits).                                                       *)
(***************************************************************************)
Seatables == FavoriteIds \cup {NoFavorite}

FavoriteRecord == [generation : Nat, deleted : BOOLEAN, by : Nat]

Operation == [number : Nat \ {0}, id : FavoriteIds, base : Nat, kind : {"add", "delete"}]

Update ==
  [ from : FavoriteDevices, attempt : 1..3, op : Operation, record : FavoriteRecord,
    changes : SUBSET (SlotNumbers \X Seatables) ]

Call ==
  [ pc : {"idle", "record", "slots", "sent", "proof record", "proof slots", "blocked"},
    op : Operation \cup {0}, attempt : 1..3, failed : BOOLEAN,
    read : [FavoriteIds -> FavoriteRecord] \cup {<<>>} ]

SlotsTyped ==
  /\ favorites \in [FavoriteIds -> FavoriteRecord]
  /\ favoriteSlots \in [SlotNumbers -> Seatables]
  /\ unseated \subseteq FavoriteIds
  /\ favoriteCalls \in [FavoriteDevices -> Call]
  /\ updates \subseteq Update
  /\ submitted \in Nat
  /\ applied \cup refused \subseteq 1..submitted

Bare(i) == i \in Active(favorites) /\ Seats(favoriteSlots, i) = {}

BareIsOld == \A i \in FavoriteIds : Bare(i) => i \in unseated /\ favorites[i].by = 0

\* An operation finds the version it was made on, or a later one; a later one once it has ended.
OpFits(op) ==
  /\ op \in Operation
  /\ op.number <= submitted
  /\ favorites[op.id].generation >= op.base
  /\ favorites[op.id].generation = op.base => favorites[op.id].deleted = (op.kind = "add")
  /\ op.number \in applied \cup refused => favorites[op.id].generation > op.base

OpsFit ==
  /\ \A d \in FavoriteDevices : favoriteCalls[d].pc # "idle" => OpFits(favoriteCalls[d].op)
  /\ \A u \in updates : OpFits(u.op)

\* One number stands for one operation.
OpsDiffer ==
  /\ \A d, e \in FavoriteDevices :
       /\ favoriteCalls[d].pc # "idle" /\ favoriteCalls[e].pc # "idle"
       /\ favoriteCalls[d].op.number = favoriteCalls[e].op.number
       => favoriteCalls[d].op = favoriteCalls[e].op
  /\ \A d \in FavoriteDevices, u \in updates :
       favoriteCalls[d].pc # "idle" /\ favoriteCalls[d].op.number = u.op.number
       => favoriteCalls[d].op = u.op
  /\ \A u, v \in updates : u.op.number = v.op.number => u.op = v.op

\* What a device has read is no newer than the database, and shows what nobody has touched.
ReadFits(call) ==
  call.pc = "slots" =>
    /\ call.read \in [FavoriteIds -> FavoriteRecord]
    /\ \A i \in FavoriteIds :
         /\ call.read[i].generation <= favorites[i].generation
         /\ favorites[i].by = 0 => call.read[i] = favorites[i]
    /\ call.read[call.op.id].generation >= call.op.base
    /\ call.read[call.op.id].generation = call.op.base =>
         call.read[call.op.id].deleted = (call.op.kind = "add")

UpdateFits(u) ==
  /\ u.record = Written(u.op)
  /\ \A c, e \in u.changes : c[1] = e[1] => c = e
  /\ u.op.kind = "add" => \A i \in FavoriteIds : Bare(i) => \E c \in u.changes : c[2] = i

SlotsInv ==
  /\ SlotsTyped
  /\ BareIsOld
  /\ OpsFit
  /\ OpsDiffer
  /\ \A d \in FavoriteDevices : ReadFits(favoriteCalls[d])
  /\ \A u \in updates : UpdateFits(u)
  /\ \A i \in FavoriteIds : favorites[i].by <= submitted
  /\ WithinCapacity

-----------------------------------------------------------------------------
(* Ranks in a finite set of numbers. *)

Below(S, x) == Cardinality({y \in S : y < x})

LEMMA BelowGrows ==
  ASSUME NEW S \in SUBSET Nat, IsFiniteSet(S), NEW x \in S, NEW y \in S, x < y
  PROVE  Below(S, x) < Below(S, y) /\ Below(S, x) \in Nat /\ Below(S, y) \in Nat
<1> DEFINE X == {z \in S : z < x}
           Y == {z \in S : z < y}
<1>1. X \in SUBSET Y /\ x \in Y /\ x \notin X /\ Y \in SUBSET S
  <2>1. ASSUME NEW z \in S, z < x PROVE z < y
    <3>1. x \in Nat /\ y \in Nat /\ z \in Nat
      OBVIOUS
    <3> QED
      BY <2>1, <3>1
  <2>2. ~(x < x)
    OBVIOUS
  <2> QED
    BY <2>1, <2>2
<1>2. IsFiniteSet(Y) /\ IsFiniteSet(X)
  BY <1>1, FS_Subset
<1>3. Cardinality(X) <= Cardinality(Y) /\ (Cardinality(X) = Cardinality(Y) => X = Y)
  BY <1>1, <1>2, FS_Subset
<1>4. Cardinality(X) \in Nat /\ Cardinality(Y) \in Nat
  BY <1>2, FS_CardinalityType
<1> QED
  BY <1>1, <1>3, <1>4 DEF Below

LEMMA BelowDiffers ==
  ASSUME NEW S \in SUBSET Nat, IsFiniteSet(S), NEW x \in S, NEW y \in S, Below(S, x) = Below(S, y)
  PROVE  x = y
<1>1. x \in Nat /\ y \in Nat
  OBVIOUS
<1>2. ~(x < y) /\ ~(y < x)
  BY BelowGrows
<1> QED
  BY <1>1, <1>2

LEMMA BelowType ==
  ASSUME NEW S \in SUBSET Nat, IsFiniteSet(S), NEW x \in S
  PROVE  Below(S, x) \in 0..(Cardinality(S) - 1)
<1> DEFINE X == {z \in S : z < x}
<1>1. X \in SUBSET S /\ x \notin X
  OBVIOUS
<1>2. /\ Cardinality(X) <= Cardinality(S) /\ (Cardinality(S) = Cardinality(X) => S = X)
      /\ IsFiniteSet(X)
  BY <1>1, FS_Subset
<1>3. Cardinality(X) \in Nat /\ Cardinality(S) \in Nat
  BY <1>2, FS_CardinalityType
<1> QED
  BY <1>1, <1>2, <1>3 DEF Below

\* Every rank below the size of the set is one of an element.
LEMMA EveryRank ==
  ASSUME NEW S \in SUBSET Nat, IsFiniteSet(S), NEW n \in 0..(Cardinality(S) - 1)
  PROVE  \E x \in S : Below(S, x) = n
<1> DEFINE T == 0..(Cardinality(S) - 1)
           f == [x \in S |-> Below(S, x)]
<1>1. Cardinality(S) \in Nat
  BY FS_CardinalityType
<1>2. IsFiniteSet(T) /\ Cardinality(T) = Cardinality(S)
  BY <1>1, FS_Interval
<1>3. f \in [S -> T]
  BY BelowType
<1>4. f \in Injection(S, T)
  BY <1>3, BelowDiffers DEF Injection, IsInjective
<1>5. f \in Surjection(S, T)
  BY <1>2, <1>4, FS_Injection
<1> QED
  BY <1>5 DEF Surjection

-----------------------------------------------------------------------------
(* capacityPlan *)

LEMMA SlotsFinite ==
  IsFiniteSet(SlotNumbers) /\ Cardinality(SlotNumbers) = Capacity /\ SlotNumbers \subseteq Nat
  /\ Capacity \in Nat
BY FS_Interval, SlotAssumption DEF SlotAssumption, SlotNumbers

\* As many seats are free as Favorites wait for one, if they are no more than the capacity.
LEMMA SeatsSuffice ==
  ASSUME NEW records \in [FavoriteIds -> FavoriteRecord], NEW slots \in [SlotNumbers -> Seatables],
         NEW i \in FavoriteIds, ~OverCapacity(records, i)
  PROVE  LET free == {s \in SlotNumbers : Kept(records, slots, i)[s] = NoFavorite}
         IN  /\ IsFiniteSet(Waiting(records, slots, i)) /\ IsFiniteSet(free)
             /\ Cardinality(Waiting(records, slots, i)) <= Cardinality(free)
             /\ Cardinality(free) \in Nat
             /\ Cardinality(Waiting(records, slots, i)) \in Nat
<1> DEFINE kept == Kept(records, slots, i)
           free == {s \in SlotNumbers : kept[s] = NoFavorite}
           all == Planned(records, i)
           wait == Waiting(records, slots, i)
           held == all \ wait
           used == SlotNumbers \ free
           f == [s \in used |-> kept[s]]
<1>1. /\ all \in SUBSET FavoriteIds /\ wait \in SUBSET all /\ IsFiniteSet(all) /\ IsFiniteSet(wait)
      /\ IsFiniteSet(held)
  <2>1. all \in SUBSET FavoriteIds /\ wait \in SUBSET all /\ held \in SUBSET all
    BY DEF Active, Planned, Waiting
  <2> QED
    BY <2>1, SlotAssumption, FS_Subset DEF SlotAssumption
<1>2. free \in SUBSET SlotNumbers /\ used \in SUBSET SlotNumbers /\ IsFiniteSet(free) /\ IsFiniteSet(used)
  BY SlotsFinite, FS_Subset
<1>3. \A s \in used : /\ kept[s] = slots[s] /\ slots[s] \in Planned(records, i)
                      /\ s = Lowest(Seats(slots, slots[s]))
  BY DEF Kept
<1>4. f \in [used -> held]
  <2> SUFFICES ASSUME NEW s \in used PROVE kept[s] \in held
    OBVIOUS
  <2>1. s \in Seats(kept, kept[s])
    BY DEF Seats
  <2> QED
    BY <1>3, <2>1 DEF Waiting
<1>5. f \in Injection(used, held)
  BY <1>3, <1>4 DEF Injection, IsInjective
<1>6. f \in Surjection(used, held)
  <2> SUFFICES ASSUME NEW j \in held PROVE \E s \in used : kept[s] = j
    BY <1>4 DEF Surjection
  <2>1. j \in FavoriteIds /\ Seats(kept, j) # {}
    BY <1>1 DEF Waiting
  <2>2. PICK s \in SlotNumbers : kept[s] = j
    BY <2>1 DEF Seats
  <2> QED
    BY <2>1, <2>2, SlotAssumption DEF SlotAssumption
<1>7. Cardinality(used) = Cardinality(held)
  BY <1>1, <1>5, <1>6, FS_Injection
<1>8. Cardinality(all) <= Capacity
  <2>1. Cardinality(all) \in Nat
    BY <1>1, FS_CardinalityType
  <2> QED
    BY <2>1, SlotsFinite DEF OverCapacity
<1>9. Cardinality(held) = Cardinality(all) - Cardinality(wait)
  <2>1. all \cap wait = wait
    BY <1>1
  <2> QED
    BY <1>1, <2>1, FS_Difference
<1>10. Cardinality(used) = Capacity - Cardinality(free)
  <2>1. SlotNumbers \cap free = free
    BY <1>2
  <2> QED
    BY <1>2, <2>1, SlotsFinite, FS_Difference
<1>11. Cardinality(all) \in Nat /\ Cardinality(wait) \in Nat /\ Cardinality(free) \in Nat
  BY <1>1, <1>2, FS_CardinalityType
<1> HIDE DEF kept, free, all, wait, held, used, f
<1>12. Cardinality(wait) <= Cardinality(free)
  BY <1>7, <1>8, <1>9, <1>10, <1>11, SlotsFinite
<1> QED
  BY <1>1, <1>2, <1>11, <1>12 DEF wait, free, kept

\* Whatever has no seat is given one.
LEMMA PlanSeats ==
  ASSUME NEW records \in [FavoriteIds -> FavoriteRecord], NEW slots \in [SlotNumbers -> Seatables],
         NEW i \in FavoriteIds, ~OverCapacity(records, i),
         NEW j \in Planned(records, i), Seats(slots, j) = {}
  PROVE  \E s \in SlotNumbers : Seated(records, slots, i)[s] = j /\ slots[s] # j
<1> DEFINE kept == Kept(records, slots, i)
           free == {s \in SlotNumbers : kept[s] = NoFavorite}
           wait == Waiting(records, slots, i)
<1>1. /\ IsFiniteSet(wait) /\ IsFiniteSet(free) /\ Cardinality(wait) <= Cardinality(free)
      /\ Cardinality(free) \in Nat /\ Cardinality(wait) \in Nat
  BY SeatsSuffice
<1>2. wait \in SUBSET Nat /\ free \in SUBSET Nat
  BY SlotsFinite, SlotAssumption DEF Waiting, Planned, Active, SlotAssumption
<1>3. \A s \in SlotNumbers : slots[s] # j
  BY DEF Seats
<1>4. j \in wait
  <2>1. j \in FavoriteIds /\ j # NoFavorite
    BY SlotAssumption DEF Planned, Active, SlotAssumption
  <2>2. \A s \in SlotNumbers : kept[s] # j
    BY <1>3, <2>1 DEF Kept
  <2> QED
    BY <2>2 DEF Waiting, Seats
<1>5. Below(wait, j) \in 0..(Cardinality(free) - 1)
  BY <1>1, <1>2, <1>4, BelowType
<1>6. PICK s \in free : Below(free, s) = Below(wait, j)
  BY <1>1, <1>2, <1>5, EveryRank
<1>7. \A k \in wait : Below(wait, k) = Below(free, s) => k = j
  BY <1>1, <1>2, <1>4, <1>6, BelowDiffers
<1>8. (CHOOSE k \in wait : Below(wait, k) = Below(free, s)) = j
  BY <1>4, <1>6, <1>7
<1>9. Seated(records, slots, i)[s] = j
  BY <1>4, <1>6, <1>8 DEF Seated, Below
<1> QED
  BY <1>3, <1>9

-----------------------------------------------------------------------------
(* Steps that leave the account's data. *)

LEMMA CallTypes ==
  ASSUME SlotsTyped, NEW d \in FavoriteDevices
  PROVE  favoriteCalls[d] \in Call
BY DEF SlotsTyped

\* A device goes on with its operation, or ends it; it may send an update (V) and have it refused (R).
LEMMA CallStep ==
  ASSUME SlotsInv, NEW d \in FavoriteDevices, NEW call \in Call, NEW R, NEW V, Goes(d, call),
         call.pc # "idle" => favoriteCalls[d].pc # "idle" /\ call.op = favoriteCalls[d].op,
         ReadFits(call),
         \A n \in R : /\ favoriteCalls[d].pc # "idle" /\ n = favoriteCalls[d].op.number
                     /\ favorites[favoriteCalls[d].op.id].generation > favoriteCalls[d].op.base,
         \A v \in V : /\ v \in Update /\ favoriteCalls[d].pc # "idle"
                     /\ v.op = favoriteCalls[d].op /\ UpdateFits(v),
         updates' = updates \cup V, refused' = refused \cup R,
         UNCHANGED <<favoriteData, submitted, applied>>
  PROVE  SlotsInv'
<1> USE DEF SlotsInv, favoriteData
<1>1. /\ favoriteCalls' = [favoriteCalls EXCEPT ![d] = call]
      /\ favoriteCalls \in [FavoriteDevices -> Call]
  BY DEF Goes, SlotsTyped
<1>2. favoriteCalls[d].pc # "idle" => OpFits(favoriteCalls[d].op)
  BY DEF OpsFit
<1>3. SlotsTyped'
  <2>1. R \subseteq 1..submitted
    BY <1>2 DEF OpFits, Operation, SlotsTyped
  <2> QED
    BY <1>1, <2>1 DEF SlotsTyped
<1>4. /\ \A e \in FavoriteDevices : favoriteCalls'[e].pc # "idle" =>
            favoriteCalls[e].pc # "idle" /\ favoriteCalls'[e].op = favoriteCalls[e].op
      /\ \A u \in updates' : u \in updates \/ (favoriteCalls[d].pc # "idle" /\ u.op = favoriteCalls[d].op)
  BY <1>1
<1>5. OpsDiffer'
  BY <1>4 DEF OpsDiffer
<1>6. ASSUME NEW op, OpFits(op), favoriteCalls[d].pc # "idle" /\ op.number = favoriteCalls[d].op.number
                                  => op = favoriteCalls[d].op
      PROVE  OpFits(op)'
  BY <1>6 DEF OpFits
<1>7. OpsFit'
  <2>1. ASSUME NEW e \in FavoriteDevices, favoriteCalls'[e].pc # "idle"
        PROVE  OpFits(favoriteCalls[e].op)'
    <3>1. PICK op : op = favoriteCalls[e].op
      OBVIOUS
    <3>2. OpFits(op) /\ favoriteCalls'[e].op = op
      BY <1>4, <2>1, <3>1 DEF OpsFit
    <3>3. favoriteCalls[d].pc # "idle" /\ op.number = favoriteCalls[d].op.number
            => op = favoriteCalls[d].op
      BY <1>4, <2>1, <3>1 DEF OpsDiffer
    <3>4. OpFits(op)'
      BY <1>6, <3>2, <3>3
    <3> QED
      BY <3>2, <3>4 DEF OpFits
  <2>2. ASSUME NEW u \in updates' PROVE OpFits(u.op)'
    <3>1. PICK op : op = u.op
      OBVIOUS
    <3>2. OpFits(op)
      BY <1>2, <1>4, <3>1 DEF OpsFit
    <3>3. favoriteCalls[d].pc # "idle" /\ op.number = favoriteCalls[d].op.number
            => op = favoriteCalls[d].op
      BY <1>4, <3>1 DEF OpsDiffer
    <3>4. OpFits(op)'
      BY <1>6, <3>2, <3>3
    <3> QED
      BY <3>1, <3>4 DEF OpFits
  <2> QED
    BY <2>1, <2>2 DEF OpsFit
<1>8. \A e \in FavoriteDevices : ReadFits(favoriteCalls[e])'
  BY <1>1 DEF ReadFits
<1>9. \A u \in updates' : UpdateFits(u)'
  BY DEF UpdateFits, Bare, Active, Seats
<1>10. BareIsOld' /\ WithinCapacity' /\ \A i \in FavoriteIds : favorites'[i].by <= submitted'
  BY DEF BareIsOld, Bare, WithinCapacity, Active, Seats
<1> QED
  BY <1>3, <1>5, <1>7, <1>8, <1>9, <1>10

LEMMA IdleCallType == IdleCall \in Call
BY DEF IdleCall, Call

\* The step of a device that neither sends nor is refused.
LEMMA QuietStep ==
  ASSUME SlotsInv, NEW d \in FavoriteDevices, NEW call \in Call, Goes(d, call),
         call.pc # "idle" => favoriteCalls[d].pc # "idle" /\ call.op = favoriteCalls[d].op,
         ReadFits(call), UNCHANGED <<favoriteData, updates, submitted, applied, refused>>
  PROVE  SlotsInv'
<1>1. PICK R : R = {}
  OBVIOUS
<1>2. PICK V : V = {}
  OBVIOUS
<1>3. updates' = updates \cup V /\ refused' = refused \cup R
  BY <1>1, <1>2
<1>4. /\ \A n \in R : /\ favoriteCalls[d].pc # "idle" /\ n = favoriteCalls[d].op.number
                     /\ favorites[favoriteCalls[d].op.id].generation > favoriteCalls[d].op.base
      /\ \A v \in V : /\ v \in Update /\ favoriteCalls[d].pc # "idle"
                     /\ v.op = favoriteCalls[d].op /\ UpdateFits(v)
  BY <1>1, <1>2
<1>5. UNCHANGED <<favoriteData, submitted, applied>>
  OBVIOUS
<1> QED
  BY <1>3, <1>4, <1>5, CallStep

LEMMA SubmitStep ==
  ASSUME SlotsInv, NEW d \in FavoriteDevices, NEW i \in FavoriteIds, Submit(d, i)
  PROVE  SlotsInv'
<1> USE DEF SlotsInv, favoriteData
<1>1. PICK op : op = [number |-> submitted + 1, id |-> i, base |-> favorites[i].generation,
                      kind |-> IF favorites[i].deleted THEN "add" ELSE "delete"]
  OBVIOUS
<1>2. /\ op \in Operation /\ op.number = submitted + 1 /\ op.id = i /\ op.base = favorites[i].generation
      /\ favorites[i].deleted = (op.kind = "add")
  <2>1. favorites[i] \in FavoriteRecord /\ submitted \in Nat
    BY DEF SlotsTyped
  <2> QED
    BY <1>1, <2>1 DEF Operation, FavoriteRecord
<1>3. PICK call : call = [IdleCall EXCEPT !.pc = "record", !.op = op]
  OBVIOUS
<1>4. call \in Call /\ call.pc = "record" /\ call.op = op
  BY <1>2, <1>3, IdleCallType DEF Call
<1>5. /\ favoriteCalls' = [favoriteCalls EXCEPT ![d] = call] /\ favoriteCalls[d].pc = "idle"
      /\ favoriteCalls \in [FavoriteDevices -> Call] /\ submitted' = submitted + 1 /\ submitted \in Nat
      /\ UNCHANGED <<favorites, favoriteSlots, unseated, updates, applied, refused>>
  BY <1>1, <1>3 DEF Submit, Goes, SlotsTyped
<1>6. SlotsTyped'
  BY <1>4, <1>5 DEF SlotsTyped
<1>7. ASSUME NEW o, OpFits(o) PROVE OpFits(o)' /\ o.number # op.number
  <2>1. o \in Operation /\ o.number \in Nat /\ o.number <= submitted
    BY <1>7 DEF OpFits, Operation
  <2>2. o.number <= submitted' /\ o.number # op.number
    BY <1>2, <1>5, <2>1
  <2> QED
    BY <1>5, <1>7, <2>1, <2>2 DEF OpFits
<1>8. OpFits(op)'
  <2>1. op.number \notin applied' \cup refused'
    BY <1>2, <1>5 DEF SlotsTyped
  <2>2. favorites'[op.id].generation >= op.base /\ op.number <= submitted'
    BY <1>2, <1>5 DEF Operation
  <2> QED
    BY <1>2, <1>5, <2>1, <2>2 DEF OpFits
<1>9. \A e \in FavoriteDevices : favoriteCalls'[e].pc # "idle" =>
         \/ e = d /\ favoriteCalls'[e].op = op
         \/ favoriteCalls'[e] = favoriteCalls[e] /\ OpFits(favoriteCalls[e].op)
  BY <1>4, <1>5 DEF OpsFit
<1>10. \A u \in updates' : u \in updates /\ OpFits(u.op)
  BY <1>5 DEF OpsFit
<1>11. OpsFit'
  <2>1. ASSUME NEW e \in FavoriteDevices, favoriteCalls'[e].pc # "idle"
        PROVE  OpFits(favoriteCalls[e].op)'
    <3>1. PICK o : o = favoriteCalls'[e].op
      OBVIOUS
    <3>2. OpFits(o)'
      BY <1>7, <1>8, <1>9, <2>1, <3>1
    <3> QED
      BY <3>1, <3>2 DEF OpFits
  <2>2. ASSUME NEW u \in updates' PROVE OpFits(u.op)'
    <3>1. PICK o : o = u.op
      OBVIOUS
    <3>2. OpFits(o)'
      BY <1>7, <1>10, <3>1
    <3> QED
      BY <3>1, <3>2 DEF OpFits
  <2> QED
    BY <2>1, <2>2 DEF OpsFit
<1>12. OpsDiffer'
  <2>1. ASSUME NEW e \in FavoriteDevices, favoriteCalls'[e].pc # "idle"
        PROVE  favoriteCalls'[e].op = op \/
                 (favoriteCalls[e].pc # "idle" /\ favoriteCalls'[e].op = favoriteCalls[e].op
                  /\ favoriteCalls'[e].op.number # op.number)
    <3>1. PICK o : o = favoriteCalls[e].op
      OBVIOUS
    <3> QED
      BY <1>7, <1>9, <2>1, <3>1
  <2>2. ASSUME NEW u \in updates' PROVE u \in updates /\ u.op.number # op.number
    <3>1. PICK o : o = u.op
      OBVIOUS
    <3> QED
      BY <1>7, <1>10, <3>1
  <2> QED
    BY <2>1, <2>2 DEF OpsDiffer
<1>13. \A e \in FavoriteDevices : ReadFits(favoriteCalls[e])'
  BY <1>4, <1>5 DEF ReadFits
<1>14. \A u \in updates' : UpdateFits(u)'
  BY <1>5 DEF UpdateFits, Bare, Active, Seats
<1>15. \A k \in FavoriteIds : favorites'[k].by <= submitted'
  BY <1>5 DEF SlotsTyped, FavoriteRecord
<1>16. BareIsOld' /\ WithinCapacity'
  BY <1>5 DEF BareIsOld, Bare, WithinCapacity, Active, Seats
<1> QED
  BY <1>6, <1>11, <1>12, <1>13, <1>14, <1>15, <1>16

LEMMA ReadRecordStep ==
  ASSUME SlotsInv, NEW d \in FavoriteDevices, ReadRecord(d)
  PROVE  SlotsInv'
<1> DEFINE old == favoriteCalls[d]
<1>1. PICK call : call = [old EXCEPT !.read = favorites,
                            !.pc = IF @ = "record" THEN "slots" ELSE "proof slots"]
  OBVIOUS
<1>2. old \in Call /\ old.pc # "idle" /\ OpFits(old.op)
  BY CallTypes DEF ReadRecord, SlotsInv, OpsFit
<1>3. favorites \in [FavoriteIds -> FavoriteRecord]
  BY DEF SlotsInv, SlotsTyped
<1>4. call \in Call /\ call.op = old.op /\ call.read = favorites
  BY <1>1, <1>2, <1>3 DEF Call
<1>5. ReadFits(call)
  BY <1>2, <1>3, <1>4 DEF ReadFits, OpFits, Operation, FavoriteRecord
<1> HIDE DEF old
<1>6. Goes(d, call) /\ UNCHANGED <<favoriteData, updates, submitted, applied, refused>>
  BY <1>1 DEF ReadRecord, old
<1> QED
  BY <1>2, <1>4, <1>5, <1>6, QuietStep DEF old

LEMMA AttemptRises == \A n \in 1..3 : n # 3 => n + 1 \in 1..3
OBVIOUS

\* Steps that only move a call on.
LEMMA MoveStep ==
  ASSUME SlotsInv, NEW d \in FavoriteDevices,
         TimeOutWrite(d) \/ ReadProof(d) \/ ReadFails(d) \/ RetryOperation(d)
  PROVE  SlotsInv'
<1> DEFINE old == favoriteCalls[d]
<1>1. old \in Call /\ (old.pc # "idle" => OpFits(old.op))
  BY CallTypes DEF SlotsInv, OpsFit
<1>2. \E call \in Call : Goes(d, call) /\ call.pc # "slots"
                         /\ (call.pc # "idle" => old.pc # "idle" /\ call.op = old.op)
  <2>1. CASE TimeOutWrite(d)
    <3>1. PICK call : call = [old EXCEPT !.pc = "proof record", !.failed = TRUE]
      OBVIOUS
    <3>2. call \in Call /\ call.pc = "proof record" /\ call.op = old.op
      BY <1>1, <3>1 DEF Call
    <3> QED
      BY <2>1, <3>1, <3>2 DEF TimeOutWrite
  <2>2. CASE RetryOperation(d)
    <3>1. PICK call : call = [old EXCEPT !.pc = "record"]
      OBVIOUS
    <3>2. call \in Call /\ call.pc = "record" /\ call.op = old.op
      BY <1>1, <3>1 DEF Call
    <3> QED
      BY <2>2, <3>1, <3>2 DEF RetryOperation
  <2>3. ASSUME NEW pc \in {"idle", "blocked"}, Finishes(d, old, pc), old.pc # "idle"
        PROVE  <1>2!:
    <3>1. PICK call : call = [IdleCall EXCEPT !.pc = pc, !.op = IF pc = "idle" THEN 0 ELSE old.op]
      OBVIOUS
    <3>2. call \in Call /\ call.pc = pc /\ (pc # "idle" => call.op = old.op)
      BY <1>1, <3>1, IdleCallType DEF Call, OpFits
    <3> QED
      BY <2>3, <3>1, <3>2 DEF Finishes
  <2>4. CASE ReadFails(d)
    BY <2>3, <2>4 DEF ReadFails
  <2>5. CASE ReadProof(d)
    <3>1. old.pc = "proof slots"
      BY <2>5 DEF ReadProof
    <3>2. CASE \E pc \in {"idle", "blocked"} : Finishes(d, old, pc)
      BY <2>3, <3>1, <3>2
    <3>3. CASE old.attempt # 3 /\ Goes(d, [old EXCEPT !.pc = "record", !.attempt = @ + 1, !.read = <<>>])
      <4>1. PICK call : call = [old EXCEPT !.pc = "record", !.attempt = @ + 1, !.read = <<>>]
        OBVIOUS
      <4>2. call \in Call /\ call.pc = "record" /\ call.op = old.op
        BY <1>1, <3>3, <4>1, AttemptRises DEF Call
      <4> QED
        BY <3>1, <3>3, <4>1, <4>2
    <3> QED
      BY <2>5, <3>2, <3>3 DEF ReadProof, LastAttempt
  <2> QED
    BY <2>1, <2>2, <2>4, <2>5
<1>3. UNCHANGED <<favoriteData, updates, submitted, applied, refused>>
  BY DEF TimeOutWrite, ReadProof, ReadFails, RetryOperation
<1>4. PICK call \in Call : Goes(d, call) /\ call.pc # "slots"
                         /\ (call.pc # "idle" => old.pc # "idle" /\ call.op = old.op)
  BY <1>2
<1>5. ReadFits(call)
  BY <1>4 DEF ReadFits
<1> HIDE DEF old
<1> QED
  BY <1>3, <1>4, <1>5, QuietStep DEF old

LEMMA PlanType ==
  ASSUME NEW records \in [FavoriteIds -> FavoriteRecord], NEW slots \in [SlotNumbers -> Seatables],
         NEW i \in FavoriteIds
  PROVE  /\ Differences(slots, Seated(records, slots, i)) \in SUBSET (SlotNumbers \X Seatables)
         /\ Released(slots, i) \in SUBSET (SlotNumbers \X Seatables)
<1>1. Kept(records, slots, i) \in [SlotNumbers -> Seatables]
  BY DEF Kept, Seatables, Planned, Active
<1>2. Waiting(records, slots, i) \subseteq FavoriteIds
  BY DEF Waiting, Planned, Active
<1>3. \A s \in SlotNumbers : Seated(records, slots, i)[s] \in Seatables
  <2> DEFINE kept == Kept(records, slots, i)
             free == {s \in SlotNumbers : kept[s] = NoFavorite}
             wait == Waiting(records, slots, i)
  <2> SUFFICES ASSUME NEW s \in SlotNumbers PROVE Seated(records, slots, i)[s] \in Seatables
    OBVIOUS
  <2>1. CASE s \in free /\ \E j \in wait : Below(wait, j) = Below(free, s)
    <3>1. Seated(records, slots, i)[s] = CHOOSE j \in wait : Below(wait, j) = Below(free, s)
      BY <2>1 DEF Seated, Below
    <3>2. (CHOOSE j \in wait : Below(wait, j) = Below(free, s)) \in wait
      BY <2>1
    <3> QED
      BY <1>2, <3>1, <3>2 DEF Seatables
  <2>2. CASE ~(s \in free /\ \E j \in wait : Below(wait, j) = Below(free, s))
    <3>1. Seated(records, slots, i)[s] = kept[s]
      BY <2>2 DEF Seated, Below
    <3> QED
      BY <1>1, <3>1
  <2> QED
    BY <2>1, <2>2
<1>4. Seats(slots, i) \subseteq SlotNumbers /\ NoFavorite \in Seatables
  BY DEF Seats, Seatables
<1> QED
  BY <1>3, <1>4 DEF Differences, Released

LEMMA ReadSlotsStep ==
  ASSUME SlotsInv, NEW d \in FavoriteDevices, ReadSlots(d)
  PROVE  SlotsInv'
<1> DEFINE old == favoriteCalls[d]
<1>1. /\ old \in Call /\ old.pc = "slots" /\ OpFits(old.op) /\ ReadFits(old)
      /\ UNCHANGED <<favoriteData, submitted, applied>>
  BY CallTypes DEF SlotsInv, OpsFit, ReadSlots
<1>2. PICK op : op = old.op
  OBVIOUS
<1>3. /\ op \in Operation /\ op.id \in FavoriteIds /\ OpFits(op)
      /\ old.read \in [FavoriteIds -> FavoriteRecord]
      /\ old.read[op.id].generation <= favorites[op.id].generation
      /\ old.read[op.id].generation >= op.base
      /\ old.read[op.id].generation = op.base => old.read[op.id].deleted = (op.kind = "add")
      /\ old.read[op.id].generation \in Nat /\ favorites[op.id].generation \in Nat /\ op.base \in Nat
      /\ favorites \in [FavoriteIds -> FavoriteRecord] /\ favoriteSlots \in [SlotNumbers -> Seatables]
  <2>1. op \in Operation /\ op.id \in FavoriteIds /\ op.base \in Nat /\ OpFits(op)
    BY <1>1, <1>2 DEF OpFits, Operation
  <2>2. /\ old.read \in [FavoriteIds -> FavoriteRecord]
        /\ old.read[op.id].generation <= favorites[op.id].generation
        /\ old.read[op.id].generation >= op.base
        /\ old.read[op.id].generation = op.base => old.read[op.id].deleted = (op.kind = "add")
    BY <1>1, <1>2, <2>1 DEF ReadFits
  <2>3. favorites \in [FavoriteIds -> FavoriteRecord] /\ favoriteSlots \in [SlotNumbers -> Seatables]
    BY DEF SlotsInv, SlotsTyped
  <2> QED
    BY <2>1, <2>2, <2>3 DEF FavoriteRecord
<1>4. CASE /\ Goes(d, [old EXCEPT !.pc = "proof record", !.attempt = 3, !.failed = FALSE])
           /\ UNCHANGED <<updates, refused>>
  <2>1. PICK call : call = [old EXCEPT !.pc = "proof record", !.attempt = 3, !.failed = FALSE]
    OBVIOUS
  <2>2. call \in Call /\ call.pc = "proof record" /\ call.op = old.op
    <3>1. 3 \in 1..3
      OBVIOUS
    <3> QED
      BY <1>1, <2>1, <3>1 DEF Call
  <2>3. ReadFits(call)
    BY <2>2 DEF ReadFits
  <2>4. Goes(d, call) /\ UNCHANGED <<favoriteData, updates, submitted, applied, refused>>
    BY <1>1, <1>4, <2>1
  <2> HIDE DEF old
  <2> QED
    BY <1>1, <2>2, <2>3, <2>4, QuietStep DEF old
<1>5. CASE Finishes(d, old, "blocked") /\ UNCHANGED <<updates, refused>>
  <2>1. PICK call : call = [IdleCall EXCEPT !.pc = "blocked", !.op = old.op]
    OBVIOUS
  <2>2. call \in Call /\ call.pc = "blocked" /\ call.op = old.op
    BY <1>1, <2>1, IdleCallType DEF Call, OpFits
  <2>3. ReadFits(call)
    BY <2>2 DEF ReadFits
  <2>4. Goes(d, call) /\ UNCHANGED <<favoriteData, updates, submitted, applied, refused>>
    BY <1>1, <1>5, <2>1 DEF Finishes
  <2> HIDE DEF old
  <2> QED
    BY <1>1, <2>2, <2>3, <2>4, QuietStep DEF old
<1>6. CASE /\ ~Applies(op, old.read[op.id]) /\ Finishes(d, old, "idle")
           /\ refused' = refused \cup {op.number} /\ UNCHANGED updates
  <2>1. PICK call : call = [IdleCall EXCEPT !.pc = "idle", !.op = 0]
    OBVIOUS
  <2>2. call \in Call /\ call.pc = "idle"
    BY <2>1, IdleCallType DEF Call
  <2>3. ReadFits(call)
    BY <2>2 DEF ReadFits
  <2>4. Goes(d, call)
    BY <1>6, <2>1 DEF Finishes
  <2>5. favorites[op.id].generation > op.base
    BY <1>3, <1>6 DEF Applies
  <2>6. PICK R : R = {op.number}
    OBVIOUS
  <2>7. PICK V : V = {}
    OBVIOUS
  <2>8. \A n \in R : /\ old.pc # "idle" /\ n = old.op.number
                     /\ favorites[old.op.id].generation > old.op.base
    BY <1>1, <1>2, <2>5, <2>6
  <2>9. \A v \in V : v \in Update /\ old.pc # "idle" /\ v.op = old.op /\ UpdateFits(v)
    BY <2>7
  <2>10. updates' = updates \cup V /\ refused' = refused \cup R
    BY <1>6, <2>6, <2>7
  <2> QED
    BY <1>1, <2>2, <2>3, <2>4, <2>8, <2>9, <2>10, CallStep
<1>7. CASE /\ Applies(op, old.read[op.id]) /\ ~(op.kind = "add" /\ OverCapacity(old.read, op.id))
           /\ Goes(d, [old EXCEPT !.pc = "sent", !.failed = FALSE])
           /\ updates' = updates \cup
                {[from |-> d, attempt |-> old.attempt, op |-> op, record |-> Written(op),
                  changes |-> Plan(op, old.read)]}
           /\ UNCHANGED refused
  <2>1. PICK call : call = [old EXCEPT !.pc = "sent", !.failed = FALSE]
    OBVIOUS
  <2>2. call \in Call /\ call.pc = "sent" /\ call.op = old.op
    BY <1>1, <2>1 DEF Call
  <2>3. ReadFits(call)
    BY <2>2 DEF ReadFits
  <2>4. PICK changes : changes = Plan(op, old.read)
    OBVIOUS
  <2>5. PICK v : v = [from |-> d, attempt |-> old.attempt, op |-> op, record |-> Written(op),
                      changes |-> changes]
    OBVIOUS
  <2>6. changes \in SUBSET (SlotNumbers \X Seatables)
    BY <1>3, <2>4, PlanType DEF Plan
  <2>7. v \in Update /\ v.op = op /\ v.record = Written(op) /\ v.changes = changes
    <3>1. Written(op) \in FavoriteRecord
      BY <1>3 DEF Written, FavoriteRecord, Operation
    <3>2. old.attempt \in 1..3
      BY <1>1 DEF Call
    <3> QED
      BY <1>3, <2>5, <2>6, <3>1, <3>2 DEF Update
  <2>8. \A c, e \in changes : c[1] = e[1] => c = e
    BY <2>4 DEF Plan, Differences, Released
  <2>9. ASSUME op.kind = "add", NEW j \in FavoriteIds, Bare(j) PROVE \E c \in changes : c[2] = j
    <3>1. favorites[j].by = 0 /\ j \in Active(favorites) /\ Seats(favoriteSlots, j) = {}
      BY <2>9 DEF SlotsInv, BareIsOld, Bare
    <3>2. old.read[j] = favorites[j]
      BY <1>1, <3>1 DEF ReadFits
    <3>3. j \in Active(old.read)
      BY <3>1, <3>2 DEF Active
    <3>4. ~OverCapacity(old.read, op.id)
      BY <1>7, <2>9
    <3>5. PICK s \in SlotNumbers : Seated(old.read, favoriteSlots, op.id)[s] = j /\ favoriteSlots[s] # j
      BY <1>3, <3>1, <3>3, <3>4, PlanSeats DEF Planned
    <3>6. changes = Differences(favoriteSlots, Seated(old.read, favoriteSlots, op.id))
      BY <2>4, <2>9 DEF Plan
    <3>7. <<s, j>> \in changes
      BY <3>5, <3>6 DEF Differences
    <3> QED
      BY <3>7
  <2>10. UpdateFits(v)
    BY <2>7, <2>8, <2>9 DEF UpdateFits
  <2>11. PICK R : R = {}
    OBVIOUS
  <2>12. PICK V : V = {v}
    OBVIOUS
  <2>13. \A n \in R : /\ old.pc # "idle" /\ n = old.op.number
                     /\ favorites[old.op.id].generation > old.op.base
    BY <2>11
  <2>14. \A w \in V : w \in Update /\ old.pc # "idle" /\ w.op = old.op /\ UpdateFits(w)
    BY <1>1, <1>2, <2>7, <2>10, <2>12
  <2>15. updates' = updates \cup V /\ refused' = refused \cup R /\ Goes(d, call)
    BY <1>7, <2>1, <2>4, <2>5, <2>11, <2>12
  <2> HIDE DEF old
  <2> QED
    BY <1>1, <2>2, <2>3, <2>13, <2>14, <2>15, CallStep DEF old
<1> QED
  BY <1>2, <1>4, <1>5, <1>6, <1>7 DEF ReadSlots

-----------------------------------------------------------------------------
(* Updates that reach the database. *)

Takes(u) ==
  /\ favorites' = [favorites EXCEPT ![u.op.id] = u.record]
  /\ favoriteSlots' = AfterChanges(favoriteSlots, u.changes)
  /\ Allowed(u)

\* The record moves one generation up, from the version the operation was made on.
LEMMA RecordMoves ==
  ASSUME SlotsInv, NEW u \in updates, Takes(u), NEW op, op = u.op
  PROVE  /\ op \in Operation /\ op.number <= submitted /\ op.number \notin applied \cup refused
         /\ favorites[op.id].generation = op.base /\ favorites[op.id].deleted = (op.kind = "add")
         /\ favorites' \in [FavoriteIds -> FavoriteRecord]
         /\ favorites'[op.id] = Written(op)
         /\ \A i \in FavoriteIds \ {op.id} : favorites'[i] = favorites[i]
<1>1. /\ u \in Update /\ OpFits(op) /\ u.record = Written(op)
      /\ favorites \in [FavoriteIds -> FavoriteRecord]
  BY DEF SlotsInv, SlotsTyped, OpsFit, UpdateFits
<1>2. /\ op \in Operation /\ op.id \in FavoriteIds /\ op.number <= submitted /\ op.base \in Nat
      /\ u.record \in FavoriteRecord
  BY <1>1 DEF OpFits, Operation, Update
<1>3. /\ favorites'[op.id] = Written(op) /\ favorites' \in [FavoriteIds -> FavoriteRecord]
      /\ \A i \in FavoriteIds \ {op.id} : favorites'[i] = favorites[i]
  BY <1>1, <1>2 DEF Takes
<1>4. Transition(favorites[op.id], Written(op))
  BY <1>1 DEF Takes, Allowed
<1>5. favorites[op.id].generation \in Nat /\ favorites[op.id].deleted \in BOOLEAN
  BY <1>1, <1>2 DEF FavoriteRecord
<1>6. favorites[op.id].generation = op.base
  BY <1>2, <1>4, <1>5 DEF Transition, Written
<1>7. favorites[op.id].deleted = (op.kind = "add") /\ op.number \notin applied \cup refused
  BY <1>1, <1>2, <1>6 DEF OpFits
<1> QED
  BY <1>2, <1>3, <1>6, <1>7

LEMMA ChangesTake ==
  ASSUME SlotsInv, NEW u \in updates, Takes(u)
  PROVE  /\ favoriteSlots' \in [SlotNumbers -> Seatables]
         /\ \A s \in SlotNumbers :
              \/ favoriteSlots'[s] = favoriteSlots[s]
              \/ Vacant(favorites', favoriteSlots', s)
         /\ \A c \in u.changes : favoriteSlots'[c[1]] = c[2]
<1>1. /\ u.changes \in SUBSET (SlotNumbers \X Seatables)
      /\ \A c, e \in u.changes : c[1] = e[1] => c = e
      /\ favoriteSlots \in [SlotNumbers -> Seatables]
  BY DEF SlotsInv, SlotsTyped, UpdateFits, Update
<1>2. \A c \in u.changes : c[1] \in SlotNumbers /\ c[2] \in Seatables
  BY <1>1
<1>3. /\ \A c \in u.changes : Vacant(favorites', favoriteSlots', c[1])
      /\ favoriteSlots' = AfterChanges(favoriteSlots, u.changes)
  BY DEF Takes, Allowed
<1>4. ASSUME NEW s \in SlotNumbers, ~\E c \in u.changes : c[1] = s
      PROVE  favoriteSlots'[s] = favoriteSlots[s]
  BY <1>3, <1>4 DEF AfterChanges
<1>5. ASSUME NEW c \in u.changes PROVE favoriteSlots'[c[1]] = c[2]
  <2>1. (CHOOSE e \in u.changes : e[1] = c[1]) = c
    BY <1>1
  <2> QED
    BY <1>2, <1>3, <2>1 DEF AfterChanges
<1>6. \A s \in SlotNumbers : favoriteSlots'[s] \in Seatables
  BY <1>1, <1>2, <1>4, <1>5
<1>7. favoriteSlots' \in [SlotNumbers -> Seatables]
  BY <1>3, <1>6 DEF AfterChanges
<1> QED
  BY <1>3, <1>4, <1>5, <1>7

\* An active Favorite that had a seat has one; after an addition every active Favorite has.
LEMMA SeatsStay ==
  ASSUME SlotsInv, NEW u \in updates, Takes(u), NEW j \in FavoriteIds, ~favorites'[j].deleted
  PROVE  /\ j # u.op.id => ~favorites[j].deleted /\ favorites'[j].by = favorites[j].by
         /\ j = u.op.id => Seats(favoriteSlots', j) # {}
         /\ Seats(favoriteSlots, j) # {} => Seats(favoriteSlots', j) # {}
         /\ u.op.kind = "add" => Seats(favoriteSlots', j) # {}
<1>1. PICK op : op = u.op
  OBVIOUS
<1>2. /\ op \in Operation /\ op.id \in FavoriteIds
      /\ \A i \in FavoriteIds \ {op.id} : favorites'[i] = favorites[i]
      /\ favorites'[op.id] = u.record
  BY <1>1, RecordMoves DEF Operation, SlotsInv, UpdateFits
<1>3. j = op.id => Seats(favoriteSlots', j) # {}
  BY <1>1, <1>2 DEF Takes, Allowed
<1>4. ASSUME Seats(favoriteSlots, j) # {} PROVE Seats(favoriteSlots', j) # {}
  <2>1. PICK s \in SlotNumbers : favoriteSlots[s] = j
    BY <1>4 DEF Seats
  <2>2. CASE favoriteSlots'[s] = favoriteSlots[s]
    BY <2>1, <2>2 DEF Seats
  <2>3. CASE Vacant(favorites', favoriteSlots', s)
    <3>1. j # NoFavorite
      BY SlotAssumption DEF SlotAssumption
    <3> QED
      BY <2>1, <2>3, <3>1 DEF Vacant, Seats
  <2> QED
    BY <2>2, <2>3, ChangesTake
<1>5. ASSUME u.op.kind = "add", j # op.id, Seats(favoriteSlots, j) = {}
      PROVE  Seats(favoriteSlots', j) # {}
  <2>1. Bare(j)
    BY <1>2, <1>5 DEF Bare, Active
  <2>2. PICK c \in u.changes : c[2] = j
    BY <1>5, <2>1 DEF SlotsInv, UpdateFits
  <2>3. c[1] \in SlotNumbers /\ favoriteSlots'[c[1]] = j
    BY <2>2, ChangesTake DEF SlotsInv, SlotsTyped, Update
  <2> QED
    BY <2>3 DEF Seats
<1> QED
  BY <1>1, <1>2, <1>3, <1>4, <1>5

LEMMA BareStays ==
  ASSUME SlotsInv, NEW u \in updates, Takes(u), NEW j \in FavoriteIds, Bare(j)'
  PROVE  Bare(j) /\ favorites'[j].by = favorites[j].by
<1>1. ~favorites'[j].deleted /\ Seats(favoriteSlots', j) = {}
  BY DEF Bare, Active, Seats
<1> QED
  BY <1>1, SeatsStay DEF Bare, Active

\* The limit holds: every active Favorite has a seat of its own after an addition.
LEMMA CapacityStays ==
  ASSUME SlotsInv, NEW u \in updates, Takes(u)
  PROVE  WithinCapacity'
<1> DEFINE A == Active(favorites')
<1>1. A \in SUBSET FavoriteIds /\ IsFiniteSet(A)
  BY SlotAssumption, FS_Subset DEF SlotAssumption, Active
<1>2. CASE u.op.kind = "add"
  <2> DEFINE f == [j \in A |-> CHOOSE s \in SlotNumbers : favoriteSlots'[s] = j]
  <2>1. \A j \in A : \E s \in SlotNumbers : favoriteSlots'[s] = j
    <3> SUFFICES ASSUME NEW j \in A PROVE \E s \in SlotNumbers : favoriteSlots'[s] = j
      OBVIOUS
    <3>1. j \in FavoriteIds /\ ~favorites'[j].deleted
      BY DEF Active
    <3>2. Seats(favoriteSlots', j) # {}
      BY <1>2, <3>1, SeatsStay
    <3> QED
      BY <3>2 DEF Seats
  <2>2. \A j \in A : f[j] \in SlotNumbers /\ favoriteSlots'[f[j]] = j
    BY <2>1
  <2>3. f \in Injection(A, SlotNumbers)
    BY <2>2 DEF Injection, IsInjective
  <2>4. Cardinality(A) <= Cardinality(SlotNumbers)
    BY <2>3, <1>1, SlotsFinite, FS_Injection
  <2> QED
    BY <2>4, SlotsFinite DEF WithinCapacity, Active
<1>3. CASE u.op.kind # "add"
  <2>1. PICK op : op = u.op
    OBVIOUS
  <2>2. /\ \A i \in FavoriteIds \ {op.id} : favorites'[i] = favorites[i]
        /\ favorites'[op.id].deleted
    <3>1. /\ op \in Operation /\ favorites'[op.id] = Written(op)
          /\ \A i \in FavoriteIds \ {op.id} : favorites'[i] = favorites[i]
      BY <2>1, RecordMoves
    <3>2. op.kind = "delete"
      BY <1>3, <2>1, <3>1 DEF Operation
    <3>3. Written(op).deleted
      BY <3>2 DEF Written
    <3> QED
      BY <3>1, <3>3
  <2>3. A \in SUBSET Active(favorites) /\ IsFiniteSet(Active(favorites))
    BY <2>2, SlotAssumption, FS_Subset DEF SlotAssumption, Active
  <2>4. Cardinality(A) <= Cardinality(Active(favorites))
    BY <2>3, FS_Subset
  <2>5. Cardinality(A) \in Nat /\ Cardinality(Active(favorites)) \in Nat
    BY <1>1, <2>3, FS_CardinalityType
  <2>6. Cardinality(Active(favorites)) <= Capacity
    BY DEF SlotsInv, WithinCapacity
  <2>7. Cardinality(A) <= Capacity
    BY <2>4, <2>5, <2>6, SlotsFinite
  <2> QED
    BY <2>7 DEF WithinCapacity, Active
<1> QED
  BY <1>2, <1>3

LEMMA LandStep ==
  ASSUME SlotsInv, NEW u \in updates, Land(u)
  PROVE  SlotsInv'
<1>1. /\ favoriteCalls' \in [FavoriteDevices -> Call]
      /\ \A d \in FavoriteDevices :
           /\ favoriteCalls'[d].pc # "idle" =>
                favoriteCalls[d].pc # "idle" /\ favoriteCalls'[d].op = favoriteCalls[d].op
           /\ favoriteCalls'[d].pc = "slots" => favoriteCalls'[d] = favoriteCalls[d]
      /\ updates' \subseteq updates /\ updates \subseteq Update
      /\ UNCHANGED <<unseated, submitted, refused>>
  <2>1. favoriteCalls \in [FavoriteDevices -> Call] /\ updates \subseteq Update
    BY DEF SlotsInv, SlotsTyped
  <2>2. CASE UNCHANGED favoriteCalls
    BY <2>1, <2>2 DEF Land
  <2>3. CASE Awaits(u.from, u) /\ Goes(u.from, [favoriteCalls[u.from] EXCEPT !.pc = "proof record"])
    <3>1. u.from \in FavoriteDevices /\ favoriteCalls[u.from] \in Call /\ favoriteCalls[u.from].pc = "sent"
      BY <2>1, <2>3 DEF Update, Awaits
    <3>2. PICK call : call = [favoriteCalls[u.from] EXCEPT !.pc = "proof record"]
      OBVIOUS
    <3>3. call \in Call /\ call.pc = "proof record" /\ call.op = favoriteCalls[u.from].op
      BY <3>1, <3>2 DEF Call
    <3>4. favoriteCalls' = [favoriteCalls EXCEPT ![u.from] = call]
      BY <2>3, <3>2 DEF Goes
    <3>5. favoriteCalls' \in [FavoriteDevices -> Call]
      BY <2>1, <3>3, <3>4
    <3>6. \A d \in FavoriteDevices : favoriteCalls'[d] = IF d = u.from THEN call ELSE favoriteCalls[d]
      BY <2>1, <3>4
    <3> QED
      BY <2>1, <3>1, <3>3, <3>5, <3>6 DEF Land
  <2> QED
    BY <2>2, <2>3 DEF Land
<1>2. OpsDiffer'
  BY <1>1 DEF SlotsInv, OpsDiffer
<1>3. /\ \A d \in FavoriteDevices : favoriteCalls'[d].pc # "idle" => OpFits(favoriteCalls[d].op)
      /\ \A v \in updates' : OpFits(v.op)
  BY <1>1 DEF SlotsInv, OpsFit
<1>4. ASSUME \A o : OpFits(o) /\ (o.number = u.op.number => o = u.op) => OpFits(o)'
      PROVE  OpsFit'
  <2>1. ASSUME NEW d \in FavoriteDevices, favoriteCalls'[d].pc # "idle"
        PROVE  OpFits(favoriteCalls[d].op)'
    <3>1. PICK o : o = favoriteCalls[d].op
      OBVIOUS
    <3>2. favoriteCalls'[d].op = o /\ OpFits(o) /\ (o.number = u.op.number => o = u.op)
      BY <1>1, <1>3, <2>1, <3>1 DEF SlotsInv, OpsDiffer
    <3>3. OpFits(o)'
      BY <1>4, <3>2
    <3> QED
      BY <3>2, <3>3 DEF OpFits
  <2>2. ASSUME NEW v \in updates' PROVE OpFits(v.op)'
    <3>1. PICK o : o = v.op
      OBVIOUS
    <3>2. OpFits(o) /\ (o.number = u.op.number => o = u.op)
      BY <1>1, <1>3, <3>1 DEF SlotsInv, OpsDiffer
    <3>3. OpFits(o)'
      BY <1>4, <3>2
    <3> QED
      BY <3>1, <3>3 DEF OpFits
  <2> QED
    BY <2>1, <2>2 DEF OpsFit
<1>5. CASE UNCHANGED <<favorites, favoriteSlots, applied>>
  <2>1. SlotsTyped' /\ BareIsOld' /\ WithinCapacity' /\ \A i \in FavoriteIds : favorites'[i].by <= submitted'
    BY <1>1, <1>5 DEF SlotsInv, SlotsTyped, BareIsOld, Bare, WithinCapacity, Active, Seats
  <2>2. \A d \in FavoriteDevices : ReadFits(favoriteCalls[d])'
    BY <1>1, <1>5 DEF SlotsInv, ReadFits
  <2>3. \A v \in updates' : UpdateFits(v)'
    BY <1>1, <1>5 DEF SlotsInv, UpdateFits, Bare, Active, Seats
  <2>4. ASSUME NEW o, OpFits(o) PROVE OpFits(o)'
    BY <1>1, <1>5, <2>4 DEF OpFits
  <2> QED
    BY <1>2, <1>4, <2>1, <2>2, <2>3, <2>4 DEF SlotsInv
<1>6. CASE Takes(u) /\ applied' = applied \cup {u.op.number}
  <2>1. PICK op : op = u.op
    OBVIOUS
  <2>2. /\ op \in Operation /\ op.id \in FavoriteIds /\ op.number <= submitted /\ op.number \in Nat \ {0}
        /\ favorites[op.id].generation = op.base
        /\ favorites' \in [FavoriteIds -> FavoriteRecord]
        /\ favorites'[op.id] = Written(op)
        /\ \A i \in FavoriteIds \ {op.id} : favorites'[i] = favorites[i]
    BY <1>6, <2>1, RecordMoves DEF Operation
  <2>3. /\ favorites'[op.id].generation = op.base + 1 /\ favorites'[op.id].by = op.number /\ op.base \in Nat
        /\ favorites \in [FavoriteIds -> FavoriteRecord]
        /\ submitted \in Nat /\ applied \cup refused \subseteq 1..submitted
    BY <2>2 DEF Written, Operation, SlotsInv, SlotsTyped
  <2>4. SlotsTyped'
    <3>1. applied' \cup refused' \subseteq 1..submitted'
      BY <1>1, <1>6, <2>1, <2>2, <2>3
    <3>2. favoriteSlots' \in [SlotNumbers -> Seatables]
      BY <1>6, ChangesTake
    <3>3. unseated' \subseteq FavoriteIds /\ submitted' \in Nat /\ updates' \subseteq Update
      BY <1>1 DEF SlotsInv, SlotsTyped
    <3> QED
      BY <1>1, <2>2, <3>1, <3>2, <3>3 DEF SlotsTyped
  <2>5. ASSUME NEW i \in FavoriteIds
        PROVE  /\ favorites[i].generation \in Nat /\ favorites'[i].generation \in Nat
               /\ favorites[i].generation <= favorites'[i].generation
               /\ favorites[i].generation = favorites'[i].generation => favorites'[i] = favorites[i]
               /\ favorites'[i].by = 0 => favorites'[i] = favorites[i]
               /\ favorites'[i].by <= submitted
    <3>1. favorites[i].generation \in Nat /\ favorites'[i].generation \in Nat
      BY <2>2, <2>3 DEF FavoriteRecord
    <3>2. favorites[i].by <= submitted
      BY DEF SlotsInv
    <3>3. CASE i = op.id
      BY <2>2, <2>3, <3>1, <3>3
    <3>4. CASE i # op.id
      BY <2>2, <3>1, <3>2, <3>4
    <3> QED
      BY <3>3, <3>4
  <2>6. ASSUME NEW o, OpFits(o), o.number = op.number => o = op PROVE OpFits(o)'
    <3>1. /\ o \in Operation /\ o.id \in FavoriteIds /\ o.base \in Nat /\ o.number <= submitted'
          /\ favorites[o.id].generation >= o.base
      BY <1>1, <2>6 DEF OpFits, Operation
    <3>2. favorites'[o.id].generation >= o.base
      BY <2>5, <3>1
    <3>3. favorites'[o.id].generation = o.base => favorites'[o.id].deleted = (o.kind = "add")
      BY <2>5, <2>6, <3>1 DEF OpFits
    <3>4. o.number \in applied' \cup refused' => favorites'[o.id].generation > o.base
      <4>1. CASE o.number \in applied \cup refused
        <5>1. favorites[o.id].generation > o.base
          BY <2>6, <4>1 DEF OpFits
        <5> QED
          BY <2>5, <3>1, <5>1
      <4>2. CASE o = op
        BY <2>3, <4>2
      <4> QED
        BY <1>1, <1>6, <2>1, <2>6, <4>1, <4>2
    <3> QED
      BY <3>1, <3>2, <3>3, <3>4 DEF OpFits
  <2>7. OpsFit'
    BY <1>4, <2>1, <2>6
  <2>8. BareIsOld'
    BY <1>1, <1>6, BareStays DEF SlotsInv, BareIsOld
  <2>9. ASSUME NEW d \in FavoriteDevices PROVE ReadFits(favoriteCalls[d])'
    <3> SUFFICES ASSUME favoriteCalls'[d].pc = "slots" PROVE ReadFits(favoriteCalls[d])'
      BY DEF ReadFits
    <3>1. favoriteCalls'[d] = favoriteCalls[d]
      BY <1>1
    <3>2. PICK call : call = favoriteCalls[d]
      OBVIOUS
    <3>3. /\ ReadFits(call) /\ call.pc = "slots"
      BY <3>1, <3>2 DEF SlotsInv
    <3>4. call.read \in [FavoriteIds -> FavoriteRecord]
      BY <3>3 DEF ReadFits
    <3>5. \A i \in FavoriteIds :
             /\ call.read[i].generation <= favorites'[i].generation
             /\ favorites'[i].by = 0 => call.read[i] = favorites'[i]
      <4> SUFFICES ASSUME NEW i \in FavoriteIds
                   PROVE  /\ call.read[i].generation <= favorites'[i].generation
                          /\ favorites'[i].by = 0 => call.read[i] = favorites'[i]
        OBVIOUS
      <4>1. call.read[i].generation \in Nat /\ call.read[i].generation <= favorites[i].generation
        BY <3>3, <3>4 DEF ReadFits, FavoriteRecord
      <4>2. call.read[i].generation <= favorites'[i].generation
        BY <2>5, <4>1
      <4> QED
        BY <2>5, <3>3, <4>2 DEF ReadFits
    <3>6. ReadFits(call)'
      BY <3>3, <3>5 DEF ReadFits
    <3> QED
      BY <3>1, <3>2, <3>6 DEF ReadFits
  <2>10. ASSUME NEW v \in updates' PROVE UpdateFits(v)'
    <3>1. UpdateFits(v)
      BY <1>1 DEF SlotsInv
    <3> QED
      BY <1>6, <3>1, BareStays DEF UpdateFits
  <2>11. \A i \in FavoriteIds : favorites'[i].by <= submitted'
    BY <1>1, <2>5
  <2>12. WithinCapacity'
    BY <1>6, CapacityStays
  <2> QED
    BY <1>2, <2>4, <2>7, <2>8, <2>9, <2>10, <2>11, <2>12 DEF SlotsInv
<1> QED
  BY <1>5, <1>6 DEF Land, Takes, Allowed

-----------------------------------------------------------------------------
LEMMA SlotsInitHolds == SlotsInit => SlotsInv
<1> SUFFICES ASSUME SlotsInit PROVE SlotsInv
  OBVIOUS
<1>1. PICK seated \in SUBSET FavoriteIds, old \in SUBSET FavoriteIds :
        /\ old \in SUBSET (FavoriteIds \ seated)
        /\ Cardinality(seated) + Cardinality(old) <= Capacity
        /\ unseated = old
        /\ favorites = [i \in FavoriteIds |->
                         IF i \in seated \union old THEN [generation |-> 1, deleted |-> FALSE, by |-> 0]
                         ELSE NoRecord]
        /\ favoriteSlots \in [SlotNumbers -> seated \union {NoFavorite}]
        /\ \A i \in seated : Cardinality(Seats(favoriteSlots, i)) = 1
  BY DEF SlotsInit
<1>2. /\ favoriteCalls = [d \in FavoriteDevices |-> IdleCall]
      /\ updates = {} /\ submitted = 0 /\ applied = {} /\ refused = {}
  BY DEF SlotsInit
<1>3. /\ \A i \in FavoriteIds : favorites[i] \in FavoriteRecord /\ favorites[i].by = 0
      /\ favorites \in [FavoriteIds -> FavoriteRecord]
  BY <1>1 DEF NoRecord, FavoriteRecord
<1>4. favoriteSlots \in [SlotNumbers -> Seatables] /\ unseated \subseteq FavoriteIds
  BY <1>1 DEF Seatables
<1>5. favoriteCalls \in [FavoriteDevices -> Call]
  BY <1>2, IdleCallType
<1>6. SlotsTyped
  BY <1>2, <1>3, <1>4, <1>5 DEF SlotsTyped
<1>7. \A d \in FavoriteDevices : favoriteCalls[d].pc = "idle"
  BY <1>2 DEF IdleCall
<1>8. OpsFit /\ OpsDiffer /\ \A d \in FavoriteDevices : ReadFits(favoriteCalls[d])
  BY <1>2, <1>7 DEF OpsFit, OpsDiffer, ReadFits
<1>9. Active(favorites) = seated \cup old
  BY <1>1 DEF Active, NoRecord
<1>10. BareIsOld
  <2> SUFFICES ASSUME NEW i \in FavoriteIds, Bare(i) PROVE i \in unseated
    BY <1>3 DEF BareIsOld
  <2>1. i \in seated \cup old /\ Seats(favoriteSlots, i) = {}
    BY <1>9 DEF Bare
  <2>2. Cardinality(Seats(favoriteSlots, i)) = 0
    BY <2>1, FS_EmptySet
  <2>3. i \notin seated
    BY <1>1, <2>2
  <2> QED
    BY <1>1, <2>1, <2>3
<1>11. WithinCapacity
  <2>1. IsFiniteSet(seated) /\ IsFiniteSet(old) /\ seated \cap old = {}
    BY <1>1, SlotAssumption, FS_Subset DEF SlotAssumption
  <2>2. Cardinality(seated \cup old) = Cardinality(seated) + Cardinality(old) - Cardinality(seated \cap old)
    BY <2>1, FS_Union
  <2>3. Cardinality(seated) \in Nat /\ Cardinality(old) \in Nat /\ Cardinality(seated \cap old) = 0
    BY <2>1, FS_CardinalityType, FS_EmptySet
  <2>4. Cardinality(seated \cup old) <= Capacity
    BY <1>1, <2>2, <2>3, SlotsFinite
  <2> QED
    BY <1>9, <2>4 DEF WithinCapacity
<1>12. \A i \in FavoriteIds : favorites[i].by <= submitted
  BY <1>2, <1>3
<1>13. \A u \in updates : UpdateFits(u)
  BY <1>2
<1> QED
  BY <1>6, <1>8, <1>10, <1>11, <1>12, <1>13 DEF SlotsInv

LEMMA SlotsStepHolds == SlotsInv /\ [SlotsNext]_slotVars => SlotsInv'
<1> SUFFICES ASSUME SlotsInv, [SlotsNext]_slotVars PROVE SlotsInv'
  OBVIOUS
<1>1. CASE UNCHANGED slotVars
  BY <1>1 DEF slotVars, favoriteData, SlotsInv, SlotsTyped, BareIsOld, Bare, OpsFit, OpFits, OpsDiffer,
              ReadFits, UpdateFits, WithinCapacity, Active, Seats
<1>2. CASE \E d \in FavoriteDevices :
             \/ \E i \in FavoriteIds : Submit(d, i)
             \/ ReadRecord(d) \/ ReadSlots(d) \/ TimeOutWrite(d) \/ ReadProof(d)
             \/ ReadFails(d) \/ RetryOperation(d)
  BY <1>2, SubmitStep, ReadRecordStep, ReadSlotsStep, MoveStep
<1>3. CASE \E u \in updates : Land(u)
  BY <1>3, LandStep
<1> QED
  BY <1>1, <1>2, <1>3 DEF SlotsNext

LEMMA SlotsInvariance == SlotsSpec => []SlotsInv
BY SlotsInitHolds, SlotsStepHolds, PTL DEF SlotsSpec

-----------------------------------------------------------------------------
LEMMA SlotsHold == SlotsInv => SeatsHold
<1> SUFFICES ASSUME SlotsInv PROVE SeatsHold
  OBVIOUS
<1>1. SlotsTypeOK
  <2>1. \A i \in FavoriteIds : /\ favorites[i].generation \in Nat /\ favorites[i].by \in Nat
                               /\ favorites[i].by <= submitted /\ submitted \in Nat
    BY DEF SlotsInv, SlotsTyped, FavoriteRecord
  <2>2. favoriteSlots \in [SlotNumbers -> FavoriteIds \cup {NoFavorite}]
    BY DEF SlotsInv, SlotsTyped, Seatables
  <2>3. \A d \in FavoriteDevices : favoriteCalls[d].attempt \in 1..3
    BY CallTypes DEF SlotsInv, Call
  <2> QED
    BY <2>1, <2>2, <2>3 DEF SlotsTypeOK
<1>2. SeatedStaySeated
  BY DEF SlotsInv, BareIsOld, Bare, Active, SeatedStaySeated
<1> QED
  BY <1>1, <1>2 DEF SlotsInv, SeatsHold

\* Late and stale updates neither pass the limit nor cost a Favorite its seat, whatever the limit,
\* the number of devices and of operations (applyAddition, applyDeletion and the rules together).
THEOREM AccountHolds == SlotsSpec => []SeatsHold
BY SlotsInvariance, SlotsHold, PTL

\* Only an update that the rules allow changes a record or what has been applied.
LEMMA OnlyLandings ==
  ASSUME SlotsInv, [SlotsNext]_slotVars
  PROVE  \/ UNCHANGED <<favorites, applied>>
         \/ \E u \in updates : Takes(u) /\ applied' = applied \cup {u.op.number}
BY DEF SlotsNext, slotVars, favoriteData, Submit, ReadRecord, ReadSlots, TimeOutWrite, ReadProof,
       ReadFails, RetryOperation, Land, Takes

LEMMA LateWriteRefused ==
  ASSUME SlotsInv, [SlotsNext]_slotVars, NEW n \in 1..submitted, NEW i \in FavoriteIds,
         favorites'[i].by = n, favorites[i].by # n
  PROVE  n \notin applied \cup refused
<1>1. PICK u \in updates : Takes(u) /\ applied' = applied \cup {u.op.number}
  BY OnlyLandings
<1>2. PICK op : op = u.op
  OBVIOUS
<1>3. op.number \notin applied \cup refused /\ favorites'[op.id] = Written(op)
      /\ \A k \in FavoriteIds \ {op.id} : favorites'[k] = favorites[k]
  BY <1>1, <1>2, RecordMoves
<1>4. i = op.id /\ n = op.number
  BY <1>3 DEF Written
<1> QED
  BY <1>3, <1>4

LEMMA AdditionSeatsAll ==
  ASSUME SlotsInv, [SlotsNext]_slotVars, NEW u \in updates, u.op.kind = "add",
         applied' = applied \cup {u.op.number}, applied' # applied, NEW i \in Active(favorites')
  PROVE  Seats(favoriteSlots', i) # {}
<1>1. PICK v \in updates : Takes(v) /\ applied' = applied \cup {v.op.number}
  BY OnlyLandings
<1>2. v.op.number = u.op.number
  BY <1>1
<1>3. v.op = u.op
  BY <1>2 DEF SlotsInv, OpsDiffer
<1>4. i \in FavoriteIds /\ ~favorites'[i].deleted
  BY DEF Active
<1> QED
  BY <1>1, <1>3, <1>4, SeatsStay

\* An update that lands late is refused when its operation has been answered, and one that is
\* applied leaves no Favorite without a seat.
THEOREM LateUpdates == SlotsSpec => LandingsAreSound
<1>1. SlotsInv /\ [SlotsNext]_slotVars =>
        [\A n \in 1..submitted :
           (\E i \in FavoriteIds : favorites'[i].by = n /\ favorites[i].by # n) => n \notin applied \union refused]_slotVars
  BY LateWriteRefused
<1>2. SlotsInv /\ [SlotsNext]_slotVars =>
        [\A u \in updates :
           (u.op.kind = "add" /\ applied' = applied \union {u.op.number} /\ applied' # applied) =>
             \A i \in Active(favorites') : Seats(favoriteSlots', i) # {}]_slotVars
  BY AdditionSeatsAll
<1> QED
  BY <1>1, <1>2, SlotsInvariance, PTL DEF SlotsSpec, LandingsAreSound, LateWritesAreRefused, AdditionsSeatAll
----------------------------------------------------------------------------
(***************************************************************************)
(* The ledger of a run.  Only the holder of the lock moves HEAD, and only  *)
(* from the ledger its input was written for (CommandFits); a ledger never *)
(* forgets (Grows); so what the other stores were given under one ledger   *)
(* agrees with every later one (StoresFit).                                *)
(***************************************************************************)
Stages == POST_ENABLE_STAGES \cup
  {"A_READY", "PRE_ENABLE_ABORTED", "RESTORED_OBSERVATION_PENDING", "CLOSED_BLOCKED", "CLOSED_HEALTHY"}

Ledger ==
  [ stage : Stages, dispatches : [Slots -> Operators \cup {Nobody}],
    terminals : [Slots -> {Nobody, "receipt", "no receipt"}], completed : SUBSET Slots,
    gates : BOOLEAN, outcome : {"pending", "blocked", "healthy"} ]

\* What a stage says of the dispatches and their ends, beyond what the validation compares.
StageFits(ledger) ==
  /\ ledger.stage \in {"A_READY", "ENABLEMENT_STARTED", "PRE_ENABLE_ABORTED"} =>
       ledger.dispatches["A"] = Nobody /\ ledger.dispatches["B"] = Nobody
  /\ ledger.stage = "A_DISPATCH_COMMITTED" =>
       ledger.dispatches["A"] # Nobody /\ ledger.terminals["A"] = Nobody
  /\ ledger.stage = "A_RECONCILED_SESSION_BOUNDARY_PENDING" => ledger.terminals["A"] = "receipt"
  /\ ledger.stage = "A_RECONCILED_B_PENDING" => ledger.dispatches["B"] = Nobody
  /\ ledger.stage = "B_DISPATCH_COMMITTED" =>
       ledger.dispatches["B"] # Nobody /\ ledger.terminals["B"] = Nobody
  /\ ledger.stage = "RESTORED_OBSERVATION_PENDING" /\ ledger.outcome # "blocked" =>
       ledger.completed = Slots

Good(ledger) == ledger \in Ledger /\ ValidLedger(ledger) /\ StageFits(ledger)

Capability == [slot : Slots, attempt : Operators]

GatewayCall == [pc : {"presented", "admitted", "answered", "failed"}, capability : Capability]

Process ==
  [ pc : {"idle", "prepared", "locked", "validated", "written", "replaced", "signing", "dead"},
    command : Commands \cup {Nobody},
    value : Operators \cup Commands \cup {"receipt", "no receipt", Nobody},
    prior : Nat, next : Ledger \cup {Nobody} ]

LedgerTyped ==
  /\ Good(head) /\ sequence \in Nat /\ files \in Nat
  /\ lockOwner \in Operators \cup {Nobody}
  /\ operators \in [Operators -> Process]
  /\ capabilities \subseteq Capability
  /\ consumptions \in [Slots -> Operators \cup {Nobody}]
  /\ reconciliations \in [Slots -> Operators \cup {Nobody}]
  /\ closeout \in {Nobody, "healthy", "blocked", "abort"}
  /\ gatewayCalls \in Seq(GatewayCall)
  /\ authorityCalls \in [Slots -> 0..1]
  /\ gatesOn \in BOOLEAN /\ runtimeAlive \in BOOLEAN

\* What the evidence of a command says of the ledger ...
Fits(ledger, command, value) ==
  /\ command \in Commands /\ ledger.stage \in StagesOf(command)
  /\ command = "dispatch" => value \in Operators
  /\ command = "terminal" => value \in {"receipt", "no receipt"}
  /\ command = "a-reconciliation" => ledger.terminals["A"] = "receipt"
  /\ command = "b-reconciliation" => ledger.terminals["B"] = "receipt"

\* ... and of the control records.
Backed(ledger, command) ==
  /\ command = "session-boundary" => reconciliations["A"] # Nobody
  /\ command = "b-reconciliation" => reconciliations["B"] # Nobody
  /\ command = "closeout" => closeout = (IF ledger.outcome = "blocked" THEN "blocked" ELSE "healthy")

Holding == {"locked", "validated", "written", "replaced", "dead"}

\* A command is for the ledger at HEAD, or for one that HEAD has left for ever.
CommandFits(op) ==
  /\ op.pc \in {"prepared", "locked"} =>
       /\ op.prior <= sequence
       /\ op.prior = sequence => Fits(head, op.command, op.value) /\ Backed(head, op.command)
  /\ op.pc \in {"validated", "written"} =>
       /\ op.prior = sequence
       /\ Fits(head, op.command, op.value) /\ Backed(head, op.command)
       /\ op.next = Advance(head, op.command, op.value)
       /\ files = sequence + (IF op.pc = "validated" THEN 1 ELSE 2)
  /\ op.pc \in {"replaced", "signing"} /\ op.command = "dispatch" =>
       op.value \in Operators /\ head.dispatches[SlotOf(op.next)] = op.value
  /\ op.pc = "signing" => op.command = "dispatch"
  /\ op.next = Nobody \/ Good(op.next)

CommandsFit ==
  /\ \A p \in Operators : CommandFits(operators[p])
  /\ \A p \in Operators : lockOwner = p <=> operators[p].pc \in Holding

StoresFit ==
  /\ \A c \in capabilities : head.dispatches[c.slot] = c.attempt
  /\ \A s \in Slots :
       /\ consumptions[s] # Nobody => consumptions[s] = head.dispatches[s]
       /\ authorityCalls[s] = 1 => consumptions[s] # Nobody
       /\ reconciliations[s] # Nobody => reconciliations[s] = consumptions[s] /\ authorityCalls[s] = 1
       /\ s \in head.completed => reconciliations[s] # Nobody
  /\ consumptions["B"] # Nobody => reconciliations["A"] # Nobody
  /\ closeout = "healthy" =>
       head.stage \in {"RESTORED_OBSERVATION_PENDING", "CLOSED_HEALTHY"} /\ head.outcome # "blocked"
  /\ head.stage = "CLOSED_HEALTHY" => closeout = "healthy"

CallFits(call) ==
  /\ call.capability \in capabilities
  /\ call.pc = "admitted" =>
       consumptions[call.capability.slot] # Nobody /\ authorityCalls[call.capability.slot] = 0
  /\ call.pc = "answered" => authorityCalls[call.capability.slot] = 1

CallsFit ==
  /\ \A g \in DOMAIN gatewayCalls : CallFits(gatewayCalls[g])
  /\ \A g, h \in DOMAIN gatewayCalls :
       /\ gatewayCalls[g].pc = "admitted" /\ gatewayCalls[h].pc = "admitted"
       /\ gatewayCalls[g].capability.slot = gatewayCalls[h].capability.slot
       => g = h

LedgerInv == LedgerTyped /\ CommandsFit /\ StoresFit /\ CallsFit

-----------------------------------------------------------------------------
(* A ledger that a command advances to. *)

Grows(old, new) ==
  /\ \A s \in Slots : /\ old.dispatches[s] # Nobody => new.dispatches[s] = old.dispatches[s]
                      /\ old.terminals[s] # Nobody => new.terminals[s] = old.terminals[s]
  /\ old.completed \subseteq new.completed
  /\ old.outcome = "blocked" => new.outcome = "blocked"

LEMMA NobodyDiffers ==
  /\ Nobody \notin Operators /\ Nobody \notin {"receipt", "no receipt", "healthy", "blocked", "abort"}
BY LedgerAssumption DEF LedgerAssumption

\* What is recorded for one slot leaves the other alone.
LEMMA SlotRecorded ==
  ASSUME NEW T, NEW f \in [Slots -> T], NEW s \in Slots, NEW v \in T
  PROVE  LET g == [f EXCEPT ![s] = v]
         IN  g \in [Slots -> T] /\ g[s] = v /\ \A o \in Slots : o # s => g[o] = f[o]
OBVIOUS

LEMMA SlotsAre == "A" \in Slots /\ "B" \in Slots /\ \A s \in Slots : s = "A" \/ s = "B"
BY DEF Slots

\* The next ledger passes the validation, and forgets nothing.
LEMMA AdvanceHolds ==
  ASSUME NEW ledger, Good(ledger), NEW command, NEW value, Fits(ledger, command, value),
         NEW next, next = Advance(ledger, command, value)
  PROVE  Good(next) /\ Grows(ledger, next)
<1> USE NobodyDiffers
<1>1. /\ ledger \in Ledger /\ ledger.stage \in Stages
      /\ ledger.dispatches \in [Slots -> Operators \cup {Nobody}]
      /\ ledger.terminals \in [Slots -> {Nobody, "receipt", "no receipt"}]
      /\ ledger.completed \in SUBSET Slots /\ ledger.gates \in BOOLEAN
      /\ ledger.outcome \in {"pending", "blocked", "healthy"}
      /\ ValidLedger(ledger) /\ StageFits(ledger)
  BY DEF Good, Ledger
<1>a. \A s \in Slots : /\ ledger.terminals[s] # Nobody => ledger.dispatches[s] # Nobody
                       /\ s \in ledger.completed => ledger.terminals[s] = "receipt"
  BY <1>1 DEF ValidLedger
<1>2. CASE command = "enablement-start"
  <2>1. ledger.stage = "A_READY"
    BY <1>2 DEF Fits, StagesOf
  <2>2. next = [ledger EXCEPT !.stage = "ENABLEMENT_STARTED"]
    BY <1>2 DEF Advance
  <2>3. /\ next.stage = "ENABLEMENT_STARTED"
        /\ next.dispatches = ledger.dispatches /\ next.terminals = ledger.terminals /\ next.completed = ledger.completed
        /\ next.gates = ledger.gates
        /\ next.outcome = ledger.outcome
    BY <1>1, <2>2 DEF Ledger
  <2>4. next \in Ledger
    BY <1>1, <2>2 DEF Ledger, Stages, POST_ENABLE_STAGES, Slots, Successful
  <2>5. ValidLedger(next)
    BY <1>1, <1>2, <2>1, <2>3 DEF ValidLedger, StageFits, Fits, Slots, POST_ENABLE_STAGES, BlockedStages, AnyPrefix
  <2>6. StageFits(next)
    BY <1>1, <1>2, <2>1, <2>3 DEF StageFits, Fits, ValidLedger, Slots, POST_ENABLE_STAGES, BlockedStages, AnyPrefix
  <2>7. Grows(ledger, next)
    BY <1>1, <1>2, <2>1, <2>3 DEF Grows, StageFits, ValidLedger, Slots, POST_ENABLE_STAGES, BlockedStages, AnyPrefix
  <2> QED
    BY <2>4, <2>5, <2>6, <2>7 DEF Good
<1>3. CASE command = "pre-enable-abort"
  <2>1. ledger.stage = "A_READY"
    BY <1>3 DEF Fits, StagesOf
  <2>2. next = [ledger EXCEPT !.stage = "PRE_ENABLE_ABORTED", !.outcome = "blocked"]
    BY <1>3 DEF Advance
  <2>3. /\ next.stage = "PRE_ENABLE_ABORTED" /\ next.outcome = "blocked"
        /\ next.dispatches = ledger.dispatches /\ next.terminals = ledger.terminals /\ next.completed = ledger.completed
        /\ next.gates = ledger.gates
    BY <1>1, <2>2 DEF Ledger
  <2>4. next \in Ledger
    BY <1>1, <2>2 DEF Ledger, Stages, POST_ENABLE_STAGES, Slots, Successful
  <2>5. ValidLedger(next)
    BY <1>1, <1>3, <2>1, <2>3 DEF ValidLedger, StageFits, Fits, Slots, POST_ENABLE_STAGES, BlockedStages, AnyPrefix
  <2>6. StageFits(next)
    BY <1>1, <1>3, <2>1, <2>3 DEF StageFits, Fits, ValidLedger, Slots, POST_ENABLE_STAGES, BlockedStages, AnyPrefix
  <2>7. Grows(ledger, next)
    BY <1>1, <1>3, <2>1, <2>3 DEF Grows, StageFits, ValidLedger, Slots, POST_ENABLE_STAGES, BlockedStages, AnyPrefix
  <2> QED
    BY <2>4, <2>5, <2>6, <2>7 DEF Good
<1>4. CASE command = "a-reconciliation"
  <2>1. ledger.stage = "A_TERMINAL_UNRECONCILED"
    BY <1>4 DEF Fits, StagesOf
  <2>2. next = [ledger EXCEPT !.stage = "A_RECONCILED_SESSION_BOUNDARY_PENDING"]
    BY <1>4 DEF Advance
  <2>3. /\ next.stage = "A_RECONCILED_SESSION_BOUNDARY_PENDING"
        /\ next.dispatches = ledger.dispatches /\ next.terminals = ledger.terminals /\ next.completed = ledger.completed
        /\ next.gates = ledger.gates
        /\ next.outcome = ledger.outcome
    BY <1>1, <2>2 DEF Ledger
  <2>4. next \in Ledger
    BY <1>1, <2>2 DEF Ledger, Stages, POST_ENABLE_STAGES, Slots, Successful
  <2>5. ValidLedger(next)
    BY <1>1, <1>4, <2>1, <2>3 DEF ValidLedger, StageFits, Fits, Slots, POST_ENABLE_STAGES, BlockedStages, AnyPrefix
  <2>6. StageFits(next)
    BY <1>1, <1>4, <2>1, <2>3 DEF StageFits, Fits, ValidLedger, Slots, POST_ENABLE_STAGES, BlockedStages, AnyPrefix
  <2>7. Grows(ledger, next)
    BY <1>1, <1>4, <2>1, <2>3 DEF Grows, StageFits, ValidLedger, Slots, POST_ENABLE_STAGES, BlockedStages, AnyPrefix
  <2> QED
    BY <2>4, <2>5, <2>6, <2>7 DEF Good
<1>5. CASE command = "session-boundary"
  <2>1. ledger.stage = "A_RECONCILED_SESSION_BOUNDARY_PENDING"
    BY <1>5 DEF Fits, StagesOf
  <2>2. next = [ledger EXCEPT !.stage = "A_RECONCILED_B_PENDING", !.completed = {"A"}]
    BY <1>5 DEF Advance
  <2>3. /\ next.stage = "A_RECONCILED_B_PENDING" /\ next.completed = {"A"}
        /\ next.dispatches = ledger.dispatches /\ next.terminals = ledger.terminals /\ next.gates = ledger.gates
        /\ next.outcome = ledger.outcome
    BY <1>1, <2>2 DEF Ledger
  <2>4. next \in Ledger
    BY <1>1, <2>2 DEF Ledger, Stages, POST_ENABLE_STAGES, Slots, Successful
  <2>5. ValidLedger(next)
    BY <1>1, <1>5, <2>1, <2>3 DEF ValidLedger, StageFits, Fits, Slots, POST_ENABLE_STAGES, BlockedStages, AnyPrefix
  <2>6. StageFits(next)
    BY <1>1, <1>5, <2>1, <2>3 DEF StageFits, Fits, ValidLedger, Slots, POST_ENABLE_STAGES, BlockedStages, AnyPrefix
  <2>7. Grows(ledger, next)
    BY <1>1, <1>5, <2>1, <2>3 DEF Grows, StageFits, ValidLedger, Slots, POST_ENABLE_STAGES, BlockedStages, AnyPrefix
  <2> QED
    BY <2>4, <2>5, <2>6, <2>7 DEF Good
<1>6. CASE command = "b-reconciliation"
  <2>1. ledger.stage = "B_TERMINAL_UNRECONCILED"
    BY <1>6 DEF Fits, StagesOf
  <2>2. next = [ledger EXCEPT !.stage = "AB_RECONCILED_RESTORATION_REQUIRED", !.completed = {"A", "B"}]
    BY <1>6 DEF Advance
  <2>3. /\ next.stage = "AB_RECONCILED_RESTORATION_REQUIRED" /\ next.completed = {"A", "B"}
        /\ next.dispatches = ledger.dispatches /\ next.terminals = ledger.terminals /\ next.gates = ledger.gates
        /\ next.outcome = ledger.outcome
    BY <1>1, <2>2 DEF Ledger
  <2>4. next \in Ledger
    BY <1>1, <2>2 DEF Ledger, Stages, POST_ENABLE_STAGES, Slots, Successful
  <2>5. ValidLedger(next)
    BY <1>1, <1>6, <2>1, <2>3 DEF ValidLedger, StageFits, Fits, Slots, POST_ENABLE_STAGES, BlockedStages, AnyPrefix
  <2>6. StageFits(next)
    BY <1>1, <1>6, <2>1, <2>3 DEF StageFits, Fits, ValidLedger, Slots, POST_ENABLE_STAGES, BlockedStages, AnyPrefix
  <2>7. Grows(ledger, next)
    BY <1>1, <1>6, <2>1, <2>3 DEF Grows, StageFits, ValidLedger, Slots, POST_ENABLE_STAGES, BlockedStages, AnyPrefix
  <2> QED
    BY <2>4, <2>5, <2>6, <2>7 DEF Good
<1>7. CASE command = "block"
  <2>1. ledger.stage \in POST_ENABLE_STAGES /\ ledger.stage # "BLOCKED_RESTORATION_REQUIRED"
    BY <1>7 DEF Fits, StagesOf
  <2>2. next = [ledger EXCEPT !.stage = "BLOCKED_RESTORATION_REQUIRED", !.outcome = "blocked"]
    BY <1>7 DEF Advance
  <2>3. /\ next.stage = "BLOCKED_RESTORATION_REQUIRED" /\ next.outcome = "blocked"
        /\ next.dispatches = ledger.dispatches /\ next.terminals = ledger.terminals /\ next.completed = ledger.completed
        /\ next.gates = ledger.gates
    BY <1>1, <2>2 DEF Ledger
  <2>4. next \in Ledger
    BY <1>1, <2>2 DEF Ledger, Stages, POST_ENABLE_STAGES, Slots, Successful
  <2>5. ValidLedger(next)
    BY <1>1, <1>7, <2>1, <2>3 DEF ValidLedger, StageFits, Fits, Slots, POST_ENABLE_STAGES, BlockedStages, AnyPrefix
  <2>6. StageFits(next)
    BY <1>1, <1>7, <2>1, <2>3 DEF StageFits, Fits, ValidLedger, Slots, POST_ENABLE_STAGES, BlockedStages, AnyPrefix
  <2>7. Grows(ledger, next)
    BY <1>1, <1>7, <2>1, <2>3 DEF Grows, StageFits, ValidLedger, Slots, POST_ENABLE_STAGES, BlockedStages, AnyPrefix
  <2> QED
    BY <2>4, <2>5, <2>6, <2>7 DEF Good
<1>8. CASE command = "dispatch" /\ ledger.stage = "ENABLEMENT_STARTED"
  <2>1. next = [ledger EXCEPT !.stage = "A_DISPATCH_COMMITTED", !.dispatches["A"] = value, !.gates = TRUE]
    BY <1>1, <1>8 DEF Advance, SlotOf, Ledger
  <2>2. /\ next.stage = "A_DISPATCH_COMMITTED" /\ next.gates /\ value \in Operators
        /\ next.dispatches = [ledger.dispatches EXCEPT !["A"] = value]
        /\ next.terminals = ledger.terminals /\ next.completed = ledger.completed
        /\ next.outcome = ledger.outcome
    BY <1>1, <1>8, <2>1 DEF Ledger, Fits
  <2>3. /\ next.dispatches \in [Slots -> Operators \cup {Nobody}]
        /\ next.dispatches["A"] = value /\ next.dispatches["B"] = ledger.dispatches["B"]
    <3>1. value \in Operators \cup {Nobody}
      BY <2>2
    <3>2. PICK old \in [Slots -> Operators \cup {Nobody}] : old = ledger.dispatches
      BY <1>1
    <3>3. PICK new : new = next.dispatches
      OBVIOUS
    <3>4. new = [old EXCEPT !["A"] = value]
      BY <2>2, <3>2, <3>3
    <3>5. new \in [Slots -> Operators \cup {Nobody}] /\ new["A"] = value /\ new["B"] = old["B"]
      BY <3>1, <3>4, SlotsAre
    <3> QED
      BY <3>2, <3>3, <3>5
  <2>4. next \in Ledger
    BY <1>1, <2>1, <2>2, <2>3 DEF Ledger, Stages, POST_ENABLE_STAGES, Slots, Successful
  <2>5. /\ value # Nobody /\ ledger.dispatches["A"] = Nobody /\ ledger.terminals["A"] = Nobody
        /\ ledger.completed = {} /\ ledger.outcome # "blocked"
    <3>1. value # Nobody
      BY <2>2
    <3>2. ledger.dispatches["A"] = Nobody
      BY <1>1, <1>8 DEF StageFits
    <3>3. ledger.terminals["A"] = Nobody
      BY <1>1, <3>2, SlotsAre DEF ValidLedger
    <3>4. ledger.completed = {} /\ ledger.outcome # "blocked"
      BY <1>1, <1>8 DEF ValidLedger, BlockedStages, AnyPrefix
    <3> QED
      BY <3>1, <3>2, <3>3, <3>4
  <2>6. ValidLedger(next)
    <3>1. \A s \in Slots : next.terminals[s] # Nobody => next.dispatches[s] # Nobody
      <4>1. next.dispatches["A"] # Nobody
        BY <2>3, <2>5
      <4>2. next.terminals["B"] = ledger.terminals["B"]
        BY <2>2
      <4>3. ledger.terminals["B"] # Nobody => ledger.dispatches["B"] # Nobody
        BY <1>a, SlotsAre
      <4>4. next.terminals["B"] # Nobody => next.dispatches["B"] # Nobody
        BY <2>3, <4>2, <4>3
      <4> QED
        BY <4>1, <4>4, SlotsAre
    <3>2. \A s \in Slots : s \in next.completed => next.terminals[s] = "receipt"
      BY <1>a, <2>2
    <3>3. next.dispatches["B"] # Nobody => "A" \in next.completed
      BY <1>1, <2>2, <2>3, <2>5 DEF ValidLedger
    <3> QED
      BY <1>1, <2>2, <2>3, <2>5, <3>1, <3>2, <3>3 DEF ValidLedger, POST_ENABLE_STAGES, BlockedStages, AnyPrefix
  <2>7. StageFits(next)
    BY <2>2, <2>3, <2>5 DEF StageFits
  <2>8. Grows(ledger, next)
    BY <2>2, <2>3, <2>5, SlotsAre DEF Grows
  <2> QED
    BY <2>4, <2>6, <2>7, <2>8 DEF Good
<1>9. CASE command = "dispatch" /\ ledger.stage = "A_RECONCILED_B_PENDING"
  <2>1. next = [ledger EXCEPT !.stage = "B_DISPATCH_COMMITTED", !.dispatches["B"] = value, !.gates = TRUE]
    BY <1>1, <1>9 DEF Advance, SlotOf, Ledger
  <2>2. /\ next.stage = "B_DISPATCH_COMMITTED" /\ next.gates /\ value \in Operators
        /\ next.dispatches = [ledger.dispatches EXCEPT !["B"] = value]
        /\ next.terminals = ledger.terminals /\ next.completed = ledger.completed
        /\ next.outcome = ledger.outcome
    BY <1>1, <1>9, <2>1 DEF Ledger, Fits
  <2>3. /\ next.dispatches \in [Slots -> Operators \cup {Nobody}]
        /\ next.dispatches["B"] = value /\ next.dispatches["A"] = ledger.dispatches["A"]
    <3>1. value \in Operators \cup {Nobody}
      BY <2>2
    <3>2. PICK old \in [Slots -> Operators \cup {Nobody}] : old = ledger.dispatches
      BY <1>1
    <3>3. PICK new : new = next.dispatches
      OBVIOUS
    <3>4. new = [old EXCEPT !["B"] = value]
      BY <2>2, <3>2, <3>3
    <3>5. new \in [Slots -> Operators \cup {Nobody}] /\ new["B"] = value /\ new["A"] = old["A"]
      BY <3>1, <3>4, SlotsAre
    <3> QED
      BY <3>2, <3>3, <3>5
  <2>4. next \in Ledger
    BY <1>1, <2>1, <2>2, <2>3 DEF Ledger, Stages, POST_ENABLE_STAGES, Slots, Successful
  <2>5. /\ value # Nobody /\ ledger.dispatches["B"] = Nobody /\ ledger.terminals["B"] = Nobody
        /\ ledger.completed = {"A"} /\ ledger.outcome # "blocked"
    <3>1. value # Nobody
      BY <2>2
    <3>2. ledger.dispatches["B"] = Nobody
      BY <1>1, <1>9 DEF StageFits
    <3>3. ledger.terminals["B"] = Nobody
      BY <1>1, <3>2, SlotsAre DEF ValidLedger
    <3>4. ledger.completed = {"A"} /\ ledger.outcome # "blocked"
      BY <1>1, <1>9 DEF ValidLedger, BlockedStages, AnyPrefix
    <3> QED
      BY <3>1, <3>2, <3>3, <3>4
  <2>6. ValidLedger(next)
    <3>1. \A s \in Slots : next.terminals[s] # Nobody => next.dispatches[s] # Nobody
      <4>1. next.dispatches["B"] # Nobody
        BY <2>3, <2>5
      <4>2. next.terminals["A"] = ledger.terminals["A"]
        BY <2>2
      <4>3. ledger.terminals["A"] # Nobody => ledger.dispatches["A"] # Nobody
        BY <1>a, SlotsAre
      <4>4. next.terminals["A"] # Nobody => next.dispatches["A"] # Nobody
        BY <2>3, <4>2, <4>3
      <4> QED
        BY <4>1, <4>4, SlotsAre
    <3>2. \A s \in Slots : s \in next.completed => next.terminals[s] = "receipt"
      <4>1. next.completed = ledger.completed /\ next.terminals = ledger.terminals
        BY <2>2
      <4>2. \A s \in Slots : s \in ledger.completed => ledger.terminals[s] = "receipt"
        BY <1>a
      <4> QED
        BY <4>1, <4>2
    <3>3. next.dispatches["B"] # Nobody => "A" \in next.completed
      BY <1>1, <2>2, <2>3, <2>5 DEF ValidLedger
    <3> QED
      BY <1>1, <2>2, <2>3, <2>5, <3>1, <3>2, <3>3 DEF ValidLedger, POST_ENABLE_STAGES, BlockedStages, AnyPrefix
  <2>7. StageFits(next)
    BY <2>2, <2>3, <2>5 DEF StageFits
  <2>8. Grows(ledger, next)
    BY <2>2, <2>3, <2>5, SlotsAre DEF Grows
  <2> QED
    BY <2>4, <2>6, <2>7, <2>8 DEF Good
<1>10. CASE command = "terminal" /\ ledger.stage = "A_DISPATCH_COMMITTED"
  <2>1. next = [ledger EXCEPT !.stage = "A_TERMINAL_UNRECONCILED", !.terminals["A"] = value]
    BY <1>1, <1>10 DEF Advance, SlotOf, Ledger
  <2>2. /\ next.stage = "A_TERMINAL_UNRECONCILED" /\ value \in {"receipt", "no receipt"}
        /\ next.terminals = [ledger.terminals EXCEPT !["A"] = value]
        /\ next.dispatches = ledger.dispatches /\ next.completed = ledger.completed
        /\ next.outcome = ledger.outcome /\ next.gates = ledger.gates
    BY <1>1, <1>10, <2>1 DEF Ledger, Fits
  <2>3. /\ next.terminals \in [Slots -> {Nobody, "receipt", "no receipt"}]
        /\ next.terminals["A"] = value /\ next.terminals["B"] = ledger.terminals["B"]
    <3>1. value \in {Nobody, "receipt", "no receipt"}
      BY <2>2
    <3>2. PICK old \in [Slots -> {Nobody, "receipt", "no receipt"}] : old = ledger.terminals
      BY <1>1
    <3>3. PICK new : new = next.terminals
      OBVIOUS
    <3>4. new = [old EXCEPT !["A"] = value]
      BY <2>2, <3>2, <3>3
    <3>5. new \in [Slots -> {Nobody, "receipt", "no receipt"}] /\ new["A"] = value /\ new["B"] = old["B"]
      BY <3>1, <3>4, SlotsAre
    <3> QED
      BY <3>2, <3>3, <3>5
  <2>4. next \in Ledger
    BY <1>1, <2>1, <2>2, <2>3 DEF Ledger, Stages, POST_ENABLE_STAGES, Slots, Successful
  <2>5. ValidLedger(next)
    BY <1>1, <1>10, <2>2, <2>3 DEF ValidLedger, StageFits, Fits, Slots, POST_ENABLE_STAGES, BlockedStages, AnyPrefix
  <2>6. StageFits(next)
    BY <1>1, <1>10, <2>2, <2>3 DEF StageFits, Fits, ValidLedger, Slots, POST_ENABLE_STAGES, BlockedStages, AnyPrefix
  <2>7. Grows(ledger, next)
    BY <1>1, <1>10, <2>2, <2>3 DEF Grows, StageFits, ValidLedger, Slots, POST_ENABLE_STAGES, BlockedStages, AnyPrefix
  <2> QED
    BY <2>4, <2>5, <2>6, <2>7 DEF Good
<1>11. CASE command = "terminal" /\ ledger.stage = "B_DISPATCH_COMMITTED"
  <2>1. next = [ledger EXCEPT !.stage = "B_TERMINAL_UNRECONCILED", !.terminals["B"] = value]
    BY <1>1, <1>11 DEF Advance, SlotOf, Ledger
  <2>2. /\ next.stage = "B_TERMINAL_UNRECONCILED" /\ value \in {"receipt", "no receipt"}
        /\ next.terminals = [ledger.terminals EXCEPT !["B"] = value]
        /\ next.dispatches = ledger.dispatches /\ next.completed = ledger.completed
        /\ next.outcome = ledger.outcome /\ next.gates = ledger.gates
    BY <1>1, <1>11, <2>1 DEF Ledger, Fits
  <2>3. /\ next.terminals \in [Slots -> {Nobody, "receipt", "no receipt"}]
        /\ next.terminals["B"] = value /\ next.terminals["A"] = ledger.terminals["A"]
    <3>1. value \in {Nobody, "receipt", "no receipt"}
      BY <2>2
    <3>2. PICK old \in [Slots -> {Nobody, "receipt", "no receipt"}] : old = ledger.terminals
      BY <1>1
    <3>3. PICK new : new = next.terminals
      OBVIOUS
    <3>4. new = [old EXCEPT !["B"] = value]
      BY <2>2, <3>2, <3>3
    <3>5. new \in [Slots -> {Nobody, "receipt", "no receipt"}] /\ new["B"] = value /\ new["A"] = old["A"]
      BY <3>1, <3>4, SlotsAre
    <3> QED
      BY <3>2, <3>3, <3>5
  <2>4. next \in Ledger
    BY <1>1, <2>1, <2>2, <2>3 DEF Ledger, Stages, POST_ENABLE_STAGES, Slots, Successful
  <2>5. ValidLedger(next)
    BY <1>1, <1>11, <2>2, <2>3 DEF ValidLedger, StageFits, Fits, Slots, POST_ENABLE_STAGES, BlockedStages, AnyPrefix
  <2>6. StageFits(next)
    BY <1>1, <1>11, <2>2, <2>3 DEF StageFits, Fits, ValidLedger, Slots, POST_ENABLE_STAGES, BlockedStages, AnyPrefix
  <2>7. Grows(ledger, next)
    BY <1>1, <1>11, <2>2, <2>3 DEF Grows, StageFits, ValidLedger, Slots, POST_ENABLE_STAGES, BlockedStages, AnyPrefix
  <2> QED
    BY <2>4, <2>5, <2>6, <2>7 DEF Good
<1>12. CASE command = "restore"
  <2>1. ledger.stage \in POST_ENABLE_STAGES
    BY <1>12 DEF Fits, StagesOf
  <2>2. next = [ledger EXCEPT !.stage = "RESTORED_OBSERVATION_PENDING", !.gates = FALSE,
                              !.outcome = IF Successful(ledger) THEN "pending" ELSE "blocked"]
    BY <1>12 DEF Advance
  <2>3. /\ next.stage = "RESTORED_OBSERVATION_PENDING" /\ ~next.gates
        /\ next.outcome = (IF ledger.stage = "AB_RECONCILED_RESTORATION_REQUIRED" THEN "pending" ELSE "blocked")
        /\ next.dispatches = ledger.dispatches /\ next.terminals = ledger.terminals
        /\ next.completed = ledger.completed
    BY <1>1, <2>2 DEF Ledger, Successful
  <2>4. next \in Ledger
    BY <1>1, <2>2 DEF Ledger, Stages, POST_ENABLE_STAGES, Slots, Successful
  <2>5. ValidLedger(next)
    BY <1>1, <1>12, <2>1, <2>3 DEF ValidLedger, StageFits, Fits, Slots, POST_ENABLE_STAGES, BlockedStages, AnyPrefix
  <2>6. StageFits(next)
    BY <1>1, <1>12, <2>1, <2>3 DEF StageFits, Fits, ValidLedger, Slots, POST_ENABLE_STAGES, BlockedStages, AnyPrefix
  <2>7. Grows(ledger, next)
    BY <1>1, <1>12, <2>1, <2>3 DEF Grows, StageFits, ValidLedger, Slots, POST_ENABLE_STAGES, BlockedStages, AnyPrefix
  <2> QED
    BY <2>4, <2>5, <2>6, <2>7 DEF Good
<1>13. CASE command = "closeout" /\ ledger.outcome = "blocked"
  <2>1. ledger.stage = "RESTORED_OBSERVATION_PENDING"
    BY <1>13 DEF Fits, StagesOf
  <2>2. next = [ledger EXCEPT !.stage = "CLOSED_BLOCKED"]
    BY <1>13 DEF Advance
  <2>3. /\ next.stage = "CLOSED_BLOCKED" /\ next.outcome = "blocked" /\ next.gates = ledger.gates
        /\ next.dispatches = ledger.dispatches /\ next.terminals = ledger.terminals
        /\ next.completed = ledger.completed
    BY <1>1, <1>13, <2>2 DEF Ledger
  <2>4. next \in Ledger
    BY <1>1, <2>2 DEF Ledger, Stages, POST_ENABLE_STAGES, Slots, Successful
  <2>5. ValidLedger(next)
    BY <1>1, <1>13, <2>1, <2>3 DEF ValidLedger, StageFits, Fits, Slots, POST_ENABLE_STAGES, BlockedStages, AnyPrefix
  <2>6. StageFits(next)
    BY <1>1, <1>13, <2>1, <2>3 DEF StageFits, Fits, ValidLedger, Slots, POST_ENABLE_STAGES, BlockedStages, AnyPrefix
  <2>7. Grows(ledger, next)
    BY <1>1, <1>13, <2>1, <2>3 DEF Grows, StageFits, ValidLedger, Slots, POST_ENABLE_STAGES, BlockedStages, AnyPrefix
  <2> QED
    BY <2>4, <2>5, <2>6, <2>7 DEF Good
<1>14. CASE command = "closeout" /\ ledger.outcome # "blocked"
  <2>1. ledger.stage = "RESTORED_OBSERVATION_PENDING"
    BY <1>14 DEF Fits, StagesOf
  <2>2. next = [ledger EXCEPT !.stage = "CLOSED_HEALTHY", !.outcome = "healthy"]
    BY <1>14 DEF Advance
  <2>3. /\ next.stage = "CLOSED_HEALTHY" /\ next.outcome = "healthy" /\ next.gates = ledger.gates
        /\ next.dispatches = ledger.dispatches /\ next.terminals = ledger.terminals
        /\ next.completed = ledger.completed
    BY <1>1, <1>14, <2>2 DEF Ledger
  <2>4. next \in Ledger
    BY <1>1, <2>2 DEF Ledger, Stages, POST_ENABLE_STAGES, Slots, Successful
  <2>5. ValidLedger(next)
    BY <1>1, <1>14, <2>1, <2>3 DEF ValidLedger, StageFits, Fits, Slots, POST_ENABLE_STAGES, BlockedStages, AnyPrefix
  <2>6. StageFits(next)
    BY <1>1, <1>14, <2>1, <2>3 DEF StageFits, Fits, ValidLedger, Slots, POST_ENABLE_STAGES, BlockedStages, AnyPrefix
  <2>7. Grows(ledger, next)
    BY <1>1, <1>14, <2>1, <2>3 DEF Grows, StageFits, ValidLedger, Slots, POST_ENABLE_STAGES, BlockedStages, AnyPrefix
  <2> QED
    BY <2>4, <2>5, <2>6, <2>7 DEF Good
<1> QED
  BY <1>2, <1>3, <1>4, <1>5, <1>6, <1>7, <1>8, <1>9, <1>10, <1>11, <1>12, <1>13, <1>14 DEF Fits, Commands, StagesOf

\* What the commands that the other stores depend on make of a ledger.
LEMMA AdvanceRecords ==
  ASSUME NEW ledger, Good(ledger), NEW command, NEW value, Fits(ledger, command, value),
         NEW next, next = Advance(ledger, command, value)
  PROVE  /\ \A s \in next.completed : \/ s \in ledger.completed
                                      \/ s = "A" /\ command = "session-boundary"
                                      \/ s = "B" /\ command = "b-reconciliation"
         /\ next.stage = "CLOSED_HEALTHY" => command = "closeout" /\ ledger.outcome # "blocked"
         /\ ledger.stage \in {"RESTORED_OBSERVATION_PENDING", "CLOSED_HEALTHY"} /\ ledger.outcome # "blocked"
            => next.stage = "CLOSED_HEALTHY" /\ next.outcome # "blocked"
         /\ command = "dispatch" => next.dispatches[SlotOf(next)] = value
<1> USE NobodyDiffers
<1>1. /\ ledger \in Ledger /\ ledger.stage \in Stages
      /\ ledger.dispatches \in [Slots -> Operators \cup {Nobody}]
      /\ ValidLedger(ledger)
  BY DEF Good, Ledger
<1>2. CASE command = "b-reconciliation"
  <2>1. ledger.stage = "B_TERMINAL_UNRECONCILED"
    BY <1>2 DEF Fits, StagesOf
  <2>2. "A" \in ledger.completed
    BY <1>1, <2>1 DEF ValidLedger, AnyPrefix
  <2>3. next.stage = "AB_RECONCILED_RESTORATION_REQUIRED" /\ next.completed = {"A", "B"}
    BY <1>1, <1>2 DEF Advance, Ledger
  <2> QED
    BY <1>2, <2>1, <2>2, <2>3
<1>3. CASE command = "dispatch"
  <2>1. /\ ledger.stage \in {"ENABLEMENT_STARTED", "A_RECONCILED_B_PENDING"}
        /\ value \in Operators
    BY <1>3 DEF Fits, StagesOf
  <2>2. CASE ledger.stage = "ENABLEMENT_STARTED"
    <3>1. /\ next.stage = "A_DISPATCH_COMMITTED" /\ next.completed = ledger.completed
          /\ next.dispatches = [ledger.dispatches EXCEPT !["A"] = value]
      BY <1>1, <1>3, <2>2 DEF Advance, SlotOf, Ledger
    <3>2. next.dispatches["A"] = value /\ SlotOf(next) = "A"
      BY <1>1, <3>1, SlotsAre DEF SlotOf
    <3> QED
      BY <1>3, <2>2, <3>1, <3>2
  <2>3. CASE ledger.stage = "A_RECONCILED_B_PENDING"
    <3>1. /\ next.stage = "B_DISPATCH_COMMITTED" /\ next.completed = ledger.completed
          /\ next.dispatches = [ledger.dispatches EXCEPT !["B"] = value]
      BY <1>1, <1>3, <2>3 DEF Advance, SlotOf, Ledger
    <3>2. next.dispatches["B"] = value /\ SlotOf(next) = "B"
      BY <1>1, <3>1, SlotsAre DEF SlotOf
    <3> QED
      BY <1>3, <2>3, <3>1, <3>2
  <2> QED
    BY <2>1, <2>2, <2>3
<1>4. CASE command \in {"enablement-start", "pre-enable-abort", "a-reconciliation", "session-boundary",
                        "block"}
  <2>1. ledger.stage \in POST_ENABLE_STAGES \cup {"A_READY"}
    BY <1>4 DEF Fits, StagesOf, POST_ENABLE_STAGES
  <2>2. /\ next.completed = ledger.completed \/ (command = "session-boundary" /\ next.completed = {"A"})
        /\ next.stage # "CLOSED_HEALTHY"
    <3>1. CASE command = "enablement-start"
      <4>1. next = [ledger EXCEPT !.stage = "ENABLEMENT_STARTED"]
        BY <3>1 DEF Advance
      <4>2. next.completed = ledger.completed /\ next.stage = "ENABLEMENT_STARTED"
        BY <1>1, <4>1 DEF Ledger
      <4> QED
        BY <4>2
    <3>2. CASE command = "pre-enable-abort"
      <4>1. next = [ledger EXCEPT !.stage = "PRE_ENABLE_ABORTED", !.outcome = "blocked"]
        BY <3>2 DEF Advance
      <4>2. next.completed = ledger.completed /\ next.stage = "PRE_ENABLE_ABORTED"
        BY <1>1, <4>1 DEF Ledger
      <4> QED
        BY <4>2
    <3>3. CASE command = "a-reconciliation"
      <4>1. next = [ledger EXCEPT !.stage = "A_RECONCILED_SESSION_BOUNDARY_PENDING"]
        BY <3>3 DEF Advance
      <4>2. next.completed = ledger.completed /\ next.stage = "A_RECONCILED_SESSION_BOUNDARY_PENDING"
        BY <1>1, <4>1 DEF Ledger
      <4> QED
        BY <4>2
    <3>4. CASE command = "session-boundary"
      BY <1>1, <3>4 DEF Advance, Ledger
    <3>5. CASE command = "block"
      <4>1. next = [ledger EXCEPT !.stage = "BLOCKED_RESTORATION_REQUIRED", !.outcome = "blocked"]
        BY <3>5 DEF Advance
      <4>2. next.completed = ledger.completed /\ next.stage = "BLOCKED_RESTORATION_REQUIRED"
        BY <1>1, <4>1 DEF Ledger
      <4> QED
        BY <4>2
    <3> QED
      BY <1>4, <3>1, <3>2, <3>3, <3>4, <3>5
  <2> QED
    BY <1>4, <2>1, <2>2 DEF POST_ENABLE_STAGES
<1>5. CASE command = "terminal"
  <2>1. ledger.stage \in {"A_DISPATCH_COMMITTED", "B_DISPATCH_COMMITTED"}
    BY <1>5 DEF Fits, StagesOf
  <2>2. next.completed = ledger.completed /\ next.stage \in {"A_TERMINAL_UNRECONCILED", "B_TERMINAL_UNRECONCILED"}
    BY <1>1, <1>5 DEF Advance, Ledger
  <2> QED
    BY <1>5, <2>1, <2>2
<1>6. CASE command = "restore"
  <2>1. ledger.stage \in POST_ENABLE_STAGES
    BY <1>6 DEF Fits, StagesOf
  <2>2. next.completed = ledger.completed /\ next.stage = "RESTORED_OBSERVATION_PENDING"
    BY <1>1, <1>6 DEF Advance, Ledger
  <2> QED
    BY <1>6, <2>1, <2>2 DEF POST_ENABLE_STAGES
<1>7. CASE command = "closeout"
  <2>1. ledger.stage = "RESTORED_OBSERVATION_PENDING"
    BY <1>7 DEF Fits, StagesOf
  <2>2. CASE ledger.outcome = "blocked"
    <3>1. next.completed = ledger.completed /\ next.stage = "CLOSED_BLOCKED"
      BY <1>1, <1>7, <2>2 DEF Advance, Ledger
    <3> QED
      BY <1>7, <2>2, <3>1
  <2>3. CASE ledger.outcome # "blocked"
    <3>1. next.completed = ledger.completed /\ next.stage = "CLOSED_HEALTHY" /\ next.outcome = "healthy"
      BY <1>1, <1>7, <2>3 DEF Advance, Ledger
    <3> QED
      BY <1>7, <2>3, <3>1
  <2> QED
    BY <2>2, <2>3
<1> QED
  BY <1>2, <1>3, <1>4, <1>5, <1>6, <1>7 DEF Fits, Commands

\* An operator writes an input for the ledger it has read, from what it can see.
LEMMA EvidenceFits ==
  ASSUME LedgerInv, NEW p \in Operators, NEW command \in Commands, head.stage \in StagesOf(command),
         NEW value \in Evidence(p, command)
  PROVE  /\ Fits(head, command, value) /\ Backed(head, command)
         /\ value \in Operators \cup Commands \cup {"receipt", "no receipt", Nobody}
<1>1. CASE command = "dispatch"
  <2>1. value = p
    BY <1>1 DEF Evidence
  <2> QED
    BY <1>1, <2>1 DEF Fits, Backed
<1>2. CASE command = "terminal"
  <2>1. value \in {"receipt", "no receipt"}
    BY <1>2 DEF Evidence
  <2> QED
    BY <1>2, <2>1 DEF Fits, Backed
<1>3. CASE command = "a-reconciliation"
  <2>1. head.stage = "A_TERMINAL_UNRECONCILED" /\ SlotOf(head) = "A"
    BY <1>3 DEF StagesOf, SlotOf
  <2>2. value = command /\ head.terminals["A"] = "receipt"
    BY <1>3, <2>1 DEF Evidence
  <2> QED
    BY <1>3, <2>2 DEF Fits, Backed
<1>4. CASE command = "b-reconciliation"
  <2>1. head.stage = "B_TERMINAL_UNRECONCILED" /\ SlotOf(head) = "B"
    BY <1>4 DEF StagesOf, SlotOf
  <2>2. value = command /\ head.terminals["B"] = "receipt" /\ reconciliations["B"] # Nobody
    BY <1>4, <2>1 DEF Evidence
  <2> QED
    BY <1>4, <2>2 DEF Fits, Backed
<1>5. CASE command = "session-boundary"
  <2>1. value = command /\ reconciliations["A"] # Nobody
    BY <1>5 DEF Evidence
  <2> QED
    BY <1>5, <2>1 DEF Fits, Backed
<1>6. CASE command = "closeout"
  <2>1. value = command /\ closeout = (IF head.outcome = "blocked" THEN "blocked" ELSE "healthy")
    BY <1>6 DEF Evidence
  <2> QED
    BY <1>6, <2>1 DEF Fits, Backed
<1>7. CASE command \in {"enablement-start", "pre-enable-abort", "block", "restore"}
  <2>1. value = command
    BY <1>7 DEF Evidence
  <2> QED
    BY <1>7, <2>1 DEF Fits, Backed
<1> QED
  BY <1>1, <1>2, <1>3, <1>4, <1>5, <1>6, <1>7 DEF Commands

-----------------------------------------------------------------------------
(* Steps that leave some of the stores alone. *)

\* The stores still fit when neither they nor HEAD have changed.
LEMMA StoresStay ==
  ASSUME LedgerInv, UNCHANGED <<head, capabilities, controlVars, callVars>>
  PROVE  StoresFit' /\ CallsFit'
BY DEF LedgerInv, StoresFit, CallsFit, CallFits, controlVars, callVars

\* Commands still fit when control records are only added.
LEMMA CommandsStay ==
  ASSUME LedgerInv, UNCHANGED <<directoryVars, operators>>,
         \A s \in Slots : reconciliations[s] # Nobody => reconciliations'[s] # Nobody,
         closeout # Nobody => closeout' = closeout
  PROVE  CommandsFit'
<1> USE NobodyDiffers
<1>1. UNCHANGED <<head, sequence, files, lockOwner, operators>>
  BY DEF directoryVars
<1>2. \A command : Backed(head, command) => Backed(head, command)'
  BY <1>1, SlotsAre DEF Backed
<1>3. ASSUME NEW p \in Operators
      PROVE  CommandFits(operators[p])'
  <2>1. PICK op : op = operators[p]
    OBVIOUS
  <2>2. CommandFits(op)
    BY <2>1 DEF LedgerInv, CommandsFit
  <2>3. CommandFits(op)'
    BY <1>1, <1>2, <2>2 DEF CommandFits
  <2>4. operators'[p] = op
    BY <1>1, <2>1
  <2> QED
    BY <2>3, <2>4
<1>4. (\A p \in Operators : lockOwner = p <=> operators[p].pc \in Holding)'
  BY <1>1 DEF LedgerInv, CommandsFit
<1> QED
  BY <1>3, <1>4 DEF CommandsFit

\* One process takes a step that leaves HEAD alone; only with the lock it takes, holds or gives back.
LEMMA OperatorMoves ==
  ASSUME LedgerInv, NEW p \in Operators, NEW op \in Process, CommandFits(op)',
         operators' = [operators EXCEPT ![p] = op],
         UNCHANGED <<head, sequence, controlVars>>, UNCHANGED files \/ lockOwner = p,
         \/ UNCHANGED lockOwner /\ (op.pc \in Holding <=> operators[p].pc \in Holding)
         \/ lockOwner = Nobody /\ lockOwner' = p /\ op.pc \in Holding
         \/ lockOwner = p /\ lockOwner' = Nobody /\ op.pc \notin Holding
  PROVE  /\ CommandsFit' /\ operators' \in [Operators -> Process]
         /\ lockOwner' \in Operators \cup {Nobody}
<1> USE NobodyDiffers
<1>1. /\ operators \in [Operators -> Process] /\ lockOwner \in Operators \cup {Nobody}
      /\ \A q \in Operators : CommandFits(operators[q])
      /\ \A q \in Operators : lockOwner = q <=> operators[q].pc \in Holding
  BY DEF LedgerInv, LedgerTyped, CommandsFit
<1>2. operators' \in [Operators -> Process] /\ operators'[p] = op
  BY <1>1
<1>3. \A q \in Operators : q # p => operators'[q] = operators[q]
  BY <1>1
<1>4. ASSUME NEW q \in Operators
      PROVE  CommandFits(operators[q])'
  <2>1. CASE q = p
    BY <1>2, <2>1
  <2>2. CASE q # p
    <3>1. PICK o : o = operators[q]
      OBVIOUS
    <3>2. CommandFits(o) /\ operators'[q] = o
      BY <1>1, <1>3, <2>2, <3>1
    <3>3. UNCHANGED files \/ o.pc \notin {"validated", "written"}
      BY <1>1, <2>2, <3>1 DEF Holding
    <3>4. CommandFits(o)'
      BY <3>2, <3>3 DEF CommandFits, Backed, controlVars
    <3> QED
      BY <3>2, <3>4
  <2> QED
    BY <2>1, <2>2
<1>5. \A q \in Operators : lockOwner' = q <=> operators'[q].pc \in Holding
  <2>1. TAKE q \in Operators
  <2>2. CASE q = p
    BY <1>1, <1>2, <2>2
  <2>3. CASE q # p
    BY <1>1, <1>3, <2>3
  <2> QED
    BY <2>2, <2>3
<1>6. lockOwner' \in Operators \cup {Nobody}
  BY <1>1
<1> QED
  BY <1>2, <1>4, <1>5, <1>6 DEF CommandsFit

\* The stores keep their shape when only a process has moved.
LEMMA TypedStays ==
  ASSUME LedgerInv, UNCHANGED <<head, sequence, capabilities, controlVars, callVars, worldVars>>,
         files' \in Nat, operators' \in [Operators -> Process], lockOwner' \in Operators \cup {Nobody}
  PROVE  LedgerTyped'
<1>1. Good(head) /\ head' = head
  BY DEF LedgerInv, LedgerTyped
<1>2. Good(head)'
  BY <1>1 DEF Good, ValidLedger, StageFits
<1> QED
  BY <1>2 DEF LedgerInv, LedgerTyped, controlVars, callVars, worldVars

-----------------------------------------------------------------------------
(* The steps of a command. *)

LEMMA PrepareHolds ==
  ASSUME LedgerInv, NEW p \in Operators, Prepare(p)
  PROVE  LedgerInv'
<1>1. /\ operators[p].pc = "idle" /\ sequence \in Nat /\ files \in Nat
      /\ UNCHANGED <<head, sequence, files, lockOwner, capabilities, controlVars, callVars, worldVars>>
  BY DEF Prepare, Past, directoryVars, LedgerInv, LedgerTyped
<1>c. PICK command \in Commands :
         /\ head.stage \in StagesOf(command)
         /\ \E value \in Evidence(p, command) : operators' = [operators EXCEPT ![p] =
              [pc |-> "prepared", command |-> command, value |-> value, prior |-> sequence, next |-> Nobody]]
  BY DEF Prepare
<1>2. PICK value \in Evidence(p, command) : operators' = [operators EXCEPT ![p] =
         [pc |-> "prepared", command |-> command, value |-> value, prior |-> sequence, next |-> Nobody]]
  BY <1>c
<1>3. PICK op : op = [pc |-> "prepared", command |-> command, value |-> value, prior |-> sequence,
                      next |-> Nobody]
  OBVIOUS
<1>4. /\ Fits(head, command, value) /\ Backed(head, command)
      /\ value \in Operators \cup Commands \cup {"receipt", "no receipt", Nobody}
  BY <1>c, <1>2, EvidenceFits
<1>5. op \in Process /\ op.pc = "prepared" /\ op.command = command /\ op.value = value
      /\ op.prior = sequence /\ op.next = Nobody
  <2>1. op \in Process
    BY <1>1, <1>3, <1>4 DEF Process
  <2> QED
    BY <1>3, <2>1
<1>6. CommandFits(op)'
  <2>1. Fits(head, op.command, op.value) /\ Backed(head, op.command)
    BY <1>4, <1>5
  <2>2. Backed(head, op.command)'
    BY <1>1, <2>1 DEF Backed, controlVars
  <2>3. /\ head' = head /\ op.prior <= sequence' /\ op.pc = "prepared" /\ op.next = Nobody
    BY <1>1, <1>5
  <2> QED
    BY <2>1, <2>2, <2>3 DEF CommandFits
<1>7. /\ CommandsFit' /\ operators' \in [Operators -> Process] /\ lockOwner' \in Operators \cup {Nobody}
  <2>1. operators' = [operators EXCEPT ![p] = op]
    BY <1>2, <1>3
  <2>2. op.pc \in Holding <=> operators[p].pc \in Holding
    BY <1>1, <1>5 DEF Holding
  <2> QED
    BY <1>1, <1>5, <1>6, <2>1, <2>2, OperatorMoves
<1>8. LedgerTyped'
  BY <1>1, <1>7, TypedStays
<1>9. StoresFit' /\ CallsFit'
  BY <1>1, StoresStay
<1> QED
  BY <1>7, <1>8, <1>9 DEF LedgerInv

\* A process that only moves on keeps its command.
LEMMA Moved ==
  ASSUME LedgerInv, NEW p \in Operators,
         NEW pc \in {"locked", "written", "replaced", "signing"}, Moves(p, pc)
  PROVE  \E op \in Process :
           /\ operators' = [operators EXCEPT ![p] = op] /\ op.pc = pc
           /\ op.command = operators[p].command /\ op.value = operators[p].value
           /\ op.prior = operators[p].prior /\ op.next = operators[p].next
<1>1. PICK old \in Process : old = operators[p]
  BY DEF LedgerInv, LedgerTyped
<1>2. PICK op : op = [old EXCEPT !.pc = pc]
  OBVIOUS
<1>3. op \in Process
  BY <1>1, <1>2 DEF Process
<1>4. /\ op.pc = pc /\ op.command = old.command /\ op.value = old.value /\ op.prior = old.prior
      /\ op.next = old.next
  BY <1>1, <1>2 DEF Process
<1>5. operators' = [operators EXCEPT ![p] = op]
  BY <1>1, <1>2 DEF Moves
<1> QED
  BY <1>1, <1>3, <1>4, <1>5

\* A process at rest asks for nothing.
LEMMA RestFits ==
  ASSUME NEW pc \in {"idle", "dead"}
  PROVE  /\ AtRest(pc) \in Process /\ AtRest(pc).pc = pc /\ CommandFits(AtRest(pc))'
<1>1. PICK op : op = AtRest(pc)
  OBVIOUS
<1>2. /\ op \in Process /\ op.pc = pc /\ op.next = Nobody
  BY <1>1 DEF AtRest, Process
<1>3. CommandFits(op)'
  BY <1>2 DEF CommandFits
<1> QED
  BY <1>1, <1>2, <1>3

\* A process comes to rest: only the holder of the lock may give it back, and a dead one keeps it.
LEMMA RestHolds ==
  ASSUME LedgerInv, NEW p \in Operators, NEW pc \in {"idle", "dead"}, Ends(p, pc),
         UNCHANGED <<head, sequence, files, controlVars, callVars, worldVars>>,
         \/ UNCHANGED lockOwner /\ (pc = "dead" <=> lockOwner = p)
         \/ lockOwner = p /\ lockOwner' = Nobody /\ pc = "idle"
  PROVE  CommandsFit' /\ operators' \in [Operators -> Process] /\ lockOwner' \in Operators \cup {Nobody}
<1>1. PICK op : op = AtRest(pc)
  OBVIOUS
<1>2. op \in Process /\ op.pc = pc /\ CommandFits(op)'
  BY <1>1, RestFits
<1>3. operators' = [operators EXCEPT ![p] = op]
  BY <1>1 DEF Ends
<1>4. lockOwner = p <=> operators[p].pc \in Holding
  BY DEF LedgerInv, CommandsFit
<1>5. op.pc \in Holding <=> pc = "dead"
  BY <1>2 DEF Holding
<1> QED
  BY <1>2, <1>3, <1>4, <1>5, OperatorMoves

LEMMA AcquireHolds ==
  ASSUME LedgerInv, NEW p \in Operators, Acquire(p)
  PROVE  LedgerInv'
<1>1. /\ operators[p].pc = "prepared" /\ files \in Nat
      /\ UNCHANGED <<head, sequence, files, capabilities, controlVars, callVars, worldVars>>
  BY DEF Acquire, Past, LedgerInv, LedgerTyped
<1>2. CommandsFit' /\ operators' \in [Operators -> Process] /\ lockOwner' \in Operators \cup {Nobody}
  <2>1. CASE lockOwner = Nobody
    <3>1. lockOwner' = p /\ Moves(p, "locked")
      BY <2>1 DEF Acquire, Unlocked
    <3>2. PICK op \in Process :
             /\ operators' = [operators EXCEPT ![p] = op] /\ op.pc = "locked"
             /\ op.command = operators[p].command /\ op.value = operators[p].value
             /\ op.prior = operators[p].prior /\ op.next = operators[p].next
      BY <3>1, Moved
    <3>3. CommandFits(operators[p])
      BY DEF LedgerInv, CommandsFit
    <3>4. CommandFits(op)'
      BY <1>1, <3>2, <3>3 DEF CommandFits, Backed, controlVars
    <3> QED
      BY <1>1, <2>1, <3>1, <3>2, <3>4, OperatorMoves DEF Holding
  <2>2. CASE lockOwner # Nobody
    <3>1. Ends(p, "idle") /\ UNCHANGED lockOwner
      BY <2>2 DEF Acquire, Unlocked
    <3>2. lockOwner # p
      BY <1>1 DEF LedgerInv, CommandsFit, Holding
    <3> QED
      BY <1>1, <3>1, <3>2, RestHolds
  <2> QED
    BY <2>1, <2>2
<1>3. LedgerTyped'
  BY <1>1, <1>2, TypedStays
<1>4. StoresFit' /\ CallsFit'
  BY <1>1, StoresStay
<1> QED
  BY <1>2, <1>3, <1>4 DEF LedgerInv

LEMMA ValidateHolds ==
  ASSUME LedgerInv, NEW p \in Operators, Validate(p)
  PROVE  LedgerInv'
<1> USE NobodyDiffers
<1>1. /\ operators[p].pc = "locked" /\ files \in Nat /\ lockOwner = p /\ CommandFits(operators[p])
      /\ UNCHANGED <<head, sequence, files, capabilities, controlVars, callVars, worldVars>>
      /\ operators \in [Operators -> Process] /\ Good(head)
  BY DEF Validate, Past, LedgerInv, LedgerTyped, CommandsFit, Holding
<1>2. CommandsFit' /\ operators' \in [Operators -> Process] /\ lockOwner' \in Operators \cup {Nobody}
  <2>1. CASE Readable /\ operators[p].prior = sequence
    <3>1. PICK old \in Process : old = operators[p]
      BY <1>1
    <3>2. PICK next : next = Advance(head, old.command, old.value)
      OBVIOUS
    <3>3. PICK op : op = [old EXCEPT !.pc = "validated", !.next = next]
      OBVIOUS
    <3>4. /\ Fits(head, old.command, old.value) /\ Backed(head, old.command) /\ old.prior = sequence
          /\ files = sequence + 1
      BY <1>1, <2>1, <3>1 DEF CommandFits, Readable
    <3>5. Good(next)
      BY <1>1, <3>2, <3>4, AdvanceHolds
    <3>6. op \in Process
      BY <3>1, <3>3, <3>5 DEF Process, Good
    <3>7. /\ op.pc = "validated" /\ op.command = old.command /\ op.value = old.value /\ op.prior = old.prior
          /\ op.next = next
      BY <3>1, <3>3 DEF Process
    <3>8. CommandFits(op)'
      <4>1. Fits(head, op.command, op.value) /\ Backed(head, op.command)
        BY <3>4, <3>7
      <4>2. Backed(head, op.command)'
        BY <1>1, <4>1 DEF Backed, controlVars
      <4>3. /\ head' = head /\ sequence' = sequence /\ files' = sequence + 1 /\ op.prior = sequence
            /\ op.next = Advance(head, op.command, op.value) /\ Good(op.next)
        BY <1>1, <3>2, <3>4, <3>5, <3>7
      <4> QED
        BY <3>7, <4>1, <4>2, <4>3 DEF CommandFits
    <3>9. operators' = [operators EXCEPT ![p] = op] /\ lockOwner' = lockOwner
      BY <1>1, <2>1, <3>1, <3>2, <3>3 DEF Validate
    <3>10. op.pc \in Holding <=> operators[p].pc \in Holding
      BY <1>1, <3>7 DEF Holding
    <3> QED
      BY <1>1, <3>6, <3>8, <3>9, <3>10, OperatorMoves
  <2>2. CASE ~(Readable /\ operators[p].prior = sequence)
    <3>1. Ends(p, "idle") /\ lockOwner' = Nobody
      BY <2>2 DEF Validate
    <3> QED
      BY <1>1, <3>1, RestHolds
  <2> QED
    BY <2>1, <2>2
<1>3. LedgerTyped'
  BY <1>1, <1>2, TypedStays
<1>4. StoresFit' /\ CallsFit'
  BY <1>1, StoresStay
<1> QED
  BY <1>2, <1>3, <1>4 DEF LedgerInv

LEMMA WriteSnapshotHolds ==
  ASSUME LedgerInv, NEW p \in Operators, WriteSnapshot(p)
  PROVE  LedgerInv'
<1>1. /\ operators[p].pc = "validated" /\ files \in Nat /\ sequence \in Nat /\ lockOwner = p
      /\ CommandFits(operators[p]) /\ Moves(p, "written") /\ files' = files + 1
      /\ UNCHANGED <<head, sequence, lockOwner, capabilities, controlVars, callVars, worldVars>>
  BY DEF WriteSnapshot, Past, LedgerInv, LedgerTyped, CommandsFit, Holding
<1>2. PICK op \in Process :
         /\ operators' = [operators EXCEPT ![p] = op] /\ op.pc = "written"
         /\ op.command = operators[p].command /\ op.value = operators[p].value
         /\ op.prior = operators[p].prior /\ op.next = operators[p].next
  BY <1>1, Moved
<1>3. CommandFits(op)'
  <2>1. /\ Fits(head, op.command, op.value) /\ Backed(head, op.command) /\ op.prior = sequence
        /\ op.next = Advance(head, op.command, op.value) /\ files = sequence + 1
        /\ (op.next = Nobody \/ Good(op.next))
    BY <1>1, <1>2 DEF CommandFits
  <2>2. Backed(head, op.command)'
    BY <1>1, <2>1 DEF Backed, controlVars
  <2>3. files' = sequence' + 2 /\ head' = head /\ sequence' = sequence
    BY <1>1, <2>1
  <2> QED
    BY <1>2, <2>1, <2>2, <2>3 DEF CommandFits
<1>4. op.pc \in Holding <=> operators[p].pc \in Holding
  BY <1>1, <1>2 DEF Holding
<1>5. CommandsFit' /\ operators' \in [Operators -> Process] /\ lockOwner' \in Operators \cup {Nobody}
  BY <1>1, <1>2, <1>3, <1>4, OperatorMoves
<1>6. LedgerTyped'
  BY <1>1, <1>5, TypedStays
<1>7. StoresFit' /\ CallsFit'
  BY <1>1, StoresStay
<1> QED
  BY <1>5, <1>6, <1>7 DEF LedgerInv

LEMMA ReleaseHolds ==
  ASSUME LedgerInv, NEW p \in Operators, Release(p)
  PROVE  LedgerInv'
<1>1. /\ operators[p].pc = "replaced" /\ files \in Nat /\ lockOwner = p /\ lockOwner' = Nobody
      /\ CommandFits(operators[p])
      /\ UNCHANGED <<head, sequence, files, capabilities, controlVars, callVars, worldVars>>
  BY DEF Release, Past, LedgerInv, LedgerTyped, CommandsFit, Holding
<1>2. CommandsFit' /\ operators' \in [Operators -> Process] /\ lockOwner' \in Operators \cup {Nobody}
  <2>1. CASE operators[p].command = "dispatch"
    <3>1. Moves(p, "signing")
      BY <2>1 DEF Release
    <3>2. PICK op \in Process :
             /\ operators' = [operators EXCEPT ![p] = op] /\ op.pc = "signing"
             /\ op.command = operators[p].command /\ op.value = operators[p].value
             /\ op.prior = operators[p].prior /\ op.next = operators[p].next
      BY <3>1, Moved
    <3>3. CommandFits(op)'
      BY <1>1, <2>1, <3>2 DEF CommandFits
    <3> QED
      BY <1>1, <3>2, <3>3, OperatorMoves DEF Holding
  <2>2. CASE operators[p].command # "dispatch"
    <3>1. Ends(p, "idle")
      BY <2>2 DEF Release
    <3> QED
      BY <1>1, <3>1, RestHolds
  <2> QED
    BY <2>1, <2>2
<1>3. LedgerTyped'
  BY <1>1, <1>2, TypedStays
<1>4. StoresFit' /\ CallsFit'
  BY <1>1, StoresStay
<1> QED
  BY <1>2, <1>3, <1>4 DEF LedgerInv

LEMMA DiesHolds ==
  ASSUME LedgerInv, NEW p \in Operators, OperatorDies(p) \/ ClearLock(p)
  PROVE  LedgerInv'
<1> USE NobodyDiffers
<1>1. /\ files \in Nat /\ (lockOwner = p <=> operators[p].pc \in Holding)
      /\ UNCHANGED <<head, sequence, files, capabilities, controlVars, callVars, worldVars>>
  BY DEF OperatorDies, ClearLock, Past, directoryVars, LedgerInv, LedgerTyped, CommandsFit
<1>2. CommandsFit' /\ operators' \in [Operators -> Process] /\ lockOwner' \in Operators \cup {Nobody}
  <2>1. CASE ClearLock(p)
    <3>1. lockOwner = p /\ lockOwner' = Nobody /\ Ends(p, "idle")
      BY <1>1, <2>1 DEF ClearLock, Past, Holding
    <3> QED
      BY <1>1, <3>1, RestHolds
  <2>2. CASE OperatorDies(p) /\ lockOwner = p
    <3>1. UNCHANGED lockOwner /\ Ends(p, "dead")
      BY <2>2 DEF OperatorDies, directoryVars
    <3> QED
      BY <1>1, <2>2, <3>1, RestHolds
  <2>3. CASE OperatorDies(p) /\ lockOwner # p
    <3>1. UNCHANGED lockOwner /\ Ends(p, "idle")
      BY <2>3 DEF OperatorDies, directoryVars
    <3> QED
      BY <1>1, <2>3, <3>1, RestHolds
  <2> QED
    BY <2>1, <2>2, <2>3
<1>3. LedgerTyped'
  BY <1>1, <1>2, TypedStays
<1>4. StoresFit' /\ CallsFit'
  BY <1>1, StoresStay
<1> QED
  BY <1>2, <1>3, <1>4 DEF LedgerInv

\* What a command that has written its snapshot makes of HEAD.
LEMMA HeadAdvances ==
  ASSUME LedgerInv, NEW p \in Operators, ReplaceHead(p)
  PROVE  /\ operators[p].pc = "written" /\ lockOwner = p /\ sequence' = sequence + 1
         /\ CommandFits(operators[p]) /\ head' = operators[p].next
         /\ Fits(head, operators[p].command, operators[p].value) /\ Backed(head, operators[p].command)
         /\ head' = Advance(head, operators[p].command, operators[p].value)
         /\ Good(head)' /\ Grows(head, head')
         /\ UNCHANGED <<files, lockOwner, capabilities, controlVars, callVars, worldVars>>
<1>1. /\ operators[p].pc = "written" /\ CommandFits(operators[p]) /\ Good(head) /\ lockOwner = p
      /\ UNCHANGED <<files, lockOwner, capabilities, controlVars, callVars, worldVars>>
  BY DEF ReplaceHead, Past, LedgerInv, LedgerTyped, CommandsFit, Holding
<1>2. PICK old : old = operators[p]
  OBVIOUS
<1>3. PICK next : next = old.next
  OBVIOUS
<1>4. /\ Fits(head, old.command, old.value) /\ Backed(head, old.command) /\ old.prior = sequence
      /\ next = Advance(head, old.command, old.value)
  BY <1>1, <1>2, <1>3 DEF CommandFits
<1>5. Good(next) /\ Grows(head, next)
  BY <1>1, <1>4, AdvanceHolds
<1>6. head' = next /\ sequence' = sequence + 1
  BY <1>2, <1>3, <1>4 DEF ReplaceHead
<1>7. Good(head)'
  BY <1>5, <1>6 DEF Good, ValidLedger, StageFits
<1> QED
  BY <1>1, <1>2, <1>3, <1>4, <1>5, <1>6, <1>7

LEMMA ReplaceHeadHolds ==
  ASSUME LedgerInv, NEW p \in Operators, ReplaceHead(p)
  PROVE  LedgerInv'
<1>c. PICK command, value : command = operators[p].command /\ value = operators[p].value
  OBVIOUS
<1>1. /\ operators[p].pc = "written" /\ lockOwner = p /\ sequence' = sequence + 1
      /\ CommandFits(operators[p]) /\ head' = operators[p].next
      /\ Fits(head, command, value) /\ Backed(head, command)
      /\ head' = Advance(head, command, value)
      /\ Good(head)' /\ Grows(head, head')
      /\ UNCHANGED <<files, lockOwner, capabilities, controlVars, callVars, worldVars>>
  BY <1>c, HeadAdvances
<1>2. /\ operators \in [Operators -> Process] /\ sequence \in Nat /\ Good(head) /\ files \in Nat
      /\ lockOwner \in Operators \cup {Nobody}
      /\ \A q \in Operators : CommandFits(operators[q])
      /\ \A q \in Operators : lockOwner = q <=> operators[q].pc \in Holding
  BY DEF LedgerInv, LedgerTyped, CommandsFit
<1>3. PICK next : next = head'
  OBVIOUS
<1>4. /\ \A s \in next.completed : \/ s \in head.completed
                                   \/ s = "A" /\ command = "session-boundary"
                                   \/ s = "B" /\ command = "b-reconciliation"
      /\ next.stage = "CLOSED_HEALTHY" => command = "closeout" /\ head.outcome # "blocked"
      /\ head.stage \in {"RESTORED_OBSERVATION_PENDING", "CLOSED_HEALTHY"} /\ head.outcome # "blocked"
         => next.stage = "CLOSED_HEALTHY" /\ next.outcome # "blocked"
      /\ command = "dispatch" => next.dispatches[SlotOf(next)] = value
  <2>1. Fits(head, command, value) /\ next = Advance(head, command, value) /\ Good(head)
    BY <1>1, <1>2, <1>3
  <2> QED
    BY <2>1, AdvanceRecords
<1>5. PICK op \in Process :
         /\ operators' = [operators EXCEPT ![p] = op] /\ op.pc = "replaced"
         /\ op.command = operators[p].command /\ op.value = operators[p].value
         /\ op.prior = operators[p].prior /\ op.next = operators[p].next
  BY Moved DEF ReplaceHead
<1>6. /\ operators' \in [Operators -> Process] /\ operators'[p] = op
      /\ \A q \in Operators : q # p => operators'[q] = operators[q]
  BY <1>2, <1>5
<1>7. \A s \in Slots : head.dispatches[s] # Nobody => head'.dispatches[s] = head.dispatches[s]
  BY <1>1 DEF Grows
<1>8. CommandsFit'
  <2>1. ASSUME NEW q \in Operators
        PROVE  CommandFits(operators[q])'
    <3>1. CASE q = p
      <4>1. op.command = "dispatch" => op.value \in Operators
        BY <1>c, <1>1, <1>5 DEF Fits
      <4>2. op.command = "dispatch" => head'.dispatches[SlotOf(op.next)] = op.value
        BY <1>c, <1>1, <1>3, <1>4, <1>5
      <4>3. op.next = Nobody \/ Good(op.next)
        BY <1>1, <1>5 DEF CommandFits
      <4>4. CommandFits(op)'
        BY <1>5, <4>1, <4>2, <4>3 DEF CommandFits
      <4> QED
        BY <1>6, <3>1, <4>4
    <3>2. CASE q # p
      <4>1. PICK o \in Process : o = operators[q]
        BY <1>2
      <4>2. CommandFits(o) /\ operators'[q] = o /\ o.pc \notin Holding
        BY <1>1, <1>2, <1>6, <3>2, <4>1
      <4>3. o.pc \in {"prepared", "locked"} => o.prior <= sequence' /\ o.prior # sequence'
        <5>1. o.prior \in Nat
          BY DEF Process
        <5>2. o.pc \in {"prepared", "locked"} => o.prior <= sequence
          BY <4>2 DEF CommandFits
        <5>3. sequence' = sequence + 1 /\ sequence \in Nat
          BY <1>1, <1>2
        <5>4. PICK n \in Nat, m \in Nat : n = o.prior /\ m = sequence
          BY <5>1, <5>3
        <5>5. n <= m => n <= m + 1 /\ n # m + 1
          OBVIOUS
        <5> QED
          BY <5>2, <5>3, <5>4, <5>5
      <4>4. o.pc \in {"replaced", "signing"} /\ o.command = "dispatch" =>
              o.value \in Operators /\ head'.dispatches[SlotOf(o.next)] = o.value
        <5>1. PICK s \in Slots : s = SlotOf(o.next)
          BY DEF SlotOf, Slots
        <5>2. o.pc \in {"replaced", "signing"} /\ o.command = "dispatch" =>
                o.value \in Operators /\ head.dispatches[s] = o.value
          BY <4>2, <5>1 DEF CommandFits
        <5> QED
          BY <1>7, <5>1, <5>2, NobodyDiffers
      <4>5. o.next = Nobody \/ Good(o.next)
        BY <4>2 DEF CommandFits
      <4>6. o.pc = "signing" => o.command = "dispatch"
        BY <4>2 DEF CommandFits
      <4>7. CommandFits(o)'
        BY <4>2, <4>3, <4>4, <4>5, <4>6 DEF CommandFits, Holding
      <4> QED
        BY <4>2, <4>7
    <3> QED
      BY <3>1, <3>2
  <2>2. \A q \in Operators : lockOwner' = q <=> operators'[q].pc \in Holding
    <3>1. TAKE q \in Operators
    <3>2. CASE q = p
      BY <1>1, <1>5, <1>6, <3>2 DEF Holding
    <3>3. CASE q # p
      BY <1>1, <1>2, <1>6, <3>3
    <3> QED
      BY <3>2, <3>3
  <2> QED
    BY <2>1, <2>2 DEF CommandsFit
<1>9. StoresFit'
  <2>1. \A c \in capabilities' : head'.dispatches[c.slot] = c.attempt
    <3>1. TAKE c \in capabilities'
    <3>2. c.slot \in Slots /\ c.attempt \in Operators /\ head.dispatches[c.slot] = c.attempt
      BY <1>1 DEF LedgerInv, LedgerTyped, StoresFit, Capability
    <3> QED
      BY <1>7, <3>2, NobodyDiffers
  <2>2. ASSUME NEW s \in Slots
        PROVE  /\ consumptions'[s] # Nobody => consumptions'[s] = head'.dispatches[s]
               /\ authorityCalls'[s] = 1 => consumptions'[s] # Nobody
               /\ reconciliations'[s] # Nobody => reconciliations'[s] = consumptions'[s] /\ authorityCalls'[s] = 1
               /\ s \in head'.completed => reconciliations'[s] # Nobody
    <3>1. /\ UNCHANGED <<consumptions, authorityCalls, reconciliations>>
          /\ consumptions[s] # Nobody => consumptions[s] = head.dispatches[s]
          /\ authorityCalls[s] = 1 => consumptions[s] # Nobody
          /\ reconciliations[s] # Nobody => reconciliations[s] = consumptions[s] /\ authorityCalls[s] = 1
          /\ s \in head.completed => reconciliations[s] # Nobody
      BY <1>1 DEF LedgerInv, StoresFit, controlVars, callVars
    <3>2. s \in head'.completed => reconciliations[s] # Nobody
      BY <1>1, <1>3, <1>4, <3>1 DEF Backed
    <3> QED
      BY <1>7, <3>1, <3>2
  <2>3. consumptions'["B"] # Nobody => reconciliations'["A"] # Nobody
    BY <1>1 DEF LedgerInv, StoresFit, controlVars
  <2>4. closeout' = "healthy" =>
          head'.stage \in {"RESTORED_OBSERVATION_PENDING", "CLOSED_HEALTHY"} /\ head'.outcome # "blocked"
    BY <1>1, <1>3, <1>4 DEF LedgerInv, StoresFit, controlVars
  <2>5. head'.stage = "CLOSED_HEALTHY" => closeout' = "healthy"
    BY <1>1, <1>3, <1>4 DEF Backed, controlVars
  <2> QED
    BY <2>1, <2>2, <2>3, <2>4, <2>5 DEF StoresFit
<1>10. CallsFit'
  BY <1>1 DEF LedgerInv, CallsFit, CallFits, controlVars, callVars
<1>11. LedgerTyped'
  <2>1. sequence' \in Nat /\ files' \in Nat /\ lockOwner' \in Operators \cup {Nobody}
    <3>1. sequence' = sequence + 1 /\ sequence \in Nat
      BY <1>1, <1>2
    <3>2. sequence' \in Nat
      BY <3>1
    <3> QED
      BY <1>1, <1>2, <3>2
  <2>2. UNCHANGED <<capabilities, consumptions, reconciliations, closeout, gatewayCalls, authorityCalls,
                    gatesOn, runtimeAlive>>
    BY <1>1 DEF controlVars, callVars, worldVars
  <2>3. Good(head)' /\ operators' \in [Operators -> Process]
    BY <1>1, <1>6
  <2> QED
    BY <2>1, <2>2, <2>3 DEF LedgerInv, LedgerTyped
<1> QED
  BY <1>8, <1>9, <1>10, <1>11 DEF LedgerInv

LEMMA SignHolds ==
  ASSUME LedgerInv, NEW p \in Operators, Sign(p)
  PROVE  LedgerInv'
<1>1. /\ operators[p].pc = "signing" /\ files \in Nat /\ CommandFits(operators[p])
      /\ (lockOwner = p <=> operators[p].pc \in Holding) /\ Ends(p, "idle")
      /\ UNCHANGED <<head, sequence, files, lockOwner, controlVars, callVars, worldVars>>
  BY DEF Sign, Past, directoryVars, LedgerInv, LedgerTyped, CommandsFit
<1>2. CommandsFit' /\ operators' \in [Operators -> Process] /\ lockOwner' \in Operators \cup {Nobody}
  <2>1. lockOwner # p
    BY <1>1 DEF Holding
  <2> QED
    BY <1>1, <2>1, RestHolds
<1>3. PICK slot \in Slots : slot = SlotOf(operators[p].next)
  BY DEF SlotOf, Slots
<1>4. PICK attempt : attempt = operators[p].value
  OBVIOUS
<1>5. attempt \in Operators /\ head.dispatches[slot] = attempt
  BY <1>1, <1>3, <1>4 DEF CommandFits
<1>6. capabilities' = capabilities \cup {[slot |-> slot, attempt |-> attempt]}
  BY <1>3, <1>4 DEF Sign
<1>7. LedgerTyped'
  <2>1. Good(head) /\ head' = head
    BY <1>1 DEF LedgerInv, LedgerTyped
  <2>2. Good(head)'
    BY <2>1 DEF Good, ValidLedger, StageFits
  <2>3. capabilities' \subseteq Capability
    BY <1>3, <1>5, <1>6 DEF LedgerInv, LedgerTyped, Capability
  <2> QED
    <3>1. sequence' \in Nat /\ files' \in Nat
      BY <1>1 DEF LedgerInv, LedgerTyped
    <3>2. UNCHANGED <<consumptions, reconciliations, closeout, gatewayCalls, authorityCalls,
                      gatesOn, runtimeAlive>>
      BY <1>1 DEF controlVars, callVars, worldVars
    <3> QED
      BY <1>2, <2>2, <2>3, <3>1, <3>2 DEF LedgerInv, LedgerTyped
<1>8. StoresFit'
  <2>1. \A c \in capabilities' : head'.dispatches[c.slot] = c.attempt
    BY <1>1, <1>5, <1>6 DEF LedgerInv, StoresFit
  <2> QED
    BY <1>1, <2>1 DEF LedgerInv, StoresFit, controlVars, callVars
<1>9. CallsFit'
  BY <1>1, <1>6 DEF LedgerInv, CallsFit, CallFits, controlVars, callVars
<1> QED
  BY <1>2, <1>7, <1>8, <1>9 DEF LedgerInv

-----------------------------------------------------------------------------
(* The steps of the control records. *)

\* A call that was answered has reached the authority.
LEMMA AnsweredReached ==
  ASSUME LedgerInv, NEW s \in Slots, CallAnswered(s)
  PROVE  authorityCalls[s] = 1
<1>1. PICK g \in DOMAIN gatewayCalls : gatewayCalls[g].pc \in {"answered"} /\ gatewayCalls[g].capability.slot = s
  BY DEF CallAnswered, SlotCalls
<1>2. CallFits(gatewayCalls[g])
  BY DEF LedgerInv, CallsFit
<1> QED
  BY <1>1, <1>2 DEF CallFits

LEMMA RecordHolds ==
  ASSUME LedgerInv, RecordCreated
  PROVE  LedgerInv'
<1>1. UNCHANGED <<head, sequence, files, lockOwner, operators, capabilities, consumptions, gatewayCalls,
                  authorityCalls, gatesOn, runtimeAlive>>
  BY DEF RecordCreated, CreateReconciliation, CreateCloseout, CreatePreEnableAbort, RecordStep,
         directoryVars, callVars, worldVars
<1>2. Good(head)'
  <2>1. Good(head) /\ head' = head
    BY <1>1 DEF LedgerInv, LedgerTyped
  <2> QED
    BY <2>1 DEF Good, ValidLedger, StageFits
<1>3. /\ reconciliations \in [Slots -> Operators \cup {Nobody}]
      /\ consumptions \in [Slots -> Operators \cup {Nobody}]
      /\ closeout \in {Nobody, "healthy", "blocked", "abort"}
  BY DEF LedgerInv, LedgerTyped
<1>4. CASE \E s \in Slots : CreateReconciliation(s)
  <2>1. PICK s \in Slots : CreateReconciliation(s)
    BY <1>4
  <2>2. /\ reconciliations[s] = Nobody /\ consumptions[s] # Nobody /\ closeout' = closeout
        /\ reconciliations' = [reconciliations EXCEPT ![s] = consumptions[s]]
        /\ s = "B" => reconciliations["A"] # Nobody
    BY <2>1 DEF CreateReconciliation
  <2>3. authorityCalls[s] = 1
    BY <2>1, AnsweredReached DEF CreateReconciliation
  <2>4. /\ reconciliations' \in [Slots -> Operators \cup {Nobody}] /\ reconciliations'[s] = consumptions[s]
        /\ \A o \in Slots : o # s => reconciliations'[o] = reconciliations[o]
    BY <1>3, <2>2
  <2>5. \A o \in Slots : reconciliations[o] # Nobody => reconciliations'[o] # Nobody
    BY <2>2, <2>4
  <2>6. CommandsFit'
    BY <1>1, <2>2, <2>5, CommandsStay DEF directoryVars
  <2>7. StoresFit'
    <3>1. \A o \in Slots : reconciliations'[o] # Nobody =>
            reconciliations'[o] = consumptions[o] /\ authorityCalls[o] = 1
      BY <2>2, <2>3, <2>4 DEF LedgerInv, StoresFit
    <3> QED
      BY <1>1, <2>2, <2>5, <3>1, SlotsAre DEF LedgerInv, StoresFit
  <2> QED
    BY <1>1, <1>2, <2>2, <2>4, <2>6, <2>7 DEF LedgerInv, LedgerTyped, CallsFit, CallFits
<1>5. CASE CreateCloseout \/ CreatePreEnableAbort
  <2>1. /\ closeout = Nobody /\ reconciliations' = reconciliations
        /\ closeout' \in {"healthy", "blocked", "abort"}
        /\ closeout' = "healthy" => head.stage = "RESTORED_OBSERVATION_PENDING" /\ head.outcome # "blocked"
    BY <1>5 DEF CreateCloseout, CreatePreEnableAbort
  <2>2. CommandsFit'
    BY <1>1, <2>1, CommandsStay DEF directoryVars
  <2>3. head.stage # "CLOSED_HEALTHY"
    BY <2>1, NobodyDiffers DEF LedgerInv, StoresFit
  <2>4. StoresFit'
    BY <1>1, <2>1, <2>3 DEF LedgerInv, StoresFit
  <2> QED
    BY <1>1, <1>2, <2>1, <2>2, <2>4 DEF LedgerInv, LedgerTyped, CallsFit, CallFits
<1> QED
  BY <1>4, <1>5 DEF RecordCreated

LEMMA PeopleHold ==
  ASSUME LedgerInv, PeopleStep
  PROVE  LedgerInv'
<1>1. /\ UNCHANGED <<directoryVars, operators, capabilities, controlVars, callVars>>
      /\ gatesOn' \in BOOLEAN /\ runtimeAlive' \in BOOLEAN
  BY DEF PeopleStep, EnableGates, RestoreGates, RuntimeLost, WorldStep, LedgerInv, LedgerTyped
<1>2. UNCHANGED <<head, sequence, files, lockOwner, operators, capabilities, consumptions,
                  reconciliations, closeout, gatewayCalls, authorityCalls>>
  BY <1>1 DEF directoryVars, controlVars, callVars
<1>3. Good(head)'
  <2>1. Good(head) /\ head' = head
    BY <1>2 DEF LedgerInv, LedgerTyped
  <2> QED
    BY <2>1 DEF Good, ValidLedger, StageFits
<1>4. LedgerTyped'
  BY <1>1, <1>2, <1>3 DEF LedgerInv, LedgerTyped
<1>5. CommandsFit'
  BY <1>1, <1>2, CommandsStay
<1>6. StoresFit' /\ CallsFit'
  BY <1>1, <1>2, StoresStay
<1> QED
  BY <1>4, <1>5, <1>6 DEF LedgerInv

-----------------------------------------------------------------------------
(* The steps of the gateway. *)

\* The gateway leaves the directory, the operators and what they have signed alone.
LEMMA DirectoryStays ==
  ASSUME LedgerInv, UNCHANGED <<directoryVars, operators, capabilities, reconciliations, closeout, worldVars>>,
         gatewayCalls' \in Seq(GatewayCall), authorityCalls' \in [Slots -> 0..1],
         consumptions' \in [Slots -> Operators \cup {Nobody}]
  PROVE  LedgerTyped' /\ CommandsFit'
<1>1. UNCHANGED <<head, sequence, files, lockOwner, operators, capabilities, reconciliations, closeout,
                  gatesOn, runtimeAlive>>
  BY DEF directoryVars, worldVars
<1>2. Good(head)'
  <2>1. Good(head) /\ head' = head
    BY <1>1 DEF LedgerInv, LedgerTyped
  <2> QED
    BY <2>1 DEF Good, ValidLedger, StageFits
<1>3. CommandsFit'
  BY <1>1, CommandsStay DEF directoryVars
<1> QED
  BY <1>1, <1>2, <1>3 DEF LedgerInv, LedgerTyped

\* One call of the gateway moves on; the others are as they were.
LEMMA CallMoves ==
  ASSUME LedgerInv, NEW g \in DOMAIN gatewayCalls,
         NEW pc \in {"presented", "admitted", "answered", "failed"}, Leaves(g, pc)
  PROVE  /\ gatewayCalls' \in Seq(GatewayCall) /\ DOMAIN gatewayCalls' = DOMAIN gatewayCalls
         /\ gatewayCalls'[g].pc = pc /\ gatewayCalls'[g].capability = gatewayCalls[g].capability
         /\ \A h \in DOMAIN gatewayCalls : h # g => gatewayCalls'[h] = gatewayCalls[h]
<1>1. gatewayCalls \in Seq(GatewayCall)
  BY DEF LedgerInv, LedgerTyped
<1>2. PICK old \in GatewayCall : old = gatewayCalls[g]
  BY <1>1
<1>3. PICK call : call = [old EXCEPT !.pc = pc]
  OBVIOUS
<1>4. call \in GatewayCall /\ call.pc = pc /\ call.capability = old.capability
  BY <1>2, <1>3 DEF GatewayCall
<1>5. gatewayCalls' = [gatewayCalls EXCEPT ![g] = call]
  BY <1>2, <1>3 DEF Leaves
<1> QED
  BY <1>1, <1>2, <1>4, <1>5

LEMMA PresentHolds ==
  ASSUME LedgerInv, Present
  PROVE  LedgerInv'
<1>1. PICK c \in capabilities : gatewayCalls' = Append(gatewayCalls, [pc |-> "presented", capability |-> c])
  BY DEF Present
<1>2. /\ UNCHANGED <<directoryVars, operators, capabilities, controlVars, authorityCalls, worldVars>>
      /\ gatewayCalls \in Seq(GatewayCall) /\ c \in Capability
      /\ consumptions \in [Slots -> Operators \cup {Nobody}] /\ authorityCalls \in [Slots -> 0..1]
  BY DEF Present, LedgerInv, LedgerTyped
<1>3. UNCHANGED <<head, consumptions, reconciliations, closeout, capabilities, authorityCalls>>
  BY <1>2 DEF controlVars, directoryVars
<1>4. PICK call : call = [pc |-> "presented", capability |-> c]
  OBVIOUS
<1>5. call \in GatewayCall /\ call.pc = "presented" /\ call.capability = c
  BY <1>2, <1>4 DEF GatewayCall
<1>6. PICK n \in Nat : n = Len(gatewayCalls)
  BY <1>2
<1>7. /\ gatewayCalls' \in Seq(GatewayCall) /\ DOMAIN gatewayCalls' = 1..(n + 1)
      /\ DOMAIN gatewayCalls = 1..n /\ gatewayCalls'[n + 1] = call
      /\ \A g \in 1..n : gatewayCalls'[g] = gatewayCalls[g]
  BY <1>1, <1>2, <1>4, <1>5, <1>6
<1>8. \A g \in 1..(n + 1) : g \in 1..n \/ g = n + 1
  OBVIOUS
<1>9. LedgerTyped' /\ CommandsFit'
  BY <1>2, <1>3, <1>7, DirectoryStays
<1>10. StoresFit'
  BY <1>3 DEF LedgerInv, StoresFit
<1>11. CallsFit'
  <2>1. ASSUME NEW g \in 1..(n + 1)
        PROVE  CallFits(gatewayCalls[g])'
    <3>1. CASE g \in 1..n
      BY <1>3, <1>7, <3>1 DEF LedgerInv, CallsFit, CallFits
    <3>2. CASE g = n + 1
      BY <1>3, <1>5, <1>7, <3>2 DEF CallFits
    <3> QED
      BY <1>8, <3>1, <3>2
  <2>2. \A g, h \in 1..(n + 1) :
          /\ gatewayCalls'[g].pc = "admitted" /\ gatewayCalls'[h].pc = "admitted"
          /\ gatewayCalls'[g].capability.slot = gatewayCalls'[h].capability.slot
          => g = h
    <3>1. \A g \in 1..(n + 1) : gatewayCalls'[g].pc = "admitted" =>
            g \in 1..n /\ gatewayCalls'[g] = gatewayCalls[g]
      BY <1>5, <1>7, <1>8
    <3> QED
      BY <1>7, <3>1 DEF LedgerInv, CallsFit
  <2> QED
    BY <1>7, <2>1, <2>2 DEF CallsFit
<1> QED
  BY <1>9, <1>10, <1>11 DEF LedgerInv

LEMMA ConsumeHolds ==
  ASSUME LedgerInv, NEW g \in DOMAIN gatewayCalls, ConsumeAdmission(g)
  PROVE  LedgerInv'
<1>1. PICK c : c = gatewayCalls[g].capability
  OBVIOUS
<1>2. /\ gatewayCalls[g].pc = "presented" /\ authorityCalls' = authorityCalls
      /\ UNCHANGED <<directoryVars, operators, capabilities, reconciliations, closeout, worldVars>>
  BY DEF ConsumeAdmission, Gateway
<1>3. UNCHANGED <<head, capabilities, reconciliations, closeout>>
  BY <1>2 DEF directoryVars
<1>4. /\ gatewayCalls \in Seq(GatewayCall) /\ capabilities \subseteq Capability
      /\ consumptions \in [Slots -> Operators \cup {Nobody}] /\ authorityCalls \in [Slots -> 0..1]
      /\ \A h \in DOMAIN gatewayCalls : CallFits(gatewayCalls[h])
      /\ \A h, k \in DOMAIN gatewayCalls :
           /\ gatewayCalls[h].pc = "admitted" /\ gatewayCalls[k].pc = "admitted"
           /\ gatewayCalls[h].capability.slot = gatewayCalls[k].capability.slot
           => h = k
  BY DEF LedgerInv, LedgerTyped, CallsFit
<1>5. /\ c \in capabilities /\ c.slot \in Slots /\ c.attempt \in Operators
      /\ head.dispatches[c.slot] = c.attempt
  BY <1>1, <1>4 DEF CallFits, Capability, LedgerInv, StoresFit
<1>6. PICK pc \in {"admitted", "failed"} : Leaves(g, pc)
  BY DEF ConsumeAdmission
<1>7. /\ gatewayCalls' \in Seq(GatewayCall) /\ DOMAIN gatewayCalls' = DOMAIN gatewayCalls
      /\ gatewayCalls'[g].pc = pc /\ gatewayCalls'[g].capability = c
      /\ \A h \in DOMAIN gatewayCalls : h # g => gatewayCalls'[h] = gatewayCalls[h]
  BY <1>1, <1>6, CallMoves
<1>8. CASE Admissible(c)
  <2>1. /\ consumptions' = [consumptions EXCEPT ![c.slot] = c.attempt]
        /\ consumptions[c.slot] = Nobody /\ (c.slot = "B" => reconciliations["A"] # Nobody)
    BY <1>1, <1>8 DEF ConsumeAdmission, Admissible
  <2>2. /\ consumptions' \in [Slots -> Operators \cup {Nobody}]
        /\ consumptions'[c.slot] = c.attempt
        /\ \A s \in Slots : s # c.slot => consumptions'[s] = consumptions[s]
    BY <1>4, <1>5, <2>1
  <2>3. c.attempt # Nobody /\ authorityCalls[c.slot] = 0 /\ reconciliations[c.slot] = Nobody
    <3>1. c.attempt # Nobody
      BY <1>5, NobodyDiffers
    <3>2. authorityCalls[c.slot] # 1
      BY <1>5, <2>1 DEF LedgerInv, StoresFit
    <3>3. authorityCalls[c.slot] = 0
      BY <1>4, <1>5, <3>2
    <3> QED
      BY <1>5, <3>1, <3>2, <3>3 DEF LedgerInv, StoresFit
  <2>4. StoresFit'
    <3>1. ASSUME NEW s \in Slots
          PROVE  /\ consumptions'[s] # Nobody => consumptions'[s] = head'.dispatches[s]
                 /\ authorityCalls'[s] = 1 => consumptions'[s] # Nobody
                 /\ reconciliations'[s] # Nobody => reconciliations'[s] = consumptions'[s] /\ authorityCalls'[s] = 1
                 /\ s \in head'.completed => reconciliations'[s] # Nobody
      <4>1. /\ consumptions[s] # Nobody => consumptions[s] = head.dispatches[s]
            /\ authorityCalls[s] = 1 => consumptions[s] # Nobody
            /\ reconciliations[s] # Nobody => reconciliations[s] = consumptions[s] /\ authorityCalls[s] = 1
            /\ s \in head.completed => reconciliations[s] # Nobody
        BY DEF LedgerInv, StoresFit
      <4>2. CASE s = c.slot
        BY <1>2, <1>3, <1>5, <2>2, <2>3, <4>1, <4>2
      <4>3. CASE s # c.slot
        BY <1>2, <1>3, <2>2, <4>1, <4>3
      <4> QED
        BY <4>2, <4>3
    <3>2. consumptions'["B"] # Nobody => reconciliations'["A"] # Nobody
      <4>1. CASE c.slot = "B"
        BY <1>3, <2>1, <4>1
      <4>2. CASE c.slot # "B"
        BY <1>3, <2>2, <4>2, SlotsAre DEF LedgerInv, StoresFit
      <4> QED
        BY <4>1, <4>2
    <3>3. /\ \A k \in capabilities' : head'.dispatches[k.slot] = k.attempt
          /\ closeout' = "healthy" =>
               head'.stage \in {"RESTORED_OBSERVATION_PENDING", "CLOSED_HEALTHY"} /\ head'.outcome # "blocked"
          /\ head'.stage = "CLOSED_HEALTHY" => closeout' = "healthy"
      BY <1>3 DEF LedgerInv, StoresFit
    <3> QED
      BY <3>1, <3>2, <3>3 DEF StoresFit
  <2>5. \A h \in DOMAIN gatewayCalls :
          gatewayCalls[h].pc = "admitted" => gatewayCalls[h].capability.slot # c.slot
    BY <1>4, <2>1 DEF CallFits
  <2>6. CallsFit'
    <3>1. ASSUME NEW h \in DOMAIN gatewayCalls
          PROVE  CallFits(gatewayCalls[h])'
      <4>1. CASE h = g
        BY <1>2, <1>3, <1>5, <1>7, <2>2, <2>3, <4>1 DEF CallFits
      <4>2. CASE h # g
        <5>1. PICK call : call = gatewayCalls[h]
          OBVIOUS
        <5>2. call.capability \in capabilities /\ call.capability.slot \in Slots /\ CallFits(call)
          BY <1>4, <5>1 DEF CallFits, Capability
        <5>3. call.pc = "admitted" => consumptions'[call.capability.slot] # Nobody
          BY <2>2, <2>5, <5>1, <5>2 DEF CallFits
        <5>4. CallFits(call)'
          BY <1>2, <1>3, <5>2, <5>3 DEF CallFits
        <5> QED
          BY <1>7, <4>2, <5>1, <5>4
      <4> QED
        BY <4>1, <4>2
    <3>2. \A h, k \in DOMAIN gatewayCalls :
            /\ gatewayCalls'[h].pc = "admitted" /\ gatewayCalls'[k].pc = "admitted"
            /\ gatewayCalls'[h].capability.slot = gatewayCalls'[k].capability.slot
            => h = k
      BY <1>4, <1>7, <2>5
    <3> QED
      BY <1>7, <3>1, <3>2 DEF CallsFit
  <2>7. LedgerTyped' /\ CommandsFit'
    BY <1>2, <1>4, <1>7, <2>2, DirectoryStays
  <2> QED
    BY <2>4, <2>6, <2>7 DEF LedgerInv
<1>9. CASE ~Admissible(c)
  <2>1. Leaves(g, "failed") /\ consumptions' = consumptions
    BY <1>1, <1>9 DEF ConsumeAdmission
  <2>2. /\ DOMAIN gatewayCalls' = DOMAIN gatewayCalls /\ gatewayCalls' \in Seq(GatewayCall)
        /\ gatewayCalls'[g].pc = "failed" /\ gatewayCalls'[g].capability = c
        /\ \A h \in DOMAIN gatewayCalls : h # g => gatewayCalls'[h] = gatewayCalls[h]
    BY <1>1, <2>1, CallMoves
  <2>3. CallsFit'
    <3>1. ASSUME NEW h \in DOMAIN gatewayCalls
          PROVE  CallFits(gatewayCalls[h])'
      <4>1. CASE h = g
        BY <1>3, <1>5, <2>2, <4>1 DEF CallFits
      <4>2. CASE h # g
        BY <1>2, <1>3, <1>4, <2>1, <2>2, <4>2 DEF CallFits
      <4> QED
        BY <4>1, <4>2
    <3>2. \A h, k \in DOMAIN gatewayCalls :
            /\ gatewayCalls'[h].pc = "admitted" /\ gatewayCalls'[k].pc = "admitted"
            /\ gatewayCalls'[h].capability.slot = gatewayCalls'[k].capability.slot
            => h = k
      BY <1>4, <2>2
    <3> QED
      BY <2>2, <3>1, <3>2 DEF CallsFit
  <2>4. StoresFit'
    BY <1>2, <1>3, <2>1 DEF LedgerInv, StoresFit
  <2>5. LedgerTyped' /\ CommandsFit'
    BY <1>2, <1>4, <2>1, <2>2, DirectoryStays
  <2> QED
    BY <2>3, <2>4, <2>5 DEF LedgerInv
<1> QED
  BY <1>8, <1>9

\* A call ends, or the authority has done what it was admitted for.
LEMMA CallEnds ==
  ASSUME LedgerInv, NEW g \in DOMAIN gatewayCalls, InvokeAuthority(g) \/ GatewayFails(g)
  PROVE  LedgerInv'
<1>1. PICK slot : slot = gatewayCalls[g].capability.slot
  OBVIOUS
<1>2. /\ consumptions' = consumptions /\ gatewayCalls[g].pc \in {"presented", "admitted"}
      /\ UNCHANGED <<directoryVars, operators, capabilities, reconciliations, closeout, worldVars>>
  BY DEF InvokeAuthority, GatewayFails, Gateway
<1>3. UNCHANGED <<head, capabilities, reconciliations, closeout>>
  BY <1>2 DEF directoryVars
<1>4. /\ gatewayCalls \in Seq(GatewayCall) /\ capabilities \subseteq Capability
      /\ consumptions \in [Slots -> Operators \cup {Nobody}] /\ authorityCalls \in [Slots -> 0..1]
      /\ \A h \in DOMAIN gatewayCalls : CallFits(gatewayCalls[h])
      /\ \A h, k \in DOMAIN gatewayCalls :
           /\ gatewayCalls[h].pc = "admitted" /\ gatewayCalls[k].pc = "admitted"
           /\ gatewayCalls[h].capability.slot = gatewayCalls[k].capability.slot
           => h = k
  BY DEF LedgerInv, LedgerTyped, CallsFit
<1>5. slot \in Slots /\ gatewayCalls[g].capability \in capabilities
  BY <1>1, <1>4 DEF CallFits, Capability
<1>6. \E pc \in {"answered", "failed"} :
        /\ Leaves(g, pc)
        /\ \/ authorityCalls' = authorityCalls /\ pc = "failed"
           \/ /\ gatewayCalls[g].pc = "admitted"
              /\ authorityCalls' = [authorityCalls EXCEPT ![slot] = @ + 1]
  BY <1>1 DEF InvokeAuthority, GatewayFails, Gateway
<1>7. PICK pc \in {"answered", "failed"} :
        /\ Leaves(g, pc)
        /\ \/ authorityCalls' = authorityCalls /\ pc = "failed"
           \/ /\ gatewayCalls[g].pc = "admitted"
              /\ authorityCalls' = [authorityCalls EXCEPT ![slot] = @ + 1]
  BY <1>6
<1>8. /\ gatewayCalls' \in Seq(GatewayCall) /\ DOMAIN gatewayCalls' = DOMAIN gatewayCalls
      /\ gatewayCalls'[g].pc = pc /\ gatewayCalls'[g].capability = gatewayCalls[g].capability
      /\ \A h \in DOMAIN gatewayCalls : h # g => gatewayCalls'[h] = gatewayCalls[h]
  BY <1>7, CallMoves
<1>9. /\ authorityCalls' \in [Slots -> 0..1]
      /\ \A s \in Slots : authorityCalls[s] = 1 => authorityCalls'[s] = 1
      /\ \A s \in Slots : authorityCalls'[s] = 1 => consumptions[s] # Nobody
      /\ pc = "answered" => authorityCalls'[slot] = 1
      /\ \A s \in Slots : s # slot => authorityCalls'[s] = authorityCalls[s]
      /\ gatewayCalls[g].pc # "admitted" => authorityCalls' = authorityCalls
  <2>1. CASE authorityCalls' = authorityCalls /\ pc = "failed"
    BY <1>4, <2>1 DEF LedgerInv, StoresFit
  <2>2. CASE gatewayCalls[g].pc = "admitted" /\ authorityCalls' = [authorityCalls EXCEPT ![slot] = @ + 1]
    <3>1. authorityCalls[slot] = 0 /\ consumptions[slot] # Nobody
      BY <1>1, <1>4, <2>2 DEF CallFits
    <3>2. authorityCalls' = [authorityCalls EXCEPT ![slot] = 1]
      BY <2>2, <3>1
    <3>3. /\ authorityCalls' \in [Slots -> 0..1] /\ authorityCalls'[slot] = 1
          /\ \A s \in Slots : s # slot => authorityCalls'[s] = authorityCalls[s]
      BY <1>4, <1>5, <3>2
    <3> QED
      BY <2>2, <3>1, <3>3 DEF LedgerInv, StoresFit
  <2> QED
    BY <1>7, <2>1, <2>2
<1>10. StoresFit'
  BY <1>2, <1>3, <1>9 DEF LedgerInv, StoresFit
<1>11. CallsFit'
  <2>1. ASSUME NEW h \in DOMAIN gatewayCalls
        PROVE  CallFits(gatewayCalls[h])'
    <3>1. CASE h = g
      BY <1>1, <1>3, <1>5, <1>8, <1>9, <3>1 DEF CallFits
    <3>2. CASE h # g
      <4>1. PICK call : call = gatewayCalls[h]
        OBVIOUS
      <4>2. call.capability \in capabilities /\ call.capability.slot \in Slots /\ CallFits(call)
        BY <1>4, <4>1 DEF CallFits, Capability
      <4>3. call.pc = "admitted" => authorityCalls'[call.capability.slot] = authorityCalls[call.capability.slot]
        BY <1>1, <1>4, <1>9, <3>2, <4>1, <4>2
      <4>4. CallFits(call)'
        BY <1>2, <1>3, <1>9, <4>2, <4>3 DEF CallFits
      <4> QED
        BY <1>8, <3>2, <4>1, <4>4
    <3> QED
      BY <3>1, <3>2
  <2>2. \A h, k \in DOMAIN gatewayCalls :
          /\ gatewayCalls'[h].pc = "admitted" /\ gatewayCalls'[k].pc = "admitted"
          /\ gatewayCalls'[h].capability.slot = gatewayCalls'[k].capability.slot
          => h = k
    BY <1>4, <1>8
  <2> QED
    BY <1>8, <2>1, <2>2 DEF CallsFit
<1>12. LedgerTyped' /\ CommandsFit'
  BY <1>2, <1>4, <1>8, <1>9, DirectoryStays
<1> QED
  BY <1>10, <1>11, <1>12 DEF LedgerInv

-----------------------------------------------------------------------------
(* The theorems. *)

LEMMA LedgerInitHolds == LedgerInit => LedgerInv
<1> SUFFICES ASSUME LedgerInit PROVE LedgerInv
  OBVIOUS
<1>1. PICK ledger : ledger = head
  OBVIOUS
<1>2. /\ ledger.stage = "A_READY" /\ ledger.dispatches = [s \in Slots |-> Nobody]
      /\ ledger.terminals = [s \in Slots |-> Nobody] /\ ledger.completed = {}
      /\ ledger.gates = FALSE /\ ledger.outcome = "pending" /\ ledger \in Ledger
  BY <1>1 DEF LedgerInit, Ledger, Stages
<1>3. /\ ledger.dispatches["A"] = Nobody /\ ledger.dispatches["B"] = Nobody
      /\ \A s \in Slots : ledger.terminals[s] = Nobody /\ ledger.dispatches[s] = Nobody
      /\ ledger.dispatches \in [Slots -> Operators \cup {Nobody}]
      /\ ledger.terminals \in [Slots -> {Nobody, "receipt", "no receipt"}]
  BY <1>2, SlotsAre
<1>4. ValidLedger(ledger)
  BY <1>2, <1>3 DEF ValidLedger, AnyPrefix, BlockedStages, POST_ENABLE_STAGES
<1>5. StageFits(ledger)
  BY <1>2, <1>3 DEF StageFits
<1>6. \A p \in Operators : operators[p] = AtRest("idle")
  BY DEF LedgerInit
<1>7. PICK rest : rest = AtRest("idle")
  OBVIOUS
<1>8. rest \in Process /\ rest.pc = "idle" /\ rest.next = Nobody
  BY <1>7 DEF AtRest, Process
<1>9. CommandFits(rest)
  BY <1>8 DEF CommandFits
<1>10. CommandsFit
  BY <1>6, <1>7, <1>8, <1>9, NobodyDiffers DEF CommandsFit, LedgerInit, Holding
<1>11. LedgerTyped
  <2>1. Good(head)
    BY <1>1, <1>2, <1>4, <1>5 DEF Good
  <2>2. operators \in [Operators -> Process]
    BY <1>7, <1>8 DEF LedgerInit
  <2>3. /\ consumptions \in [Slots -> Operators \cup {Nobody}]
        /\ reconciliations \in [Slots -> Operators \cup {Nobody}]
        /\ authorityCalls \in [Slots -> 0..1]
    BY DEF LedgerInit
  <2>4. gatewayCalls \in Seq(GatewayCall) /\ capabilities \subseteq Capability
    BY DEF LedgerInit
  <2>5. sequence \in Nat /\ files \in Nat /\ lockOwner \in Operators \cup {Nobody}
    BY DEF LedgerInit
  <2> QED
    BY <2>1, <2>2, <2>3, <2>4, <2>5 DEF LedgerInit, LedgerTyped
<1>12. StoresFit /\ CallsFit
  <2>1. /\ \A s \in Slots : consumptions[s] = Nobody /\ reconciliations[s] = Nobody /\ authorityCalls[s] = 0
        /\ capabilities = {} /\ closeout = Nobody /\ gatewayCalls = <<>>
    BY DEF LedgerInit
  <2>2. closeout # "healthy"
    BY <2>1, NobodyDiffers
  <2>3. DOMAIN gatewayCalls = {}
    BY <2>1
  <2> QED
    BY <1>1, <1>2, <2>1, <2>2, <2>3, SlotsAre DEF StoresFit, CallsFit
<1> QED
  BY <1>10, <1>11, <1>12 DEF LedgerInv

LEMMA LedgerStepHolds == LedgerInv /\ [LedgerNext]_ledgerVars => LedgerInv'
<1> SUFFICES ASSUME LedgerInv, [LedgerNext]_ledgerVars PROVE LedgerInv'
  OBVIOUS
<1>1. ASSUME NEW p \in Operators, CommandStep(p) PROVE LedgerInv'
  BY <1>1, PrepareHolds, AcquireHolds, ValidateHolds, WriteSnapshotHolds, ReplaceHeadHolds, ReleaseHolds,
     SignHolds, DiesHolds DEF CommandStep
<1>2. ASSUME NEW g \in DOMAIN gatewayCalls, GatewayStep(g) PROVE LedgerInv'
  BY <1>2, ConsumeHolds, CallEnds DEF GatewayStep
<1>3. CASE UNCHANGED ledgerVars
  <2>1. UNCHANGED <<head, sequence, files, lockOwner, operators, capabilities, controlVars, callVars, worldVars>>
    BY <1>3 DEF ledgerVars, directoryVars
  <2>2. LedgerTyped'
    BY <2>1, TypedStays DEF LedgerInv, LedgerTyped
  <2>3. CommandsFit'
    BY <2>1, CommandsStay DEF directoryVars, controlVars
  <2>4. StoresFit' /\ CallsFit'
    BY <2>1, StoresStay
  <2> QED
    BY <2>2, <2>3, <2>4 DEF LedgerInv
<1> QED
  BY <1>1, <1>2, <1>3, PresentHolds, RecordHolds, PeopleHold DEF LedgerNext

\* The inductive invariant of the ledger holds in every reachable state.
THEOREM LedgerInvariant == LedgerSpec => []LedgerInv
<1>1. LedgerInit => LedgerInv
  BY LedgerInitHolds
<1>2. LedgerInv /\ [LedgerNext]_ledgerVars => LedgerInv'
  BY LedgerStepHolds
<1> QED
  BY <1>1, <1>2, PTL DEF LedgerSpec

\* Each slot is dispatched to one capability and admitted once, behind a ledger that the
\* validation accepts, whoever runs the commands and however they overlap or die.
THEOREM OneRun == LedgerSpec => []RunIsExclusive
<1>1. LedgerInv => RunIsExclusive
  <2> SUFFICES ASSUME LedgerInv PROVE RunIsExclusive
    OBVIOUS
  <2>1. LedgerTypeOK
    <3>1. \A p \in Operators : operators[p].next # Nobody => ValidLedger(operators[p].next)
      BY DEF LedgerInv, CommandsFit, CommandFits, Good
    <3>2. \A p \in Operators : operators[p].command \in Commands \cup {Nobody}
      BY DEF LedgerInv, LedgerTyped, Process
    <3>3. \A c \in capabilities : c.slot \in Slots /\ c.attempt \in Operators
      BY DEF LedgerInv, LedgerTyped, Capability
    <3> QED
      BY <3>1, <3>2, <3>3 DEF LedgerInv, LedgerTyped, LedgerTypeOK, Good
  <2>2. OneCapabilityPerSlot
    BY DEF LedgerInv, StoresFit, OneCapabilityPerSlot
  <2>3. AdmittedOnce
    <3>1. ASSUME NEW s \in Slots
          PROVE  /\ authorityCalls[s] <= 1
                 /\ authorityCalls[s] = 1 => consumptions[s] # Nobody /\ consumptions[s] = head.dispatches[s]
      <4>1. authorityCalls[s] \in 0..1
        BY DEF LedgerInv, LedgerTyped
      <4> QED
        BY <4>1 DEF LedgerInv, StoresFit
    <3>2. consumptions["B"] # Nobody =>
            reconciliations["A"] # Nobody /\ authorityCalls["A"] = 1 /\ "A" \in head.completed
      BY SlotsAre DEF LedgerInv, LedgerTyped, StoresFit, Good, ValidLedger
    <3> QED
      BY <3>1, <3>2 DEF AdmittedOnce
  <2> QED
    BY <2>1, <2>2, <2>3 DEF RunIsExclusive
<1> QED
  BY <1>1, LedgerInvariant, PTL

\* What a closed ledger and its closeout record say of the run is true of every other store.
THEOREM TrueEnds == LedgerSpec => []EndsAreTrue
<1>1. LedgerInv => EndsAreTrue
  <2> SUFFICES ASSUME LedgerInv PROVE EndsAreTrue
    OBVIOUS
  <2>1. ASSUME head.stage = "CLOSED_HEALTHY"
        PROVE  /\ closeout = "healthy" /\ head.completed = Slots
               /\ \A s \in Slots : /\ consumptions[s] = head.dispatches[s] /\ authorityCalls[s] = 1
                                   /\ reconciliations[s] = consumptions[s] /\ consumptions[s] # Nobody
    <3>1. closeout = "healthy"
      BY <2>1 DEF LedgerInv, StoresFit
    <3>2. head.completed = Slots
      BY <2>1 DEF LedgerInv, LedgerTyped, Good, ValidLedger, AnyPrefix
    <3> QED
      BY <3>1, <3>2 DEF LedgerInv, StoresFit
  <2>2. ASSUME head.stage = "PRE_ENABLE_ABORTED"
        PROVE  capabilities = {} /\ \A s \in Slots : consumptions[s] = Nobody /\ authorityCalls[s] = 0
    <3>1. \A s \in Slots : head.dispatches[s] = Nobody
      BY <2>2, SlotsAre DEF LedgerInv, LedgerTyped, Good, StageFits
    <3>2. \A c \in capabilities : c.slot \in Slots /\ c.attempt \in Operators /\ head.dispatches[c.slot] = c.attempt
      BY DEF LedgerInv, LedgerTyped, StoresFit, Capability
    <3>3. capabilities = {}
      BY <3>1, <3>2, NobodyDiffers
    <3>4. \A s \in Slots : consumptions[s] = Nobody
      BY <3>1 DEF LedgerInv, StoresFit
    <3>5. \A s \in Slots : authorityCalls[s] \in 0..1 /\ authorityCalls[s] # 1
      BY <3>4 DEF LedgerInv, LedgerTyped, StoresFit
    <3>6. \A s \in Slots : authorityCalls[s] = 0
      BY <3>5
    <3> QED
      BY <3>3, <3>4, <3>6
  <2>3. closeout = "healthy" => head.outcome # "blocked"
    BY DEF LedgerInv, StoresFit
  <2> QED
    BY <2>1, <2>2, <2>3 DEF EndsAreTrue
<1> QED
  BY <1>1, LedgerInvariant, PTL

\* Only ReplaceHead moves HEAD, and only WriteSnapshot adds a file; both need a whole directory.
LEMMA ChainSteps ==
  ASSUME LedgerInv, LedgerNext
  PROVE  \/ UNCHANGED <<head, sequence, files>>
         \/ \E p \in Operators : WriteSnapshot(p) \/ ReplaceHead(p)
<1>1. ASSUME NEW p \in Operators, CommandStep(p) PROVE
        UNCHANGED <<head, sequence, files>> \/ WriteSnapshot(p) \/ ReplaceHead(p)
  BY <1>1 DEF CommandStep, Prepare, Acquire, Validate, Release, Sign, OperatorDies, ClearLock, directoryVars
<1>2. ASSUME Present \/ (\E g \in DOMAIN gatewayCalls : GatewayStep(g)) \/ RecordCreated \/ PeopleStep
      PROVE  UNCHANGED <<head, sequence, files>>
  BY <1>2 DEF Present, GatewayStep, ConsumeAdmission, InvokeAuthority, GatewayFails, Gateway, RecordCreated,
     CreateReconciliation, CreateCloseout, CreatePreEnableAbort, RecordStep, PeopleStep, EnableGates,
     RestoreGates, RuntimeLost, WorldStep, directoryVars
<1> QED
  BY <1>1, <1>2 DEF LedgerNext

\* HEAD only grows, one ledger at a time, and a torn directory is left as it is.
THEOREM ChainIsKept == LedgerSpec => ChainHolds
<1>1. ASSUME LedgerInv, [LedgerNext]_ledgerVars
      PROVE  \/ UNCHANGED <<head, sequence>>
             \/ /\ sequence' = sequence + 1
                /\ \A s \in Slots : /\ head.dispatches[s] # Nobody => head'.dispatches[s] = head.dispatches[s]
                                    /\ head.terminals[s] # Nobody => head'.terminals[s] = head.terminals[s]
                /\ head.completed \subseteq head'.completed
                /\ head.outcome = "blocked" => head'.outcome = "blocked"
  <2>1. CASE UNCHANGED ledgerVars
    BY <2>1 DEF ledgerVars, directoryVars
  <2>2. ASSUME NEW p \in Operators, WriteSnapshot(p)
        PROVE  UNCHANGED <<head, sequence>>
    BY <2>2 DEF WriteSnapshot
  <2>3. ASSUME NEW p \in Operators, ReplaceHead(p)
        PROVE  sequence' = sequence + 1 /\ Grows(head, head')
    BY <1>1, <2>3, HeadAdvances
  <2> QED
    BY <1>1, <2>1, <2>2, <2>3, ChainSteps DEF Grows
<1>2. ASSUME LedgerInv, [LedgerNext]_ledgerVars, Torn
      PROVE  UNCHANGED <<head, sequence, files>>
  <2>1. CASE UNCHANGED ledgerVars
    BY <2>1 DEF ledgerVars, directoryVars
  <2>2. \A p \in Operators : ~WriteSnapshot(p)
    <3>1. TAKE p \in Operators
    <3>2. operators[p].pc = "validated" => files = sequence + 1
      BY <1>2 DEF LedgerInv, CommandsFit, CommandFits
    <3> QED
      BY <1>2, <3>2 DEF WriteSnapshot, Past, Torn
  <2>3. \A p \in Operators : ~ReplaceHead(p)
    BY <1>2 DEF ReplaceHead, Past, Torn
  <2> QED
    BY <1>2, <2>1, <2>2, <2>3, ChainSteps
<1>3. LedgerSpec => ChainGrows
  BY <1>1, LedgerInvariant, PTL DEF LedgerSpec, ChainGrows
<1>4. LedgerSpec => CrashFailsClosed
  BY <1>2, LedgerInvariant, PTL DEF LedgerSpec, CrashFailsClosed
<1> QED
  BY <1>3, <1>4 DEF ChainHolds
=============================================================================
