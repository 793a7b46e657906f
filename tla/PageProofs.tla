----------------------------- MODULE PageProofs -----------------------------
(***************************************************************************)
(* What the page owes its user, for every set of rows and users, number of *)
(* flushes, edits and mishaps: the edits of the owned list are delivered,  *)
(* or kept in the queue and shown (ListQueue); and the public share is as  *)
(* the accepted rows say, or a durable marker says that it is not          *)
(* (Publication).                                                          *)
(***************************************************************************)
EXTENDS ListQueue, Publication, TLAPS, FiniteSetTheorems, WellFoundedInduction

----------------------------------------------------------------------------
(***************************************************************************)
(* The owned list.  An edit that is not delivered is in the stored queue   *)
(* with the number of its turn; a flush, which goes on with the entries it *)
(* took, removes an entry only if it is still the one it sent.             *)
(***************************************************************************)
Patches  == UNION {[S -> [row : RowValues, edit : Nat]] : S \in SUBSET Rows}
Entries  == [key : Keys, data : Patches]
Takens   == [key : Keys, data : Patches, current : BOOLEAN]
Writes   == [loop : Loops, key : Keys, data : Patches, as : Users, answer : {"none", "ok", "denied", "failed"}]
Stores   == [owner : Users \cup {NoUser}, list : Lists, queue : Seq(Entries)]
Calls    == [base : Lists, wanted : Lists]
Promises == UNION {[S -> [row : RowValues, edit : Nat, delivered : BOOLEAN]] : S \in SUBSET Rows}

ListTyped ==
  /\ listServer \in Lists /\ session \in Users \cup {NoUser}
  /\ stored \in Stores
  /\ listQueue \in Seq(Entries)
  /\ edits \in Seq(Calls)
  /\ flushes \in [Loops -> Seq(Takens)]
  /\ wire \in Seq(Writes)
  /\ promised \in Promises /\ edited \subseteq Rows
  /\ listCounts \in [edits : Nat, others : Nat, breaks : Nat] /\ Len(edits) <= listCounts.edits

OnePerKey(q) == \A i, j \in DOMAIN q : q[i].key = q[j].key => i = j

HasEntry(q, key, data) == \E i \in DOMAIN q : q[i].key = key /\ q[i].data = data

StoreFits ==
  /\ session # NoUser => stored.owner = session
  /\ listQueue = IF session = NoUser THEN <<>> ELSE stored.queue
  /\ OnePerKey(stored.queue)

Below(data, m) == \A n \in DOMAIN data : data[n].edit < m

\* Edits are numbered in the order of their turns: the numbers in use stay below the next one.
NumbersAt(m, ps, q, fs, ws) ==
  /\ Below(ps, m)
  /\ \A i \in DOMAIN q : Below(q[i].data, m)
  /\ \A l \in Loops : \A i \in DOMAIN fs[l] : Below(fs[l][i].data, m)
  /\ \A i \in DOMAIN ws : Below(ws[i].data, m)

NumbersFit == NumbersAt(EditNumber, promised, stored.queue, flushes, wire)

\* What may be changed is what the user edited.
RowsFit ==
  /\ \A i \in DOMAIN edits : Changed(edits[i].base, edits[i].wanted) \subseteq edited
  /\ \A i \in DOMAIN stored.queue : stored.queue[i].key = "list" => DOMAIN stored.queue[i].data \subseteq edited

\* A flush at work waits for the one write of its first entry.
FlightFits(fs, ws) ==
  /\ \A i \in DOMAIN ws :
       /\ fs[ws[i].loop] # <<>>
       /\ fs[ws[i].loop][1].key = ws[i].key /\ fs[ws[i].loop][1].data = ws[i].data
       /\ ws[i].key = "list" => ws[i].as = Owner
  /\ \A i, j \in DOMAIN ws : ws[i].loop = ws[j].loop => i = j
  /\ \A l \in Loops : fs[l] # <<>> => \E i \in DOMAIN ws : ws[i].loop = l

\* An entry that has not been replaced since a flush took it is still in the queue.
CurrentFits ==
  \A l \in Loops : \A i \in DOMAIN flushes[l] :
    flushes[l][i].current =>
      session # NoUser /\ HasEntry(stored.queue, flushes[l][i].key, flushes[l][i].data)

\* An edit whose write was taken has been delivered.
LandedFits ==
  \A i \in DOMAIN wire : wire[i].answer = "ok" =>
    \A n \in DOMAIN wire[i].data \cap DOMAIN promised :
      promised[n].edit = wire[i].data[n].edit => promised[n].delivered

PromisesKept ==
  \A n \in DOMAIN promised : ~promised[n].delivered =>
    /\ stored.owner = Owner /\ stored.list[n] = promised[n].row
    /\ n \in DOMAIN Patch(stored.queue)
    /\ Patch(stored.queue)[n] = [row |-> promised[n].row, edit |-> promised[n].edit]

ListInv ==
  /\ ListTyped /\ StoreFits /\ NumbersFit /\ RowsFit
  /\ FlightFits(flushes, wire) /\ CurrentFits /\ LandedFits /\ PromisesKept

-----------------------------------------------------------------------------
LEMMA NoPatch ==
  /\ <<>> \in Patches /\ DOMAIN <<>> = {} /\ <<>> \in Seq(Entries)
  /\ <<>> \in Promises /\ OnePerKey(<<>>) /\ Patch(<<>>) = <<>>
  /\ \A m : Below(<<>>, m)
<1>1. DOMAIN <<>> = {} /\ <<>> \in Seq(Entries)
  OBVIOUS
<1>2. <<>> \in Patches
  <2>1. <<>> \in [{} -> [row : RowValues, edit : Nat]]
    OBVIOUS
  <2>2. QED
    BY <2>1 DEF Patches
<1>3. <<>> \in Promises
  <2>1. <<>> \in [{} -> [row : RowValues, edit : Nat, delivered : BOOLEAN]]
    OBVIOUS
  <2>2. QED
    BY <2>1 DEF Promises
<1>4. Patch(<<>>) = <<>>
  BY <1>1 DEF Patch, Holds
<1>5. OnePerKey(<<>>) /\ \A m : Below(<<>>, m)
  BY <1>1 DEF OnePerKey, Below
<1>6. QED
  BY <1>1, <1>2, <1>3, <1>4, <1>5

LEMMA PatchOf ==
  ASSUME NEW q \in Seq(Entries), OnePerKey(q)
  PROVE  /\ Patch(q) \in Patches
         /\ \A data : HasEntry(q, "list", data) => Patch(q) = data
         /\ \A n \in DOMAIN Patch(q) : HasEntry(q, "list", Patch(q))
<1>1. CASE Holds(q, "list")
  <2>1. PICK k : k = Place(q, "list")
    OBVIOUS
  <2>2. k \in DOMAIN q /\ q[k].key = "list"
    BY <1>1, <2>1 DEF Holds, Place
  <2>3. Patch(q) = q[k].data
    BY <1>1, <2>1 DEF Patch, Entry
  <2>4. q[k] \in Entries
    BY <2>2
  <2>5. QED
    BY <2>2, <2>3, <2>4 DEF Entries, HasEntry, OnePerKey
<1>2. CASE ~Holds(q, "list")
  <2>1. Patch(q) = <<>>
    BY <1>2 DEF Patch
  <2>2. QED
    BY <1>2, <2>1, NoPatch DEF HasEntry, Holds
<1>3. QED
  BY <1>1, <1>2

LEMMA PutIn ==
  ASSUME NEW q \in Seq(Entries), OnePerKey(q), NEW key \in Keys, NEW data \in Patches
  PROVE  /\ Put(q, key, data) \in Seq(Entries) /\ OnePerKey(Put(q, key, data))
         /\ HasEntry(Put(q, key, data), key, data)
         /\ \A k, d : k # key => (HasEntry(Put(q, key, data), k, d) <=> HasEntry(q, k, d))
<1> DEFINE e == [key |-> key, data |-> data]
<1>1. e \in Entries /\ e.key = key /\ e.data = data
  BY DEF Entries
<1>2. PICK p : p = Put(q, key, data)
  OBVIOUS
<1>3. CASE Holds(q, key)
  <2>1. p = [i \in DOMAIN q |-> IF q[i].key = key THEN e ELSE q[i]]
    BY <1>2, <1>3 DEF Put
  <2>2. p \in Seq(Entries) /\ DOMAIN p = DOMAIN q
    BY <1>1, <2>1
  <2>3. \A i \in DOMAIN q : p[i].key = q[i].key /\ (q[i].key # key => p[i] = q[i]) /\ (q[i].key = key => p[i].data = data)
    BY <1>1, <2>1
  <2>4. OnePerKey(p)
    BY <2>2, <2>3 DEF OnePerKey
  <2>5. HasEntry(p, key, data)
    BY <1>3, <2>2, <2>3 DEF HasEntry, Holds
  <2>6. \A k, d : k # key => (HasEntry(p, k, d) <=> HasEntry(q, k, d))
    BY <2>2, <2>3 DEF HasEntry
  <2>7. QED
    BY <1>2, <2>2, <2>4, <2>5, <2>6
<1>4. CASE ~Holds(q, key)
  <2>1. p = Append(q, e)
    BY <1>2, <1>4 DEF Put
  <2>2. p \in Seq(Entries) /\ Len(p) = Len(q) + 1 /\ p[Len(q) + 1] = e /\ \A i \in 1..Len(q) : p[i] = q[i]
    BY <1>1, <2>1
  <2>3. OnePerKey(p)
    BY <1>1, <1>4, <2>2 DEF OnePerKey, Holds
  <2>4. HasEntry(p, key, data)
    BY <1>1, <2>2 DEF HasEntry
  <2>5. \A k, d : k # key => (HasEntry(p, k, d) <=> HasEntry(q, k, d))
    BY <1>1, <2>2 DEF HasEntry
  <2>6. QED
    BY <1>2, <2>2, <2>3, <2>4, <2>5
<1>5. QED
  BY <1>3, <1>4

LEMMA WithoutIn ==
  ASSUME NEW q \in Seq(Entries), OnePerKey(q), NEW key \in Keys
  PROVE  /\ Without(q, key) \in Seq(Entries) /\ OnePerKey(Without(q, key))
         /\ \A k, d : HasEntry(Without(q, key), k, d) <=> k # key /\ HasEntry(q, k, d)
<1>1. CASE Holds(q, key)
  <2>1. PICK j : j = Place(q, key)
    OBVIOUS
  <2>2. j \in 1..Len(q) /\ q[j].key = key
    BY <1>1, <2>1 DEF Holds, Place
  <2>3. PICK p : p = [i \in 1..(Len(q) - 1) |-> q[IF i < j THEN i ELSE i + 1]]
    OBVIOUS
  <2>4. p = Without(q, key)
    BY <1>1, <2>1, <2>3 DEF Without
  <2>5. /\ \A i \in 1..(Len(q) - 1) : i < j => p[i] = q[i]
        /\ \A i \in 1..(Len(q) - 1) : i >= j => p[i] = q[i + 1]
    BY <2>2, <2>3
  <2>6. p \in Seq(Entries) /\ Len(p) = Len(q) - 1 /\ DOMAIN p = 1..(Len(q) - 1)
    BY <2>2, <2>3
  <2>7. \A i \in 1..Len(q) : i < j => i \in 1..(Len(q) - 1) /\ p[i] = q[i]
    BY <2>2, <2>5
  <2>8. \A i \in 1..Len(q) : i > j => i - 1 \in 1..(Len(q) - 1) /\ p[i - 1] = q[i]
    <3>1. ASSUME NEW i \in 1..Len(q), i > j PROVE i - 1 \in 1..(Len(q) - 1) /\ p[i - 1] = q[i]
      <4>1. PICK m \in 1..(Len(q) - 1) : m = i - 1 /\ m >= j /\ m + 1 = i
        BY <2>2, <3>1
      <4>2. QED
        BY <2>5, <4>1
    <3>2. QED
      BY <3>1
  <2>9. OnePerKey(p)
    <3>1. ASSUME NEW a \in 1..(Len(q) - 1), NEW b \in 1..(Len(q) - 1), p[a].key = p[b].key, a < b PROVE FALSE
      <4>1. PICK c \in 1..Len(q), d \in 1..Len(q) : p[a] = q[c] /\ p[b] = q[d] /\ c < d
        BY <2>2, <2>5, <3>1
      <4>2. QED
        BY <3>1, <4>1 DEF OnePerKey
    <3>2. QED
      BY <2>6, <3>1 DEF OnePerKey
  <2>10. ASSUME NEW k, NEW d, HasEntry(p, k, d) PROVE k # key /\ HasEntry(q, k, d)
    <3>1. PICK a \in 1..(Len(q) - 1) : p[a].key = k /\ p[a].data = d
      BY <2>6, <2>10 DEF HasEntry
    <3>2. PICK c \in 1..Len(q) : c # j /\ p[a] = q[c]
      BY <2>2, <2>5, <3>1
    <3>3. QED
      BY <2>2, <3>1, <3>2 DEF HasEntry, OnePerKey
  <2>11. ASSUME NEW k, NEW d, k # key, HasEntry(q, k, d) PROVE HasEntry(p, k, d)
    <3>1. PICK c \in 1..Len(q) : q[c].key = k /\ q[c].data = d /\ c # j
      BY <2>2, <2>11 DEF HasEntry
    <3>2. \E a \in DOMAIN p : p[a] = q[c]
      <4>1. c < j \/ c > j
        BY <2>2, <3>1
      <4>2. QED
        BY <2>6, <2>7, <2>8, <4>1
    <3>3. QED
      BY <3>1, <3>2 DEF HasEntry
  <2>12. QED
    BY <2>4, <2>6, <2>9, <2>10, <2>11
<1>2. CASE ~Holds(q, key)
  BY <1>2 DEF Without, HasEntry, Holds
<1>3. QED
  BY <1>1, <1>2

LEMMA OutdatedKeeps ==
  ASSUME NEW fs \in [Loops -> Seq(Takens)], NEW keys
  PROVE  /\ Outdated(fs, keys) \in [Loops -> Seq(Takens)]
         /\ \A l \in Loops :
              /\ DOMAIN Outdated(fs, keys)[l] = DOMAIN fs[l] /\ Len(Outdated(fs, keys)[l]) = Len(fs[l])
              /\ \A i \in DOMAIN fs[l] :
                   /\ Outdated(fs, keys)[l][i].key = fs[l][i].key
                   /\ Outdated(fs, keys)[l][i].data = fs[l][i].data
                   /\ Outdated(fs, keys)[l][i].current => fs[l][i].current /\ fs[l][i].key \notin keys
<1>1. PICK o : o = Outdated(fs, keys)
  OBVIOUS
<1>2. ASSUME NEW l \in Loops
      PROVE  /\ o[l] \in Seq(Takens) /\ DOMAIN o[l] = DOMAIN fs[l] /\ Len(o[l]) = Len(fs[l])
             /\ \A i \in DOMAIN fs[l] :
                   /\ o[l][i].key = fs[l][i].key
                   /\ o[l][i].data = fs[l][i].data
                   /\ o[l][i].current => fs[l][i].current /\ fs[l][i].key \notin keys
  <2>1. fs[l] \in Seq(Takens)
    OBVIOUS
  <2>2. \A i \in DOMAIN fs[l] : fs[l][i] \in Takens
    BY <2>1
  <2>3. o[l] = [i \in DOMAIN fs[l] |->
                  IF fs[l][i].key \in keys THEN [fs[l][i] EXCEPT !.current = FALSE] ELSE fs[l][i]]
    BY <1>1 DEF Outdated
  <2>4. \A e \in Takens : [e EXCEPT !.current = FALSE] \in Takens /\ [e EXCEPT !.current = FALSE].key = e.key
          /\ [e EXCEPT !.current = FALSE].data = e.data /\ ~[e EXCEPT !.current = FALSE].current
    BY DEF Takens
  <2>5. \A i \in DOMAIN fs[l] : o[l][i] \in Takens
    BY <2>2, <2>3, <2>4
  <2>6. DOMAIN o[l] = 1..Len(fs[l])
    BY <2>1, <2>3
  <2>7. o[l] \in Seq(Takens) /\ Len(o[l]) = Len(fs[l])
    BY <2>1, <2>3, <2>5, <2>6
  <2>8. QED
    BY <2>2, <2>3, <2>4, <2>6, <2>7
<1>3. DOMAIN o = Loops /\ o = [l \in Loops |-> o[l]]
  BY <1>1 DEF Outdated
<1>4. o \in [Loops -> Seq(Takens)]
  BY <1>2, <1>3
<1>5. QED
  BY <1>1, <1>2, <1>4

LEMMA OutdatedEntry ==
  ASSUME NEW fs \in [Loops -> Seq(Takens)], NEW keys, NEW k \in Loops, NEW i \in DOMAIN Outdated(fs, keys)[k]
  PROVE  /\ i \in DOMAIN fs[k]
         /\ Outdated(fs, keys)[k][i].key = fs[k][i].key /\ Outdated(fs, keys)[k][i].data = fs[k][i].data
         /\ Outdated(fs, keys)[k][i].current => fs[k][i].current /\ fs[k][i].key \notin keys
<1>1. DOMAIN Outdated(fs, keys)[k] = DOMAIN fs[k]
  BY OutdatedKeeps
<1>2. QED
  BY <1>1, OutdatedKeeps

LEMMA OutdatedFits ==
  ASSUME NEW fs \in [Loops -> Seq(Takens)], NEW keys, NEW ws \in Seq(Writes), FlightFits(fs, ws)
  PROVE  FlightFits(Outdated(fs, keys), ws)
<1>1. PICK o : o = Outdated(fs, keys)
  OBVIOUS
<1>2. \A l \in Loops :
        /\ o[l] # <<>> <=> fs[l] # <<>>
        /\ fs[l] # <<>> => o[l][1].key = fs[l][1].key /\ o[l][1].data = fs[l][1].data
  <2>1. \A l \in Loops : o[l] \in Seq(Takens) /\ fs[l] \in Seq(Takens) /\ Len(o[l]) = Len(fs[l])
    BY <1>1, OutdatedKeeps
  <2>2. \A l \in Loops : \A i \in DOMAIN fs[l] : o[l][i].key = fs[l][i].key /\ o[l][i].data = fs[l][i].data
    BY <1>1, OutdatedKeeps
  <2>3. ASSUME NEW l \in Loops
        PROVE  /\ o[l] # <<>> <=> fs[l] # <<>>
               /\ fs[l] # <<>> => o[l][1].key = fs[l][1].key /\ o[l][1].data = fs[l][1].data
    <3>1. PICK x, y : x = o[l] /\ y = fs[l]
      OBVIOUS
    <3>2. x \in Seq(Takens) /\ y \in Seq(Takens) /\ Len(x) = Len(y)
      BY <2>1, <3>1
    <3>3. x # <<>> <=> y # <<>>
      BY <3>2
    <3>4. y # <<>> => 1 \in DOMAIN y
      BY <3>2
    <3>5. QED
      BY <2>2, <3>1, <3>3, <3>4
  <2>4. QED
    BY <2>3
<1>3. \A i \in DOMAIN ws : ws[i].loop \in Loops
  <2>1. \A i \in DOMAIN ws : ws[i] \in Writes
    OBVIOUS
  <2>2. QED
    BY <2>1 DEF Writes
<1>4. FlightFits(o, ws)
  BY <1>2, <1>3 DEF FlightFits
<1>5. QED
  BY <1>1, <1>4

\* The writes of the other flushes, when this one has none.
OthersFit(fs, ws, l) ==
  /\ \A i \in DOMAIN ws :
       /\ ws[i].loop # l /\ fs[ws[i].loop] # <<>>
       /\ fs[ws[i].loop][1].key = ws[i].key /\ fs[ws[i].loop][1].data = ws[i].data
       /\ ws[i].key = "list" => ws[i].as = Owner
  /\ \A i, j \in DOMAIN ws : ws[i].loop = ws[j].loop => i = j
  /\ \A k \in Loops : k # l /\ fs[k] # <<>> => \E i \in DOMAIN ws : ws[i].loop = k

LEMMA SomeFirst ==
  ASSUME NEW S, S \subseteq Nat, S # {}
  PROVE  \E n \in S : \A m \in S : n <= m
<1>1. PICK n \in S : \A m \in S : ~(<<m, n>> \in OpToRel(<, Nat))
  BY NatLessThanWellFounded, WFMin
<1>2. \A m \in S : ~(m < n)
  BY <1>1 DEF OpToRel
<1>3. QED
  BY <1>2

LEMMA SendableIn ==
  ASSUME NEW entries \in Seq(Takens)
  PROVE  /\ Sendable(entries) \in Seq(Takens)
         /\ \A i \in DOMAIN Sendable(entries) : \E j \in DOMAIN entries : Sendable(entries)[i] = entries[j]
         /\ Sendable(entries) # <<>> => Classified(Sendable(entries)[1].key)
<1> DEFINE first == {i \in DOMAIN entries : Classified(entries[i].key)}
           k     == CHOOSE i \in first : \A j \in first : i <= j
<1>1. Sendable(entries) = IF first = {} THEN <<>> ELSE SubSeq(entries, k, Len(entries))
  BY DEF Sendable
<1>2. first \subseteq 1..Len(entries) /\ \A i \in first : Classified(entries[i].key)
  OBVIOUS
<1>3. ASSUME first # {} PROVE k \in first
  <2>1. first \subseteq Nat
    BY <1>2
  <2>2. \E i \in first : \A j \in first : i <= j
    BY <1>3, <2>1, SomeFirst
  <2>3. QED
    BY <2>2
<1> HIDE DEF first, k
<1>4. CASE first = {}
  BY <1>1, <1>4
<1>5. CASE first # {}
  <2>1. k \in 1..Len(entries) /\ Classified(entries[k].key)
    BY <1>2, <1>3, <1>5
  <2>2. PICK rest : rest = SubSeq(entries, k, Len(entries))
    OBVIOUS
  <2>3. rest = Sendable(entries)
    BY <1>1, <1>5, <2>2
  <2>4. /\ rest \in Seq(Takens) /\ DOMAIN rest = 1..Len(rest) /\ Len(rest) = Len(entries) - k + 1
        /\ \A i \in 1..Len(rest) : rest[i] = entries[k + i - 1]
    BY <2>1, <2>2
  <2>5. \A i \in 1..Len(rest) : k + i - 1 \in DOMAIN entries
    BY <2>1, <2>4
  <2>6. rest[1] = entries[k]
    BY <2>1, <2>4
  <2>7. QED
    BY <2>1, <2>3, <2>4, <2>5, <2>6
<1>6. QED
  BY <1>4, <1>5

LEMMA ProceedFits ==
  ASSUME NEW fs \in [Loops -> Seq(Takens)], NEW sent \in Seq(Writes), NEW entries \in Seq(Takens), NEW l \in Loops,
         session \in Users \cup {NoUser}, Proceed(l, fs, entries, sent), OthersFit(fs, sent, l)
  PROVE  /\ flushes' \in [Loops -> Seq(Takens)] /\ wire' \in Seq(Writes) /\ FlightFits(flushes', wire')
         /\ \A k \in Loops : k # l => flushes'[k] = fs[k]
         /\ \A i \in DOMAIN flushes'[l] : \E j \in DOMAIN entries : flushes'[l][i] = entries[j]
         /\ \A i \in DOMAIN wire' :
              \/ \E j \in DOMAIN sent : wire'[i] = sent[j]
              \/ wire'[i].answer = "none" /\ \E j \in DOMAIN entries : wire'[i].data = entries[j].data
<1>1. PICK rest : rest = Sendable(entries)
  OBVIOUS
<1>2. /\ rest \in Seq(Takens)
      /\ \A i \in DOMAIN rest : \E j \in DOMAIN entries : rest[i] = entries[j]
      /\ rest # <<>> => Classified(rest[1].key)
  BY <1>1, SendableIn
<1>3. flushes' = [fs EXCEPT ![l] = rest]
  BY <1>1 DEF Proceed
<1>4. /\ flushes' \in [Loops -> Seq(Takens)] /\ flushes'[l] = rest
      /\ \A k \in Loops : k # l => flushes'[k] = fs[k]
  BY <1>2, <1>3
<1>5. \A i \in DOMAIN sent : sent[i] \in Writes /\ sent[i].loop \in Loops
  <2>1. \A i \in DOMAIN sent : sent[i] \in Writes
    OBVIOUS
  <2>2. QED
    BY <2>1 DEF Writes
<1>6. CASE rest = <<>>
  <2>1. wire' = sent
    BY <1>1, <1>6 DEF Proceed
  <2>2. FlightFits(flushes', sent)
    BY <1>4, <1>5, <1>6 DEF FlightFits, OthersFit
  <2>3. QED
    BY <1>2, <1>4, <2>1, <2>2
<1>7. CASE rest # <<>>
  <2>1. PICK w : w = [ loop |-> l, key |-> rest[1].key, data |-> rest[1].data, as |-> session, answer |-> "none" ]
    OBVIOUS
  <2>2. rest[1] \in Takens /\ 1 \in DOMAIN rest /\ Head(rest) = rest[1]
    BY <1>2, <1>7
  <2>3. session \in Users /\ (rest[1].key = "list" => session = Owner)
    BY <1>2, <1>7 DEF Classified
  <2>4. w \in Writes
    BY <2>1, <2>2, <2>3 DEF Writes, Takens
  <2>5. w.loop = l /\ w.key = rest[1].key /\ w.data = rest[1].data /\ w.as = session /\ w.answer = "none"
    BY <2>1
  <2>6. wire' = Append(sent, w)
    BY <1>1, <1>7, <2>1, <2>2 DEF Proceed
  <2>7. PICK ws : ws = wire'
    OBVIOUS
  <2>8. /\ ws \in Seq(Writes) /\ DOMAIN ws = 1..Len(ws) /\ Len(ws) = Len(sent) + 1
        /\ ws[Len(sent) + 1] = w /\ \A i \in 1..Len(sent) : ws[i] = sent[i]
    BY <2>4, <2>6, <2>7
  <2>9. \A i \in DOMAIN ws : (i \in DOMAIN sent /\ ws[i] = sent[i]) \/ (i = Len(sent) + 1 /\ ws[i] = w)
    <3>1. DOMAIN sent = 1..Len(sent) /\ Len(sent) \in Nat
      OBVIOUS
    <3>2. \A i \in 1..(Len(sent) + 1) : i \in 1..Len(sent) \/ i = Len(sent) + 1
      BY <3>1
    <3>3. QED
      BY <2>8, <3>1, <3>2
  <2>10. FlightFits(flushes', ws)
    <3>1. ASSUME NEW i \in DOMAIN ws
          PROVE  /\ flushes'[ws[i].loop] # <<>>
                 /\ flushes'[ws[i].loop][1].key = ws[i].key /\ flushes'[ws[i].loop][1].data = ws[i].data
                 /\ ws[i].key = "list" => ws[i].as = Owner
      <4>1. CASE i \in DOMAIN sent /\ ws[i] = sent[i]
        BY <1>4, <1>5, <4>1 DEF OthersFit
      <4>2. CASE ws[i] = w
        BY <1>4, <1>7, <2>3, <2>5, <4>2
      <4>3. QED
        BY <2>9, <4>1, <4>2
    <3>2. ASSUME NEW i \in DOMAIN ws, NEW j \in DOMAIN ws, ws[i].loop = ws[j].loop PROVE i = j
      BY <2>5, <2>9, <3>2 DEF OthersFit
    <3>3. ASSUME NEW k \in Loops, flushes'[k] # <<>> PROVE \E i \in DOMAIN ws : ws[i].loop = k
      <4>1. CASE k = l
        BY <2>5, <2>8, <4>1
      <4>2. CASE k # l
        <5>1. PICK i \in DOMAIN sent : sent[i].loop = k
          BY <1>4, <3>3, <4>2 DEF OthersFit
        <5>2. i \in DOMAIN ws /\ ws[i] = sent[i]
          BY <2>8
        <5>3. QED
          BY <5>1, <5>2
      <4>3. QED
        BY <4>1, <4>2
    <3>4. QED
      BY <3>1, <3>2, <3>3 DEF FlightFits
  <2>11. PICK j \in DOMAIN entries : rest[1] = entries[j]
    BY <1>2, <2>2
  <2>13. wire' \in Seq(Writes) /\ FlightFits(flushes', wire')
    BY <2>7, <2>8, <2>10
  <2>14. \A i \in DOMAIN wire' :
              \/ \E m \in DOMAIN sent : wire'[i] = sent[m]
              \/ wire'[i].answer = "none" /\ \E m \in DOMAIN entries : wire'[i].data = entries[m].data
    BY <2>5, <2>7, <2>9, <2>11
  <2>15. QED
    BY <1>2, <1>4, <2>13, <2>14
<1>8. QED
  BY <1>6, <1>7

LEMMA StoreIn ==
  ASSUME NEW s \in Stores, NEW o \in Users \cup {NoUser}, NEW l \in Lists, NEW q \in Seq(Entries)
  PROVE  /\ [s EXCEPT !.owner = o] \in Stores
         /\ [s EXCEPT !.owner = o].owner = o /\ [s EXCEPT !.owner = o].list = s.list
         /\ [s EXCEPT !.owner = o].queue = s.queue
         /\ [s EXCEPT !.list = l] \in Stores
         /\ [s EXCEPT !.list = l].owner = s.owner /\ [s EXCEPT !.list = l].list = l
         /\ [s EXCEPT !.list = l].queue = s.queue
         /\ [s EXCEPT !.queue = q] \in Stores
         /\ [s EXCEPT !.queue = q].owner = s.owner /\ [s EXCEPT !.queue = q].list = s.list
         /\ [s EXCEPT !.queue = q].queue = q
         /\ [owner |-> o, list |-> l, queue |-> q] \in Stores
         /\ s.owner \in Users \cup {NoUser} /\ s.list \in Lists /\ s.queue \in Seq(Entries)
BY DEF Stores

LEMMA MembersIn ==
  /\ \A q \in Seq(Entries) : \A i \in DOMAIN q : q[i].key \in Keys /\ q[i].data \in Patches
  /\ \A q \in Seq(Takens) : \A i \in DOMAIN q : q[i].key \in Keys /\ q[i].data \in Patches /\ q[i].current \in BOOLEAN
  /\ \A q \in Seq(Writes) : \A i \in DOMAIN q :
       q[i] \in Writes /\ q[i].loop \in Loops /\ q[i].key \in Keys /\ q[i].data \in Patches
<1>1. ASSUME NEW q \in Seq(Entries), NEW i \in DOMAIN q PROVE q[i].key \in Keys /\ q[i].data \in Patches
  <2>1. q[i] \in Entries
    OBVIOUS
  <2>2. QED
    BY <2>1 DEF Entries
<1>2. ASSUME NEW q \in Seq(Takens), NEW i \in DOMAIN q
      PROVE  q[i].key \in Keys /\ q[i].data \in Patches /\ q[i].current \in BOOLEAN
  <2>1. q[i] \in Takens
    OBVIOUS
  <2>2. QED
    BY <2>1 DEF Takens
<1>3. ASSUME NEW q \in Seq(Writes), NEW i \in DOMAIN q
      PROVE  q[i] \in Writes /\ q[i].loop \in Loops /\ q[i].key \in Keys /\ q[i].data \in Patches
  <2>1. q[i] \in Writes
    OBVIOUS
  <2>2. QED
    BY <2>1 DEF Writes
<1>4. QED
  BY <1>1, <1>2, <1>3

LEMMA PatchIn ==
  /\ \A d \in Patches : DOMAIN d \subseteq Rows /\ \A n \in DOMAIN d : d[n].edit \in Nat /\ d[n].row \in RowValues
  /\ \A d \in Promises : DOMAIN d \subseteq Rows /\ \A n \in DOMAIN d :
       d[n].edit \in Nat /\ d[n].row \in RowValues /\ d[n].delivered \in BOOLEAN
BY DEF Patches, Promises

LEMMA PromisesIn ==
  ASSUME NEW d, DOMAIN d \subseteq Rows, d = [n \in DOMAIN d |-> d[n]],
         \A n \in DOMAIN d : d[n] \in [row : RowValues, edit : Nat, delivered : BOOLEAN]
  PROVE  d \in Promises
<1>1. d \in [DOMAIN d -> [row : RowValues, edit : Nat, delivered : BOOLEAN]]
  OBVIOUS
<1>2. QED
  BY <1>1 DEF Promises

LEMMA NumbersGrow ==
  ASSUME NEW m \in Nat, NEW k \in Nat, m <= k, NEW ps \in Promises, NEW q \in Seq(Entries),
         NEW fs \in [Loops -> Seq(Takens)], NEW ws \in Seq(Writes), NumbersAt(m, ps, q, fs, ws)
  PROVE  NumbersAt(k, ps, q, fs, ws)
<1>1. ASSUME NEW d \in Patches \cup Promises, Below(d, m) PROVE Below(d, k)
  <2>1. \A n \in DOMAIN d : d[n].edit \in Nat
    BY PatchIn
  <2>2. QED
    BY <1>1, <2>1 DEF Below
<1>2. \A l \in Loops : fs[l] \in Seq(Takens)
  OBVIOUS
<1>3. QED
  BY <1>1, <1>2, MembersIn DEF NumbersAt

LEMMA CountIn ==
  ASSUME ListTyped
  PROVE  EditNumber \in Nat /\ Len(edits) \in Nat /\ listCounts.edits \in Nat
<1>1. Len(edits) \in Nat /\ listCounts.edits \in Nat /\ Len(edits) <= listCounts.edits
  BY DEF ListTyped
<1>2. QED
  BY <1>1 DEF EditNumber

LEMMA AllOutdated ==
  ASSUME ListInv, flushes' = Outdated(flushes, Keys), UNCHANGED wire
  PROVE  /\ flushes' \in [Loops -> Seq(Takens)] /\ FlightFits(flushes', wire') /\ CurrentFits'
         /\ \A m : (\A l \in Loops : \A i \in DOMAIN flushes[l] : Below(flushes[l][i].data, m))
                   => \A l \in Loops : \A i \in DOMAIN flushes'[l] : Below(flushes'[l][i].data, m)
<1>1. flushes \in [Loops -> Seq(Takens)] /\ wire \in Seq(Writes) /\ FlightFits(flushes, wire)
  BY DEF ListInv, ListTyped
<1>2. PICK fs : fs = flushes'
  OBVIOUS
<1>3. fs = Outdated(flushes, Keys) /\ fs \in [Loops -> Seq(Takens)]
  BY <1>1, <1>2, OutdatedKeeps
<1>4. FlightFits(fs, wire)
  BY <1>1, <1>3, OutdatedFits
<1>5. \A l \in Loops : DOMAIN fs[l] = DOMAIN flushes[l] /\ \A i \in DOMAIN fs[l] :
        fs[l][i].data = flushes[l][i].data /\ (fs[l][i].current => flushes[l][i].key \notin Keys)
  <2>1. PICK gs \in [Loops -> Seq(Takens)], ks \in {Keys} : gs = flushes /\ ks = Keys
    BY <1>1
  <2>2. fs = Outdated(gs, ks)
    BY <1>3, <2>1
  <2>3. \A l \in Loops : DOMAIN fs[l] = DOMAIN gs[l]
    BY <2>2, OutdatedKeeps
  <2>4. \A l \in Loops : \A i \in DOMAIN gs[l] :
          fs[l][i].data = gs[l][i].data /\ (fs[l][i].current => gs[l][i].key \notin ks)
    BY <2>2, OutdatedKeeps
  <2>5. QED
    BY <2>1, <2>3, <2>4
<1>6. \A l \in Loops : \A i \in DOMAIN fs[l] : ~fs[l][i].current
  <2>1. \A l \in Loops : flushes[l] \in Seq(Takens)
    BY <1>1
  <2>2. QED
    BY <1>5, <2>1, MembersIn
<1>7. CurrentFits'
  BY <1>2, <1>6 DEF CurrentFits
<1>8. QED
  BY <1>2, <1>3, <1>4, <1>5, <1>7

LEMMA ActivateFits ==
  ASSUME ListInv, NEW u \in Users, ActivateSession(u)
  PROVE  ListInv'
<1>1. /\ ListTyped /\ StoreFits /\ NumbersFit /\ RowsFit /\ LandedFits /\ PromisesKept
      /\ session = NoUser /\ session' = u /\ listQueue' = stored'.queue
      /\ UNCHANGED <<listServer, edits, wire, edited, listCounts>>
  BY DEF ListInv, ActivateSession
<1>2. stored \in Stores /\ stored.queue \in Seq(Entries) /\ promised \in Promises /\ u # NoUser
  <2>1. stored \in Stores /\ promised \in Promises
    BY <1>1 DEF ListTyped
  <2>2. QED
    BY <2>1, StoreIn, ListAssumption DEF Users, Stores
<1>3. EmptyList \in Lists
  BY DEF EmptyList, Lists, RowValues
<1>4. PICK s : s = stored'
  OBVIOUS
<1>5. /\ s \in Stores /\ s.owner = u /\ s.queue \in Seq(Entries) /\ OnePerKey(s.queue)
      /\ promised' \in Promises
      /\ \/ s.list = stored.list /\ s.queue = stored.queue /\ promised' = promised /\ stored.owner \in {NoUser, u}
         \/ s.queue = <<>> /\ promised' = <<>>
  <2>1. CASE Restorable(u)
    <3>1. s = [stored EXCEPT !.owner = u] /\ promised' = promised
      BY <1>4, <2>1 DEF ActivateSession
    <3>2. s \in Stores /\ s.owner = u /\ s.queue = stored.queue /\ s.list = stored.list
      BY <1>2, <3>1, StoreIn DEF Stores
    <3>3. QED
      BY <1>1, <1>2, <2>1, <3>1, <3>2 DEF StoreFits, Restorable
  <2>2. CASE ~Restorable(u)
    <3>1. s = [owner |-> u, list |-> EmptyList, queue |-> <<>>] /\ promised' = <<>>
      BY <1>4, <2>2 DEF ActivateSession
    <3>2. s \in Stores
      BY <1>3, <3>1, NoPatch DEF Stores
    <3>3. s.owner = u /\ s.queue = <<>>
      BY <3>1
    <3>4. QED
      BY <3>1, <3>2, <3>3, NoPatch
  <2>3. QED
    BY <2>1, <2>2
<1>6. flushes' = Outdated(flushes, Keys) /\ UNCHANGED wire
  BY <1>1 DEF ActivateSession
<1>7. flushes' \in [Loops -> Seq(Takens)] /\ FlightFits(flushes', wire') /\ CurrentFits'
  BY <1>6, AllOutdated
<1>8. ListTyped'
  BY <1>1, <1>4, <1>5, <1>7 DEF ListTyped
<1>9. StoreFits'
  BY <1>1, <1>2, <1>4, <1>5 DEF StoreFits
<1>10. NumbersFit'
  <2>1. NumbersAt(EditNumber, promised, stored.queue, flushes, wire)
    BY <1>1 DEF NumbersFit
  <2>2. Below(promised', EditNumber) /\ \A i \in DOMAIN s.queue : Below(s.queue[i].data, EditNumber)
    BY <1>5, <2>1, NoPatch DEF NumbersAt
  <2>3. \A l \in Loops : \A i \in DOMAIN flushes'[l] : Below(flushes'[l][i].data, EditNumber)
    BY <1>6, <2>1, AllOutdated DEF NumbersAt
  <2>4. EditNumber' = EditNumber
    BY <1>1 DEF EditNumber
  <2>5. QED
    BY <1>1, <1>4, <2>1, <2>2, <2>3, <2>4 DEF NumbersFit, NumbersAt
<1>11. RowsFit'
  BY <1>1, <1>4, <1>5, NoPatch DEF RowsFit
<1>12. LandedFits'
  BY <1>1, <1>5, NoPatch DEF LandedFits
<1>13. PromisesKept'
  BY <1>1, <1>2, <1>4, <1>5, NoPatch, ListAssumption DEF PromisesKept
<1>14. QED
  BY <1>7, <1>8, <1>9, <1>10, <1>11, <1>12, <1>13 DEF ListInv

LEMMA SuspendFits ==
  ASSUME ListInv, SuspendSession
  PROVE  ListInv'
<1>1. /\ ListTyped /\ StoreFits /\ NumbersFit /\ RowsFit /\ LandedFits /\ PromisesKept
      /\ session' = NoUser /\ listQueue' = <<>> /\ listCounts' = [listCounts EXCEPT !.breaks = @ + 1]
      /\ UNCHANGED <<listServer, stored, edits, wire, promised, edited>>
      /\ flushes' = Outdated(flushes, Keys)
  BY DEF ListInv, SuspendSession, Breaks, ghostVars
<1>2. flushes' \in [Loops -> Seq(Takens)] /\ FlightFits(flushes', wire') /\ CurrentFits'
  BY <1>1, AllOutdated
<1>3. listCounts' \in [edits : Nat, others : Nat, breaks : Nat] /\ listCounts'.edits = listCounts.edits
  BY <1>1 DEF ListTyped
<1>4. ListTyped'
  BY <1>1, <1>2, <1>3, NoPatch DEF ListTyped
<1>5. StoreFits' /\ RowsFit' /\ LandedFits'
  BY <1>1 DEF StoreFits, RowsFit, LandedFits
<1>6. NumbersFit'
  <2>1. EditNumber' = EditNumber
    BY <1>1, <1>3 DEF EditNumber
  <2>2. \A l \in Loops : \A i \in DOMAIN flushes'[l] : Below(flushes'[l][i].data, EditNumber)
    BY <1>1, AllOutdated DEF NumbersFit, NumbersAt
  <2>3. QED
    BY <1>1, <2>1, <2>2 DEF NumbersFit, NumbersAt
<1>7. PromisesKept'
  BY <1>1 DEF PromisesKept
<1>8. QED
  BY <1>2, <1>4, <1>5, <1>6, <1>7 DEF ListInv

LEMMA LogoutFits ==
  ASSUME ListInv, Logout
  PROVE  ListInv'
<1>1. /\ ListTyped /\ StoreFits /\ NumbersFit /\ RowsFit /\ LandedFits /\ PromisesKept
      /\ session' = NoUser /\ listQueue' = <<>> /\ listCounts' = [listCounts EXCEPT !.breaks = @ + 1]
      /\ stored' = [owner |-> NoUser, list |-> EmptyList, queue |-> <<>>] /\ promised' = <<>>
      /\ UNCHANGED <<listServer, edits, wire, edited>>
      /\ flushes' = Outdated(flushes, Keys)
  BY DEF ListInv, Logout, Breaks
<1>2. flushes' \in [Loops -> Seq(Takens)] /\ FlightFits(flushes', wire') /\ CurrentFits'
  BY <1>1, AllOutdated
<1>3. listCounts' \in [edits : Nat, others : Nat, breaks : Nat] /\ listCounts'.edits = listCounts.edits
  BY <1>1 DEF ListTyped
<1>4. EmptyList \in Lists
  BY DEF EmptyList, Lists, RowValues
<1>5. PICK s : s = stored'
  OBVIOUS
<1>6. s \in Stores /\ s.queue = <<>>
  BY <1>1, <1>4, <1>5, NoPatch DEF Stores
<1>7. ListTyped'
  BY <1>1, <1>2, <1>3, <1>5, <1>6, NoPatch DEF ListTyped
<1>8. StoreFits' /\ RowsFit' /\ LandedFits' /\ PromisesKept'
  BY <1>1, <1>5, <1>6, NoPatch DEF StoreFits, RowsFit, LandedFits, PromisesKept
<1>9. NumbersFit'
  <2>1. EditNumber' = EditNumber
    BY <1>1, <1>3 DEF EditNumber
  <2>2. \A l \in Loops : \A i \in DOMAIN flushes'[l] : Below(flushes'[l][i].data, EditNumber)
    BY <1>1, AllOutdated DEF NumbersFit, NumbersAt
  <2>3. Below(promised', EditNumber) /\ \A i \in DOMAIN s.queue : Below(s.queue[i].data, EditNumber)
    BY <1>1, <1>6, NoPatch
  <2>4. QED
    BY <1>1, <1>5, <2>1, <2>2, <2>3 DEF NumbersFit, NumbersAt
<1>10. QED
  BY <1>2, <1>7, <1>8, <1>9 DEF ListInv

LEMMA ReloadFits ==
  ASSUME ListInv, Reload
  PROVE  ListInv'
<1>1. /\ ListTyped /\ StoreFits /\ NumbersFit /\ RowsFit /\ PromisesKept
      /\ session' = NoUser /\ listQueue' = <<>> /\ listCounts' = [listCounts EXCEPT !.breaks = @ + 1]
      /\ edits' = <<>> /\ wire' = <<>>
      /\ UNCHANGED <<listServer, stored, promised, edited>>
  BY DEF ListInv, Reload, Breaks, ghostVars
<1>2. PICK fs : fs = flushes'
  OBVIOUS
<1>3. fs = [l \in Loops |-> <<>>]
  BY <1>2 DEF Reload
<1>4. fs \in [Loops -> Seq(Takens)] /\ \A l \in Loops : fs[l] = <<>> /\ DOMAIN fs[l] = {}
  BY <1>3
<1>5. listCounts' \in [edits : Nat, others : Nat, breaks : Nat] /\ listCounts'.edits = listCounts.edits
  BY <1>1 DEF ListTyped
<1>6. ListTyped'
  <2>1. edits' \in Seq(Calls) /\ wire' \in Seq(Writes) /\ Len(edits') = 0
    BY <1>1
  <2>2. Len(edits') <= listCounts'.edits
    BY <1>5, <2>1
  <2>3. QED
    BY <1>1, <1>2, <1>4, <1>5, <2>1, <2>2, NoPatch DEF ListTyped
<1>7. FlightFits(flushes', wire') /\ CurrentFits' /\ LandedFits'
  <2>1. DOMAIN wire' = {}
    BY <1>1
  <2>2. QED
    BY <1>2, <1>4, <2>1 DEF FlightFits, CurrentFits, LandedFits
<1>8. StoreFits' /\ RowsFit' /\ PromisesKept'
  BY <1>1 DEF StoreFits, RowsFit, PromisesKept
<1>9. NumbersFit'
  <2>1. EditNumber \in Nat /\ EditNumber' \in Nat /\ EditNumber <= EditNumber'
    BY <1>1, <1>5, CountIn DEF EditNumber
  <2>2. PICK k : k = EditNumber'
    OBVIOUS
  <2>3. NumbersAt(EditNumber, promised, stored.queue, fs, <<>>)
    BY <1>1, <1>4 DEF NumbersFit, NumbersAt
  <2>4. promised \in Promises /\ stored.queue \in Seq(Entries)
    BY <1>1 DEF ListTyped, Stores
  <2>5. NumbersAt(k, promised, stored.queue, fs, <<>>)
    <3>1. PICK m \in Nat, ps \in Promises, q \in Seq(Entries) : m = EditNumber /\ ps = promised /\ q = stored.queue
      BY <2>1, <2>4
    <3>2. k \in Nat /\ m <= k /\ <<>> \in Seq(Writes) /\ NumbersAt(m, ps, q, fs, <<>>)
      BY <2>1, <2>2, <2>3, <3>1
    <3>3. NumbersAt(k, ps, q, fs, <<>>)
      BY <1>4, <3>2, NumbersGrow
    <3>4. QED
      BY <3>1, <3>3
  <2>6. QED
    BY <1>1, <1>2, <2>2, <2>5 DEF NumbersFit
<1>10. QED
  BY <1>6, <1>7, <1>8, <1>9 DEF ListInv

LEMMA OverlayIn ==
  ASSUME NEW list \in Lists, NEW patch \in Patches
  PROVE  Overlay(list, patch) \in Lists /\ \A n \in DOMAIN patch : Overlay(list, patch)[n] = patch[n].row
<1>1. DOMAIN patch \subseteq Rows /\ \A n \in DOMAIN patch : patch[n].row \in RowValues
  BY PatchIn
<1>2. QED
  BY <1>1 DEF Overlay, Lists

LEMMA WishesIn ==
  ASSUME NEW row \in RowValues
  PROVE  Wishes(row) \subseteq RowValues
<1>1. CASE row = Absent
  BY <1>1 DEF Wishes, RowValues
<1>2. CASE row # Absent
  <2>1. row \in [Qualifiers -> BOOLEAN]
    BY <1>2 DEF RowValues
  <2>2. \A q \in Qualifiers : [row EXCEPT ![q] = ~row[q]] \in [Qualifiers -> BOOLEAN]
    BY <2>1
  <2>3. ASSUME NEW v \in Wishes(row) PROVE v = Absent \/ \E q \in Qualifiers : v = [row EXCEPT ![q] = ~row[q]]
    BY <1>2, <2>3, Zenon DEF Wishes
  <2>4. ASSUME NEW v \in Wishes(row) PROVE v \in RowValues
    <3>1. CASE v = Absent
      BY <3>1 DEF RowValues
    <3>2. CASE \E q \in Qualifiers : v = [row EXCEPT ![q] = ~row[q]]
      <4>1. v \in [Qualifiers -> BOOLEAN]
        BY <2>2, <3>2, Zenon
      <4>2. QED
        BY <4>1 DEF RowValues
    <3>3. QED
      BY <2>3, <2>4, <3>1, <3>2
  <2>5. QED
    BY <2>4
<1>3. QED
  BY <1>1, <1>2

LEMMA RebaseIn ==
  ASSUME NEW base \in Lists, NEW current \in Lists, NEW wanted \in Lists
  PROVE  /\ Rebase(base, current, wanted) \in Lists
         /\ Changed(current, Rebase(base, current, wanted)) \subseteq Changed(base, wanted)
<1>1. PICK r : r = Rebase(base, current, wanted)
  OBVIOUS
<1>2. ASSUME NEW n \in Rows PROVE r[n] \in RowValues /\ (n \notin Changed(base, wanted) => r[n] = current[n])
  <2>1. base[n] \in RowValues /\ current[n] \in RowValues /\ wanted[n] \in RowValues
    BY DEF Lists
  <2>2. CASE n \notin Changed(base, wanted)
    BY <1>1, <2>1, <2>2 DEF Rebase
  <2>3. CASE n \in Changed(base, wanted) /\ Absent \in {wanted[n], base[n], current[n]}
    BY <1>1, <2>1, <2>3 DEF Rebase
  <2>4. CASE n \in Changed(base, wanted) /\ Absent \notin {wanted[n], base[n], current[n]}
    <3>1. r[n] = [q \in Qualifiers |-> IF base[n][q] # wanted[n][q] THEN wanted[n][q] ELSE current[n][q]]
      BY <1>1, <2>4 DEF Rebase
    <3>2. wanted[n] \in [Qualifiers -> BOOLEAN] /\ current[n] \in [Qualifiers -> BOOLEAN]
      BY <2>1, <2>4 DEF RowValues
    <3>3. PICK x \in [Qualifiers -> BOOLEAN], y \in [Qualifiers -> BOOLEAN], b \in {base[n]} : x = wanted[n] /\ y = current[n] /\ b = base[n]
      BY <3>2
    <3>4. [q \in Qualifiers |-> IF b[q] # x[q] THEN x[q] ELSE y[q]] \in [Qualifiers -> BOOLEAN]
      BY Zenon
    <3>5. QED
      BY <2>4, <3>1, <3>3, <3>4 DEF RowValues
  <2>5. QED
    BY <2>2, <2>3, <2>4
<1>3. r = [n \in Rows |-> r[n]]
  BY <1>1 DEF Rebase
<1>4. r \in Lists
  BY <1>2, <1>3 DEF Lists
<1>5. Changed(current, r) \subseteq Changed(base, wanted)
  BY <1>2 DEF Changed
<1>6. QED
  BY <1>1, <1>4, <1>5

LEMMA OverIn ==
  ASSUME NEW patch \in Patches, NEW older \in Patches
  PROVE  /\ Over(patch, older) \in Patches
         /\ DOMAIN Over(patch, older) = DOMAIN patch \cup DOMAIN older
         /\ \A n \in DOMAIN patch : Over(patch, older)[n] = patch[n]
         /\ \A n \in DOMAIN older : n \notin DOMAIN patch => Over(patch, older)[n] = older[n]
<1>1. PICK S \in SUBSET Rows : patch \in [S -> [row : RowValues, edit : Nat]]
  BY DEF Patches
<1>2. PICK T \in SUBSET Rows : older \in [T -> [row : RowValues, edit : Nat]]
  BY DEF Patches
<1>3. PICK o : o = Over(patch, older)
  OBVIOUS
<1>4. o = [n \in S \cup T |-> IF n \in S THEN patch[n] ELSE older[n]]
  BY <1>1, <1>2, <1>3 DEF Over
<1>5. o \in [S \cup T -> [row : RowValues, edit : Nat]]
  BY <1>1, <1>2, <1>4
<1>6. S \cup T \in SUBSET Rows
  OBVIOUS
<1>7. o \in Patches
  BY <1>5, <1>6 DEF Patches
<1>8. QED
  BY <1>1, <1>2, <1>3, <1>4, <1>7

LEMMA OverPromises ==
  ASSUME NEW ps \in Promises, NEW older \in Promises
  PROVE  /\ Over(ps, older) \in Promises
         /\ DOMAIN Over(ps, older) = DOMAIN ps \cup DOMAIN older
         /\ \A n \in DOMAIN ps : Over(ps, older)[n] = ps[n]
         /\ \A n \in DOMAIN older : n \notin DOMAIN ps => Over(ps, older)[n] = older[n]
<1> DEFINE P == [row : RowValues, edit : Nat, delivered : BOOLEAN]
<1>1. PICK S \in SUBSET Rows : ps \in [S -> P]
  BY DEF Promises
<1>2. PICK T \in SUBSET Rows : older \in [T -> P]
  BY DEF Promises
<1>3. PICK o : o = Over(ps, older)
  OBVIOUS
<1>4. o = [n \in S \cup T |-> IF n \in S THEN ps[n] ELSE older[n]]
  BY <1>1, <1>2, <1>3 DEF Over
<1>5. o \in [S \cup T -> P]
  BY <1>1, <1>2, <1>4
<1>6. S \cup T \in SUBSET Rows
  OBVIOUS
<1>7. o \in Promises
  BY <1>5, <1>6 DEF Promises
<1>8. QED
  BY <1>1, <1>2, <1>3, <1>4, <1>7

LEMMA SnapshotFits ==
  ASSUME ListInv, Snapshot
  PROVE  ListInv'
<1>1. /\ ListTyped /\ StoreFits /\ NumbersFit /\ RowsFit /\ PromisesKept /\ session = Owner
      /\ FlightFits(flushes, wire) /\ CurrentFits /\ LandedFits
      /\ UNCHANGED <<listServer, session, listQueue, edits, flushes, wire, promised, edited, listCounts>>
  BY DEF ListInv, Snapshot, flushVars, ghostVars
<1>2. stored \in Stores /\ stored.queue \in Seq(Entries) /\ listQueue = stored.queue /\ OnePerKey(stored.queue)
      /\ listServer \in Lists /\ promised \in Promises
  <2>1. session # NoUser
    BY <1>1, ListAssumption
  <2>2. QED
    BY <1>1, <2>1 DEF ListTyped, Stores, StoreFits
<1>3. PICK patch \in Patches : patch = Patch(stored.queue)
  BY <1>2, PatchOf
<1>4. PICK list \in Lists : list = Overlay(listServer, patch) /\ \A n \in DOMAIN patch : list[n] = patch[n].row
  BY <1>2, OverlayIn
<1>5. PICK s : s = stored'
  OBVIOUS
<1>6. s = [stored EXCEPT !.list = list]
  BY <1>2, <1>3, <1>4, <1>5 DEF Snapshot, Shown
<1>7. s \in Stores /\ s.owner = stored.owner /\ s.queue = stored.queue /\ s.list = list
  BY <1>2, <1>6, StoreIn DEF Stores
<1>8. ListTyped' /\ StoreFits'
  BY <1>1, <1>5, <1>7 DEF ListTyped, StoreFits
<1>9. NumbersFit' /\ RowsFit' /\ LandedFits' /\ FlightFits(flushes', wire')
  BY <1>1, <1>5, <1>7 DEF NumbersFit, NumbersAt, RowsFit, LandedFits, EditNumber
<1>10. CurrentFits'
  BY <1>1, <1>5, <1>7 DEF CurrentFits
<1>11. PromisesKept'
  <2>1. ASSUME NEW n \in DOMAIN promised, ~promised[n].delivered
        PROVE  s.owner = Owner /\ s.list[n] = promised[n].row /\ n \in DOMAIN patch
               /\ patch[n] = [row |-> promised[n].row, edit |-> promised[n].edit]
    BY <1>1, <1>3, <1>4, <1>7, <2>1 DEF PromisesKept
  <2>2. QED
    BY <1>1, <1>3, <1>5, <1>7, <2>1 DEF PromisesKept
<1>12. QED
  BY <1>8, <1>9, <1>10, <1>11 DEF ListInv

LEMMA WriteFits ==
  ASSUME ListInv, NEW r \in Rows, WriteList(r)
  PROVE  ListInv'
<1>1. /\ ListTyped /\ StoreFits /\ NumbersFit /\ RowsFit /\ PromisesKept /\ session = Owner
      /\ FlightFits(flushes, wire) /\ CurrentFits /\ LandedFits
      /\ edited' = edited \cup {r} /\ listCounts' = [listCounts EXCEPT !.edits = @ + 1]
      /\ UNCHANGED <<listServer, session, stored, listQueue, flushes, wire, promised>>
  BY DEF ListInv, WriteList, flushVars, pageVars
<1>2. stored.list \in Lists /\ edits \in Seq(Calls) /\ Len(edits) \in Nat
      /\ listCounts \in [edits : Nat, others : Nat, breaks : Nat] /\ Len(edits) <= listCounts.edits
  BY <1>1 DEF ListTyped, Stores
<1>3. PICK v \in Wishes(stored.list[r]) :
        edits' = Append(edits, [base |-> stored.list, wanted |-> [stored.list EXCEPT ![r] = v]])
  BY DEF WriteList
<1>4. PICK wanted : wanted = [stored.list EXCEPT ![r] = v]
  OBVIOUS
<1>5. v \in RowValues
  BY <1>2, WishesIn DEF Lists
<1>6. wanted \in Lists /\ Changed(stored.list, wanted) \subseteq {r}
  BY <1>2, <1>4, <1>5 DEF Lists, Changed
<1>7. PICK call : call = [base |-> stored.list, wanted |-> wanted]
  OBVIOUS
<1>8. call \in Calls /\ call.base = stored.list /\ call.wanted = wanted
  BY <1>2, <1>6, <1>7 DEF Calls
<1>9. PICK es : es = edits'
  OBVIOUS
<1>10. /\ es \in Seq(Calls) /\ Len(es) = Len(edits) + 1 /\ DOMAIN es = 1..(Len(edits) + 1)
       /\ es[Len(edits) + 1] = call /\ \A i \in 1..Len(edits) : es[i] = edits[i]
  BY <1>2, <1>3, <1>4, <1>7, <1>8, <1>9
<1>11. listCounts' \in [edits : Nat, others : Nat, breaks : Nat] /\ listCounts'.edits = listCounts.edits + 1
  BY <1>1, <1>2
<1>12. ListTyped'
  <2>1. Len(es) <= listCounts'.edits /\ listCounts.edits \in Nat
    BY <1>2, <1>10, <1>11
  <2>2. QED
    BY <1>1, <1>9, <1>10, <1>11, <2>1 DEF ListTyped
<1>13. EditNumber' = EditNumber
  <2>1. listCounts.edits \in Nat
    BY <1>2
  <2>2. PICK a \in Nat, b \in Nat : a = listCounts.edits /\ b = Len(edits)
    BY <1>2, <2>1
  <2>3. EditNumber' = (a + 1) - (b + 1) /\ EditNumber = a - b
    BY <1>9, <1>10, <1>11, <2>2 DEF EditNumber
  <2>4. QED
    BY <2>3
<1>14. NumbersFit'
  BY <1>1, <1>13 DEF NumbersFit, NumbersAt
<1>15. RowsFit'
  <2>1. ASSUME NEW i \in DOMAIN es PROVE Changed(es[i].base, es[i].wanted) \subseteq edited'
    <3>1. CASE i \in DOMAIN edits
      <4>1. es[i] = edits[i]
        BY <1>2, <1>10, <3>1
      <4>2. QED
        BY <1>1, <3>1, <4>1 DEF RowsFit
    <3>2. CASE i = Len(edits) + 1
      BY <1>1, <1>6, <1>8, <1>10, <3>2
    <3>3. i \in DOMAIN edits \/ i = Len(edits) + 1
      BY <1>2, <1>10
    <3>4. QED
      BY <3>1, <3>2, <3>3
  <2>2. QED
    BY <1>1, <1>9, <2>1 DEF RowsFit
<1>16. StoreFits' /\ LandedFits' /\ PromisesKept' /\ CurrentFits' /\ FlightFits(flushes', wire')
  BY <1>1 DEF StoreFits, LandedFits, PromisesKept, CurrentFits
<1>17. QED
  BY <1>12, <1>14, <1>15, <1>16 DEF ListInv

LEMMA TurnTaken ==
  ASSUME ListInv, edits # <<>>, edits' = Tail(edits), UNCHANGED listCounts
  PROVE  /\ edits' \in Seq(Calls) /\ Len(edits') <= listCounts'.edits
         /\ EditNumber \in Nat /\ EditNumber' = EditNumber + 1
         /\ \A i \in DOMAIN edits' : Changed(edits'[i].base, edits'[i].wanted) \subseteq edited
<1>1. /\ edits \in Seq(Calls) /\ Len(edits) \in Nat /\ listCounts.edits \in Nat
      /\ Len(edits) <= listCounts.edits /\ EditNumber \in Nat
  BY CountIn DEF ListInv, ListTyped
<1>2. PICK es : es = edits'
  OBVIOUS
<1>3. es \in Seq(Calls) /\ Len(es) = Len(edits) - 1 /\ DOMAIN es = 1..(Len(edits) - 1)
      /\ \A i \in 1..(Len(edits) - 1) : es[i] = edits[i + 1]
  BY <1>1, <1>2
<1>4. PICK a \in Nat, b \in Nat : a = listCounts.edits /\ b = Len(edits)
  BY <1>1
<1>5. b <= a /\ EditNumber = a - b /\ EditNumber' = a - (b - 1) /\ Len(es) = b - 1
  BY <1>1, <1>2, <1>3, <1>4 DEF EditNumber
<1>6. Len(es) <= listCounts'.edits /\ EditNumber' = EditNumber + 1
  <2>1. a - (b - 1) = (a - b) + 1 /\ b - 1 <= a
    BY <1>5
  <2>2. QED
    BY <1>4, <1>5, <2>1
<1>7. \A i \in DOMAIN es : Changed(es[i].base, es[i].wanted) \subseteq edited
  <2>1. ASSUME NEW i \in DOMAIN es PROVE i + 1 \in DOMAIN edits /\ es[i] = edits[i + 1]
    BY <1>1, <1>3
  <2>2. QED
    BY <2>1 DEF ListInv, RowsFit
<1>8. QED
  BY <1>1, <1>2, <1>3, <1>6, <1>7

LEMMA RefuseFits ==
  ASSUME ListInv, RefuseEdit
  PROVE  ListInv'
<1>1. /\ ListTyped /\ StoreFits /\ NumbersFit /\ RowsFit /\ PromisesKept
      /\ FlightFits(flushes, wire) /\ CurrentFits /\ LandedFits /\ edits # <<>> /\ edits' = Tail(edits)
      /\ UNCHANGED <<listServer, session, stored, listQueue, flushes, wire, promised, edited, listCounts>>
  BY DEF ListInv, RefuseEdit, flushVars, pageVars, ghostVars
<1>2. /\ edits' \in Seq(Calls) /\ Len(edits') <= listCounts'.edits
      /\ EditNumber \in Nat /\ EditNumber' = EditNumber + 1
      /\ \A i \in DOMAIN edits' : Changed(edits'[i].base, edits'[i].wanted) \subseteq edited
  BY <1>1, TurnTaken
<1>3. ListTyped'
  BY <1>1, <1>2 DEF ListTyped
<1>4. NumbersFit'
  <2>1. PICK m \in Nat, ps \in Promises, q \in Seq(Entries), fs \in [Loops -> Seq(Takens)], ws \in Seq(Writes) :
          m = EditNumber /\ ps = promised /\ q = stored.queue /\ fs = flushes /\ ws = wire
    BY <1>1, <1>2 DEF ListTyped, Stores
  <2>2. NumbersAt(m, ps, q, fs, ws)
    BY <1>1, <2>1 DEF NumbersFit
  <2>3. m + 1 \in Nat /\ m <= m + 1
    OBVIOUS
  <2>4. NumbersAt(m + 1, ps, q, fs, ws)
    BY <2>2, <2>3, NumbersGrow
  <2>5. EditNumber' = m + 1
    BY <1>2, <2>1
  <2>6. QED
    BY <1>1, <2>1, <2>4, <2>5 DEF NumbersFit
<1>5. StoreFits' /\ LandedFits' /\ PromisesKept' /\ CurrentFits' /\ FlightFits(flushes', wire') /\ RowsFit'
  BY <1>1, <1>2 DEF StoreFits, LandedFits, PromisesKept, CurrentFits, RowsFit
<1>6. QED
  BY <1>3, <1>4, <1>5 DEF ListInv

EditedFrom(nq, q, patch) ==
  \A i \in DOMAIN nq :
    \/ nq[i].data = <<>> /\ nq[i].key = "seen"
    \/ HasEntry(q, nq[i].key, nq[i].data)
    \/ nq[i].data = Over(patch, Patch(q))

\* What an accepted edit makes of the queue: the patch of the changed rows over the queued one.
LEMMA QueueEdited ==
  ASSUME NEW q \in Seq(Entries), OnePerKey(q), NEW patch \in Patches, NEW none,
         NEW next, next = (IF none THEN q ELSE Put(q, "list", Over(patch, Patch(q)))),
         none => DOMAIN patch = {}, NEW nq, nq = Put(next, "seen", <<>>)
  PROVE  /\ nq \in Seq(Entries) /\ OnePerKey(nq)
         /\ \A d : none => (HasEntry(nq, "list", d) <=> HasEntry(q, "list", d))
         /\ \A n \in DOMAIN patch : n \in DOMAIN Patch(nq) /\ Patch(nq)[n] = patch[n]
         /\ \A n \in DOMAIN Patch(q) : n \notin DOMAIN patch =>
              n \in DOMAIN Patch(nq) /\ Patch(nq)[n] = Patch(q)[n]
         /\ EditedFrom(nq, q, patch)
<1>1. "list" \in Keys /\ "seen" \in Keys /\ "list" # "seen"
  BY DEF Keys
<1>2. PICK old \in Patches : old = Patch(q) /\ \A n \in DOMAIN old : HasEntry(q, "list", old)
  BY PatchOf
<1>3. PICK new \in Patches : new = Over(patch, old)
  BY OverIn
<1>4. /\ DOMAIN new = DOMAIN patch \cup DOMAIN old
      /\ \A n \in DOMAIN patch : new[n] = patch[n]
      /\ \A n \in DOMAIN old : n \notin DOMAIN patch => new[n] = old[n]
  <2>1. DOMAIN new = DOMAIN patch \cup DOMAIN old
    BY <1>3, OverIn
  <2>2. \A n \in DOMAIN patch : new[n] = patch[n]
    BY <1>3, OverIn
  <2>3. \A n \in DOMAIN old : n \notin DOMAIN patch => new[n] = old[n]
    <3>1. ASSUME NEW n \in DOMAIN old, n \notin DOMAIN patch PROVE Over(patch, old)[n] = old[n]
      BY <3>1, OverIn, ZenonT(30)
    <3>2. QED
      BY <1>3, <3>1
  <2>4. QED
    BY <2>1, <2>2, <2>3
<1>5. next \in Seq(Entries) /\ OnePerKey(next)
  BY <1>1, <1>2, <1>3, PutIn
<1>6. nq \in Seq(Entries) /\ OnePerKey(nq) /\ HasEntry(nq, "seen", <<>>)
      /\ \A k, d : k # "seen" => (HasEntry(nq, k, d) <=> HasEntry(next, k, d))
  BY <1>1, <1>5, NoPatch, PutIn
<1>7. \A d : HasEntry(nq, "list", d) => Patch(nq) = d
  BY <1>6, PatchOf
<1>8. ASSUME NEW i \in DOMAIN nq
      PROVE  \/ nq[i].data = <<>> /\ nq[i].key = "seen"
             \/ nq[i].key # "seen" /\ HasEntry(next, nq[i].key, nq[i].data)
  <2>1. HasEntry(nq, nq[i].key, nq[i].data)
    BY DEF HasEntry
  <2>2. CASE nq[i].key = "seen"
    BY <1>6, <2>2 DEF HasEntry, OnePerKey
  <2>3. QED
    BY <1>6, <2>1, <2>2
<1>9. CASE none
  <2>1. next = q
    BY <1>9
  <2>2. \A n \in DOMAIN Patch(q) : Patch(nq) = Patch(q)
    BY <1>1, <1>2, <1>6, <1>7, <2>1
  <2>3. EditedFrom(nq, q, patch)
    BY <1>8, <2>1 DEF EditedFrom
  <2>4. QED
    BY <1>1, <1>6, <1>9, <2>1, <2>2, <2>3
<1>10. CASE ~none
  <2>1. next = Put(q, "list", new)
    BY <1>2, <1>3, <1>10
  <2>2. HasEntry(next, "list", new) /\ \A k, d : k # "list" => (HasEntry(next, k, d) <=> HasEntry(q, k, d))
    <3>1. PICK a \in Keys : a = "list"
      BY <1>1
    <3>2. HasEntry(Put(q, a, new), a, new)
          /\ \A k, d : k # a => (HasEntry(Put(q, a, new), k, d) <=> HasEntry(q, k, d))
      BY PutIn
    <3>3. QED
      BY <2>1, <3>1, <3>2
  <2>3. Patch(nq) = new
    BY <1>1, <1>6, <1>7, <2>2
  <2>4. \A d : HasEntry(next, "list", d) => d = new
    BY <1>5, <2>2 DEF HasEntry, OnePerKey
  <2>5. \A i \in DOMAIN nq :
              \/ nq[i].data = <<>> /\ nq[i].key = "seen"
              \/ HasEntry(q, nq[i].key, nq[i].data)
              \/ nq[i].data = new
    BY <1>8, <2>2, <2>4
  <2>6. EditedFrom(nq, q, patch)
    BY <1>2, <1>3, <2>5 DEF EditedFrom
  <2>7. QED
    BY <1>2, <1>4, <1>6, <1>10, <2>3, <2>6
<1>11. QED
  BY <1>9, <1>10

LEMMA AcceptFits ==
  ASSUME ListInv, AcceptEdit
  PROVE  ListInv'
<1>1. /\ ListTyped /\ StoreFits /\ NumbersFit /\ RowsFit /\ PromisesKept
      /\ FlightFits(flushes, wire) /\ CurrentFits /\ LandedFits
      /\ edits # <<>> /\ edits' = Tail(edits) /\ session = Owner
      /\ UNCHANGED <<listServer, session, wire, edited, listCounts>>
  BY DEF ListInv, AcceptEdit
<1>2. /\ edits' \in Seq(Calls) /\ Len(edits') <= listCounts'.edits
      /\ EditNumber \in Nat /\ EditNumber' = EditNumber + 1
      /\ \A i \in DOMAIN edits' : Changed(edits'[i].base, edits'[i].wanted) \subseteq edited
  BY <1>1, TurnTaken
<1>3. /\ stored \in Stores /\ stored.queue \in Seq(Entries) /\ stored.list \in Lists /\ OnePerKey(stored.queue)
      /\ listQueue = stored.queue /\ stored.owner = Owner /\ session # NoUser
      /\ promised \in Promises /\ wire \in Seq(Writes) /\ flushes \in [Loops -> Seq(Takens)]
  <2>1. session # NoUser
    BY <1>1, ListAssumption
  <2>2. QED
    BY <1>1, <2>1 DEF ListTyped, Stores, StoreFits
<1>4. PICK call \in Calls : call = Head(edits) /\ Changed(call.base, call.wanted) \subseteq edited
  <2>1. edits \in Seq(Calls) /\ 1 \in DOMAIN edits /\ Head(edits) = edits[1] /\ edits[1] \in Calls
    BY <1>1 DEF ListTyped
  <2>2. QED
    BY <1>1, <2>1 DEF RowsFit
<1>5. PICK list \in Lists : /\ list = Rebase(call.base, stored.list, call.wanted)
                            /\ Changed(stored.list, list) \subseteq edited
  <2>1. call.base \in Lists /\ call.wanted \in Lists
    BY DEF Calls
  <2>2. QED
    BY <1>3, <1>4, <2>1, RebaseIn
<1>6. PICK rows : rows = Changed(stored.list, list)
  OBVIOUS
<1>7. rows \subseteq Rows /\ rows \subseteq edited /\ \A n \in Rows \ rows : list[n] = stored.list[n]
  BY <1>5, <1>6 DEF Changed
<1>8. PICK m \in Nat : m = EditNumber
  BY <1>2
<1>9. PICK patch : patch = [n \in rows |-> [row |-> list[n], edit |-> m]]
  OBVIOUS
<1>10. patch \in Patches /\ DOMAIN patch = rows /\ \A n \in rows : patch[n] = [row |-> list[n], edit |-> m]
  <2>1. \A n \in rows : list[n] \in RowValues
    BY <1>5, <1>7 DEF Lists
  <2>2. patch \in [rows -> [row : RowValues, edit : Nat]]
    BY <1>9, <2>1
  <2>3. QED
    BY <1>7, <1>9, <2>2 DEF Patches
<1>11. PICK fresh : fresh = [n \in rows |-> [row |-> list[n], edit |-> m, delivered |-> FALSE]]
  OBVIOUS
<1>12. fresh \in Promises /\ DOMAIN fresh = rows
       /\ \A n \in rows : fresh[n].row = list[n] /\ fresh[n].edit = m /\ ~fresh[n].delivered
  <2>1. \A n \in rows : list[n] \in RowValues
    BY <1>5, <1>7 DEF Lists
  <2>2. fresh \in [rows -> [row : RowValues, edit : Nat, delivered : BOOLEAN]]
    BY <1>11, <2>1
  <2>3. QED
    BY <1>7, <1>11, <2>2 DEF Promises
<1>13. PICK none : none = (rows = {})
  OBVIOUS
<1>14. PICK q \in Seq(Entries) : q = stored.queue /\ OnePerKey(q)
  BY <1>3
<1>15. PICK next : next = IF none THEN q ELSE Put(q, "list", Over(patch, Patch(q)))
  OBVIOUS
<1>16. PICK nq : nq = listQueue'
  OBVIOUS
<1>17. /\ nq = Put(next, "seen", <<>>)
       /\ stored' = [stored EXCEPT !.list = list, !.queue = nq]
       /\ flushes' = Outdated(flushes, {"seen"} \cup IF none THEN {} ELSE {"list"})
       /\ promised' = Over(fresh, promised)
  BY <1>3, <1>4, <1>5, <1>6, <1>8, <1>9, <1>11, <1>13, <1>14, <1>15, <1>16 DEF AcceptEdit
<1>18. none => DOMAIN patch = {}
  BY <1>10, <1>13
<1>19. /\ nq \in Seq(Entries) /\ OnePerKey(nq)
       /\ \A d : none => (HasEntry(nq, "list", d) <=> HasEntry(q, "list", d))
       /\ \A n \in DOMAIN patch : n \in DOMAIN Patch(nq) /\ Patch(nq)[n] = patch[n]
       /\ \A n \in DOMAIN Patch(q) : n \notin DOMAIN patch =>
              n \in DOMAIN Patch(nq) /\ Patch(nq)[n] = Patch(q)[n]
       /\ EditedFrom(nq, q, patch)
  <2>1. PICK p \in Patches : p = patch
    BY <1>10
  <2>2. nq \in Seq(Entries) /\ OnePerKey(nq)
    BY <1>14, <1>15, <1>17, <1>18, <2>1, QueueEdited
  <2>3. \A d : none => (HasEntry(nq, "list", d) <=> HasEntry(q, "list", d))
    BY <1>14, <1>15, <1>17, <1>18, <2>1, QueueEdited
  <2>4. \A n \in DOMAIN patch : n \in DOMAIN Patch(nq) /\ Patch(nq)[n] = patch[n]
    BY <1>14, <1>15, <1>17, <1>18, <2>1, QueueEdited
  <2>5. \A n \in DOMAIN Patch(q) : n \notin DOMAIN patch => n \in DOMAIN Patch(nq) /\ Patch(nq)[n] = Patch(q)[n]
    BY <1>14, <1>15, <1>17, <1>18, <2>1, QueueEdited
  <2>6. EditedFrom(nq, q, patch)
    BY <1>14, <1>15, <1>17, <1>18, <2>1, QueueEdited
  <2>7. QED
    BY <2>2, <2>3, <2>4, <2>5, <2>6
<1>20. PICK s : s = stored'
  OBVIOUS
<1>21. s \in Stores /\ s.owner = Owner /\ s.list = list /\ s.queue = nq
  BY <1>3, <1>5, <1>17, <1>19, <1>20 DEF Stores
<1>22. PICK ps : ps = promised'
  OBVIOUS
<1>23. /\ ps \in Promises /\ DOMAIN ps = rows \cup DOMAIN promised
       /\ \A n \in rows : ps[n] = fresh[n]
       /\ \A n \in DOMAIN promised : n \notin rows => ps[n] = promised[n]
  BY <1>3, <1>12, <1>17, <1>22, OverPromises
<1>24. PICK fs \in [Loops -> Seq(Takens)], ks \in SUBSET Keys :
         fs = flushes /\ ks = {"seen"} \cup IF none THEN {} ELSE {"list"}
  <2>1. ({"seen"} \cup IF none THEN {} ELSE {"list"}) \in SUBSET Keys
    BY DEF Keys
  <2>2. QED
    BY <1>3, <2>1
<1>25. PICK gs : gs = Outdated(fs, ks)
  OBVIOUS
<1>26. gs \in [Loops -> Seq(Takens)] /\ flushes' = gs /\ FlightFits(gs, wire)
  BY <1>1, <1>3, <1>17, <1>24, <1>25, OutdatedKeeps, OutdatedFits
<1>27. \A l \in Loops : DOMAIN gs[l] = DOMAIN fs[l]
  BY <1>25, OutdatedKeeps
<1>28. \A l \in Loops : \A i \in DOMAIN fs[l] :
         /\ gs[l][i].key = fs[l][i].key /\ gs[l][i].data = fs[l][i].data
         /\ gs[l][i].current => fs[l][i].current /\ fs[l][i].key \notin ks
  BY <1>25, OutdatedKeeps
<1>29. ListTyped'
  BY <1>1, <1>2, <1>16, <1>19, <1>20, <1>21, <1>22, <1>23, <1>26 DEF ListTyped
<1>30. StoreFits'
  BY <1>1, <1>3, <1>16, <1>19, <1>20, <1>21 DEF StoreFits
<1>31. PICK old \in Patches : old = Patch(q) /\ \A n \in DOMAIN old : HasEntry(q, "list", old)
  BY <1>14, PatchOf
<1>32. PICK new \in Patches : /\ new = Over(patch, old) /\ DOMAIN new = rows \cup DOMAIN old
                              /\ \A n \in rows : new[n] = patch[n]
                              /\ \A n \in DOMAIN old : n \notin rows => new[n] = old[n]
  <2>1. PICK new \in Patches : new = Over(patch, old)
    BY <1>10, OverIn
  <2>2. DOMAIN new = rows \cup DOMAIN old
    BY <1>10, <2>1, OverIn
  <2>3. \A n \in rows : new[n] = patch[n]
    BY <1>10, <2>1, OverIn
  <2>4. \A n \in DOMAIN old : n \notin rows => new[n] = old[n]
    <3>1. ASSUME NEW n \in DOMAIN old, n \notin DOMAIN patch PROVE Over(patch, old)[n] = old[n]
      <4>1. patch \in Patches
        BY <1>10
      <4>2. QED
        BY <3>1, <4>1, OverIn, ZenonT(30)
    <3>2. QED
      BY <1>10, <2>1, <3>1
  <2>5. QED
    BY <2>1, <2>2, <2>3, <2>4
<1>33. \A d : HasEntry(q, "list", d) => DOMAIN d \subseteq edited
  BY <1>1, <1>14 DEF RowsFit, HasEntry
<1>34. \A k, d : HasEntry(q, k, d) => Below(d, m)
  BY <1>1, <1>8, <1>14 DEF NumbersFit, NumbersAt, HasEntry
<1>35. RowsFit'
  <2>1. DOMAIN new \subseteq edited
    BY <1>7, <1>31, <1>32, <1>33
  <2>2. ASSUME NEW i \in DOMAIN nq, nq[i].key = "list" PROVE DOMAIN nq[i].data \subseteq edited
    BY <1>19, <1>31, <1>32, <1>33, <2>1, <2>2 DEF EditedFrom
  <2>3. QED
    BY <1>1, <1>2, <1>20, <1>21, <2>2 DEF RowsFit
<1>36. NumbersFit'
  <2>1. NumbersAt(m, promised, q, fs, wire)
    BY <1>1, <1>8, <1>14, <1>24 DEF NumbersFit
  <2>2. NumbersAt(m + 1, promised, q, fs, wire)
    <3>1. PICK a \in Promises, b \in Seq(Writes) : a = promised /\ b = wire
      BY <1>3
    <3>2. m + 1 \in Nat /\ m <= m + 1
      OBVIOUS
    <3>3. NumbersAt(m + 1, a, q, fs, b)
      BY <2>1, <3>1, <3>2, NumbersGrow
    <3>4. QED
      BY <3>1, <3>3
  <2>3. Below(ps, m + 1)
    <3>1. \A n \in rows : ps[n].edit < m + 1
      BY <1>12, <1>23
    <3>2. QED
      BY <1>23, <2>2, <3>1 DEF NumbersAt, Below
  <2>4. \A i \in DOMAIN nq : Below(nq[i].data, m + 1)
    <3>1. \A k, d : HasEntry(q, k, d) => Below(d, m + 1)
      BY <2>2 DEF NumbersAt, HasEntry
    <3>2. \A n \in rows : new[n].edit < m + 1
      BY <1>10, <1>32
    <3>3. \A n \in DOMAIN old : old[n].edit < m + 1
      BY <1>31, <3>1 DEF Below
    <3>4. Below(new, m + 1)
      BY <1>32, <3>2, <3>3 DEF Below
    <3>5. QED
      BY <1>19, <1>31, <1>32, <3>1, <3>4, NoPatch DEF EditedFrom
  <2>5. \A l \in Loops : \A i \in DOMAIN gs[l] : Below(gs[l][i].data, m + 1)
    BY <1>27, <1>28, <2>2 DEF NumbersAt
  <2>6. EditNumber' = m + 1
    BY <1>2, <1>8
  <2>7. NumbersAt(m + 1, ps, nq, gs, wire)
    BY <2>2, <2>3, <2>4, <2>5 DEF NumbersAt
  <2>8. QED
    BY <1>1, <1>20, <1>21, <1>22, <1>26, <2>6, <2>7 DEF NumbersFit
<1>37. CurrentFits'
  <2>1. ASSUME NEW l \in Loops, NEW i \in DOMAIN gs[l], gs[l][i].current
        PROVE  HasEntry(nq, gs[l][i].key, gs[l][i].data)
    <3>1. i \in DOMAIN fs[l] /\ fs[l][i].current /\ fs[l][i].key \notin ks
          /\ gs[l][i].key = fs[l][i].key /\ gs[l][i].data = fs[l][i].data
      BY <1>27, <1>28, <2>1
    <3>2. fs[l] \in Seq(Takens)
      OBVIOUS
    <3>3. fs[l][i].key \in {"list", "seen"}
      BY <3>1, <3>2, MembersIn DEF Keys
    <3>4. none /\ fs[l][i].key = "list"
      BY <1>24, <3>1, <3>3
    <3>5. HasEntry(q, "list", fs[l][i].data)
      BY <1>1, <1>14, <1>24, <3>1, <3>4 DEF CurrentFits
    <3>6. QED
      BY <1>19, <3>1, <3>4, <3>5
  <2>2. QED
    BY <1>1, <1>3, <1>20, <1>21, <1>26, <2>1 DEF CurrentFits
<1>38. LandedFits'
  <2>1. ASSUME NEW i \in DOMAIN wire, wire[i].answer = "ok", NEW n \in DOMAIN wire[i].data \cap DOMAIN ps,
               ps[n].edit = wire[i].data[n].edit
        PROVE  ps[n].delivered
    <3>1. CASE n \in rows
      <4>1. ps[n].edit = m
        BY <1>12, <1>23, <3>1
      <4>2. wire[i].data[n].edit < m
        BY <1>1, <1>8 DEF NumbersFit, NumbersAt, Below
      <4>3. QED
        BY <2>1, <4>1, <4>2
    <3>2. CASE n \notin rows
      BY <1>1, <1>23, <2>1, <3>2 DEF LandedFits
    <3>3. QED
      BY <3>1, <3>2
  <2>2. QED
    BY <1>1, <1>22, <2>1 DEF LandedFits
<1>39. PromisesKept'
  <2>1. ASSUME NEW n \in DOMAIN ps, ~ps[n].delivered
        PROVE  /\ list[n] = ps[n].row
               /\ n \in DOMAIN Patch(nq) /\ Patch(nq)[n] = [row |-> ps[n].row, edit |-> ps[n].edit]
    <3>1. CASE n \in rows
      BY <1>10, <1>12, <1>19, <1>23, <3>1
    <3>2. CASE n \notin rows
      <4>1. n \in DOMAIN promised /\ ps[n] = promised[n] /\ n \in Rows
        BY <1>3, <1>23, <3>2, PatchIn
      <4>2. /\ stored.list[n] = promised[n].row /\ n \in DOMAIN Patch(q)
            /\ Patch(q)[n] = [row |-> promised[n].row, edit |-> promised[n].edit]
        BY <1>1, <1>14, <2>1, <4>1 DEF PromisesKept
      <4>3. QED
        BY <1>7, <1>10, <1>19, <3>2, <4>1, <4>2
    <3>3. QED
      BY <3>1, <3>2
  <2>2. QED
    BY <1>20, <1>21, <1>22, <2>1 DEF PromisesKept
<1>40. QED
  BY <1>1, <1>26, <1>29, <1>30, <1>35, <1>36, <1>37, <1>38, <1>39 DEF ListInv

LEMMA OthersLeft ==
  ASSUME NEW fs \in [Loops -> Seq(Takens)], NEW ws \in Seq(Writes), FlightFits(fs, ws),
         NEW l \in Loops, ws # <<>>, Head(ws).loop = l
  PROVE  /\ Tail(ws) \in Seq(Writes) /\ OthersFit(fs, Tail(ws), l)
         /\ \A i \in DOMAIN Tail(ws) : \E j \in DOMAIN ws : Tail(ws)[i] = ws[j]
         /\ fs[l] # <<>> /\ Head(fs[l]) = fs[l][1] /\ 1 \in DOMAIN fs[l] /\ 1 \in DOMAIN ws /\ Head(ws) = ws[1]
         /\ fs[l][1].key = ws[1].key /\ fs[l][1].data = ws[1].data
         /\ Tail(fs[l]) \in Seq(Takens)
         /\ \A i \in DOMAIN Tail(fs[l]) : \E j \in DOMAIN fs[l] : Tail(fs[l])[i] = fs[l][j]
<1>1. PICK t : t = Tail(ws)
  OBVIOUS
<1>2. /\ t \in Seq(Writes) /\ Len(t) = Len(ws) - 1 /\ DOMAIN t = 1..(Len(ws) - 1) /\ Head(ws) = ws[1]
      /\ \A i \in 1..(Len(ws) - 1) : t[i] = ws[i + 1]
      /\ DOMAIN ws = 1..Len(ws) /\ Len(ws) \in Nat /\ Len(ws) >= 1
  BY <1>1
<1>3. 1 \in DOMAIN ws /\ \A i \in DOMAIN t : i + 1 \in DOMAIN ws /\ i + 1 # 1
  BY <1>2
<1>4. \A j \in DOMAIN ws : j # 1 => j - 1 \in DOMAIN t /\ j = (j - 1) + 1
  BY <1>2
<1>5. fs[l] # <<>> /\ fs[l][1].key = ws[1].key /\ fs[l][1].data = ws[1].data
  BY <1>2, <1>3 DEF FlightFits
<1>6. OthersFit(fs, t, l)
  <2>1. ASSUME NEW i \in DOMAIN t
        PROVE  /\ t[i].loop # l /\ fs[t[i].loop] # <<>>
               /\ fs[t[i].loop][1].key = t[i].key /\ fs[t[i].loop][1].data = t[i].data
               /\ t[i].key = "list" => t[i].as = Owner
    <3>1. PICK j \in DOMAIN ws : j # 1 /\ t[i] = ws[j]
      BY <1>2, <1>3
    <3>2. ws[1].loop = l
      BY <1>2
    <3>3. ws[j].loop # l
      BY <1>3, <3>1, <3>2 DEF FlightFits
    <3>4. QED
      BY <3>1, <3>3 DEF FlightFits
  <2>2. ASSUME NEW i \in DOMAIN t, NEW j \in DOMAIN t, t[i].loop = t[j].loop PROVE i = j
    <3>1. PICK a \in DOMAIN ws, b \in DOMAIN ws : a = i + 1 /\ b = j + 1 /\ t[i] = ws[a] /\ t[j] = ws[b]
      BY <1>2, <1>3
    <3>2. a = b
      BY <2>2, <3>1 DEF FlightFits
    <3>3. i \in Nat /\ j \in Nat
      BY <1>2
    <3>4. QED
      BY <3>1, <3>2, <3>3
  <2>3. ASSUME NEW k \in Loops, k # l, fs[k] # <<>> PROVE \E i \in DOMAIN t : t[i].loop = k
    <3>1. PICK j \in DOMAIN ws : ws[j].loop = k
      BY <2>3 DEF FlightFits
    <3>2. j # 1
      BY <1>2, <2>3, <3>1
    <3>3. PICK i \in DOMAIN t : j = i + 1
      BY <1>4, <3>2
    <3>4. t[i] = ws[j]
      BY <1>2, <3>3
    <3>5. QED
      BY <3>1, <3>4
  <2>4. QED
    BY <2>1, <2>2, <2>3 DEF OthersFit
<1>7. PICK q \in Seq(Takens) : q = fs[l]
  OBVIOUS
<1>8. /\ q # <<>> /\ Head(q) = q[1] /\ 1 \in DOMAIN q /\ Tail(q) \in Seq(Takens)
      /\ \A i \in DOMAIN Tail(q) : i + 1 \in DOMAIN q /\ Tail(q)[i] = q[i + 1]
  BY <1>5, <1>7
<1>9. QED
  BY <1>1, <1>2, <1>3, <1>5, <1>6, <1>7, <1>8

LEMMA StartFits ==
  ASSUME ListInv, NEW l \in Loops, FlushStart(l)
  PROVE  ListInv'
<1>1. /\ ListTyped /\ StoreFits /\ NumbersFit /\ RowsFit /\ PromisesKept
      /\ FlightFits(flushes, wire) /\ CurrentFits /\ LandedFits
      /\ session # NoUser /\ flushes[l] = <<>> /\ Proceed(l, flushes, Taken(listQueue), wire)
      /\ UNCHANGED <<listServer, session, stored, listQueue, edits, promised, edited, listCounts>>
  BY DEF ListInv, FlushStart, pageVars, ghostVars
<1>2. PICK q \in Seq(Entries) : q = stored.queue /\ q = listQueue
  BY <1>1 DEF ListTyped, Stores, StoreFits
<1>3. PICK entries : entries = Taken(q)
  OBVIOUS
<1>4. /\ entries \in Seq(Takens) /\ DOMAIN entries = DOMAIN q
      /\ \A i \in DOMAIN q : entries[i].key = q[i].key /\ entries[i].data = q[i].data
  <2>1. entries = [i \in DOMAIN q |-> [key |-> q[i].key, data |-> q[i].data, current |-> TRUE]]
    BY <1>3 DEF Taken
  <2>2. \A i \in DOMAIN q : [key |-> q[i].key, data |-> q[i].data, current |-> TRUE] \in Takens
    BY MembersIn DEF Takens
  <2>3. DOMAIN q = 1..Len(q) /\ Len(q) \in Nat
    OBVIOUS
  <2>4. \A i \in DOMAIN q : entries[i] \in Takens
    BY <2>1, <2>2
  <2>5. entries \in Seq(Takens)
    BY <2>1, <2>3, <2>4
  <2>6. QED
    BY <2>1, <2>5
<1>5. PICK fs \in [Loops -> Seq(Takens)], ws \in Seq(Writes) : fs = flushes /\ ws = wire
  BY <1>1 DEF ListTyped
<1>6. OthersFit(fs, ws, l)
  BY <1>1, <1>5 DEF FlightFits, OthersFit
<1>7. Proceed(l, fs, entries, ws) /\ session \in Users \cup {NoUser}
  BY <1>1, <1>2, <1>3, <1>5 DEF ListTyped
<1>8. /\ flushes' \in [Loops -> Seq(Takens)] /\ wire' \in Seq(Writes) /\ FlightFits(flushes', wire')
      /\ \A k \in Loops : k # l => flushes'[k] = fs[k]
      /\ \A i \in DOMAIN flushes'[l] : \E j \in DOMAIN entries : flushes'[l][i] = entries[j]
      /\ \A i \in DOMAIN wire' :
           \/ \E j \in DOMAIN ws : wire'[i] = ws[j]
           \/ wire'[i].answer = "none" /\ \E j \in DOMAIN entries : wire'[i].data = entries[j].data
  BY <1>4, <1>6, <1>7, ProceedFits
<1>9. ListTyped' /\ StoreFits' /\ RowsFit' /\ PromisesKept'
  BY <1>1, <1>8 DEF ListTyped, StoreFits, RowsFit, PromisesKept
<1>10. NumbersFit'
  <2>1. NumbersAt(EditNumber, promised, q, fs, ws)
    BY <1>1, <1>2, <1>5 DEF NumbersFit
  <2>2. \A j \in DOMAIN entries : Below(entries[j].data, EditNumber)
    BY <1>4, <2>1 DEF NumbersAt
  <2>3. ASSUME NEW k \in Loops, NEW i \in DOMAIN flushes'[k] PROVE Below(flushes'[k][i].data, EditNumber)
    <3>1. CASE k = l
      <4>1. PICK j \in DOMAIN entries : flushes'[l][i] = entries[j]
        BY <1>8, <3>1
      <4>2. QED
        BY <2>2, <3>1, <4>1
    <3>2. CASE k # l
      BY <1>8, <2>1, <3>2 DEF NumbersAt
    <3>3. QED
      BY <3>1, <3>2
  <2>4. \A i \in DOMAIN wire' : Below(wire'[i].data, EditNumber)
    BY <1>8, <2>1, <2>2 DEF NumbersAt
  <2>5. EditNumber' = EditNumber
    BY <1>1 DEF EditNumber
  <2>6. QED
    BY <1>1, <1>2, <2>1, <2>3, <2>4, <2>5 DEF NumbersFit, NumbersAt
<1>11. CurrentFits'
  <2>1. \A j \in DOMAIN entries : HasEntry(q, entries[j].key, entries[j].data)
    BY <1>4 DEF HasEntry
  <2>2. ASSUME NEW k \in Loops, NEW i \in DOMAIN flushes'[k], flushes'[k][i].current
        PROVE  HasEntry(q, flushes'[k][i].key, flushes'[k][i].data)
    <3>1. CASE k = l
      <4>1. PICK j \in DOMAIN entries : flushes'[l][i] = entries[j]
        BY <1>8, <3>1
      <4>2. QED
        BY <2>1, <3>1, <4>1
    <3>2. CASE k # l
      BY <1>1, <1>2, <1>5, <1>8, <2>2, <3>2 DEF CurrentFits
    <3>3. QED
      BY <3>1, <3>2
  <2>3. QED
    BY <1>1, <1>2, <2>2 DEF CurrentFits
<1>12. LandedFits'
  <2>1. ASSUME NEW i \in DOMAIN wire', wire'[i].answer = "ok" PROVE \E j \in DOMAIN ws : wire'[i] = ws[j]
    BY <1>8, <2>1
  <2>2. QED
    BY <1>1, <1>5, <2>1 DEF LandedFits
<1>13. QED
  BY <1>8, <1>9, <1>10, <1>11, <1>12 DEF ListInv

\* A flush that goes on after an answer, with the flushes as they are then.
LEMMA AnswerFits ==
  ASSUME NEW fs \in [Loops -> Seq(Takens)], NEW ws \in Seq(Writes), FlightFits(fs, ws),
         NEW l \in Loops, ws # <<>>, Head(ws).loop = l, session \in Users \cup {NoUser},
         Proceed(l, fs, Tail(fs[l]), Tail(ws))
  PROVE  /\ flushes' \in [Loops -> Seq(Takens)] /\ wire' \in Seq(Writes) /\ FlightFits(flushes', wire')
         /\ \A k \in Loops : \A i \in DOMAIN flushes'[k] : \E j \in DOMAIN fs[k] : flushes'[k][i] = fs[k][j]
         /\ \A i \in DOMAIN wire' :
              \/ \E j \in DOMAIN ws : wire'[i] = ws[j]
              \/ wire'[i].answer = "none" /\ \E j \in DOMAIN fs[l] : wire'[i].data = fs[l][j].data
<1>1. PICK sent \in Seq(Writes), entries \in Seq(Takens) :
        /\ sent = Tail(ws) /\ entries = Tail(fs[l]) /\ OthersFit(fs, sent, l)
        /\ \A i \in DOMAIN sent : \E j \in DOMAIN ws : sent[i] = ws[j]
        /\ \A i \in DOMAIN entries : \E j \in DOMAIN fs[l] : entries[i] = fs[l][j]
  BY OthersLeft
<1>2. Proceed(l, fs, entries, sent)
  BY <1>1
<1>3. /\ flushes' \in [Loops -> Seq(Takens)] /\ wire' \in Seq(Writes) /\ FlightFits(flushes', wire')
      /\ \A k \in Loops : k # l => flushes'[k] = fs[k]
      /\ \A i \in DOMAIN flushes'[l] : \E j \in DOMAIN entries : flushes'[l][i] = entries[j]
      /\ \A i \in DOMAIN wire' :
           \/ \E j \in DOMAIN sent : wire'[i] = sent[j]
           \/ wire'[i].answer = "none" /\ \E j \in DOMAIN entries : wire'[i].data = entries[j].data
  <2>1. OthersFit(fs, sent, l)
    BY <1>1
  <2>2. flushes' \in [Loops -> Seq(Takens)] /\ wire' \in Seq(Writes) /\ FlightFits(flushes', wire')
    BY <1>2, <2>1, ProceedFits
  <2>3. \A k \in Loops : k # l => flushes'[k] = fs[k]
    BY <1>2, <2>1, ProceedFits
  <2>4. \A i \in DOMAIN flushes'[l] : \E j \in DOMAIN entries : flushes'[l][i] = entries[j]
    BY <1>2, <2>1, ProceedFits
  <2>5. \A i \in DOMAIN wire' :
           \/ \E j \in DOMAIN sent : wire'[i] = sent[j]
           \/ wire'[i].answer = "none" /\ \E j \in DOMAIN entries : wire'[i].data = entries[j].data
    BY <1>2, <2>1, ProceedFits
  <2>6. QED
    BY <2>2, <2>3, <2>4, <2>5
<1>4. ASSUME NEW k \in Loops, NEW i \in DOMAIN flushes'[k] PROVE \E j \in DOMAIN fs[k] : flushes'[k][i] = fs[k][j]
  <2>1. CASE k = l
    <3>1. PICK j \in DOMAIN entries : flushes'[l][i] = entries[j]
      BY <1>3, <2>1
    <3>2. QED
      BY <1>1, <2>1, <3>1
  <2>2. CASE k # l
    BY <1>3, <2>2
  <2>3. QED
    BY <2>1, <2>2
<1>5. \A i \in DOMAIN wire' :
        \/ \E j \in DOMAIN ws : wire'[i] = ws[j]
        \/ wire'[i].answer = "none" /\ \E j \in DOMAIN fs[l] : wire'[i].data = fs[l][j].data
  BY <1>1, <1>3
<1>6. QED
  BY <1>3, <1>4, <1>5

LEMMA FailedFits ==
  ASSUME ListInv, NEW l \in Loops, FlushFailed(l)
  PROVE  ListInv'
<1>1. /\ ListTyped /\ StoreFits /\ NumbersFit /\ RowsFit /\ PromisesKept
      /\ FlightFits(flushes, wire) /\ CurrentFits /\ LandedFits
      /\ wire # <<>> /\ Head(wire).loop = l /\ Proceed(l, flushes, Tail(flushes[l]), Tail(wire))
      /\ UNCHANGED <<listServer, session, stored, listQueue, edits, promised, edited, listCounts>>
  BY DEF ListInv, FlushFailed, Answered, pageVars, ghostVars
<1>2. PICK fs \in [Loops -> Seq(Takens)], ws \in Seq(Writes) : fs = flushes /\ ws = wire
  BY <1>1 DEF ListTyped
<1>3. FlightFits(fs, ws) /\ ws # <<>> /\ Head(ws).loop = l
  BY <1>1, <1>2
<1>4. Proceed(l, fs, Tail(fs[l]), Tail(ws)) /\ session \in Users \cup {NoUser}
  BY <1>1, <1>2 DEF ListTyped
<1>5. /\ flushes' \in [Loops -> Seq(Takens)] /\ wire' \in Seq(Writes) /\ FlightFits(flushes', wire')
      /\ \A k \in Loops : \A i \in DOMAIN flushes'[k] : \E j \in DOMAIN fs[k] : flushes'[k][i] = fs[k][j]
      /\ \A i \in DOMAIN wire' :
           \/ \E j \in DOMAIN ws : wire'[i] = ws[j]
           \/ wire'[i].answer = "none" /\ \E j \in DOMAIN fs[l] : wire'[i].data = fs[l][j].data
  BY <1>3, <1>4, AnswerFits
<1>6. ListTyped' /\ StoreFits' /\ RowsFit' /\ PromisesKept'
  BY <1>1, <1>5 DEF ListTyped, StoreFits, RowsFit, PromisesKept
<1>7. NumbersFit'
  <2>1. NumbersAt(EditNumber, promised, stored.queue, fs, ws)
    BY <1>1, <1>2 DEF NumbersFit
  <2>2. \A k \in Loops : \A i \in DOMAIN flushes'[k] : Below(flushes'[k][i].data, EditNumber)
    BY <1>5, <2>1 DEF NumbersAt
  <2>3. \A i \in DOMAIN wire' : Below(wire'[i].data, EditNumber)
    BY <1>5, <2>1 DEF NumbersAt
  <2>4. EditNumber' = EditNumber
    BY <1>1 DEF EditNumber
  <2>5. QED
    BY <1>1, <2>1, <2>2, <2>3, <2>4 DEF NumbersFit, NumbersAt
<1>8. CurrentFits'
  BY <1>1, <1>2, <1>5 DEF CurrentFits
<1>9. LandedFits'
  BY <1>1, <1>2, <1>5 DEF LandedFits
<1>10. QED
  BY <1>5, <1>6, <1>7, <1>8, <1>9 DEF ListInv

\* What remains of the queue when an answer is settled, and what the flushes and the wire hold then.
SettledQueue(q, nq, key, data, current) ==
  IF current
  THEN /\ session # NoUser /\ HasEntry(q, key, data)
       /\ \A k, d : HasEntry(nq, k, d) <=> k # key /\ HasEntry(q, k, d)
  ELSE nq = q

LEMMA SettleFits ==
  ASSUME ListInv, NEW l \in Loops, wire # <<>>, Head(wire).loop = l, Settle(l), session' = session
  PROVE  /\ flushes' \in [Loops -> Seq(Takens)] /\ wire' \in Seq(Writes) /\ FlightFits(flushes', wire')
         /\ stored' \in Stores /\ stored'.owner = stored.owner /\ stored'.list = stored.list
         /\ listQueue' \in Seq(Entries) /\ StoreFits'
         /\ 1 \in DOMAIN wire /\ wire[1] = Head(wire) /\ wire[1].key \in Keys
         /\ Item(l).key = wire[1].key /\ Item(l).data = wire[1].data
         /\ SettledQueue(stored.queue, stored'.queue, wire[1].key, wire[1].data, Item(l).current)
         /\ CurrentFits'
         /\ \A m : (\A k \in Loops : \A i \in DOMAIN flushes[k] : Below(flushes[k][i].data, m))
                    => \A k \in Loops : \A i \in DOMAIN flushes'[k] : Below(flushes'[k][i].data, m)
         /\ \A i \in DOMAIN wire' :
              \/ \E j \in DOMAIN wire : wire'[i] = wire[j]
              \/ wire'[i].answer = "none" /\ \E j \in DOMAIN flushes[l] : wire'[i].data = flushes[l][j].data
<1>1. /\ ListTyped /\ StoreFits /\ CurrentFits /\ FlightFits(flushes, wire)
  BY DEF ListInv
<1>2. PICK fs \in [Loops -> Seq(Takens)], ws \in Seq(Writes) : fs = flushes /\ ws = wire
  BY <1>1 DEF ListTyped
<1>3. FlightFits(fs, ws) /\ ws # <<>> /\ Head(ws).loop = l
  BY <1>1, <1>2
<1>4. /\ fs[l] # <<>> /\ Head(fs[l]) = fs[l][1] /\ 1 \in DOMAIN fs[l] /\ 1 \in DOMAIN ws /\ Head(ws) = ws[1]
      /\ fs[l][1].key = ws[1].key /\ fs[l][1].data = ws[1].data
  <2>1. fs[l] # <<>> /\ fs[l][1].key = ws[1].key /\ fs[l][1].data = ws[1].data
    BY <1>3, OthersLeft
  <2>2. 1 \in DOMAIN ws /\ Head(ws) = ws[1]
    BY <1>3
  <2>3. PICK q \in Seq(Takens) : q = fs[l]
    OBVIOUS
  <2>4. Head(q) = q[1] /\ 1 \in DOMAIN q
    BY <2>1, <2>3
  <2>5. QED
    BY <2>1, <2>2, <2>3, <2>4
<1>5. PICK key \in Keys : key = ws[1].key
  BY <1>4, MembersIn
<1>6. Item(l) = fs[l][1] /\ Item(l).key = key /\ Item(l).data = ws[1].data
  BY <1>2, <1>4, <1>5 DEF Item
<1>7. PICK q \in Seq(Entries) : q = stored.queue /\ OnePerKey(q)
  BY <1>1 DEF ListTyped, Stores, StoreFits
<1>8. stored \in Stores
  BY <1>1 DEF ListTyped
<1>9. PICK current \in BOOLEAN : current = Item(l).current
  BY <1>4, <1>6, MembersIn
<1>10. current => session # NoUser /\ HasEntry(q, key, ws[1].data) /\ listQueue = q
  <2>1. fs[l][1].current => session # NoUser /\ HasEntry(q, fs[l][1].key, fs[l][1].data)
    BY <1>1, <1>2, <1>4, <1>7 DEF CurrentFits
  <2>2. QED
    BY <1>1, <1>4, <1>5, <1>6, <1>7, <1>9, <2>1 DEF StoreFits
<1>11. PICK left \in Seq(Entries) : left = IF current THEN Without(q, key) ELSE q
  BY <1>7, WithoutIn
<1>12. OnePerKey(left) /\ (current => \A k, d : HasEntry(left, k, d) <=> k # key /\ HasEntry(q, k, d))
  BY <1>7, <1>11, WithoutIn
<1>13. stored' \in Stores /\ stored'.owner = stored.owner /\ stored'.list = stored.list /\ stored'.queue = left
       /\ listQueue' = IF session = NoUser THEN <<>> ELSE left
  <2>1. PICK s : s = stored'
    OBVIOUS
  <2>2. CASE session = NoUser
    <3>1. listQueue' = <<>> /\ s = stored
      BY <2>1, <2>2 DEF Settle, SaveQueue
    <3>2. ~current
      BY <1>10, <2>2
    <3>3. QED
      BY <1>7, <1>8, <1>11, <2>1, <2>2, <3>1, <3>2
  <2>3. CASE session # NoUser
    <3>1. listQueue = q
      BY <1>1, <1>7, <2>3 DEF StoreFits
    <3>2. listQueue' = left /\ s = [stored EXCEPT !.queue = left]
      BY <1>6, <1>9, <1>11, <2>1, <2>3, <3>1 DEF Settle, SaveQueue
    <3>3. s \in Stores /\ s.owner = stored.owner /\ s.list = stored.list /\ s.queue = left
      BY <1>8, <3>2, StoreIn DEF Stores
    <3>4. QED
      BY <2>1, <2>3, <3>2, <3>3
  <2>4. QED
    BY <2>2, <2>3
<1>14. listQueue' \in Seq(Entries) /\ StoreFits'
  <2>1. listQueue' \in Seq(Entries)
    BY <1>13, NoPatch
  <2>2. QED
    BY <1>1, <1>12, <1>13, <2>1 DEF StoreFits
<1>15. SettledQueue(stored.queue, stored'.queue, wire[1].key, wire[1].data, Item(l).current)
  BY <1>2, <1>5, <1>7, <1>9, <1>10, <1>11, <1>12, <1>13 DEF SettledQueue
<1>16. PICK gs \in [Loops -> Seq(Takens)] : gs = IF current THEN Outdated(fs, {key}) ELSE fs
  BY OutdatedKeeps
<1>17. FlightFits(gs, ws)
  BY <1>3, <1>16, OutdatedFits
<1>18. Proceed(l, gs, Tail(gs[l]), Tail(ws)) /\ session \in Users \cup {NoUser}
  <2>1. CASE current
    BY <1>1, <1>2, <1>6, <1>9, <1>16, <2>1 DEF Settle, ListTyped
  <2>2. CASE ~current
    BY <1>1, <1>2, <1>6, <1>9, <1>16, <2>2 DEF Settle, ListTyped
  <2>3. QED
    BY <2>1, <2>2
<1>19. /\ flushes' \in [Loops -> Seq(Takens)] /\ wire' \in Seq(Writes) /\ FlightFits(flushes', wire')
       /\ \A k \in Loops : \A i \in DOMAIN flushes'[k] : \E j \in DOMAIN gs[k] : flushes'[k][i] = gs[k][j]
       /\ \A i \in DOMAIN wire' :
            \/ \E j \in DOMAIN ws : wire'[i] = ws[j]
            \/ wire'[i].answer = "none" /\ \E j \in DOMAIN gs[l] : wire'[i].data = gs[l][j].data
  BY <1>3, <1>17, <1>18, AnswerFits
<1>20. ASSUME NEW k \in Loops, NEW i \in DOMAIN gs[k]
       PROVE  i \in DOMAIN fs[k] /\ gs[k][i].key = fs[k][i].key /\ gs[k][i].data = fs[k][i].data
              /\ (gs[k][i].current => fs[k][i].current /\ (current => fs[k][i].key # key))
  <2>1. CASE current
    <3>1. gs = Outdated(fs, {key})
      BY <1>16, <2>1
    <3>2. i \in DOMAIN Outdated(fs, {key})[k]
      BY <3>1
    <3>3. /\ i \in DOMAIN fs[k]
          /\ Outdated(fs, {key})[k][i].key = fs[k][i].key /\ Outdated(fs, {key})[k][i].data = fs[k][i].data
          /\ Outdated(fs, {key})[k][i].current => fs[k][i].current /\ fs[k][i].key \notin {key}
      BY <3>2, OutdatedEntry
    <3>4. QED
      BY <3>1, <3>3
  <2>2. CASE ~current
    BY <1>16, <2>2
  <2>3. QED
    BY <2>1, <2>2
<1>21. ASSUME NEW k \in Loops, NEW i \in DOMAIN flushes'[k]
       PROVE  \E j \in DOMAIN fs[k] :
                /\ flushes'[k][i].key = fs[k][j].key /\ flushes'[k][i].data = fs[k][j].data
                /\ flushes'[k][i].current => fs[k][j].current /\ (current => fs[k][j].key # key)
  <2>1. PICK j \in DOMAIN gs[k] : flushes'[k][i] = gs[k][j]
    BY <1>19
  <2>2. QED
    BY <1>20, <2>1
<1>22. CurrentFits'
  <2>1. ASSUME NEW k \in Loops, NEW i \in DOMAIN flushes'[k], flushes'[k][i].current
        PROVE  session # NoUser /\ HasEntry(left, flushes'[k][i].key, flushes'[k][i].data)
    <3>1. PICK j \in DOMAIN fs[k] : /\ flushes'[k][i].key = fs[k][j].key /\ flushes'[k][i].data = fs[k][j].data
                                    /\ fs[k][j].current /\ (current => fs[k][j].key # key)
      BY <1>21, <2>1
    <3>2. session # NoUser /\ HasEntry(q, fs[k][j].key, fs[k][j].data)
      BY <1>1, <1>2, <1>7, <3>1 DEF CurrentFits
    <3>3. QED
      BY <1>11, <1>12, <3>1, <3>2
  <2>2. QED
    BY <1>13, <2>1 DEF CurrentFits
<1>23. ASSUME NEW m, \A k \in Loops : \A i \in DOMAIN flushes[k] : Below(flushes[k][i].data, m)
       PROVE  \A k \in Loops : \A i \in DOMAIN flushes'[k] : Below(flushes'[k][i].data, m)
  BY <1>2, <1>21, <1>23
<1>24. \A i \in DOMAIN wire' :
         \/ \E j \in DOMAIN ws : wire'[i] = ws[j]
         \/ wire'[i].answer = "none" /\ \E j \in DOMAIN fs[l] : wire'[i].data = fs[l][j].data
  BY <1>19, <1>20
<1>25. QED
  BY <1>2, <1>4, <1>5, <1>6, <1>13, <1>14, <1>15, <1>19, <1>22, <1>23, <1>24

\* What both ways to settle an answer have in common.
LEMMA SettledRest ==
  ASSUME ListInv, NEW l \in Loops, wire # <<>>, Head(wire).loop = l, Settle(l),
         UNCHANGED <<listServer, session, edits, edited, listCounts>>,
         promised' \in Promises, DOMAIN promised' \subseteq DOMAIN promised,
         \A n \in DOMAIN promised' : promised'[n] = promised[n],
         wire[1].key = "list" /\ Item(l).current =>
           \A n \in DOMAIN promised' : n \in DOMAIN wire[1].data =>
             promised[n].delivered \/ wire[1].data[n].edit # promised[n].edit
  PROVE  ListInv'
<1>1. /\ ListTyped /\ StoreFits /\ NumbersFit /\ RowsFit /\ PromisesKept /\ CurrentFits /\ LandedFits
  BY DEF ListInv
<1>2. /\ flushes' \in [Loops -> Seq(Takens)] /\ wire' \in Seq(Writes) /\ FlightFits(flushes', wire')
      /\ stored' \in Stores /\ stored'.owner = stored.owner /\ stored'.list = stored.list
      /\ listQueue' \in Seq(Entries) /\ StoreFits'
      /\ 1 \in DOMAIN wire /\ wire[1] = Head(wire) /\ wire[1].key \in Keys
      /\ Item(l).key = wire[1].key /\ Item(l).data = wire[1].data
      /\ SettledQueue(stored.queue, stored'.queue, wire[1].key, wire[1].data, Item(l).current)
      /\ CurrentFits'
  BY SettleFits
<1>3. \A m : (\A k \in Loops : \A i \in DOMAIN flushes[k] : Below(flushes[k][i].data, m))
             => \A k \in Loops : \A i \in DOMAIN flushes'[k] : Below(flushes'[k][i].data, m)
  BY SettleFits
<1>4. \A i \in DOMAIN wire' :
        \/ \E j \in DOMAIN wire : wire'[i] = wire[j]
        \/ wire'[i].answer = "none" /\ \E j \in DOMAIN flushes[l] : wire'[i].data = flushes[l][j].data
  BY SettleFits
<1>5. PICK q \in Seq(Entries), nq \in Seq(Entries) : q = stored.queue /\ nq = stored'.queue /\ OnePerKey(q) /\ OnePerKey(nq)
  BY <1>1, <1>2 DEF ListTyped, Stores, StoreFits
<1>6. \A k, d : HasEntry(nq, k, d) => HasEntry(q, k, d)
  BY <1>2, <1>5 DEF SettledQueue
<1>7. ListTyped'
  BY <1>1, <1>2 DEF ListTyped
<1>8. RowsFit'
  <2>1. \A i \in DOMAIN nq : HasEntry(q, nq[i].key, nq[i].data)
    BY <1>6 DEF HasEntry
  <2>2. \A j \in DOMAIN q : q[j].key = "list" => DOMAIN q[j].data \subseteq edited
    BY <1>1, <1>5 DEF RowsFit
  <2>3. ASSUME NEW i \in DOMAIN nq, nq[i].key = "list" PROVE DOMAIN nq[i].data \subseteq edited
    <3>1. PICK j \in DOMAIN q : q[j].key = nq[i].key /\ q[j].data = nq[i].data
      BY <2>1 DEF HasEntry
    <3>2. QED
      BY <2>2, <2>3, <3>1
  <2>4. \A i \in DOMAIN edits' : Changed(edits'[i].base, edits'[i].wanted) \subseteq edited'
    BY <1>1 DEF RowsFit
  <2>5. stored'.queue = nq /\ edited' = edited
    BY <1>5
  <2>6. QED
    BY <2>3, <2>4, <2>5 DEF RowsFit
<1>9. NumbersFit'
  <2>1. NumbersAt(EditNumber, promised, q, flushes, wire)
    BY <1>1, <1>5 DEF NumbersFit
  <2>2. \A k \in Loops : \A i \in DOMAIN flushes'[k] : Below(flushes'[k][i].data, EditNumber)
    BY <1>3, <2>1 DEF NumbersAt
  <2>3. ASSUME NEW i \in DOMAIN wire' PROVE Below(wire'[i].data, EditNumber)
    BY <1>4, <2>1 DEF NumbersAt
  <2>4. \A i \in DOMAIN nq : Below(nq[i].data, EditNumber)
    <3>1. \A i \in DOMAIN nq : HasEntry(q, nq[i].key, nq[i].data)
      BY <1>6 DEF HasEntry
    <3>2. QED
      BY <2>1, <3>1 DEF NumbersAt, HasEntry
  <2>5. Below(promised', EditNumber)
    BY <2>1 DEF NumbersAt, Below
  <2>6. EditNumber' = EditNumber
    BY DEF EditNumber
  <2>7. QED
    BY <1>5, <2>2, <2>3, <2>4, <2>5, <2>6 DEF NumbersFit, NumbersAt
<1>10. LandedFits'
  <2>1. ASSUME NEW i \in DOMAIN wire', wire'[i].answer = "ok" PROVE \E j \in DOMAIN wire : wire'[i] = wire[j]
    BY <1>4, <2>1
  <2>2. QED
    BY <1>1, <2>1 DEF LandedFits
<1>11. PromisesKept'
  <2>1. ASSUME NEW n \in DOMAIN promised', ~promised'[n].delivered
        PROVE  /\ n \in DOMAIN Patch(nq) /\ Patch(nq)[n] = [row |-> promised[n].row, edit |-> promised[n].edit]
               /\ stored.owner = Owner /\ stored.list[n] = promised[n].row
    <3>1. /\ n \in DOMAIN promised /\ ~promised[n].delivered /\ stored.owner = Owner
          /\ stored.list[n] = promised[n].row /\ n \in DOMAIN Patch(q)
          /\ Patch(q)[n] = [row |-> promised[n].row, edit |-> promised[n].edit]
      BY <1>1, <1>5, <2>1 DEF PromisesKept
    <3>2. HasEntry(q, "list", Patch(q))
      BY <1>5, <3>1, PatchOf
    <3>3. CASE ~Item(l).current
      BY <1>2, <1>5, <3>1, <3>3 DEF SettledQueue
    <3>4. CASE Item(l).current /\ wire[1].key # "list"
      <4>1. HasEntry(nq, "list", Patch(q))
        BY <1>2, <1>5, <3>2, <3>4 DEF SettledQueue
      <4>2. Patch(nq) = Patch(q)
        BY <1>5, <4>1, PatchOf
      <4>3. QED
        BY <3>1, <4>2
    <3>5. CASE Item(l).current /\ wire[1].key = "list"
      <4>1. HasEntry(q, "list", wire[1].data)
        BY <1>2, <1>5, <3>5 DEF SettledQueue
      <4>2. Patch(q) = wire[1].data
        BY <1>5, <4>1, PatchOf
      <4>3. Patch(q)[n].edit = promised[n].edit
        BY <3>1
      <4>4. QED
        BY <2>1, <3>1, <3>5, <4>2, <4>3
    <3>6. QED
      BY <3>3, <3>4, <3>5, <3>1
  <2>2. QED
    BY <1>2, <1>5, <2>1 DEF PromisesKept
<1>12. QED
  BY <1>2, <1>7, <1>8, <1>9, <1>10, <1>11 DEF ListInv

LEMMA AcknowledgedFits ==
  ASSUME ListInv, NEW l \in Loops, FlushAcknowledged(l)
  PROVE  ListInv'
<1>1. /\ wire # <<>> /\ Head(wire).loop = l /\ Head(wire).answer = "ok" /\ Settle(l)
      /\ UNCHANGED <<listServer, session, edits, edited, listCounts>> /\ promised' = promised
  BY DEF FlushAcknowledged, Answered, ghostVars
<1>2. promised \in Promises /\ wire \in Seq(Writes) /\ LandedFits
  BY DEF ListInv, ListTyped
<1>3. 1 \in DOMAIN wire /\ Head(wire) = wire[1]
  BY <1>1, <1>2
<1>4. \A n \in DOMAIN promised : n \in DOMAIN wire[1].data =>
        promised[n].delivered \/ wire[1].data[n].edit # promised[n].edit
  BY <1>1, <1>2, <1>3 DEF LandedFits
<1>5. QED
  BY <1>1, <1>2, <1>4, SettledRest

LEMMA DroppedFits ==
  ASSUME ListInv, NEW l \in Loops, FlushDropped(l)
  PROVE  ListInv'
<1>1. /\ wire # <<>> /\ Head(wire).loop = l /\ Settle(l) /\ session' = session
      /\ UNCHANGED <<listServer, session, edits, edited, listCounts>>
  BY DEF FlushDropped, Answered
<1>2. promised \in Promises
  BY DEF ListInv, ListTyped
<1>3. PICK ps : ps = promised'
  OBVIOUS
<1>4. Item(l).key = wire[1].key /\ Item(l).data = wire[1].data
  BY <1>1, SettleFits
<1>5. /\ ps \in Promises /\ DOMAIN ps \subseteq DOMAIN promised /\ \A n \in DOMAIN ps : ps[n] = promised[n]
      /\ Item(l).current /\ Item(l).key = "list" => \A n \in DOMAIN ps : n \notin DOMAIN Item(l).data
  <2>1. CASE Item(l).current /\ Item(l).key = "list"
    <3>1. ps = [n \in DOMAIN promised \ DOMAIN Item(l).data |-> promised[n]]
      BY <1>3, <2>1 DEF FlushDropped
    <3>2. PICK S \in SUBSET Rows : promised \in [S -> [row : RowValues, edit : Nat, delivered : BOOLEAN]]
      BY <1>2 DEF Promises
    <3>3. PICK T \in SUBSET Rows : T = S \ DOMAIN Item(l).data
      OBVIOUS
    <3>4. ps \in [T -> [row : RowValues, edit : Nat, delivered : BOOLEAN]]
      BY <3>1, <3>2, <3>3
    <3>5. ps \in Promises
      BY <3>4 DEF Promises
    <3>6. QED
      BY <3>1, <3>5
  <2>2. CASE ~(Item(l).current /\ Item(l).key = "list")
    <3>1. ps = promised
      BY <1>3, <2>2 DEF FlushDropped
    <3>2. QED
      BY <1>2, <2>2, <3>1
  <2>3. QED
    BY <2>1, <2>2
<1>6. wire[1].key = "list" /\ Item(l).current =>
        \A n \in DOMAIN ps : n \in DOMAIN wire[1].data =>
          promised[n].delivered \/ wire[1].data[n].edit # promised[n].edit
  BY <1>4, <1>5
<1>7. QED
  BY <1>1, <1>3, <1>5, <1>6, SettledRest

LEMMA AnsweredFits ==
  ASSUME ListInv, DatabaseAnswers
  PROVE  ListInv'
<1>1. /\ ListTyped /\ StoreFits /\ NumbersFit /\ RowsFit /\ PromisesKept
      /\ FlightFits(flushes, wire) /\ CurrentFits /\ LandedFits
      /\ UNCHANGED <<session, stored, listQueue, edits, flushes, edited>>
  BY DEF ListInv, DatabaseAnswers, pageVars
<1>2. PICK ws \in Seq(Writes) : ws = wire
  BY <1>1 DEF ListTyped
<1>3. PICK h \in DOMAIN ws, a \in {"ok", "denied", "failed"} :
        /\ wire' = [ws EXCEPT ![h].answer = a]
        /\ (a = "ok" /\ Accepted(ws[h])) \/ (a # "ok" /\ (Denied \/ Failed))
  <2>1. PICK h \in DOMAIN wire :
          \/ Accepted(wire[h]) /\ wire' = [wire EXCEPT ![h].answer = "ok"]
          \/ Denied /\ wire' = [wire EXCEPT ![h].answer = "denied"]
          \/ Failed /\ wire' = [wire EXCEPT ![h].answer = "failed"]
    BY DEF DatabaseAnswers
  <2>2. QED
    BY <1>2, <2>1
<1>4. PICK nw : nw = wire'
  OBVIOUS
<1>5. /\ nw \in Seq(Writes) /\ DOMAIN nw = DOMAIN ws
      /\ \A i \in DOMAIN ws : /\ nw[i].loop = ws[i].loop /\ nw[i].key = ws[i].key
                              /\ nw[i].data = ws[i].data /\ nw[i].as = ws[i].as
      /\ \A i \in DOMAIN ws : i # h => nw[i].answer = ws[i].answer
      /\ nw[h].answer = a
  <2>1. PICK w : w = [ws[h] EXCEPT !.answer = a]
    OBVIOUS
  <2>2. ws[h] \in Writes /\ a \in {"none", "ok", "denied", "failed"}
    OBVIOUS
  <2>3. /\ w \in Writes /\ w.loop = ws[h].loop /\ w.key = ws[h].key /\ w.data = ws[h].data /\ w.as = ws[h].as
        /\ w.answer = a
    BY <2>1, <2>2 DEF Writes
  <2>4. nw = [ws EXCEPT ![h] = w]
    BY <1>3, <1>4, <2>1
  <2>5. nw \in Seq(Writes) /\ DOMAIN nw = DOMAIN ws /\ nw[h] = w /\ \A i \in DOMAIN ws : i # h => nw[i] = ws[i]
    BY <2>3, <2>4
  <2>6. QED
    BY <2>3, <2>5
<1>6. PICK ps : ps = promised'
  OBVIOUS
<1>7. /\ listServer' \in Lists /\ listCounts' \in [edits : Nat, others : Nat, breaks : Nat]
      /\ listCounts'.edits = listCounts.edits
      /\ ps \in Promises /\ DOMAIN ps = DOMAIN promised
      /\ \A n \in DOMAIN ps : /\ ps[n].row = promised[n].row /\ ps[n].edit = promised[n].edit
                              /\ promised[n].delivered => ps[n].delivered
      /\ a = "ok" => \A n \in DOMAIN ps : n \in DOMAIN ws[h].data /\ ws[h].data[n].edit = promised[n].edit
                                            => ps[n].delivered
  <2>1. promised \in Promises /\ listServer \in Lists /\ listCounts \in [edits : Nat, others : Nat, breaks : Nat]
    BY <1>1 DEF ListTyped
  <2>2. CASE a = "ok"
    <3>1. PICK w : w = ws[h]
      OBVIOUS
    <3>2. Accepted(w)
      BY <1>3, <2>2, <3>1
    <3>3. w.data \in Patches
      BY <3>1, MembersIn
    <3>4. listServer' \in Lists /\ listCounts' = listCounts
      BY <2>1, <3>2, <3>3, OverlayIn DEF Accepted
    <3>5. ps = [n \in DOMAIN promised |->
                  IF n \in DOMAIN w.data /\ w.data[n].edit = promised[n].edit
                  THEN [promised[n] EXCEPT !.delivered = TRUE] ELSE promised[n]]
      BY <1>6, <3>2 DEF Accepted
    <3>6. PICK S \in SUBSET Rows : promised \in [S -> [row : RowValues, edit : Nat, delivered : BOOLEAN]]
      BY <2>1 DEF Promises
    <3>7. \A p \in [row : RowValues, edit : Nat, delivered : BOOLEAN] :
            /\ [p EXCEPT !.delivered = TRUE] \in [row : RowValues, edit : Nat, delivered : BOOLEAN]
            /\ [p EXCEPT !.delivered = TRUE].row = p.row /\ [p EXCEPT !.delivered = TRUE].edit = p.edit
            /\ [p EXCEPT !.delivered = TRUE].delivered
      OBVIOUS
    <3>8. ASSUME NEW n \in S
          PROVE  /\ ps[n] \in [row : RowValues, edit : Nat, delivered : BOOLEAN]
                 /\ ps[n].row = promised[n].row /\ ps[n].edit = promised[n].edit
                 /\ promised[n].delivered => ps[n].delivered
                 /\ n \in DOMAIN w.data /\ w.data[n].edit = promised[n].edit => ps[n].delivered
      <4>1. promised[n] \in [row : RowValues, edit : Nat, delivered : BOOLEAN] /\ n \in DOMAIN promised
        BY <3>6
      <4>2. CASE n \in DOMAIN w.data /\ w.data[n].edit = promised[n].edit
        <5>1. ps[n] = [promised[n] EXCEPT !.delivered = TRUE]
          BY <3>5, <4>1, <4>2
        <5>2. QED
          BY <3>7, <4>1, <5>1
      <4>3. CASE ~(n \in DOMAIN w.data /\ w.data[n].edit = promised[n].edit)
        <5>1. ps[n] = promised[n]
          BY <3>5, <4>1, <4>3
        <5>2. QED
          BY <4>1, <4>3, <5>1
      <4>4. QED
        BY <4>2, <4>3
    <3>9. ps \in [S -> [row : RowValues, edit : Nat, delivered : BOOLEAN]]
      BY <3>5, <3>6, <3>8
    <3>10. ps \in Promises
      BY <3>9 DEF Promises
    <3>11. QED
      BY <2>1, <3>1, <3>4, <3>6, <3>8, <3>9, <3>10
  <2>3. CASE a # "ok"
    <3>1. listServer' = listServer /\ ps = promised
      BY <1>3, <1>6, <2>3 DEF Denied, Failed
    <3>2. listCounts' = listCounts \/ listCounts' = [listCounts EXCEPT !.breaks = @ + 1]
      BY <1>3, <2>3 DEF Denied, Failed, Breaks
    <3>3. listCounts' \in [edits : Nat, others : Nat, breaks : Nat] /\ listCounts'.edits = listCounts.edits
      BY <2>1, <3>2
    <3>4. QED
      BY <2>1, <2>3, <3>1, <3>3
  <2>4. QED
    BY <2>2, <2>3
<1>8. ListTyped'
  BY <1>1, <1>4, <1>5, <1>6, <1>7 DEF ListTyped
<1>9. StoreFits' /\ RowsFit' /\ CurrentFits'
  BY <1>1 DEF StoreFits, RowsFit, CurrentFits
<1>10. FlightFits(flushes', nw)
  <2>1. FlightFits(flushes', ws)
    BY <1>1, <1>2
  <2>2. ASSUME NEW i \in DOMAIN nw
        PROVE  /\ flushes'[nw[i].loop] # <<>>
               /\ flushes'[nw[i].loop][1].key = nw[i].key /\ flushes'[nw[i].loop][1].data = nw[i].data
               /\ nw[i].key = "list" => nw[i].as = Owner
    BY <1>5, <2>1 DEF FlightFits
  <2>3. ASSUME NEW i \in DOMAIN nw, NEW j \in DOMAIN nw, nw[i].loop = nw[j].loop PROVE i = j
    BY <1>5, <2>1, <2>3 DEF FlightFits
  <2>4. ASSUME NEW l \in Loops, flushes'[l] # <<>> PROVE \E i \in DOMAIN nw : nw[i].loop = l
    BY <1>5, <2>1, <2>4 DEF FlightFits
  <2>5. QED
    BY <2>2, <2>3, <2>4 DEF FlightFits
<1>11. NumbersFit'
  <2>1. NumbersAt(EditNumber, promised, stored.queue, flushes, ws)
    BY <1>1, <1>2 DEF NumbersFit
  <2>2. Below(ps, EditNumber)
    BY <1>7, <2>1 DEF NumbersAt, Below
  <2>3. \A i \in DOMAIN nw : Below(nw[i].data, EditNumber)
    BY <1>5, <2>1 DEF NumbersAt
  <2>4. EditNumber' = EditNumber
    BY <1>1, <1>7 DEF EditNumber
  <2>5. QED
    BY <1>1, <1>4, <1>6, <2>1, <2>2, <2>3, <2>4 DEF NumbersFit, NumbersAt
<1>12. LandedFits'
  <2>1. ASSUME NEW i \in DOMAIN nw, nw[i].answer = "ok", NEW n \in DOMAIN nw[i].data \cap DOMAIN ps,
               ps[n].edit = nw[i].data[n].edit
        PROVE  ps[n].delivered
    <3>1. nw[i].data = ws[i].data /\ ps[n].edit = promised[n].edit /\ n \in DOMAIN promised
      BY <1>5, <1>7
    <3>2. CASE i = h
      BY <1>5, <1>7, <2>1, <3>1, <3>2
    <3>3. CASE i # h
      <4>1. ws[i].answer = "ok"
        BY <1>5, <2>1, <3>3
      <4>2. promised[n].delivered
        BY <1>1, <1>2, <1>5, <2>1, <3>1, <4>1 DEF LandedFits
      <4>3. QED
        BY <1>7, <4>2
    <3>4. QED
      BY <3>2, <3>3
  <2>2. QED
    BY <1>4, <1>6, <2>1 DEF LandedFits
<1>13. PromisesKept'
  <2>1. ASSUME NEW n \in DOMAIN ps, ~ps[n].delivered
        PROVE  /\ stored.owner = Owner /\ stored.list[n] = ps[n].row
               /\ n \in DOMAIN Patch(stored.queue)
               /\ Patch(stored.queue)[n] = [row |-> ps[n].row, edit |-> ps[n].edit]
    BY <1>1, <1>7, <2>1 DEF PromisesKept
  <2>2. QED
    BY <1>1, <1>6, <2>1 DEF PromisesKept
<1>14. QED
  BY <1>4, <1>8, <1>9, <1>10, <1>11, <1>12, <1>13 DEF ListInv

LEMMA OtherFits ==
  ASSUME ListInv, NEW r \in Rows, OtherDeviceWrites(r)
  PROVE  ListInv'
<1>1. /\ ListTyped /\ StoreFits /\ NumbersFit /\ RowsFit /\ PromisesKept
      /\ FlightFits(flushes, wire) /\ CurrentFits /\ LandedFits
      /\ UNCHANGED <<session, stored, listQueue, edits, flushes, wire, edited>>
      /\ listCounts' = [listCounts EXCEPT !.others = @ + 1]
  BY DEF ListInv, OtherDeviceWrites, pageVars, flushVars
<1>2. promised \in Promises /\ listServer \in Lists /\ listCounts \in [edits : Nat, others : Nat, breaks : Nat]
  BY <1>1 DEF ListTyped
<1>3. listServer' \in Lists
  <2>1. PICK v \in Wishes(listServer[r]) : listServer' = [listServer EXCEPT ![r] = v]
    BY DEF OtherDeviceWrites
  <2>2. v \in RowValues
    BY <1>2, WishesIn DEF Lists
  <2>3. QED
    BY <1>2, <2>1, <2>2 DEF Lists
<1>4. PICK ps : ps = promised'
  OBVIOUS
<1>5. ps \in Promises /\ DOMAIN ps \subseteq DOMAIN promised /\ \A n \in DOMAIN ps : ps[n] = promised[n]
  <2>1. CASE r \in DOMAIN promised /\ promised[r].delivered
    <3>1. ps = [m \in DOMAIN promised \ {r} |-> promised[m]]
      BY <1>4, <2>1 DEF OtherDeviceWrites
    <3>2. PICK S \in SUBSET Rows : promised \in [S -> [row : RowValues, edit : Nat, delivered : BOOLEAN]]
      BY <1>2 DEF Promises
    <3>3. PICK T \in SUBSET Rows : T = S \ {r}
      OBVIOUS
    <3>4. ps \in [T -> [row : RowValues, edit : Nat, delivered : BOOLEAN]]
      BY <3>1, <3>2, <3>3
    <3>5. ps \in Promises
      BY <3>4 DEF Promises
    <3>6. QED
      BY <3>1, <3>5
  <2>2. CASE ~(r \in DOMAIN promised /\ promised[r].delivered)
    <3>1. ps = promised
      BY <1>4, <2>2 DEF OtherDeviceWrites
    <3>2. QED
      BY <1>2, <3>1
  <2>3. QED
    BY <2>1, <2>2
<1>6. listCounts' \in [edits : Nat, others : Nat, breaks : Nat] /\ listCounts'.edits = listCounts.edits
  BY <1>1, <1>2
<1>7. ListTyped'
  BY <1>1, <1>3, <1>4, <1>5, <1>6 DEF ListTyped
<1>8. StoreFits' /\ RowsFit' /\ CurrentFits' /\ FlightFits(flushes', wire')
  BY <1>1 DEF StoreFits, RowsFit, CurrentFits
<1>9. NumbersFit'
  <2>1. Below(ps, EditNumber)
    BY <1>1, <1>5 DEF NumbersFit, NumbersAt, Below
  <2>2. EditNumber' = EditNumber
    BY <1>1, <1>6 DEF EditNumber
  <2>3. QED
    BY <1>1, <1>4, <2>1, <2>2 DEF NumbersFit, NumbersAt
<1>10. LandedFits' /\ PromisesKept'
  BY <1>1, <1>4, <1>5 DEF LandedFits, PromisesKept
<1>11. QED
  BY <1>7, <1>8, <1>9, <1>10 DEF ListInv

LEMMA ListStart ==
  ASSUME ListInit
  PROVE  ListInv
<1>1. /\ listServer = [n \in Rows |-> [q \in Qualifiers |-> FALSE]]
      /\ session = NoUser /\ stored = [owner |-> NoUser, list |-> EmptyList, queue |-> <<>>]
      /\ listQueue = <<>> /\ edits = <<>> /\ flushes = [l \in Loops |-> <<>>] /\ wire = <<>>
      /\ promised = <<>> /\ edited = {} /\ listCounts = [edits |-> 0, others |-> 0, breaks |-> 0]
  BY DEF ListInit
<1>2. EmptyList \in Lists /\ listServer \in Lists
  BY <1>1 DEF EmptyList, Lists, RowValues
<1>3. stored \in Stores /\ stored.queue = <<>>
  BY <1>1, <1>2, NoPatch DEF Stores
<1>4. flushes \in [Loops -> Seq(Takens)] /\ \A l \in Loops : flushes[l] = <<>> /\ DOMAIN flushes[l] = {}
  BY <1>1
<1>5. edits \in Seq(Calls) /\ wire \in Seq(Writes) /\ Len(edits) = 0 /\ DOMAIN wire = {} /\ DOMAIN edits = {}
  BY <1>1
<1>6. listCounts \in [edits : Nat, others : Nat, breaks : Nat] /\ listCounts.edits = 0
  BY <1>1
<1>7. ListTyped
  BY <1>1, <1>2, <1>3, <1>4, <1>5, <1>6, NoPatch DEF ListTyped
<1>8. DOMAIN stored.queue = {} /\ DOMAIN promised = {}
  BY <1>1, <1>3, NoPatch
<1>9. StoreFits /\ RowsFit /\ PromisesKept /\ LandedFits /\ CurrentFits /\ FlightFits(flushes, wire)
  BY <1>1, <1>3, <1>4, <1>5, <1>8, NoPatch
     DEF StoreFits, RowsFit, PromisesKept, LandedFits, CurrentFits, FlightFits
<1>10. NumbersFit
  BY <1>1, <1>3, <1>4, <1>5, <1>8, NoPatch DEF NumbersFit, NumbersAt
<1>11. QED
  BY <1>7, <1>9, <1>10 DEF ListInv

LEMMA ListStutters ==
  ASSUME ListInv, UNCHANGED listVars
  PROVE  ListInv'
<1>1. UNCHANGED <<listServer, session, stored, listQueue, edits, flushes, wire, promised, edited, listCounts>>
  BY DEF listVars, pageVars, flushVars, ghostVars
<1>2. ListTyped' /\ StoreFits' /\ RowsFit'
  BY <1>1 DEF ListInv, ListTyped, StoreFits, RowsFit
<1>3. NumbersFit'
  BY <1>1 DEF ListInv, NumbersFit, EditNumber
<1>4. FlightFits(flushes', wire') /\ CurrentFits' /\ LandedFits' /\ PromisesKept'
  BY <1>1 DEF ListInv, CurrentFits, LandedFits, PromisesKept
<1>5. QED
  BY <1>2, <1>3, <1>4 DEF ListInv

LEMMA ListStep ==
  ASSUME ListInv, [ListNext]_listVars
  PROVE  ListInv'
<1>1. CASE SessionStep
  BY <1>1, ActivateFits, SuspendFits, LogoutFits, ReloadFits, SnapshotFits DEF SessionStep
<1>2. CASE EditStep
  BY <1>2, WriteFits, RefuseFits, AcceptFits DEF EditStep
<1>3. CASE \E l \in Loops : FlushStep(l)
  BY <1>3, StartFits, AcknowledgedFits, DroppedFits, FailedFits DEF FlushStep
<1>4. CASE DatabaseAnswers \/ \E n \in Rows : OtherDeviceWrites(n)
  BY <1>4, AnsweredFits, OtherFits
<1>5. CASE UNCHANGED listVars
  BY <1>5, ListStutters
<1>6. QED
  BY <1>1, <1>2, <1>3, <1>4, <1>5 DEF ListNext

LEMMA KeysCounted ==
  ASSUME NEW q \in Seq(Entries), OnePerKey(q)
  PROVE  Len(q) = Cardinality({q[i].key : i \in DOMAIN q})
<1>1. DOMAIN q = 1..Len(q) /\ Len(q) \in Nat
  OBVIOUS
<1>2. \A i \in DOMAIN q : q[i].key \in {"list", "seen"}
  BY MembersIn DEF Keys
<1>3. Len(q) <= 2
  <2>1. SUFFICES ASSUME Len(q) > 2 PROVE FALSE
    BY <1>1
  <2>2. 1 \in DOMAIN q /\ 2 \in DOMAIN q /\ 3 \in DOMAIN q
    BY <1>1, <2>1
  <2>3. q[1].key # q[2].key /\ q[1].key # q[3].key /\ q[2].key # q[3].key
    BY <2>2 DEF OnePerKey
  <2>4. QED
    BY <1>2, <2>2, <2>3
<1>4. CASE Len(q) = 0
  <2>1. {q[i].key : i \in DOMAIN q} = {}
    BY <1>1, <1>4
  <2>2. QED
    BY <1>4, <2>1, FS_EmptySet
<1>5. CASE Len(q) = 1
  <2>1. \A i : i \in DOMAIN q <=> i = 1
    BY <1>1, <1>5
  <2>2. {q[i].key : i \in DOMAIN q} = {q[1].key}
    BY <2>1
  <2>3. QED
    BY <1>5, <2>2, FS_Singleton
<1>6. CASE Len(q) = 2
  <2>1. \A i : i \in DOMAIN q <=> i = 1 \/ i = 2
    BY <1>1, <1>6
  <2>2. q[1].key # q[2].key
    BY <2>1 DEF OnePerKey
  <2>3. {q[i].key : i \in DOMAIN q} = {q[1].key} \cup {q[2].key}
    BY <2>1
  <2>4. IsFiniteSet({q[1].key}) /\ Cardinality({q[1].key}) = 1
    BY FS_Singleton
  <2>5. Cardinality({q[1].key} \cup {q[2].key}) = 2
    <3>1. PICK S, x : S = {q[1].key} /\ x = q[2].key
      OBVIOUS
    <3>2. IsFiniteSet(S) /\ Cardinality(S) = 1 /\ x \notin S
      BY <2>2, <2>4, <3>1
    <3>3. Cardinality(S \cup {x}) = Cardinality(S) + 1
      BY <3>2, FS_AddElement
    <3>4. QED
      BY <3>1, <3>2, <3>3
  <2>6. QED
    BY <1>6, <2>3, <2>5
<1>7. QED
  BY <1>1, <1>3, <1>4, <1>5, <1>6

LEMMA ListMeans ==
  ASSUME ListInv
  PROVE  EditsArePreserved
<1>1. /\ ListTyped /\ StoreFits /\ RowsFit /\ PromisesKept /\ FlightFits(flushes, wire)
  BY DEF ListInv
<1>2. stored \in Stores /\ stored.list \in Lists /\ stored.queue \in Seq(Entries) /\ wire \in Seq(Writes)
  BY <1>1 DEF ListTyped, Stores
<1>3. Len(stored.queue) = Cardinality({stored.queue[i].key : i \in DOMAIN stored.queue})
  BY <1>1, <1>2, KeysCounted DEF StoreFits
<1>4. \A l \in Loops : flushes[l] # <<>> <=> \E i \in DOMAIN wire : wire[i].loop = l
  BY <1>1 DEF FlightFits
<1>5. ListTypeOK
  BY <1>1, <1>2, <1>3, <1>4 DEF ListTypeOK, ListTyped, StoreFits
<1>6. EditsSurvive /\ EditsAreShown
  BY <1>1 DEF PromisesKept, EditsSurvive, EditsAreShown
<1>7. SentByOwner /\ OnlyEditedRows
  BY <1>1 DEF FlightFits, SentByOwner, RowsFit, OnlyEditedRows
<1>8. QED
  BY <1>5, <1>6, <1>7 DEF EditsArePreserved

\* An accepted edit is delivered or still in its owner's stored queue and in what the page shows,
\* entries are sent by their owner only, and carry no row that the user did not edit: whatever
\* flushes overlap, and whenever a session ends or the page is reloaded.
THEOREM EditsStay == ListSpec => []EditsArePreserved
<1>1. ListInit => ListInv
  BY ListStart
<1>2. ListInv /\ [ListNext]_listVars => ListInv'
  BY ListStep
<1>3. ListInv => EditsArePreserved
  BY ListMeans
<1>4. QED
  BY <1>1, <1>2, <1>3, PTL DEF ListSpec

----------------------------------------------------------------------------
(***************************************************************************)
(* The public share.  While a pass is at work, or a write on its way, the  *)
(* marker is set; a pass whose authority lasts has read the accepted rows; *)
(* and the marker is removed only over a share that shows them.            *)
(***************************************************************************)
Phases    == {"off", "starting", "initializing", "ready"}
Listeners == {"closed", "listening", "healthy"}
Steps     == {"none", "mark", "project", "begin", "write", "proof", "sent", "read", "clear"}
Passes    == [pc : Steps, auth : BOOLEAN, content : {0, 1}]
PubWrites == [runtime : Nat, content : {0, 1}, uncertain : BOOLEAN, awaited : BOOLEAN]
Pages ==
  [ runtime : Nat, phase : Phases, listener : Listeners, heard : Nat, dispatched : Nat, events : Seq(Nat),
    applying : {"none", "marks", "ends"}, accepted : Nat, key : {0, 1, 2}, pending : BOOLEAN,
    requested : BOOLEAN, timer : BOOLEAN, pass : Passes, forgotten : BOOLEAN ]

\* A pass has marked its debt, and has read what it will write.
Marked    == {"project", "begin", "write", "proof", "sent", "read", "clear"}
Projected == Marked \ {"project"}

PubTyped(v, s, m, p, ws) ==
  /\ v \in Nat /\ s \in {0, 1} /\ m \in BOOLEAN /\ p \in Pages
  /\ ws \in Seq(PubWrites) /\ Len(ws) <= MaxPublicWrites

HeardFits(v, p) ==
  /\ p.accepted <= v /\ p.heard <= v
  /\ \A i \in DOMAIN p.events : p.events[i] <= v

\* The public key is that of the accepted rows, and known before a pass may begin.
KeyFits(p) ==
  /\ p.key # Unknown => p.key = Content(p.accepted)
  /\ p.phase \in {"initializing", "ready"} => p.key # Unknown
  /\ p.applying # "none" => p.events # <<>> /\ p.key # Unknown

\* The authority of a pass lasts while the listener's does, and so do the rows it has read.
AuthorityFits(p) ==
  /\ ListenerHealthy(p) => p.events = <<>>
  /\ p.pass.auth => ListenerHealthy(p)
  /\ p.pass.auth /\ p.pass.pc \in Projected => p.pass.content = Content(p.accepted)

\* While a pass is at work, or a write on its way, the marker is set.
PassFits(m, p, ws) ==
  /\ p.pass.pc \in Marked => m
  /\ ws # <<>> => m
  /\ ~Ready(p) => p.pass = NoPass
  /\ p.pass.pc = "none" => p.pass = NoPass
  /\ p.pass # NoPass => p.pending
  /\ p.pass.pc = "proof" => MaxPublicWrites > 0

\* The pass waits for one write, its own.
Awaits(runtime, pc, ws) ==
  /\ \A i \in DOMAIN ws : ws[i].awaited => ~ws[i].uncertain /\ ws[i].runtime = runtime /\ pc = "sent"
  /\ \A i, j \in DOMAIN ws : ws[i].awaited /\ ws[j].awaited => i = j
  /\ pc = "sent" => \E i \in DOMAIN ws : ws[i].awaited

AwaitFits(p, ws) == Awaits(p.runtime, p.pass.pc, ws)

\* The marker is removed over a share that shows the accepted rows.
ClearFits(s, p, ws) ==
  p.pass.pc = "clear" =>
    /\ ws = <<>>
    /\ ~p.forgotten => s = Content(p.accepted) /\ ListenerHealthy(p)

\* What is owed is pending in the page, timed when it can be done, and marked.
DebtFits(s, m, p) ==
  /\ p.timer => ListenerHealthy(p) /\ Ready(p) /\ p.pending /\ p.pass = NoPass
  /\ p.pending /\ ListenerHealthy(p) /\ Ready(p) /\ p.pass = NoPass => p.timer
  /\ Ready(p) /\ (m \/ p.applying = "marks") /\ ~p.forgotten => p.pending
  /\ Ready(p) /\ s # Content(p.accepted) /\ ~p.forgotten => m \/ p.pass.pc = "mark" \/ p.applying = "marks"

PubFits(v, s, m, p, ws) ==
  /\ PubTyped(v, s, m, p, ws)
  /\ HeardFits(v, p) /\ KeyFits(p) /\ AuthorityFits(p)
  /\ PassFits(m, p, ws) /\ AwaitFits(p, ws) /\ ClearFits(s, p, ws) /\ DebtFits(s, m, p)

PubInv == PubFits(version, share, marker, page, publicWrites)

LEMMA IsNoPass ==
  ASSUME NEW r \in Passes, r.pc = "none", ~r.auth, r.content = 0
  PROVE  r = NoPass
BY DEF Passes, NoPass, Steps

LEMMA Parity ==
  /\ \A n \in Nat : Content(n) \in {0, 1} /\ Content(n) # Unknown
  /\ NoPass \in Passes /\ NoPass.pc = "none" /\ ~NoPass.auth /\ NoPass.content = 0
BY DEF Content, Unknown, NoPass, Passes, Steps

\* Two pages that agree on what they have heard and accepted.
SameRows(p, q) ==
  /\ q.runtime = p.runtime /\ q.phase = p.phase /\ q.heard = p.heard
  /\ q.dispatched = p.dispatched /\ q.events = p.events /\ q.applying = p.applying
  /\ q.accepted = p.accepted /\ q.key = p.key

\* A page that begins a pass.
Begun(p, q) ==
  /\ q \in Pages /\ SameRows(p, q) /\ q.listener = p.listener
  /\ q.pending /\ ~q.requested /\ ~q.timer /\ ~q.forgotten
  /\ q.pass.pc = "mark" /\ q.pass.auth = ListenerHealthy(p)

LEMMA BeginIs ==
  ASSUME NEW p \in Pages
  PROVE  Begun(p, BeginPass(p))
<1>1. PICK q : q = BeginPass(p)
  OBVIOUS
<1>2. PICK r : r = [pc |-> "mark", auth |-> ListenerHealthy(p), content |-> 0]
  OBVIOUS
<1>3. r \in Passes /\ r.pc = "mark" /\ r.auth = ListenerHealthy(p)
  BY <1>2 DEF Passes, Steps, ListenerHealthy
<1>4. q = [p EXCEPT !.requested = FALSE, !.pending = TRUE, !.timer = FALSE, !.forgotten = FALSE, !.pass = r]
  BY <1>1, <1>2 DEF BeginPass
<1>5. q \in Pages
  BY <1>3, <1>4 DEF Pages
<1>6. SameRows(p, q) /\ q.listener = p.listener
  BY <1>4 DEF Pages, SameRows
<1>7. q.pending /\ ~q.requested /\ ~q.timer /\ ~q.forgotten /\ q.pass = r
  BY <1>4 DEF Pages
<1>8. QED
  BY <1>1, <1>3, <1>5, <1>6, <1>7 DEF Begun

\* A page that times its pending pass, if it can be done.
Timed(p, q) ==
  /\ q \in Pages /\ SameRows(p, q) /\ q.listener = p.listener
  /\ q.pending = p.pending /\ q.requested = p.requested /\ q.forgotten = p.forgotten /\ q.pass = p.pass
  /\ q.timer <=> p.pass = NoPass /\ p.pending /\ ListenerHealthy(p) /\ Ready(p)

LEMMA ScheduleIs ==
  ASSUME NEW p \in Pages
  PROVE  Timed(p, Schedule(p))
<1>1. PICK q : q = Schedule(p)
  OBVIOUS
<1>2. PICK t : t = (p.pass = NoPass /\ p.pending /\ ListenerHealthy(p) /\ Ready(p))
  OBVIOUS
<1>3. t \in BOOLEAN
  BY <1>2
<1>4. q = [p EXCEPT !.timer = t]
  BY <1>1, <1>2 DEF Schedule
<1>5. q \in Pages
  BY <1>3, <1>4 DEF Pages
<1>6. SameRows(p, q) /\ q.listener = p.listener
  BY <1>4 DEF Pages, SameRows
<1>7. q.pending = p.pending /\ q.requested = p.requested /\ q.forgotten = p.forgotten /\ q.pass = p.pass /\ q.timer = t
  BY <1>4 DEF Pages
<1>8. QED
  BY <1>1, <1>2, <1>5, <1>6, <1>7 DEF Timed

\* A page whose listener works on a new event.
Closed(p, q) ==
  /\ q \in Pages /\ SameRows(p, q) /\ q.listener = "listening"
  /\ q.pending = p.pending /\ q.requested = p.requested /\ q.forgotten = p.forgotten /\ ~q.timer
  /\ q.pass.pc = p.pass.pc /\ ~q.pass.auth /\ q.pass.content = p.pass.content
  /\ p.pass = NoPass => q.pass = NoPass

LEMMA CloseIs ==
  ASSUME NEW p \in Pages
  PROVE  Closed(p, CloseAuthority(p))
<1>1. PICK q : q = CloseAuthority(p)
  OBVIOUS
<1>2. PICK r : r = [p.pass EXCEPT !.auth = FALSE]
  OBVIOUS
<1>3. p.pass \in Passes
  BY DEF Pages
<1>4. r \in Passes /\ r.pc = p.pass.pc /\ ~r.auth /\ r.content = p.pass.content
  BY <1>2, <1>3 DEF Passes
<1>5. q = [p EXCEPT !.listener = "listening", !.timer = FALSE, !.pass = r]
  BY <1>1, <1>2 DEF CloseAuthority
<1>6. q \in Pages
  BY <1>4, <1>5 DEF Pages, Listeners
<1>7. SameRows(p, q) /\ q.listener = "listening"
  BY <1>5 DEF Pages, SameRows
<1>8. q.pending = p.pending /\ q.requested = p.requested /\ q.forgotten = p.forgotten /\ ~q.timer /\ q.pass = r
  BY <1>5 DEF Pages
<1>9. p.pass = NoPass => r = NoPass
  BY <1>4, IsNoPass, Parity
<1>10. QED
  BY <1>1, <1>4, <1>6, <1>7, <1>8, <1>9 DEF Closed

\* A page whose pass has ended, and no other has begun.
Rests(p, owed, q) ==
  /\ q \in Pages /\ SameRows(p, q) /\ q.listener = p.listener
  /\ q.pending = owed /\ q.requested = p.requested /\ q.forgotten = p.forgotten /\ q.pass = NoPass
  /\ q.timer <=> owed /\ ListenerHealthy(p) /\ Ready(p)

LEMMA AfterPassIs ==
  ASSUME NEW p \in Pages, NEW owed \in BOOLEAN
  PROVE  \/ Ready(p) /\ Begun(p, AfterPass(p, owed))
         \/ Rests(p, owed, AfterPass(p, owed))
<1>1. CASE p.requested /\ ListenerHealthy(p) /\ Ready(p)
  BY <1>1, BeginIs DEF AfterPass
<1>2. CASE ~(p.requested /\ ListenerHealthy(p) /\ Ready(p))
  <2>1. PICK a : a = [p EXCEPT !.pass = NoPass, !.pending = owed]
    OBVIOUS
  <2>2. a \in Pages
    BY <2>1, Parity DEF Pages
  <2>3. SameRows(p, a) /\ a.listener = p.listener
    BY <2>1 DEF Pages, SameRows
  <2>4. a.pending = owed /\ a.requested = p.requested /\ a.forgotten = p.forgotten /\ a.pass = NoPass
    BY <2>1 DEF Pages
  <2>5. AfterPass(p, owed) = Schedule(a)
    BY <1>2, <2>1 DEF AfterPass
  <2>6. Timed(a, Schedule(a))
    BY <2>2, ScheduleIs
  <2>7. QED
    BY <2>3, <2>4, <2>5, <2>6 DEF Timed, Rests, SameRows, ListenerHealthy, Ready
<1>3. QED
  BY <1>1, <1>2

\* A page that is asked for another pass while one is at work.
Asked(p, q) ==
  /\ q \in Pages /\ SameRows(p, q) /\ q.listener = p.listener
  /\ q.pending = p.pending /\ q.requested /\ q.forgotten = p.forgotten /\ q.pass = p.pass /\ q.timer = p.timer

LEMMA PublishIs ==
  ASSUME NEW p \in Pages
  PROVE  \/ p.pass # NoPass /\ Asked(p, Publish(p))
         \/ p.pass = NoPass /\ Ready(p) /\ Begun(p, Publish(p))
         \/ p.pass = NoPass /\ ~Ready(p) /\ Publish(p) = p
<1>1. CASE p.pass # NoPass
  <2>1. PICK q : q = [p EXCEPT !.requested = TRUE]
    OBVIOUS
  <2>2. q \in Pages
    BY <2>1 DEF Pages
  <2>3. SameRows(p, q) /\ q.listener = p.listener
    BY <2>1 DEF Pages, SameRows
  <2>4. q.pending = p.pending /\ q.requested /\ q.forgotten = p.forgotten /\ q.pass = p.pass /\ q.timer = p.timer
    BY <2>1 DEF Pages
  <2>5. Publish(p) = q
    BY <1>1, <2>1 DEF Publish
  <2>6. QED
    BY <1>1, <2>2, <2>3, <2>4, <2>5 DEF Asked
<1>2. CASE p.pass = NoPass
  BY <1>2, BeginIs DEF Publish
<1>3. QED
  BY <1>1, <1>2

NoneAwaited(ws) == \A i \in DOMAIN ws : ~ws[i].awaited

\* A pass that begins, whatever is on its way.
LEMMA BegunFits ==
  ASSUME NEW v, NEW s, NEW m, NEW p, NEW ws, NEW q,
         PubTyped(v, s, m, p, ws), HeardFits(v, p), KeyFits(p), ListenerHealthy(p) => p.events = <<>>,
         Ready(p), ws # <<>> => m, NoneAwaited(ws), Begun(p, q)
  PROVE  PubFits(v, s, m, q, ws)
<1>1. q \in Pages /\ SameRows(p, q) /\ q.listener = p.listener /\ q.pending /\ ~q.timer /\ ~q.forgotten
      /\ q.pass.pc = "mark" /\ q.pass.auth = ListenerHealthy(p)
  BY DEF Begun
<1>2. PubTyped(v, s, m, q, ws)
  BY <1>1 DEF PubTyped
<1>3. HeardFits(v, q) /\ KeyFits(q)
  BY <1>1 DEF HeardFits, KeyFits, SameRows
<1>4. AuthorityFits(q)
  BY <1>1 DEF AuthorityFits, SameRows, ListenerHealthy, Projected, Marked
<1>5. q.pass # NoPass
  BY <1>1, Parity
<1>6. PassFits(m, q, ws)
  BY <1>1, <1>5 DEF PassFits, SameRows, Ready, Marked
<1>7. AwaitFits(q, ws) /\ ClearFits(s, q, ws)
  BY <1>1 DEF AwaitFits, Awaits, ClearFits, NoneAwaited
<1>8. DebtFits(s, m, q)
  BY <1>1, <1>5 DEF DebtFits
<1>9. QED
  BY <1>2, <1>3, <1>4, <1>6, <1>7, <1>8 DEF PubFits

\* A page at rest, or that is asked for another pass, awaits nothing new.
LEMMA PublishFits ==
  ASSUME NEW v, NEW s, NEW m, NEW p, NEW ws, PubFits(v, s, m, p, ws)
  PROVE  PubFits(v, s, m, Publish(p), ws)
<1>1. PICK q : q = Publish(p)
  OBVIOUS
<1>2. /\ PubTyped(v, s, m, p, ws) /\ HeardFits(v, p) /\ KeyFits(p) /\ AuthorityFits(p)
      /\ PassFits(m, p, ws) /\ AwaitFits(p, ws) /\ ClearFits(s, p, ws) /\ DebtFits(s, m, p)
  BY DEF PubFits
<1>3. p \in Pages
  BY <1>2 DEF PubTyped
<1>4. CASE p.pass # NoPass /\ Asked(p, q)
  <2>1. q \in Pages /\ SameRows(p, q) /\ q.listener = p.listener /\ q.pending = p.pending
        /\ q.forgotten = p.forgotten /\ q.pass = p.pass /\ q.timer = p.timer
    BY <1>4 DEF Asked
  <2>2. PubTyped(v, s, m, q, ws)
    BY <1>2, <2>1 DEF PubTyped
  <2>3. HeardFits(v, q) /\ KeyFits(q)
    BY <1>2, <2>1 DEF HeardFits, KeyFits, SameRows
  <2>4. AuthorityFits(q) /\ PassFits(m, q, ws)
    BY <1>2, <2>1 DEF AuthorityFits, PassFits, SameRows, ListenerHealthy, Ready
  <2>5. AwaitFits(q, ws) /\ ClearFits(s, q, ws)
    BY <1>2, <2>1 DEF AwaitFits, ClearFits, SameRows, ListenerHealthy
  <2>6. DebtFits(s, m, q)
    BY <1>2, <2>1 DEF DebtFits, SameRows, ListenerHealthy, Ready
  <2>7. QED
    BY <1>1, <2>2, <2>3, <2>4, <2>5, <2>6 DEF PubFits
<1>5. CASE p.pass = NoPass /\ Ready(p) /\ Begun(p, q)
  <2>1. NoneAwaited(ws)
    BY <1>2, <1>5, Parity DEF AwaitFits, Awaits, NoneAwaited
  <2>2. (ws # <<>> => m) /\ (ListenerHealthy(p) => p.events = <<>>)
    BY <1>2 DEF PassFits, AuthorityFits
  <2>3. QED
    BY <1>1, <1>2, <1>5, <2>1, <2>2, BegunFits
<1>6. CASE q = p
  BY <1>1, <1>6
<1>7. QED
  BY <1>1, <1>3, <1>4, <1>5, <1>6, PublishIs

\* A pass fails and is owed, or ends with the removal of the marker.
LEMMA EndFits ==
  ASSUME NEW v, NEW s, NEW m, NEW p, NEW ws, NEW owed \in BOOLEAN, NEW nm \in BOOLEAN, NEW nws,
         PubFits(v, s, m, p, ws), p.pass # NoPass,
         nws \in Seq(PubWrites), Len(nws) <= MaxPublicWrites, NoneAwaited(nws),
         \/ owed /\ nm
         \/ ~owed /\ ~nm /\ p.pass.pc = "clear" /\ nws = <<>>
  PROVE  PubFits(v, s, nm, AfterPass(p, owed), nws)
<1>1. PICK q : q = AfterPass(p, owed)
  OBVIOUS
<1>2. /\ PubTyped(v, s, m, p, ws) /\ HeardFits(v, p) /\ KeyFits(p) /\ AuthorityFits(p)
      /\ PassFits(m, p, ws) /\ ClearFits(s, p, ws)
  BY DEF PubFits
<1>3. p \in Pages
  BY <1>2 DEF PubTyped
<1>4. Ready(p)
  BY <1>2 DEF PassFits
<1>5. PubTyped(v, s, nm, p, nws)
  BY <1>2 DEF PubTyped
<1>6. nws # <<>> => nm
  OBVIOUS
<1>7. CASE Begun(p, q)
  <2>1. ListenerHealthy(p) => p.events = <<>>
    BY <1>2 DEF AuthorityFits
  <2>2. QED
    BY <1>1, <1>2, <1>4, <1>5, <1>6, <1>7, <2>1, BegunFits
<1>8. CASE Rests(p, owed, q)
  <2>1. q \in Pages /\ SameRows(p, q) /\ q.listener = p.listener /\ q.pending = owed
        /\ q.forgotten = p.forgotten /\ q.pass = NoPass
        /\ (q.timer <=> owed /\ ListenerHealthy(p) /\ Ready(p))
    BY <1>8 DEF Rests
  <2>2. PubTyped(v, s, nm, q, nws)
    BY <1>5, <2>1 DEF PubTyped
  <2>3. HeardFits(v, q) /\ KeyFits(q)
    BY <1>2, <2>1 DEF HeardFits, KeyFits, SameRows
  <2>4. AuthorityFits(q)
    BY <1>2, <2>1, Parity DEF AuthorityFits, SameRows, ListenerHealthy
  <2>5. PassFits(nm, q, nws)
    BY <1>6, <2>1, Parity DEF PassFits, Marked
  <2>6. AwaitFits(q, nws) /\ ClearFits(s, q, nws)
    BY <2>1, Parity DEF AwaitFits, Awaits, ClearFits, NoneAwaited
  <2>7. ~owed /\ ~p.forgotten => s = Content(p.accepted) /\ p.applying = "none"
    BY <1>2 DEF ClearFits, AuthorityFits, KeyFits
  <2>8. (Ready(q) <=> Ready(p)) /\ (ListenerHealthy(q) <=> ListenerHealthy(p))
    BY <2>1 DEF Ready, ListenerHealthy, SameRows
  <2>9. DebtFits(s, nm, q)
    BY <1>4, <2>1, <2>7, <2>8 DEF DebtFits, SameRows
  <2>10. QED
    BY <1>1, <2>2, <2>3, <2>4, <2>5, <2>6, <2>9 DEF PubFits
<1>9. QED
  BY <1>1, <1>3, <1>7, <1>8, AfterPassIs

\* A pass that goes on.
Moved(p, pc, q) ==
  /\ q \in Pages /\ SameRows(p, q) /\ q.listener = p.listener
  /\ q.pending = p.pending /\ q.requested = p.requested /\ q.timer = p.timer /\ q.forgotten = p.forgotten
  /\ q.pass.pc = pc /\ q.pass.auth = p.pass.auth /\ q.pass.content = p.pass.content

LEMMA MoveIs ==
  ASSUME NEW p \in Pages, NEW pc \in Steps
  PROVE  Moved(p, pc, [p EXCEPT !.pass.pc = pc])
<1>1. PICK q : q = [p EXCEPT !.pass.pc = pc]
  OBVIOUS
<1>2. PICK r : r = [p.pass EXCEPT !.pc = pc]
  OBVIOUS
<1>3. p.pass \in Passes
  BY DEF Pages
<1>4. r \in Passes /\ r.pc = pc /\ r.auth = p.pass.auth /\ r.content = p.pass.content
  BY <1>2, <1>3 DEF Passes
<1>5. q = [p EXCEPT !.pass = r]
  BY <1>1, <1>2
<1>6. q \in Pages
  BY <1>4, <1>5 DEF Pages
<1>7. SameRows(p, q) /\ q.listener = p.listener
  BY <1>5 DEF Pages, SameRows
<1>8. q.pending = p.pending /\ q.requested = p.requested /\ q.timer = p.timer /\ q.forgotten = p.forgotten /\ q.pass = r
  BY <1>5 DEF Pages
<1>9. QED
  BY <1>1, <1>4, <1>6, <1>7, <1>8 DEF Moved

\* A marked pass goes on to a step that what is on its way allows.
LEMMA GoesFits ==
  ASSUME NEW v, NEW s, NEW m, NEW p, NEW ws, PubFits(v, s, m, p, ws),
         NEW ns \in {0, 1}, NEW nm, NEW nws \in Seq(PubWrites), NEW pc \in Marked, NEW q,
         nm = TRUE, Len(nws) <= MaxPublicWrites, p.pass # NoPass, Moved(p, pc, q),
         q.pass.auth /\ pc \in Projected => q.pass.content = Content(q.accepted),
         pc = "proof" => MaxPublicWrites > 0,
         Awaits(p.runtime, pc, nws), ClearFits(ns, q, nws)
  PROVE  PubFits(v, ns, nm, q, nws)
<1>1. /\ PubTyped(v, s, m, p, ws) /\ HeardFits(v, p) /\ KeyFits(p) /\ AuthorityFits(p)
      /\ PassFits(m, p, ws) /\ DebtFits(s, m, p)
  BY DEF PubFits
<1>2. q \in Pages /\ SameRows(p, q) /\ q.listener = p.listener /\ q.pending = p.pending
      /\ q.timer = p.timer /\ q.forgotten = p.forgotten /\ q.pass.pc = pc /\ q.pass.auth = p.pass.auth
  BY DEF Moved
<1>3. PubTyped(v, ns, nm, q, nws)
  BY <1>1, <1>2 DEF PubTyped
<1>4. HeardFits(v, q) /\ KeyFits(q)
  BY <1>1, <1>2 DEF HeardFits, KeyFits, SameRows
<1>5. AuthorityFits(q)
  BY <1>1, <1>2 DEF AuthorityFits, SameRows, ListenerHealthy
<1>6. Ready(p) /\ Ready(q) /\ p.pending
  BY <1>1, <1>2 DEF PassFits, SameRows, Ready
<1>7. pc # "none"
  BY DEF Marked
<1>8. PassFits(nm, q, nws)
  BY <1>2, <1>6, <1>7 DEF PassFits
<1>9. AwaitFits(q, nws)
  BY <1>2 DEF AwaitFits, SameRows
<1>10. q.pass # NoPass /\ ~p.timer
  BY <1>1, <1>2, <1>7, Parity DEF DebtFits
<1>11. DebtFits(ns, nm, q)
  BY <1>2, <1>6, <1>10 DEF DebtFits
<1>12. QED
  BY <1>3, <1>4, <1>5, <1>8, <1>9, <1>11 DEF PubFits

\* The pass sends its write and waits for it.
LEMMA SendFits ==
  ASSUME PubInv, page.pass.pc \in {"write", "proof"}, SendWrite, Len(publicWrites) < MaxPublicWrites,
         UNCHANGED <<version, share, marker>>
  PROVE  PubInv'
<1>1. PubFits(version, share, marker, page, publicWrites)
  BY DEF PubInv
<1>2. /\ PubTyped(version, share, marker, page, publicWrites) /\ AuthorityFits(page)
      /\ PassFits(marker, page, publicWrites) /\ AwaitFits(page, publicWrites)
  BY <1>1 DEF PubFits
<1>3. page \in Pages /\ publicWrites \in Seq(PubWrites) /\ share \in {0, 1} /\ marker = TRUE
  BY <1>2 DEF PubTyped, PassFits, Marked
<1>4. page.pass \in Passes /\ page.runtime \in Nat /\ page.pass # NoPass
  BY <1>3, Parity DEF Pages
<1>5. PICK w : w = Write
  OBVIOUS
<1>6. w \in PubWrites /\ w.awaited /\ ~w.uncertain /\ w.runtime = page.runtime
  BY <1>4, <1>5 DEF Write, PubWrites, Passes
<1>7. PICK nws : nws = Append(publicWrites, w)
  OBVIOUS
<1>8. publicWrites' = nws /\ page' = [page EXCEPT !.pass.pc = "sent"]
  BY <1>5, <1>7 DEF SendWrite, Goes
<1>9. nws \in Seq(PubWrites) /\ Len(nws) <= MaxPublicWrites
  BY <1>3, <1>6, <1>7, PublicationAssumption
<1>10. \A i \in DOMAIN publicWrites : ~publicWrites[i].awaited
  BY <1>2 DEF AwaitFits, Awaits
<1>11. Awaits(page.runtime, "sent", nws)
  <2>1. Len(publicWrites) + 1 \in DOMAIN nws /\ nws[Len(publicWrites) + 1] = w
    BY <1>3, <1>7
  <2>2. \A i \in DOMAIN nws : i # Len(publicWrites) + 1 => i \in DOMAIN publicWrites /\ nws[i] = publicWrites[i]
    BY <1>3, <1>7
  <2>3. \A i \in DOMAIN nws : nws[i].awaited => i = Len(publicWrites) + 1
    BY <1>10, <2>2
  <2>4. QED
    BY <1>6, <2>1, <2>3 DEF Awaits
<1>12. "sent" \in Steps /\ "sent" \in Marked
  BY DEF Steps, Marked
<1>13. Moved(page, "sent", page')
  BY <1>3, <1>8, <1>12, MoveIs
<1>14. page.pass.auth => page.pass.content = Content(page.accepted)
  BY <1>2 DEF AuthorityFits, Projected, Marked
<1>15. page'.pass.auth => page'.pass.content = Content(page'.accepted)
  BY <1>13, <1>14 DEF Moved, SameRows
<1>16. ClearFits(share, page', nws)
  BY <1>13 DEF ClearFits, Moved
<1>17. PICK q : q = page'
  OBVIOUS
<1>18. PubFits(version, share, marker, q, nws)
  BY <1>1, <1>3, <1>4, <1>9, <1>11, <1>12, <1>13, <1>15, <1>16, <1>17, GoesFits
<1>19. QED
  BY <1>8, <1>17, <1>18 DEF PubInv

\* A step of the pass that sends nothing.
LEMMA StepFits ==
  ASSUME PubInv, NEW pc \in Marked, Goes(pc), marker' = TRUE, UNCHANGED <<version, share, publicWrites>>,
         page.pass # NoPass, page.pass.pc # "sent", pc # "sent",
         pc = "proof" => MaxPublicWrites > 0,
         page.pass.auth /\ pc \in Projected => page.pass.content = Content(page.accepted),
         pc = "clear" => publicWrites = <<>> /\ (~page.forgotten => share = Content(page.accepted) /\ ListenerHealthy(page))
  PROVE  PubInv'
<1>1. PubFits(version, share, marker, page, publicWrites)
  BY DEF PubInv
<1>2. /\ PubTyped(version, share, marker, page, publicWrites) /\ AwaitFits(page, publicWrites)
  BY <1>1 DEF PubFits
<1>3. page \in Pages /\ publicWrites \in Seq(PubWrites) /\ share \in {0, 1} /\ Len(publicWrites) <= MaxPublicWrites
  BY <1>2 DEF PubTyped
<1>4. pc \in Steps
  BY DEF Marked, Steps
<1>5. PICK q : q = [page EXCEPT !.pass.pc = pc]
  OBVIOUS
<1>6. Moved(page, pc, q)
  BY <1>3, <1>4, <1>5, MoveIs
<1>7. Awaits(page.runtime, pc, publicWrites)
  BY <1>2 DEF AwaitFits, Awaits
<1>8. q.pass.auth /\ pc \in Projected => q.pass.content = Content(q.accepted)
  BY <1>6 DEF Moved, SameRows
<1>9. ClearFits(share, q, publicWrites)
  BY <1>6 DEF ClearFits, Moved, SameRows, ListenerHealthy
<1>10. PubFits(version, share, TRUE, q, publicWrites)
  BY <1>1, <1>3, <1>6, <1>7, <1>8, <1>9, GoesFits
<1>11. QED
  BY <1>5, <1>10 DEF PubInv, Goes

\* A pass fails; nothing awaits its writes any more.
LEMMA FailFits ==
  ASSUME PubInv, page.pass.pc \in Marked, PassFails, UNCHANGED <<version, share, marker>>,
         NEW nws \in Seq(PubWrites), publicWrites' = nws, Len(nws) <= MaxPublicWrites, NoneAwaited(nws)
  PROVE  PubInv'
<1>1. PubFits(version, share, marker, page, publicWrites)
  BY DEF PubInv
<1>2. PassFits(marker, page, publicWrites)
  BY <1>1 DEF PubFits
<1>3. marker \in BOOLEAN
  BY <1>1 DEF PubFits, PubTyped
<1>4. marker /\ page.pass # NoPass
  BY <1>2, Parity DEF PassFits, Marked
<1>5. PICK m : m = marker
  OBVIOUS
<1>6. PubFits(version, share, m, AfterPass(page, TRUE), nws)
  BY <1>1, <1>3, <1>4, <1>5, EndFits
<1>7. QED
  BY <1>5, <1>6 DEF PubInv, PassFails

LEMMA PubUsed ==
  ASSUME PubInv
  PROVE  /\ PubFits(version, share, marker, page, publicWrites)
         /\ PubTyped(version, share, marker, page, publicWrites) /\ HeardFits(version, page) /\ KeyFits(page)
         /\ AuthorityFits(page) /\ PassFits(marker, page, publicWrites) /\ AwaitFits(page, publicWrites)
         /\ ClearFits(share, page, publicWrites) /\ DebtFits(share, marker, page)
         /\ version \in Nat /\ share \in {0, 1} /\ marker \in BOOLEAN /\ page \in Pages /\ page.pass \in Passes
         /\ publicWrites \in Seq(PubWrites) /\ Len(publicWrites) <= MaxPublicWrites
         /\ page.pass.pc # "none" => page.pass # NoPass
BY Parity DEF PubInv, PubFits, PubTyped, Pages

LEMMA MarksFits ==
  ASSUME PubInv, PassMarks
  PROVE  PubInv'
<1>1. page.pass.pc = "mark"
  BY DEF PassMarks, At
<1>2. "project" \in Marked /\ "project" \notin Projected
  BY DEF Marked, Projected
<1>3. page.pass # NoPass
  BY <1>1, PubUsed
<1>4. Goes("project") /\ marker' = TRUE /\ UNCHANGED <<version, share, publicWrites>>
  BY DEF PassMarks
<1>5. QED
  BY <1>1, <1>2, <1>3, <1>4, StepFits

\* What a marked pass may use of the invariant.
LEMMA MarkedUsed ==
  ASSUME PubInv, page.pass.pc \in Marked
  PROVE  /\ marker = TRUE /\ page.pass # NoPass /\ Ready(page)
         /\ page.pass.auth => ListenerHealthy(page)
         /\ page.pass.auth /\ page.pass.pc \in Projected => page.pass.content = Content(page.accepted)
         /\ page.pass.pc # "sent" => NoneAwaited(publicWrites)
<1>1. page.pass # NoPass
  BY PubUsed DEF Marked
<1>2. marker = TRUE /\ Ready(page)
  BY <1>1, PubUsed DEF PassFits
<1>3. page.pass.pc # "sent" => NoneAwaited(publicWrites)
  BY PubUsed DEF AwaitFits, Awaits, NoneAwaited
<1>4. QED
  BY <1>1, <1>2, <1>3, PubUsed DEF AuthorityFits

LEMMA ProjectsFits ==
  ASSUME PubInv, PassProjects
  PROVE  PubInv'
<1>1. page.pass.pc = "project" /\ page.pass.pc \in Marked /\ page.pass.pc # "sent"
  BY DEF PassProjects, At, Marked
<1>2. UNCHANGED <<version, share, marker, publicWrites>>
  BY DEF PassProjects
<1>3. marker = TRUE /\ page.pass # NoPass /\ Ready(page) /\ NoneAwaited(publicWrites)
      /\ (page.pass.auth => ListenerHealthy(page))
  BY <1>1, MarkedUsed
<1>4. CASE page.pass.auth
  <2>1. page' = [page EXCEPT !.pass.pc = "begin", !.pass.content = Content(page.accepted)]
    BY <1>4 DEF PassProjects
  <2>2. PICK p : p = page
    OBVIOUS
  <2>3. PICK c : c = Content(p.accepted)
    OBVIOUS
  <2>4. p \in Pages /\ p.pass \in Passes /\ p.accepted \in Nat
    BY <2>2, PubUsed DEF Pages
  <2>5. c \in {0, 1}
    BY <2>3, <2>4, Parity
  <2>6. PICK r : r = [p.pass EXCEPT !.content = c]
    OBVIOUS
  <2>7. r \in Passes /\ r.pc = p.pass.pc /\ r.auth = p.pass.auth /\ r.content = c
    BY <2>4, <2>5, <2>6 DEF Passes
  <2>8. PICK a : a = [p EXCEPT !.pass = r]
    OBVIOUS
  <2>9. a \in Pages /\ SameRows(p, a) /\ a.listener = p.listener /\ a.pending = p.pending
        /\ a.requested = p.requested /\ a.timer = p.timer /\ a.forgotten = p.forgotten /\ a.pass = r
    BY <2>4, <2>7, <2>8 DEF Pages, SameRows
  <2>10. PICK q : q = [a EXCEPT !.pass.pc = "begin"]
    OBVIOUS
  <2>11. Moved(a, "begin", q)
    BY <2>9, <2>10, MoveIs DEF Steps
  <2>12. page' = q
    <3>1. PICK t : t = [p.pass EXCEPT !.pc = "begin", !.content = c]
      OBVIOUS
    <3>2. page' = [p EXCEPT !.pass = t]
      BY <2>1, <2>2, <2>3, <3>1
    <3>3. q = [a EXCEPT !.pass = [r EXCEPT !.pc = "begin"]]
      BY <2>9, <2>10
    <3>4. [r EXCEPT !.pc = "begin"] = t
      BY <2>4, <2>6, <3>1 DEF Passes
    <3>5. [a EXCEPT !.pass = t] = [p EXCEPT !.pass = t]
      BY <2>4, <2>8 DEF Pages
    <3>6. QED
      BY <3>2, <3>3, <3>4, <3>5
  <2>13. PubFits(version, share, marker, a, publicWrites)
    <3>1. p.pass # NoPass /\ r # NoPass /\ r.pc = "project"
      BY <1>1, <1>3, <2>2, <2>7, Parity
    <3>2. PubTyped(version, share, marker, a, publicWrites) /\ HeardFits(version, a) /\ KeyFits(a)
      BY <2>2, <2>9, PubUsed DEF PubTyped, HeardFits, KeyFits, SameRows
    <3>3. AuthorityFits(a)
      BY <2>2, <2>3, <2>7, <2>9, PubUsed DEF AuthorityFits, SameRows, ListenerHealthy
    <3>4. PassFits(marker, a, publicWrites)
      BY <1>3, <2>2, <2>9, <3>1, PubUsed DEF PassFits, SameRows, Ready
    <3>5. AwaitFits(a, publicWrites)
      BY <2>2, <2>7, <2>9, PubUsed DEF AwaitFits, SameRows
    <3>6. ClearFits(share, a, publicWrites)
      BY <2>9, <3>1 DEF ClearFits
    <3>7. DebtFits(share, marker, a)
      BY <1>3, <2>2, <2>9, <3>1, PubUsed DEF DebtFits, SameRows, Ready, ListenerHealthy
    <3>8. QED
      BY <3>2, <3>3, <3>4, <3>5, <3>6, <3>7 DEF PubFits
  <2>14. "begin" \in Marked /\ a.pass # NoPass
    BY <1>1, <2>2, <2>7, <2>9, Parity DEF Marked
  <2>15. Awaits(a.runtime, "begin", publicWrites)
    BY <1>3 DEF Awaits, NoneAwaited
  <2>16. q.pass.content = Content(q.accepted) /\ ClearFits(share, q, publicWrites)
    BY <2>3, <2>7, <2>9, <2>11 DEF Moved, SameRows, ClearFits
  <2>17. PubFits(version, share, marker, q, publicWrites)
    BY <1>3, <2>11, <2>13, <2>14, <2>15, <2>16, PubUsed, GoesFits
  <2>18. QED
    BY <1>2, <2>12, <2>17 DEF PubInv
<1>5. CASE ~page.pass.auth
  BY <1>1, <1>2, <1>3, <1>5, PubUsed, FailFits DEF PassProjects
<1>6. QED
  BY <1>4, <1>5

LEMMA BeginsFits ==
  ASSUME PubInv, PassBegins
  PROVE  PubInv'
<1>1. page.pass.pc = "begin" /\ page.pass.pc \in Marked /\ page.pass.pc \in Projected /\ page.pass.pc # "sent"
  BY DEF PassBegins, At, Marked, Projected
<1>2. UNCHANGED <<version, share, marker, publicWrites>>
  BY DEF PassBegins
<1>3. marker = TRUE /\ page.pass # NoPass /\ NoneAwaited(publicWrites)
      /\ (page.pass.auth => page.pass.content = Content(page.accepted))
  BY <1>1, MarkedUsed
<1>4. CASE page.pass.auth
  <2>1. Goes("write") /\ "write" \in Marked
    BY <1>4 DEF PassBegins, Marked
  <2>2. QED
    BY <1>1, <1>2, <1>3, <2>1, StepFits
<1>5. CASE ~page.pass.auth
  BY <1>1, <1>2, <1>3, <1>5, PubUsed, FailFits DEF PassBegins
<1>6. QED
  BY <1>4, <1>5

LEMMA WritesFits ==
  ASSUME PubInv, PassWrites
  PROVE  PubInv'
<1>1. page.pass.pc = "write" /\ page.pass.pc \in Marked /\ page.pass.pc \in Projected /\ page.pass.pc # "sent"
  BY DEF PassWrites, At, Marked, Projected
<1>2. UNCHANGED <<version, share, marker>> /\ Len(publicWrites) < MaxPublicWrites
  BY DEF PassWrites
<1>3. marker = TRUE /\ page.pass # NoPass /\ (page.pass.auth => page.pass.content = Content(page.accepted))
  BY <1>1, MarkedUsed
<1>4. CASE Proof
  <2>1. Goes("proof") /\ publicWrites' = publicWrites /\ "proof" \in Marked
    BY <1>4 DEF PassWrites, Marked
  <2>2. MaxPublicWrites > 0
    BY <1>2, PubUsed, PublicationAssumption
  <2>3. QED
    BY <1>1, <1>2, <1>3, <2>1, <2>2, StepFits
<1>5. CASE ~Proof
  BY <1>1, <1>2, <1>5, SendFits DEF PassWrites
<1>6. QED
  BY <1>4, <1>5

LEMMA ReadsProofFits ==
  ASSUME PubInv, PassReadsProof
  PROVE  PubInv'
<1>1. page.pass.pc = "proof" /\ page.pass.pc \in Marked /\ page.pass.pc \in Projected /\ page.pass.pc # "sent"
  BY DEF PassReadsProof, At, Marked, Projected
<1>2. UNCHANGED <<version, share, marker>> /\ publicWrites = <<>>
  BY DEF PassReadsProof, ReadAnswers
<1>3. marker = TRUE /\ page.pass # NoPass /\ NoneAwaited(publicWrites) /\ (page.pass.auth => ListenerHealthy(page))
      /\ (page.pass.auth => page.pass.content = Content(page.accepted))
  BY <1>1, MarkedUsed
<1>4. CASE share # page.pass.content
  <2>1. Len(publicWrites) < MaxPublicWrites
    BY <1>1, <1>2, PubUsed DEF PassFits
  <2>2. QED
    BY <1>1, <1>2, <1>4, <2>1, SendFits DEF PassReadsProof
<1>5. CASE share = page.pass.content /\ page.pass.auth
  <2>1. Goes("clear") /\ publicWrites' = publicWrites /\ "clear" \in Marked
    BY <1>5 DEF PassReadsProof, Marked
  <2>2. QED
    BY <1>1, <1>2, <1>3, <1>5, <2>1, StepFits
<1>6. CASE share = page.pass.content /\ ~page.pass.auth
  <2>1. PassFails /\ publicWrites' = publicWrites
    BY <1>6 DEF PassReadsProof
  <2>2. QED
    BY <1>1, <1>2, <1>3, <2>1, PubUsed, FailFits
<1>7. QED
  BY <1>4, <1>5, <1>6

LEMMA VerifiesFits ==
  ASSUME PubInv, PassVerifies
  PROVE  PubInv'
<1>1. page.pass.pc = "read" /\ page.pass.pc \in Marked /\ page.pass.pc \in Projected /\ page.pass.pc # "sent"
  BY DEF PassVerifies, At, Marked, Projected
<1>2. UNCHANGED <<version, share, marker, publicWrites>> /\ publicWrites = <<>>
  BY DEF PassVerifies, ReadAnswers
<1>3. marker = TRUE /\ page.pass # NoPass /\ NoneAwaited(publicWrites) /\ (page.pass.auth => ListenerHealthy(page))
      /\ (page.pass.auth => page.pass.content = Content(page.accepted))
  BY <1>1, MarkedUsed
<1>4. CASE share = page.pass.content /\ page.pass.auth
  <2>1. Goes("clear") /\ "clear" \in Marked
    BY <1>4 DEF PassVerifies, Marked
  <2>2. QED
    BY <1>1, <1>2, <1>3, <1>4, <2>1, StepFits
<1>5. CASE ~(share = page.pass.content /\ page.pass.auth)
  <2>1. PassFails
    BY <1>5 DEF PassVerifies
  <2>2. QED
    BY <1>1, <1>2, <1>3, <2>1, PubUsed, FailFits
<1>6. QED
  BY <1>4, <1>5

LEMMA ClearsFits ==
  ASSUME PubInv, PassClears
  PROVE  PubInv'
<1>1. page.pass.pc = "clear" /\ page.pass.pc \in Marked /\ page.pass.pc # "sent"
  BY DEF PassClears, At, Marked
<1>2. page' = AfterPass(page, FALSE) /\ marker' = FALSE /\ UNCHANGED <<version, share, publicWrites>>
  BY DEF PassClears
<1>3. page.pass # NoPass /\ NoneAwaited(publicWrites)
  BY <1>1, MarkedUsed
<1>4. publicWrites = <<>>
  BY <1>1, PubUsed DEF ClearFits
<1>5. PubFits(version, share, FALSE, AfterPass(page, FALSE), publicWrites)
  BY <1>1, <1>3, <1>4, PubUsed, EndFits
<1>6. QED
  BY <1>2, <1>5 DEF PubInv

LEMMA AwaitFailsFits ==
  ASSUME PubInv, AwaitFails
  PROVE  PubInv'
<1>1. page.pass.pc \in Marked /\ page.pass.pc # "sent"
  BY DEF AwaitFails, Marked
<1>2. PassFails /\ UNCHANGED <<version, share, marker, publicWrites>>
  BY DEF AwaitFails
<1>3. QED
  BY <1>1, <1>2, MarkedUsed, PubUsed, FailFits

\* Writes that nothing waits for.
LEMMA UnawaitedIs ==
  ASSUME NEW ws \in Seq(PubWrites), Len(ws) <= MaxPublicWrites
  PROVE  /\ Unawaited(ws) \in Seq(PubWrites) /\ Len(Unawaited(ws)) = Len(ws)
         /\ NoneAwaited(Unawaited(ws)) /\ (ws = <<>> => Unawaited(ws) = <<>>)
<1>1. PICK u : u = Unawaited(ws)
  OBVIOUS
<1>2. DOMAIN ws = 1..Len(ws) /\ Len(ws) \in Nat
  OBVIOUS
<1>3. u = [i \in 1..Len(ws) |-> [ws[i] EXCEPT !.awaited = FALSE]]
  BY <1>1, <1>2 DEF Unawaited
<1>4. \A i \in DOMAIN ws : ws[i] \in PubWrites
  OBVIOUS
<1>5. \A i \in 1..Len(ws) : [ws[i] EXCEPT !.awaited = FALSE] \in PubWrites /\ ~[ws[i] EXCEPT !.awaited = FALSE].awaited
  BY <1>2, <1>4 DEF PubWrites
<1>6. u \in Seq(PubWrites) /\ Len(u) = Len(ws) /\ DOMAIN u = 1..Len(ws)
  BY <1>2, <1>3, <1>5
<1>7. NoneAwaited(u)
  BY <1>3, <1>5, <1>6 DEF NoneAwaited
<1>8. ws = <<>> => u = <<>>
  BY <1>6
<1>9. QED
  BY <1>1, <1>6, <1>7, <1>8

LEMMA TimesOutFits ==
  ASSUME PubInv, WriteTimesOut
  PROVE  PubInv'
<1>1. page.pass.pc = "sent" /\ page.pass.pc \in Marked
  BY DEF WriteTimesOut, At, Marked
<1>2. PassFails /\ UNCHANGED <<version, share, marker>>
  BY DEF WriteTimesOut
<1>3. PICK ws : ws = publicWrites
  OBVIOUS
<1>4. PICK u : u = [i \in DOMAIN ws |->
                      IF ws[i].awaited THEN [ws[i] EXCEPT !.uncertain = TRUE, !.awaited = FALSE] ELSE ws[i]]
  OBVIOUS
<1>5. publicWrites' = u
  BY <1>3, <1>4 DEF WriteTimesOut
<1>6. ws \in Seq(PubWrites) /\ Len(ws) <= MaxPublicWrites /\ DOMAIN ws = 1..Len(ws) /\ Len(ws) \in Nat
  BY <1>3, PubUsed
<1>7. \A i \in DOMAIN ws : ws[i] \in PubWrites
  BY <1>6
<1>8. \A i \in DOMAIN ws : u[i] \in PubWrites /\ ~u[i].awaited
  BY <1>4, <1>7 DEF PubWrites
<1>9. u \in Seq(PubWrites) /\ Len(u) = Len(ws) /\ DOMAIN u = DOMAIN ws
  <2>1. DOMAIN u = DOMAIN ws
    BY <1>4
  <2>2. u \in [1..Len(ws) -> PubWrites]
    <3>1. u = [i \in 1..Len(ws) |-> u[i]]
      BY <1>4, <1>6
    <3>2. \A i \in 1..Len(ws) : u[i] \in PubWrites
      BY <1>6, <1>8
    <3>3. QED
      BY <3>1, <3>2
  <2>3. QED
    BY <1>6, <2>1, <2>2
<1>10. NoneAwaited(u)
  BY <1>8, <1>9 DEF NoneAwaited
<1>11. Len(u) <= MaxPublicWrites
  BY <1>6, <1>9
<1>12. QED
  BY <1>1, <1>2, <1>5, <1>9, <1>10, <1>11, FailFits

LEMMA TimerFits ==
  ASSUME PubInv, TimerFires
  PROVE  PubInv'
BY PublishFits DEF TimerFires, PubInv

\* What is left of the writes when the first has landed or was refused.
LEMMA TailIs ==
  ASSUME NEW ws \in Seq(PubWrites), Len(ws) <= MaxPublicWrites, ws # <<>>
  PROVE  /\ Tail(ws) \in Seq(PubWrites) /\ Len(Tail(ws)) <= MaxPublicWrites /\ Head(ws) = ws[1]
         /\ 1 \in DOMAIN ws /\ ws[1] \in PubWrites
         /\ \A i \in DOMAIN Tail(ws) : i + 1 \in DOMAIN ws /\ Tail(ws)[i] = ws[i + 1] /\ i + 1 # 1
         /\ \A j \in DOMAIN ws : j # 1 => \E i \in DOMAIN Tail(ws) : j = i + 1
<1>1. Len(ws) \in Nat /\ Len(ws) > 0 /\ DOMAIN ws = 1..Len(ws) /\ MaxPublicWrites \in Nat
  BY PublicationAssumption
<1>2. Tail(ws) \in Seq(PubWrites) /\ Len(Tail(ws)) = Len(ws) - 1
  BY <1>1
<1>3. 1 \in DOMAIN ws /\ ws[1] \in PubWrites
  BY <1>1
<1>4. Head(ws) = ws[1]
  BY <1>1
<1>5. DOMAIN Tail(ws) = 1..(Len(ws) - 1)
  BY <1>1, <1>2
<1>6. \A i \in 1..(Len(ws) - 1) : Tail(ws)[i] = ws[i + 1]
  BY <1>1
<1>7. \A j \in DOMAIN ws : j # 1 => \E i \in DOMAIN Tail(ws) : j = i + 1
  <2>1. SUFFICES ASSUME NEW j \in DOMAIN ws, j # 1 PROVE j - 1 \in DOMAIN Tail(ws) /\ j = (j - 1) + 1
    OBVIOUS
  <2>2. QED
    BY <1>1, <1>5, <2>1
<1>8. \A i \in DOMAIN Tail(ws) : i + 1 \in DOMAIN ws /\ Tail(ws)[i] = ws[i + 1] /\ i + 1 # 1
  BY <1>1, <1>5, <1>6
<1>9. QED
  BY <1>1, <1>2, <1>3, <1>4, <1>7, <1>8

\* A write lands that nothing waits for.
LEMMA LandsUnawaited ==
  ASSUME PubInv, publicWrites # <<>>, ~publicWrites[1].awaited
  PROVE  /\ PubFits(version, publicWrites[1].content, marker, page, Tail(publicWrites))
<1>1. PICK ws : ws = publicWrites
  OBVIOUS
<1>2. PICK t : t = Tail(ws)
  OBVIOUS
<1>3. ws \in Seq(PubWrites) /\ Len(ws) <= MaxPublicWrites /\ ws # <<>>
  BY <1>1, PubUsed
<1>4. /\ t \in Seq(PubWrites) /\ Len(t) <= MaxPublicWrites /\ ws[1] \in PubWrites
      /\ \A i \in DOMAIN t : i + 1 \in DOMAIN ws /\ t[i] = ws[i + 1] /\ i + 1 # 1
      /\ \A j \in DOMAIN ws : j # 1 => \E i \in DOMAIN t : j = i + 1
  BY <1>2, <1>3, TailIs
<1>5. PICK c : c = ws[1].content
  OBVIOUS
<1>6. c \in {0, 1}
  BY <1>4, <1>5 DEF PubWrites
<1>7. marker /\ page.pass.pc # "clear"
  BY <1>1, <1>3, PubUsed DEF PassFits, ClearFits
<1>8. PubTyped(version, c, marker, page, t)
  BY <1>4, <1>6, PubUsed DEF PubTyped
<1>9. PassFits(marker, page, t) /\ ClearFits(c, page, t)
  BY <1>7, PubUsed DEF PassFits, ClearFits
<1>10. DebtFits(c, marker, page)
  BY <1>7, PubUsed DEF DebtFits
<1>11. AwaitFits(page, t)
  <2>1. Awaits(page.runtime, page.pass.pc, ws)
    BY <1>1, PubUsed DEF AwaitFits
  <2>2. \A i \in DOMAIN t : t[i].awaited => ~t[i].uncertain /\ t[i].runtime = page.runtime /\ page.pass.pc = "sent"
    BY <1>4, <2>1 DEF Awaits
  <2>3. \A i, j \in DOMAIN t : t[i].awaited /\ t[j].awaited => i = j
    <3>1. SUFFICES ASSUME NEW i \in DOMAIN t, NEW j \in DOMAIN t, t[i].awaited, t[j].awaited PROVE i = j
      OBVIOUS
    <3>2. i + 1 = j + 1
      BY <1>4, <2>1, <3>1 DEF Awaits
    <3>3. i \in Nat /\ j \in Nat
      BY <1>4
    <3>4. QED
      BY <3>2, <3>3
  <2>4. page.pass.pc = "sent" => \E i \in DOMAIN t : t[i].awaited
    BY <1>1, <1>4, <2>1 DEF Awaits
  <2>5. QED
    BY <2>2, <2>3, <2>4 DEF AwaitFits, Awaits
<1>12. PubFits(version, c, marker, page, t)
  BY <1>8, <1>9, <1>10, <1>11, PubUsed DEF PubFits
<1>13. QED
  BY <1>1, <1>2, <1>5, <1>12

\* What is left when the write of the pass is gone.
LEMMA AloneAwaited ==
  ASSUME PubInv, publicWrites # <<>>, publicWrites[1].awaited
  PROVE  /\ page.pass.pc = "sent" /\ NoneAwaited(Tail(publicWrites))
         /\ ~publicWrites[1].uncertain /\ publicWrites[1].runtime = page.runtime
<1>1. PICK ws : ws = publicWrites
  OBVIOUS
<1>2. PICK t : t = Tail(ws)
  OBVIOUS
<1>3. ws \in Seq(PubWrites) /\ Len(ws) <= MaxPublicWrites /\ ws # <<>>
  BY <1>1, PubUsed
<1>4. 1 \in DOMAIN ws /\ \A i \in DOMAIN t : i + 1 \in DOMAIN ws /\ t[i] = ws[i + 1] /\ i + 1 # 1
  BY <1>2, <1>3, TailIs
<1>5. Awaits(page.runtime, page.pass.pc, ws)
  BY <1>1, PubUsed DEF AwaitFits
<1>6. page.pass.pc = "sent" /\ ~ws[1].uncertain /\ ws[1].runtime = page.runtime
  BY <1>1, <1>4, <1>5 DEF Awaits
<1>7. NoneAwaited(t)
  BY <1>1, <1>4, <1>5 DEF Awaits, NoneAwaited
<1>8. QED
  BY <1>1, <1>2, <1>6, <1>7

LEMMA LandsFits ==
  ASSUME PubInv, WriteLands
  PROVE  PubInv'
<1>1. publicWrites # <<>> /\ UNCHANGED <<version, marker>>
  BY DEF WriteLands
<1>2. PICK w : w = publicWrites[1]
  OBVIOUS
<1>3. Head(publicWrites) = w /\ w \in PubWrites
  BY <1>1, <1>2, PubUsed, TailIs
<1>4. PICK t : t = Tail(publicWrites)
  OBVIOUS
<1>5. t \in Seq(PubWrites) /\ Len(t) <= MaxPublicWrites
  BY <1>1, <1>4, PubUsed, TailIs
<1>6. PICK c : c = w.content
  OBVIOUS
<1>7. share' = c /\ publicWrites' = t /\ Repair(w)
  BY <1>3, <1>4, <1>6 DEF WriteLands
<1>8. CASE ~w.awaited
  <2>1. PubFits(version, c, marker, page, t)
    BY <1>1, <1>2, <1>4, <1>6, <1>8, LandsUnawaited
  <2>2. page' = Publish(page) \/ page' = page
    BY <1>7, <1>8 DEF Repair
  <2>3. PubFits(version, c, marker, Publish(page), t)
    BY <2>1, PublishFits
  <2>4. QED
    BY <1>1, <1>7, <2>1, <2>2, <2>3 DEF PubInv
<1>9. CASE w.awaited
  <2>1. page.pass.pc = "sent" /\ NoneAwaited(t) /\ ~w.uncertain /\ w.runtime = page.runtime
    BY <1>1, <1>2, <1>4, <1>9, AloneAwaited
  <2>2. page' = [page EXCEPT !.pass.pc = "read"]
    BY <1>7, <1>9, <2>1 DEF Repair, At
  <2>3. PICK q : q = [page EXCEPT !.pass.pc = "read"]
    OBVIOUS
  <2>4. "read" \in Steps /\ "read" \in Marked /\ page.pass.pc \in Marked /\ page.pass.pc \in Projected
    BY <2>1 DEF Steps, Marked, Projected
  <2>5. Moved(page, "read", q)
    BY <2>3, <2>4, PubUsed, MoveIs
  <2>6. marker = TRUE /\ page.pass # NoPass /\ (page.pass.auth => page.pass.content = Content(page.accepted))
    BY <2>4, MarkedUsed
  <2>7. q.pass.auth => q.pass.content = Content(q.accepted)
    BY <2>5, <2>6 DEF Moved, SameRows
  <2>8. Awaits(page.runtime, "read", t) /\ ClearFits(c, q, t)
    BY <2>1, <2>5 DEF Awaits, NoneAwaited, ClearFits, Moved
  <2>9. c \in {0, 1}
    BY <1>3, <1>6 DEF PubWrites
  <2>10. PubFits(version, share, marker, page, publicWrites)
    BY PubUsed
  <2>11. PubFits(version, c, marker, q, t)
    BY <1>5, <2>4, <2>5, <2>6, <2>7, <2>8, <2>9, <2>10, GoesFits
  <2>12. QED
    BY <1>1, <1>7, <2>2, <2>3, <2>11 DEF PubInv
<1>10. QED
  BY <1>8, <1>9

LEMMA RefusedFits ==
  ASSUME PubInv, WriteIsRefused
  PROVE  PubInv'
<1>1. publicWrites # <<>> /\ UNCHANGED <<version, share, marker>>
  BY DEF WriteIsRefused
<1>2. PICK w : w = publicWrites[1]
  OBVIOUS
<1>3. Head(publicWrites) = w /\ w \in PubWrites
  BY <1>1, <1>2, PubUsed, TailIs
<1>4. PICK t : t = Tail(publicWrites)
  OBVIOUS
<1>5. t \in Seq(PubWrites) /\ Len(t) <= MaxPublicWrites
  BY <1>1, <1>4, PubUsed, TailIs
<1>6. publicWrites' = t
  BY <1>4 DEF WriteIsRefused
<1>7. CASE w.awaited
  <2>1. page.pass.pc = "sent" /\ NoneAwaited(t)
    BY <1>1, <1>2, <1>4, <1>7, AloneAwaited
  <2>2. PassFails /\ page.pass.pc \in Marked
    BY <1>3, <1>7, <2>1 DEF WriteIsRefused, Marked
  <2>3. QED
    BY <1>1, <1>5, <1>6, <2>1, <2>2, FailFits
<1>8. CASE ~w.awaited
  <2>1. page' = page
    BY <1>3, <1>8 DEF WriteIsRefused
  <2>2. PubFits(version, w.content, marker, page, t)
    BY <1>1, <1>2, <1>4, <1>8, LandsUnawaited
  <2>3. PubTyped(version, share, marker, page, t) /\ PassFits(marker, page, t) /\ AwaitFits(page, t)
    BY <1>5, <2>2, PubUsed DEF PubFits, PubTyped
  <2>4. ClearFits(share, page, t)
    BY <1>1, PubUsed DEF ClearFits
  <2>5. PubFits(version, share, marker, page, t)
    BY <2>3, <2>4, PubUsed DEF PubFits
  <2>6. QED
    BY <1>1, <1>6, <2>1, <2>5 DEF PubInv
<1>9. QED
  BY <1>7, <1>8

LEMMA ExpiresFits ==
  ASSUME PubInv, ProofExpires \/ UNCHANGED pubVars
  PROVE  PubInv'
BY DEF ProofExpires, pubVars, PubInv

LEMMA ChangesFits ==
  ASSUME PubInv, RowsChange
  PROVE  PubInv'
<1>1. version' = version + 1 /\ UNCHANGED <<share, marker, page, publicWrites>>
  BY DEF RowsChange
<1>2. PICK v : v = version + 1
  OBVIOUS
<1>3. page.accepted \in Nat /\ page.heard \in Nat /\ page.events \in Seq(Nat) /\ version \in Nat
  BY PubUsed DEF Pages
<1>4. \A i \in DOMAIN page.events : page.events[i] \in Nat
  BY <1>3
<1>5. v \in Nat /\ HeardFits(v, page)
  BY <1>2, <1>3, <1>4, PubUsed DEF HeardFits
<1>6. PubTyped(v, share, marker, page, publicWrites)
  BY <1>5, PubUsed DEF PubTyped
<1>7. PubFits(v, share, marker, page, publicWrites)
  BY <1>5, <1>6, PubUsed DEF PubFits
<1>8. QED
  BY <1>1, <1>2, <1>7 DEF PubInv

LEMMA DispatchFits ==
  ASSUME PubInv, DispatchPublishes
  PROVE  PubInv'
<1>1. PICK p : p = page
  OBVIOUS
<1>2. PICK d : d = [p EXCEPT !.dispatched = p.accepted]
  OBVIOUS
<1>3. p \in Pages /\ p.accepted \in Nat
  BY <1>1, PubUsed DEF Pages
<1>4. d \in Pages /\ d.runtime = p.runtime /\ d.phase = p.phase /\ d.heard = p.heard /\ d.events = p.events
      /\ d.applying = p.applying /\ d.accepted = p.accepted /\ d.key = p.key /\ d.listener = p.listener
      /\ d.pending = p.pending /\ d.timer = p.timer /\ d.pass = p.pass /\ d.forgotten = p.forgotten
  BY <1>2, <1>3 DEF Pages
<1>5. PubTyped(version, share, marker, d, publicWrites) /\ HeardFits(version, d) /\ KeyFits(d)
  BY <1>1, <1>4, PubUsed DEF PubTyped, HeardFits, KeyFits
<1>6. AuthorityFits(d) /\ PassFits(marker, d, publicWrites)
  BY <1>1, <1>4, PubUsed DEF AuthorityFits, PassFits, ListenerHealthy, Ready
<1>7. AwaitFits(d, publicWrites) /\ ClearFits(share, d, publicWrites)
  BY <1>1, <1>4, PubUsed DEF AwaitFits, ClearFits, ListenerHealthy
<1>8. DebtFits(share, marker, d)
  BY <1>1, <1>4, PubUsed DEF DebtFits, ListenerHealthy, Ready
<1>9. PubFits(version, share, marker, d, publicWrites)
  BY <1>5, <1>6, <1>7, <1>8 DEF PubFits
<1>10. PubFits(version, share, marker, Publish(d), publicWrites)
  BY <1>9, PublishFits
<1>11. page' = Publish(d) /\ UNCHANGED <<version, share, marker, publicWrites>>
  BY <1>1, <1>2 DEF DispatchPublishes
<1>12. QED
  BY <1>10, <1>11 DEF PubInv

LEMMA HearFits ==
  ASSUME PubInv, HearRows
  PROVE  PubInv'
<1>1. PICK p : p = page
  OBVIOUS
<1>2. PICK es : es = Append(p.events, version)
  OBVIOUS
<1>3. PICK fg : fg = (p.forgotten \/ p.pass.pc = "clear")
  OBVIOUS
<1>4. PICK a : a = [p EXCEPT !.heard = version, !.events = es, !.forgotten = fg]
  OBVIOUS
<1>5. p \in Pages /\ p.events \in Seq(Nat) /\ version \in Nat /\ p.forgotten \in BOOLEAN
  BY <1>1, PubUsed DEF Pages
<1>6. es \in Seq(Nat) /\ es # <<>> /\ fg \in BOOLEAN
  BY <1>2, <1>3, <1>5
<1>7. a \in Pages
  BY <1>4, <1>5, <1>6 DEF Pages
<1>8. a.runtime = p.runtime /\ a.phase = p.phase /\ a.heard = version /\ a.events = es
      /\ a.applying = p.applying /\ a.accepted = p.accepted /\ a.key = p.key
      /\ a.pending = p.pending /\ a.pass = p.pass /\ a.forgotten = fg
  BY <1>4, <1>5 DEF Pages
<1>9. PICK q : q = CloseAuthority(a)
  OBVIOUS
<1>10. page' = q /\ UNCHANGED <<version, share, marker, publicWrites>>
  BY <1>1, <1>2, <1>3, <1>4, <1>9 DEF HearRows, At
<1>11. Closed(a, q)
  BY <1>7, <1>9, CloseIs
<1>12. q \in Pages /\ q.runtime = p.runtime /\ q.phase = p.phase /\ q.heard = version /\ q.events = es
       /\ q.applying = p.applying /\ q.accepted = p.accepted /\ q.key = p.key /\ q.listener = "listening"
       /\ q.pending = p.pending /\ q.forgotten = fg /\ ~q.timer /\ q.pass.pc = p.pass.pc /\ ~q.pass.auth
       /\ (p.pass = NoPass => q.pass = NoPass)
  BY <1>8, <1>11 DEF Closed, SameRows
<1>13. PubTyped(version, share, marker, q, publicWrites)
  BY <1>12, PubUsed DEF PubTyped
<1>14. HeardFits(version, q)
  <2>1. \A i \in DOMAIN es : es[i] = version \/ (i \in DOMAIN p.events /\ es[i] = p.events[i])
    <3>1. Len(es) = Len(p.events) + 1 /\ DOMAIN es = 1..(Len(p.events) + 1) /\ Len(p.events) \in Nat
      BY <1>2, <1>5
    <3>2. es[Len(p.events) + 1] = version /\ \A i \in 1..Len(p.events) : es[i] = p.events[i]
      BY <1>2, <1>5
    <3>3. QED
      BY <1>5, <3>1, <3>2
  <2>2. \A i \in DOMAIN es : es[i] <= version
    BY <1>1, <1>5, <2>1, PubUsed DEF HeardFits
  <2>3. QED
    BY <1>1, <1>5, <1>12, <2>2, PubUsed DEF HeardFits
<1>15. KeyFits(q) /\ AuthorityFits(q)
  BY <1>1, <1>6, <1>12, PubUsed DEF KeyFits, AuthorityFits, ListenerHealthy
<1>16. q.pass # NoPass => p.pass # NoPass
  BY <1>12
<1>17. PassFits(marker, q, publicWrites)
  BY <1>1, <1>12, <1>16, PubUsed DEF PassFits, Ready
<1>18. AwaitFits(q, publicWrites) /\ ClearFits(share, q, publicWrites)
  BY <1>1, <1>3, <1>12, PubUsed DEF AwaitFits, ClearFits
<1>19. fg \/ ~p.forgotten
  BY <1>3, <1>5
<1>20. DebtFits(share, marker, q)
  BY <1>1, <1>3, <1>12, PubUsed DEF DebtFits, ListenerHealthy, Ready
<1>21. QED
  BY <1>10, <1>13, <1>14, <1>15, <1>17, <1>18, <1>20 DEF PubInv, PubFits

LEMMA ApplyFits ==
  ASSUME PubInv, ApplyEvent
  PROVE  PubInv'
<1>1. PICK p : p = page
  OBVIOUS
<1>2. p \in Pages /\ p.events \in Seq(Nat) /\ p.events # <<>> /\ p.applying = "none" /\ p.pending \in BOOLEAN
      /\ p.requested \in BOOLEAN
  BY <1>1, PubUsed DEF ApplyEvent, Pages
<1>3. PICK n : n = Head(p.events)
  OBVIOUS
<1>4. n \in Nat /\ n <= version
  <2>1. 1 \in DOMAIN p.events /\ n = p.events[1] /\ n \in Nat
    BY <1>2, <1>3
  <2>2. QED
    BY <1>1, <2>1, PubUsed DEF HeardFits
<1>5. PICK owed : owed = (p.key \notin {Unknown, Content(n)} /\ Ready(p))
  OBVIOUS
<1>6. PICK ap : ap = IF owed THEN "marks" ELSE "ends"
  OBVIOUS
<1>7. PICK pe, rq : pe = (p.pending \/ owed) /\ rq = (p.requested \/ (owed /\ p.pass # NoPass))
  OBVIOUS
<1>8. PICK c : c = Content(n)
  OBVIOUS
<1>9. PICK q : q = [p EXCEPT !.applying = ap, !.accepted = n, !.key = c, !.pending = pe, !.requested = rq]
  OBVIOUS
<1>10. owed \in BOOLEAN /\ ap \in {"none", "marks", "ends"} /\ ap # "none" /\ c \in {0, 1} /\ c # Unknown
       /\ pe \in BOOLEAN /\ rq \in BOOLEAN
  BY <1>2, <1>4, <1>5, <1>6, <1>7, <1>8, Parity
<1>11. page' = q /\ UNCHANGED <<version, share, marker, publicWrites>>
  BY <1>1, <1>3, <1>5, <1>6, <1>7, <1>8, <1>9 DEF ApplyEvent
<1>12. q \in Pages
  BY <1>2, <1>4, <1>9, <1>10 DEF Pages
<1>13. q.runtime = p.runtime /\ q.phase = p.phase /\ q.heard = p.heard /\ q.events = p.events
       /\ q.applying = ap /\ q.accepted = n /\ q.key = c /\ q.listener = p.listener
       /\ q.pending = pe /\ q.timer = p.timer /\ q.pass = p.pass /\ q.forgotten = p.forgotten
  BY <1>2, <1>9 DEF Pages
<1>14. ~ListenerHealthy(p) /\ ~p.pass.auth /\ ~p.timer
  BY <1>1, <1>2, PubUsed DEF AuthorityFits, DebtFits
<1>15. ListenerHealthy(q) = ListenerHealthy(p) /\ Ready(q) = Ready(p)
  BY <1>13 DEF ListenerHealthy, Ready
<1>16. PubTyped(version, share, marker, q, publicWrites)
  BY <1>12, PubUsed DEF PubTyped
<1>17. HeardFits(version, q) /\ KeyFits(q) /\ AuthorityFits(q)
  BY <1>1, <1>2, <1>4, <1>8, <1>10, <1>13, <1>14, <1>15, PubUsed DEF HeardFits, KeyFits, AuthorityFits
<1>18. p.pending => pe
  BY <1>7
<1>19. PassFits(marker, q, publicWrites)
  BY <1>1, <1>13, <1>15, <1>18, PubUsed DEF PassFits
<1>20. AwaitFits(q, publicWrites)
  BY <1>1, <1>13, PubUsed DEF AwaitFits
<1>21. ClearFits(share, q, publicWrites)
  BY <1>1, <1>13, <1>14, PubUsed DEF ClearFits
<1>22. Ready(p) => p.key = Content(p.accepted) /\ p.key # Unknown
  BY <1>1, PubUsed DEF KeyFits, Ready
<1>23. Ready(p) /\ Content(p.accepted) # Content(n) => owed
  BY <1>5, <1>22
<1>24. owed => ap = "marks" /\ pe
  BY <1>6, <1>7
<1>25. ~owed => ap = "ends"
  BY <1>6
<1>26. DebtFits(share, marker, q)
  BY <1>1, <1>2, <1>13, <1>14, <1>15, <1>18, <1>23, <1>24, <1>25, PubUsed DEF DebtFits
<1>27. QED
  BY <1>11, <1>16, <1>17, <1>19, <1>20, <1>21, <1>26 DEF PubInv, PubFits

LEMMA EventMarksFits ==
  ASSUME PubInv, EventMarks
  PROVE  PubInv'
<1>1. PICK p : p = page
  OBVIOUS
<1>2. PICK q : q = [p EXCEPT !.applying = "ends"]
  OBVIOUS
<1>3. p \in Pages /\ p.applying = "marks" /\ p.pass.pc # "clear"
  BY <1>1, PubUsed DEF EventMarks, At
<1>4. page' = q /\ marker' = TRUE /\ UNCHANGED <<version, share, publicWrites>>
  BY <1>1, <1>2 DEF EventMarks
<1>5. q \in Pages /\ q.runtime = p.runtime /\ q.phase = p.phase /\ q.heard = p.heard /\ q.events = p.events
      /\ q.applying = "ends" /\ q.accepted = p.accepted /\ q.key = p.key /\ q.listener = p.listener
      /\ q.pending = p.pending /\ q.timer = p.timer /\ q.pass = p.pass /\ q.forgotten = p.forgotten
  BY <1>2, <1>3 DEF Pages
<1>6. ListenerHealthy(q) = ListenerHealthy(p) /\ Ready(q) = Ready(p)
  BY <1>5 DEF ListenerHealthy, Ready
<1>7. PubTyped(version, share, TRUE, q, publicWrites)
  BY <1>5, PubUsed DEF PubTyped
<1>8. HeardFits(version, q) /\ KeyFits(q) /\ AuthorityFits(q)
  BY <1>1, <1>3, <1>5, <1>6, PubUsed DEF HeardFits, KeyFits, AuthorityFits
<1>9. PassFits(TRUE, q, publicWrites)
  BY <1>1, <1>5, <1>6, PubUsed DEF PassFits
<1>10. AwaitFits(q, publicWrites) /\ ClearFits(share, q, publicWrites)
  BY <1>1, <1>3, <1>5, PubUsed DEF AwaitFits, ClearFits
<1>11. DebtFits(share, TRUE, q)
  BY <1>1, <1>3, <1>5, <1>6, PubUsed DEF DebtFits
<1>12. QED
  BY <1>4, <1>7, <1>8, <1>9, <1>10, <1>11 DEF PubInv, PubFits

LEMMA EventEndsFits ==
  ASSUME PubInv, EventEnds
  PROVE  PubInv'
<1>1. PICK p : p = page
  OBVIOUS
<1>2. p \in Pages /\ p.applying = "ends" /\ p.events \in Seq(Nat) /\ p.events # <<>> /\ p.key # Unknown
  BY <1>1, PubUsed DEF EventEnds, Pages, KeyFits
<1>3. PICK es : es = Tail(p.events)
  OBVIOUS
<1>4. es \in Seq(Nat) /\ \A i \in DOMAIN es : es[i] <= version
  <2>1. es \in Seq(Nat) /\ DOMAIN es = 1..(Len(p.events) - 1) /\ Len(p.events) \in Nat
    BY <1>2, <1>3
  <2>2. \A i \in DOMAIN es : es[i] = p.events[i + 1] /\ i + 1 \in DOMAIN p.events
    BY <1>2, <1>3, <2>1
  <2>3. QED
    BY <1>1, <2>1, <2>2, PubUsed DEF HeardFits
<1>5. PICK a : a = [p EXCEPT !.events = es, !.applying = "none"]
  OBVIOUS
<1>6. a \in Pages /\ a.runtime = p.runtime /\ a.phase = p.phase /\ a.heard = p.heard /\ a.events = es
      /\ a.applying = "none" /\ a.accepted = p.accepted /\ a.key = p.key /\ a.listener = p.listener
      /\ a.pending = p.pending /\ a.timer = p.timer /\ a.pass = p.pass /\ a.forgotten = p.forgotten
  BY <1>2, <1>4, <1>5 DEF Pages
<1>7. ~ListenerHealthy(p) /\ ~p.pass.auth /\ ~p.timer
  BY <1>1, <1>2, PubUsed DEF AuthorityFits, DebtFits
<1>8. UNCHANGED <<version, share, marker, publicWrites>>
  BY DEF EventEnds
<1>9. p.pass.pc = "clear" => p.forgotten
  BY <1>1, <1>7, PubUsed DEF ClearFits
<1>10. CASE es # <<>>
  <2>1. page' = a
    BY <1>1, <1>3, <1>5, <1>6, <1>10 DEF EventEnds
  <2>2. ListenerHealthy(a) = ListenerHealthy(p) /\ Ready(a) = Ready(p)
    BY <1>6 DEF ListenerHealthy, Ready
  <2>3. PubTyped(version, share, marker, a, publicWrites)
    BY <1>6, PubUsed DEF PubTyped
  <2>4. HeardFits(version, a) /\ KeyFits(a) /\ AuthorityFits(a)
    BY <1>1, <1>2, <1>4, <1>6, <1>7, <2>2, PubUsed DEF HeardFits, KeyFits, AuthorityFits
  <2>5. PassFits(marker, a, publicWrites)
    BY <1>1, <1>6, <2>2, PubUsed DEF PassFits
  <2>6. AwaitFits(a, publicWrites) /\ ClearFits(share, a, publicWrites)
    BY <1>1, <1>6, <1>9, PubUsed DEF AwaitFits, ClearFits
  <2>7. DebtFits(share, marker, a)
    BY <1>1, <1>2, <1>6, <2>2, PubUsed DEF DebtFits
  <2>8. QED
    BY <1>8, <2>1, <2>3, <2>4, <2>5, <2>6, <2>7 DEF PubInv, PubFits
<1>11. CASE es = <<>>
  <2>1. PICK ph : ph = IF p.phase = "starting" THEN "initializing" ELSE p.phase
    OBVIOUS
  <2>2. ph \in Phases /\ (ph = "ready" <=> p.phase = "ready")
    BY <1>2, <2>1 DEF Pages, Phases
  <2>3. PICK h : h = [a EXCEPT !.listener = "healthy", !.phase = ph]
    OBVIOUS
  <2>4. h \in Pages /\ h.runtime = p.runtime /\ h.phase = ph /\ h.heard = p.heard /\ h.events = es
        /\ h.applying = "none" /\ h.accepted = p.accepted /\ h.key = p.key /\ h.listener = "healthy"
        /\ h.pending = p.pending /\ h.pass = p.pass /\ h.forgotten = p.forgotten
    BY <1>6, <2>2, <2>3 DEF Pages, Listeners
  <2>5. PICK q : q = Schedule(h)
    OBVIOUS
  <2>6. page' = q
    <3>1. page' = Schedule([a EXCEPT !.listener = "healthy", !.phase = IF a.phase = "starting" THEN "initializing" ELSE a.phase])
      BY <1>1, <1>3, <1>5, <1>6, <1>11 DEF EventEnds
    <3>2. QED
      BY <1>6, <2>1, <2>3, <2>5, <3>1
  <2>7. Timed(h, q)
    BY <2>4, <2>5, ScheduleIs
  <2>8. q \in Pages /\ q.runtime = p.runtime /\ q.phase = ph /\ q.heard = p.heard /\ q.events = es
        /\ q.applying = "none" /\ q.accepted = p.accepted /\ q.key = p.key /\ q.listener = "healthy"
        /\ q.pending = p.pending /\ q.pass = p.pass /\ q.forgotten = p.forgotten
        /\ (q.timer <=> p.pass = NoPass /\ p.pending /\ ph = "ready")
    BY <2>4, <2>7 DEF Timed, SameRows, ListenerHealthy, Ready
  <2>9. PubTyped(version, share, marker, q, publicWrites)
    BY <2>8, PubUsed DEF PubTyped
  <2>10. HeardFits(version, q) /\ KeyFits(q) /\ AuthorityFits(q)
    BY <1>1, <1>2, <1>4, <1>7, <1>11, <2>8, PubUsed DEF HeardFits, KeyFits, AuthorityFits
  <2>11. PassFits(marker, q, publicWrites)
    BY <1>1, <2>2, <2>8, PubUsed DEF PassFits, Ready
  <2>12. AwaitFits(q, publicWrites) /\ ClearFits(share, q, publicWrites)
    BY <1>1, <1>9, <2>8, PubUsed DEF AwaitFits, ClearFits
  <2>13. DebtFits(share, marker, q)
    BY <1>1, <1>2, <2>2, <2>8, PubUsed DEF DebtFits, Ready, ListenerHealthy
  <2>14. QED
    BY <1>8, <2>6, <2>9, <2>10, <2>11, <2>12, <2>13 DEF PubInv, PubFits
<1>12. QED
  BY <1>10, <1>11

\* A page without a pass that has heard nothing owes nothing yet.
LEMMA AsleepFits ==
  ASSUME NEW v \in Nat, NEW s \in {0, 1}, NEW m \in BOOLEAN, NEW r \in Nat, NEW ws \in Seq(PubWrites),
         NEW p, p = Asleep(r) \/ p = [Asleep(r) EXCEPT !.phase = "starting", !.pending = m],
         Len(ws) <= MaxPublicWrites, ws # <<>> => m, NoneAwaited(ws)
  PROVE  PubFits(v, s, m, p, ws)
<1>1. PICK a : a = Asleep(r)
  OBVIOUS
<1>2. NoPass \in Passes /\ NoPass.pc = "none" /\ ~NoPass.auth
  BY Parity
<1>3. a \in Pages
  BY <1>1, <1>2 DEF Asleep, Pages, Phases, Listeners, Unknown
<1>4. a.phase = "off" /\ a.listener = "closed" /\ a.heard = 0 /\ a.events = <<>> /\ a.applying = "none"
      /\ a.accepted = 0 /\ a.key = Unknown /\ ~a.timer /\ a.pass = NoPass
  BY <1>1 DEF Asleep
<1>5. /\ p \in Pages /\ p.phase \in {"off", "starting"} /\ p.listener = "closed" /\ p.heard = 0
      /\ p.events = <<>> /\ p.applying = "none" /\ p.accepted = 0 /\ p.key = Unknown /\ ~p.timer
      /\ p.pass = NoPass
  <2>1. CASE p = a
    BY <1>3, <1>4, <2>1
  <2>2. CASE p = [a EXCEPT !.phase = "starting", !.pending = m]
    <3>1. p \in Pages /\ p.phase = "starting" /\ p.listener = a.listener /\ p.heard = a.heard
          /\ p.events = a.events /\ p.applying = a.applying /\ p.accepted = a.accepted /\ p.key = a.key
          /\ p.timer = a.timer /\ p.pass = a.pass
      BY <1>3, <2>2 DEF Pages, Phases
    <3>2. QED
      BY <1>4, <3>1
  <2>3. QED
    BY <1>1, <2>1, <2>2
<1>6. PubTyped(v, s, m, p, ws)
  BY <1>5 DEF PubTyped
<1>7. HeardFits(v, p) /\ KeyFits(p) /\ AuthorityFits(p)
  BY <1>2, <1>5 DEF HeardFits, KeyFits, AuthorityFits, ListenerHealthy
<1>8. PassFits(m, p, ws) /\ ClearFits(s, p, ws)
  BY <1>2, <1>5 DEF PassFits, ClearFits, Marked
<1>9. AwaitFits(p, ws)
  BY <1>2, <1>5 DEF AwaitFits, Awaits, NoneAwaited
<1>10. DebtFits(s, m, p)
  BY <1>5 DEF DebtFits, Ready
<1>11. QED
  BY <1>6, <1>7, <1>8, <1>9, <1>10 DEF PubFits

LEMMA PubStart ==
  ASSUME PubInit
  PROVE  PubInv
<1>1. PICK v, m, ws : v = version /\ m = marker /\ ws = publicWrites
  OBVIOUS
<1>2. v \in Nat /\ share \in {0, 1} /\ m \in BOOLEAN /\ ws = <<>> /\ page = Asleep(0)
  BY <1>1 DEF PubInit
<1>3. ws \in Seq(PubWrites) /\ Len(ws) <= MaxPublicWrites /\ NoneAwaited(ws)
  BY <1>2, PublicationAssumption DEF NoneAwaited
<1>4. PubFits(v, share, m, page, ws)
  BY <1>2, <1>3, AsleepFits
<1>5. QED
  BY <1>1, <1>4 DEF PubInv

LEMMA StartRuntimeFits ==
  ASSUME PubInv, StartRuntime
  PROVE  PubInv'
<1>1. page' = [Asleep(page.runtime + 1) EXCEPT !.phase = "starting", !.pending = marker]
      /\ UNCHANGED <<version, share, marker, publicWrites>> /\ page.phase = "off"
  BY DEF StartRuntime
<1>2. PICK r : r = page.runtime + 1
  OBVIOUS
<1>3. r \in Nat
  BY <1>2, PubUsed DEF Pages
<1>4. PICK p : p = [Asleep(r) EXCEPT !.phase = "starting", !.pending = marker]
  OBVIOUS
<1>5. page.pass = NoPass /\ page.pass.pc = "none"
  BY <1>1, PubUsed, Parity DEF PassFits, Ready
<1>6. (publicWrites # <<>> => marker) /\ NoneAwaited(publicWrites)
  BY <1>5, PubUsed DEF PassFits, AwaitFits, Awaits, NoneAwaited
<1>7. PubFits(version, share, marker, p, publicWrites)
  BY <1>3, <1>4, <1>6, PubUsed, AsleepFits
<1>8. QED
  BY <1>1, <1>2, <1>4, <1>7 DEF PubInv

LEMMA StartupFits ==
  ASSUME PubInv, StartupPublishes
  PROVE  PubInv'
<1>1. PICK p : p = page
  OBVIOUS
<1>2. PICK a : a = [p EXCEPT !.phase = "ready"]
  OBVIOUS
<1>3. p \in Pages /\ p.phase = "initializing"
  BY <1>1, PubUsed DEF StartupPublishes
<1>4. page' = Publish(a) /\ UNCHANGED <<version, share, marker, publicWrites>>
  BY <1>1, <1>2 DEF StartupPublishes
<1>5. a \in Pages /\ a.heard = p.heard /\ a.events = p.events /\ a.phase = "ready"
      /\ a.applying = p.applying /\ a.accepted = p.accepted /\ a.key = p.key /\ a.listener = p.listener
      /\ a.pass = p.pass
  BY <1>2, <1>3 DEF Pages, Phases
<1>6. p.pass = NoPass /\ p.pass.pc = "none"
  BY <1>1, <1>3, PubUsed, Parity DEF PassFits, Ready
<1>7. Ready(a) /\ Begun(a, Publish(a))
  BY <1>5, <1>6, PublishIs DEF Ready
<1>8. PubTyped(version, share, marker, a, publicWrites) /\ HeardFits(version, a) /\ KeyFits(a)
  BY <1>1, <1>3, <1>5, PubUsed DEF PubTyped, HeardFits, KeyFits
<1>9. ListenerHealthy(a) => a.events = <<>>
  BY <1>1, <1>5, PubUsed DEF AuthorityFits, ListenerHealthy
<1>10. (publicWrites # <<>> => marker) /\ NoneAwaited(publicWrites)
  BY <1>1, <1>6, PubUsed DEF PassFits, AwaitFits, Awaits, NoneAwaited
<1>11. PubFits(version, share, marker, Publish(a), publicWrites)
  BY <1>7, <1>8, <1>9, <1>10, BegunFits
<1>12. QED
  BY <1>4, <1>11 DEF PubInv

LEMMA StopFits ==
  ASSUME PubInv, StopRuntime
  PROVE  PubInv'
<1>1. page' = Asleep(page.runtime) /\ UNCHANGED <<version, share, marker>>
  BY DEF StopRuntime
<1>2. page' = Asleep(page.runtime) /\ page.runtime \in Nat
  BY <1>1, PubUsed DEF Pages
<1>3. CASE publicWrites' = Unawaited(publicWrites)
  <2>1. PICK nws : nws = Unawaited(publicWrites)
    OBVIOUS
  <2>2. nws \in Seq(PubWrites) /\ Len(nws) <= MaxPublicWrites /\ NoneAwaited(nws) /\ (nws # <<>> => marker)
    BY <2>1, PubUsed, UnawaitedIs DEF PassFits
  <2>3. PubFits(version, share, marker, page', nws)
    BY <1>2, <2>2, PubUsed, AsleepFits
  <2>4. QED
    BY <1>1, <1>3, <2>1, <2>3 DEF PubInv
<1>4. CASE /\ page.pass.pc \in {"write", "proof"} /\ Len(publicWrites) < MaxPublicWrites
           /\ \E r \in {page.runtime, page.runtime + 1} :
                publicWrites' = Unawaited(Append(publicWrites, [Write EXCEPT !.runtime = r]))
  <2>1. PICK r \in {page.runtime, page.runtime + 1} :
          publicWrites' = Unawaited(Append(publicWrites, [Write EXCEPT !.runtime = r]))
    BY <1>4
  <2>2. page.pass.pc \in Marked
    BY <1>4 DEF Marked
  <2>3. marker = TRUE
    BY <2>2, MarkedUsed
  <2>4. PICK w : w = [Write EXCEPT !.runtime = r]
    OBVIOUS
  <2>5. r \in Nat /\ page.pass.content \in {0, 1}
    BY <1>2, PubUsed DEF Passes
  <2>6. w \in PubWrites
    BY <1>2, <2>4, <2>5 DEF Write, PubWrites
  <2>7. PICK ws : ws = Append(publicWrites, w)
    OBVIOUS
  <2>8. ws \in Seq(PubWrites) /\ Len(ws) <= MaxPublicWrites
    BY <1>4, <2>6, <2>7, PubUsed, PublicationAssumption
  <2>9. PICK nws : nws = Unawaited(ws)
    OBVIOUS
  <2>10. nws \in Seq(PubWrites) /\ Len(nws) <= MaxPublicWrites /\ NoneAwaited(nws)
    BY <2>8, <2>9, UnawaitedIs
  <2>11. PubFits(version, share, marker, page', nws)
    BY <1>2, <2>3, <2>10, PubUsed, AsleepFits
  <2>12. QED
    BY <1>1, <2>1, <2>4, <2>7, <2>9, <2>11 DEF PubInv
<1>5. QED
  BY <1>3, <1>4 DEF StopRuntime

LEMMA ReloadPageFits ==
  ASSUME PubInv, ReloadPage
  PROVE  PubInv'
<1>1. page' = Asleep(page.runtime) /\ publicWrites' = <<>> /\ UNCHANGED <<version, marker>>
  BY DEF ReloadPage
<1>2. page' = Asleep(page.runtime) /\ page.runtime \in Nat
  BY <1>1, PubUsed DEF Pages
<1>3. PICK s : s = share'
  OBVIOUS
<1>4. PICK k \in 0..Len(publicWrites) : s = IF k = 0 THEN share ELSE publicWrites[k].content
  BY <1>3 DEF ReloadPage
<1>5. s \in {0, 1}
  <2>1. CASE k = 0
    BY <1>4, <2>1, PubUsed
  <2>2. CASE k # 0
    <3>1. k \in DOMAIN publicWrites /\ publicWrites[k] \in PubWrites
      BY <2>2, PubUsed
    <3>2. QED
      BY <1>4, <2>2, <3>1 DEF PubWrites
  <2>3. QED
    BY <2>1, <2>2
<1>6. PICK ws : ws = <<>>
  OBVIOUS
<1>7. ws \in Seq(PubWrites) /\ Len(ws) <= MaxPublicWrites /\ NoneAwaited(ws)
  BY <1>6, PublicationAssumption DEF NoneAwaited
<1>8. PubFits(version, s, marker, page', ws)
  BY <1>2, <1>5, <1>6, <1>7, PubUsed, AsleepFits
<1>9. QED
  BY <1>1, <1>3, <1>6, <1>8 DEF PubInv

LEMMA PubStep ==
  ASSUME PubInv, [PubNext]_pubVars
  PROVE  PubInv'
<1>1. CASE PassStep
  BY <1>1, MarksFits, ProjectsFits, BeginsFits, WritesFits, ReadsProofFits, VerifiesFits, ClearsFits, TimerFits
     DEF PassStep
<1>2. CASE EventStep
  BY <1>2, HearFits, ApplyFits, EventMarksFits, EventEndsFits, StartupFits DEF EventStep
<1>3. CASE WriteLands \/ WriteTimesOut \/ WriteIsRefused \/ AwaitFails
  BY <1>3, LandsFits, TimesOutFits, RefusedFits, AwaitFailsFits
<1>4. CASE ProofExpires \/ UNCHANGED pubVars
  BY <1>4, ExpiresFits
<1>5. CASE RowsChange \/ DispatchPublishes \/ StartRuntime \/ StopRuntime \/ ReloadPage
  BY <1>5, ChangesFits, DispatchFits, StartRuntimeFits, StopFits, ReloadPageFits
<1>6. QED
  BY <1>1, <1>2, <1>3, <1>4, <1>5 DEF PubNext

LEMMA PubMeans ==
  ASSUME PubInv
  PROVE  DebtsAreKnown
<1>1. PubTypeOK
  BY PubUsed DEF PubTypeOK, HeardFits, DebtFits, AuthorityFits, AwaitFits, Awaits, At
<1>2. ListenerHealthy(page) => page.applying # "marks"
  BY PubUsed DEF AuthorityFits, KeyFits
<1>3. QuietIsPublished
  BY <1>2, PubUsed, Parity DEF QuietIsPublished, Quiet, Published, DebtFits
<1>4. StaleIsMarked
  BY <1>2, PubUsed DEF StaleIsMarked, DebtFits, At
<1>5. QED
  BY <1>1, <1>3, <1>4 DEF DebtsAreKnown

\* A page at rest shows the account's rows in the share and has no marker left; one at work has a
\* durable marker while the share is behind: however late writes land and however often the rows
\* change, runtimes are replaced or the page is reloaded; unless an event was heard while a pass
\* removed the marker, which the continuation forgets (ChangesAreServed fails).
THEOREM DebtsStayKnownUnlessForgotten == PubSpec => []DebtsAreKnown
<1>1. PubInit => PubInv
  BY PubStart
<1>2. PubInv /\ [PubNext]_pubVars => PubInv'
  BY PubStep
<1>3. PubInv => DebtsAreKnown
  BY PubMeans
<1>4. QED
  BY <1>1, <1>2, <1>3, PTL DEF PubSpec
=============================================================================
