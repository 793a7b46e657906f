---------------------------- MODULE ServicesProofs ----------------------------
(***************************************************************************)
(* Proofs about the services that many callers share: FavoriteQuota,       *)
(* TrustedRequests and E1Authority, each for any constants.                *)
(***************************************************************************)
EXTENDS FavoriteQuota, TrustedRequests, E1Authority, TLAPS, FiniteSetTheorems

-----------------------------------------------------------------------------
(***************************************************************************)
(* The quota of the favourite resolver.  The argument: a replacement that  *)
(* still meets its generation is what its call made of the CURRENT object  *)
(* (Fresh), so no charge is lost and none is made twice; and a lease       *)
(* outlives the platform's timeout, so whoever is still at work holds one  *)
(* that no other call has dropped (ChargeFits).                            *)
(***************************************************************************)
QuotaCall ==
  [ pc : {"idle", "read", "wait", "sleep", "resolve", "done"}, job : {"acquire", "release"},
    open : BOOLEAN, started : 0..MaxTime, size : Nat, attempt : 0..MaxCas - 1,
    throttled : 0..MaxThrottled, wake : Nat, lease : BOOLEAN,
    write : Replacements \cup {None}, sent : BOOLEAN,
    reply : {"ok", "lost-race", "throttled", None}, refused : BOOLEAN ]

Charge == [call : Calls, at : Nat, size : Nat, window : 0..MaxTime]

QuotaTyped ==
  /\ clock \in 0..MaxTime
  /\ quota \in [generation : Nat, value : Counters \cup {None}]
  /\ calls \in [Calls -> QuotaCall]
  /\ charged \subseteq Charge
  /\ IsFiniteSet(charged)

Paid(c) == \E x \in charged : x.call = c

InWindow(n) == {x \in charged : x.window = n}

\* What a value that may replace the current object keeps of it.
Follows(c, w) ==
  /\ Valid(w)
  /\ \A x \in charged : x.window <= w.window
  /\ \A d \in Calls \ {c} :
       \/ w.leases[d] = 0 /\ (quota.value # None => quota.value.leases[d] <= clock)
       \/ quota.value # None /\ w.leases[d] = quota.value.leases[d]

\* What a replacement of the current generation does to the object.
Fresh(c, w, started) ==
  /\ Follows(c, w)
  /\ \/ /\ w.leases[c] = 0
        /\ w.requests = Cardinality(InWindow(w.window))
     \/ /\ w.leases[c] >= started + Lease
        /\ ~Paid(c)
        /\ w.requests = Cardinality(InWindow(w.window)) + 1

\* Where a request can be, with what it has sent and what it has paid for.
ChargeFits(c, k) ==
  /\ k.pc \in {"idle", "read", "resolve"} => ~k.sent /\ k.write = None
  /\ k.pc = "sleep" => ~k.sent
  /\ k.pc \in {"read", "sleep"} => k.reply = None
  /\ k.pc # "done" => ~k.refused
  /\ k.pc \in {"wait", "sleep"} => k.write # None
  /\ k.sent => k.write # None /\ k.reply = None /\ ~k.refused
  /\ k.pc = "idle" \/ k.refused => ~Paid(c)
  /\ k.pc = "resolve" => k.job = "acquire" /\ Paid(c)
  /\ k.pc = "wait" /\ k.reply = "ok" /\ k.job = "acquire" => Paid(c)
  /\ k.pc \notin {"idle", "done"} => k.started <= clock /\ clock <= k.started + Platform
  /\ k.pc \notin {"idle", "done"} /\ k.job = "acquire" /\ Paid(c) =>
       quota.value # None /\ quota.value.leases[c] >= k.started + Lease
  /\ k.write # None =>
       /\ k.write.generation <= quota.generation
       /\ k.write.generation = quota.generation =>
            /\ k.pc = "done" => Fresh(c, k.write.value, 0)
            /\ k.pc # "done" => Fresh(c, k.write.value, k.started)
       /\ k.job = "acquire" => k.write.value.leases[c] > 0

ObjectFits ==
  /\ quota.value = None => charged = {}
  /\ quota.value # None =>
       /\ Valid(quota.value)
       /\ \A x \in charged : x.window <= quota.value.window
       /\ \A c \in Calls : quota.value.leases[c] > 0 => Paid(c)
       /\ quota.value.requests = Cardinality(InWindow(quota.value.window))

PaidOnce == \A x, y \in charged : x.call = y.call => x = y

QuotaInv ==
  /\ QuotaTyped
  /\ \A c \in Calls : ChargeFits(c, calls[c])
  /\ ObjectFits
  /\ PaidOnce

-----------------------------------------------------------------------------
(* The object a call starts from. *)

LEMMA Bounds ==
  /\ MaxRequests \in Nat \ {0} /\ MaxWork \in Nat \ {0} /\ Concurrency \in Nat \ {0}
  /\ Deadline \in Nat \ {0} /\ Platform \in Nat \ {0} /\ Lease \in Nat \ {0} /\ Window \in Nat \ {0}
  /\ MaxCas \in Nat \ {0} /\ MaxThrottled \in Nat \ {0} /\ Delay \in Nat \ {0} /\ MaxTime \in Nat \ {0}
  /\ Platform < Lease
BY QuotaAssumption DEF QuotaAssumption

LEMMA WindowFinite ==
  ASSUME QuotaTyped, NEW n
  PROVE  IsFiniteSet(InWindow(n)) /\ Cardinality(InWindow(n)) \in Nat
<1>1. InWindow(n) \in SUBSET charged
  BY DEF InWindow
<1> QED
  BY <1>1, FS_Subset, FS_CardinalityType DEF QuotaTyped

LEMMA HoldersFinite ==
  ASSUME NEW v
  PROVE  IsFiniteSet(Holders(v)) /\ Cardinality(Holders(v)) \in Nat
<1>1. Holders(v) \in SUBSET Calls
  BY DEF Holders
<1> QED
  BY <1>1, QuotaAssumption, FS_Subset, FS_CardinalityType DEF QuotaAssumption

LEMMA FewerHolders ==
  ASSUME NEW v, NEW w, Holders(w) \subseteq Holders(v)
  PROVE  Cardinality(Holders(w)) <= Cardinality(Holders(v))
BY HoldersFinite, FS_Subset

LEMMA PriorType == ASSUME QuotaTyped PROVE Prior \in Counters
BY QuotaAssumption DEF Prior, QuotaTyped, Counters, QuotaAssumption

\* The value an update starts from is one that may replace the object, and counts its window.
LEMMA PriorFollows ==
  ASSUME QuotaTyped, ObjectFits, NEW c \in Calls
  PROVE  /\ Follows(c, Prior)
         /\ Prior.requests = Cardinality(InWindow(Prior.window))
         /\ Prior.leases[c] > 0 => quota.value # None /\ quota.value.leases[c] > 0
         /\ quota.value # None /\ quota.value.leases[c] > clock => Prior.leases[c] > 0
<1> USE QuotaAssumption DEF QuotaAssumption
<1>1. Prior \in Counters
  BY PriorType
<1>2. \A d \in Calls :
        \/ /\ Prior.leases[d] = 0
           /\ quota.value # None => quota.value.leases[d] <= clock
        \/ /\ quota.value # None /\ Prior.leases[d] = quota.value.leases[d]
           /\ quota.value.leases[d] > clock
  BY DEF Prior, QuotaTyped, Counters
<1>3. \/ /\ quota.value # None /\ Prior.window = quota.value.window
         /\ Prior.requests = quota.value.requests /\ Prior.work = quota.value.work
      \/ /\ Prior.window = clock /\ Prior.requests = 0 /\ Prior.work = 0
         /\ quota.value # None => clock > quota.value.window
  BY DEF Prior, QuotaTyped, Counters
<1>4. Valid(Prior)
  <2>1. Prior.requests <= MaxRequests /\ Prior.work <= MaxWork
    BY <1>3 DEF ObjectFits, Valid
  <2>2. CASE quota.value = None
    <3>1. Holders(Prior) = {}
      BY <1>2, <2>2 DEF Holders
    <3> QED
      BY <2>1, <3>1, FS_EmptySet DEF Valid
  <2>3. CASE quota.value # None
    <3>1. Holders(Prior) \subseteq Holders(quota.value)
      BY <1>2 DEF Holders
    <3>2. Cardinality(Holders(quota.value)) <= Concurrency
      BY <2>3 DEF ObjectFits, Valid
    <3> QED
      BY <2>1, <3>1, <3>2, FewerHolders, HoldersFinite DEF Valid
  <2> QED
    BY <2>2, <2>3
<1>5. /\ \A x \in charged : x.window <= Prior.window
      /\ Prior.requests = Cardinality(InWindow(Prior.window))
  <2>1. CASE quota.value # None /\ Prior.window = quota.value.window
             /\ Prior.requests = quota.value.requests
    BY <2>1 DEF ObjectFits
  <2>2. CASE /\ Prior.window = clock /\ Prior.requests = 0
             /\ quota.value # None => clock > quota.value.window
    <3>1. \A x \in charged : x.window < clock
      BY <2>2 DEF ObjectFits, QuotaTyped, Charge, Counters
    <3>2. InWindow(clock) = {}
      BY <3>1 DEF InWindow, QuotaTyped, Charge
    <3> QED
      BY <2>2, <3>1, <3>2, FS_EmptySet DEF QuotaTyped, Charge
  <2> QED
    BY <1>3, <2>1, <2>2
<1> QED
  BY <1>1, <1>2, <1>4, <1>5 DEF Follows, Counters, QuotaTyped

-----------------------------------------------------------------------------
(* Steps of one request that leave the clock, the object and the charges. *)

LEMMA ChargeStep ==
  ASSUME QuotaInv, NEW c \in Calls, NEW k \in QuotaCall, Step(c, k), ChargeFits(c, k),
         UNCHANGED <<clock, quota, charged>>
  PROVE  QuotaInv'
<1> USE DEF QuotaInv
<1>1. calls' = [calls EXCEPT ![c] = k] /\ calls \in [Calls -> QuotaCall]
  BY DEF Step, QuotaTyped
<1>2. QuotaTyped'
  BY <1>1 DEF QuotaTyped
<1>3. ObjectFits' /\ PaidOnce'
  BY DEF ObjectFits, PaidOnce, InWindow, Valid, Holders, Paid
<1>4. ASSUME NEW d \in Calls PROVE ChargeFits(d, calls[d])'
  <2>1. ChargeFits(d, calls'[d])
    BY <1>1
  <2>2. ASSUME NEW w, NEW n PROVE Fresh(d, w, n)' <=> Fresh(d, w, n)
    BY DEF Fresh, Follows, Paid, InWindow, Valid, Holders
  <2>3. Paid(d)' <=> Paid(d)
    BY DEF Paid
  <2> QED
    BY <2>1, <2>2, <2>3 DEF ChargeFits
<1> QED
  BY <1>2, <1>3, <1>4

LEMMA IdleType == Idle \in QuotaCall
BY QuotaAssumption DEF Idle, QuotaCall, QuotaAssumption

LEMMA OverFields ==
  ASSUME NEW c \in Calls, calls[c] \in QuotaCall
  PROVE  /\ Over(c) \in QuotaCall
         /\ Over(c).pc = "done" /\ Over(c).reply = None /\ ~Over(c).refused
         /\ Over(c).sent = calls[c].sent
         /\ calls[c].sent => Over(c).write = calls[c].write /\ Over(c).job = calls[c].job
         /\ ~calls[c].sent => Over(c).write = None
<1> DEFINE job == IF calls[c].sent THEN calls[c].job ELSE "acquire"
           size == IF calls[c].sent THEN calls[c].size ELSE 0
           write == IF calls[c].sent THEN calls[c].write ELSE None
<1>1. /\ job \in {"acquire", "release"} /\ size \in Nat
      /\ write \in Replacements \cup {None} /\ calls[c].sent \in BOOLEAN
  BY DEF QuotaCall
<1>2. Over(c) = [Idle EXCEPT !.pc = "done", !.open = FALSE, !.job = job, !.size = size,
                             !.sent = calls[c].sent, !.write = write]
  BY DEF Over, Idle
<1>3. /\ calls[c].sent => job = calls[c].job /\ write = calls[c].write
      /\ ~calls[c].sent => write = None
  OBVIOUS
<1> HIDE DEF job, size, write
<1>4. Over(c) \in QuotaCall
  BY <1>1, <1>2, IdleType DEF QuotaCall
<1>5. /\ Over(c).pc = "done" /\ Over(c).reply = None /\ Over(c).refused = FALSE
      /\ Over(c).sent = calls[c].sent /\ Over(c).write = write /\ Over(c).job = job
  BY <1>2 DEF Idle
<1> QED
  BY <1>3, <1>4, <1>5

LEMMA OverFits ==
  ASSUME QuotaInv, NEW c \in Calls, calls[c].pc # "idle"
  PROVE  Over(c) \in QuotaCall /\ ChargeFits(c, Over(c))
<1> DEFINE k == calls[c]
<1>1. k \in QuotaCall /\ ChargeFits(c, k)
  BY DEF QuotaInv, QuotaTyped
<1>2. ASSUME k.sent, k.write.generation = quota.generation
      PROVE  Fresh(c, k.write.value, 0)
  <2>1. k.write # None
    BY <1>1, <1>2 DEF ChargeFits
  <2>2. PICK n \in Nat : Fresh(c, k.write.value, n)
    <3>1. k.started \in Nat
      BY <1>1, Bounds DEF QuotaCall
    <3>2. CASE k.pc = "done"
      BY <1>1, <1>2, <2>1, <3>2 DEF ChargeFits
    <3>3. CASE k.pc # "done"
      BY <1>1, <1>2, <2>1, <3>1, <3>3 DEF ChargeFits
    <3> QED
      BY <3>2, <3>3
  <2>3. k.write \in Replacements
    BY <1>1, <2>1 DEF QuotaCall
  <2>4. k.write.value.leases[c] \in Int
    BY <2>3, Bounds DEF Replacements, Counters
  <2>5. k.write.value.leases[c] >= n + Lease => k.write.value.leases[c] >= 0 + Lease
    BY <2>4, Bounds
  <2> QED
    BY <2>2, <2>5 DEF Fresh
<1>3. k.sent => k.write # None /\ k.write.generation <= quota.generation
                /\ (k.job = "acquire" => k.write.value.leases[c] > 0)
  BY <1>1 DEF ChargeFits
<1> HIDE DEF k
<1> QED
  BY <1>1, <1>2, <1>3, OverFields DEF ChargeFits, k

LEMMA OverStep ==
  ASSUME QuotaInv, NEW c \in Calls, calls[c].pc # "idle", Step(c, Over(c)),
         UNCHANGED <<clock, quota, charged>>
  PROVE  QuotaInv'
<1>1. Over(c) \in QuotaCall /\ ChargeFits(c, Over(c))
  BY OverFits
<1> QED
  BY <1>1, ChargeStep

\* A request that gives back its lease, or that goes on to resolve with one it paid for.
LEMMA ReleasingFits ==
  ASSUME QuotaInv, NEW c \in Calls, Running(c)
  PROVE  Releasing(c) \in QuotaCall /\ ChargeFits(c, Releasing(c))
<1> DEFINE k == calls[c]
<1>1. k \in QuotaCall /\ ChargeFits(c, k)
  BY DEF QuotaInv, QuotaTyped
<1>2. Releasing(c) = [Idle EXCEPT !.pc = "read", !.job = "release", !.open = FALSE, !.started = k.started]
  BY DEF Releasing
<1>3. Releasing(c) \in QuotaCall
  BY <1>1, <1>2, IdleType DEF QuotaCall
<1> QED
  BY <1>1, <1>2, <1>3 DEF ChargeFits, Idle, Running

LEMMA GrantedFits ==
  ASSUME QuotaInv, NEW c \in Calls, Running(c), ~calls[c].sent, calls[c].job = "acquire", Paid(c)
  PROVE  Granted(c) \in QuotaCall /\ ChargeFits(c, Granted(c))
<1> DEFINE k == calls[c]
<1>1. k \in QuotaCall /\ ChargeFits(c, k)
  BY DEF QuotaInv, QuotaTyped
<1>2. CASE Granted(c) = Releasing(c)
  BY <1>2, ReleasingFits
<1>3. CASE Granted(c) = Over(c)
  BY <1>3, OverFits DEF Running
<1>4. CASE Granted(c) = [k EXCEPT !.pc = "resolve", !.lease = TRUE, !.attempt = 0,
                                  !.throttled = 0, !.write = None, !.reply = None]
  <2>1. 0 \in 0..MaxCas - 1 /\ 0 \in 0..MaxThrottled
    BY Bounds
  <2> DEFINE j == [k EXCEPT !.pc = "resolve", !.lease = TRUE, !.write = None]
  <2>2. j \in QuotaCall
    BY <1>1 DEF QuotaCall
  <2>3. Granted(c) = [j EXCEPT !.attempt = 0, !.throttled = 0, !.reply = None]
    BY <1>4
  <2> HIDE DEF j
  <2>4. Granted(c) \in QuotaCall
    BY <2>1, <2>2, <2>3 DEF QuotaCall
  <2>5. ~k.refused
    BY <1>1 DEF ChargeFits, Running
  <2> QED
    BY <1>1, <1>4, <2>4, <2>5 DEF ChargeFits, Running, QuotaCall
<1> QED
  BY <1>2, <1>3, <1>4 DEF Granted

LEMMA StartStep == ASSUME QuotaInv, NEW c \in Calls, QuotaBegin(c) PROVE QuotaInv'
<1>1. calls[c] \in QuotaCall /\ ChargeFits(c, calls[c]) /\ clock \in 0..MaxTime
  BY DEF QuotaInv, QuotaTyped
<1>2. PICK n \in Sizes : Step(c, [Idle EXCEPT !.pc = "read", !.started = clock, !.size = n])
  BY DEF QuotaBegin
<1>3. n \in Nat
  BY QuotaAssumption DEF QuotaAssumption
<1> DEFINE k == [Idle EXCEPT !.pc = "read", !.started = clock, !.size = n]
<1>4. k \in QuotaCall
  BY <1>1, <1>3, IdleType DEF QuotaCall
<1>5. ChargeFits(c, k)
  BY <1>1, Bounds DEF ChargeFits, QuotaBegin, Idle
<1> QED
  BY <1>2, <1>4, <1>5, ChargeStep DEF QuotaBegin

\* What a call sends is what it made of the object as it is.
LEMMA SendFits ==
  ASSUME QuotaInv, NEW c \in Calls, calls[c].pc = "read", NEW w \in Counters,
         Fresh(c, w, calls[c].started), calls[c].job = "acquire" => w.leases[c] > 0
  PROVE  LET k == [calls[c] EXCEPT !.pc = "wait", !.sent = TRUE,
                              !.write = [generation |-> quota.generation, value |-> w]]
         IN  k \in QuotaCall /\ ChargeFits(c, k)
<1> DEFINE r == [generation |-> quota.generation, value |-> w]
           k == [calls[c] EXCEPT !.pc = "wait", !.sent = TRUE, !.write = r]
<1>1. calls[c] \in QuotaCall /\ ChargeFits(c, calls[c]) /\ quota.generation \in Nat
  BY DEF QuotaInv, QuotaTyped
<1>2. r \in Replacements /\ r # None
  BY <1>1, NoneAssumption DEF Replacements
<1>3. r.generation = quota.generation /\ r.value = w
  OBVIOUS
<1> HIDE DEF r
<1>4. k \in QuotaCall
  BY <1>1, <1>2 DEF QuotaCall
<1>5. /\ k.pc = "wait" /\ k.sent = TRUE /\ k.write = r /\ k.reply = None /\ k.refused = FALSE
      /\ k.started = calls[c].started /\ k.job = calls[c].job
  BY <1>1 DEF ChargeFits, QuotaCall
<1> HIDE DEF k
<1>6. ChargeFits(c, k)
  BY <1>1, <1>2, <1>3, <1>5, NoneAssumption DEF ChargeFits, QuotaCall
<1> QED
  BY <1>4, <1>6 DEF r, k

LEMMA ReleasedFresh ==
  ASSUME QuotaInv, NEW c \in Calls
  PROVE  Released(c, Prior) \in Counters /\ Fresh(c, Released(c, Prior), calls[c].started)
<1> DEFINE v == Prior
           w == Released(c, v)
<1>1. v \in Counters /\ Follows(c, v) /\ v.requests = Cardinality(InWindow(v.window))
  BY PriorType, PriorFollows DEF QuotaInv
<1>2. /\ w \in Counters /\ w.leases[c] = 0 /\ w.requests = v.requests /\ w.work = v.work
      /\ w.window = v.window /\ \A d \in Calls \ {c} : w.leases[d] = v.leases[d]
  BY <1>1, Bounds DEF Released, Counters
<1> HIDE DEF v, w
<1>3. Holders(w) \subseteq Holders(v)
  BY <1>1, <1>2 DEF Holders
<1>4. Cardinality(Holders(w)) <= Concurrency
  BY <1>1, <1>3, FewerHolders, HoldersFinite, Bounds DEF Follows, Valid
<1>5. Follows(c, w)
  BY <1>1, <1>2, <1>4 DEF Follows, Valid
<1> QED
  BY <1>1, <1>2, <1>5 DEF Fresh, v, w

\* A call that finds no lease of its own has not paid: one it paid for outlives it.
LEMMA Unpaid ==
  ASSUME QuotaInv, NEW c \in Calls, calls[c].pc = "read", calls[c].job = "acquire",
         ~(Prior.leases[c] > 0)
  PROVE  ~Paid(c)
<1>1. /\ calls[c] \in QuotaCall /\ ChargeFits(c, calls[c]) /\ clock \in 0..MaxTime
      /\ quota.value # None => quota.value \in Counters
  BY DEF QuotaInv, QuotaTyped
<1> SUFFICES ASSUME Paid(c) PROVE FALSE
  OBVIOUS
<1>2. quota.value # None /\ quota.value.leases[c] >= calls[c].started + Lease
  BY <1>1 DEF ChargeFits
<1>3. clock <= calls[c].started + Platform
  BY <1>1 DEF ChargeFits
<1>4. quota.value.leases[c] > clock
  BY <1>1, <1>2, <1>3, Bounds DEF QuotaCall, Counters
<1> QED
  BY <1>2, <1>4, PriorFollows DEF QuotaInv

LEMMA ChargedFresh ==
  ASSUME QuotaInv, NEW c \in Calls, calls[c].pc = "read", calls[c].job = "acquire",
         ~(Prior.leases[c] > 0), HasRoom(Prior, calls[c].size),
         Cardinality(Holders(Prior)) < Concurrency
  PROVE  Charged(c, Prior) \in Counters /\ Fresh(c, Charged(c, Prior), calls[c].started)
         /\ Charged(c, Prior).leases[c] > 0
<1> DEFINE v == Prior
           w == Charged(c, v)
<1>1. v \in Counters /\ Follows(c, v) /\ v.requests = Cardinality(InWindow(v.window))
  BY PriorType, PriorFollows DEF QuotaInv
<1>2. /\ calls[c] \in QuotaCall /\ ChargeFits(c, calls[c]) /\ clock \in 0..MaxTime
      /\ quota.value # None => quota.value \in Counters
  BY DEF QuotaInv, QuotaTyped
<1>3. /\ w \in Counters /\ w.leases[c] = clock + Lease /\ w.requests = v.requests + 1
      /\ w.work = v.work + calls[c].size
      /\ w.window = v.window /\ \A d \in Calls \ {c} : w.leases[d] = v.leases[d]
  <2>1. w = [ v EXCEPT !.requests = v.requests + 1, !.work = v.work + calls[c].size,
                       !.leases = [v.leases EXCEPT ![c] = clock + Lease] ]
    BY DEF Charged
  <2> DEFINE leases == [v.leases EXCEPT ![c] = clock + Lease]
             n == v.requests + 1
             m == v.work + calls[c].size
  <2> HIDE DEF v
  <2>2. /\ leases \in [Calls -> 0..MaxTime + Lease] /\ leases[c] = clock + Lease
        /\ \A d \in Calls \ {c} : leases[d] = v.leases[d]
        /\ n \in Nat /\ m \in Nat
    BY <1>1, <1>2, Bounds DEF Counters, QuotaCall
  <2> HIDE DEF leases, n, m, w
  <2>3. w = [v EXCEPT !.requests = n, !.work = m, !.leases = leases]
    BY <2>1 DEF leases, n, m
  <2>4. /\ w \in Counters /\ w.leases = leases /\ w.requests = n /\ w.work = m
        /\ w.window = v.window
    BY <1>1, <2>2, <2>3 DEF Counters
  <2> QED
    BY <2>2, <2>4 DEF n, m
<1>4. ~Paid(c)
  BY Unpaid
<1> HIDE DEF v, w
<1>5. Holders(w) \subseteq Holders(v) \cup {c}
  BY <1>1, <1>3 DEF Holders
<1>6. Cardinality(Holders(w)) <= Concurrency
  <2>1. IsFiniteSet(Holders(v) \cup {c}) /\ Cardinality(Holders(v) \cup {c}) <= Cardinality(Holders(v)) + 1
    <3>1. IsFiniteSet(Holders(v)) /\ Cardinality(Holders(v)) \in Nat
      BY HoldersFinite
    <3>2. /\ IsFiniteSet(Holders(v) \cup {c})
          /\ Cardinality(Holders(v) \cup {c}) \in {Cardinality(Holders(v)), Cardinality(Holders(v)) + 1}
      BY <3>1, FS_AddElement
    <3> QED
      BY <3>1, <3>2
  <2>2. Cardinality(Holders(w)) <= Cardinality(Holders(v) \cup {c})
    BY <1>5, <2>1, FS_Subset
  <2>3. Cardinality(Holders(v) \cup {c}) \in Nat
    BY <2>1, FS_CardinalityType
  <2>4. Cardinality(Holders(v)) < Concurrency
    BY DEF v
  <2> QED
    BY <2>1, <2>2, <2>3, <2>4, HoldersFinite, Bounds
<1>7. w.requests <= MaxRequests /\ w.work <= MaxWork
  BY <1>1, <1>2, <1>3, Bounds DEF HasRoom, v, Counters, QuotaCall
<1>8. Follows(c, w)
  BY <1>1, <1>3, <1>6, <1>7 DEF Follows, Valid
<1>9. w.leases[c] >= calls[c].started + Lease /\ w.leases[c] > 0
  BY <1>2, <1>3, Bounds DEF ChargeFits, QuotaCall
<1>10. w.requests = Cardinality(InWindow(w.window)) + 1
  BY <1>1, <1>3
<1> QED
  BY <1>3, <1>4, <1>8, <1>9, <1>10 DEF Fresh, v, w

LEMMA RefusedFits ==
  ASSUME QuotaInv, NEW c \in Calls, calls[c].pc = "read", ~Paid(c)
  PROVE  LET k == [Over(c) EXCEPT !.refused = TRUE] IN k \in QuotaCall /\ ChargeFits(c, k)
<1> DEFINE o == Over(c)
           k == [o EXCEPT !.refused = TRUE]
<1>1. calls[c] \in QuotaCall /\ ChargeFits(c, calls[c])
  BY DEF QuotaInv, QuotaTyped
<1>2. o \in QuotaCall /\ ChargeFits(c, o) /\ o.pc = "done" /\ ~o.sent /\ o.write = None
  BY <1>1, OverFits, OverFields DEF ChargeFits
<1> HIDE DEF o
<1>3. k \in QuotaCall
  BY <1>2 DEF QuotaCall
<1> QED
  BY <1>2, <1>3 DEF ChargeFits, QuotaCall, o

LEMMA ReadStep == ASSUME QuotaInv, NEW c \in Calls, ReadObject(c) PROVE QuotaInv'
<1>1. calls[c] \in QuotaCall /\ ChargeFits(c, calls[c]) /\ calls[c].pc = "read"
  BY DEF QuotaInv, QuotaTyped, ReadObject
<1>2. UNCHANGED <<clock, quota, charged>>
  BY DEF ReadObject
<1>3. CASE Step(c, Over(c))
  BY <1>1, <1>2, <1>3, OverStep
<1> DEFINE v == Prior
           send(w) == Step(c, [calls[c] EXCEPT !.pc = "wait", !.sent = TRUE,
                             !.write = [generation |-> quota.generation, value |-> w]])
<1>4. ASSUME NEW w \in Counters, Fresh(c, w, calls[c].started), send(w),
             calls[c].job = "acquire" => w.leases[c] > 0
      PROVE  QuotaInv'
  BY <1>1, <1>2, <1>4, SendFits, ChargeStep
<1>5. CASE AlreadyApplied(c, v) /\ Step(c, Granted(c))
  <2>1. Paid(c)
    BY <1>5, PriorFollows DEF AlreadyApplied, QuotaInv, ObjectFits
  <2> QED
    BY <1>1, <1>2, <1>5, <2>1, GrantedFits, ChargeStep DEF AlreadyApplied, ChargeFits, Running
<1>6. CASE calls[c].job = "release" /\ send(Released(c, v))
  BY <1>4, <1>6, ReleasedFresh
<1>7. CASE /\ calls[c].job = "acquire" /\ ~AlreadyApplied(c, v)
           /\ HasRoom(v, calls[c].size) /\ Cardinality(Holders(v)) < Concurrency
           /\ send(Charged(c, v))
  BY <1>1, <1>4, <1>7, ChargedFresh DEF AlreadyApplied
<1>8. CASE /\ calls[c].job = "acquire" /\ ~AlreadyApplied(c, v)
           /\ Step(c, [Over(c) EXCEPT !.refused = TRUE])
  <2>1. ~Paid(c)
    BY <1>1, <1>8, Unpaid DEF AlreadyApplied
  <2> QED
    BY <1>1, <1>2, <2>1, <1>8, RefusedFits, ChargeStep
<1> QED
  BY <1>3, <1>5, <1>6, <1>7, <1>8 DEF ReadObject

LEMMA AnswerLostStep == ASSUME QuotaInv, NEW c \in Calls, AnswerLost(c) PROVE QuotaInv'
BY OverStep DEF AnswerLost

LEMMA DiesStep == ASSUME QuotaInv, NEW c \in Calls, QuotaCallDies(c) PROVE QuotaInv'
BY OverStep DEF QuotaCallDies, Running

LEMMA ResolveStep == ASSUME QuotaInv, NEW c \in Calls, ResolveEnds(c) PROVE QuotaInv'
<1>1. calls[c].pc # "idle" /\ Running(c) /\ UNCHANGED <<clock, quota, charged>>
  BY DEF ResolveEnds, Running
<1>2. CASE Step(c, Releasing(c))
  BY <1>1, <1>2, ReleasingFits, ChargeStep
<1>3. CASE Step(c, Over(c))
  BY <1>1, <1>3, OverStep
<1> QED
  BY <1>2, <1>3 DEF ResolveEnds, Ended

LEMMA TimesOutStep == ASSUME QuotaInv, NEW c \in Calls, TimesOut(c) PROVE QuotaInv'
<1>1. calls[c] \in QuotaCall /\ ChargeFits(c, calls[c])
  BY DEF QuotaInv, QuotaTyped
<1> DEFINE k == [calls[c] EXCEPT !.open = FALSE]
<1>2. k \in QuotaCall
  BY <1>1 DEF QuotaCall
<1>3. ChargeFits(c, k)
  BY <1>1 DEF ChargeFits, QuotaCall
<1> QED
  BY <1>2, <1>3, ChargeStep DEF TimesOut

LEMMA WakeStep == ASSUME QuotaInv, NEW c \in Calls, Wake(c) PROVE QuotaInv'
<1>1. /\ calls[c] \in QuotaCall /\ ChargeFits(c, calls[c])
      /\ calls[c].pc = "sleep" /\ UNCHANGED <<clock, quota, charged>>
  BY DEF QuotaInv, QuotaTyped, Wake
<1>2. CASE Step(c, Over(c))
  BY <1>1, <1>2, OverStep
<1>3. CASE Step(c, [calls[c] EXCEPT !.pc = "wait", !.sent = TRUE, !.wake = 0])
  <2> DEFINE k == [calls[c] EXCEPT !.pc = "wait", !.sent = TRUE, !.wake = 0]
  <2>1. k \in QuotaCall
    BY <1>1 DEF QuotaCall
  <2>2. /\ k.pc = "wait" /\ k.sent = TRUE /\ k.reply = None /\ k.refused = FALSE
        /\ k.write = calls[c].write /\ k.job = calls[c].job /\ k.started = calls[c].started
    BY <1>1 DEF ChargeFits, QuotaCall
  <2> HIDE DEF k
  <2>3. ChargeFits(c, k)
    BY <1>1, <2>2, NoneAssumption DEF ChargeFits
  <2> QED
    BY <1>1, <1>3, <2>1, <2>3, ChargeStep DEF k
<1> QED
  BY <1>2, <1>3 DEF Wake

LEMMA AnsweredStep == ASSUME QuotaInv, NEW c \in Calls, Answered(c) PROVE QuotaInv'
<1> DEFINE k == calls[c]
<1>1. /\ k \in QuotaCall /\ ChargeFits(c, k) /\ k.pc = "wait"
      /\ UNCHANGED <<clock, quota, charged>>
  BY DEF QuotaInv, QuotaTyped, Answered
<1>2. CASE Step(c, Over(c))
  BY <1>1, <1>2, OverStep
<1>3. CASE k.reply = "ok" /\ k.job = "acquire" /\ Step(c, Granted(c))
  <2>1. ~k.sent /\ Paid(c)
    BY <1>1, <1>3, NoneAssumption DEF ChargeFits
  <2> QED
    BY <1>1, <1>3, <2>1, GrantedFits, ChargeStep DEF Running
<1>4. CASE /\ k.reply = "lost-race" /\ ~LastAttempt(c)
           /\ Step(c, [k EXCEPT !.pc = "read", !.attempt = @ + 1, !.write = None, !.reply = None])
  <2> DEFINE j == [k EXCEPT !.pc = "read", !.attempt = @ + 1, !.write = None, !.reply = None]
  <2>1. ~k.sent /\ k.attempt + 1 \in 0..MaxCas - 1
    BY <1>1, <1>4, NoneAssumption, Bounds DEF ChargeFits, LastAttempt, QuotaCall
  <2>2. j \in QuotaCall
    BY <1>1, <2>1 DEF QuotaCall
  <2>3. ChargeFits(c, j)
    BY <1>1, <2>1 DEF ChargeFits, QuotaCall
  <2> QED
    BY <1>1, <1>4, <2>2, <2>3, ChargeStep
<1>5. CASE /\ k.reply = "throttled" /\ ~LastAttempt(c) /\ ~(k.throttled >= MaxThrottled)
           /\ Step(c, [k EXCEPT !.pc = "sleep", !.attempt = @ + 1, !.throttled = @ + 1,
                                !.wake = clock + Delay, !.reply = None])
  <2> DEFINE n == k.attempt + 1
             m == k.throttled + 1
             t == clock + Delay
             j == [k EXCEPT !.pc = "sleep", !.attempt = n, !.throttled = m, !.wake = t, !.reply = None]
  <2>1. ~k.sent /\ n \in 0..MaxCas - 1 /\ m \in 0..MaxThrottled /\ t \in Nat
    BY <1>1, <1>5, NoneAssumption, Bounds DEF ChargeFits, LastAttempt, QuotaCall, QuotaInv, QuotaTyped
  <2>2. Step(c, j)
    BY <1>5
  <2> HIDE DEF n, m, t
  <2>3. j \in QuotaCall
    BY <1>1, <2>1 DEF QuotaCall
  <2>4. ChargeFits(c, j)
    BY <1>1, <2>1 DEF ChargeFits, QuotaCall
  <2> QED
    BY <1>1, <2>2, <2>3, <2>4, ChargeStep
<1> QED
  BY <1>1, <1>2, <1>3, <1>4, <1>5 DEF Answered

LEMMA TickStep == ASSUME QuotaInv, Tick PROVE QuotaInv'
<1> USE DEF QuotaInv
<1>1. /\ clock' = clock + 1 /\ clock' \in 0..MaxTime
      /\ quota' = quota /\ calls' = calls /\ charged' = charged
  BY Bounds DEF Tick, QuotaTyped
<1>2. QuotaTyped' /\ ObjectFits' /\ PaidOnce'
  BY <1>1 DEF QuotaTyped, ObjectFits, PaidOnce, InWindow, Valid, Holders, Paid
<1>3. ASSUME NEW c \in Calls PROVE ChargeFits(c, calls[c])'
  <2>1. calls[c] \in QuotaCall /\ ChargeFits(c, calls[c])
    BY DEF QuotaTyped
  <2>2. ASSUME NEW w, NEW n, Fresh(c, w, n) PROVE Fresh(c, w, n)'
    <3>1. ASSUME NEW d \in Calls, quota.value # None, quota.value.leases[d] <= clock
          PROVE  quota.value.leases[d] <= clock + 1
      BY <3>1, Bounds DEF QuotaTyped, Counters
    <3> QED
      BY <1>1, <2>2, <3>1 DEF Fresh, Follows, Paid, InWindow, Valid, Holders
  <2>3. calls[c].pc \notin {"idle", "done"} =>
          calls[c].started <= clock + 1 /\ clock + 1 <= calls[c].started + Platform
    BY <2>1, Bounds DEF ChargeFits, QuotaCall, Tick, Running, QuotaTyped
  <2>4. Paid(c)' <=> Paid(c)
    BY <1>1 DEF Paid
  <2> QED
    BY <1>1, <2>1, <2>2, <2>3, <2>4 DEF ChargeFits
<1> QED
  BY <1>2, <1>3

-----------------------------------------------------------------------------
(* The bucket decides a replacement. *)

\* A replacement that lands makes every other one stale.
LEMMA LandStep ==
  ASSUME QuotaInv, NEW c \in Calls, calls[c].sent, Current(c),
         NEW w, w = calls[c].write.value,
         NEW y, y = [call |-> c, at |-> quota.generation + 1, size |-> calls[c].size,
                     window |-> calls[c].write.value.window],
         quota' = [generation |-> quota.generation + 1, value |-> w],
         charged' = IF w.leases[c] = 0 THEN charged ELSE charged \cup {y},
         clock' = clock,
         NEW k \in QuotaCall, Step(c, k), ~k.sent, ~k.refused,
         \/ k.pc = "done" /\ k.write = None
         \/ /\ k.pc = "wait" /\ calls[c].pc = "wait" /\ k.write = calls[c].write
            /\ k.job = calls[c].job /\ k.started = calls[c].started
  PROVE  QuotaInv'
<1> USE DEF QuotaInv
<1>0. y.call = c /\ y.window = w.window
  OBVIOUS
<1>1. /\ calls[c] \in QuotaCall /\ ChargeFits(c, calls[c]) /\ calls[c].write # None
      /\ calls[c].write \in Replacements /\ calls[c].write.generation = quota.generation
      /\ quota.generation \in Nat
  BY DEF QuotaTyped, ChargeFits, QuotaCall, Current
<1>2. w \in Counters /\ w # None
  BY <1>1, NoneAssumption DEF Replacements
<1>3. PICK n \in Nat : Fresh(c, w, n) /\ (calls[c].pc = "wait" => n = calls[c].started)
  <2>1. calls[c].started \in Nat
    BY <1>1, Bounds DEF QuotaCall
  <2>2. CASE calls[c].pc = "done"
    BY <1>1, <2>2 DEF ChargeFits
  <2>3. CASE calls[c].pc # "done"
    BY <1>1, <2>1, <2>3 DEF ChargeFits
  <2> QED
    BY <2>2, <2>3
<1>4. /\ calls' = [calls EXCEPT ![c] = k] /\ calls \in [Calls -> QuotaCall]
      /\ quota'.value = w /\ quota'.generation = quota.generation + 1
  BY DEF Step, QuotaTyped
<1>5. w.leases \in [Calls -> 0..MaxTime + Lease] /\ w.window \in 0..MaxTime
  BY <1>2 DEF Counters
<1>6. \/ w.leases[c] = 0 /\ charged' = charged
      \/ w.leases[c] >= n + Lease /\ w.leases[c] # 0 /\ ~Paid(c) /\ charged' = charged \cup {y}
  BY <1>3, <1>5, Bounds DEF Fresh
<1>7. y \in Charge
  BY <1>1, <1>5 DEF Charge, QuotaCall
<1>8. QuotaTyped'
  <2>1. IsFiniteSet(charged')
    <3>1. IsFiniteSet(charged)
      BY DEF QuotaTyped
    <3>2. IsFiniteSet(charged \cup {y})
      BY <3>1, FS_AddElement
    <3> QED
      BY <1>6, <3>1, <3>2
  <2>2. charged' \subseteq Charge
    BY <1>6, <1>7 DEF QuotaTyped
  <2>3. quota' \in [generation : Nat, value : Counters \cup {None}]
    BY <1>1, <1>2
  <2> QED
    BY <1>4, <2>1, <2>2, <2>3 DEF QuotaTyped
<1>9. PaidOnce'
  BY <1>0, <1>6 DEF PaidOnce, Paid
<1>10. \A d \in Calls : Paid(d)' <=> Paid(d) \/ (d = c /\ w.leases[c] # 0)
  BY <1>0, <1>6 DEF Paid
<1>11. w.requests = Cardinality(InWindow(w.window))'
  <2>1. CASE w.leases[c] = 0 /\ charged' = charged
    BY <1>3, <2>1, Bounds DEF Fresh, InWindow
  <2>2. CASE w.leases[c] # 0 /\ ~Paid(c) /\ charged' = charged \cup {y}
    <3>1. w.requests = Cardinality(InWindow(w.window)) + 1
      BY <1>3, <2>2 DEF Fresh
    <3>2. InWindow(w.window)' = InWindow(w.window) \cup {y}
      BY <1>0, <2>2 DEF InWindow
    <3>3. y \notin InWindow(w.window)
      BY <1>0, <2>2 DEF InWindow, Paid
    <3>4. IsFiniteSet(InWindow(w.window))
      BY WindowFinite
    <3>5. Cardinality(InWindow(w.window) \cup {y}) = Cardinality(InWindow(w.window)) + 1
      BY <3>3, <3>4, FS_AddElement
    <3> QED
      BY <3>1, <3>2, <3>5
  <2> QED
    BY <1>6, <2>1, <2>2
<1>12. ObjectFits'
  <2>1. Valid(w)
    BY <1>3 DEF Fresh, Follows
  <2>2. Valid(w)'
    BY <1>4, <2>1 DEF Valid, Holders
  <2>3. \A x \in charged' : x.window <= w.window
    BY <1>0, <1>3, <1>5, <1>6 DEF Fresh, Follows
  <2>4. ASSUME NEW d \in Calls, w.leases[d] > 0 PROVE Paid(d)'
    <3>1. CASE d = c
      BY <1>5, <1>10, <2>4, <3>1
    <3>2. CASE d # c
      <4>1. quota.value # None /\ w.leases[d] = quota.value.leases[d]
        BY <1>3, <2>4, <3>2 DEF Fresh, Follows
      <4>2. Paid(d)
        BY <2>4, <4>1 DEF ObjectFits
      <4> QED
        BY <1>10, <4>2
    <3> QED
      BY <3>1, <3>2
  <2> QED
    BY <1>2, <1>4, <1>11, <2>2, <2>3, <2>4 DEF ObjectFits, Valid, Holders
<1>13. ASSUME NEW d \in Calls, d # c PROVE ChargeFits(d, calls[d])'
  <2>1. calls'[d] = calls[d] /\ calls[d] \in QuotaCall /\ ChargeFits(d, calls[d])
    BY <1>4, <1>13
  <2>2. Paid(d)' <=> Paid(d)
    BY <1>10, <1>13
  <2>3. calls[d].write # None =>
          calls[d].write.generation <= quota'.generation /\ calls[d].write.generation # quota'.generation
    BY <1>1, <1>4, <2>1 DEF ChargeFits, QuotaCall, Replacements
  <2>4. ASSUME calls[d].pc \notin {"idle", "done"}, calls[d].job = "acquire", Paid(d)
        PROVE  w # None /\ w.leases[d] >= calls[d].started + Lease
    <3>1. quota.value # None /\ quota.value.leases[d] >= calls[d].started + Lease
      BY <2>1, <2>4 DEF ChargeFits
    <3>2. clock <= calls[d].started + Platform
      BY <2>1, <2>4 DEF ChargeFits
    <3>3. ~(quota.value.leases[d] <= clock)
      BY <2>1, <3>1, <3>2, Bounds DEF QuotaTyped, Counters, QuotaCall
    <3> QED
      BY <1>2, <1>3, <1>13, <3>1, <3>3 DEF Fresh, Follows
  <2> QED
    BY <1>4, <2>1, <2>2, <2>3, <2>4 DEF ChargeFits
<1>14. ChargeFits(c, calls[c])'
  <2>1. calls'[c] = k
    BY <1>4
  <2>2. CASE k.pc = "done" /\ k.write = None
    BY <2>1, <2>2 DEF ChargeFits
  <2>3. CASE /\ k.pc = "wait" /\ calls[c].pc = "wait" /\ k.write = calls[c].write
             /\ k.job = calls[c].job /\ k.started = calls[c].started
    <3>1. k.started <= clock /\ clock <= k.started + Platform
      BY <1>1, <2>3 DEF ChargeFits
    <3>2. k.job = "acquire" => w.leases[c] > 0 /\ Paid(c)' /\ w.leases[c] >= k.started + Lease
      BY <1>1, <1>3, <1>5, <1>6, <1>10, <2>3 DEF ChargeFits
    <3>3. /\ k.write # None /\ k.write.generation <= quota'.generation
          /\ k.write.generation # quota'.generation
      BY <1>1, <1>4, <2>3
    <3> QED
      BY <1>2, <1>4, <2>1, <2>3, <3>1, <3>2, <3>3 DEF ChargeFits
  <2> QED
    BY <2>2, <2>3
<1> QED
  BY <1>8, <1>9, <1>12, <1>13, <1>14

LEMMA StoreStep == ASSUME QuotaInv, NEW c \in Calls, StoreDecides(c) PROVE QuotaInv'
<1> DEFINE gone == [Idle EXCEPT !.pc = "done", !.open = FALSE]
           heard(reply) == [calls[c] EXCEPT !.sent = FALSE, !.reply = reply]
<1>1. /\ calls[c] \in QuotaCall /\ ChargeFits(c, calls[c]) /\ calls[c].sent
      /\ calls[c].pc \in {"wait", "done"} /\ clock' = clock
  BY DEF QuotaInv, QuotaTyped, ChargeFits, QuotaCall, StoreDecides
<1>2. PICK reply \in {"ok", "lost-race", "throttled"}, lands \in BOOLEAN :
        /\ lands => Current(c)
        /\ reply = "ok" => lands
        /\ IF lands
           THEN /\ quota' = [generation |-> quota.generation + 1, value |-> calls[c].write.value]
                /\ charged' =
                     IF calls[c].write.value.leases[c] = 0 THEN charged
                     ELSE charged \cup {[call |-> c, at |-> quota.generation + 1,
                             size |-> calls[c].size, window |-> calls[c].write.value.window]}
           ELSE UNCHANGED <<quota, charged>>
        /\ Step(c, IF calls[c].pc = "wait" THEN heard(reply) ELSE gone)
  BY DEF StoreDecides
<1>3. /\ gone \in QuotaCall /\ gone.pc = "done" /\ gone.write = None /\ gone.sent = FALSE
      /\ gone.refused = FALSE /\ gone.job = "acquire"
  BY IdleType DEF Idle, QuotaCall
<1>4. calls[c].pc = "wait" =>
        /\ heard(reply) \in QuotaCall /\ heard(reply).pc = "wait" /\ heard(reply).sent = FALSE
        /\ heard(reply).refused = FALSE /\ heard(reply).reply = reply
        /\ heard(reply).write = calls[c].write /\ heard(reply).job = calls[c].job
        /\ heard(reply).started = calls[c].started
  BY <1>1 DEF QuotaCall, ChargeFits
<1> DEFINE k == IF calls[c].pc = "wait" THEN heard(reply) ELSE gone
<1>5. /\ k \in QuotaCall /\ ~k.sent /\ ~k.refused /\ Step(c, k)
      /\ \/ k.pc = "done" /\ k.write = None /\ k.job = "acquire"
         \/ /\ k.pc = "wait" /\ calls[c].pc = "wait" /\ k.write = calls[c].write
            /\ k.job = calls[c].job /\ k.started = calls[c].started /\ k.reply = reply
  BY <1>1, <1>2, <1>3, <1>4
<1> HIDE DEF k, gone, heard
<1>6. CASE lands
  BY <1>1, <1>2, <1>5, <1>6, LandStep
<1>7. CASE ~lands
  <2>1. ChargeFits(c, k)
    BY <1>1, <1>2, <1>5, <1>7 DEF ChargeFits
  <2> QED
    BY <1>1, <1>2, <1>5, <1>7, <2>1, ChargeStep
<1> QED
  BY <1>6, <1>7

-----------------------------------------------------------------------------
(* The theorem. *)

LEMMA QuotaInvInit == QuotaInit => QuotaInv
<1> SUFFICES ASSUME QuotaInit PROVE QuotaInv
  OBVIOUS
<1>1. QuotaTyped
  BY IdleType, FS_EmptySet, Bounds DEF QuotaInit, QuotaTyped
<1>2. ASSUME NEW c \in Calls PROVE ChargeFits(c, calls[c])
  BY DEF ChargeFits, QuotaInit, Idle, Paid
<1> QED
  BY <1>1, <1>2 DEF QuotaInv, ObjectFits, PaidOnce, QuotaInit

LEMMA QuotaInvNext == QuotaInv /\ [QuotaNext]_quotaVars => QuotaInv'
<1> SUFFICES ASSUME QuotaInv, [QuotaNext]_quotaVars PROVE QuotaInv'
  OBVIOUS
<1>1. CASE Tick
  BY <1>1, TickStep
<1>2. CASE UNCHANGED quotaVars
  <2>1. clock' = clock /\ quota' = quota /\ calls' = calls /\ charged' = charged
    BY <1>2 DEF quotaVars
  <2>2. QuotaTyped' /\ ObjectFits' /\ PaidOnce'
    BY <2>1 DEF QuotaInv, QuotaTyped, ObjectFits, PaidOnce, InWindow, Valid, Holders, Paid
  <2>3. ASSUME NEW c \in Calls PROVE ChargeFits(c, calls[c])'
    <3>1. ChargeFits(c, calls[c])
      BY DEF QuotaInv
    <3>2. \A w, n : Fresh(c, w, n)' <=> Fresh(c, w, n)
      BY <2>1 DEF Fresh, Follows, Paid, InWindow, Valid, Holders
    <3>3. Paid(c)' <=> Paid(c)
      BY <2>1 DEF Paid
    <3> QED
      BY <2>1, <3>1, <3>2, <3>3 DEF ChargeFits
  <2> QED
    BY <2>2, <2>3 DEF QuotaInv
<1>3. ASSUME NEW c \in Calls,
             \/ QuotaBegin(c) \/ ReadObject(c) \/ StoreDecides(c) \/ AnswerLost(c)
             \/ Answered(c) \/ Wake(c) \/ ResolveEnds(c) \/ TimesOut(c) \/ QuotaCallDies(c)
      PROVE  QuotaInv'
  BY <1>3, StartStep, ReadStep, StoreStep, AnswerLostStep, AnsweredStep, WakeStep,
     ResolveStep, TimesOutStep, DiesStep
<1> QED
  BY <1>1, <1>2, <1>3 DEF QuotaNext

\* Whoever resolves holds a lease of the object, and the object holds at most Concurrency.
LEMMA ResolversHold == QuotaInv => AtMostConcurrent
<1> SUFFICES ASSUME QuotaInv PROVE AtMostConcurrent
  OBVIOUS
<1> DEFINE R == {c \in Calls : calls[c].pc = "resolve"}
<1>1. ASSUME NEW c \in R PROVE quota.value # None /\ c \in Holders(quota.value)
  <2>1. /\ c \in Calls /\ calls[c] \in QuotaCall /\ ChargeFits(c, calls[c]) /\ calls[c].pc = "resolve"
        /\ quota.value # None => quota.value \in Counters
    BY DEF QuotaInv, QuotaTyped
  <2>2. quota.value # None /\ quota.value.leases[c] >= calls[c].started + Lease
    BY <2>1 DEF ChargeFits
  <2>3. quota.value.leases[c] \in Nat /\ calls[c].started \in Nat
    BY <2>1, <2>2, Bounds DEF Counters, QuotaCall
  <2>4. quota.value.leases[c] > 0
    BY <2>2, <2>3, Bounds
  <2>5. c \in Holders(quota.value)
    BY <2>1, <2>4 DEF Holders
  <2> QED
    BY <2>2, <2>5
<1>2. CASE R = {}
  <2>1. Cardinality(R) = 0
    BY <1>2, FS_EmptySet
  <2>2. Cardinality(R) <= Concurrency
    BY <2>1, Bounds
  <2> QED
    BY <2>2 DEF AtMostConcurrent
<1>3. CASE R # {}
  <2>1. quota.value # None /\ R \subseteq Holders(quota.value)
    BY <1>1, <1>3
  <2>2. Cardinality(Holders(quota.value)) <= Concurrency
    BY <2>1 DEF QuotaInv, ObjectFits, Valid
  <2>3. IsFiniteSet(R) /\ Cardinality(R) <= Cardinality(Holders(quota.value)) /\ Cardinality(R) \in Nat
    BY <2>1, HoldersFinite, FS_Subset, FS_CardinalityType
  <2> QED
    BY <2>2, <2>3, HoldersFinite, Bounds DEF AtMostConcurrent
<1> QED
  BY <1>2, <1>3

LEMMA ObjectCounts == QuotaInv => ChargesAreExact
<1> SUFFICES ASSUME QuotaInv PROVE ChargesAreExact
  OBVIOUS
<1>1. QuotaTypeOK
  BY NoneAssumption DEF QuotaInv, QuotaTyped, QuotaTypeOK, ChargeFits, QuotaCall, Replacements
<1>2. ChargedOnce
  BY DEF QuotaInv, QuotaTyped, ChargedOnce, PaidOnce, ChargeFits, Paid, Charge
<1>3. StaysReadable /\ CountsWhatWasCharged
  BY DEF QuotaInv, ObjectFits, StaysReadable, CountsWhatWasCharged, InWindow
<1> QED
  BY <1>1, <1>2, <1>3 DEF ChargesAreExact

\* However leases expire, leak and are given back late, at most Concurrency requests of a caller
\* resolve at once, those already answered included (handler.js, quota.js).
THEOREM WorkIsLimited == QuotaSpec => []AtMostConcurrent
BY QuotaInvInit, QuotaInvNext, ResolversHold, PTL DEF QuotaSpec

\* No legal run of calls leaves an object that later calls refuse, and the object charges each
\* request once and exactly, whatever is lost, retried or late (quota.js).
THEOREM ObjectIsExact == QuotaSpec => []ChargesAreExact
BY QuotaInvInit, QuotaInvNext, ObjectCounts, PTL DEF QuotaSpec

-----------------------------------------------------------------------------
(***************************************************************************)
(* The trusted operations.  The argument: whoever has made the record of a *)
(* request is the only call under it for ever (Alone), because a record is *)
(* never removed; so the steps between its awaits are as if they were one  *)
(* (CallFits).                                                             *)
(***************************************************************************)
Statuses == {"pending", "complete", "failed"}

Record == [request : Requested, status : Statuses]

Operation == [pc : Pcs, answer : Answers, request : Requested \cup {Nothing}]

Tag == [label : Labels, active : BOOLEAN, revision : Nat]

Favorite == [name : Names, revision : Nat, deleted : BOOLEAN]

TrustedTyped ==
  /\ reqScene \in DOMAIN RequestScenes
  /\ requests \in [Keys -> Record \cup {Nothing}]
  /\ operations \in [Operations -> Operation]
  /\ executed \in [Keys -> SUBSET Operations]
  /\ accounts \in [Users -> Names \cup {Nothing}]
  /\ shareDirectory \in [Names -> Users \cup {Nothing}]
  /\ tags \in [Tags -> Tag \cup {Nothing}]
  /\ labels \in [Labels -> Tags \cup {Nothing}]
  /\ favorites \in [Users -> Favorite \cup {Nothing}]
  /\ share \in Shares \cup {Nothing}
  /\ history \in Shares \cup {Nothing}
  /\ grants \subseteq Users \X Users

\* A call that has made its record finds it as it left it.
CallFits(call) ==
  LET record == requests[Key(call.request)]
      done   == executed[Key(call.request)]
  IN  /\ call.pc = "begin" => call.request \in Requested
      /\ call.pc \in Owning =>
           /\ call.request \in Requested
           /\ record # Nothing
           /\ record.request = call.request
      /\ call.pc \in {"read", "transact"} => record.status = "pending" /\ done = {}
      /\ call.pc \in {"complete", "record"} => record.status = "pending" /\ done # {}
      /\ call.pc = "verify" => record.status = "complete"
      /\ call.pc = "recordFailure" => record.status = "pending"
      /\ call.pc = "transact" /\ call.request.op = "favorite" =>
           accounts[call.request.trainer] = call.request.label

RecordFits(k) ==
  /\ requests[k] # Nothing => Key(requests[k].request) = k
  /\ requests[k] = Nothing => executed[k] = {}
  /\ requests[k] # Nothing /\ requests[k].status = "complete" => executed[k] # {}
  /\ executed[k] = {} \/ \E c \in Operations : executed[k] = {c}

Alone ==
  \A c, d \in Operations :
    /\ operations[c].pc \in Owning /\ operations[d].pc \in Owning
    /\ Key(Request(c)) = Key(Request(d))
    => c = d

ClaimsHold ==
  /\ \A l \in Labels : labels[l] # Nothing => labels[l] \in ActiveTags /\ tags[labels[l]].label = l
  /\ \A t \in ActiveTags : labels[tags[t].label] = t

Requests ==
  /\ \A c \in Operations : CallFits(operations[c])
  /\ \A k \in Keys : RecordFits(k)
  /\ Alone

Domain == HandlesAgree /\ ClaimsHold /\ FavoritesStand

TrustedInv == TrustedTyped /\ Requests /\ Domain

-----------------------------------------------------------------------------
LEMMA SceneFacts ==
  ASSUME TrustedTyped
  PROVE  /\ \A r \in Requested : WellFormed(r) /\ Key(r) \in Keys
         /\ Nothing \notin Record
BY SceneAssumption DEF TrustedTyped, Requested, Keys, Record, Statuses

LEMMA FavoriteLabels ==
  ASSUME NEW r, WellFormed(r), r.op = "favorite"
  PROVE  r.trainer \in Users /\ r.label \in Names /\ r.label # Nothing
BY TrustedAssumption DEF WellFormed, TrustedAssumption

LEMMA CallTypes ==
  ASSUME TrustedTyped, NEW c \in Operations
  PROVE  /\ operations[c] \in Operation /\ operations[c].pc \in Pcs
         /\ operations[c].request \in Requested \cup {Nothing}
BY DEF TrustedTyped, Operation

LEMMA DoneType == \A a \in Answers : CallAt("done", a) \in Operation /\ CallAt("done", a).pc = "done"
BY DEF CallAt, Operation, Pcs

\* A name that is held stays with its user.
NamesStay == \A u \in Users : accounts[u] # Nothing => accounts'[u] = accounts[u]

\* A call goes on or ends and leaves the records as they are.
LEMMA QuietStep ==
  ASSUME TrustedTyped, Requests, NEW c \in Operations, NEW call \in Operation,
         operations' = [operations EXCEPT ![c] = call],
         UNCHANGED <<reqScene, requests, executed, accounts>>,
         CallFits(call),
         call.pc \in Owning => operations[c].pc \in Owning /\ call.request = operations[c].request
  PROVE  Requests'
<1>1. \A d \in Operations : operations'[d] = IF d = c THEN call ELSE operations[d]
  BY DEF TrustedTyped
<1>2. \A d \in Operations : CallFits(operations[d])'
  <2>1. ASSUME NEW other, CallFits(other) PROVE CallFits(other)'
    BY <2>1 DEF CallFits, Requested
  <2>2. ASSUME NEW d \in Operations PROVE CallFits(operations[d])'
    <3>1. PICK other : other = operations'[d]
      OBVIOUS
    <3>2. CallFits(other)
      BY <1>1, <3>1 DEF Requests
    <3>3. CallFits(other)'
      BY <2>1, <3>2
    <3> QED
      BY <3>1, <3>3 DEF CallFits
  <2> QED
    BY <2>2
<1>3. \A k \in Keys' : RecordFits(k)'
  BY DEF Requests, RecordFits, Keys, Requested
<1>4. Alone'
  BY <1>1 DEF Requests, Alone, Request
<1> QED
  BY <1>2, <1>3, <1>4 DEF Requests

\* The only call under a key changes its record.
LEMMA OwnStep ==
  ASSUME TrustedTyped, Requests, NEW c \in Operations, NEW call \in Operation, NEW k \in Keys,
         operations' = [operations EXCEPT ![c] = call], UNCHANGED reqScene, NamesStay,
         \A j \in Keys \ {k} : requests'[j] = requests[j] /\ executed'[j] = executed[j],
         \A d \in Operations \ {c} : operations[d].pc \in Owning => Key(operations[d].request) # k,
         CallFits(call)', RecordFits(k)',
         call.pc \in Owning => Key(call.request) = k
  PROVE  Requests'
<1>1. \A d \in Operations : operations'[d] = IF d = c THEN call ELSE operations[d]
  BY DEF TrustedTyped
<1>2. Keys' = Keys /\ Requested' = Requested
  BY DEF Keys, Requested
<1>3. ASSUME NEW d \in Operations PROVE CallFits(operations[d])'
  <2>1. CASE d = c
    BY <1>1, <2>1 DEF CallFits
  <2>2. CASE d # c
    <3>1. PICK other : other = operations[d]
      OBVIOUS
    <3>2. CallFits(other) /\ other \in Operation
      BY <3>1, CallTypes DEF Requests
    <3>3. ASSUME other.pc \in Owning
          PROVE  /\ requests'[Key(other.request)] = requests[Key(other.request)]
                 /\ executed'[Key(other.request)] = executed[Key(other.request)]
      <4>1. other.request \in Requested /\ Key(other.request) # k
        BY <2>2, <3>1, <3>2, <3>3 DEF CallFits
      <4>2. Key(other.request) \in Keys
        BY <4>1 DEF Keys
      <4> QED
        BY <4>1, <4>2
    <3>4. other.pc = "transact" /\ other.request.op = "favorite" =>
            accounts'[other.request.trainer] = other.request.label
      <4> SUFFICES ASSUME other.pc = "transact", other.request.op = "favorite"
                   PROVE  accounts'[other.request.trainer] = other.request.label
        OBVIOUS
      <4>1. other.request \in Requested /\ accounts[other.request.trainer] = other.request.label
        BY <3>2 DEF CallFits, Owning
      <4>2. other.request.trainer \in Users /\ other.request.label # Nothing
        BY <4>1, SceneFacts, FavoriteLabels
      <4> QED
        BY <4>1, <4>2 DEF NamesStay
    <3>5. CallFits(other)'
      BY <1>2, <3>2, <3>3, <3>4 DEF CallFits, Owning
    <3> QED
      BY <1>1, <2>2, <3>1, <3>5 DEF CallFits
  <2> QED
    BY <2>1, <2>2
<1>4. \A j \in Keys' : RecordFits(j)'
  BY <1>2 DEF Requests, RecordFits
<1>5. Alone'
  BY <1>1 DEF Requests, Alone, Request
<1> QED
  BY <1>3, <1>4, <1>5 DEF Requests

-----------------------------------------------------------------------------
(* The steps of a call under its request. *)

LEMMA TrustedCallStep ==
  ASSUME TrustedInv, NEW c \in Operations, Call(c)
  PROVE  TrustedInv'
<1>1. PICK r \in Requested : operations' = [operations EXCEPT ![c] =
                               [pc |-> "begin", answer |-> Nothing, request |-> r]]
  BY DEF Call
<1>2. PICK call : call = [pc |-> "begin", answer |-> Nothing, request |-> r]
  OBVIOUS
<1>3. call \in Operation /\ call.pc = "begin" /\ call.request = r
  BY <1>2 DEF Operation, Pcs, Answers
<1>4. CallFits(call)
  BY <1>3 DEF CallFits, Owning
<1>5. UNCHANGED <<reqScene, requests, executed, accounts>> /\ UNCHANGED domainVars
  BY DEF Call, domainVars, identityVars
<1>6. operations' = [operations EXCEPT ![c] = call]
  BY <1>1, <1>2
<1>7. Requests'
  BY <1>3, <1>4, <1>5, <1>6, QuietStep DEF TrustedInv, Owning
<1>8. TrustedTyped'
  BY <1>3, <1>5, <1>6 DEF TrustedInv, TrustedTyped, Keys, Requested, Record, Operation,
                          domainVars, identityVars, tagVars, historyVars
<1>9. Domain'
  BY <1>5 DEF TrustedInv, Domain, HandlesAgree, ClaimsHold, FavoritesStand, ActiveTags, ActiveFavorites,
              domainVars, identityVars, tagVars, historyVars
<1> QED
  BY <1>7, <1>8, <1>9 DEF TrustedInv

\* A call moves on and nothing else changes.
LEMMA MoveStep ==
  ASSUME TrustedInv, NEW c \in Operations, NEW call \in Operation,
         operations' = [operations EXCEPT ![c] = call],
         CallFits(call),
         call.pc \in Owning => operations[c].pc \in Owning /\ call.request = operations[c].request,
         UNCHANGED <<reqScene, requests, executed, domainVars>>
  PROVE  TrustedInv'
<1>1. Requests'
  BY QuietStep DEF TrustedInv, domainVars, identityVars
<1>2. TrustedTyped'
  BY DEF TrustedInv, TrustedTyped, Keys, Requested, Record, Operation, domainVars, identityVars, tagVars, historyVars
<1>3. Domain'
  BY DEF TrustedInv, Domain, HandlesAgree, ClaimsHold, FavoritesStand, ActiveTags, ActiveFavorites,
         domainVars, identityVars, tagVars, historyVars
<1> QED
  BY <1>1, <1>2, <1>3 DEF TrustedInv

LEMMA AnswerStep ==
  ASSUME TrustedInv, NEW c \in Operations, NEW a \in Answers, Answer(c, a),
         UNCHANGED <<reqScene, requests, executed, domainVars>>
  PROVE  TrustedInv'
<1>1. PICK call : call = CallAt("done", a)
  OBVIOUS
<1>2. call \in Operation /\ call.pc = "done"
  BY <1>1, DoneType
<1>3. CallFits(call) /\ call.pc \notin Owning
  BY <1>2 DEF CallFits, Owning
<1>4. operations' = [operations EXCEPT ![c] = call]
  BY <1>1 DEF Answer
<1> QED
  BY <1>2, <1>3, <1>4, MoveStep

LEMMA GoStep ==
  ASSUME TrustedInv, NEW c \in Operations, NEW pc \in Owning, Go(c, pc), operations[c].pc \in Owning,
         UNCHANGED <<reqScene, requests, executed, domainVars>>,
         \/ pc = "fail"
         \/ /\ pc = "transact" /\ operations[c].pc = "read"
            /\ Request(c).op = "favorite" => accounts[Request(c).trainer] = Request(c).label
         \/ pc = "record" /\ operations[c].pc = "complete"
         \/ pc = "recordFailure" /\ requests[Key(Request(c))].status = "pending"
  PROVE  TrustedInv'
<1>1. PICK old : old = operations[c]
  OBVIOUS
<1>2. old \in Operation /\ CallFits(old) /\ old.pc \in Owning
  BY <1>1, CallTypes DEF TrustedInv, Requests
<1>3. PICK call : call = [old EXCEPT !.pc = pc]
  OBVIOUS
<1>4. call \in Operation /\ call.pc = pc /\ call.request = old.request
  BY <1>2, <1>3 DEF Operation, Pcs, Owning
<1>5. CallFits(call)
  BY <1>1, <1>2, <1>4 DEF CallFits, Owning, Request
<1>6. operations' = [operations EXCEPT ![c] = call]
  BY <1>1, <1>3 DEF Go
<1> QED
  BY <1>1, <1>4, <1>5, <1>6, MoveStep

LEMMA QuietSteps ==
  ASSUME TrustedInv, NEW c \in Operations,
         ReadFirst(c) \/ Complete(c) \/ VerifyCompletion(c) \/ Fail(c) \/ Throws(c) \/ OperationDies(c)
  PROVE  TrustedInv'
<1>1. CASE ReadFirst(c)
  <2>1. operations[c].pc = "read" /\ Go(c, "transact")
        /\ UNCHANGED <<reqScene, requests, executed, domainVars>>
    BY <1>1 DEF ReadFirst, At
  <2>2. Request(c).op = "favorite" => accounts[Request(c).trainer] = Request(c).label
    BY <1>1 DEF ReadFirst
  <2> QED
    BY <2>1, <2>2, GoStep DEF Owning
<1>2. CASE Complete(c)
  BY <1>2, GoStep DEF Complete, Owned, At, Owning
<1>3. CASE VerifyCompletion(c)
  BY <1>3, AnswerStep DEF VerifyCompletion, Owned, Answers
<1>4. CASE Fail(c)
  BY <1>4, GoStep, AnswerStep DEF Fail, StillPending, Owned, At, Owning, Answers
<1>5. CASE Throws(c)
  BY <1>5, GoStep, AnswerStep DEF Throws, Owning, Answers
<1>6. CASE OperationDies(c)
  BY <1>6, AnswerStep DEF OperationDies, Answers
<1> QED
  BY <1>1, <1>2, <1>3, <1>4, <1>5, <1>6

LEMMA DomainStays ==
  ASSUME Domain, UNCHANGED domainVars
  PROVE  Domain'
BY DEF Domain, HandlesAgree, ClaimsHold, FavoritesStand, ActiveTags, ActiveFavorites,
       domainVars, identityVars, tagVars, historyVars

\* What holds of the call at an await, and of its record.
LEMMA OwnerFacts ==
  ASSUME TrustedInv, NEW c \in Operations, operations[c].pc \in Owning, NEW k, k = Key(Request(c))
  PROVE  /\ k \in Keys /\ Request(c) \in Requested
         /\ requests[k] \in Record /\ requests[k] # Nothing /\ requests[k].request = Request(c)
         /\ \A d \in Operations \ {c} : operations[d].pc \in Owning => Key(operations[d].request) # k
         /\ operations[c] \in Operation
<1>1. CallFits(operations[c]) /\ operations[c] \in Operation
  BY CallTypes DEF TrustedInv, Requests
<1>2. Request(c) \in Requested /\ requests[k] # Nothing /\ requests[k].request = Request(c)
  BY <1>1 DEF CallFits, Request
<1>3. k \in Keys
  BY <1>2 DEF Keys
<1>4. requests[k] \in Record
  BY <1>2, <1>3 DEF TrustedInv, TrustedTyped
<1>5. \A d \in Operations \ {c} : operations[d].pc \in Owning => Key(operations[d].request) # k
  BY DEF TrustedInv, Requests, Alone, Request
<1> QED
  BY <1>1, <1>2, <1>3, <1>4, <1>5

\* The owner of a pending record ends it.
LEMMA StatusStep ==
  ASSUME TrustedInv, NEW c \in Operations, operations[c].pc \in Owning, NEW st \in {"complete", "failed"},
         requests' = [requests EXCEPT ![Key(Request(c))].status = st],
         NEW call \in Operation, operations' = [operations EXCEPT ![c] = call],
         call.pc = "done" \/ (call.pc = "verify" /\ call.request = Request(c) /\ st = "complete"),
         st = "complete" => executed[Key(Request(c))] # {},
         UNCHANGED <<reqScene, executed, domainVars>>
  PROVE  TrustedInv'
<1>1. PICK k : k = Key(Request(c))
  OBVIOUS
<1>2. /\ k \in Keys /\ Request(c) \in Requested
      /\ requests[k] \in Record /\ requests[k] # Nothing /\ requests[k].request = Request(c)
      /\ \A d \in Operations \ {c} : operations[d].pc \in Owning => Key(operations[d].request) # k
  BY <1>1, OwnerFacts
<1>3. PICK record : record = [requests[k] EXCEPT !.status = st]
  OBVIOUS
<1>4. record \in Record /\ record.status = st /\ record.request = Request(c) /\ record # Nothing
  <2>1. record \in Record /\ record.status = st /\ record.request = Request(c)
    BY <1>2, <1>3 DEF Record, Statuses
  <2> QED
    BY <2>1, SceneFacts DEF TrustedInv
<1>5. requests' = [requests EXCEPT ![k] = record] /\ requests \in [Keys -> Record \cup {Nothing}]
  BY <1>1, <1>3 DEF TrustedInv, TrustedTyped
<1>6. requests'[k] = record /\ \A j \in Keys \ {k} : requests'[j] = requests[j] /\ executed'[j] = executed[j]
  BY <1>2, <1>5
<1>7. UNCHANGED <<accounts, reqScene, executed>>
  BY DEF domainVars, identityVars
<1>8. RecordFits(k)
  BY <1>2 DEF TrustedInv, Requests
<1>9. RecordFits(k)'
  BY <1>1, <1>4, <1>6, <1>7, <1>8 DEF RecordFits
<1>10. CallFits(call)'
  <2>1. Requested' = Requested
    BY <1>7 DEF Requested
  <2> QED
    BY <1>1, <1>2, <1>4, <1>6, <2>1 DEF CallFits, Owning
<1>11. NamesStay
  BY <1>7 DEF NamesStay
<1>12. call.pc \in Owning => Key(call.request) = k
  BY <1>1 DEF Owning
<1>13. Requests'
  BY <1>2, <1>6, <1>7, <1>9, <1>10, <1>11, <1>12, OwnStep DEF TrustedInv
<1>14. TrustedTyped'
  <2>1. Keys' = Keys /\ Record' = Record /\ Operation' = Operation
    BY <1>7 DEF Keys, Record, Operation, Requested
  <2>2. requests' \in [Keys -> Record \cup {Nothing}]
    BY <1>2, <1>4, <1>5
  <2>3. operations' \in [Operations -> Operation]
    BY DEF TrustedInv, TrustedTyped
  <2> QED
    BY <1>7, <2>1, <2>2, <2>3 DEF TrustedInv, TrustedTyped, domainVars, identityVars, tagVars, historyVars
<1> QED
  BY <1>13, <1>14, DomainStays DEF TrustedInv

LEMMA RecordSteps ==
  ASSUME TrustedInv, NEW c \in Operations, RecordCompletion(c) \/ RecordFailure(c)
  PROVE  TrustedInv'
<1>1. CallFits(operations[c]) /\ operations[c] \in Operation
  BY CallTypes DEF TrustedInv, Requests
<1>2. CASE RecordCompletion(c)
  <2>1. PICK call : call = [operations[c] EXCEPT !.pc = "verify"]
    OBVIOUS
  <2>2. call \in Operation /\ call.pc = "verify" /\ call.request = Request(c)
    BY <1>1, <2>1 DEF Operation, Pcs, Request
  <2>3. operations[c].pc = "record" /\ executed[Key(Request(c))] # {}
    BY <1>1, <1>2 DEF RecordCompletion, Owned, At, CallFits, Request
  <2>4. operations' = [operations EXCEPT ![c] = call]
    BY <1>2, <2>1 DEF RecordCompletion, Go, TrustedTyped, TrustedInv
  <2>5. /\ requests' = [requests EXCEPT ![Key(Request(c))].status = "complete"]
        /\ UNCHANGED <<reqScene, executed, domainVars>>
    BY <1>2 DEF RecordCompletion, Owned
  <2> QED
    BY <2>2, <2>3, <2>4, <2>5, StatusStep DEF Owning
<1>3. CASE RecordFailure(c)
  <2>1. PICK call : call = CallAt("done", "refused")
    OBVIOUS
  <2>2. call \in Operation /\ call.pc = "done"
    BY <2>1, DoneType DEF Answers
  <2>3. /\ operations' = [operations EXCEPT ![c] = call]
        /\ requests' = [requests EXCEPT ![Key(Request(c))].status = "failed"]
        /\ UNCHANGED <<reqScene, executed, domainVars>> /\ operations[c].pc = "recordFailure"
    BY <1>3, <2>1 DEF RecordFailure, Owned, Answer, At
  <2> QED
    BY <2>2, <2>3, StatusStep DEF Owning
<1> QED
  BY <1>2, <1>3

\* A call makes the record of its request, or is answered.
LEMMA TrustedBeginStep ==
  ASSUME TrustedInv, NEW c \in Operations, Begin(c)
  PROVE  TrustedInv'
<1>1. PICK old : old = operations[c]
  OBVIOUS
<1>2. PICK r : r = old.request
  OBVIOUS
<1>3. /\ old \in Operation /\ old.pc = "begin" /\ r \in Requested /\ r = Request(c)
      /\ UNCHANGED <<reqScene, executed, domainVars>>
  BY <1>1, <1>2, CallTypes DEF Begin, At, TrustedInv, Requests, CallFits, Request
<1>4. CASE \E a \in Answers : Answer(c, a) /\ UNCHANGED requests
  BY <1>3, <1>4, AnswerStep
<1>5. CASE /\ Acquires(r) /\ Go(c, "read")
           /\ requests' = [requests EXCEPT ![Key(r)] = [request |-> r, status |-> "pending"]]
  <2>1. PICK k : k = Key(r)
    OBVIOUS
  <2>2. k \in Keys /\ requests[k] = Nothing
    BY <1>3, <1>5, <2>1 DEF Keys, Acquires
  <2>3. PICK record : record = [request |-> r, status |-> "pending"]
    OBVIOUS
  <2>4. /\ record \in Record /\ record.status = "pending" /\ record.request = r /\ record # Nothing
    <3>1. record \in Record /\ record.status = "pending" /\ record.request = r
      BY <1>3, <2>3 DEF Record, Statuses
    <3> QED
      BY <3>1, SceneFacts DEF TrustedInv
  <2>5. requests' = [requests EXCEPT ![k] = record] /\ requests \in [Keys -> Record \cup {Nothing}]
    BY <1>5, <2>1, <2>3 DEF TrustedInv, TrustedTyped
  <2>6. requests'[k] = record /\ \A j \in Keys \ {k} : requests'[j] = requests[j] /\ executed'[j] = executed[j]
    BY <1>3, <2>2, <2>5
  <2>7. PICK call : call = [old EXCEPT !.pc = "read"]
    OBVIOUS
  <2>8. call \in Operation /\ call.pc = "read" /\ call.request = r
    BY <1>2, <1>3, <2>7 DEF Operation, Pcs
  <2>9. operations' = [operations EXCEPT ![c] = call]
    BY <1>1, <1>5, <2>7 DEF Go
  <2>10. \A d \in Operations : operations[d].pc \in Owning => Key(operations[d].request) # k
    BY <2>2 DEF TrustedInv, Requests, CallFits
  <2>11. RecordFits(k)
    BY <2>2 DEF TrustedInv, Requests
  <2>12. executed'[k] = {}
    BY <1>3, <2>2, <2>11 DEF RecordFits
  <2>13. RecordFits(k)'
    BY <2>1, <2>4, <2>6, <2>12 DEF RecordFits
  <2>14. CallFits(call)'
    <3>1. Requested' = Requested
      BY <1>3 DEF Requested
    <3> QED
      BY <1>3, <2>1, <2>4, <2>6, <2>8, <2>12, <3>1 DEF CallFits, Owning
  <2>15. NamesStay
    BY <1>3 DEF NamesStay, domainVars, identityVars
  <2>16. Requests'
    BY <1>3, <2>1, <2>2, <2>6, <2>8, <2>9, <2>10, <2>13, <2>14, <2>15, OwnStep DEF TrustedInv
  <2>17. TrustedTyped'
    <3>1. Keys' = Keys /\ Record' = Record /\ Operation' = Operation
      BY <1>3 DEF Keys, Record, Operation, Requested
    <3> QED
      BY <1>3, <2>2, <2>4, <2>5, <2>8, <2>9, <3>1
        DEF TrustedInv, TrustedTyped, domainVars, identityVars, tagVars, historyVars
  <2> QED
    BY <1>3, <2>16, <2>17, DomainStays DEF TrustedInv
<1> QED
  BY <1>3, <1>4, <1>5 DEF Begin, Answers

-----------------------------------------------------------------------------
(* The transactions. *)

\* A name is taken once, with its claim, and never changes.
LEMMA HandlesStep ==
  ASSUME TrustedInv, NEW c \in Operations, ReserveHandle(c), NEW r, r = Request(c), WellFormed(r)
  PROVE  /\ NamesStay /\ HandlesAgree'
         /\ accounts' \in [Users -> Names \cup {Nothing}]
         /\ shareDirectory' \in [Names -> Users \cup {Nothing}]
<1>1. /\ accounts \in [Users -> Names \cup {Nothing}]
      /\ shareDirectory \in [Names -> Users \cup {Nothing}]
      /\ HandlesAgree
  BY DEF TrustedInv, TrustedTyped, Domain
<1>2. CASE UNCHANGED identityVars
  BY <1>1, <1>2 DEF identityVars, NamesStay, HandlesAgree
<1>3. CASE /\ NameIsFree(r.caller, r.name)
           /\ accounts' = [accounts EXCEPT ![r.caller] = r.name]
           /\ shareDirectory' = [shareDirectory EXCEPT ![r.name] = r.caller]
  <2>1. r.op = "handle"
    BY DEF ReserveHandle, Commits
  <2>2. r.caller \in Users /\ r.name \in Names /\ r.caller # Nothing /\ r.name # Nothing
    BY <2>1, TrustedAssumption DEF WellFormed, TrustedAssumption
  <2>3. accounts[r.caller] = Nothing /\ shareDirectory[r.name] = Nothing
    BY <1>3 DEF NameIsFree
  <2>4. /\ accounts' \in [Users -> Names \cup {Nothing}]
        /\ shareDirectory' \in [Names -> Users \cup {Nothing}]
        /\ \A u \in Users : accounts'[u] = IF u = r.caller THEN r.name ELSE accounts[u]
        /\ \A n \in Names : shareDirectory'[n] = IF n = r.name THEN r.caller ELSE shareDirectory[n]
    BY <1>1, <1>3, <2>2
  <2>5. NamesStay
    BY <2>3, <2>4 DEF NamesStay
  <2>6. ASSUME NEW u \in Users, accounts'[u] # Nothing PROVE shareDirectory'[accounts'[u]] = u
    <3>1. CASE u = r.caller
      BY <2>2, <2>4, <3>1
    <3>2. CASE u # r.caller
      <4>1. accounts'[u] = accounts[u] /\ accounts[u] \in Names /\ shareDirectory[accounts[u]] = u
        BY <1>1, <2>4, <2>6, <3>2 DEF HandlesAgree
      <4>2. u # Nothing
        BY TrustedAssumption DEF TrustedAssumption
      <4> QED
        BY <2>3, <2>4, <4>1, <4>2
    <3> QED
      BY <3>1, <3>2
  <2>7. ASSUME NEW n \in Names, shareDirectory'[n] # Nothing PROVE accounts'[shareDirectory'[n]] = n
    <3>1. CASE n = r.name
      BY <2>2, <2>4, <3>1
    <3>2. CASE n # r.name
      <4>1. shareDirectory'[n] = shareDirectory[n] /\ shareDirectory[n] \in Users /\ accounts[shareDirectory[n]] = n
        BY <1>1, <2>4, <2>7, <3>2 DEF HandlesAgree
      <4>2. n # Nothing
        BY TrustedAssumption DEF TrustedAssumption
      <4> QED
        BY <2>3, <2>4, <4>1, <4>2
    <3> QED
      BY <3>1, <3>2
  <2> QED
    BY <2>4, <2>5, <2>6, <2>7 DEF HandlesAgree
<1> QED
  BY <1>2, <1>3 DEF ReserveHandle

\* Through every change of a tag its old claim goes and its new one is its own.
LEMMA TagsStep ==
  ASSUME TrustedInv, NEW c \in Operations, ClaimTag(c), NEW r, r = Request(c), WellFormed(r)
  PROVE  /\ ClaimsHold'
         /\ tags' \in [Tags -> Tag \cup {Nothing}] /\ labels' \in [Labels -> Tags \cup {Nothing}]
<1> DEFINE tag == tags[r.tag]
           claims == IF tag = Nothing THEN labels ELSE Unclaimed(r.tag, labels)
<1>1. /\ tags \in [Tags -> Tag \cup {Nothing}] /\ labels \in [Labels -> Tags \cup {Nothing}]
      /\ ClaimsHold
  BY DEF TrustedInv, TrustedTyped, Domain
<1>2. r.tag \in Tags /\ r.label \in Labels /\ r.tag # Nothing
  <2>1. r.op = "tag"
    BY DEF ClaimTag, Commits
  <2> QED
    BY <2>1, TrustedAssumption DEF WellFormed, TrustedAssumption
<1>3. Nothing \notin Tags /\ Nothing \notin Tag
  BY TrustedAssumption DEF TrustedAssumption, Tag
<1>4. claims \in [Labels -> Tags \cup {Nothing}]
  BY <1>1 DEF Unclaimed
<1>5. ASSUME NEW l \in Labels, claims[l] # Nothing
      PROVE  claims[l] = labels[l] /\ labels[l] \in ActiveTags /\ tags[labels[l]].label = l /\ labels[l] # r.tag
  <2>1. claims[l] = labels[l] /\ labels[l] \in ActiveTags /\ tags[labels[l]].label = l
    BY <1>1, <1>5 DEF Unclaimed, ClaimsHold
  <2>2. ASSUME labels[l] = r.tag PROVE FALSE
    <3>1. tag # Nothing /\ tags[r.tag].label = l
      BY <2>1, <2>2 DEF ActiveTags
    <3> QED
      BY <1>5, <2>2, <3>1 DEF Unclaimed
  <2> QED
    BY <2>1, <2>2
<1>6. ASSUME NEW t \in ActiveTags, t # r.tag
      PROVE  t \in Tags /\ tags[t] \in Tag /\ tags[t].label \in Labels /\ claims[tags[t].label] = t
  <2>1. t \in Tags /\ tags[t] \in Tag /\ labels[tags[t].label] = t
    BY <1>1, <1>6 DEF ActiveTags, ClaimsHold
  <2>2. tags[t].label \in Labels
    BY <2>1 DEF Tag
  <2> QED
    BY <1>6, <2>1, <2>2 DEF Unclaimed
<1> HIDE DEF claims
<1>7. CASE UNCHANGED tagVars
  BY <1>1, <1>7 DEF tagVars, ClaimsHold, ActiveTags
<1>8. CASE /\ tag # Nothing /\ tag.active
           /\ labels' = claims
           /\ tags' = [tags EXCEPT ![r.tag].active = FALSE, ![r.tag].revision = @ + 1]
  <2>2. tag \in Tag
    BY <1>1, <1>2, <1>8
  <2>4. /\ tags' \in [Tags -> Tag \cup {Nothing}]
        /\ tags'[r.tag] \in Tag /\ ~tags'[r.tag].active
        /\ \A t \in Tags \ {r.tag} : tags'[t] = tags[t]
    <3>1. tags'[r.tag] \in Tag /\ ~tags'[r.tag].active
      BY <1>1, <1>2, <1>8, <2>2 DEF Tag
    <3> QED
      BY <1>1, <1>2, <1>8, <3>1
  <2>5. \A t \in ActiveTags' : t \in ActiveTags /\ t # r.tag /\ tags'[t] = tags[t]
    BY <2>4 DEF ActiveTags
  <2>6. \A t \in ActiveTags : t # r.tag => t \in ActiveTags'
    BY <2>4 DEF ActiveTags
  <2>7. ClaimsHold'
    <3>1. ASSUME NEW l \in Labels, labels'[l] # Nothing
          PROVE  labels'[l] \in ActiveTags' /\ tags'[labels'[l]].label = l
      BY <1>5, <1>8, <2>4, <2>6, <3>1 DEF ActiveTags
    <3>2. ASSUME NEW t \in ActiveTags' PROVE labels'[tags'[t].label] = t
      BY <1>6, <1>8, <2>5
    <3> QED
      BY <3>1, <3>2 DEF ClaimsHold
  <2> QED
    BY <1>4, <1>8, <2>4, <2>7
<1>9. CASE /\ labels[r.label] \in {r.tag, Nothing}
           /\ labels' = [claims EXCEPT ![r.label] = r.tag]
           /\ tags' = [tags EXCEPT ![r.tag] =
                 [label |-> r.label, active |-> TRUE, revision |-> Revision(tag) + 1]]
  <2>1. PICK new : new = [label |-> r.label, active |-> TRUE, revision |-> Revision(tag) + 1]
    OBVIOUS
  <2>2. Revision(tag) \in Nat
    BY <1>1, <1>2 DEF Revision, Tag
  <2>3. new \in Tag /\ new.active /\ new.label = r.label /\ new # Nothing
    <3>1. new \in Tag /\ new.active /\ new.label = r.label
      BY <1>2, <2>1, <2>2 DEF Tag
    <3> QED
      BY <1>3, <3>1
  <2>4. /\ tags' \in [Tags -> Tag \cup {Nothing}] /\ tags'[r.tag] = new
        /\ \A t \in Tags \ {r.tag} : tags'[t] = tags[t]
    BY <1>1, <1>2, <1>9, <2>1, <2>3
  <2>5. /\ labels' \in [Labels -> Tags \cup {Nothing}] /\ labels'[r.label] = r.tag
        /\ \A l \in Labels \ {r.label} : labels'[l] = claims[l]
    BY <1>2, <1>4, <1>9
  <2>6. \A t \in ActiveTags : t # r.tag => t \in ActiveTags' /\ tags'[t] = tags[t]
    BY <2>4 DEF ActiveTags
  <2>7. \A t \in ActiveTags' : t # r.tag => t \in ActiveTags /\ tags'[t] = tags[t]
    BY <2>4 DEF ActiveTags
  <2>8. r.tag \in ActiveTags'
    BY <1>2, <2>3, <2>4 DEF ActiveTags
  <2>9. ASSUME NEW l \in Labels, labels'[l] # Nothing
        PROVE  labels'[l] \in ActiveTags' /\ tags'[labels'[l]].label = l
    <3>1. CASE l = r.label
      BY <2>3, <2>4, <2>5, <2>8, <3>1
    <3>2. CASE l # r.label
      BY <1>5, <2>5, <2>6, <2>9, <3>2
    <3> QED
      BY <3>1, <3>2
  <2>10. ASSUME NEW t \in ActiveTags' PROVE labels'[tags'[t].label] = t
    <3>1. CASE t = r.tag
      BY <2>3, <2>4, <2>5, <3>1
    <3>2. CASE t # r.tag
      <4>1. t \in ActiveTags /\ tags'[t] = tags[t] /\ labels[tags[t].label] = t
        BY <1>1, <2>7, <3>2 DEF ClaimsHold
      <4>2. tags[t].label # r.label
        BY <1>3, <1>9, <3>2, <4>1 DEF ActiveTags
      <4> QED
        BY <1>6, <2>5, <3>2, <4>1, <4>2
    <3> QED
      BY <3>1, <3>2
  <2> QED
    BY <2>4, <2>5, <2>9, <2>10 DEF ClaimsHold
<1> QED
  BY <1>7, <1>8, <1>9 DEF ClaimTag, claims

\* A Favorite is added under the name its trainer has had since the request was read.
LEMMA FavoritesStep ==
  ASSUME TrustedInv, NEW c \in Operations, MutateFavorite(c), NEW r, r = Request(c), WellFormed(r)
  PROVE  FavoritesStand' /\ favorites' \in [Users -> Favorite \cup {Nothing}]
<1>1. /\ favorites \in [Users -> Favorite \cup {Nothing}] /\ FavoritesStand
      /\ UNCHANGED accounts
  BY DEF TrustedInv, TrustedTyped, Domain, MutateFavorite, identityVars
<1>2. r.op = "favorite" /\ operations[c].pc = "transact"
  BY DEF MutateFavorite, Commits, At
<1>3. r.trainer \in Users /\ r.label \in Names
  BY <1>2, FavoriteLabels
<1>4. accounts[r.trainer] = r.label
  <2>1. CallFits(operations[c])
    BY DEF TrustedInv, Requests
  <2> QED
    BY <1>2, <2>1 DEF CallFits, Request
<1>5. IsFiniteSet(ActiveFavorites) /\ Cardinality(ActiveFavorites) \in Nat /\ MaxActiveFavorites \in Nat
  BY TrustedAssumption, FS_Subset, FS_CardinalityType DEF TrustedAssumption, ActiveFavorites
<1>6. Revision(favorites[r.trainer]) \in Nat
  BY <1>1, <1>3 DEF Revision, Favorite
<1>7. CASE UNCHANGED favorites
  BY <1>1, <1>7 DEF FavoritesStand, ActiveFavorites
<1>8. CASE /\ r.trainer \in ActiveFavorites
           /\ favorites' = [favorites EXCEPT ![r.trainer] =
                [name |-> favorites[r.trainer].name, revision |-> Revision(favorites[r.trainer]) + 1,
                 deleted |-> TRUE]]
  <2>1. favorites[r.trainer] \in Favorite
    BY <1>1, <1>3, <1>8 DEF ActiveFavorites
  <2>2. PICK new : new = [name |-> favorites[r.trainer].name, revision |-> Revision(favorites[r.trainer]) + 1,
                          deleted |-> TRUE]
    OBVIOUS
  <2>3. new \in Favorite /\ new.deleted
    BY <1>6, <2>1, <2>2 DEF Favorite
  <2>4. /\ favorites' \in [Users -> Favorite \cup {Nothing}] /\ favorites'[r.trainer].deleted
        /\ \A u \in Users \ {r.trainer} : favorites'[u] = favorites[u]
    BY <1>1, <1>3, <1>8, <2>2, <2>3
  <2>5. ActiveFavorites' \in SUBSET ActiveFavorites
    BY <2>4 DEF ActiveFavorites
  <2>6. \A u \in ActiveFavorites' : favorites'[u] = favorites[u]
    BY <2>4 DEF ActiveFavorites
  <2>7. Cardinality(ActiveFavorites') <= Cardinality(ActiveFavorites) /\ Cardinality(ActiveFavorites') \in Nat
    BY <1>5, <2>5, FS_Subset, FS_CardinalityType
  <2>8. Cardinality(ActiveFavorites') <= MaxActiveFavorites
    BY <1>1, <1>5, <2>7 DEF FavoritesStand
  <2>9. \A u \in ActiveFavorites' : accounts'[u] = favorites'[u].name
    BY <1>1, <2>5, <2>6 DEF FavoritesStand
  <2> QED
    BY <2>4, <2>8, <2>9 DEF FavoritesStand
<1>9. CASE /\ r.trainer \notin ActiveFavorites /\ RoomFor
           /\ favorites' = [favorites EXCEPT ![r.trainer] =
                [name |-> r.label, revision |-> Revision(favorites[r.trainer]) + 1, deleted |-> FALSE]]
  <2>1. PICK new : new = [name |-> r.label, revision |-> Revision(favorites[r.trainer]) + 1, deleted |-> FALSE]
    OBVIOUS
  <2>2. new \in Favorite /\ new.name = r.label
    BY <1>3, <1>6, <2>1 DEF Favorite
  <2>3. /\ favorites' \in [Users -> Favorite \cup {Nothing}] /\ favorites'[r.trainer].name = r.label
        /\ \A u \in Users \ {r.trainer} : favorites'[u] = favorites[u]
    BY <1>1, <1>3, <1>9, <2>1, <2>2
  <2>4. ActiveFavorites' \in SUBSET (ActiveFavorites \cup {r.trainer})
    BY <2>3 DEF ActiveFavorites
  <2>5. /\ Cardinality(ActiveFavorites \cup {r.trainer}) = Cardinality(ActiveFavorites) + 1
        /\ IsFiniteSet(ActiveFavorites \cup {r.trainer})
    BY <1>5, <1>9, FS_AddElement
  <2>6. Cardinality(ActiveFavorites') <= Cardinality(ActiveFavorites \cup {r.trainer})
        /\ Cardinality(ActiveFavorites') \in Nat
    BY <2>4, <2>5, FS_Subset, FS_CardinalityType
  <2>7. Cardinality(ActiveFavorites') <= MaxActiveFavorites
    BY <1>5, <1>9, <2>5, <2>6 DEF RoomFor
  <2>8. ASSUME NEW u \in ActiveFavorites' PROVE accounts'[u] = favorites'[u].name
    <3>1. CASE u = r.trainer
      BY <1>1, <1>4, <2>3, <3>1
    <3>2. CASE u # r.trainer
      <4>1. u \in ActiveFavorites /\ u \in Users
        BY <2>4, <3>2 DEF ActiveFavorites
      <4> QED
        BY <1>1, <2>3, <3>2, <4>1 DEF FavoritesStand
    <3> QED
      BY <3>1, <3>2
  <2> QED
    BY <2>3, <2>7, <2>8 DEF FavoritesStand
<1> QED
  BY <1>7, <1>8, <1>9 DEF MutateFavorite

\* A version a viewer has seen is followed by later ones only.
LEMMA HistoryStep ==
  ASSUME TrustedInv, NEW c \in Operations, AdvanceHistory(c), NEW r, r = Request(c), WellFormed(r)
  PROVE  /\ history' \in Shares
         /\ history # Nothing =>
              /\ history'.version >= history.version /\ history'.updatedAt >= history.updatedAt
              /\ history'.version = history.version => history'.snapshot = history.snapshot
<1>1. r.op = "history" /\ Advances(r.declared)
      /\ history' = IF history # Nothing /\ history.version = r.declared.version THEN history ELSE r.declared
  BY DEF AdvanceHistory, Commits
<1>2. r.declared \in Shares /\ history \in Shares \cup {Nothing}
  BY <1>1 DEF WellFormed, TrustedInv, TrustedTyped
<1>3. ASSUME history # Nothing
      PROVE  history.version \in Int /\ history.updatedAt \in Int
  BY <1>2, <1>3, TrustedAssumption DEF TrustedAssumption
<1> QED
  BY <1>1, <1>2, <1>3 DEF Advances

\* Every transaction writes its own part of the data.
LEMMA DomainStep ==
  ASSUME TrustedInv, NEW c \in Operations, Transact(c), NEW r, r = Request(c), WellFormed(r)
  PROVE  /\ NamesStay /\ Domain'
         /\ accounts' \in [Users -> Names \cup {Nothing}]
         /\ shareDirectory' \in [Names -> Users \cup {Nothing}]
         /\ tags' \in [Tags -> Tag \cup {Nothing}] /\ labels' \in [Labels -> Tags \cup {Nothing}]
         /\ favorites' \in [Users -> Favorite \cup {Nothing}]
         /\ share' \in Shares \cup {Nothing} /\ history' \in Shares \cup {Nothing}
         /\ grants' \subseteq Users \X Users
<1>1. /\ accounts \in [Users -> Names \cup {Nothing}]
      /\ shareDirectory \in [Names -> Users \cup {Nothing}]
      /\ tags \in [Tags -> Tag \cup {Nothing}] /\ labels \in [Labels -> Tags \cup {Nothing}]
      /\ favorites \in [Users -> Favorite \cup {Nothing}]
      /\ share \in Shares \cup {Nothing} /\ history \in Shares \cup {Nothing}
      /\ grants \subseteq Users \X Users
      /\ HandlesAgree /\ ClaimsHold /\ FavoritesStand
  BY DEF TrustedInv, TrustedTyped, Domain
<1>2. UNCHANGED identityVars => NamesStay /\ HandlesAgree'
  BY <1>1 DEF identityVars, NamesStay, HandlesAgree
<1>3. UNCHANGED tagVars => ClaimsHold'
  BY <1>1 DEF tagVars, ClaimsHold, ActiveTags
<1>4. UNCHANGED favorites /\ NamesStay => FavoritesStand'
  <2> SUFFICES ASSUME UNCHANGED favorites, NamesStay PROVE FavoritesStand'
    OBVIOUS
  <2>1. ActiveFavorites' = ActiveFavorites
    BY DEF ActiveFavorites
  <2>2. \A u \in ActiveFavorites : accounts[u] = favorites[u].name /\ u \in Users /\ favorites[u].name \in Names
    BY <1>1 DEF FavoritesStand, ActiveFavorites, Favorite
  <2>3. \A u \in ActiveFavorites : accounts'[u] = accounts[u]
    BY <2>2, TrustedAssumption DEF NamesStay, TrustedAssumption
  <2> QED
    BY <1>1, <2>1, <2>2, <2>3 DEF FavoritesStand
<1>5. CASE ReserveHandle(c)
  <2>1. /\ NamesStay /\ HandlesAgree'
        /\ accounts' \in [Users -> Names \cup {Nothing}]
        /\ shareDirectory' \in [Names -> Users \cup {Nothing}]
    BY <1>5, HandlesStep
  <2>2. UNCHANGED <<tagVars, favorites, historyVars, grants>>
    BY <1>5 DEF ReserveHandle
  <2> QED
    BY <1>1, <1>3, <1>4, <2>1, <2>2 DEF Domain, tagVars, historyVars
<1>6. CASE ClaimTag(c)
  <2>1. UNCHANGED <<identityVars, favorites, historyVars, grants>>
    BY <1>6 DEF ClaimTag
  <2> QED
    BY <1>1, <1>2, <1>4, <1>6, <2>1, TagsStep DEF Domain, identityVars, historyVars
<1>7. CASE MutateFavorite(c)
  <2>1. UNCHANGED <<identityVars, tagVars, historyVars, grants>>
    BY <1>7 DEF MutateFavorite
  <2> QED
    BY <1>1, <1>2, <1>3, <1>7, <2>1, FavoritesStep DEF Domain, identityVars, tagVars, historyVars
<1>8. CASE AdvanceHistory(c)
  <2>1. UNCHANGED <<identityVars, tagVars, favorites, share, grants>>
    BY <1>8 DEF AdvanceHistory
  <2> QED
    BY <1>1, <1>2, <1>3, <1>4, <1>8, <2>1, HistoryStep DEF Domain, identityVars, tagVars
<1>9. CASE SetViewer(c)
  <2>1. UNCHANGED <<identityVars, tagVars, favorites, historyVars>>
    BY <1>9 DEF SetViewer
  <2>2. r.caller \in Users /\ r.viewer \in Users
    BY <1>9 DEF SetViewer, Commits, WellFormed
  <2>3. grants' \subseteq Users \X Users
    BY <1>1, <1>9, <2>2 DEF SetViewer
  <2> QED
    BY <1>1, <1>2, <1>3, <1>4, <2>1, <2>3 DEF Domain, identityVars, tagVars, historyVars
<1> QED
  BY <1>5, <1>6, <1>7, <1>8, <1>9 DEF Transact

LEMMA TransactStep ==
  ASSUME TrustedInv, NEW c \in Operations, Transact(c)
  PROVE  TrustedInv'
<1>1. PICK old : old = operations[c]
  OBVIOUS
<1>2. /\ old.pc = "transact" /\ Go(c, "complete") /\ UNCHANGED <<reqScene, requests>>
      /\ executed' = [executed EXCEPT ![Key(Request(c))] = @ \cup {c}]
  BY <1>1 DEF Transact, ReserveHandle, ClaimTag, MutateFavorite, AdvanceHistory, SetViewer, Commits, At
<1>3. PICK k : k = Key(Request(c))
  OBVIOUS
<1>4. /\ k \in Keys /\ Request(c) \in Requested /\ WellFormed(Request(c))
      /\ requests[k] \in Record /\ requests[k] # Nothing /\ requests[k].request = Request(c)
      /\ \A d \in Operations \ {c} : operations[d].pc \in Owning => Key(operations[d].request) # k
      /\ old \in Operation
  BY <1>1, <1>2, <1>3, OwnerFacts, SceneFacts DEF Owning, TrustedInv
<1>5. requests[k].status = "pending" /\ executed[k] = {}
  BY <1>1, <1>2, <1>3 DEF TrustedInv, Requests, CallFits, Request
<1>6. executed' = [executed EXCEPT ![k] = {c}] /\ executed \in [Keys -> SUBSET Operations]
  BY <1>2, <1>3, <1>4, <1>5 DEF TrustedInv, TrustedTyped
<1>7. executed'[k] = {c} /\ \A j \in Keys \ {k} : requests'[j] = requests[j] /\ executed'[j] = executed[j]
  BY <1>2, <1>4, <1>6
<1>8. PICK call : call = [old EXCEPT !.pc = "complete"]
  OBVIOUS
<1>9. call \in Operation /\ call.pc = "complete" /\ call.request = Request(c)
  BY <1>1, <1>4, <1>8 DEF Operation, Pcs, Request
<1>10. operations' = [operations EXCEPT ![c] = call]
  BY <1>1, <1>2, <1>8 DEF Go
<1>11. RecordFits(k)'
  BY <1>2, <1>3, <1>4, <1>5, <1>7 DEF RecordFits
<1>12. CallFits(call)'
  <2>1. Requested' = Requested
    BY <1>2 DEF Requested
  <2> QED
    BY <1>2, <1>3, <1>4, <1>5, <1>7, <1>9, <2>1 DEF CallFits, Owning
<1>13. PICK r : r = Request(c)
  OBVIOUS
<1>14. /\ NamesStay /\ Domain'
       /\ accounts' \in [Users -> Names \cup {Nothing}]
       /\ shareDirectory' \in [Names -> Users \cup {Nothing}]
       /\ tags' \in [Tags -> Tag \cup {Nothing}] /\ labels' \in [Labels -> Tags \cup {Nothing}]
       /\ favorites' \in [Users -> Favorite \cup {Nothing}]
       /\ share' \in Shares \cup {Nothing} /\ history' \in Shares \cup {Nothing}
       /\ grants' \subseteq Users \X Users
  BY <1>4, <1>13, DomainStep
<1>15. Requests'
  BY <1>2, <1>3, <1>4, <1>7, <1>9, <1>10, <1>11, <1>12, <1>14, OwnStep DEF TrustedInv
<1>16. TrustedTyped'
  <2>1. Keys' = Keys /\ Record' = Record /\ Operation' = Operation
    BY <1>2 DEF Keys, Record, Operation, Requested
  <2>2. executed' \in [Keys -> SUBSET Operations]
    BY <1>6
  <2>3. operations' \in [Operations -> Operation]
    BY <1>9, <1>10 DEF TrustedInv, TrustedTyped
  <2> QED
    BY <1>2, <1>14, <2>1, <2>2, <2>3 DEF TrustedInv, TrustedTyped
<1> QED
  BY <1>14, <1>15, <1>16 DEF TrustedInv

LEMMA ShareStep ==
  ASSUME TrustedInv, ShareChanges
  PROVE  TrustedInv'
<1>1. UNCHANGED <<reqScene, requests, operations, executed, accounts, shareDirectory, tags, labels,
                  favorites, history, grants>> /\ share' \in Shares
  BY DEF ShareChanges, identityVars, tagVars
<1>2. TrustedTyped'
  BY <1>1 DEF TrustedInv, TrustedTyped, Keys, Requested, Record, Operation
<1>3. Domain'
  BY <1>1 DEF TrustedInv, Domain, HandlesAgree, ClaimsHold, FavoritesStand, ActiveTags, ActiveFavorites
<1>4. Alone' /\ \A k \in Keys' : RecordFits(k)'
  BY <1>1 DEF TrustedInv, Requests, Alone, Request, RecordFits, Keys, Requested
<1>5. \A c \in Operations : CallFits(operations[c])'
  BY <1>1 DEF TrustedInv, Requests, CallFits, Requested
<1> QED
  BY <1>2, <1>3, <1>4, <1>5 DEF TrustedInv, Requests

LEMMA TrustedInvInit == TrustedInit => TrustedInv
<1> SUFFICES ASSUME TrustedInit PROVE TrustedInv
  OBVIOUS
<1>1. /\ reqScene \in DOMAIN RequestScenes /\ accounts \in [Users -> Names \cup {Nothing}]
      /\ \A u, v \in Users : accounts[u] = accounts[v] => u = v \/ accounts[u] = Nothing
  BY SceneAssumption DEF TrustedInit
<1>2. /\ requests = [k \in Keys |-> Nothing]
      /\ operations = [c \in Operations |-> CallAt("idle", Nothing)]
      /\ executed = [k \in Keys |-> {}]
      /\ tags = [t \in Tags |-> Nothing] /\ labels = [l \in Labels |-> Nothing]
      /\ favorites = [u \in Users |-> Nothing]
      /\ share = Nothing /\ history = Nothing /\ grants = {}
      /\ shareDirectory = [n \in Names |-> IF \E u \in Users : accounts[u] = n
                                       THEN CHOOSE u \in Users : accounts[u] = n ELSE Nothing]
  BY DEF TrustedInit
<1>3. \A n \in Names : /\ (\E u \in Users : accounts[u] = n) =>
                            shareDirectory[n] \in Users /\ accounts[shareDirectory[n]] = n
                       /\ (~\E u \in Users : accounts[u] = n) => shareDirectory[n] = Nothing
  BY <1>2
<1>4. shareDirectory \in [Names -> Users \cup {Nothing}]
  BY <1>2, <1>3
<1>5. TrustedTyped
  <2>1. CallAt("idle", Nothing) \in Operation
    BY DEF CallAt, Operation, Pcs, Answers
  <2> QED
    BY <1>1, <1>2, <1>4, <2>1 DEF TrustedTyped
<1>6. Requests
  <2>1. \A c \in Operations : operations[c].pc = "idle"
    BY <1>2 DEF CallAt
  <2>2. \A c \in Operations : CallFits(operations[c])
    BY <2>1 DEF CallFits, Owning
  <2>3. \A k \in Keys : RecordFits(k)
    BY <1>2 DEF RecordFits
  <2>4. Alone
    BY <2>1 DEF Alone, Owning
  <2> QED
    BY <2>2, <2>3, <2>4 DEF Requests
<1>7. HandlesAgree
  <2>1. ASSUME NEW u \in Users, accounts[u] # Nothing PROVE shareDirectory[accounts[u]] = u
    <3>1. accounts[u] \in Names
      BY <1>1, <2>1
    <3>2. shareDirectory[accounts[u]] \in Users /\ accounts[shareDirectory[accounts[u]]] = accounts[u]
      BY <1>3, <3>1
    <3> QED
      BY <1>1, <2>1, <3>2
  <2> QED
    BY <1>3, <2>1 DEF HandlesAgree
<1>8. ClaimsHold
  BY <1>2 DEF ClaimsHold, ActiveTags
<1>9. FavoritesStand
  <2>1. ActiveFavorites = {}
    BY <1>2 DEF ActiveFavorites
  <2>2. Cardinality(ActiveFavorites) = 0 /\ MaxActiveFavorites \in Nat
    BY <2>1, FS_EmptySet, TrustedAssumption DEF TrustedAssumption
  <2> QED
    BY <2>1, <2>2 DEF FavoritesStand
<1> QED
  BY <1>5, <1>6, <1>7, <1>8, <1>9 DEF TrustedInv, Domain

LEMMA TrustedInvNext == TrustedInv /\ [TrustedNext]_trustedVars => TrustedInv'
<1> SUFFICES ASSUME TrustedInv, [TrustedNext]_trustedVars PROVE TrustedInv'
  OBVIOUS
<1>1. CASE UNCHANGED trustedVars
  <2>1. UNCHANGED <<reqScene, requests, operations, executed, domainVars>>
    BY <1>1 DEF trustedVars
  <2>2. TrustedTyped' /\ Domain'
    BY <2>1, DomainStays DEF TrustedInv, TrustedTyped, Keys, Requested, Record, Operation,
                             domainVars, identityVars, tagVars, historyVars
  <2>3. Alone' /\ \A k \in Keys' : RecordFits(k)'
    BY <2>1 DEF TrustedInv, Requests, Alone, Request, RecordFits, Keys, Requested
  <2>4. \A c \in Operations : CallFits(operations[c])'
    BY <2>1 DEF TrustedInv, Requests, CallFits, Requested, domainVars, identityVars
  <2> QED
    BY <2>2, <2>3, <2>4 DEF TrustedInv, Requests
<1>2. CASE ShareChanges
  BY <1>2, ShareStep
<1>3. ASSUME NEW c \in Operations,
             \/ Call(c) \/ Begin(c) \/ ReadFirst(c) \/ Transact(c)
             \/ Complete(c) \/ RecordCompletion(c) \/ VerifyCompletion(c)
             \/ Fail(c) \/ RecordFailure(c) \/ Throws(c) \/ OperationDies(c)
      PROVE  TrustedInv'
  BY <1>3, TrustedCallStep, TrustedBeginStep, TransactStep, QuietSteps, RecordSteps
<1> QED
  BY <1>1, <1>2, <1>3 DEF TrustedNext

LEMMA TrustedInvariant == TrustedSpec => []TrustedInv
BY TrustedInvInit, TrustedInvNext, PTL DEF TrustedSpec

-----------------------------------------------------------------------------
LEMMA TrustedInvImplies == TrustedInv => ExecutedOnce /\ IndexesAgree
<1> SUFFICES ASSUME TrustedInv PROVE ExecutedOnce /\ IndexesAgree
  OBVIOUS
<1>1. ExecutedOnce
  <2> SUFFICES ASSUME NEW k \in Keys PROVE Cardinality(executed[k]) <= 1
    BY DEF ExecutedOnce
  <2>1. executed[k] = {} \/ \E c \in Operations : executed[k] = {c}
    BY DEF TrustedInv, Requests, RecordFits
  <2>2. CASE executed[k] = {}
    BY <2>2, FS_EmptySet
  <2>3. CASE \E c \in Operations : executed[k] = {c}
    BY <2>3, FS_Singleton
  <2> QED
    BY <2>1, <2>2, <2>3
<1>2. TrustedTypeOK
  <2>1. \A k \in Keys : requests[k] # Nothing =>
          /\ requests[k].request \in Requested /\ Key(requests[k].request) = k
          /\ requests[k].status \in {"pending", "complete", "failed"}
    BY DEF TrustedInv, TrustedTyped, Requests, RecordFits, Record, Statuses
  <2>2. ASSUME NEW c \in Operations
        PROVE  /\ operations[c].pc \in Pcs /\ operations[c].answer \in Answers
               /\ operations[c].pc \in Owning => requests[Key(Request(c))].request = Request(c)
    BY CallTypes DEF TrustedInv, Operation, Requests, CallFits, Request
  <2> QED
    BY <2>1, <2>2 DEF TrustedTypeOK, TrustedInv, TrustedTyped
<1>3. LabelsAgree
  BY DEF TrustedInv, Domain, ClaimsHold, LabelsAgree, ActiveTags
<1> QED
  BY <1>1, <1>2, <1>3 DEF IndexesAgree, TrustedInv, Domain

\* However a request is repeated, at once or after failures and deaths, its mutation is committed
\* once (runIdempotent on beginOperationRequest), for any number of calls and requests.
THEOREM MutatesOnce == TrustedSpec => []ExecutedOnce
BY TrustedInvariant, TrustedInvImplies, PTL

\* Names and their claims, labels and their claims, favourites and the names of their trainers stay
\* one fact, through every transaction of the adapter and whatever happens between them.
THEOREM IndexesStay == TrustedSpec => []IndexesAgree
BY TrustedInvariant, TrustedInvImplies, PTL

LEMMA RecordsStay ==
  ASSUME TrustedInv, [TrustedNext]_trustedVars, NEW k \in Keys
  PROVE  requests[k] # Nothing /\ requests[k].status = "complete" => requests'[k] = requests[k]
<1> SUFFICES ASSUME requests[k] # Nothing, requests[k].status = "complete" PROVE requests'[k] = requests[k]
  OBVIOUS
<1>1. requests \in [Keys -> Record \cup {Nothing}]
  BY DEF TrustedInv, TrustedTyped
<1>2. ASSUME NEW c \in Operations, Begin(c) PROVE requests'[k] = requests[k]
  <2>1. CASE UNCHANGED requests
    BY <2>1
  <2>2. CASE /\ Acquires(Request(c))
             /\ requests' = [requests EXCEPT ![Key(Request(c))] =
                               [request |-> Request(c), status |-> "pending"]]
    BY <1>1, <2>2 DEF Acquires
  <2> QED
    BY <1>2, <2>1, <2>2 DEF Begin
<1>3. ASSUME NEW c \in Operations, RecordCompletion(c) \/ RecordFailure(c) PROVE requests'[k] = requests[k]
  <2>1. requests[Key(Request(c))].status = "pending"
    BY <1>3 DEF TrustedInv, Requests, CallFits, Request, RecordCompletion, RecordFailure, Owned, At
  <2>2. k # Key(Request(c))
    BY <2>1
  <2> QED
    BY <1>1, <1>3, <2>2 DEF RecordCompletion, RecordFailure
<1>4. CASE UNCHANGED requests
  BY <1>4
<1> QED
  BY <1>2, <1>3, <1>4 DEF TrustedNext, trustedVars, ShareChanges, Call, ReadFirst, Transact, ReserveHandle,
     ClaimTag, MutateFavorite, AdvanceHistory, SetViewer, Commits, Complete, VerifyCompletion, Fail,
     Throws, OperationDies, Owned

LEMMA HistoryStays ==
  ASSUME TrustedInv, [TrustedNext]_trustedVars, history # Nothing
  PROVE  /\ history'.version >= history.version /\ history'.updatedAt >= history.updatedAt
         /\ history'.version = history.version => history'.snapshot = history.snapshot
<1>1. ASSUME NEW c \in Operations, AdvanceHistory(c)
      PROVE  /\ history'.version >= history.version /\ history'.updatedAt >= history.updatedAt
             /\ history'.version = history.version => history'.snapshot = history.snapshot
  <2>1. PICK r : r = Request(c)
    OBVIOUS
  <2>2. WellFormed(r)
    <3>1. operations[c].pc \in Owning
      BY <1>1 DEF AdvanceHistory, Commits, At, Owning
    <3>2. Request(c) \in Requested
      BY <3>1, OwnerFacts
    <3> QED
      BY <2>1, <3>2, SceneFacts DEF TrustedInv
  <2> QED
    BY <1>1, <2>1, <2>2, HistoryStep
<1>2. history.version \in Int /\ history.updatedAt \in Int
  BY TrustedAssumption DEF TrustedAssumption, TrustedInv, TrustedTyped
<1>3. CASE UNCHANGED history
  BY <1>2, <1>3
<1> QED
  BY <1>1, <1>3 DEF TrustedNext, trustedVars, domainVars, historyVars, ShareChanges, Call, Begin, ReadFirst,
     Transact, ReserveHandle, ClaimTag, MutateFavorite, SetViewer, Complete, RecordCompletion,
     VerifyCompletion, Fail, RecordFailure, Throws, OperationDies, Owned

\* The completion of a request and what a viewer has seen of a share are never taken back.
THEOREM RecordsStand == TrustedSpec => RecordsAdvance
<1>1. ASSUME TrustedInv, TrustedInv', [TrustedNext]_trustedVars
      PROVE  [\A k \in Keys :
               /\ requests[k] # Nothing /\ requests[k].status = "complete" => requests'[k] = requests[k]
               /\ requests'[k] # Nothing /\ requests'[k].status = "complete" => executed'[k] # {}]_trustedVars
  <2>1. Keys' = Keys
    BY <1>1 DEF Keys, Requested, TrustedNext, trustedVars, ShareChanges, Call, Begin, ReadFirst, Transact,
       ReserveHandle, ClaimTag, MutateFavorite, AdvanceHistory, SetViewer, Commits, Complete,
       RecordCompletion, VerifyCompletion, Fail, RecordFailure, Throws, OperationDies, Owned
  <2>2. \A k \in Keys : requests'[k] # Nothing /\ requests'[k].status = "complete" => executed'[k] # {}
    BY <1>1, <2>1 DEF TrustedInv, Requests, RecordFits
  <2> QED
    BY <1>1, <2>2, RecordsStay
<1>2. TrustedInv /\ [TrustedNext]_trustedVars =>
        [history # Nothing =>
          /\ history'.version >= history.version /\ history'.updatedAt >= history.updatedAt
          /\ history'.version = history.version => history'.snapshot = history.snapshot]_trustedVars
  BY HistoryStays
<1> QED
  BY <1>1, <1>2, TrustedInvariant, PTL DEF TrustedSpec, RecordsAdvance, CompletionIsFinal, HistoryAdvances

-----------------------------------------------------------------------------
(***************************************************************************)
(* The authority of the identity foundations.  The argument: a foundation, a *)
(* link of a subject and a request document are written once and never again *)
(* (FoundationsStay), so what a transaction established stays true for every *)
(* later answer, whoever else writes (Documented, AnswerFits).  And while a *)
(* freeze stands no legacy name is new, so every name an inventory of that *)
(* freeze has found is still protected when a provider account is created  *)
(* (FrozenNames).                                                          *)
(***************************************************************************)
Stages ==
  {"idle", "exists", "charge", "consume", "mapping", "transact", "readback",
   "handles", "owners", "account", "confirm", "done"}

ServiceCall ==
  [ pc : Stages, request : Scene.requests \cup {Absent}, answer : Replied \cup {Absent}, replayOnly : BOOLEAN,
    at : Nat, seen : SUBSET (Account \cup (Handles \X Uids)) ]

Attempts == {<<c>> : c \in E1Calls} \cup {<<r>> : r \in Scene.requests}

DocumentsTyped ==
  /\ e1Scene \in DOMAIN AuthorityScenes
  /\ e1Accounts \in [Uids -> Account \cup {Absent}]
  /\ trainerHandles \in [Handles -> Uids \cup {Absent}]
  /\ providers \in [Uids -> Subjects \cup {Absent}]
  /\ providerSubjects \in [Subjects -> Uids \cup {Absent}]
  /\ operationRequests \in [RequestKeys -> Scene.requests \cup {Absent}]

CallsTyped == e1Calls \in [E1Calls -> ServiceCall]

\* The limiter documents, and what they count.
LimitsFit ==
  /\ rateLimits \in [Quotas -> [window : Int, attempts : SUBSET Attempts] \cup {Absent}]
  /\ \A q \in Quotas : rateLimits[q] # Absent =>
       /\ IsFiniteSet(rateLimits[q].attempts)
       /\ Cardinality(rateLimits[q].attempts) <= RateLimit
       /\ \A a \in rateLimits[q].attempts :
            [quota |-> q, window |-> rateLimits[q].window, attempt |-> a] \in admitted

\* What the transaction of a request has established.
Established(r) ==
  /\ r.op = "create" => ExactProvider(r)
  /\ r.op \in {"reserve", "repair", "migrate"} => ExactAccount(r, "legacy") /\ ExactHandle(r)
  /\ r.op = "freeze" /\ r.reason = "handle-owner-conflict" =>
       trainerHandles[r.name] \notin {Absent, r.uid}

Documented ==
  \A k \in RequestKeys : operationRequests[k] # Absent =>
    /\ RequestKey(operationRequests[k]) = k
    /\ operationRequests[k].op \in Mutations
    /\ Established(operationRequests[k])

\* The stages an operation goes through, and what it has been told.
StageFits(k) ==
  /\ k.pc # "idle" => k.request \in Scene.requests
  /\ k.pc = "idle" => k.seen = {}
  /\ k.pc \in {"exists", "mapping", "transact", "readback"} => k.request.op \in Mutations
  /\ k.pc = "readback" => k.request.op = "create"
  /\ k.pc \in {"handles", "owners"} => k.request.op \in {"find", "share"}
  /\ k.pc \in {"account", "confirm"} => k.request.op = "read"
  /\ k.pc # "done" => k.answer = Absent

AnswerFits(k) ==
  /\ k.pc # "idle" /\ k.request.op # "read" => \A claim \in k.seen :
       /\ claim \in Handles \X Uids
       /\ trainerHandles[claim[1]] = claim[2]
  /\ k.answer \in {"success", "idempotent"} =>
       k.request.op \in Mutations /\ operationRequests[RequestKey(k.request)] = k.request
  /\ k.answer = "reconciled" => k.request.op = "create" /\ ExactProvider(k.request)
  /\ k.answer = "conflict" /\ k.request.op # "read" => Scene.accounts # Scene.handles

CallsFit == \A c \in E1Calls : StageFits(e1Calls[c]) /\ AnswerFits(e1Calls[c])

\* Every name of the legacy application is the name of somebody's foundation.
Protected == \A u \in Uids : legacyNames[u] # Absent => trainerHandles[legacyNames[u]] # Absent

\* An inventory taken within the standing freeze protects what it found.
TakenWithin(t) ==
  /\ t \in Nat /\ t <= e1Clock
  /\ provisioningFreeze = Absent => t < e1Clock
  /\ provisioningFreeze # Absent /\ t >= provisioningFreeze.activatedAt => Protected

FrozenNames ==
  /\ e1Clock \in Nat
  /\ legacyNames \in [Uids -> Handles \cup {Absent}]
  /\ provisioningFreeze # Absent => rulesFrozen /\ provisioningFreeze.activatedAt \in Nat
  /\ inventory # Absent => TakenWithin(inventory)
  /\ certification # Absent => TakenWithin(certification.capturedAt)

E1Inv ==
  /\ DocumentsTyped /\ CallsTyped /\ LimitsFit
  /\ FoundationsAgree /\ Documented /\ CallsFit /\ FrozenNames

-----------------------------------------------------------------------------
(***************************************************************************)
(* The scene and what a call may be.                                       *)
(***************************************************************************)
LEMMA SceneOf ==
  ASSUME e1Scene \in DOMAIN AuthorityScenes
  PROVE  /\ \A r \in Scene.requests : r # Absent /\ WellFormedRequest(r) /\ RequestKey(r) \in RequestKeys
                                      /\ Quota(r) \in Quotas
         /\ Scene.legacy \in [Uids -> Handles \cup {Absent}]
         /\ Scene.accounts \cup Scene.handles \subseteq {u \in Uids : Scene.legacy[u] # Absent}
         /\ \A u, v \in Scene.handles : Scene.legacy[u] = Scene.legacy[v] => u = v
         /\ Scene.provisions \subseteq Uids \X Handles
         /\ Scene.certified => \A u \in Uids : Scene.legacy[u] # Absent => u \in Scene.handles
BY AuthorityAssumption DEF Scene, RequestKeys, Quotas

LEMMA NothingIsAbsent ==
  /\ \A u \in Uids : u # Absent
  /\ \A n \in Handles : n # Absent
  /\ \A s \in Subjects : s # Absent
  /\ \A a \in Account : a # Absent
BY AuthorityAssumption

LEMMA AuthorityInvInit == E1Init => E1Inv
<1> SUFFICES ASSUME E1Init PROVE E1Inv
  OBVIOUS
<1>1. e1Scene \in DOMAIN AuthorityScenes
  BY DEF E1Init
<1>2. legacyNames = Scene.legacy /\ legacyNames \in [Uids -> Handles \cup {Absent}]
  BY <1>1, SceneOf DEF E1Init
<1>3. /\ Scene.accounts \cup Scene.handles \subseteq {u \in Uids : legacyNames[u] # Absent}
      /\ \A u, v \in Scene.handles : legacyNames[u] = legacyNames[v] => u = v
  BY <1>1, <1>2, SceneOf
<1>4. e1Accounts \in [Uids -> Account \cup {Absent}]
  <2>1. ASSUME NEW u \in Uids, u \in Scene.accounts PROVE [kind |-> "legacy", name |-> legacyNames[u]] \in Account
    BY <1>2, <1>3, <2>1 DEF Account
  <2>2. QED
    BY <2>1 DEF E1Init
<1>5. ASSUME NEW n \in Handles
      PROVE  \/ trainerHandles[n] = Absent /\ \A u \in Scene.handles : legacyNames[u] # n
             \/ trainerHandles[n] \in Scene.handles /\ legacyNames[trainerHandles[n]] = n
  BY <1>5 DEF E1Init
<1>6. trainerHandles \in [Handles -> Uids \cup {Absent}]
  <2>1. \A n \in Handles : trainerHandles[n] \in Uids \cup {Absent}
    BY <1>3, <1>5
  <2>2. trainerHandles = [n \in Handles |-> trainerHandles[n]]
    BY DEF E1Init
  <2>3. QED
    BY <2>1, <2>2
<1>7. DocumentsTyped
  BY <1>1, <1>4, <1>6 DEF E1Init, DocumentsTyped
<1>8. CallsTyped
  BY DEF E1Init, CallsTyped, ServiceCall, Stages, Replied
<1>9. LimitsFit
  BY DEF E1Init, LimitsFit
<1>10. FoundationsAgree
  <2>1. ASSUME NEW u \in Uids, e1Accounts[u] # Absent
        PROVE  /\ u \in Scene.accounts
               /\ e1Accounts[u].name = legacyNames[u] /\ e1Accounts[u].kind = "legacy"
    BY <2>1 DEF E1Init
  <2>2. ASSUME NEW u \in Uids, e1Accounts[u] # Absent
        PROVE  \/ trainerHandles[e1Accounts[u].name] = u
               \/ u \in Scene.accounts \ Scene.handles /\ e1Accounts[u].name = Scene.legacy[u]
    <3>1. legacyNames[u] \in Handles
      BY <1>2, <1>3, <2>1, <2>2
    <3>2. CASE u \in Scene.handles
      <4>1. trainerHandles[legacyNames[u]] = u
        BY <1>3, <1>5, <3>1, <3>2
      <4>2. QED
        BY <2>1, <2>2, <4>1
    <3>3. CASE u \notin Scene.handles
      BY <1>2, <2>1, <2>2, <3>3
    <3>4. QED
      BY <3>2, <3>3
  <2>3. ASSUME NEW n \in Handles, trainerHandles[n] # Absent
        PROVE  \/ e1Accounts[trainerHandles[n]] # Absent /\ e1Accounts[trainerHandles[n]].name = n
               \/ trainerHandles[n] \in Scene.handles \ Scene.accounts
    <3>1. PICK u \in Uids : u = trainerHandles[n] /\ u \in Scene.handles /\ legacyNames[u] = n
      BY <1>3, <1>5, <2>3
    <3>2. CASE u \in Scene.accounts
      <4>1. e1Accounts[u] = [kind |-> "legacy", name |-> n]
        BY <3>1, <3>2 DEF E1Init
      <4>2. [kind |-> "legacy", name |-> n] \in Account
        BY DEF Account
      <4>3. QED
        BY <3>1, <4>1, <4>2, NothingIsAbsent
    <3>3. CASE u \notin Scene.accounts
      BY <3>1, <3>3
    <3>4. QED
      BY <3>2, <3>3
  <2>4. \A s \in Subjects : providerSubjects[s] = Absent
    BY DEF E1Init
  <2>5. QED
    BY <2>1, <2>2, <2>3, <2>4 DEF FoundationsAgree
<1>11. Documented
  BY DEF E1Init, Documented
<1>12. CallsFit
  <2>1. ASSUME NEW c \in E1Calls
        PROVE  e1Calls[c].pc = "idle" /\ e1Calls[c].answer = Absent /\ e1Calls[c].seen = {}
    BY <2>1 DEF E1Init
  <2>2. Absent \notin Replied
    BY AuthorityAssumption
  <2>3. QED
    BY <2>1, <2>2 DEF CallsFit, StageFits, AnswerFits, Replied
<1>13. FrozenNames
  <2>1. Scene.certified => Protected
    <3>1. ASSUME Scene.certified, NEW u \in Uids, legacyNames[u] # Absent
          PROVE  trainerHandles[legacyNames[u]] # Absent
      <4>1. u \in Scene.handles /\ legacyNames[u] \in Handles
        BY <1>1, <1>2, <3>1, SceneOf
      <4>2. trainerHandles[legacyNames[u]] \in Uids
        BY <1>3, <1>5, <4>1
      <4>3. QED
        BY <4>2, NothingIsAbsent
    <3>2. QED
      BY <3>1 DEF Protected
  <2>2. CASE Scene.certified
    <3>1. /\ e1Clock = 0 /\ rulesFrozen /\ inventory = 0
          /\ provisioningFreeze = [id |-> 0, activatedAt |-> 0]
          /\ certification = [freezeId |-> 0, capturedAt |-> 0, expiresAt |-> Validity]
      BY <2>2 DEF E1Init
    <3>2. provisioningFreeze \in Freeze /\ provisioningFreeze.activatedAt = 0
      BY <3>1 DEF Freeze
    <3>3. provisioningFreeze # Absent /\ TakenWithin(0)
      BY <2>1, <2>2, <3>1, <3>2, AuthorityAssumption DEF TakenWithin
    <3>4. certification.capturedAt = 0
      BY <3>1
    <3>5. QED
      BY <1>2, <3>1, <3>2, <3>3, <3>4 DEF FrozenNames
  <2>3. CASE ~Scene.certified
    BY <1>2, <2>3 DEF E1Init, FrozenNames
  <2>4. QED
    BY <2>2, <2>3
<1>14. QED
  BY <1>7, <1>8, <1>9, <1>10, <1>11, <1>12, <1>13 DEF E1Inv

-----------------------------------------------------------------------------
(***************************************************************************)
(* Steps of one call that write no document.                               *)
(***************************************************************************)
LEMMA QuietCall ==
  ASSUME E1Inv, NEW c \in E1Calls, NEW k \in ServiceCall,
         e1Calls' = [e1Calls EXCEPT ![c] = k],
         UNCHANGED <<e1Scene, e1Clock, operatorVars, documentVars>>, LimitsFit',
         StageFits(k), AnswerFits(k)
  PROVE  E1Inv'
<1>1. /\ UNCHANGED <<e1Scene, e1Clock, e1Accounts, trainerHandles, providers, providerSubjects, operationRequests>>
      /\ UNCHANGED <<legacyNames, rulesFrozen, provisioningFreeze, inventory, certification>>
  BY DEF documentVars, foundationVars, subjectVars, evidenceVars, operatorVars
<1>2. DocumentsTyped' /\ FoundationsAgree' /\ Documented' /\ FrozenNames'
  BY <1>1 DEF E1Inv, DocumentsTyped, FoundationsAgree, Documented, Established, FrozenNames, TakenWithin,
              Protected, Scene, RequestKeys, ExactProvider, ExactAccount, ExactHandle
<1>3. \A d \in E1Calls : e1Calls'[d] = IF d = c THEN k ELSE e1Calls[d]
  BY DEF E1Inv, CallsTyped
<1>4. CallsTyped'
  BY <1>1 DEF E1Inv, CallsTyped, ServiceCall, Scene
<1>5. CallsFit'
  <2>1. ASSUME NEW j, StageFits(j), AnswerFits(j) PROVE StageFits(j)' /\ AnswerFits(j)'
    BY <1>1, <2>1 DEF StageFits, AnswerFits, Scene, ExactProvider, ExactAccount, ExactHandle
  <2>2. ASSUME NEW d \in E1Calls PROVE StageFits(e1Calls[d])' /\ AnswerFits(e1Calls[d])'
    <3>1. PICK j : j = e1Calls'[d]
      OBVIOUS
    <3>2. StageFits(j) /\ AnswerFits(j)
      BY <1>3, <3>1 DEF E1Inv, CallsFit
    <3>3. StageFits(j)' /\ AnswerFits(j)'
      BY <2>1, <3>2
    <3>4. QED
      BY <3>1, <3>3 DEF StageFits, AnswerFits
  <2>3. QED
    BY <2>2 DEF CallsFit
<1>6. QED
  BY <1>2, <1>4, <1>5 DEF E1Inv

LEMMA LimitsStay ==
  ASSUME LimitsFit, UNCHANGED <<e1Scene, limitVars>>
  PROVE  LimitsFit'
BY DEF LimitsFit, limitVars, Quotas, Scene, Attempts

LEMMA CallOf ==
  ASSUME E1Inv, NEW c \in E1Calls
  PROVE  /\ e1Calls[c] \in ServiceCall /\ StageFits(e1Calls[c]) /\ AnswerFits(e1Calls[c])
         /\ e1Calls[c].pc # "idle" =>
              /\ E1Request(c) \in Scene.requests /\ WellFormedRequest(E1Request(c))
              /\ RequestKey(E1Request(c)) \in RequestKeys /\ Quota(E1Request(c)) \in Quotas
<1>1. e1Calls[c] \in ServiceCall /\ StageFits(e1Calls[c]) /\ AnswerFits(e1Calls[c])
  BY DEF E1Inv, CallsTyped, CallsFit
<1>2. e1Scene \in DOMAIN AuthorityScenes
  BY DEF E1Inv, DocumentsTyped
<1>3. QED
  BY <1>1, <1>2, SceneOf DEF StageFits, E1Request

\* A call moves on with what it has, or is answered.
LEMMA GoesOn ==
  ASSUME E1Inv, NEW c \in E1Calls, NEW pc \in Stages, Goes(c, pc), e1Calls[c].pc # "idle",
         UNCHANGED <<e1Scene, e1Clock, operatorVars, documentVars>>, LimitsFit',
         e1Calls[c].pc # "done", pc \notin {"idle", "done"},
         pc \in {"exists", "mapping", "transact", "readback"} => E1Request(c).op \in Mutations,
         pc = "readback" => E1Request(c).op = "create",
         pc \in {"handles", "owners"} => E1Request(c).op \in {"find", "share"},
         pc \in {"account", "confirm"} => E1Request(c).op = "read"
  PROVE  E1Inv'
<1>1. PICK k : k = [e1Calls[c] EXCEPT !.pc = pc]
  OBVIOUS
<1>2. e1Calls[c] \in ServiceCall /\ StageFits(e1Calls[c]) /\ AnswerFits(e1Calls[c])
  BY CallOf
<1>3. /\ k \in ServiceCall /\ k.pc = pc /\ k.request = e1Calls[c].request
      /\ k.answer = e1Calls[c].answer /\ k.seen = e1Calls[c].seen
  BY <1>1, <1>2 DEF ServiceCall
<1>4. StageFits(k) /\ AnswerFits(k)
  BY <1>2, <1>3 DEF StageFits, AnswerFits, E1Request
<1>5. e1Calls' = [e1Calls EXCEPT ![c] = k]
  BY <1>1 DEF Goes
<1>6. QED
  BY <1>3, <1>4, <1>5, QuietCall

LEMMA RepliesSo ==
  ASSUME E1Inv, NEW c \in E1Calls, NEW a \in Replied, Replies(c, a), e1Calls[c].pc # "idle",
         UNCHANGED <<e1Scene, e1Clock, operatorVars, documentVars>>, LimitsFit',
         a \in {"success", "idempotent"} =>
           E1Request(c).op \in Mutations /\ operationRequests[RequestKey(E1Request(c))] = E1Request(c),
         a = "reconciled" => E1Request(c).op = "create" /\ ExactProvider(E1Request(c)),
         a = "conflict" /\ E1Request(c).op # "read" => Scene.accounts # Scene.handles
  PROVE  E1Inv'
<1>1. PICK k : k = [e1Calls[c] EXCEPT !.pc = "done", !.answer = a]
  OBVIOUS
<1>2. e1Calls[c] \in ServiceCall /\ StageFits(e1Calls[c]) /\ AnswerFits(e1Calls[c])
  BY CallOf
<1>3. /\ k \in ServiceCall /\ k.pc = "done" /\ k.request = e1Calls[c].request
      /\ k.answer = a /\ k.seen = e1Calls[c].seen
  BY <1>1, <1>2 DEF ServiceCall, Stages
<1>4. StageFits(k) /\ AnswerFits(k)
  BY <1>2, <1>3 DEF StageFits, AnswerFits, E1Request
<1>5. e1Calls' = [e1Calls EXCEPT ![c] = k]
  BY <1>1 DEF Replies
<1>6. QED
  BY <1>3, <1>4, <1>5, QuietCall

\* A call that reaches a stage is at it, and the operator and the clock stay.
LEMMA AtStage ==
  ASSUME E1Inv, NEW c \in E1Calls, NEW pc \in Stages, Reaches(c, pc),
         UNCHANGED <<documentVars, limitVars>>
  PROVE  /\ e1Calls[c].pc = pc
         /\ UNCHANGED <<e1Scene, e1Clock, operatorVars, documentVars>> /\ LimitsFit'
BY LimitsStay DEF Reaches, E1Inv

LEMMA AuthorityCallStep ==
  ASSUME E1Inv, NEW c \in E1Calls, E1Call(c)
  PROVE  E1Inv'
<1>1. e1Calls[c].pc = "idle" /\ UNCHANGED <<e1Scene, e1Clock, operatorVars, documentVars>> /\ LimitsFit'
  BY AtStage DEF E1Call, Stages
<1>2. PICK r \in Scene.requests : e1Calls' = [e1Calls EXCEPT ![c].request = r,
         ![c].pc = CASE r.op \in Mutations -> "exists" [] r.op = "share" -> "handles"
                     [] OTHER -> "charge"]
  BY DEF E1Call
<1>3. PICK pc : pc = CASE r.op \in Mutations -> "exists" [] r.op = "share" -> "handles"
                       [] OTHER -> "charge"
  OBVIOUS
<1>4. /\ pc \in {"exists", "handles", "charge"}
      /\ pc = "exists" => r.op \in Mutations
      /\ pc = "handles" => r.op = "share"
  BY <1>3
<1>5. PICK k : k = [e1Calls[c] EXCEPT !.request = r, !.pc = pc]
  OBVIOUS
<1>6. e1Calls' = [e1Calls EXCEPT ![c] = k]
  <2>1. e1Calls' = [e1Calls EXCEPT ![c].request = r, ![c].pc = pc]
    BY <1>2, <1>3
  <2>2. QED
    BY <1>5, <2>1
<1>7. e1Calls[c] \in ServiceCall /\ e1Calls[c].answer = Absent
  BY <1>1, CallOf DEF StageFits
<1>8. /\ k \in ServiceCall /\ k.pc = pc /\ k.request = r
      /\ k.answer = Absent /\ k.seen = e1Calls[c].seen
  BY <1>4, <1>5, <1>7 DEF ServiceCall, Stages
<1>9. e1Calls[c].seen = {}
  BY <1>1, CallOf DEF StageFits
<1>10. StageFits(k) /\ AnswerFits(k)
  <2>1. Absent \notin Replied
    BY AuthorityAssumption
  <2>2. StageFits(k)
    BY <1>4, <1>8 DEF StageFits
  <2>3. QED
    BY <1>8, <1>9, <2>1, <2>2 DEF AnswerFits, Replied
<1>11. QED
  BY <1>1, <1>6, <1>8, <1>10, QuietCall

LEMMA AfterQuotaFits ==
  ASSUME NEW r, WellFormedRequest(r), NEW pc, pc = AfterQuota(r)
  PROVE  /\ pc \in {"transact", "account", "handles", "mapping"}
         /\ pc \in {"mapping", "transact"} => r.op \in Mutations
         /\ pc = "handles" => r.op \in {"find", "share"}
         /\ pc = "account" => r.op = "read"
BY DEF AfterQuota, WellFormedRequest, Mutations

LEMMA LooksUpStep ==
  ASSUME E1Inv, NEW c \in E1Calls, LooksUp(c)
  PROVE  E1Inv'
<1>1. e1Calls[c].pc = "exists" /\ UNCHANGED <<e1Scene, e1Clock, operatorVars, documentVars>> /\ LimitsFit'
  BY AtStage DEF LooksUp, Stages
<1>2. WellFormedRequest(E1Request(c)) /\ E1Request(c).op \in Mutations
  BY <1>1, CallOf DEF StageFits, E1Request
<1>3. PICK r : r = E1Request(c)
  OBVIOUS
<1>4. CASE Goes(c, "charge")
  BY <1>1, <1>4, GoesOn DEF Stages
<1>5. CASE Replies(c, "refused")
  BY <1>1, <1>5, RepliesSo DEF Replied
<1>6. CASE e1Calls' = [e1Calls EXCEPT ![c].replayOnly = TRUE, ![c].pc = AfterQuota(r)]
  <2>1. PICK pc : pc = AfterQuota(r)
    OBVIOUS
  <2>2. /\ pc \in Stages /\ pc \notin {"idle", "done", "exists", "readback", "owners", "confirm"}
        /\ pc \in {"mapping", "transact"} => r.op \in Mutations
        /\ pc = "handles" => r.op \in {"find", "share"}
        /\ pc = "account" => r.op = "read"
    BY <1>2, <1>3, <2>1, AfterQuotaFits DEF Stages
  <2>3. PICK k : k = [e1Calls[c] EXCEPT !.replayOnly = TRUE, !.pc = pc]
    OBVIOUS
  <2>4. e1Calls[c] \in ServiceCall /\ StageFits(e1Calls[c]) /\ AnswerFits(e1Calls[c])
    BY CallOf
  <2>5. /\ k \in ServiceCall /\ k.pc = pc /\ k.request = r /\ k.request = e1Calls[c].request
        /\ k.answer = e1Calls[c].answer /\ k.seen = e1Calls[c].seen
    BY <1>3, <2>2, <2>3, <2>4 DEF ServiceCall, E1Request
  <2>6. StageFits(k) /\ AnswerFits(k)
    BY <1>1, <2>2, <2>4, <2>5 DEF StageFits, AnswerFits
  <2>7. e1Calls' = [e1Calls EXCEPT ![c] = k]
    BY <1>6, <2>1, <2>3
  <2>8. QED
    BY <1>1, <2>5, <2>6, <2>7, QuietCall
<1>7. QED
  BY <1>3, <1>4, <1>5, <1>6 DEF LooksUp

LEMMA TakesTimeStep ==
  ASSUME E1Inv, NEW c \in E1Calls, TakesTime(c)
  PROVE  E1Inv'
<1>1. e1Calls[c].pc = "charge" /\ UNCHANGED <<e1Scene, e1Clock, operatorVars, documentVars>> /\ LimitsFit'
  BY AtStage DEF TakesTime, Stages
<1>2. PICK k : k = [e1Calls[c] EXCEPT !.pc = "consume", !.at = e1Clock]
  OBVIOUS
<1>3. e1Calls[c] \in ServiceCall /\ StageFits(e1Calls[c]) /\ AnswerFits(e1Calls[c])
  BY CallOf
<1>4. e1Clock \in Nat
  BY DEF E1Inv, FrozenNames
<1>5. /\ k \in ServiceCall /\ k.pc = "consume" /\ k.request = e1Calls[c].request
      /\ k.answer = e1Calls[c].answer /\ k.seen = e1Calls[c].seen
  BY <1>2, <1>3, <1>4 DEF ServiceCall, Stages
<1>6. StageFits(k) /\ AnswerFits(k)
  BY <1>1, <1>3, <1>5 DEF StageFits, AnswerFits
<1>7. e1Calls' = [e1Calls EXCEPT ![c] = k]
  BY <1>2 DEF TakesTime
<1>8. QED
  BY <1>1, <1>5, <1>6, <1>7, QuietCall

LEMMA ConsumeStep ==
  ASSUME E1Inv, NEW c \in E1Calls, Consume(c)
  PROVE  E1Inv'
<1>1. e1Calls[c].pc = "consume" /\ UNCHANGED <<e1Scene, e1Clock, operatorVars, documentVars>>
  BY DEF Consume, Reaches
<1>2. WellFormedRequest(E1Request(c)) /\ Quota(E1Request(c)) \in Quotas /\ E1Request(c) \in Scene.requests
      /\ e1Calls[c].at \in Nat
  BY <1>1, CallOf DEF ServiceCall
<1>3. PICK r : r = E1Request(c)
  OBVIOUS
<1>4. PICK q \in Quotas : q = Quota(r)
  BY <1>2, <1>3
<1>5. PICK window : window = e1Calls[c].at \div RateWindow
  OBVIOUS
<1>6. PICK spent : spent = SpentIn(q, window)
  OBVIOUS
<1>7. PICK a : a = Attempt(c)
  OBVIOUS
<1>8. window \in Int
  BY <1>2, <1>5, AuthorityAssumption
<1>9. LimitsFit'
  <2>1. CASE UNCHANGED limitVars
    BY <1>1, <2>1, LimitsStay DEF E1Inv
  <2>2. CASE /\ a \notin spent /\ Cardinality(spent) < RateLimit
             /\ rateLimits' = [rateLimits EXCEPT ![q] = [window |-> window, attempts |-> spent \cup {a}]]
             /\ admitted' = admitted \cup {[quota |-> q, window |-> window, attempt |-> a]}
    <3>1. IsFiniteSet(spent) /\ spent \subseteq Attempts
      <4>1. CASE rateLimits[q] # Absent /\ rateLimits[q].window = window
        BY <1>6, <4>1 DEF SpentIn, E1Inv, LimitsFit
      <4>2. CASE ~(rateLimits[q] # Absent /\ rateLimits[q].window = window)
        <5>1. spent = {}
          BY <1>6, <4>2 DEF SpentIn
        <5>2. QED
          BY <5>1, FS_EmptySet
      <4>3. QED
        BY <4>1, <4>2
    <3>2. \A b \in spent : [quota |-> q, window |-> window, attempt |-> b] \in admitted
      BY <1>6 DEF SpentIn, E1Inv, LimitsFit
    <3>3. a \in Attempts
      BY <1>2, <1>7 DEF Attempts, Attempt
    <3>4. PICK x : x = [window |-> window, attempts |-> spent \cup {a}]
      OBVIOUS
    <3>5. x \in [window : Int, attempts : SUBSET Attempts] /\ x.window = window /\ x.attempts = spent \cup {a}
      BY <1>8, <3>1, <3>3, <3>4
    <3>6. IsFiniteSet(x.attempts) /\ Cardinality(x.attempts) <= RateLimit
      <4>1. IsFiniteSet(spent \cup {a}) /\ Cardinality(spent \cup {a}) = Cardinality(spent) + 1
        BY <2>2, <3>1, FS_AddElement
      <4>2. Cardinality(spent) \in Nat /\ RateLimit \in Nat
        BY <3>1, FS_CardinalityType, AuthorityAssumption
      <4>3. Cardinality(spent) + 1 <= RateLimit
        BY <2>2, <4>2
      <4>4. QED
        BY <3>5, <4>1, <4>3
    <3>7. \A b \in x.attempts : [quota |-> q, window |-> x.window, attempt |-> b] \in admitted'
      BY <2>2, <3>2, <3>5
    <3>8. \A p \in Quotas : rateLimits'[p] = IF p = q THEN x ELSE rateLimits[p]
      BY <2>2, <3>4 DEF E1Inv, LimitsFit
    <3>9. Quotas' = Quotas /\ Attempts' = Attempts
      BY <1>1 DEF Quotas, Attempts, Scene
    <3>10. rateLimits' \in [Quotas -> [window : Int, attempts : SUBSET Attempts] \cup {Absent}]
      BY <2>2, <3>4, <3>5 DEF E1Inv, LimitsFit
    <3>11. admitted \subseteq admitted'
      BY <2>2
    <3>12. ASSUME NEW p \in Quotas, rateLimits'[p] # Absent
           PROVE  /\ IsFiniteSet(rateLimits'[p].attempts)
                  /\ Cardinality(rateLimits'[p].attempts) <= RateLimit
                  /\ \A b \in rateLimits'[p].attempts :
                       [quota |-> p, window |-> rateLimits'[p].window, attempt |-> b] \in admitted'
      <4>1. CASE p = q
        BY <3>6, <3>7, <3>8, <4>1
      <4>2. CASE p # q
        BY <3>8, <3>11, <3>12, <4>2 DEF E1Inv, LimitsFit
      <4>3. QED
        BY <4>1, <4>2
    <3>13. QED
      BY <3>9, <3>10, <3>12 DEF LimitsFit
  <2>3. QED
    BY <1>3, <1>4, <1>5, <1>6, <1>7, <2>1, <2>2 DEF Consume
<1>10. CASE Replies(c, "refused")
  BY <1>1, <1>9, <1>10, RepliesSo DEF Replied
<1>11. CASE Goes(c, AfterQuota(r))
  <2>1. PICK pc : pc = AfterQuota(r)
    OBVIOUS
  <2>2. /\ pc \in {"transact", "account", "handles", "mapping"}
        /\ pc \in {"mapping", "transact"} => r.op \in Mutations
        /\ pc = "handles" => r.op \in {"find", "share"}
        /\ pc = "account" => r.op = "read"
    BY <1>2, <1>3, <2>1, AfterQuotaFits
  <2>3. Goes(c, pc) /\ pc \in Stages
    BY <1>11, <2>1, <2>2 DEF Stages
  <2>4. QED
    BY <1>1, <1>3, <1>9, <2>2, <2>3, GoesOn
<1>12. QED
  BY <1>3, <1>10, <1>11 DEF Consume

LEMMA ReadsMappingStep ==
  ASSUME E1Inv, NEW c \in E1Calls, ReadsMapping(c)
  PROVE  E1Inv'
<1>1. e1Calls[c].pc = "mapping" /\ UNCHANGED <<e1Scene, e1Clock, operatorVars, documentVars>> /\ LimitsFit'
  BY AtStage DEF ReadsMapping, Stages
<1>2. E1Request(c).op \in Mutations
  BY <1>1, CallOf DEF StageFits, E1Request
<1>3. CASE Goes(c, "transact")
  BY <1>1, <1>2, <1>3, GoesOn DEF Stages
<1>4. CASE Replies(c, "refused")
  BY <1>1, <1>4, RepliesSo DEF Replied
<1>5. QED
  BY <1>3, <1>4 DEF ReadsMapping

LEMMA FailsStep ==
  ASSUME E1Inv, NEW c \in E1Calls, E1Fails(c)
  PROVE  E1Inv'
<1>1. e1Calls[c].pc \in Stages /\ e1Calls[c].pc # "idle"
  BY CallOf DEF ServiceCall, E1Fails
<1>2. UNCHANGED <<e1Scene, e1Clock, operatorVars, documentVars>> /\ LimitsFit'
  BY <1>1, AtStage DEF E1Fails
<1>3. QED
  BY <1>1, <1>2, RepliesSo DEF E1Fails, Replied

LEMMA ReplayStep ==
  ASSUME E1Inv, NEW c \in E1Calls, Replay(c)
  PROVE  E1Inv'
<1>1. e1Calls[c].pc = "transact" /\ UNCHANGED <<e1Scene, e1Clock, operatorVars, documentVars>> /\ LimitsFit'
  BY AtStage DEF Replay, Stages
<1>2. E1Request(c).op \in Mutations
  BY <1>1, CallOf DEF StageFits, E1Request
<1>3. Replies(c, "idempotent") /\ operationRequests[RequestKey(E1Request(c))] = E1Request(c)
  BY DEF Replay
<1>4. QED
  BY <1>1, <1>2, <1>3, RepliesSo DEF Replied

LEMMA UnclearStep ==
  ASSUME E1Inv, NEW c \in E1Calls, Unclear(c)
  PROVE  E1Inv'
<1>1. e1Calls[c].pc = "transact" /\ UNCHANGED <<e1Scene, e1Clock, operatorVars, documentVars>> /\ LimitsFit'
  BY AtStage DEF Unclear, Stages
<1>2. E1Request(c).op = "create" /\ Goes(c, "readback")
  BY DEF Unclear
<1>3. QED
  BY <1>1, <1>2, GoesOn DEF Stages, Mutations

LEMMA ReconcileStep ==
  ASSUME E1Inv, NEW c \in E1Calls, Reconcile(c)
  PROVE  E1Inv'
<1>1. e1Calls[c].pc = "readback" /\ UNCHANGED <<e1Scene, e1Clock, operatorVars, documentVars>> /\ LimitsFit'
  BY AtStage DEF Reconcile, Stages
<1>2. E1Request(c).op = "create"
  BY <1>1, CallOf DEF StageFits, E1Request
<1>3. CASE Replies(c, "reconciled") /\ ExactProvider(E1Request(c))
  BY <1>1, <1>2, <1>3, RepliesSo DEF Replied
<1>4. CASE Replies(c, "refused")
  BY <1>1, <1>4, RepliesSo DEF Replied
<1>5. QED
  BY <1>3, <1>4 DEF Reconcile, ReadsExactly

\* The claims a reader takes are those of the names it asked for.
LEMMA ReadsHandlesStep ==
  ASSUME E1Inv, NEW c \in E1Calls, ReadsHandles(c)
  PROVE  E1Inv'
<1>1. e1Calls[c].pc = "handles" /\ UNCHANGED <<e1Scene, e1Clock, operatorVars, documentVars>> /\ LimitsFit'
  BY AtStage DEF ReadsHandles, Stages
<1>2. /\ E1Request(c).op \in {"find", "share"} /\ E1Request(c).names \subseteq Handles
      /\ e1Calls[c] \in ServiceCall /\ StageFits(e1Calls[c])
  BY <1>1, CallOf DEF StageFits, E1Request, WellFormedRequest
<1>3. PICK claims : claims = {<<n, trainerHandles[n]>> :
                                n \in {n \in E1Request(c).names : trainerHandles[n] # Absent}}
  OBVIOUS
<1>4. \A claim \in claims : claim \in Handles \X Uids /\ trainerHandles[claim[1]] = claim[2]
  <2>1. \A n \in Handles : trainerHandles[n] # Absent => trainerHandles[n] \in Uids
    BY DEF E1Inv, DocumentsTyped
  <2>2. QED
    BY <1>2, <1>3, <2>1
<1>5. CASE Replies(c, "absent")
  BY <1>1, <1>5, RepliesSo DEF Replied
<1>6. CASE e1Calls' = [e1Calls EXCEPT ![c].pc = "owners", ![c].seen = claims]
  <2>1. PICK k : k = [e1Calls[c] EXCEPT !.pc = "owners", !.seen = claims]
    OBVIOUS
  <2>2. claims \in SUBSET (Account \cup (Handles \X Uids))
    BY <1>4
  <2>3. /\ k \in ServiceCall /\ k.pc = "owners" /\ k.request = e1Calls[c].request
        /\ k.answer = e1Calls[c].answer /\ k.seen = claims
    BY <1>2, <2>1, <2>2 DEF ServiceCall, Stages
  <2>4. k.answer = Absent /\ StageFits(k)
    BY <1>1, <1>2, <2>3 DEF StageFits, E1Request
  <2>5. AnswerFits(k)
    <3>1. Absent \notin Replied
      BY AuthorityAssumption
    <3>2. QED
      BY <1>4, <2>3, <2>4, <3>1 DEF AnswerFits, Replied
  <2>6. e1Calls' = [e1Calls EXCEPT ![c] = k]
    BY <1>6, <2>1
  <2>7. QED
    BY <1>1, <2>3, <2>4, <2>5, <2>6, QuietCall
<1>7. QED
  BY <1>3, <1>5, <1>6 DEF ReadsHandles

\* Owners that are read after their claims can only be missing where a half was from before.
LEMMA ReadsOwnersStep ==
  ASSUME E1Inv, NEW c \in E1Calls, ReadsOwners(c)
  PROVE  E1Inv'
<1>1. e1Calls[c].pc = "owners" /\ UNCHANGED <<e1Scene, e1Clock, operatorVars, documentVars>> /\ LimitsFit'
  BY AtStage DEF ReadsOwners, Stages
<1>2. \A claim \in e1Calls[c].seen : claim \in Handles \X Uids /\ trainerHandles[claim[1]] = claim[2]
  BY <1>1, CallOf DEF StageFits, AnswerFits
<1>3. CASE Replies(c, "found")
  BY <1>1, <1>3, RepliesSo DEF Replied
<1>4. CASE /\ Replies(c, "conflict")
           /\ \E claim \in e1Calls[c].seen :
                ~(e1Accounts[claim[2]] # Absent /\ e1Accounts[claim[2]].name = claim[1])
  <2>1. PICK n \in Handles, u \in Uids : trainerHandles[n] = u /\ ~(e1Accounts[u] # Absent /\ e1Accounts[u].name = n)
    BY <1>2, <1>4
  <2>2. u # Absent /\ u \in Scene.handles \ Scene.accounts
    BY <2>1, NothingIsAbsent DEF E1Inv, FoundationsAgree
  <2>3. QED
    BY <1>1, <1>4, <2>2, RepliesSo DEF Replied
<1>5. QED
  BY <1>3, <1>4 DEF ReadsOwners

LEMMA ReadsAccountStep ==
  ASSUME E1Inv, NEW c \in E1Calls, ReadsAccount(c)
  PROVE  E1Inv'
<1>1. e1Calls[c].pc = "account" /\ UNCHANGED <<e1Scene, e1Clock, operatorVars, documentVars>> /\ LimitsFit'
  BY AtStage DEF ReadsAccount, Stages
<1>2. e1Calls[c] \in ServiceCall /\ StageFits(e1Calls[c]) /\ AnswerFits(e1Calls[c])
  BY CallOf
<1>3. E1Request(c).op = "read" /\ E1Request(c).uid \in Uids
  BY <1>1, <1>2, CallOf DEF StageFits, E1Request, WellFormedRequest
<1>4. PICK account : account = e1Accounts[E1Request(c).uid]
  OBVIOUS
<1>5. CASE Replies(c, "absent")
  BY <1>1, <1>5, RepliesSo DEF Replied
<1>6. CASE account # Absent /\ e1Calls' = [e1Calls EXCEPT ![c].pc = "confirm", ![c].seen = {account}]
  <2>1. PICK k : k = [e1Calls[c] EXCEPT !.pc = "confirm", !.seen = {account}]
    OBVIOUS
  <2>2. account \in Account
    BY <1>3, <1>4, <1>6 DEF E1Inv, DocumentsTyped
  <2>3. /\ k \in ServiceCall /\ k.pc = "confirm" /\ k.request = e1Calls[c].request
        /\ k.answer = e1Calls[c].answer
    BY <1>2, <2>1, <2>2 DEF ServiceCall, Stages
  <2>4. StageFits(k)
    BY <1>1, <1>2, <1>3, <2>3 DEF StageFits, E1Request
  <2>5. AnswerFits(k)
    BY <1>1, <1>2, <1>3, <2>3 DEF AnswerFits, E1Request
  <2>6. e1Calls' = [e1Calls EXCEPT ![c] = k]
    BY <1>6, <2>1
  <2>7. QED
    BY <1>1, <2>3, <2>4, <2>5, <2>6, QuietCall
<1>7. QED
  BY <1>4, <1>5, <1>6 DEF ReadsAccount

LEMMA ConfirmsAccountStep ==
  ASSUME E1Inv, NEW c \in E1Calls, ConfirmsAccount(c)
  PROVE  E1Inv'
<1>1. e1Calls[c].pc = "confirm" /\ UNCHANGED <<e1Scene, e1Clock, operatorVars, documentVars>> /\ LimitsFit'
  BY AtStage DEF ConfirmsAccount, Stages
<1>2. E1Request(c).op = "read"
  BY <1>1, CallOf DEF StageFits, E1Request
<1>3. CASE Replies(c, "found")
  BY <1>1, <1>3, RepliesSo DEF Replied
<1>4. CASE Replies(c, "conflict")
  BY <1>1, <1>2, <1>4, RepliesSo DEF Replied
<1>5. QED
  BY <1>3, <1>4 DEF ConfirmsAccount

-----------------------------------------------------------------------------
(***************************************************************************)
(* Transactions.  A document that is there is never written again.         *)
(***************************************************************************)
FoundationsStay ==
  /\ \A u \in Uids : e1Accounts[u] # Absent => e1Accounts'[u] = e1Accounts[u]
  /\ \A n \in Handles : trainerHandles[n] # Absent => trainerHandles'[n] = trainerHandles[n]
  /\ \A u \in Uids : providers[u] # Absent => providers'[u] = providers[u]
  /\ \A s \in Subjects : providerSubjects[s] # Absent => providerSubjects'[s] = providerSubjects[s]

LEMMA ExactStays ==
  ASSUME DocumentsTyped, FoundationsStay, NEW r, WellFormedRequest(r), r.op \in Mutations
  PROVE  /\ ExactAccount(r, "legacy") => ExactAccount(r, "legacy")'
         /\ ExactHandle(r) => ExactHandle(r)'
         /\ r.op = "create" /\ ExactProvider(r) => ExactProvider(r)'
<1>1. r.uid \in Uids /\ r.name \in Handles /\ (r.op = "create" => r.subject \in Subjects)
  BY DEF WellFormedRequest
<1>2. \A kind \in {"legacy", "provider"} : [kind |-> kind, name |-> r.name] # Absent
  <2>1. ASSUME NEW kind \in {"legacy", "provider"} PROVE [kind |-> kind, name |-> r.name] \in Account
    BY <1>1 DEF Account
  <2>2. QED
    BY <2>1, NothingIsAbsent
<1>3. ASSUME NEW kind \in {"legacy", "provider"}, ExactAccount(r, kind) PROVE ExactAccount(r, kind)'
  BY <1>1, <1>2, <1>3 DEF ExactAccount, FoundationsStay
<1>4. ExactHandle(r) => ExactHandle(r)'
  BY <1>1, NothingIsAbsent DEF ExactHandle, FoundationsStay
<1>5. ASSUME r.op = "create", ExactProvider(r) PROVE ExactProvider(r)'
  <2>1. providers[r.uid] = r.subject /\ providerSubjects[r.subject] = r.uid /\ ExactAccount(r, "provider") /\ ExactHandle(r)
    BY <1>5 DEF ExactProvider
  <2>2. providers'[r.uid] = r.subject /\ providerSubjects'[r.subject] = r.uid
    BY <1>1, <1>5, <2>1, NothingIsAbsent DEF FoundationsStay
  <2>3. QED
    BY <1>3, <1>4, <2>1, <2>2 DEF ExactProvider
<1>6. QED
  BY <1>3, <1>4, <1>5

LEMMA EstablishedStays ==
  ASSUME DocumentsTyped, FoundationsStay, NEW r, WellFormedRequest(r), r.op \in Mutations, Established(r)
  PROVE  Established(r)'
<1>1. r.name \in Handles
  BY DEF WellFormedRequest
<1>2. trainerHandles[r.name] \notin {Absent, r.uid} => trainerHandles'[r.name] \notin {Absent, r.uid}
  BY <1>1 DEF FoundationsStay
<1>3. QED
  BY <1>2, ExactStays DEF Established

LEMMA CallStays ==
  ASSUME DocumentsTyped, FoundationsStay, UNCHANGED e1Scene,
         \A k \in RequestKeys : operationRequests[k] # Absent => operationRequests'[k] = operationRequests[k],
         NEW k \in ServiceCall, StageFits(k), AnswerFits(k)
  PROVE  StageFits(k)' /\ AnswerFits(k)'
<1>1. StageFits(k)'
  BY DEF StageFits, Scene
<1>2. k.answer \in Replied => k.request \in Scene.requests /\ k.request # Absent /\ WellFormedRequest(k.request)
                               /\ RequestKey(k.request) \in RequestKeys
  BY SceneOf, AuthorityAssumption DEF StageFits, DocumentsTyped
<1>3. k.answer \in {"success", "idempotent"} => operationRequests'[RequestKey(k.request)] = k.request
  BY <1>2 DEF AnswerFits, Replied
<1>4. k.answer = "reconciled" => ExactProvider(k.request)'
  BY <1>2, ExactStays DEF AnswerFits, Replied, Mutations
<1>5. ASSUME k.pc # "idle", k.request.op # "read", NEW claim \in k.seen
      PROVE  claim \in Handles \X Uids /\ trainerHandles'[claim[1]] = claim[2]
  BY <1>5, NothingIsAbsent DEF AnswerFits, FoundationsStay
<1>6. Scene' = Scene
  BY DEF Scene
<1>7. QED
  BY <1>1, <1>3, <1>4, <1>5, <1>6 DEF AnswerFits

LEMMA CommitStep ==
  ASSUME E1Inv, NEW c \in E1Calls, NEW r, r = E1Request(c),
         NEW op \in Mutations, NEW a \in {"success", "idempotent"}, CommitsNew(c, op, a),
         FoundationsStay, FoundationsAgree', Established(r)',
         e1Accounts' \in [Uids -> Account \cup {Absent}],
         trainerHandles' \in [Handles -> Uids \cup {Absent}],
         providers' \in [Uids -> Subjects \cup {Absent}],
         providerSubjects' \in [Subjects -> Uids \cup {Absent}]
  PROVE  E1Inv'
<1>1. /\ e1Calls[c].pc = "transact" /\ r.op = op
      /\ operationRequests[RequestKey(r)] = Absent
      /\ operationRequests' = [operationRequests EXCEPT ![RequestKey(r)] = r]
      /\ UNCHANGED <<e1Scene, e1Clock, limitVars, legacyNames, rulesFrozen, provisioningFreeze, inventory, certification>>
  BY DEF CommitsNew, Reaches, operatorVars
<1>2. /\ r \in Scene.requests /\ r # Absent /\ WellFormedRequest(r) /\ RequestKey(r) \in RequestKeys
      /\ e1Calls[c] \in ServiceCall /\ StageFits(e1Calls[c]) /\ AnswerFits(e1Calls[c])
  BY <1>1, CallOf, SceneOf DEF E1Inv, DocumentsTyped
<1>3. PICK key \in RequestKeys : key = RequestKey(r)
  BY <1>2
<1>4. \A k \in RequestKeys : operationRequests'[k] = IF k = key THEN r ELSE operationRequests[k]
  BY <1>1, <1>3 DEF E1Inv, DocumentsTyped
<1>5. Scene' = Scene /\ RequestKeys' = RequestKeys
  BY <1>1 DEF Scene, RequestKeys
<1>6. DocumentsTyped'
  BY <1>1, <1>2, <1>3, <1>5 DEF E1Inv, DocumentsTyped
<1>7. LimitsFit'
  BY <1>1, LimitsStay DEF E1Inv
<1>8. Documented'
  <2>1. ASSUME NEW k \in RequestKeys, k # key, operationRequests[k] # Absent
        PROVE  RequestKey(operationRequests[k]) = k /\ operationRequests[k].op \in Mutations
               /\ Established(operationRequests[k])'
    <3>1. PICK d \in Scene.requests : d = operationRequests[k]
      BY <2>1 DEF E1Inv, DocumentsTyped
    <3>2. RequestKey(d) = k /\ d.op \in Mutations /\ Established(d) /\ WellFormedRequest(d)
      BY <2>1, <3>1, SceneOf DEF E1Inv, Documented, DocumentsTyped
    <3>3. Established(d)'
      BY <3>2, EstablishedStays DEF E1Inv
    <3>4. d = operationRequests'[k]
      BY <1>4, <2>1, <3>1
    <3>5. QED
      BY <3>1, <3>2, <3>3, <3>4 DEF Established
  <2>2. ASSUME NEW k \in RequestKeys, operationRequests'[k] # Absent
        PROVE  RequestKey(operationRequests'[k]) = k /\ operationRequests'[k].op \in Mutations
               /\ Established(operationRequests[k])'
    <3>1. PICK d : d = operationRequests'[k]
      OBVIOUS
    <3>2. CASE k = key
      <4>1. d = r
        BY <1>4, <3>1, <3>2
      <4>2. RequestKey(d) = k /\ d.op \in Mutations /\ Established(d)'
        BY <1>1, <1>3, <3>2, <4>1
      <4>3. QED
        BY <3>1, <4>2 DEF Established
    <3>3. CASE k # key
      <4>1. operationRequests[k] = d /\ operationRequests[k] # Absent
        BY <1>4, <2>2, <3>1, <3>3
      <4>2. QED
        BY <2>1, <3>1, <3>3, <4>1
    <3>4. QED
      BY <3>2, <3>3
  <2>3. QED
    BY <1>5, <2>2 DEF Documented
<1>9. PICK j \in ServiceCall : j = e1Calls[c] /\ j.request = r /\ j.pc = "transact" /\ StageFits(j) /\ AnswerFits(j)
  BY <1>1, <1>2 DEF E1Request
<1>10. \A i \in ServiceCall : StageFits(i) /\ AnswerFits(i) => StageFits(i)' /\ AnswerFits(i)'
  BY <1>1, <1>4, CallStays DEF E1Inv
<1>11. PICK k : /\ k \in ServiceCall /\ e1Calls' = [e1Calls EXCEPT ![c] = k]
                /\ k.request = r /\ k.seen = j.seen /\ k.pc \in {"transact", "readback", "done"}
                /\ k.pc = "readback" => r.op = "create"
                /\ k.pc # "done" => k.answer = Absent
                /\ k.answer \in {Absent, a, "refused"}
  <2>1. ASSUME NEW z \in {a, "refused"}, Replies(c, z)
        PROVE  \E k \in ServiceCall :
                 /\ e1Calls' = [e1Calls EXCEPT ![c] = k] /\ k.request = r /\ k.seen = j.seen
                 /\ k.pc = "done" /\ k.answer = z
    <3>1. PICK k : k = [j EXCEPT !.pc = "done", !.answer = z]
      OBVIOUS
    <3>2. k \in ServiceCall /\ k.request = r /\ k.seen = j.seen /\ k.pc = "done" /\ k.answer = z
      BY <1>9, <2>1, <3>1 DEF ServiceCall, Stages, Replied
    <3>3. e1Calls' = [e1Calls EXCEPT ![c] = k]
      BY <1>9, <2>1, <3>1 DEF Replies
    <3>4. QED
      BY <3>2, <3>3
  <2>2. CASE UNCHANGED e1Calls
    <3>1. e1Calls' = [e1Calls EXCEPT ![c] = j]
      BY <1>9, <2>2 DEF E1Inv, CallsTyped
    <3>2. j.answer = Absent
      BY <1>9 DEF StageFits
    <3>3. QED
      BY <1>9, <3>1, <3>2
  <2>3. CASE op = "create" /\ Goes(c, "readback")
    <3>1. PICK k : k = [j EXCEPT !.pc = "readback"]
      OBVIOUS
    <3>2. j.answer = Absent
      BY <1>9 DEF StageFits
    <3>3. k \in ServiceCall /\ k.request = r /\ k.seen = j.seen /\ k.pc = "readback" /\ k.answer = Absent
      BY <1>9, <3>1, <3>2 DEF ServiceCall, Stages
    <3>4. e1Calls' = [e1Calls EXCEPT ![c] = k]
      BY <1>9, <2>3, <3>1 DEF Goes
    <3>5. QED
      BY <1>1, <2>3, <3>3, <3>4
  <2>4. CASE Replies(c, a)
    BY <2>1, <2>4
  <2>5. CASE Replies(c, "refused")
    BY <2>1, <2>5
  <2>6. QED
    BY <2>2, <2>3, <2>4, <2>5 DEF CommitsNew
<1>12. StageFits(k)' /\ AnswerFits(k)'
  <2>1. StageFits(j)' /\ AnswerFits(j)'
    BY <1>9, <1>10
  <2>2. operationRequests'[RequestKey(r)] = r /\ r.op \in Mutations
    BY <1>1, <1>3, <1>4
  <2>3. Absent \notin Replied /\ "refused" \notin {"success", "idempotent"}
    BY AuthorityAssumption
  <2>4. StageFits(k)'
    BY <1>1, <1>2, <1>5, <1>11 DEF StageFits
  <2>5. AnswerFits(k)'
    BY <1>9, <1>11, <2>1, <2>2, <2>3 DEF AnswerFits, Replied
  <2>6. QED
    BY <2>4, <2>5
<1>13. CallsTyped'
  BY <1>5, <1>11 DEF E1Inv, CallsTyped, ServiceCall
<1>14. CallsFit'
  <2>1. \A d \in E1Calls : e1Calls'[d] = IF d = c THEN k ELSE e1Calls[d]
    BY <1>11 DEF E1Inv, CallsTyped
  <2>2. ASSUME NEW d \in E1Calls PROVE StageFits(e1Calls[d])' /\ AnswerFits(e1Calls[d])'
    <3>1. PICK i : i = e1Calls'[d]
      OBVIOUS
    <3>2. d # c => i \in ServiceCall /\ StageFits(i) /\ AnswerFits(i)
      BY <2>1, <3>1, CallOf
    <3>3. StageFits(i)' /\ AnswerFits(i)'
      BY <1>10, <1>12, <2>1, <3>1, <3>2
    <3>4. QED
      BY <3>1, <3>3 DEF StageFits, AnswerFits
  <2>3. QED
    BY <2>2 DEF CallsFit
<1>15. FrozenNames'
  <2>1. Protected => Protected'
    BY <1>1 DEF E1Inv, FrozenNames, Protected, FoundationsStay
  <2>2. QED
    BY <1>1, <2>1 DEF E1Inv, FrozenNames, TakenWithin
<1>16. QED
  BY <1>6, <1>7, <1>8, <1>13, <1>14, <1>15 DEF E1Inv

\* A name and its owner's account are one fact, apart from the halves from before.
AccountsAgree ==
  \A u \in Uids : e1Accounts[u] # Absent =>
    \/ trainerHandles[e1Accounts[u].name] = u
    \/ u \in Scene.accounts \ Scene.handles /\ e1Accounts[u].name = Scene.legacy[u]

NamesAgree ==
  \A n \in Handles : trainerHandles[n] # Absent =>
    \/ e1Accounts[trainerHandles[n]] # Absent /\ e1Accounts[trainerHandles[n]].name = n
    \/ trainerHandles[n] \in Scene.handles \ Scene.accounts

SubjectsAgree ==
  /\ \A u \in Uids : e1Accounts[u] # Absent /\ e1Accounts[u].kind = "provider" =>
       providers[u] # Absent /\ providerSubjects[providers[u]] = u
  /\ \A s \in Subjects : providerSubjects[s] # Absent => providers[providerSubjects[s]] = s

LEMMA AgreeParts == FoundationsAgree <=> AccountsAgree /\ NamesAgree /\ SubjectsAgree
BY DEF FoundationsAgree, AccountsAgree, NamesAgree, SubjectsAgree

\* An account and a name are written together, or completed.
LEMMA FoundationWritten ==
  ASSUME DocumentsTyped, AccountsAgree, NamesAgree, UNCHANGED e1Scene,
         NEW r, WellFormedRequest(r), r.op \in Mutations, NEW kind \in {"legacy", "provider"},
         NoAccount(r) \/ ExactAccount(r, kind), NoHandle(r) \/ ExactHandle(r),
         CreatesAccount(r, kind), CreatesHandle(r)
  PROVE  /\ AccountsAgree' /\ NamesAgree' /\ ExactAccount(r, kind)' /\ ExactHandle(r)'
         /\ e1Accounts' \in [Uids -> Account \cup {Absent}]
         /\ trainerHandles' \in [Handles -> Uids \cup {Absent}]
         /\ \A u \in Uids : u # r.uid => e1Accounts'[u] = e1Accounts[u]
         /\ \A u \in Uids : e1Accounts[u] # Absent => e1Accounts'[u] = e1Accounts[u]
         /\ \A n \in Handles : trainerHandles[n] # Absent => trainerHandles'[n] = trainerHandles[n]
<1>1. r.uid \in Uids /\ r.name \in Handles /\ r.uid # Absent
  BY NothingIsAbsent DEF WellFormedRequest
<1>2. PICK a : a = [kind |-> kind, name |-> r.name]
  OBVIOUS
<1>3. a \in Account /\ a # Absent /\ a.name = r.name
  BY <1>1, <1>2, NothingIsAbsent DEF Account
<1>4. \A u \in Uids : e1Accounts'[u] = IF u = r.uid THEN a ELSE e1Accounts[u]
  BY <1>2 DEF CreatesAccount, DocumentsTyped
<1>5. \A n \in Handles : trainerHandles'[n] = IF n = r.name THEN r.uid ELSE trainerHandles[n]
  BY DEF CreatesHandle, DocumentsTyped
<1>6. e1Accounts' \in [Uids -> Account \cup {Absent}] /\ trainerHandles' \in [Handles -> Uids \cup {Absent}]
  BY <1>1, <1>2, <1>3 DEF CreatesAccount, CreatesHandle, DocumentsTyped
<1>7. ExactAccount(r, kind)' /\ ExactHandle(r)'
  BY <1>1, <1>2, <1>4, <1>5 DEF ExactAccount, ExactHandle
<1>8. e1Accounts[r.uid] \in {Absent, a} /\ trainerHandles[r.name] \in {Absent, r.uid}
  BY <1>2 DEF NoAccount, ExactAccount, NoHandle, ExactHandle
<1>9. Scene' = Scene
  BY DEF Scene
<1>10. ASSUME NEW u \in Uids, e1Accounts'[u] # Absent
       PROVE  \/ trainerHandles'[e1Accounts'[u].name] = u
              \/ u \in Scene.accounts \ Scene.handles /\ e1Accounts'[u].name = Scene.legacy[u]
  <2>1. CASE u = r.uid
    BY <1>1, <1>3, <1>4, <1>5, <2>1
  <2>2. CASE u # r.uid
    <3>1. e1Accounts'[u] = e1Accounts[u] /\ e1Accounts[u].name \in Handles /\ u # Absent
      BY <1>4, <1>10, <2>2, NothingIsAbsent DEF DocumentsTyped, Account
    <3>2. CASE trainerHandles[e1Accounts[u].name] = u
      BY <1>5, <1>8, <2>2, <3>1, <3>2
    <3>3. CASE u \in Scene.accounts \ Scene.handles /\ e1Accounts[u].name = Scene.legacy[u]
      BY <3>1, <3>3
    <3>4. QED
      BY <1>10, <3>1, <3>2, <3>3 DEF AccountsAgree
  <2>3. QED
    BY <2>1, <2>2
<1>11. ASSUME NEW n \in Handles, trainerHandles'[n] # Absent
       PROVE  \/ e1Accounts'[trainerHandles'[n]] # Absent /\ e1Accounts'[trainerHandles'[n]].name = n
              \/ trainerHandles'[n] \in Scene.handles \ Scene.accounts
  <2>1. CASE n = r.name
    BY <1>1, <1>3, <1>4, <1>5, <2>1
  <2>2. CASE n # r.name
    <3>1. PICK v \in Uids : v = trainerHandles[n] /\ v = trainerHandles'[n] /\ trainerHandles[n] # Absent
      BY <1>5, <1>11, <2>2 DEF DocumentsTyped
    <3>2. CASE e1Accounts[v] # Absent /\ e1Accounts[v].name = n
      <4>1. v # r.uid
        BY <1>3, <1>8, <2>2, <3>2
      <4>2. QED
        BY <1>4, <3>1, <3>2, <4>1
    <3>3. CASE v \in Scene.handles \ Scene.accounts
      BY <3>1, <3>3
    <3>4. \/ e1Accounts[v] # Absent /\ e1Accounts[v].name = n
          \/ v \in Scene.handles \ Scene.accounts
      <4>1. trainerHandles[n] # Absent /\ trainerHandles[n] = v
        BY <3>1
      <4>2. \/ e1Accounts[trainerHandles[n]] # Absent /\ e1Accounts[trainerHandles[n]].name = n
            \/ trainerHandles[n] \in Scene.handles \ Scene.accounts
        BY <4>1 DEF NamesAgree
      <4>3. QED
        BY <4>1, <4>2
    <3>5. QED
      BY <3>2, <3>3, <3>4
  <2>3. QED
    BY <2>1, <2>2
<1>12. AccountsAgree' /\ NamesAgree'
  BY <1>9, <1>10, <1>11 DEF AccountsAgree, NamesAgree
<1>13. QED
  BY <1>4, <1>5, <1>6, <1>7, <1>8, <1>12

\* The legacy foundations leave the links of Google subjects alone.
LEMMA LegacyWritten ==
  ASSUME E1Inv, UNCHANGED <<e1Scene, subjectVars>>,
         NEW r, WellFormedRequest(r), r.op \in Mutations,
         NoAccount(r) \/ ExactAccount(r, "legacy"), NoHandle(r) \/ ExactHandle(r),
         CreatesAccount(r, "legacy"), CreatesHandle(r)
  PROVE  /\ FoundationsStay /\ FoundationsAgree' /\ ExactAccount(r, "legacy")' /\ ExactHandle(r)'
         /\ e1Accounts' \in [Uids -> Account \cup {Absent}]
         /\ trainerHandles' \in [Handles -> Uids \cup {Absent}]
         /\ providers' \in [Uids -> Subjects \cup {Absent}]
         /\ providerSubjects' \in [Subjects -> Uids \cup {Absent}]
<1>1. DocumentsTyped /\ AccountsAgree /\ NamesAgree /\ SubjectsAgree
  BY AgreeParts DEF E1Inv
<1>2. providers' = providers /\ providerSubjects' = providerSubjects
  BY DEF subjectVars
<1>3. /\ AccountsAgree' /\ NamesAgree' /\ ExactAccount(r, "legacy")' /\ ExactHandle(r)'
      /\ e1Accounts' \in [Uids -> Account \cup {Absent}]
      /\ trainerHandles' \in [Handles -> Uids \cup {Absent}]
      /\ \A u \in Uids : u # r.uid => e1Accounts'[u] = e1Accounts[u]
      /\ \A u \in Uids : e1Accounts[u] # Absent => e1Accounts'[u] = e1Accounts[u]
      /\ \A n \in Handles : trainerHandles[n] # Absent => trainerHandles'[n] = trainerHandles[n]
  BY <1>1, FoundationWritten
<1>4. e1Accounts'[r.uid].kind = "legacy"
  BY <1>3 DEF ExactAccount
<1>5. SubjectsAgree'
  BY <1>1, <1>2, <1>3, <1>4 DEF SubjectsAgree
<1>6. FoundationsAgree'
  <2>1. AccountsAgree' /\ NamesAgree' /\ SubjectsAgree'
    BY <1>3, <1>5
  <2>2. QED
    BY <2>1 DEF FoundationsAgree, AccountsAgree, NamesAgree, SubjectsAgree
<1>7. FoundationsStay
  BY <1>2, <1>3 DEF FoundationsStay
<1>8. QED
  BY <1>1, <1>2, <1>3, <1>6, <1>7 DEF DocumentsTyped

LEMMA NothingWritten ==
  ASSUME E1Inv, UNCHANGED <<e1Scene, foundationVars, subjectVars>>
  PROVE  /\ FoundationsStay /\ FoundationsAgree'
         /\ e1Accounts' \in [Uids -> Account \cup {Absent}]
         /\ trainerHandles' \in [Handles -> Uids \cup {Absent}]
         /\ providers' \in [Uids -> Subjects \cup {Absent}]
         /\ providerSubjects' \in [Subjects -> Uids \cup {Absent}]
BY DEF E1Inv, DocumentsTyped, FoundationsStay, FoundationsAgree, foundationVars, subjectVars, Scene

LEMMA ReserveStep ==
  ASSUME E1Inv, NEW c \in E1Calls, Reserve(c)
  PROVE  E1Inv'
<1>1. PICK r : r = E1Request(c)
  OBVIOUS
<1>2. \E a \in {"success", "idempotent"} : CommitsNew(c, "reserve", a)
  BY DEF Reserve
<1>3. r.op = "reserve" /\ e1Calls[c].pc = "transact" /\ UNCHANGED <<e1Scene, subjectVars>>
  BY <1>1, <1>2 DEF CommitsNew, Reaches, Reserve
<1>4. WellFormedRequest(r) /\ r.op \in Mutations
  BY <1>1, <1>3, CallOf DEF Mutations
<1>5. CASE CommitsNew(c, "reserve", "success") /\ CanReserve(r) /\ CreatesAccount(r, "legacy") /\ CreatesHandle(r)
  <2>1. Established(r)'
    BY <1>3, <1>4, <1>5, LegacyWritten DEF Established, CanReserve
  <2>2. QED
    BY <1>1, <1>3, <1>4, <1>5, <2>1, LegacyWritten, CommitStep DEF CanReserve
<1>6. CASE CommitsNew(c, "reserve", "idempotent") /\ ExactAccount(r, "legacy") /\ ExactHandle(r) /\ UNCHANGED foundationVars
  <2>1. Established(r)'
    BY <1>3, <1>6 DEF Established, ExactAccount, ExactHandle, foundationVars
  <2>2. QED
    BY <1>1, <1>3, <1>4, <1>6, <2>1, NothingWritten, CommitStep
<1>7. QED
  BY <1>1, <1>5, <1>6 DEF Reserve

LEMMA RepairStep ==
  ASSUME E1Inv, NEW c \in E1Calls, Repair(c)
  PROVE  E1Inv'
<1>1. PICK r : r = E1Request(c)
  OBVIOUS
<1>2. /\ CommitsNew(c, "repair", "success") /\ Restorable(r) /\ CreatesAccount(r, "legacy") /\ CreatesHandle(r)
      /\ UNCHANGED subjectVars
  BY <1>1 DEF Repair
<1>3. r.op = "repair" /\ e1Calls[c].pc = "transact" /\ UNCHANGED e1Scene
  BY <1>1, <1>2 DEF CommitsNew, Reaches
<1>4. WellFormedRequest(r) /\ r.op \in Mutations
  BY <1>1, <1>3, CallOf DEF Mutations
<1>5. Established(r)'
  BY <1>2, <1>3, <1>4, LegacyWritten DEF Established, Restorable
<1>6. QED
  BY <1>1, <1>2, <1>3, <1>4, <1>5, LegacyWritten, CommitStep DEF Restorable

LEMMA MigrateStep ==
  ASSUME E1Inv, NEW c \in E1Calls, Migrate(c)
  PROVE  E1Inv'
<1>1. PICK r : r = E1Request(c)
  OBVIOUS
<1>2. /\ CommitsNew(c, "migrate", "success") /\ CreatesAccount(r, "legacy") /\ CreatesHandle(r)
      /\ NoAccount(r) \/ ExactAccount(r, "legacy")
      /\ NoHandle(r) \/ ExactHandle(r)
      /\ UNCHANGED subjectVars
  BY <1>1 DEF Migrate
<1>3. r.op = "migrate" /\ e1Calls[c].pc = "transact" /\ UNCHANGED e1Scene
  BY <1>1, <1>2 DEF CommitsNew, Reaches
<1>4. WellFormedRequest(r) /\ r.op \in Mutations
  BY <1>1, <1>3, CallOf DEF Mutations
<1>5. Established(r)'
  BY <1>2, <1>3, <1>4, LegacyWritten DEF Established
<1>6. QED
  BY <1>1, <1>2, <1>3, <1>4, <1>5, LegacyWritten, CommitStep

LEMMA FreezeConflictStep ==
  ASSUME E1Inv, NEW c \in E1Calls, FreezeConflict(c)
  PROVE  E1Inv'
<1>1. PICK r : r = E1Request(c)
  OBVIOUS
<1>2. /\ CommitsNew(c, "freeze", "success") /\ ConflictObserved(r) /\ UNCHANGED <<foundationVars, subjectVars>>
  BY <1>1 DEF FreezeConflict
<1>3. r.op = "freeze" /\ e1Calls[c].pc = "transact" /\ UNCHANGED e1Scene
  BY <1>1, <1>2 DEF CommitsNew, Reaches
<1>4. r.op \in Mutations
  BY <1>3 DEF Mutations
<1>5. Established(r)'
  BY <1>2, <1>3 DEF Established, ConflictObserved, foundationVars
<1>6. QED
  BY <1>1, <1>2, <1>3, <1>4, <1>5, NothingWritten, CommitStep

\* A provider account, its name and its subject were nobody's before.
LEMMA CreateProviderStep ==
  ASSUME E1Inv, NEW c \in E1Calls, CreateProvider(c)
  PROVE  E1Inv'
<1>1. PICK r : r = E1Request(c)
  OBVIOUS
<1>2. /\ CommitsNew(c, "create", "success") /\ NoAccount(r) /\ NoHandle(r)
      /\ providers[r.uid] = Absent /\ providerSubjects[r.subject] = Absent
      /\ CreatesAccount(r, "provider") /\ CreatesHandle(r)
      /\ providers' = [providers EXCEPT ![r.uid] = r.subject]
      /\ providerSubjects' = [providerSubjects EXCEPT ![r.subject] = r.uid]
  BY <1>1 DEF CreateProvider
<1>3. r.op = "create" /\ e1Calls[c].pc = "transact" /\ UNCHANGED e1Scene
  BY <1>1, <1>2 DEF CommitsNew, Reaches
<1>4. WellFormedRequest(r) /\ r.op \in Mutations
  BY <1>1, <1>3, CallOf DEF Mutations
<1>5. r.uid \in Uids /\ r.subject \in Subjects /\ r.uid # Absent /\ r.subject # Absent
  BY <1>3, <1>4, NothingIsAbsent DEF WellFormedRequest
<1>6. DocumentsTyped /\ AccountsAgree /\ NamesAgree /\ SubjectsAgree
  BY AgreeParts DEF E1Inv
<1>7. /\ AccountsAgree' /\ NamesAgree' /\ ExactAccount(r, "provider")' /\ ExactHandle(r)'
      /\ e1Accounts' \in [Uids -> Account \cup {Absent}]
      /\ trainerHandles' \in [Handles -> Uids \cup {Absent}]
      /\ \A u \in Uids : u # r.uid => e1Accounts'[u] = e1Accounts[u]
      /\ \A u \in Uids : e1Accounts[u] # Absent => e1Accounts'[u] = e1Accounts[u]
      /\ \A n \in Handles : trainerHandles[n] # Absent => trainerHandles'[n] = trainerHandles[n]
  BY <1>2, <1>3, <1>4, <1>6, FoundationWritten
<1>8. \A u \in Uids : providers'[u] = IF u = r.uid THEN r.subject ELSE providers[u]
  BY <1>2, <1>6 DEF DocumentsTyped
<1>9. \A s \in Subjects : providerSubjects'[s] = IF s = r.subject THEN r.uid ELSE providerSubjects[s]
  BY <1>2, <1>6 DEF DocumentsTyped
<1>10. providers' \in [Uids -> Subjects \cup {Absent}] /\ providerSubjects' \in [Subjects -> Uids \cup {Absent}]
  BY <1>2, <1>5, <1>6 DEF DocumentsTyped
<1>11. SubjectsAgree'
  <2>1. ASSUME NEW u \in Uids, e1Accounts'[u] # Absent, e1Accounts'[u].kind = "provider"
        PROVE  providers'[u] # Absent /\ providerSubjects'[providers'[u]] = u
    <3>1. CASE u = r.uid
      BY <1>5, <1>8, <1>9, <3>1
    <3>2. CASE u # r.uid
      <4>1. providers[u] # Absent /\ providerSubjects[providers[u]] = u
        BY <1>6, <1>7, <2>1, <3>2 DEF SubjectsAgree
      <4>2. PICK s \in Subjects : s = providers[u] /\ providerSubjects[s] = u
        BY <1>6, <4>1 DEF DocumentsTyped
      <4>3. s # r.subject
        BY <1>2, <4>2, NothingIsAbsent
      <4>4. QED
        BY <1>8, <1>9, <3>2, <4>1, <4>2, <4>3
    <3>3. QED
      BY <3>1, <3>2
  <2>2. ASSUME NEW s \in Subjects, providerSubjects'[s] # Absent
        PROVE  providers'[providerSubjects'[s]] = s
    <3>1. CASE s = r.subject
      BY <1>5, <1>8, <1>9, <3>1
    <3>2. CASE s # r.subject
      <4>1. PICK u \in Uids : u = providerSubjects[s] /\ u = providerSubjects'[s] /\ providers[u] = s
        BY <1>6, <1>9, <2>2, <3>2 DEF SubjectsAgree, DocumentsTyped
      <4>2. u # r.uid
        BY <1>2, <4>1, NothingIsAbsent
      <4>3. QED
        BY <1>8, <4>1, <4>2
    <3>3. QED
      BY <3>1, <3>2
  <2>3. QED
    BY <2>1, <2>2 DEF SubjectsAgree
<1>12. FoundationsAgree'
  BY <1>7, <1>11 DEF FoundationsAgree, AccountsAgree, NamesAgree, SubjectsAgree
<1>13. FoundationsStay
  BY <1>2, <1>7, <1>8, <1>9 DEF FoundationsStay
<1>14. ExactProvider(r)'
  BY <1>5, <1>7, <1>8, <1>9 DEF ExactProvider
<1>15. Established(r)'
  BY <1>3, <1>14 DEF Established
<1>16. QED
  BY <1>1, <1>2, <1>4, <1>7, <1>10, <1>12, <1>13, <1>15, CommitStep DEF Mutations

-----------------------------------------------------------------------------
(***************************************************************************)
(* The operator and the legacy application.  Each of their steps takes an  *)
(* instant, so an inventory is of a standing freeze or older than the next.*)
(***************************************************************************)
LEMMA OperatorKeeps ==
  ASSUME E1Inv, OperatorStep, FrozenNames'
  PROVE  E1Inv'
<1>1. UNCHANGED <<e1Scene, e1Calls, documentVars, limitVars>>
  BY DEF OperatorStep
<1>2. UNCHANGED <<e1Accounts, trainerHandles, providers, providerSubjects, operationRequests>>
  BY <1>1 DEF documentVars, foundationVars, subjectVars
<1>3. Scene' = Scene /\ RequestKeys' = RequestKeys
  BY <1>1 DEF Scene, RequestKeys
<1>4. DocumentsTyped' /\ FoundationsAgree' /\ Documented' /\ LimitsFit'
  BY <1>1, <1>2, <1>3, LimitsStay
     DEF E1Inv, DocumentsTyped, FoundationsAgree, Documented, Established, ExactProvider, ExactAccount, ExactHandle
<1>5. CallsTyped' /\ CallsFit'
  BY <1>1, <1>2, <1>3 DEF E1Inv, CallsTyped, ServiceCall, CallsFit, StageFits, AnswerFits,
                          ExactProvider, ExactAccount, ExactHandle
<1>6. QED
  BY <1>4, <1>5 DEF E1Inv

\* Time passes, and what was taken before stays as it was, unless names are provisioned
\* while nothing is frozen or a freeze is activated later.
LEMMA LaterThan ==
  ASSUME FrozenNames, NEW t, TakenWithin(t), e1Clock' = e1Clock + 1, UNCHANGED trainerHandles,
         \/ legacyNames' = legacyNames
         \/ ~rulesFrozen /\ provisioningFreeze = Absent,
         \/ provisioningFreeze' \in {provisioningFreeze, Absent}
         \/ provisioningFreeze = Absent /\ provisioningFreeze'.activatedAt = e1Clock
  PROVE  TakenWithin(t)'
<1>1. t \in Nat /\ t <= e1Clock /\ e1Clock \in Nat
  BY DEF TakenWithin, FrozenNames
<1>2. t <= e1Clock' /\ t < e1Clock'
  BY <1>1
<1>3. ASSUME provisioningFreeze' # Absent, t >= provisioningFreeze'.activatedAt PROVE Protected'
  <2>1. CASE provisioningFreeze' = provisioningFreeze
    <3>1. Protected /\ legacyNames' = legacyNames
      BY <1>3, <2>1 DEF TakenWithin
    <3>2. QED
      BY <3>1 DEF Protected
  <2>2. CASE provisioningFreeze = Absent /\ provisioningFreeze'.activatedAt = e1Clock
    <3>1. t < e1Clock
      BY <2>2 DEF TakenWithin
    <3>2. QED
      BY <1>1, <1>3, <2>2, <3>1
  <2>3. QED
    BY <1>3, <2>1, <2>2
<1>4. QED
  BY <1>1, <1>2, <1>3 DEF TakenWithin

LEMMA FreezeStays ==
  ASSUME FrozenNames, e1Clock' = e1Clock + 1, UNCHANGED trainerHandles,
         legacyNames' \in [Uids -> Handles \cup {Absent}],
         \/ legacyNames' = legacyNames
         \/ ~rulesFrozen /\ provisioningFreeze = Absent,
         \/ provisioningFreeze' \in {provisioningFreeze, Absent}
         \/ provisioningFreeze = Absent /\ provisioningFreeze'.activatedAt = e1Clock,
         provisioningFreeze' # Absent => rulesFrozen' /\ provisioningFreeze'.activatedAt \in Nat,
         \/ UNCHANGED inventory
         \/ inventory' = e1Clock /\ Protected',
         \/ UNCHANGED certification
         \/ inventory # Absent /\ certification'.capturedAt = inventory
  PROVE  FrozenNames'
<1>1. e1Clock \in Nat /\ e1Clock' \in Nat
  BY DEF FrozenNames
<1>2. \A t : TakenWithin(t) => TakenWithin(t)'
  BY LaterThan
<1>3. ASSUME NEW t, inventory' = t, inventory' # Absent PROVE TakenWithin(t)'
  <2>1. CASE UNCHANGED inventory
    BY <1>2, <1>3, <2>1 DEF FrozenNames
  <2>2. CASE inventory' = e1Clock /\ Protected'
    <3>1. t \in Nat /\ t <= e1Clock' /\ t < e1Clock'
      BY <1>1, <1>3, <2>2
    <3>2. QED
      BY <2>2, <3>1 DEF TakenWithin
  <2>3. QED
    BY <2>1, <2>2
<1>4. ASSUME NEW t, certification'.capturedAt = t, certification' # Absent PROVE TakenWithin(t)'
  <2>1. CASE UNCHANGED certification
    BY <1>2, <1>4, <2>1 DEF FrozenNames
  <2>2. CASE inventory # Absent /\ certification'.capturedAt = inventory
    BY <1>2, <1>4, <2>2 DEF FrozenNames
  <2>3. QED
    BY <2>1, <2>2
<1>5. inventory' # Absent => TakenWithin(inventory)'
  <2>1. PICK t : t = inventory'
    OBVIOUS
  <2>2. inventory' # Absent => TakenWithin(t)'
    BY <1>3, <2>1
  <2>3. QED
    BY <2>1, <2>2 DEF TakenWithin
<1>6. certification' # Absent => TakenWithin(certification.capturedAt)'
  <2>1. PICK t : t = certification'.capturedAt
    OBVIOUS
  <2>2. certification' # Absent => TakenWithin(t)'
    BY <1>4, <2>1
  <2>3. QED
    BY <2>1, <2>2 DEF TakenWithin
<1>7. QED
  BY <1>1, <1>5, <1>6 DEF FrozenNames

LEMMA OperatesStep ==
  ASSUME E1Inv, Operates
  PROVE  E1Inv'
<1>1. FrozenNames /\ OperatorStep /\ e1Clock' = e1Clock + 1 /\ UNCHANGED trainerHandles
  BY DEF E1Inv, Operates, ProvisionLegacy, FreezeRules, ActivateFreeze, ReleaseFreeze, ReleaseRules,
         CaptureInventory, Certify, Passes, HumanStep, OperatorStep, documentVars, foundationVars
<1>2. legacyNames \in [Uids -> Handles \cup {Absent}] /\ e1Clock \in Nat
      /\ (provisioningFreeze # Absent => rulesFrozen /\ provisioningFreeze.activatedAt \in Nat)
  BY <1>1 DEF FrozenNames
<1>3. CASE ProvisionLegacy
  <2>1. /\ ~rulesFrozen /\ provisioningFreeze = Absent
        /\ UNCHANGED <<rulesFrozen, provisioningFreeze, inventory, certification>>
    BY <1>2, <1>3 DEF ProvisionLegacy
  <2>2. legacyNames' \in [Uids -> Handles \cup {Absent}]
    <3>1. PICK p \in Scene.provisions : legacyNames' = [legacyNames EXCEPT ![p[1]] = p[2]]
      BY <1>3 DEF ProvisionLegacy
    <3>2. p[1] \in Uids /\ p[2] \in Handles
      BY <3>1, SceneOf DEF E1Inv, DocumentsTyped
    <3>3. QED
      BY <1>2, <3>1, <3>2
  <2>3. QED
    BY <1>1, <2>1, <2>2, FreezeStays, OperatorKeeps
<1>4. CASE FreezeRules
  BY <1>1, <1>2, <1>4, FreezeStays, OperatorKeeps DEF FreezeRules
<1>5. CASE ActivateFreeze
  <2>1. /\ rulesFrozen /\ provisioningFreeze = Absent
        /\ provisioningFreeze' = [id |-> e1Clock, activatedAt |-> e1Clock]
        /\ UNCHANGED <<legacyNames, rulesFrozen, inventory, certification>>
    BY <1>5 DEF ActivateFreeze
  <2>2. provisioningFreeze'.activatedAt = e1Clock
    BY <2>1
  <2>3. QED
    BY <1>1, <1>2, <2>1, <2>2, FreezeStays, OperatorKeeps
<1>6. CASE ReleaseFreeze
  BY <1>1, <1>2, <1>6, FreezeStays, OperatorKeeps DEF ReleaseFreeze
<1>7. CASE ReleaseRules
  <2>1. /\ provisioningFreeze = Absent
        /\ UNCHANGED <<legacyNames, provisioningFreeze, inventory, certification>>
    BY <1>7 DEF ReleaseRules
  <2>2. QED
    BY <1>1, <1>2, <2>1, FreezeStays, OperatorKeeps
<1>8. CASE CaptureInventory
  <2>1. inventory' = e1Clock /\ Protected'
        /\ UNCHANGED <<legacyNames, rulesFrozen, provisioningFreeze, certification>>
    BY <1>1, <1>8 DEF CaptureInventory, Protected
  <2>2. QED
    BY <1>1, <1>2, <2>1, FreezeStays, OperatorKeeps
<1>9. CASE Certify
  <2>1. /\ inventory # Absent
        /\ UNCHANGED <<legacyNames, rulesFrozen, provisioningFreeze, inventory>>
        /\ certification' = [freezeId |-> provisioningFreeze.id, capturedAt |-> inventory,
                             expiresAt |-> e1Clock + Validity]
    BY <1>9 DEF Certify
  <2>2. certification'.capturedAt = inventory
    BY <2>1
  <2>3. QED
    BY <1>1, <1>2, <2>1, <2>2, FreezeStays, OperatorKeeps
<1>10. CASE Passes
  BY <1>1, <1>2, <1>10, FreezeStays, OperatorKeeps DEF Passes, operatorVars
<1>11. QED
  BY <1>3, <1>4, <1>5, <1>6, <1>7, <1>8, <1>9, <1>10 DEF Operates

-----------------------------------------------------------------------------
(***************************************************************************)
(* The invariant, and what follows.                                        *)
(***************************************************************************)
LEMMA AuthorityInvNext == E1Inv /\ [E1Next]_e1Vars => E1Inv'
<1> SUFFICES ASSUME E1Inv, [E1Next]_e1Vars PROVE E1Inv'
  OBVIOUS
<1>1. CASE UNCHANGED e1Vars
  BY <1>1 DEF E1Inv, e1Vars, documentVars, foundationVars, subjectVars, evidenceVars, limitVars, operatorVars,
              DocumentsTyped, CallsTyped, ServiceCall, LimitsFit, Quotas, Attempts, RequestKeys, Scene, FoundationsAgree,
              Documented, Established, CallsFit, StageFits, AnswerFits, ExactProvider, ExactAccount, ExactHandle,
              FrozenNames, TakenWithin, Protected
<1>2. CASE Operates
  BY <1>2, OperatesStep
<1>3. ASSUME NEW c \in E1Calls,
             \/ E1Call(c) \/ LooksUp(c) \/ TakesTime(c) \/ Consume(c) \/ ReadsMapping(c) \/ E1Fails(c)
             \/ CreateProvider(c) \/ Reserve(c) \/ Repair(c) \/ Migrate(c) \/ FreezeConflict(c)
             \/ Replay(c) \/ Unclear(c) \/ Reconcile(c)
             \/ ReadsHandles(c) \/ ReadsOwners(c) \/ ReadsAccount(c) \/ ConfirmsAccount(c)
      PROVE  E1Inv'
  BY <1>3, AuthorityCallStep, LooksUpStep, TakesTimeStep, ConsumeStep, ReadsMappingStep, FailsStep, CreateProviderStep,
     ReserveStep, RepairStep, MigrateStep, FreezeConflictStep, ReplayStep, UnclearStep, ReconcileStep,
     ReadsHandlesStep, ReadsOwnersStep, ReadsAccountStep, ConfirmsAccountStep
<1>4. QED
  BY <1>1, <1>2, <1>3 DEF E1Next

LEMMA AuthorityInvariant == E1Spec => []E1Inv
BY AuthorityInvInit, AuthorityInvNext, PTL DEF E1Spec

\* What the authority has written is whole: a foundation is a name, its owner's account and the Google subject
\* in one, and the limiter counts within its limit, whichever operations of whichever users overlapped, were
\* lost or ran again.
THEOREM FoundationsAreWhole == E1Spec => []FoundationsHold
<1>1. E1Inv => FoundationsHold
  <2> SUFFICES ASSUME E1Inv PROVE FoundationsHold
    OBVIOUS
  <2>1. \A c \in E1Calls : e1Calls[c].answer \in Replied \cup {Absent}
    BY DEF E1Inv, CallsTyped, ServiceCall
  <2>2. \A k \in RequestKeys : operationRequests[k] # Absent =>
          RequestKey(operationRequests[k]) = k /\ operationRequests[k].op \in Mutations
    BY DEF E1Inv, Documented
  <2>3. \A q \in Quotas : rateLimits[q] # Absent =>
          /\ Cardinality(rateLimits[q].attempts) <= RateLimit
          /\ \A a \in rateLimits[q].attempts :
               [quota |-> q, window |-> rateLimits[q].window, attempt |-> a] \in admitted
    BY DEF E1Inv, LimitsFit
  <2>4. QED
    BY <2>1, <2>2, <2>3 DEF E1Inv, FoundationsHold, E1TypeOK
<1>2. QED
  BY <1>1, AuthorityInvariant, PTL

\* What a caller was told is so and stays so: what is recorded, replayed or read back after a lost answer, is
\* what the documents hold; and a reader never takes a foundation that is being written for a broken one.
THEOREM AnswersStayTrue == E1Spec => []AnswersAreTrue
<1>1. E1Inv => AnswersAreTrue
  <2> SUFFICES ASSUME E1Inv, NEW c \in E1Calls, NEW r, r = E1Request(c), NEW reply, reply = e1Calls[c].answer
               PROVE  /\ reply \in {"success", "idempotent", "reconciled"} =>
                           /\ reply # "reconciled" => operationRequests[RequestKey(r)] = r
                           /\ r.op = "create" => ExactProvider(r)
                           /\ r.op \in {"reserve", "repair", "migrate"} => ExactAccount(r, "legacy") /\ ExactHandle(r)
                           /\ r.op = "freeze" /\ r.reason = "handle-owner-conflict" => ~ExactHandle(r)
                      /\ reply = "found" /\ r.op # "read" => \A claim \in e1Calls[c].seen :
                           trainerHandles[claim[1]] = claim[2]
                      /\ reply = "conflict" /\ r.op # "read" => Scene.accounts # Scene.handles
    BY DEF AnswersAreTrue
  <2>1. StageFits(e1Calls[c]) /\ AnswerFits(e1Calls[c]) /\ e1Calls[c].request = r
    BY CallOf DEF E1Request
  <2>2. reply \in Replied => e1Calls[c].pc = "done"
    BY <2>1, AuthorityAssumption DEF StageFits
  <2>3. reply \in Replied => r \in Scene.requests /\ r # Absent /\ RequestKey(r) \in RequestKeys
    BY <2>1, <2>2, SceneOf DEF StageFits, E1Inv, DocumentsTyped
  <2>4. ASSUME reply \in {"success", "idempotent"}
        PROVE  operationRequests[RequestKey(r)] = r /\ Established(r)
    BY <2>1, <2>3, <2>4 DEF AnswerFits, E1Inv, Documented, Replied
  <2>5. ASSUME reply = "reconciled" PROVE r.op = "create" /\ ExactProvider(r)
    BY <2>1, <2>5 DEF AnswerFits
  <2>6. Established(r) =>
          /\ r.op = "create" => ExactProvider(r)
          /\ r.op \in {"reserve", "repair", "migrate"} => ExactAccount(r, "legacy") /\ ExactHandle(r)
          /\ r.op = "freeze" /\ r.reason = "handle-owner-conflict" => ~ExactHandle(r)
    BY DEF Established, ExactHandle
  <2>7. ASSUME reply = "found", r.op # "read", NEW claim \in e1Calls[c].seen PROVE trainerHandles[claim[1]] = claim[2]
    BY <2>1, <2>2, <2>7 DEF AnswerFits, Replied
  <2>8. reply = "conflict" /\ r.op # "read" => Scene.accounts # Scene.handles
    BY <2>1 DEF AnswerFits
  <2>9. QED
    BY <2>4, <2>5, <2>6, <2>7, <2>8
<1>2. QED
  BY <1>1, AuthorityInvariant, PTL

\* Whatever was provisioned, inventoried, certified, released and frozen again, a provider account never takes
\* the name of a user of the legacy application: only a freeze that still stands certifies its creation, and the
\* inventory of that freeze protects every name there is.
THEOREM ProviderNamesStayNew == E1Spec => ProviderNamesAreNew
<1>1. ASSUME E1Inv, E1Inv', E1Next, NEW u \in Uids, e1Accounts'[u] # e1Accounts[u], e1Accounts'[u].kind = "provider",
             NEW v \in Uids
      PROVE  legacyNames[v] # e1Accounts'[u].name
  <2>1. ASSUME NEW c \in E1Calls, CreateProvider(c) PROVE legacyNames[v] # e1Accounts'[u].name
    <3>1. PICK r : r = E1Request(c)
      OBVIOUS
    <3>2. Certified /\ NoHandle(r) /\ CreatesAccount(r, "provider")
      BY <2>1, <3>1 DEF CreateProvider
    <3>3. Protected
      <4>1. PICK t : t = certification.capturedAt
        OBVIOUS
      <4>2. provisioningFreeze # Absent /\ certification # Absent /\ t >= provisioningFreeze.activatedAt
        BY <3>2, <4>1 DEF Certified
      <4>3. TakenWithin(t)
        BY <1>1, <4>1, <4>2 DEF E1Inv, FrozenNames
      <4>4. QED
        BY <4>2, <4>3 DEF TakenWithin
    <3>4. e1Accounts'[u].name = r.name
      BY <1>1, <3>2 DEF CreatesAccount, E1Inv, DocumentsTyped
    <3>5. r.name # Absent
      <4>1. e1Calls[c].pc = "transact" /\ r.op = "create"
        BY <2>1, <3>1 DEF CreateProvider, CommitsNew, Reaches
      <4>2. QED
        BY <1>1, <3>1, <4>1, CallOf, NothingIsAbsent DEF WellFormedRequest, Mutations
    <3>6. QED
      BY <3>2, <3>3, <3>4, <3>5 DEF Protected, NoHandle
  <2>2. ASSUME NEW r, CreatesAccount(r, "legacy") PROVE FALSE
    BY <1>1, <2>2 DEF CreatesAccount, E1Inv, DocumentsTyped
  <2>3. CASE UNCHANGED e1Accounts
    BY <1>1, <2>3
  <2>4. ASSUME NEW c \in E1Calls, Reserve(c) \/ Repair(c) \/ Migrate(c) \/ FreezeConflict(c)
        PROVE  FALSE
    BY <1>1, <2>2, <2>4 DEF Reserve, Repair, Migrate, FreezeConflict, foundationVars
  <2>5. ASSUME NEW c \in E1Calls,
               \/ E1Call(c) \/ LooksUp(c) \/ TakesTime(c) \/ Consume(c) \/ ReadsMapping(c) \/ E1Fails(c)
               \/ Replay(c) \/ Unclear(c) \/ Reconcile(c)
               \/ ReadsHandles(c) \/ ReadsOwners(c) \/ ReadsAccount(c) \/ ConfirmsAccount(c)
        PROVE  UNCHANGED documentVars
    BY <2>5 DEF E1Call, LooksUp, TakesTime, Consume, ReadsMapping, E1Fails, Replay, Unclear, Reconcile,
                ReadsHandles, ReadsOwners, ReadsAccount, ConfirmsAccount
  <2>6. Operates => UNCHANGED documentVars
    BY DEF Operates, ProvisionLegacy, FreezeRules, ActivateFreeze, ReleaseFreeze, ReleaseRules,
           CaptureInventory, Certify, Passes, HumanStep, OperatorStep
  <2>7. UNCHANGED documentVars => UNCHANGED e1Accounts
    BY DEF documentVars, foundationVars
  <2>8. QED
    BY <1>1, <2>1, <2>3, <2>4, <2>5, <2>6, <2>7 DEF E1Next
<1>2. E1Inv /\ E1Inv' /\ [E1Next]_e1Vars =>
        [\A u \in Uids : e1Accounts'[u] # e1Accounts[u] /\ e1Accounts'[u].kind = "provider" =>
           \A v \in Uids : legacyNames[v] # e1Accounts'[u].name]_e1Vars
  BY <1>1
<1>3. QED
  BY <1>2, AuthorityInvariant, PTL DEF E1Spec, ProviderNamesAreNew

=============================================================================
