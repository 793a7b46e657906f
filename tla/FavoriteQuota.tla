--------------------------- MODULE FavoriteQuota ---------------------------
(***************************************************************************)
(* One caller of the favourite resolver (functions/favorite-resolver): the *)
(* handler of its requests, and the object of the bucket that counts them. *)
(*                                                                         *)
(* A request verifies its caller, takes a lease (quota.acquire), resolves  *)
(* handles and gives the lease back (quota.release).  The object is        *)
(* replaced on condition of its generation.  A replacement may be refused  *)
(* as throttled although it landed, and may land after its request gave    *)
(* it up.  At its deadline a request is answered while its work goes on,   *)
(* until the platform ends it.                                             *)
(*                                                                         *)
(* Times are in units of the delay between two throttled attempts.         *)
(***************************************************************************)
EXTENDS Integers, FiniteSets

CONSTANTS
  Calls, MaxCalls,        \* requests of one caller, and how many of them begin
  Sizes,          \* how many handles a request may carry
  MaxRequests, MaxWork, Concurrency,      \* LIMITS, for one window and caller
  Deadline, Platform, Lease, Window,      \* LIMITS and the function's timeout
  MaxCas, MaxThrottled, Delay,            \* the attempts of one update
  MaxTime,                                \* bound of the clock
  None

ASSUME QuotaAssumption ==
  /\ Sizes \subseteq Nat \ {0}
  /\ {MaxCalls, MaxRequests, MaxWork, Concurrency, Deadline, Platform, Lease, Window,
      MaxCas, MaxThrottled, Delay, MaxTime} \subseteq Nat \ {0}
  /\ Deadline < Platform /\ Platform < Lease /\ Lease < Window
  /\ IsFiniteSet(Calls)

VARIABLES
  clock,      \* Date.now
  quota,      \* the object: its generation and value
  calls,      \* the requests
  charged     \* history: the acquisitions that landed

quotaVars == <<clock, quota, calls, charged>>

----------------------------------------------------------------------------
(* The object. *)

Counters == [window : 0..MaxTime, requests : Nat, work : Nat,
             leases : [Calls -> 0..MaxTime + Lease]]

Replacements == [generation : Nat, value : Counters]

ASSUME NoneAssumption == None \notin Counters \cup Replacements \cup {"ok", "lost-race", "throttled"}

Holders(v) == {c \in Calls : v.leases[c] > 0}

\* What validation asks of the object before anything else is done.
Valid(v) ==
  v.requests <= MaxRequests /\ v.work <= MaxWork /\ Cardinality(Holders(v)) <= Concurrency

\* The value an update starts from: expired leases dropped, a new window opened.
Prior ==
  LET v == IF quota.value # None THEN quota.value
           ELSE [window |-> clock, requests |-> 0, work |-> 0,
                 leases |-> [c \in Calls |-> 0]]
      alive == [c \in Calls |-> IF v.leases[c] > clock THEN v.leases[c] ELSE 0]
  IN  IF clock - v.window >= Window
      THEN [window |-> clock, requests |-> 0, work |-> 0, leases |-> alive]
      ELSE [v EXCEPT !.leases = alive]

\* Mutant of Charged: a lease ends with the answer.
ChargedUntilDeadline(c, v) ==
  [v EXCEPT !.requests = @ + 1, !.work = @ + calls[c].size, !.leases[c] = clock + Deadline]
\* Mutant of Current: the object is replaced whatever its generation.
LastWriteWins(c) == TRUE

\* A write of this very call that was thought refused.
AlreadyApplied(c, v) == calls[c].job = "acquire" /\ v.leases[c] > 0

HasRoom(v, n) == v.requests < MaxRequests /\ v.work + n <= MaxWork

Charged(c, v) ==
  [v EXCEPT !.requests = @ + 1, !.work = @ + calls[c].size, !.leases[c] = clock + Lease]

Released(c, v) == [v EXCEPT !.leases[c] = 0]

----------------------------------------------------------------------------
(* A request: `pc` is where its work or its release is.  `sent` is a        *)
(* replacement the bucket has not decided.                                  *)

Idle == [pc |-> "idle", job |-> "acquire", open |-> TRUE, started |-> 0, size |-> 0,
         attempt |-> 0, throttled |-> 0, wake |-> 0, lease |-> FALSE,
         write |-> None, sent |-> FALSE, reply |-> None, refused |-> FALSE]

Running(c) == calls[c].pc \notin {"idle", "done"}

QuotaInit ==
  /\ clock = 0
  /\ quota = [generation |-> 0, value |-> None]
  /\ calls = [c \in Calls |-> Idle]
  /\ charged = {}

Step(c, k) == calls' = [calls EXCEPT ![c] = k]

\* The guard between two awaits of an update: check() and current().
May(c) ==
  /\ clock < calls[c].started + Deadline
  /\ calls[c].job = "acquire" => calls[c].open

\* Only a request whose work has ended gives its lease back.
Releases(c) == calls[c].lease /\ calls[c].open

\* A request that is over; its replacement may still be in flight.
Over(c) ==
  [Idle EXCEPT !.pc = "done", !.open = FALSE, !.job = IF calls[c].sent THEN calls[c].job ELSE @,
               !.size = IF calls[c].sent THEN calls[c].size ELSE @,
               !.sent = calls[c].sent, !.write = IF calls[c].sent THEN calls[c].write ELSE None]

\* The request is answered with its lease known, and gives it back.
Releasing(c) ==
  [Idle EXCEPT !.pc = "read", !.job = "release", !.open = FALSE, !.started = calls[c].started]

\* The work ends: an open request is answered and releases, a closed one stops.
Ended(c) == IF Releases(c) THEN Releasing(c) ELSE Over(c)

\* acquire returns: resolve runs, unless the request is past its deadline.
Granted(c) ==
  CASE May(c) -> [calls[c] EXCEPT !.pc = "resolve", !.lease = TRUE, !.attempt = 0,
                                  !.throttled = 0, !.write = None, !.reply = None]
    [] ~May(c) /\ calls[c].open -> Releasing(c)
    [] OTHER -> Over(c)

QuotaBegin(c) ==
  /\ calls[c].pc = "idle"
  /\ Cardinality({d \in Calls : calls[d].pc # "idle"}) < MaxCalls
  /\ \E n \in Sizes :
       Step(c, [Idle EXCEPT !.pc = "read", !.started = clock, !.size = n])
  /\ UNCHANGED <<clock, quota, charged>>

\* The caller is verified, the object read, and the update prepared: after the
\* last of these awaits all is one synchronous step.
ReadObject(c) ==
  /\ calls[c].pc = "read"
  /\ \/ Step(c, Over(c))                        \* an await fails, or ends too late
     \/ /\ May(c)
        /\ quota.value # None => Valid(quota.value)
        /\ LET v == Prior
               fits == HasRoom(v, calls[c].size) /\ Cardinality(Holders(v)) < Concurrency
               send(w) == Step(c, [calls[c] EXCEPT !.pc = "wait", !.sent = TRUE,
                             !.write = [generation |-> quota.generation, value |-> w]])
           IN  \/ AlreadyApplied(c, v) /\ Step(c, Granted(c))
               \/ calls[c].job = "release" /\ send(Released(c, v))
               \/ /\ calls[c].job = "acquire" /\ ~AlreadyApplied(c, v)
                  /\ IF fits THEN send(Charged(c, v))
                     ELSE Step(c, [Over(c) EXCEPT !.refused = TRUE])  \* rate-limited, busy
  /\ UNCHANGED <<clock, quota, charged>>

----------------------------------------------------------------------------
(* The bucket. *)

Current(c) == calls[c].write.generation = quota.generation

\* A replacement is decided.  It may land and yet be answered as throttled;
\* a call that no longer waits hears nothing.
StoreDecides(c) ==
  /\ calls[c].sent
  /\ \E reply \in {"ok", "lost-race", "throttled"}, lands \in BOOLEAN :
       /\ lands => Current(c)
       /\ reply = "ok" => lands
       /\ reply = "lost-race" => ~Current(c)
       /\ IF lands
          THEN /\ quota' = [generation |-> quota.generation + 1, value |-> calls[c].write.value]
               /\ charged' =
                    IF calls[c].write.value.leases[c] = 0 THEN charged
                    ELSE charged \cup {[call |-> c, at |-> quota.generation + 1,
                            size |-> calls[c].size, window |-> calls[c].write.value.window]}
          ELSE UNCHANGED <<quota, charged>>
       /\ Step(c, IF calls[c].pc = "wait"
                  THEN [calls[c] EXCEPT !.sent = FALSE, !.reply = reply]
                  ELSE [Idle EXCEPT !.pc = "done", !.open = FALSE])
  /\ UNCHANGED clock

\* The answer never comes, or is an error that says nothing: not tried again.
AnswerLost(c) ==
  /\ calls[c].pc = "wait"
  /\ Step(c, Over(c))
  /\ UNCHANGED <<clock, quota, charged>>

LastAttempt(c) == calls[c].attempt + 1 >= MaxCas

Answered(c) ==
  LET k == calls[c]
  IN  /\ k.pc = "wait"
      /\ \/ k.reply = "ok" /\ Step(c, IF k.job = "acquire" THEN Granted(c) ELSE Over(c))
         \/ /\ k.reply = "lost-race"
            /\ Step(c, IF LastAttempt(c) THEN Over(c)
                       ELSE [k EXCEPT !.pc = "read", !.attempt = @ + 1, !.write = None, !.reply = None])
         \/ /\ k.reply = "throttled"
            /\ Step(c, IF \/ LastAttempt(c) \/ k.throttled >= MaxThrottled \/ ~May(c)
                          \/ clock + Delay >= k.started + Deadline
                       THEN Over(c)
                       ELSE [k EXCEPT !.pc = "sleep", !.attempt = @ + 1, !.throttled = @ + 1,
                                      !.wake = clock + Delay, !.reply = None])
      /\ UNCHANGED <<clock, quota, charged>>

\* The same bytes are sent again, on the same generation.
Wake(c) ==
  /\ calls[c].pc = "sleep" /\ clock >= calls[c].wake
  /\ Step(c, IF May(c) THEN [calls[c] EXCEPT !.pc = "wait", !.sent = TRUE, !.wake = 0] ELSE Over(c))
  /\ UNCHANGED <<clock, quota, charged>>

----------------------------------------------------------------------------

\* resolve returns or throws.
ResolveEnds(c) ==
  /\ calls[c].pc = "resolve"
  /\ Step(c, Ended(c))
  /\ UNCHANGED <<clock, quota, charged>>

\* The timer wins the race: the request is answered and its work goes on.
TimesOut(c) ==
  /\ calls[c].open /\ Running(c)
  /\ clock >= calls[c].started + Deadline
  /\ Step(c, [calls[c] EXCEPT !.open = FALSE])
  /\ UNCHANGED <<clock, quota, charged>>

\* The instance is lost, or the platform's own timeout ends the request.
QuotaCallDies(c) ==
  /\ Running(c)
  /\ Step(c, Over(c))
  /\ UNCHANGED <<clock, quota, charged>>

Tick ==
  /\ clock < MaxTime
  /\ \A c \in Calls : Running(c) => clock < calls[c].started + Platform
  /\ clock' = clock + 1
  /\ UNCHANGED <<quota, calls, charged>>

QuotaNext ==
  \/ Tick
  \/ \E c \in Calls :
       \/ QuotaBegin(c) \/ ReadObject(c) \/ StoreDecides(c) \/ AnswerLost(c)
       \/ Answered(c) \/ Wake(c) \/ ResolveEnds(c) \/ TimesOut(c) \/ QuotaCallDies(c)

QuotaSpec == QuotaInit /\ [][QuotaNext]_quotaVars

----------------------------------------------------------------------------
(* Properties. *)

QuotaTypeOK ==
  /\ clock \in 0..MaxTime
  /\ quota.generation \in Nat /\ quota.value \in Counters \cup {None}
  /\ \A c \in Calls :
       /\ calls[c].pc \in {"idle", "read", "wait", "sleep", "resolve", "done"}
       /\ calls[c].job \in {"acquire", "release"} /\ calls[c].open \in BOOLEAN
       /\ calls[c].attempt \in 0..MaxCas - 1 /\ calls[c].throttled \in 0..MaxThrottled
       /\ calls[c].write # None => calls[c].write.value \in Counters
       /\ calls[c].sent => calls[c].write # None
       /\ calls[c].reply \in {"ok", "lost-race", "throttled", None}

\* However leases expire, leak and are given back late, the work of at most
\* `Concurrency` requests runs at once - that of requests already answered included.
AtMostConcurrent == Cardinality({c \in Calls : calls[c].pc = "resolve"}) <= Concurrency

\* A request is charged once, though its write is sent again after it landed,
\* and never charged when it is answered "busy" or "rate-limited".
ChargedOnce ==
  /\ \A x, y \in charged : x.call = y.call => x = y
  /\ \A x \in charged : ~calls[x.call].refused

\* The object counts exactly what was charged in its window: no replacement
\* is lost to another call's, so that no request escapes the limits.
CountsWhatWasCharged ==
  quota.value # None =>
    quota.value.requests = Cardinality({x \in charged : x.window = quota.value.window})

\* No legal run of calls leaves an object that every later call would refuse.
StaysReadable == quota.value # None => Valid(quota.value)

\* The object is one that every later call can read and that charges each request once: neither
\* a lost race, nor a throttled write that landed, nor an expired lease makes it count otherwise.
ChargesAreExact == QuotaTypeOK /\ StaysReadable /\ ChargedOnce /\ CountsWhatWasCharged

=============================================================================
