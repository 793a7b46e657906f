------------------------------ MODULE PinReset ------------------------------
(***************************************************************************)
(* The owner's reset of a trainer's PIN: functions/legacy-pin-reset.  A    *)
(* call reserves its request id and its target in one ledger object, which *)
(* is replaced only at the generation that was read, sends ONE password    *)
(* update and records how that ended.  Calls overlap (an instance that was *)
(* given up, a retried request), may be killed at any await, and may lose  *)
(* any answer; a write or an update that was sent may still land after its *)
(* call has given it up.                                                   *)
(***************************************************************************)
EXTENDS Naturals, FiniteSets

CONSTANTS
    Calls,       \* invocations of run()
    Ids,         \* request ids
    Targets,     \* uids of trainers
    Inputs,      \* what a call may ask: [id, target, pin, seen]
    NoPin,       \* the pin of an input with action "status"
    None,        \* no record, no call
    Capacity,    \* 1000 records in the code
    MaxAttempts, \* 5 in the code
    Faults,      \* kinds of fault that happen: "call", "death", "drift"
    MaxFaults    \* how many of them

Statuses == {"pending", "completed", "ambiguous", "aborted"}

Pins == {in.pin : in \in Inputs}

Records == [target : Targets, pin : Pins, seen : Nat, status : Statuses]

InputAssumption ==
    \A in \in Inputs : in.id \in Ids /\ in.target \in Targets /\ in.seen \in Nat
NoneAssumption == None \notin Calls \cup Records
BoundAssumption == MaxAttempts \in Nat \ {0} /\ Capacity \in Nat
IdsAssumption == IsFiniteSet(Ids)
ASSUME InputAssumption
ASSUME NoneAssumption
ASSUME BoundAssumption
ASSUME IdsAssumption

VARIABLES
    ledger,      \* the object's value: a record, or None, for every id
    generation,  \* the object's generation
    writes,      \* every replacement ever sent, with what became of it
    pc, input, goal, attempt, answer,  \* of each call
    update,      \* what became of a call's password update
    password,    \* the call that set a target's password last
    identity,    \* the fingerprint a fresh look at a target would find
    faults

store == <<ledger, generation>>
frames == <<pc, input, goal, attempt, answer>>
world == <<update, password, identity>>
vars == <<store, writes, frames, world, faults>>

-----------------------------------------------------------------------------
(* The ledger *)

Holds(L, i) == L[i] # None /\ L[i].status \in {"pending", "ambiguous"}

\* A mutant: an ambiguous request no longer holds its target.
TargetFreeOnceAnswered(L, t) ==
    \A i \in Ids : L[i] # None /\ L[i].status = "pending" => L[i].target # t

TargetFree(L, t) == \A i \in Ids : Holds(L, i) => L[i].target # t

Full(L) == Cardinality({i \in Ids : L[i] # None}) >= Capacity

RecordOf(in) == [target |-> in.target, pin |-> in.pin, seen |-> in.seen,
                 status |-> "pending"]

Reserved(L, in) == [L EXCEPT ![in.id] = RecordOf(in)]

Finished(L, i, status) ==
    [L EXCEPT ![i] = [target |-> @.target, pin |-> @.pin, seen |-> @.seen,
                      status |-> status]]

\* Which records a finish may replace; it is done with a completed one.
MayFinish(record) == record.status = "pending"

\* sameRequest: a status request carries no pin, so none is compared.
SameRequest(record, in) ==
    /\ record.target = in.target
    /\ record.seen = in.seen
    /\ in.pin \in {NoPin, record.pin}

Receipt(record, in) == IF SameRequest(record, in) THEN record.status ELSE "error"

-----------------------------------------------------------------------------
Init ==
    /\ ledger = [i \in Ids |-> None]
    /\ generation = 1
    /\ writes = {}
    /\ pc = [c \in Calls |-> "idle"]
    /\ input \in [Calls -> Inputs]
    /\ goal = [c \in Calls |-> "reserve"]
    /\ attempt = [c \in Calls |-> 0]
    /\ answer = [c \in Calls |-> "none"]
    /\ update = [c \in Calls |-> "none"]
    /\ password = [t \in Targets |-> None]
    /\ identity = [t \in Targets |-> 0]
    /\ faults = 0

Goto(c, label) == pc' = [pc EXCEPT ![c] = label]

End(c, result) ==
    /\ Goto(c, "ended")
    /\ answer' = [answer EXCEPT ![c] = result]
    /\ UNCHANGED <<input, goal, attempt>>

\* journal.finish is entered with a status to record.
Settle(c, status) ==
    /\ Goto(c, "change")
    /\ goal' = [goal EXCEPT ![c] = status]
    /\ attempt' = [attempt EXCEPT ![c] = 0]
    /\ UNCHANGED <<input, answer>>

\* A mutant: set after updatePassword returns, not before it is called.
StartedOnceAnswered(c) == pc[c] = "verify" \/ goal[c] = "completed"

\* mutationStarted
Started(c) == pc[c] \in {"send", "updating", "verify"} \/ goal[c] = "completed"

Caught(c) == pc[c] \in {"recheck", "send", "updating", "verify"} \/ goal[c] = "completed"

\* What an exception does: before the reservation it ends the call, inside the
\* try the outcome is recorded, and in its catch the recording is given up.
Throw(c) ==
    \/ ~Caught(c) /\ goal[c] = "reserve" /\ End(c, "error")
    \/ Caught(c) /\ Settle(c, IF Started(c) THEN "ambiguous" ELSE "aborted")
    \/ ~Caught(c) /\ goal[c] # "reserve" /\ End(c, goal[c])

Begin(c) ==
    /\ pc[c] = "idle"
    /\ Goto(c, "get")
    /\ UNCHANGED <<store, writes, input, goal, attempt, answer, world, faults>>

Get(c) ==
    LET in == input[c]
        record == ledger[in.id] IN
    /\ pc[c] = "get"
    /\ \/ record # None /\ End(c, Receipt(record, in))
       \/ record = None /\ in.pin = NoPin /\ End(c, "not-recorded")
       \/ /\ record = None /\ in.pin # NoPin
          /\ Goto(c, "inspect")
          /\ UNCHANGED <<input, goal, attempt, answer>>
    /\ UNCHANGED <<store, writes, world, faults>>

Unchanged(c) == identity[input[c].target] = input[c].seen

Inspect(c) ==
    /\ pc[c] = "inspect"
    /\ \/ ~Unchanged(c) /\ Throw(c)
       \/ /\ Unchanged(c)
          /\ Goto(c, "change")
          /\ UNCHANGED <<input, goal, attempt, answer>>
    /\ UNCHANGED <<store, writes, world, faults>>

-----------------------------------------------------------------------------
(* change(): read, decide, replace at the generation that was read *)

Send(c, L) ==
    /\ writes' = writes \cup {[call |-> c, goal |-> goal[c], attempt |-> attempt[c],
                               generation |-> generation, ledger |-> L,
                               result |-> "sent"]}
    /\ Goto(c, "waiting")
    /\ UNCHANGED <<input, goal, attempt, answer>>

Reserve(c) ==
    LET in == input[c]
        record == ledger[in.id] IN
    /\ pc[c] = "change" /\ goal[c] = "reserve"
    /\ \/ /\ record # None
          /\ End(c, Receipt(record, in)) /\ UNCHANGED writes
       \/ /\ record = None
          /\ ~TargetFree(ledger, in.target) \/ Full(ledger)
          /\ Throw(c) /\ UNCHANGED writes
       \/ /\ record = None
          /\ TargetFree(ledger, in.target) /\ ~Full(ledger)
          /\ Send(c, Reserved(ledger, in))
    /\ UNCHANGED <<store, world, faults>>

Finish(c) ==
    LET i == input[c].id
        record == ledger[i] IN
    /\ pc[c] = "change" /\ goal[c] # "reserve"
    /\ \/ record = None /\ Throw(c) /\ UNCHANGED writes
       \/ /\ record # None /\ MayFinish(record)
          /\ Send(c, Finished(ledger, i, goal[c]))
       \/ /\ record # None /\ ~MayFinish(record) /\ record.status = "completed"
          /\ End(c, goal[c]) /\ UNCHANGED writes
       \/ /\ record # None /\ ~MayFinish(record) /\ record.status # "completed"
          /\ Throw(c) /\ UNCHANGED writes
    /\ UNCHANGED <<store, world, faults>>

\* A mutant: an unconditional overwrite.
Unconditional(w) == TRUE

\* The store's precondition (ifGenerationMatch).
Current(w) == w.generation = generation

\* A replacement reaches the store, whether or not its call still waits.
StoreReplaces(w) ==
    /\ w.result = "sent"
    /\ IF Current(w)
       THEN /\ ledger' = w.ledger
            /\ generation' = generation + 1
            /\ writes' = (writes \ {w}) \cup {[w EXCEPT !.result = "saved"]}
       ELSE /\ UNCHANGED store
            /\ writes' = (writes \ {w}) \cup {[w EXCEPT !.result = "stale"]}
    /\ UNCHANGED <<frames, world, faults>>

\* w is the replacement the call waits for.
Awaited(c, w) == w.call = c /\ w.goal = goal[c] /\ w.attempt = attempt[c]

Saved(c) ==
    \/ goal[c] = "reserve" /\ Goto(c, "recheck") /\ UNCHANGED <<input, goal, attempt, answer>>
    \/ goal[c] # "reserve" /\ End(c, goal[c])

\* A mutant: one attempt fewer.
StaleTooOften(c) ==
    \/ /\ attempt[c] + 2 < MaxAttempts
       /\ Goto(c, "change")
       /\ attempt' = [attempt EXCEPT ![c] = @ + 1]
       /\ UNCHANGED <<input, goal, answer>>
    \/ attempt[c] + 2 >= MaxAttempts /\ Throw(c)

Stale(c) ==
    \/ /\ attempt[c] + 1 < MaxAttempts
       /\ Goto(c, "change")
       /\ attempt' = [attempt EXCEPT ![c] = @ + 1]
       /\ UNCHANGED <<input, goal, answer>>
    \/ attempt[c] + 1 >= MaxAttempts /\ Throw(c)

StoreAnswers(c, w) ==
    /\ pc[c] = "waiting"
    /\ Awaited(c, w)
    /\ \/ w.result = "saved" /\ Saved(c)
       \/ w.result = "stale" /\ Stale(c)
    /\ UNCHANGED <<store, writes, world, faults>>

-----------------------------------------------------------------------------
(* The password *)

Recheck(c) ==
    /\ pc[c] = "recheck"
    /\ \/ ~Unchanged(c) /\ Throw(c)
       \/ Unchanged(c) /\ Goto(c, "send") /\ UNCHANGED <<input, goal, attempt, answer>>
    /\ UNCHANGED <<store, writes, world, faults>>

SendUpdate(c) ==
    /\ pc[c] = "send"
    /\ update' = [update EXCEPT ![c] = "sent"]
    /\ Goto(c, "updating")
    /\ UNCHANGED <<store, writes, input, goal, attempt, answer, password, identity, faults>>

\* The identity platform changes the password, whether or not the call waits.
\* "misplaced": the target's identity is no longer what the owner inspected.
UpdateLands(c) ==
    /\ update[c] = "sent"
    /\ update' = [update EXCEPT ![c] = IF Unchanged(c) THEN "applied" ELSE "misplaced"]
    /\ password' = [password EXCEPT ![input[c].target] = c]
    /\ UNCHANGED <<store, writes, frames, identity, faults>>

UpdateAnswers(c) ==
    /\ pc[c] = "updating"
    /\ update[c] \in {"applied", "misplaced"}
    /\ Goto(c, "verify")
    /\ UNCHANGED <<store, writes, input, goal, attempt, answer, world, faults>>

\* A mutant: no postcondition.
ConfirmedByAnswer(c) == update[c] # "none"

\* The postcondition: the identity read after the update is the inspected one.
Confirmed(c) == Unchanged(c)

Verify(c) ==
    /\ pc[c] = "verify"
    /\ \/ ~Confirmed(c) /\ Throw(c)
       \/ Confirmed(c) /\ Settle(c, "completed")
    /\ UNCHANGED <<store, writes, world, faults>>

-----------------------------------------------------------------------------
(* Faults *)

Fault(kind) == kind \in Faults /\ faults < MaxFaults /\ faults' = faults + 1

\* A read, the access token, an update or a replacement fails for its call;
\* what was sent may still land.
CallFails(c) ==
    /\ pc[c] \notin {"idle", "ended"}
    /\ Fault("call")
    /\ Throw(c)
    /\ UNCHANGED <<store, writes, world>>

\* The instance is killed: nobody is answered and nothing more is sent.
Dies(c) ==
    /\ pc[c] \notin {"idle", "ended"}
    /\ Fault("death")
    /\ End(c, "none")
    /\ UNCHANGED <<store, writes, world>>

\* Another administrator's work changes what the target's identity is.
Drift(t) ==
    /\ Fault("drift")
    /\ identity' = [identity EXCEPT ![t] = @ + 1]
    /\ UNCHANGED <<store, writes, frames, update, password>>

-----------------------------------------------------------------------------
CallStep(c) ==
    \/ Get(c) \/ Inspect(c) \/ Reserve(c) \/ Finish(c)
    \/ \E w \in writes : StoreAnswers(c, w)
    \/ Recheck(c) \/ SendUpdate(c) \/ UpdateAnswers(c) \/ Verify(c)

Environment ==
    \/ \E w \in writes : StoreReplaces(w)
    \/ \E c \in Calls : UpdateLands(c)
    \/ \E t \in Targets : Drift(t)

Next ==
    \/ \E c \in Calls : Begin(c) \/ CallStep(c) \/ CallFails(c) \/ Dies(c)
    \/ Environment

Spec == Init /\ [][Next]_vars

\* A call that runs goes on, and what was sent arrives; nobody has to call.
Fairness ==
    /\ \A c \in Calls : WF_vars(CallStep(c)) /\ WF_vars(UpdateLands(c))
    /\ WF_vars(\E w \in writes : StoreReplaces(w))

LiveSpec == Spec /\ Fairness

-----------------------------------------------------------------------------
Ledgers == [Ids -> Records \cup {None}]

Goals == {"reserve", "completed", "ambiguous", "aborted"}

\* The states of the ledger, of the calls (reset.js:121-151) and of the world.
TypeOK ==
    /\ ledger \in Ledgers
    /\ generation \in Nat
    /\ writes \subseteq [call : Calls, goal : Goals, attempt : Nat,
                         generation : Nat, ledger : Ledgers,
                         result : {"sent", "saved", "stale"}]
    /\ pc \in [Calls -> {"idle", "get", "inspect", "change", "waiting", "recheck",
                         "send", "updating", "verify", "ended"}]
    /\ input \in [Calls -> Inputs]
    /\ goal \in [Calls -> Goals]
    /\ attempt \in [Calls -> 0 .. MaxAttempts - 1]
    /\ answer \in [Calls -> Statuses \cup {"none", "error", "not-recorded"}]
    /\ update \in [Calls -> {"none", "sent", "applied", "misplaced"}]
    /\ password \in [Targets -> Calls \cup {None}]
    /\ identity \in [Targets -> Nat]
    /\ faults \in Nat

\* journal.js:23-24 - validateLedger refuses a ledger in which two requests
\* hold one target, and with it every later call: the service never writes one.
LedgerIsReadable ==
    \A i, j \in Ids : Holds(ledger, i) /\ Holds(ledger, j)
                          /\ ledger[i].target = ledger[j].target => i = j

\* journal.js:21 - validateLedger refuses as well a ledger of more records than fit.
LedgerFits == Cardinality({i \in Ids : ledger[i] # None}) <= Capacity

\* reset.js:134-141, README.md:116-118 - a request id sends at most one update,
\* however often it is called, retried or repeated by overlapping calls.
MutatesOnce ==
    \A c, d \in Calls : update[c] # "none" /\ update[d] # "none"
                            /\ input[c].id = input[d].id => c = d

\* journal.js:27-28 - an update that may still land belongs to a request that
\* holds its target, so no later reset of the target can be overwritten by it.
NoLateUpdate ==
    \A c \in Calls : update[c] = "sent" =>
        /\ Holds(ledger, input[c].id)
        /\ ledger[input[c].id].target = input[c].target

\* reset.js:144-145 - whoever is told "completed" can rely on the record: the
\* request is completed in the ledger and its update was found in place.
CompletedIsDurable ==
    \A c \in Calls : answer[c] = "completed" =>
        LET record == ledger[input[c].id] IN record # None /\ record.status = "completed"

\* reset.js:142-143 - a completed request changed the password of the identity
\* the owner had inspected.
CompletedWasConfirmed ==
    \A i \in Ids : ledger[i] # None /\ ledger[i].status = "completed" =>
        \E c \in Calls : input[c].id = i /\ update[c] = "applied"

\* reset.js:147-149 - whoever is told "aborted" may reset again: the request has
\* sent no update.
AbortedSentNothing ==
    \A c, d \in Calls : answer[c] = "aborted" /\ input[d].id = input[c].id =>
        update[d] = "none"

\* The ledger is one that every later call can read: valid, and within its limit.
LedgerIsAccepted == LedgerIsReadable /\ LedgerFits

\* What a call was told is so, and stays so: "completed" has a durable record and an update
\* of the inspected identity behind it, "aborted" has sent nothing and never will.
AnswersHold == CompletedIsDurable /\ CompletedWasConfirmed /\ AbortedSentNothing

\* journal.js:60-63 - a record is kept for good, and what it ended with stays.
RecordsAreFinal ==
    [][\A i \in Ids : ledger[i] # None =>
          /\ ledger'[i] # None
          /\ ledger[i].status # "pending" => ledger'[i] = ledger[i]]_vars

\* reset.js:144-149, journal.js:36 - unless an instance dies or calls fail, every
\* request that holds its target as pending comes to an end, provided that a
\* replacement is tried more often than the other calls can replace the ledger
\* (twice each: the reservation and its end).
ReservationsEnd ==
    \A i \in Ids :
        (ledger[i] # None /\ ledger[i].status = "pending")
            ~> (ledger[i] # None /\ ledger[i].status # "pending")

-----------------------------------------------------------------------------
(* The implementation of ResetRequests *)

Request ==
    INSTANCE ResetRequests WITH
        records <- ledger,
        changes <- {[id |-> input[c].id, outcome |-> update[c]] :
                      c \in {d \in Calls : update[d] # "none"}}

\* journal.js:27-67, reset.js:121-151 - one object replaced by overlapping calls,
\* with retries, lost answers and late writes, is as good as records that change
\* by single steps, with one change of a password between reservation and end.
RequestSpec == Request!Spec
=============================================================================
