--------------------------- MODULE PinResetProofs ---------------------------
(***************************************************************************)
(* Proofs about PinReset, for any calls, requests and faults.  The         *)
(* argument: a replacement that meets its generation is what its call      *)
(* decided of the CURRENT ledger (WritesFit), so a request has one owner,  *)
(* the call whose reservation was saved (OneOwner); an update and the end  *)
(* of a record come from the owner alone (CallsFit, RecordsOwned).         *)
(***************************************************************************)
EXTENDS PinReset, TLAPS, FiniteSetTheorems

Owner(c) ==
    \E w \in writes : w.call = c /\ w.goal = "reserve" /\ w.result = "saved"

\* What a replacement that is still to be made does to the current ledger.
Applies(w) ==
    LET i == input[w.call].id IN
    \/ /\ w.goal = "reserve"
       /\ ledger[i] = None
       /\ TargetFree(ledger, input[w.call].target)
       /\ ~Full(ledger)
       /\ w.ledger = Reserved(ledger, input[w.call])
    \/ /\ w.goal # "reserve"
       /\ ledger[i] # None
       /\ ledger[i].status = "pending"
       /\ w.ledger = Finished(ledger, i, w.goal)

Completed(i) == ledger[i] # None /\ ledger[i].status = "completed"

WritesFit ==
    \A w \in writes :
        /\ w.generation <= generation
        /\ w.goal # "reserve" => Owner(w.call)
        /\ w.goal = "aborted" => goal[w.call] = "aborted"
        /\ w.goal = "completed" => update[w.call] = "applied"
        /\ w.result = "sent" /\ w.generation = generation => Applies(w)
        /\ w.result = "saved" /\ w.goal = "completed" => Completed(input[w.call].id)

OneOwner ==
    \A c, d \in Calls : Owner(c) /\ Owner(d) /\ input[c].id = input[d].id => c = d

OwnersRecord ==
    \A c \in Calls : Owner(c) =>
        /\ ledger[input[c].id] # None
        /\ ledger[input[c].id].target = input[c].target

RecordsOwned ==
    \A i \in Ids : ledger[i] # None =>
        \E c \in Calls :
            /\ Owner(c) /\ input[c].id = i
            /\ ledger[i].status = "aborted" => goal[c] = "aborted"
            /\ ledger[i].status = "completed" => update[c] = "applied"

Inside == {"recheck", "send", "updating", "verify"}

CallsFit ==
    \A c \in Calls :
        /\ pc[c] \in Inside \/ goal[c] # "reserve" \/ update[c] # "none" => Owner(c)
        /\ pc[c] \in Inside \cup {"idle", "get", "inspect"} => goal[c] = "reserve"
        /\ goal[c] = "completed" => update[c] = "applied"
        /\ goal[c] = "aborted" => update[c] = "none"
        /\ pc[c] \in {"idle", "get", "inspect", "recheck", "send"} => update[c] = "none"
        /\ goal[c] = "reserve" /\ pc[c] \in {"change", "waiting"} => update[c] = "none"
        /\ pc[c] = "verify" => update[c] \in {"applied", "misplaced"}

DriftSeen ==
    \A c \in Calls :
        /\ pc[c] \in {"send", "updating", "verify"} \/ update[c] # "none" =>
               identity[input[c].target] >= input[c].seen
        /\ update[c] = "misplaced" => identity[input[c].target] > input[c].seen

AnswersFit ==
    \A c \in Calls :
        /\ answer[c] = "completed" => Completed(input[c].id)
        /\ answer[c] = "aborted" =>
               \E o \in Calls : Owner(o) /\ input[o].id = input[c].id /\ goal[o] = "aborted"

IInv ==
    /\ TypeOK
    /\ LedgerIsReadable
    /\ LedgerFits
    /\ WritesFit
    /\ OneOwner
    /\ OwnersRecord
    /\ RecordsOwned
    /\ CallsFit
    /\ DriftSeen
    /\ AnswersFit

-----------------------------------------------------------------------------
(* The initial states. *)

LEMMA InitHolds == Init => IInv
<1> SUFFICES ASSUME Init PROVE IInv
    OBVIOUS
<1>1. TypeOK
    BY InputAssumption, BoundAssumption DEF Init, TypeOK, Ledgers, Goals, BoundAssumption
<1>2. LedgerIsReadable /\ OwnersRecord /\ RecordsOwned
    BY DEF Init, LedgerIsReadable, OwnersRecord, RecordsOwned, Holds, Owner
<1>3. LedgerFits
    <2>1. {i \in Ids : ledger[i] # None} = {}
        BY DEF Init
    <2>2. Cardinality({}) = 0
        BY FS_EmptySet
    <2> QED
        BY <2>1, <2>2, BoundAssumption DEF LedgerFits, BoundAssumption
<1>4. WritesFit /\ OneOwner
    BY DEF Init, WritesFit, OneOwner, Owner
<1>5. CallsFit /\ DriftSeen
    BY DEF Init, CallsFit, DriftSeen, Inside
<1>6. AnswersFit
    BY DEF Init, AnswersFit
<1> QED
    BY <1>1, <1>2, <1>3, <1>4, <1>5, <1>6 DEF IInv

-----------------------------------------------------------------------------
(* A step of one call that touches neither the store nor the world. *)

\* The values a call may take next without disturbing the invariant.
Fits(c, p, g, a, r) ==
    /\ p \in {"idle", "get", "inspect", "change", "waiting", "recheck",
               "send", "updating", "verify", "ended"}
    /\ g \in Goals
    /\ a \in 0 .. MaxAttempts - 1
    /\ r \in Statuses \cup {"none", "error", "not-recorded"}
    /\ goal[c] = "aborted" => g = "aborted"
    /\ p \in Inside \/ g # "reserve" => Owner(c)
    /\ p \in Inside \cup {"idle", "get", "inspect"} => g = "reserve"
    /\ g = "completed" => update[c] = "applied"
    /\ g = "aborted" => update[c] = "none"
    /\ p \in {"idle", "get", "inspect", "recheck", "send"} => update[c] = "none"
    /\ g = "reserve" /\ p \in {"change", "waiting"} => update[c] = "none"
    /\ p = "verify" => update[c] \in {"applied", "misplaced"}
    /\ p \in {"send", "updating", "verify"} =>
           identity[input[c].target] >= input[c].seen
    /\ r # answer[c] =>
           /\ r = "completed" => Completed(input[c].id)
           /\ r = "aborted" =>
                  \/ Owner(c) /\ g = "aborted"
                  \/ ledger[input[c].id] # None
                     /\ ledger[input[c].id].status = "aborted"

Becomes(c, p, g, a, r) ==
    /\ pc' = [pc EXCEPT ![c] = p]
    /\ goal' = [goal EXCEPT ![c] = g]
    /\ attempt' = [attempt EXCEPT ![c] = a]
    /\ answer' = [answer EXCEPT ![c] = r]
    /\ input' = input

LEMMA FrameStep ==
    ASSUME IInv, NEW c \in Calls, NEW p, NEW g, NEW a, NEW r,
           Fits(c, p, g, a, r), Becomes(c, p, g, a, r),
           UNCHANGED <<store, writes, world>>, faults' \in Nat
    PROVE  IInv'
<1> USE DEF IInv, Becomes, store, world
<1>1. TypeOK'
    BY DEF TypeOK, Fits
<1>2. LedgerIsReadable' /\ LedgerFits'
    BY DEF LedgerIsReadable, LedgerFits, Holds
<1>3. \A d : Owner(d)' <=> Owner(d)
    BY DEF Owner
<1>4. \A d \in Calls : goal[d] = "aborted" => goal'[d] = "aborted"
    BY DEF TypeOK, Fits
<1>5. WritesFit'
    <2>1. ASSUME NEW w \in writes PROVE Applies(w)' <=> Applies(w)
        BY DEF Applies, TargetFree, Full, Holds, Reserved, Finished
    <2>2. ASSUME NEW w \in writes PROVE w.call \in Calls
        BY DEF TypeOK
    <2> QED
        BY <1>3, <1>4, <2>1, <2>2 DEF WritesFit, Completed
<1>6. OneOwner' /\ OwnersRecord'
    BY <1>3 DEF OneOwner, OwnersRecord
<1>7. RecordsOwned'
    BY <1>3, <1>4 DEF RecordsOwned
<1>8. CallsFit'
    BY <1>3 DEF CallsFit, Fits, TypeOK
<1>9. DriftSeen'
    BY DEF DriftSeen, Fits, TypeOK
<1>10. AnswersFit'
    <2> SUFFICES ASSUME NEW d \in Calls
                 PROVE  /\ answer'[d] = "completed" => Completed(input[d].id)
                        /\ answer'[d] = "aborted" =>
                              \E o \in Calls : /\ Owner(o) /\ input[o].id = input[d].id
                                               /\ goal'[o] = "aborted"
        BY <1>3 DEF AnswersFit, Completed
    <2>1. CASE d # c \/ r = answer[c]
        BY <2>1, <1>4 DEF AnswersFit
    <2>2. CASE d = c /\ r # answer[c]
        <3>1. r = "completed" => Completed(input[c].id)
            BY <2>2 DEF Fits
        <3>2. input[c].id \in Ids
            BY InputAssumption DEF TypeOK, InputAssumption
        <3>3. ASSUME Owner(c), g = "aborted"
              PROVE  \E o \in Calls : /\ Owner(o) /\ input[o].id = input[c].id
                                      /\ goal'[o] = "aborted"
            BY <3>3 DEF TypeOK
        <3>4. ASSUME ledger[input[c].id] # None, ledger[input[c].id].status = "aborted"
              PROVE  \E o \in Calls : /\ Owner(o) /\ input[o].id = input[c].id
                                      /\ goal'[o] = "aborted"
            BY <3>2, <3>4, <1>4 DEF RecordsOwned
        <3>5. answer'[c] = r
            BY DEF TypeOK
        <3>6. r = "aborted" =>
                  \/ Owner(c) /\ g = "aborted"
                  \/ ledger[input[c].id] # None /\ ledger[input[c].id].status = "aborted"
            BY <2>2 DEF Fits
        <3> QED
            BY <2>2, <3>1, <3>3, <3>4, <3>5, <3>6
    <2> QED
        BY <2>1, <2>2
<1> QED
    BY <1>1, <1>2, <1>5, <1>6, <1>7, <1>8, <1>9, <1>10

-----------------------------------------------------------------------------
(* The ways a call goes on, as instances of FrameStep. *)

LEMMA SameValue ==
    ASSUME NEW S, NEW T, NEW f \in [S -> T], NEW x \in S
    PROVE  f = [f EXCEPT ![x] = f[x]]
OBVIOUS

LEMMA GotoStep ==
    ASSUME IInv, NEW c \in Calls, NEW p, Goto(c, p),
           UNCHANGED <<input, goal, attempt, answer>>,
           Fits(c, p, goal[c], attempt[c], answer[c]),
           UNCHANGED <<store, writes, world>>, faults' \in Nat
    PROVE  IInv'
<1>1. Becomes(c, p, goal[c], attempt[c], answer[c])
    BY SameValue DEF Goto, Becomes, IInv, TypeOK
<1> QED
    BY <1>1, FrameStep

LEMMA EndStep ==
    ASSUME IInv, NEW c \in Calls, NEW r, End(c, r),
           r \in Statuses \cup {"none", "error", "not-recorded"},
           r = "completed" => Completed(input[c].id),
           r = "aborted" =>
               \/ Owner(c) /\ goal[c] = "aborted"
               \/ ledger[input[c].id] # None
                  /\ ledger[input[c].id].status = "aborted",
           UNCHANGED <<store, writes, world>>, faults' \in Nat
    PROVE  IInv'
<1>1. Becomes(c, "ended", goal[c], attempt[c], r)
    BY SameValue DEF End, Goto, Becomes, IInv, TypeOK
<1>2. Fits(c, "ended", goal[c], attempt[c], r)
    BY DEF Fits, IInv, TypeOK, CallsFit, Inside
<1> QED
    BY <1>1, <1>2, FrameStep

LEMMA SettleStep ==
    ASSUME IInv, NEW c \in Calls, NEW g \in {"completed", "ambiguous", "aborted"},
           Settle(c, g), Owner(c), goal[c] # "aborted",
           g = "completed" => update[c] = "applied",
           g = "aborted" => update[c] = "none",
           UNCHANGED <<store, writes, world>>, faults' \in Nat
    PROVE  IInv'
<1>1. Becomes(c, "change", g, 0, answer[c])
    BY SameValue DEF Settle, Goto, Becomes, IInv, TypeOK
<1>2. Fits(c, "change", g, 0, answer[c])
    BY BoundAssumption DEF Fits, IInv, TypeOK, Inside, Goals, BoundAssumption
<1> QED
    BY <1>1, <1>2, FrameStep

LEMMA ThrowStep ==
    ASSUME IInv, NEW c \in Calls, Throw(c),
           UNCHANGED <<store, writes, world>>, faults' \in Nat
    PROVE  IInv'
<1>1. CASE ~Caught(c) /\ goal[c] = "reserve" /\ End(c, "error")
    BY <1>1, EndStep
<1>2. CASE Caught(c) /\ Settle(c, IF Started(c) THEN "ambiguous" ELSE "aborted")
    <2>1. Owner(c) /\ goal[c] # "aborted"
        BY <1>2 DEF Caught, IInv, CallsFit, Inside
    <2>2. ~Started(c) => update[c] = "none"
        BY <1>2 DEF Caught, Started, IInv, CallsFit
    <2> QED
        BY <1>2, <2>1, <2>2, SettleStep
<1>3. CASE ~Caught(c) /\ goal[c] # "reserve" /\ End(c, goal[c])
    <2>1. Owner(c) /\ goal[c] \in {"ambiguous", "aborted"}
        BY <1>3 DEF Caught, IInv, CallsFit, TypeOK, Goals
    <2> QED
        BY <1>3, <2>1, EndStep DEF Statuses
<1> QED
    BY <1>1, <1>2, <1>3 DEF Throw

\* Receipts repeat the record's status.
LEMMA ReceiptStep ==
    ASSUME IInv, NEW c \in Calls, ledger[input[c].id] # None,
           End(c, Receipt(ledger[input[c].id], input[c])),
           UNCHANGED <<store, writes, world>>, faults' \in Nat
    PROVE  IInv'
<1> DEFINE i == input[c].id
           r == Receipt(ledger[i], input[c])
<1>1. i \in Ids
    BY InputAssumption DEF InputAssumption, IInv, TypeOK
<1>2. ledger[i].status \in Statuses
    BY <1>1 DEF IInv, TypeOK, Ledgers, Records
<1>3. r = "error" \/ r = ledger[i].status
    BY DEF Receipt
<1>4. r \in Statuses \cup {"none", "error", "not-recorded"}
    BY <1>2, <1>3
<1>5. r = "completed" => Completed(i)
    BY <1>3 DEF Completed
<1>6. r = "aborted" => ledger[i].status = "aborted"
    BY <1>3
<1> HIDE DEF r
<1> QED
    BY <1>4, <1>5, <1>6, EndStep DEF r

-----------------------------------------------------------------------------
(* The actions that touch neither the store nor the world. *)

LEMMA BeginStep == ASSUME IInv, NEW c \in Calls, Begin(c) PROVE IInv'
<1>1. Fits(c, "get", goal[c], attempt[c], answer[c])
    BY DEF Begin, Fits, IInv, TypeOK, CallsFit, Inside
<1> QED
    BY <1>1, GotoStep DEF Begin, IInv, TypeOK

LEMMA GetStep == ASSUME IInv, NEW c \in Calls, Get(c) PROVE IInv'
<1> DEFINE in == input[c]
           record == ledger[in.id]
<1>1. UNCHANGED <<store, writes, world>> /\ faults' \in Nat
    BY DEF Get, IInv, TypeOK
<1>2. CASE record # None /\ End(c, Receipt(record, in))
    BY <1>1, <1>2, ReceiptStep
<1>3. CASE record = None /\ in.pin = NoPin /\ End(c, "not-recorded")
    BY <1>1, <1>3, EndStep
<1>4. CASE Goto(c, "inspect") /\ UNCHANGED <<input, goal, attempt, answer>>
    <2>1. Fits(c, "inspect", goal[c], attempt[c], answer[c])
        BY DEF Get, Fits, IInv, TypeOK, CallsFit, Inside
    <2> QED
        BY <1>1, <1>4, <2>1, GotoStep
<1> QED
    BY <1>2, <1>3, <1>4 DEF Get

LEMMA InspectStep == ASSUME IInv, NEW c \in Calls, Inspect(c) PROVE IInv'
<1>1. UNCHANGED <<store, writes, world>> /\ faults' \in Nat
    BY DEF Inspect, IInv, TypeOK
<1>2. CASE Throw(c)
    BY <1>1, <1>2, ThrowStep
<1>3. CASE Goto(c, "change") /\ UNCHANGED <<input, goal, attempt, answer>>
    <2>1. Fits(c, "change", goal[c], attempt[c], answer[c])
        BY DEF Inspect, Fits, IInv, TypeOK, CallsFit, Inside
    <2> QED
        BY <1>1, <1>3, <2>1, GotoStep
<1> QED
    BY <1>2, <1>3 DEF Inspect

LEMMA RecheckStep == ASSUME IInv, NEW c \in Calls, Recheck(c) PROVE IInv'
<1>1. UNCHANGED <<store, writes, world>> /\ faults' \in Nat
    BY DEF Recheck, IInv, TypeOK
<1>2. CASE Throw(c)
    BY <1>1, <1>2, ThrowStep
<1>3. CASE Unchanged(c) /\ Goto(c, "send") /\ UNCHANGED <<input, goal, attempt, answer>>
    <2>1. input[c].seen \in Nat
        BY InputAssumption DEF InputAssumption, IInv, TypeOK
    <2>2. Fits(c, "send", goal[c], attempt[c], answer[c])
        BY <1>3, <2>1 DEF Recheck, Unchanged, Fits, IInv, TypeOK, CallsFit, Inside
    <2> QED
        BY <1>1, <1>3, <2>2, GotoStep
<1> QED
    BY <1>2, <1>3 DEF Recheck

LEMMA UpdateAnswersStep == ASSUME IInv, NEW c \in Calls, UpdateAnswers(c) PROVE IInv'
<1>1. Fits(c, "verify", goal[c], attempt[c], answer[c])
    BY DEF UpdateAnswers, Fits, IInv, TypeOK, CallsFit, DriftSeen, Inside
<1> QED
    BY <1>1, GotoStep DEF UpdateAnswers, IInv, TypeOK

\* The update of a call that finds the inspected identity was not misplaced:
\* an identity that has changed does not come back.
LEMMA VerifyStep == ASSUME IInv, NEW c \in Calls, Verify(c) PROVE IInv'
<1>1. UNCHANGED <<store, writes, world>> /\ faults' \in Nat
    BY DEF Verify, IInv, TypeOK
<1>2. CASE Throw(c)
    BY <1>1, <1>2, ThrowStep
<1>3. CASE Confirmed(c) /\ Settle(c, "completed")
    <2>1. input[c].seen \in Nat
        BY InputAssumption DEF InputAssumption, IInv, TypeOK
    <2>2. update[c] \in {"applied", "misplaced"} /\ Owner(c) /\ goal[c] = "reserve"
        BY DEF Verify, IInv, CallsFit, Inside
    <2>3. update[c] = "applied"
        BY <1>3, <2>1, <2>2 DEF Confirmed, Unchanged, IInv, DriftSeen
    <2> QED
        BY <1>1, <1>3, <2>2, <2>3, SettleStep
<1> QED
    BY <1>2, <1>3 DEF Verify

LEMMA StoreAnswersStep ==
    ASSUME IInv, NEW c \in Calls, NEW w \in writes, StoreAnswers(c, w) PROVE IInv'
<1>1. UNCHANGED <<store, writes, world>> /\ faults' \in Nat
    BY DEF StoreAnswers, IInv, TypeOK
<1>2. CASE w.result = "saved" /\ goal[c] = "reserve" /\ Goto(c, "recheck")
           /\ UNCHANGED <<input, goal, attempt, answer>>
    <2>1. Owner(c)
        BY <1>2 DEF StoreAnswers, Awaited, Owner
    <2>2. Fits(c, "recheck", goal[c], attempt[c], answer[c])
        BY <1>2, <2>1 DEF StoreAnswers, Fits, IInv, TypeOK, CallsFit, Inside
    <2> QED
        BY <1>1, <1>2, <2>2, GotoStep
<1>3. CASE w.result = "saved" /\ goal[c] # "reserve" /\ End(c, goal[c])
    <2>1. goal[c] = "completed" => Completed(input[c].id)
        BY <1>3 DEF StoreAnswers, Awaited, IInv, WritesFit
    <2>2. Owner(c) /\ goal[c] \in Statuses
        BY <1>3 DEF IInv, TypeOK, Goals, Statuses, CallsFit
    <2> QED
        BY <1>1, <1>3, <2>1, <2>2, EndStep
<1>4. CASE attempt[c] + 1 < MaxAttempts /\ Goto(c, "change")
           /\ attempt' = [attempt EXCEPT ![c] = @ + 1] /\ UNCHANGED <<input, goal, answer>>
    <2>1. Becomes(c, "change", goal[c], attempt[c] + 1, answer[c])
        BY <1>4, SameValue DEF Becomes, Goto, IInv, TypeOK
    <2>2. Fits(c, "change", goal[c], attempt[c] + 1, answer[c])
        BY <1>4, BoundAssumption
        DEF StoreAnswers, Fits, IInv, TypeOK, CallsFit, Inside, BoundAssumption
    <2> QED
        BY <1>1, <2>1, <2>2, FrameStep
<1>5. CASE Throw(c)
    BY <1>1, <1>5, ThrowStep
<1> QED
    BY <1>2, <1>3, <1>4, <1>5 DEF StoreAnswers, Saved, Stale

LEMMA FaultStep ==
    ASSUME IInv, NEW c \in Calls, CallFails(c) \/ Dies(c) PROVE IInv'
<1>1. faults' \in Nat
    BY DEF CallFails, Dies, Fault, IInv, TypeOK
<1>2. CASE CallFails(c)
    BY <1>1, <1>2, ThrowStep DEF CallFails
<1>3. CASE Dies(c)
    BY <1>1, <1>3, EndStep DEF Dies
<1> QED
    BY <1>2, <1>3

-----------------------------------------------------------------------------
(* The replacement of the ledger. *)

\* A replacement that a call decides on is what WritesFit expects of one.
LEMMA SendStep ==
    ASSUME IInv, NEW c \in Calls, NEW L, pc[c] = "change", Send(c, L),
           L \in Ledgers,
           \/ /\ goal[c] = "reserve"
              /\ ledger[input[c].id] = None
              /\ TargetFree(ledger, input[c].target)
              /\ ~Full(ledger)
              /\ L = Reserved(ledger, input[c])
           \/ /\ goal[c] # "reserve"
              /\ ledger[input[c].id] # None
              /\ ledger[input[c].id].status = "pending"
              /\ L = Finished(ledger, input[c].id, goal[c]),
           UNCHANGED <<store, world, faults>>
    PROVE  IInv'
<1> DEFINE new == [call |-> c, goal |-> goal[c], attempt |-> attempt[c],
                   generation |-> generation, ledger |-> L, result |-> "sent"]
<1>1. /\ writes' = writes \cup {new}
      /\ pc' = [pc EXCEPT ![c] = "waiting"]
      /\ UNCHANGED <<store, world, faults, input, goal, attempt, answer>>
    BY DEF Send, Goto
<1> USE DEF store, world
<1>2. TypeOK'
    <2>1. new \in [call : Calls, goal : Goals, attempt : Nat, generation : Nat,
                   ledger : Ledgers, result : {"sent", "saved", "stale"}]
        BY BoundAssumption DEF IInv, TypeOK, BoundAssumption
    <2> HIDE DEF new
    <2> QED
        BY <1>1, <2>1 DEF IInv, TypeOK
<1>3. \A d : Owner(d)' <=> Owner(d)
    <2>1. new.result # "saved"
        OBVIOUS
    <2> HIDE DEF new
    <2> QED
        BY <1>1, <2>1 DEF Owner
<1>4. WritesFit'
    <2> HIDE DEF new
    <2>0. ASSUME NEW w \in writes' PROVE Applies(w)' <=> Applies(w)
        BY <1>1 DEF Applies, TargetFree, Full, Holds, Reserved, Finished
    <2> SUFFICES ASSUME NEW w \in writes'
                 PROVE  /\ w.generation <= generation
                        /\ w.goal # "reserve" => Owner(w.call)
                        /\ w.goal = "aborted" => goal[w.call] = "aborted"
                        /\ w.goal = "completed" => update[w.call] = "applied"
                        /\ w.result = "sent" /\ w.generation = generation => Applies(w)
                        /\ w.result = "saved" /\ w.goal = "completed" =>
                               Completed(input[w.call].id)
        BY <1>1, <1>3, <2>0 DEF WritesFit, Completed
    <2>1. CASE w \in writes
        BY <2>1 DEF IInv, WritesFit
    <2>2. CASE w = new
        <3>1. w.call = c /\ w.goal = goal[c] /\ w.generation = generation
              /\ w.result = "sent" /\ w.ledger = L
            BY <2>2 DEF new
        <3>2. Applies(w)
            BY <3>1 DEF Applies
        <3>3. generation \in Nat
            BY DEF IInv, TypeOK
        <3> HIDE DEF new
        <3> QED
            BY <3>1, <3>2, <3>3 DEF IInv, CallsFit
    <2> QED
        BY <1>1, <2>1, <2>2
<1> HIDE DEF new
<1>5. LedgerIsReadable' /\ LedgerFits'
    BY <1>1 DEF IInv, LedgerIsReadable, LedgerFits, Holds
<1>6. OneOwner' /\ OwnersRecord' /\ RecordsOwned'
    BY <1>1, <1>3 DEF IInv, OneOwner, OwnersRecord, RecordsOwned
<1>7. CallsFit'
    BY <1>1, <1>3 DEF IInv, CallsFit, TypeOK, Inside
<1>8. DriftSeen'
    BY <1>1 DEF IInv, DriftSeen, TypeOK
<1>9. AnswersFit'
    BY <1>1, <1>3 DEF IInv, AnswersFit, Completed
<1> QED
    BY <1>2, <1>4, <1>5, <1>6, <1>7, <1>8, <1>9 DEF IInv

LEMMA ReserveStep == ASSUME IInv, NEW c \in Calls, Reserve(c) PROVE IInv'
<1> DEFINE in == input[c]
           record == ledger[in.id]
<1>1. UNCHANGED <<store, world, faults>> /\ faults' \in Nat
    BY DEF Reserve, IInv, TypeOK
<1>2. CASE record # None /\ End(c, Receipt(record, in)) /\ UNCHANGED writes
    BY <1>1, <1>2, ReceiptStep
<1>3. CASE Throw(c) /\ UNCHANGED writes
    BY <1>1, <1>3, ThrowStep
<1>4. CASE /\ record = None
           /\ TargetFree(ledger, in.target) /\ ~Full(ledger)
           /\ Send(c, Reserved(ledger, in))
    <2>1. in \in Inputs /\ in.id \in Ids /\ in.target \in Targets /\ in.seen \in Nat
          /\ in.pin \in Pins
        BY InputAssumption DEF InputAssumption, IInv, TypeOK, Pins
    <2>2. RecordOf(in) \in Records
        BY <2>1 DEF RecordOf, Records, Statuses
    <2>3. Reserved(ledger, in) \in Ledgers
        BY <2>1, <2>2 DEF Reserved, Ledgers, IInv, TypeOK
    <2>4. pc[c] = "change" /\ goal[c] = "reserve"
        BY DEF Reserve
    <2> QED
        BY <1>1, <1>4, <2>3, <2>4, SendStep
<1> QED
    BY <1>2, <1>3, <1>4 DEF Reserve

LEMMA FinishStep == ASSUME IInv, NEW c \in Calls, Finish(c) PROVE IInv'
<1> DEFINE i == input[c].id
           record == ledger[i]
<1>1. UNCHANGED <<store, world, faults>> /\ faults' \in Nat
    BY DEF Finish, IInv, TypeOK
<1>2. CASE Throw(c) /\ UNCHANGED writes
    BY <1>1, <1>2, ThrowStep
<1>3. pc[c] = "change" /\ goal[c] # "reserve" /\ goal[c] \in Statuses /\ i \in Ids
    BY InputAssumption DEF InputAssumption, Finish, IInv, TypeOK, Goals, Statuses
<1>4. CASE record # None /\ MayFinish(record) /\ Send(c, Finished(ledger, i, goal[c]))
    <2>1. record \in Records
        BY <1>3, <1>4 DEF IInv, TypeOK, Ledgers
    <2>2. [target |-> record.target, pin |-> record.pin, seen |-> record.seen,
           status |-> goal[c]] \in Records
        BY <1>3, <2>1 DEF Records
    <2>3. Finished(ledger, i, goal[c]) \in Ledgers
        BY <1>3, <2>2 DEF Finished, Ledgers, IInv, TypeOK
    <2> QED
        BY <1>1, <1>3, <1>4, <2>3, SendStep DEF MayFinish
<1>5. CASE record # None /\ record.status = "completed" /\ End(c, goal[c]) /\ UNCHANGED writes
    <2>1. Owner(c)
        BY <1>3 DEF IInv, CallsFit
    <2> QED
        BY <1>1, <1>3, <1>5, <2>1, EndStep DEF Completed
<1> QED
    BY <1>2, <1>4, <1>5 DEF Finish

\* What a replacement of the ledger may do to its records.
LedgerStep ==
    \A i \in Ids : ledger[i] # None =>
        /\ ledger'[i] # None
        /\ ledger[i].status # "pending" => ledger'[i] = ledger[i]
        /\ ledger'[i].target = ledger[i].target

LEMMA ReplaceEffect ==
    ASSUME IInv, NEW w \in writes, w.result = "sent", Current(w), ledger' = w.ledger
    PROVE  LET c == w.call
               i == input[c].id IN
           /\ c \in Calls /\ i \in Ids
           /\ \A j \in Ids \ {i} : ledger'[j] = ledger[j]
           /\ ledger'[i] # None
           /\ w.goal = "reserve" =>
                 /\ ledger[i] = None
                 /\ TargetFree(ledger, input[c].target)
                 /\ ~Full(ledger)
                 /\ ledger'[i].status = "pending"
                 /\ ledger'[i].target = input[c].target
           /\ w.goal # "reserve" =>
                 /\ ledger[i] # None
                 /\ ledger[i].status = "pending"
                 /\ ledger'[i].status = w.goal
                 /\ ledger'[i].target = ledger[i].target
           /\ LedgerStep
<1> DEFINE c == w.call
           i == input[c].id
<1>1. c \in Calls /\ input[c] \in Inputs /\ i \in Ids /\ w.ledger \in Ledgers
    BY InputAssumption DEF InputAssumption, IInv, TypeOK
<1>2. Applies(w)
    BY DEF Current, IInv, WritesFit
<1>3. ledger \in Ledgers
    BY DEF IInv, TypeOK
<1>4. CASE w.goal = "reserve"
    <2>1. RecordOf(input[c]) \in Records
        BY <1>1, InputAssumption DEF InputAssumption, RecordOf, Records, Statuses, Pins
    <2>2. RecordOf(input[c]) # None
        BY <2>1, NoneAssumption DEF NoneAssumption
    <2>3. ledger' = Reserved(ledger, input[c]) /\ ledger[i] = None
          /\ TargetFree(ledger, input[c].target) /\ ~Full(ledger)
        BY <1>2, <1>4 DEF Applies
    <2>4. ledger'[i] = RecordOf(input[c]) /\ \A j \in Ids \ {i} : ledger'[j] = ledger[j]
        BY <1>1, <1>3, <2>3 DEF Reserved, Ledgers
    <2>5. ledger'[i].status = "pending" /\ ledger'[i].target = input[c].target
        BY <2>4 DEF RecordOf
    <2> QED
        BY <1>1, <1>4, <2>2, <2>3, <2>4, <2>5 DEF LedgerStep
<1>5. CASE w.goal # "reserve"
    <2>1. /\ ledger' = Finished(ledger, i, w.goal)
          /\ ledger[i] # None /\ ledger[i].status = "pending"
        BY <1>2, <1>5 DEF Applies
    <2>2. w.goal \in Statuses
        BY <1>5 DEF IInv, TypeOK, Goals, Statuses
    <2> DEFINE r == [target |-> ledger[i].target, pin |-> ledger[i].pin,
                     seen |-> ledger[i].seen, status |-> w.goal]
    <2>3. ledger'[i] = r /\ \A j \in Ids \ {i} : ledger'[j] = ledger[j]
        BY <1>1, <1>3, <2>1 DEF Finished, Ledgers
    <2>4. ledger[i] \in Records
        BY <1>1, <1>3, <2>1 DEF Ledgers
    <2>5. r \in Records
        BY <2>2, <2>4 DEF Records
    <2>6. r # None /\ r.status = w.goal /\ r.target = ledger[i].target
        BY <2>5, NoneAssumption DEF NoneAssumption
    <2> QED
        BY <1>1, <1>5, <2>1, <2>3, <2>6 DEF LedgerStep
<1> QED
    BY <1>4, <1>5

LEMMA StoreReplacesStep ==
    ASSUME IInv, NEW w \in writes, StoreReplaces(w) PROVE IInv'
<1> DEFINE c == w.call
           i == input[c].id
           result == IF Current(w) THEN "saved" ELSE "stale"
           done == [w EXCEPT !.result = result]
<1>1. /\ UNCHANGED <<pc, input, goal, attempt, answer, update, password, identity, faults>>
      /\ w.result = "sent"
      /\ writes' = (writes \ {w}) \cup {done}
    BY DEF StoreReplaces, frames, world
<1>2. /\ done.call = c /\ done.goal = w.goal /\ done.generation = w.generation
      /\ done.result = result /\ done.attempt = w.attempt /\ done.ledger = w.ledger
      /\ done \in [call : Calls, goal : Goals, attempt : Nat, generation : Nat,
                   ledger : Ledgers, result : {"sent", "saved", "stale"}]
    BY DEF IInv, TypeOK
<1>3. c \in Calls /\ input[c] \in Inputs /\ i \in Ids
    BY InputAssumption DEF InputAssumption, IInv, TypeOK
<1>4. generation \in Nat /\ generation' \in Nat /\ ledger' \in Ledgers
    BY DEF StoreReplaces, store, IInv, TypeOK
<1> HIDE DEF done
<1>5. TypeOK'
    BY <1>1, <1>2, <1>4 DEF IInv, TypeOK
<1>6. \A d : Owner(d) => Owner(d)'
    BY <1>1, <1>2 DEF Owner
<1>7. ASSUME NEW d, Owner(d)'
      PROVE  Owner(d) \/ (d = c /\ w.goal = "reserve" /\ Current(w))
    BY <1>1, <1>2, <1>7 DEF Owner
<1>8. CASE ~Current(w)
    <2>1. UNCHANGED <<ledger, generation>>
        BY <1>8 DEF StoreReplaces, store
    <2>2. \A d : Owner(d)' <=> Owner(d)
        BY <1>6, <1>7, <1>8
    <2>3. WritesFit'
        <3> SUFFICES ASSUME NEW v \in writes'
                     PROVE  /\ v.generation <= generation
                            /\ v.goal # "reserve" => Owner(v.call)
                            /\ v.goal = "aborted" => goal[v.call] = "aborted"
                            /\ v.goal = "completed" => update[v.call] = "applied"
                            /\ v.result = "sent" /\ v.generation = generation => Applies(v)'
                            /\ v.result = "saved" /\ v.goal = "completed" =>
                                   Completed(input[v.call].id)
            BY <1>1, <2>1, <2>2 DEF WritesFit, Completed
        <3>1. Applies(v)' <=> Applies(v)
            BY <1>1, <2>1 DEF Applies, TargetFree, Full, Holds, Reserved, Finished
        <3>2. CASE v \in writes
            BY <3>1, <3>2 DEF IInv, WritesFit
        <3>3. CASE v = done
            BY <1>2, <1>8, <3>3 DEF IInv, WritesFit
        <3> QED
            BY <1>1, <3>2, <3>3
    <2>4. LedgerIsReadable' /\ LedgerFits'
        BY <2>1 DEF IInv, LedgerIsReadable, LedgerFits, Holds
    <2>5. OneOwner' /\ OwnersRecord' /\ RecordsOwned' /\ CallsFit' /\ DriftSeen' /\ AnswersFit'
        BY <1>1, <2>1, <2>2 DEF IInv, OneOwner, OwnersRecord, RecordsOwned, CallsFit,
                                DriftSeen, AnswersFit, Completed
    <2> QED
        BY <1>5, <2>3, <2>4, <2>5 DEF IInv
<1>9. CASE Current(w)
    <2>1. ledger' = w.ledger /\ generation' = generation + 1
        BY <1>9 DEF StoreReplaces
    <2>2. /\ \A j \in Ids \ {i} : ledger'[j] = ledger[j]
          /\ ledger'[i] # None
          /\ w.goal = "reserve" =>
                /\ ledger[i] = None
                /\ TargetFree(ledger, input[c].target)
                /\ ~Full(ledger)
                /\ ledger'[i].status = "pending"
                /\ ledger'[i].target = input[c].target
          /\ w.goal # "reserve" =>
                /\ ledger[i] # None
                /\ ledger[i].status = "pending"
                /\ ledger'[i].status = w.goal
                /\ ledger'[i].target = ledger[i].target
          /\ LedgerStep
        BY <1>1, <1>9, <2>1, ReplaceEffect
    <2>3. \A j \in Ids : Completed(j) => Completed(j)'
        BY <2>2 DEF LedgerStep, Completed
    <2>4. w.goal # "reserve" => Owner(c)
        BY DEF IInv, WritesFit
    <2>5. \A d \in Calls : input[d].id \in Ids
        BY InputAssumption DEF InputAssumption, IInv, TypeOK
    <2>6. LedgerIsReadable'
        BY <2>2 DEF IInv, LedgerIsReadable, Holds, TargetFree
    <2>7. LedgerFits'
        <3> DEFINE S == {j \in Ids : ledger[j] # None}
        <3>1. IsFiniteSet(S)
            BY IdsAssumption, FS_Subset DEF IdsAssumption
        <3>2. {j \in Ids : ledger'[j] # None} = S \cup {i}
            BY <1>3, <2>2
        <3>3. Cardinality(S) \in Nat /\ Cardinality(S) <= Capacity
            BY <3>1, FS_CardinalityType DEF IInv, LedgerFits
        <3>4. CASE w.goal = "reserve"
            <4>1. i \notin S /\ ~(Cardinality(S) >= Capacity)
                BY <2>2, <3>4 DEF Full
            <4>2. Cardinality(S \cup {i}) = Cardinality(S) + 1
                BY <3>1, <4>1, FS_AddElement
            <4>3. Cardinality({j \in Ids : ledger'[j] # None}) = Cardinality(S \cup {i})
                BY <3>2
            <4> HIDE DEF S
            <4>4. Cardinality(S \cup {i}) <= Capacity
                BY <3>3, <4>1, <4>2, BoundAssumption DEF BoundAssumption
            <4> QED
                BY <4>3, <4>4 DEF LedgerFits
        <3>5. CASE w.goal # "reserve"
            <4>1. S \cup {i} = S
                BY <1>3, <2>2, <3>5
            <4> HIDE DEF S
            <4> QED
                BY <3>2, <3>3, <4>1 DEF LedgerFits
        <3> QED
            BY <3>4, <3>5
    <2>8. WritesFit'
        <3>1. \A v \in writes' : v.call \in Calls /\ v.generation \in Nat
            BY <1>5 DEF TypeOK
        <3> SUFFICES ASSUME NEW v \in writes'
                     PROVE  /\ v.generation <= generation /\ v.generation < generation'
                            /\ v.goal # "reserve" => Owner(v.call)
                            /\ v.goal = "aborted" => goal[v.call] = "aborted"
                            /\ v.goal = "completed" => update[v.call] = "applied"
                            /\ v.result = "saved" /\ v.goal = "completed" =>
                                   Completed(input[v.call].id)'
            BY <1>1, <1>4, <1>6, <2>1, <3>1 DEF WritesFit, Completed
        <3>2. CASE v \in writes
            <4>1. Completed(input[v.call].id) => Completed(input[v.call].id)'
                BY <1>1, <2>3, <2>5, <3>1
            <4> QED
                BY <1>4, <2>1, <3>1, <3>2, <4>1 DEF IInv, WritesFit
        <3>3. CASE v = done
            <4>1. w.goal = "completed" => Completed(i)'
                BY <1>1, <2>2 DEF Completed
            <4>2. v.call = c /\ v.goal = w.goal /\ v.generation = w.generation
                BY <1>2, <3>3
            <4>3. Completed(input[v.call].id)' <=> Completed(i)'
                BY <4>2
            <4> QED
                BY <1>4, <2>1, <3>1, <4>1, <4>2, <4>3 DEF IInv, WritesFit
        <3> QED
            BY <1>1, <3>2, <3>3
    <2>9. OneOwner'
        <3> SUFFICES ASSUME NEW d \in Calls, NEW e \in Calls, Owner(d)', Owner(e)',
                            input[d].id = input[e].id
                     PROVE  d = e
            BY <1>1 DEF OneOwner
        <3>1. CASE Owner(d) /\ Owner(e)
            BY <3>1 DEF IInv, OneOwner
        <3>2. ASSUME NEW x \in Calls, Owner(x), w.goal = "reserve" PROVE input[x].id # i
            BY <2>2, <3>2 DEF IInv, OwnersRecord
        <3> QED
            BY <1>7, <3>1, <3>2
    <2>10. OwnersRecord'
        BY <1>1, <1>7, <2>2, <2>5 DEF IInv, OwnersRecord, LedgerStep
    <2>11. RecordsOwned'
        <3> SUFFICES ASSUME NEW j \in Ids, ledger'[j] # None
                     PROVE  \E d \in Calls :
                                /\ Owner(d)' /\ input[d].id = j
                                /\ ledger'[j].status = "aborted" => goal[d] = "aborted"
                                /\ ledger'[j].status = "completed" => update[d] = "applied"
            BY <1>1 DEF RecordsOwned
        <3>1. CASE j # i
            <4>1. ledger'[j] = ledger[j]
                BY <2>2, <3>1
            <4> QED
                BY <1>6, <4>1 DEF IInv, RecordsOwned
        <3>2. CASE j = i /\ w.goal = "reserve"
            <4>1. Owner(c)'
                BY <1>1, <1>2, <1>9, <3>2 DEF Owner
            <4>2. ledger'[i].status = "pending"
                BY <2>2, <3>2
            <4> QED
                BY <1>3, <3>2, <4>1, <4>2
        <3>3. CASE j = i /\ w.goal # "reserve"
            <4>1. Owner(c)'
                BY <1>6, <2>4, <3>3
            <4>2. ledger'[i].status = w.goal
                BY <2>2, <3>3
            <4>3. /\ w.goal = "aborted" => goal[c] = "aborted"
                  /\ w.goal = "completed" => update[c] = "applied"
                BY DEF IInv, WritesFit
            <4> QED
                BY <1>3, <3>3, <4>1, <4>2, <4>3
        <3> QED
            BY <3>1, <3>2, <3>3
    <2>12. CallsFit' /\ DriftSeen'
        BY <1>1, <1>6 DEF IInv, CallsFit, DriftSeen
    <2>13. AnswersFit'
        BY <1>1, <1>6, <2>3, <2>5 DEF IInv, AnswersFit, Completed
    <2> QED
        BY <1>5, <2>6, <2>7, <2>8, <2>9, <2>10, <2>11, <2>12, <2>13 DEF IInv
<1> QED
    BY <1>8, <1>9

-----------------------------------------------------------------------------
(* The actions on the world. *)

LEMMA SendUpdateStep == ASSUME IInv, NEW c \in Calls, SendUpdate(c) PROVE IInv'
<1>1. /\ UNCHANGED <<ledger, generation, writes, input, goal, attempt, answer,
                     password, identity, faults>>
      /\ pc' = [pc EXCEPT ![c] = "updating"]
      /\ update' = [update EXCEPT ![c] = "sent"]
      /\ pc[c] = "send"
    BY DEF SendUpdate, store, Goto
<1>2. update[c] = "none" /\ goal[c] = "reserve" /\ Owner(c)
      /\ identity[input[c].target] >= input[c].seen
    BY <1>1 DEF IInv, CallsFit, DriftSeen, Inside
<1>3. \A d : Owner(d)' <=> Owner(d)
    BY <1>1 DEF Owner
<1>4. \A d \in Calls : update[d] = "applied" => update'[d] = "applied"
    BY <1>1, <1>2 DEF IInv, TypeOK
<1>5. TypeOK'
    BY <1>1 DEF IInv, TypeOK
<1>6. LedgerIsReadable' /\ LedgerFits' /\ OneOwner' /\ OwnersRecord'
    BY <1>1, <1>3 DEF IInv, LedgerIsReadable, LedgerFits, Holds, OneOwner, OwnersRecord
<1>7. RecordsOwned' /\ AnswersFit'
    BY <1>1, <1>3, <1>4 DEF IInv, RecordsOwned, AnswersFit, Completed
<1>8. WritesFit'
    <2>1. \A w \in writes : Applies(w)' <=> Applies(w)
        BY <1>1 DEF Applies, TargetFree, Full, Holds, Reserved, Finished
    <2>2. \A w \in writes : w.call \in Calls
        BY DEF IInv, TypeOK
    <2> QED
        BY <1>1, <1>3, <1>4, <2>1, <2>2 DEF IInv, WritesFit, Completed
<1>9. CallsFit'
    BY <1>1, <1>2, <1>3 DEF IInv, CallsFit, TypeOK, Inside
<1>10. DriftSeen'
    BY <1>1, <1>2 DEF IInv, DriftSeen, TypeOK
<1> QED
    BY <1>5, <1>6, <1>7, <1>8, <1>9, <1>10 DEF IInv

LEMMA UpdateLandsStep == ASSUME IInv, NEW c \in Calls, UpdateLands(c) PROVE IInv'
<1> DEFINE u == IF Unchanged(c) THEN "applied" ELSE "misplaced"
<1>1. /\ UNCHANGED <<ledger, generation, writes, pc, input, goal, attempt, answer,
                     identity, faults>>
      /\ update' = [update EXCEPT ![c] = u]
      /\ password' = [password EXCEPT ![input[c].target] = c]
      /\ update[c] = "sent"
    BY DEF UpdateLands, store, frames
<1>2. /\ goal[c] \notin {"completed", "aborted"} /\ Owner(c)
      /\ identity[input[c].target] >= input[c].seen
      /\ pc[c] \notin {"idle", "get", "inspect", "recheck", "send", "verify"}
      /\ ~(goal[c] = "reserve" /\ pc[c] \in {"change", "waiting"})
    BY <1>1 DEF IInv, CallsFit, DriftSeen
<1>3. \A d : Owner(d)' <=> Owner(d)
    BY <1>1 DEF Owner
<1>4. \A d \in Calls : update[d] = "applied" => update'[d] = "applied"
    BY <1>1 DEF IInv, TypeOK
<1>5. TypeOK'
    BY <1>1 DEF IInv, TypeOK
<1>6. LedgerIsReadable' /\ LedgerFits' /\ OneOwner' /\ OwnersRecord'
    BY <1>1, <1>3 DEF IInv, LedgerIsReadable, LedgerFits, Holds, OneOwner, OwnersRecord
<1>7. RecordsOwned' /\ AnswersFit'
    BY <1>1, <1>3, <1>4 DEF IInv, RecordsOwned, AnswersFit, Completed
<1>8. WritesFit'
    <2>1. \A w \in writes : Applies(w)' <=> Applies(w)
        BY <1>1 DEF Applies, TargetFree, Full, Holds, Reserved, Finished
    <2>2. \A w \in writes : w.call \in Calls
        BY DEF IInv, TypeOK
    <2> QED
        BY <1>1, <1>3, <1>4, <2>1, <2>2 DEF IInv, WritesFit, Completed
<1>9. CallsFit'
    BY <1>1, <1>2, <1>3 DEF IInv, CallsFit, TypeOK, Inside
<1>10. DriftSeen'
    <2>1. input[c].seen \in Nat /\ input[c].target \in Targets
        BY InputAssumption DEF InputAssumption, IInv, TypeOK
    <2>2. u = "misplaced" => identity[input[c].target] > input[c].seen
        BY <1>2, <2>1 DEF Unchanged, IInv, TypeOK
    <2> HIDE DEF u
    <2> QED
        BY <1>1, <1>2, <2>2 DEF IInv, DriftSeen, TypeOK
<1> QED
    BY <1>5, <1>6, <1>7, <1>8, <1>9, <1>10 DEF IInv

LEMMA DriftStep == ASSUME IInv, NEW t \in Targets, Drift(t) PROVE IInv'
<1>1. /\ UNCHANGED <<ledger, generation, writes, pc, input, goal, attempt, answer,
                     update, password>>
      /\ identity' = [identity EXCEPT ![t] = @ + 1]
      /\ faults' = faults + 1
    BY DEF Drift, Fault, store, frames
<1>2. \A d : Owner(d)' <=> Owner(d)
    BY <1>1 DEF Owner
<1>3. TypeOK'
    BY <1>1 DEF IInv, TypeOK
<1>4. /\ LedgerIsReadable' /\ LedgerFits' /\ OneOwner' /\ OwnersRecord'
      /\ RecordsOwned' /\ AnswersFit' /\ CallsFit'
    BY <1>1, <1>2 DEF IInv, LedgerIsReadable, LedgerFits, Holds, OneOwner, OwnersRecord,
                      RecordsOwned, AnswersFit, Completed, CallsFit
<1>5. WritesFit'
    <2>1. \A w \in writes : Applies(w)' <=> Applies(w)
        BY <1>1 DEF Applies, TargetFree, Full, Holds, Reserved, Finished
    <2> QED
        BY <1>1, <1>2, <2>1 DEF IInv, WritesFit, Completed
<1>6. DriftSeen'
    <2> SUFFICES ASSUME NEW c \in Calls
                 PROVE  /\ pc[c] \in {"send", "updating", "verify"} \/ update[c] # "none" =>
                               identity'[input[c].target] >= input[c].seen
                        /\ update[c] = "misplaced" =>
                               identity'[input[c].target] > input[c].seen
        BY <1>1 DEF DriftSeen
    <2>1. input[c].seen \in Nat /\ input[c].target \in Targets
        BY InputAssumption DEF InputAssumption, IInv, TypeOK
    <2>2. identity'[input[c].target] \in Nat /\ identity[input[c].target] \in Nat
          /\ identity'[input[c].target] >= identity[input[c].target]
        BY <1>1, <2>1 DEF IInv, TypeOK
    <2> QED
        BY <2>1, <2>2 DEF IInv, DriftSeen
<1> QED
    BY <1>3, <1>4, <1>5, <1>6 DEF IInv

LEMMA StutterStep == ASSUME IInv, UNCHANGED vars PROVE IInv'
<1>1. UNCHANGED <<ledger, generation, writes, pc, input, goal, attempt, answer,
                  update, password, identity, faults>>
    BY DEF vars, store, frames, world
<1>2. \A d : Owner(d)' <=> Owner(d)
    BY <1>1 DEF Owner
<1>3. \A w \in writes : Applies(w)' <=> Applies(w)
    BY <1>1 DEF Applies, TargetFree, Full, Holds, Reserved, Finished
<1> QED
    BY <1>1, <1>2, <1>3
    DEF IInv, TypeOK, LedgerIsReadable, LedgerFits, Holds, OneOwner, OwnersRecord,
        RecordsOwned, AnswersFit, Completed, CallsFit, DriftSeen, WritesFit

-----------------------------------------------------------------------------
(* What follows for every behaviour. *)

LEMMA NextStep == IInv /\ [Next]_vars => IInv'
<1> SUFFICES ASSUME IInv, [Next]_vars PROVE IInv'
    OBVIOUS
<1>1. ASSUME NEW c \in Calls, Begin(c) \/ CallStep(c) \/ CallFails(c) \/ Dies(c)
      PROVE  IInv'
    <2>1. CASE Begin(c)
        BY <2>1, BeginStep
    <2>2. CASE Get(c)
        BY <2>2, GetStep
    <2>3. CASE Inspect(c)
        BY <2>3, InspectStep
    <2>4. CASE Reserve(c)
        BY <2>4, ReserveStep
    <2>5. CASE Finish(c)
        BY <2>5, FinishStep
    <2>6. CASE \E w \in writes : StoreAnswers(c, w)
        BY <2>6, StoreAnswersStep
    <2>7. CASE Recheck(c)
        BY <2>7, RecheckStep
    <2>8. CASE SendUpdate(c)
        BY <2>8, SendUpdateStep
    <2>9. CASE UpdateAnswers(c)
        BY <2>9, UpdateAnswersStep
    <2>10. CASE Verify(c)
        BY <2>10, VerifyStep
    <2>11. CASE CallFails(c) \/ Dies(c)
        BY <2>11, FaultStep
    <2> QED
        BY <1>1, <2>1, <2>2, <2>3, <2>4, <2>5, <2>6, <2>7, <2>8, <2>9, <2>10, <2>11
        DEF CallStep
<1>2. CASE Environment
    BY <1>2, StoreReplacesStep, UpdateLandsStep, DriftStep DEF Environment
<1>3. CASE UNCHANGED vars
    BY <1>3, StutterStep
<1> QED
    BY <1>1, <1>2, <1>3 DEF Next

\* The inductive invariant holds in every state of PinReset.
THEOREM Invariance == Spec => []IInv
BY InitHolds, NextStep, PTL DEF Spec

\* Every variable keeps its type.
THEOREM TypeCorrect == Spec => []TypeOK
<1>1. IInv => TypeOK
    BY DEF IInv
<1> QED
    BY <1>1, Invariance, PTL

\* The service never writes a ledger that its own validation would refuse.
THEOREM LedgerStaysReadable == Spec => []LedgerIsAccepted
<1>1. IInv => LedgerIsAccepted
    BY DEF IInv, LedgerIsAccepted
<1> QED
    BY <1>1, Invariance, PTL

\* However calls overlap, fail and are repeated, a request sends one update.
THEOREM OneUpdate == Spec => []MutatesOnce
<1>1. IInv => MutatesOnce
    BY DEF IInv, CallsFit, OneOwner, MutatesOnce
<1> QED
    BY <1>1, Invariance, PTL

LEMMA LateUpdateHolds ==
    ASSUME IInv, NEW c \in Calls, update[c] = "sent"
    PROVE  Holds(ledger, input[c].id) /\ ledger[input[c].id].target = input[c].target
<1> DEFINE i == input[c].id
<1>1. i \in Ids
    BY InputAssumption DEF InputAssumption, IInv, TypeOK
<1>2. Owner(c)
    BY DEF IInv, CallsFit
<1>3. ledger[i] # None /\ ledger[i].target = input[c].target
    BY <1>2 DEF IInv, OwnersRecord
<1>4. ledger[i].status \in Statuses
    BY <1>1, <1>3 DEF IInv, TypeOK, Ledgers, Records
<1>5. /\ ledger[i].status = "aborted" => goal[c] = "aborted"
      /\ ledger[i].status = "completed" => update[c] = "applied"
    BY <1>1, <1>2, <1>3 DEF IInv, RecordsOwned, OneOwner
<1>6. goal[c] = "aborted" => update[c] = "none"
    BY DEF IInv, CallsFit
<1> QED
    BY <1>3, <1>4, <1>5, <1>6 DEF Holds, Statuses

\* While an update may still land, its request holds the target.
THEOREM LateUpdatesAreLocked == Spec => []NoLateUpdate
<1>1. IInv => NoLateUpdate
    BY LateUpdateHolds DEF NoLateUpdate
<1> QED
    BY <1>1, Invariance, PTL

\* A caller who is told "completed" has a completed record, and a completed
\* record an update that found the inspected identity; a caller who is told
\* "aborted" knows that no call of the request sent an update, and that none will.
THEOREM AnswersStayTrue == Spec => []AnswersHold
<1>1. IInv => CompletedIsDurable
    BY DEF IInv, AnswersFit, Completed, CompletedIsDurable
<1>2. IInv => CompletedWasConfirmed
    BY DEF IInv, RecordsOwned, CompletedWasConfirmed
<1>3. ASSUME IInv, NEW c \in Calls, NEW d \in Calls,
             answer[c] = "aborted", input[d].id = input[c].id, update[d] # "none"
      PROVE  FALSE
    <2>1. PICK o \in Calls : Owner(o) /\ input[o].id = input[c].id /\ goal[o] = "aborted"
        BY <1>3 DEF IInv, AnswersFit
    <2>2. Owner(d)
        BY <1>3 DEF IInv, CallsFit
    <2>3. o = d
        BY <1>3, <2>1, <2>2 DEF IInv, OneOwner
    <2> QED
        BY <1>3, <2>1, <2>3 DEF IInv, CallsFit
<1>4. IInv => AbortedSentNothing
    BY <1>3 DEF AbortedSentNothing
<1>5. IInv => AnswersHold
    BY <1>1, <1>2, <1>4 DEF AnswersHold
<1> QED
    BY <1>5, Invariance, PTL

\* No record disappears and no ended one changes.
THEOREM EndsAreFinal == Spec => RecordsAreFinal
<1> DEFINE Kept == \A i \in Ids : ledger[i] # None =>
                      /\ ledger'[i] # None
                      /\ ledger[i].status # "pending" => ledger'[i] = ledger[i]
<1>1. ASSUME IInv, [Next]_vars PROVE Kept
    <2>1. CASE ledger' = ledger
        BY <2>1
    <2>2. CASE \E w \in writes : StoreReplaces(w) /\ ledger' # ledger
        <3>1. PICK w \in writes : StoreReplaces(w) /\ ledger' # ledger
            BY <2>2
        <3>2. w.result = "sent" /\ Current(w) /\ ledger' = w.ledger
            BY <3>1 DEF StoreReplaces, store
        <3>3. LedgerStep
            BY <1>1, <3>2, ReplaceEffect
        <3> QED
            BY <3>3 DEF LedgerStep
    <2>3. ledger' = ledger \/ \E w \in writes : StoreReplaces(w)
        BY <1>1 DEF Next, Environment, CallStep, Begin, Get, Inspect, Reserve, Finish,
                    StoreAnswers, Recheck, SendUpdate, UpdateAnswers, Verify, CallFails,
                    Dies, UpdateLands, Drift, store, vars
    <2> QED
        BY <2>1, <2>2, <2>3
<1>2. IInv /\ [Next]_vars => [Kept]_vars
    BY <1>1
<1> QED
    BY <1>2, Invariance, PTL DEF Spec, RecordsAreFinal

-----------------------------------------------------------------------------
(* The implementation of ResetRequests.  The record of a call that has decided *)
(* on no end is pending, because ends are written by the owner alone.          *)

Early ==
    /\ \A w \in writes : w.goal # "reserve" => goal[w.call] # "reserve"
    /\ \A c \in Calls : Owner(c) /\ goal[c] = "reserve" =>
           ledger[input[c].id].status = "pending"

LEMMA InputStays == ASSUME [Next]_vars PROVE input' = input
<1>1. \A c : Throw(c) => input' = input
    BY DEF Throw, End, Settle
<1>2. CASE Environment
    BY <1>2 DEF Environment, StoreReplaces, UpdateLands, Drift, frames
<1>3. ASSUME NEW c \in Calls, Begin(c) \/ CallStep(c) \/ CallFails(c) \/ Dies(c)
      PROVE  input' = input
    <2>1. CASE Begin(c) \/ Get(c) \/ Inspect(c) \/ CallFails(c) \/ Dies(c)
        BY <1>1, <2>1 DEF Begin, Get, Inspect, CallFails, Dies, End
    <2>2. CASE Reserve(c) \/ Finish(c)
        BY <1>1, <2>2 DEF Reserve, Finish, End, Send
    <2>3. CASE Recheck(c) \/ SendUpdate(c) \/ UpdateAnswers(c) \/ Verify(c)
        BY <1>1, <2>3 DEF Recheck, SendUpdate, UpdateAnswers, Verify, Settle
    <2>4. CASE \E w \in writes : StoreAnswers(c, w)
        BY <1>1, <2>4 DEF StoreAnswers, Saved, Stale, End
    <2> QED
        BY <1>3, <2>1, <2>2, <2>3, <2>4 DEF CallStep
<1> QED
    BY <1>2, <1>3 DEF Next, vars, frames

\* No call that ends its request goes back to reserving it.
LEMMA GoalsGoOn ==
    ASSUME IInv, [Next]_vars, NEW c \in Calls, goal[c] # "reserve"
    PROVE  goal'[c] # "reserve"
<1>1. goal \in [Calls -> Goals]
    BY DEF IInv, TypeOK
<1>2. \A d : Settle(d, "completed") => goal'[c] # "reserve"
    BY <1>1 DEF Settle
<1>3. \A d : End(d, answer'[d]) \/ goal' = goal => goal'[c] # "reserve"
    BY DEF End
<1>4. \A d : Throw(d) => goal'[c] # "reserve"
    BY <1>1 DEF Throw, Settle, End
<1>5. CASE Environment
    BY <1>3, <1>5 DEF Environment, StoreReplaces, UpdateLands, Drift, frames
<1>6. ASSUME NEW d \in Calls, Begin(d) \/ CallStep(d) \/ CallFails(d) \/ Dies(d)
      PROVE  goal'[c] # "reserve"
    <2>1. CASE Begin(d) \/ Get(d) \/ Inspect(d) \/ CallFails(d) \/ Dies(d)
        BY <1>4, <2>1 DEF Begin, Get, Inspect, CallFails, Dies, End
    <2>2. CASE Reserve(d) \/ Finish(d)
        BY <1>4, <2>2 DEF Reserve, Finish, End, Send
    <2>3. CASE Recheck(d) \/ SendUpdate(d) \/ UpdateAnswers(d) \/ Verify(d)
        BY <1>2, <1>4, <2>3 DEF Recheck, SendUpdate, UpdateAnswers, Verify
    <2>4. CASE \E w \in writes : StoreAnswers(d, w)
        BY <1>4, <2>4 DEF StoreAnswers, Saved, Stale, End
    <2> QED
        BY <1>6, <2>1, <2>2, <2>3, <2>4 DEF CallStep
<1> QED
    BY <1>5, <1>6 DEF Next, vars, frames

\* Every replacement was sent for what its call was after, then or now.
LEMMA WritesGoOn ==
    ASSUME IInv, [Next]_vars
    PROVE  \/ \E w \in writes : StoreReplaces(w)
           \/ /\ ledger' = ledger
              /\ \A v \in writes' : \/ v \in writes
                                    \/ v.result = "sent" /\ v.goal = goal[v.call]
<1>1. ASSUME NEW c \in Calls, Begin(c) \/ CallStep(c) \/ CallFails(c) \/ Dies(c)
      PROVE  /\ ledger' = ledger
             /\ \A v \in writes' : v \in writes \/ (v.result = "sent" /\ v.goal = goal[v.call])
    <2>1. \A L : Send(c, L) =>
              \A v \in writes' : v \in writes \/ (v.result = "sent" /\ v.goal = goal[v.call])
        BY DEF Send
    <2>2. CASE Begin(c) \/ Get(c) \/ Inspect(c) \/ CallFails(c) \/ Dies(c)
        BY <2>2 DEF Begin, Get, Inspect, CallFails, Dies, store
    <2>3. CASE Reserve(c) \/ Finish(c)
        BY <2>1, <2>3 DEF Reserve, Finish, store
    <2>4. CASE Recheck(c) \/ SendUpdate(c) \/ UpdateAnswers(c) \/ Verify(c)
        BY <2>4 DEF Recheck, SendUpdate, UpdateAnswers, Verify, store
    <2>5. CASE \E w \in writes : StoreAnswers(c, w)
        BY <2>5 DEF StoreAnswers, store
    <2> QED
        BY <1>1, <2>2, <2>3, <2>4, <2>5 DEF CallStep
<1>2. CASE Environment
    BY <1>2 DEF Environment, UpdateLands, Drift, store
<1>3. CASE UNCHANGED vars
    BY <1>3 DEF vars, store
<1> QED
    BY <1>1, <1>2, <1>3 DEF Next

LEMMA EarlyStep == IInv /\ Early /\ [Next]_vars => Early'
<1> SUFFICES ASSUME IInv, Early, [Next]_vars PROVE Early'
    OBVIOUS
<1>1. input' = input
    BY InputStays
<1>2. \A w \in writes : w.call \in Calls
    BY DEF IInv, TypeOK
<1>3. CASE /\ ledger' = ledger
           /\ \A v \in writes' : v \in writes \/ (v.result = "sent" /\ v.goal = goal[v.call])
    <2>1. \A c : Owner(c)' => Owner(c)
        BY <1>3 DEF Owner
    <2>2. \A v \in writes' : v.call \in Calls
        BY NextStep DEF IInv, TypeOK
    <2>3. \A v \in writes' : v.goal # "reserve" => goal'[v.call] # "reserve"
        BY <1>3, <2>2, GoalsGoOn DEF Early
    <2>4. \A c \in Calls : goal'[c] = "reserve" => goal[c] = "reserve"
        BY GoalsGoOn
    <2> QED
        BY <1>1, <1>3, <2>1, <2>3, <2>4 DEF Early
<1>4. ASSUME NEW w \in writes, StoreReplaces(w)
      PROVE  Early'
    <2> DEFINE done == [w EXCEPT !.result = IF Current(w) THEN "saved" ELSE "stale"]
    <2>1. /\ goal' = goal /\ w.result = "sent"
          /\ writes' = (writes \ {w}) \cup {done}
        BY <1>4 DEF StoreReplaces, frames
    <2>2. done.call = w.call /\ done.goal = w.goal
          /\ done.result = IF Current(w) THEN "saved" ELSE "stale"
        BY DEF IInv, TypeOK
    <2> HIDE DEF done
    <2>3. \A v \in writes' : v.goal # "reserve" => goal'[v.call] # "reserve"
        BY <2>1, <2>2 DEF Early
    <2>4. ASSUME NEW c \in Calls, Owner(c)', goal'[c] = "reserve"
          PROVE  ledger'[input'[c].id].status = "pending"
        <3>1. Owner(c) \/ (c = w.call /\ w.goal = "reserve" /\ Current(w))
            BY <2>1, <2>2, <2>4 DEF Owner
        <3>2. CASE ~Current(w)
            BY <1>1, <1>4, <2>1, <2>4, <3>1, <3>2 DEF StoreReplaces, store, Early
        <3>3. CASE Current(w)
            <4>1. ledger' = w.ledger
                BY <1>4, <3>3 DEF StoreReplaces
            <4>2. /\ \A j \in Ids \ {input[w.call].id} : ledger'[j] = ledger[j]
                  /\ w.goal = "reserve" => ledger'[input[w.call].id].status = "pending"
                BY <2>1, <3>3, <4>1, ReplaceEffect
            <4>3. input[c].id \in Ids
                BY InputAssumption DEF InputAssumption, IInv, TypeOK
            <4>4. w.goal # "reserve" => Owner(w.call) /\ goal[w.call] # "reserve"
                BY DEF IInv, WritesFit, Early
            <4>5. CASE input[c].id # input[w.call].id
                BY <1>1, <2>1, <2>4, <3>1, <4>2, <4>3, <4>5 DEF Early
            <4>6. CASE input[c].id = input[w.call].id /\ w.goal = "reserve"
                BY <1>1, <4>2, <4>6
            <4>7. CASE input[c].id = input[w.call].id /\ w.goal # "reserve"
                <5>1. c = w.call
                    BY <1>2, <3>1, <4>4, <4>7 DEF IInv, OneOwner
                <5> QED
                    BY <2>1, <2>4, <4>4, <4>7, <5>1
            <4> QED
                BY <4>5, <4>6, <4>7
        <3> QED
            BY <3>2, <3>3
    <2> QED
        BY <2>3, <2>4 DEF Early
<1> QED
    BY <1>3, <1>4, WritesGoOn

LEMMA EarlyInvariance == Spec => []Early
<1>1. Init => Early
    BY DEF Init, Early, Owner
<1> QED
    BY <1>1, EarlyStep, Invariance, PTL DEF Spec

-----------------------------------------------------------------------------
(* Each step of a call or the store is a step of its request, or none. *)

LEMMA UnseenStep ==
    ASSUME ledger' = ledger, input' = input, update' = update
    PROVE  UNCHANGED Request!requestVars
BY DEF Request!requestVars

LEMMA SameCardinality == \A S : Request!Cardinality(S) = Cardinality(S)
BY DEF Cardinality, Request!Cardinality

LEMMA ReplaceImplements ==
    ASSUME IInv, NEW w \in writes, StoreReplaces(w)
    PROVE  [Request!Next]_(Request!requestVars)
<1> DEFINE c == w.call
           i == input[c].id
<1>1. input' = input /\ update' = update /\ w.result = "sent"
    BY DEF StoreReplaces, frames, world
<1>2. c \in Calls /\ input[c] \in Inputs /\ i \in Ids /\ ledger \in Ledgers
    BY InputAssumption DEF InputAssumption, IInv, TypeOK
<1>3. CASE ~Current(w)
    BY <1>1, <1>3, UnseenStep DEF StoreReplaces, store
<1>4. CASE Current(w) /\ w.goal = "reserve"
    <2>1. Applies(w) /\ ledger' = w.ledger
        BY <1>1, <1>4 DEF Current, IInv, WritesFit, StoreReplaces
    <2>2. /\ ledger[i] = None /\ TargetFree(ledger, input[c].target) /\ ~Full(ledger)
          /\ ledger' = [ledger EXCEPT ![i] = RecordOf(input[c])]
        BY <1>4, <2>1 DEF Applies, Reserved
    <2>3. ~\E j \in Ids : Request!Locks(j, input[c].target)
        BY <2>2 DEF TargetFree, Holds, Request!Locks
    <2>4. Cardinality({j \in Ids : ledger[j] # None}) < Capacity
        <3>1. Cardinality({j \in Ids : ledger[j] # None}) \in Nat
            BY IdsAssumption, FS_Subset, FS_CardinalityType DEF IdsAssumption
        <3> QED
            BY <2>2, <3>1, BoundAssumption DEF Full, BoundAssumption
    <2>5. Request!Reserve(input[c])
        <3>1. ledger' = [ledger EXCEPT ![i] = [target |-> input[c].target, pin |-> input[c].pin,
                                               seen |-> input[c].seen, status |-> "pending"]]
            BY <2>2 DEF RecordOf
        <3>2. {[id |-> input[d].id, outcome |-> update[d]] : d \in {e \in Calls : update[e] # "none"}}'
              = {[id |-> input[d].id, outcome |-> update[d]] : d \in {e \in Calls : update[e] # "none"}}
            BY <1>1
        <3>3. PICK in : in = input[c]
            OBVIOUS
        <3>4. Request!Reserve(in)
            BY <2>2, <2>3, <2>4, <3>1, <3>2, <3>3, SameCardinality DEF Request!Reserve
        <3> QED
            BY <3>3, <3>4
    <2> QED
        BY <1>2, <2>5 DEF Request!Next
<1>5. CASE Current(w) /\ w.goal # "reserve"
    <2>1. Applies(w) /\ ledger' = w.ledger
        BY <1>1, <1>5 DEF Current, IInv, WritesFit, StoreReplaces
    <2>2. ledger[i] # None /\ ledger[i].status = "pending"
          /\ ledger' = Finished(ledger, i, w.goal)
        BY <1>5, <2>1 DEF Applies
    <2>3. ledger[i] \in Records
        BY <1>2, <2>2 DEF Ledgers
    <2>4. ledger' = [ledger EXCEPT ![i].status = w.goal]
        BY <2>2, <2>3 DEF Finished, Records
    <2>5. w.goal \in {"completed", "ambiguous", "aborted"}
        BY <1>5 DEF IInv, TypeOK, Goals
    <2>6. /\ Owner(c)
          /\ w.goal = "completed" => update[c] = "applied"
          /\ w.goal = "aborted" => update[c] = "none"
        BY <1>2, <1>5 DEF IInv, WritesFit, CallsFit
    <2>7. \A d \in Calls : update[d] # "none" /\ input[d].id = i => d = c
        BY <1>2, <2>6 DEF IInv, CallsFit, OneOwner
    <2>8. Request!Ends(i, w.goal)
        BY <1>1, <1>2, <2>2, <2>4, <2>6, <2>7 DEF Request!Ends, Request!Pending, Request!Changed
    <2> QED
        BY <1>2, <2>5, <2>8 DEF Request!Next
<1> QED
    BY <1>3, <1>4, <1>5

LEMMA SendImplements ==
    ASSUME IInv, Early, NEW c \in Calls, SendUpdate(c)
    PROVE  Request!Next
<1> DEFINE i == input[c].id
<1>1. /\ pc[c] = "send" /\ ledger' = ledger /\ input' = input
      /\ update' = [update EXCEPT ![c] = "sent"]
    BY DEF SendUpdate, store
<1>2. Owner(c) /\ goal[c] = "reserve" /\ update[c] = "none"
    BY <1>1 DEF IInv, CallsFit, Inside
<1>3. ledger[i] # None /\ ledger[i].status = "pending" /\ i \in Ids
    BY <1>2, InputAssumption DEF InputAssumption, IInv, TypeOK, OwnersRecord, Early
<1>4. \A d \in Calls : input[d].id = i => update[d] = "none"
    BY <1>2 DEF IInv, CallsFit, OneOwner
<1>5. \A d \in Calls : update'[d] = IF d = c THEN "sent" ELSE update[d]
    BY <1>1 DEF IInv, TypeOK
<1>6. Request!Pending(i) /\ ~Request!Changed(i)
    BY <1>3, <1>4 DEF Request!Pending, Request!Changed
<1>7. {[id |-> input[d].id, outcome |-> update[d]] : d \in {e \in Calls : update[e] # "none"}}'
      = {[id |-> input[d].id, outcome |-> update[d]] : d \in {e \in Calls : update[e] # "none"}}
          \cup {[id |-> i, outcome |-> "sent"]}
    <2>1. \A d \in Calls : update'[d] # "none" <=> update[d] # "none" \/ d = c
        BY <1>5
    <2>2. \A d \in Calls : d # c => update'[d] = update[d]
        BY <1>5
    <2>3. update'[c] = "sent"
        BY <1>5
    <2> QED
        BY <1>1, <1>2, <2>1, <2>2, <2>3
<1>8. PICK j \in Ids : j = i
    BY <1>3
<1>9. Request!ChangeStarts(j)
    BY <1>1, <1>6, <1>7, <1>8 DEF Request!ChangeStarts
<1> QED
    BY <1>9 DEF Request!Next

LEMMA LandImplements ==
    ASSUME IInv, NEW c \in Calls, UpdateLands(c)
    PROVE  Request!Next
<1> DEFINE i == input[c].id
<1>1. PICK o \in {"applied", "misplaced"} : update' = [update EXCEPT ![c] = o]
    BY DEF UpdateLands
<1>2. update[c] = "sent" /\ ledger' = ledger /\ input' = input
    BY DEF UpdateLands, store, frames
<1>3. i \in Ids /\ Holds(ledger, i)
    BY <1>2, LateUpdateHolds, InputAssumption DEF InputAssumption, IInv, TypeOK
<1>4. \A d \in Calls : input[d].id = i /\ update[d] # "none" => d = c
    BY <1>2 DEF IInv, CallsFit, OneOwner
<1>5. \A d \in Calls : update'[d] = IF d = c THEN o ELSE update[d]
    BY <1>1 DEF IInv, TypeOK
<1>6. Request!ChangeLands(i, o)
    BY <1>1, <1>2, <1>3, <1>4, <1>5 DEF Request!ChangeLands, Request!Locks, Holds
<1> QED
    BY <1>1, <1>3, <1>6 DEF Request!Next

LEMMA StepImplements ==
    ASSUME IInv, Early, [Next]_vars
    PROVE  [Request!Next]_(Request!requestVars)
<1>1. input' = input
    BY InputStays
<1>2. ASSUME NEW c \in Calls, Begin(c) \/ CallStep(c) \/ CallFails(c) \/ Dies(c)
      PROVE  [Request!Next]_(Request!requestVars)
    <2>1. CASE Begin(c) \/ Get(c) \/ Inspect(c) \/ CallFails(c) \/ Dies(c)
        BY <1>1, <2>1, UnseenStep DEF Begin, Get, Inspect, CallFails, Dies, store, world
    <2>2. CASE Reserve(c) \/ Finish(c)
        BY <1>1, <2>2, UnseenStep DEF Reserve, Finish, store, world
    <2>3. CASE Recheck(c) \/ UpdateAnswers(c) \/ Verify(c)
        BY <1>1, <2>3, UnseenStep DEF Recheck, UpdateAnswers, Verify, store, world
    <2>4. CASE \E w \in writes : StoreAnswers(c, w)
        BY <1>1, <2>4, UnseenStep DEF StoreAnswers, store, world
    <2>5. CASE SendUpdate(c)
        BY <2>5, SendImplements
    <2> QED
        BY <1>2, <2>1, <2>2, <2>3, <2>4, <2>5 DEF CallStep
<1>3. CASE Environment
    <2>1. CASE \E t \in Targets : Drift(t)
        BY <1>1, <2>1, UnseenStep DEF Drift, store
    <2> QED
        BY <1>3, <2>1, ReplaceImplements, LandImplements DEF Environment
<1>4. CASE UNCHANGED vars
    BY <1>4, UnseenStep DEF vars, store, frames, world
<1> QED
    BY <1>2, <1>3, <1>4 DEF Next

\* The calls, their retries and late writes on one object implement requests whose
\* records change by single steps.
THEOREM Implementation == Spec => RequestSpec
<1>1. Init => Request!Init
    BY DEF Init, Request!Init
<1>2. IInv /\ Early /\ [Next]_vars => [Request!Next]_(Request!requestVars)
    BY StepImplements
<1> QED
    BY <1>1, <1>2, Invariance, EarlyInvariance, PTL DEF Spec, RequestSpec, Request!Spec
=============================================================================
