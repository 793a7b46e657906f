----------------------------- MODULE SyncJournal -----------------------------
(***************************************************************************)
(* The operations store of one device: the retained edits of its user, in  *)
(* the order of their creation, and what the controller makes of each.     *)
(*                                                                         *)
(* Source: js/data/accountSyncJournal.js, and the retry categories of      *)
(* js/domain/accountSyncModel.js.  A record is never removed.  Clock       *)
(* values are reduced to whether an attempt is due; the error codes to the *)
(* causes the retry rules tell apart.                                      *)
(***************************************************************************)
EXTENDS AccountEntity, Sequences, FiniteSetsExt, SequencesExt

CONSTANT MaxAttempts    \* maxAutomaticAttempts

ASSUME AttemptAssumption == MaxAttempts \in Nat \ {0}

Statuses == {"pending", "blocked", "acknowledged", "conflict", "resolved"}

\* network: the call failed or its answer was lost; denied: the rules refused
\* it; unproven: the stored record does not show that it was applied.
Causes == {"none", "network", "denied", "unproven"}

\* lost: the fields of the recorded conflict.  basis is history: the version
\* the author had accepted when the operation was prepared.
Record ==
  [ op : Operation, status : Statuses, attempts : Nat, due : BOOLEAN,
    cause : Causes, lost : SUBSET Fields, basis : Nat ]

Queued(o, basis) ==
  [ op |-> o, status |-> "pending", attempts |-> 0, due |-> TRUE,
    cause |-> "none", lost |-> {}, basis |-> basis ]

OpsIn(journal) == {r.op : r \in ToSet(journal)}

\* enqueueOperations: an operation already retained is left alone.
Enqueued(journal, o, basis) ==
  IF o \in OpsIn(journal) THEN journal ELSE Append(journal, Queued(o, basis))

Due(journal) ==
  {i \in DOMAIN journal : journal[i].status = "pending" /\ journal[i].due}

\* nextOperation: the oldest of those that are due, 0 when none is.  One that
\* waits out its backoff is passed over.
NextOperation(journal) == IF Due(journal) = {} THEN 0 ELSE Min(Due(journal))

Retryable(cause) == cause # "denied"

\* Mutant of Attempted: the record is put back as still being sent.
AttemptedSending(r, cause) == [r EXCEPT !.attempts = r.attempts + 1, !.status = "sending"]

\* markAttempt
Attempted(r, cause) ==
  LET blocked == ~Retryable(cause) \/ r.attempts + 1 >= MaxAttempts IN
  [r EXCEPT !.attempts = r.attempts + 1, !.cause = cause, !.due = blocked,
            !.status = IF blocked THEN "blocked" ELSE "pending"]

\* retainBlocked
RetainedBlocked(r, cause) == [r EXCEPT !.attempts = r.attempts + 1, !.cause = cause]

\* acknowledge
Acknowledged(r) == [r EXCEPT !.status = "acknowledged", !.due = FALSE, !.cause = "none"]

\* markConflict
Conflicted(r, lost) ==
  [r EXCEPT !.status = "conflict", !.due = FALSE, !.cause = "none", !.lost = lost]

\* resolveConflict
Resolved(r) ==
  IF r.status = "conflict" THEN [r EXCEPT !.status = "resolved", !.due = FALSE] ELSE r

\* blockedRetryEligible
RetryEligible(r) == r.status = "blocked" /\ r.cause # "unproven"

\* overlayPending: what the device shows over an accepted record.
Overlaid(e, r) ==
  IF r.status \in {"pending", "blocked", "conflict"} /\ Accepts(e, r.op) THEN Merged(e, r.op) ELSE e

Overlay(e, journal) ==
  LET shown[n \in 0..Len(journal)] == IF n = 0 THEN e ELSE Overlaid(shown[n - 1], journal[n])
  IN  shown[Len(journal)]
=============================================================================
