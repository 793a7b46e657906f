---------------------------- MODULE ResetRequests ----------------------------
(***************************************************************************)
(* What the PIN reset promises: requests whose records change by single    *)
(* steps.  A request is reserved, changes the password at most once and    *)
(* only while it is pending, and ends; while its change may still land it  *)
(* holds its target.  PinReset implements this with one object that is     *)
(* replaced as a whole, by calls that overlap, fail and die.               *)
(***************************************************************************)
EXTENDS Naturals, FiniteSets

CONSTANTS
    Ids, Inputs,     \* request ids, and what a call may ask for one
    None, Capacity

VARIABLES
    records,    \* of each request: its record, or None
    changes     \* the changes of passwords: of which request, and what became of each

requestVars == <<records, changes>>

Locks(i, t) == /\ records[i] # None /\ records[i].status \in {"pending", "ambiguous"}
               /\ records[i].target = t

Pending(i) == records[i] # None /\ records[i].status = "pending"

Changed(i) == \E x \in changes : x.id = i

Init ==
    /\ records = [i \in Ids |-> None]
    /\ changes = {}

Reserve(in) ==
    /\ records[in.id] = None
    /\ ~\E i \in Ids : Locks(i, in.target)
    /\ Cardinality({i \in Ids : records[i] # None}) < Capacity
    /\ records' = [records EXCEPT ![in.id] = [target |-> in.target, pin |-> in.pin,
                                              seen |-> in.seen, status |-> "pending"]]
    /\ UNCHANGED changes

ChangeStarts(i) ==
    /\ Pending(i) /\ ~Changed(i)
    /\ changes' = changes \cup {[id |-> i, outcome |-> "sent"]}
    /\ UNCHANGED records

\* A change lands late only on a target that nobody else may reset.
ChangeLands(i, outcome) ==
    /\ [id |-> i, outcome |-> "sent"] \in changes
    /\ Locks(i, records[i].target)
    /\ changes' = (changes \ {[id |-> i, outcome |-> "sent"]})
                    \cup {[id |-> i, outcome |-> outcome]}
    /\ UNCHANGED records

\* "completed" is said of a change that is in place, "aborted" of none.
Ends(i, status) ==
    /\ Pending(i)
    /\ status = "completed" => [id |-> i, outcome |-> "applied"] \in changes
    /\ status = "aborted" => ~Changed(i)
    /\ records' = [records EXCEPT ![i].status = status]
    /\ UNCHANGED changes

Next ==
    \/ \E in \in Inputs : Reserve(in)
    \/ \E i \in Ids :
         \/ ChangeStarts(i)
         \/ \E outcome \in {"applied", "misplaced"} : ChangeLands(i, outcome)
         \/ \E status \in {"completed", "ambiguous", "aborted"} : Ends(i, status)

Spec == Init /\ [][Next]_requestVars
=============================================================================
