----------------------------- MODULE MCPinReset -----------------------------
(* Small instances of PinReset. *)
EXTENDS PinReset, TLC

CONSTANTS c1, c2, c3, r1, r2, r3, t1, t2, p1, p2

Ask(i, t, p) == [id |-> i, target |-> t, pin |-> p, seen |-> 0]

\* Calls differ only by their name.
SameCalls == Permutations(Calls)

\* A request called again or asked about, another request for its target, and
\* a third for another target, which the ledger has no room for.
ThreeRequests ==
    {Ask(r1, t1, p1), Ask(r1, t1, NoPin), Ask(r2, t1, p2), Ask(r3, t2, p1)}

\* Two targets, and a request id that was used for both.
TwoTargets == {Ask(r1, t1, p1), Ask(r1, t2, p1), Ask(r2, t2, p2)}
=============================================================================
