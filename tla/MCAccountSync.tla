--------------------------- MODULE MCAccountSync ---------------------------
(***************************************************************************)
(* Small instances of AccountSync: an existing entity of one or two fields,*)
(* device A with one or two sessions and device B with one, and as many    *)
(* edits as there are operation ids.                                       *)
(***************************************************************************)
EXTENDS AccountSync, TLC

CONSTANTS f, g, u, v, w, A, B, a1, a2, b1

SessionDevice == [s \in Sessions |-> IF s = b1 THEN B ELSE A]

\* The record as it was created with every field at u.
Created ==
  [ generation |-> 1, revision |-> 1, deleted |-> FALSE,
    values         |-> [x \in Fields |-> u],
    fieldRevisions |-> [x \in Fields |-> 1],
    fieldMutations |-> [x \in Fields |-> NoOp],
    lifecycle      |-> NoOp ]

NoPatch == [x \in Fields |-> NoValue]

AllPatches == [Fields -> Values \cup {NoValue}]

\* Edits of the first field: any kind of edit, and no deletion or re-add.
OneFieldPatches == {[NoPatch EXCEPT ![f] = y] : y \in {u, v, NoValue}}
FieldPatches    == {[NoPatch EXCEPT ![f] = y] : y \in {u, v}}

\* Edits of the first field, and of all of them with another value.
WidePatches == {[NoPatch EXCEPT ![f] = v], [x \in Fields |-> w]}

\* The scenes: the runtimes there are, how many tabs a device runs at once, what
\* users write and how often, and how many faults happen.
Scene(S, n, P, k, m) ==
  [sessions |-> S, tabs |-> n, patches |-> P, edits |-> k, faults |-> m]

\* Two devices; a session replaced by another; two tabs; and three edits of two
\* fields.  Either of a1 and a2 may meet b1, so that the scenes are symmetric.
SafetyScenes ==
  UNION {{Scene({s, b1}, 1, OneFieldPatches, 2, 1),
          Scene({s, b1}, 1, WidePatches, 3, 0)} : s \in {a1, a2}} \cup
  {Scene({a1, a2}, 1, OneFieldPatches, 2, 2),
   Scene({a1, a2}, 2, FieldPatches, 2, 0), Scene({a1, a2}, 2, FieldPatches, 1, 1)}

\* Two devices without a fault, and one device with one.
TwoDevices == {Scene({a1, b1}, 1, FieldPatches, Cardinality(OpIds), 0)}
OneDevice  == {Scene({a1}, 1, OneFieldPatches, 2, 1)}
LiveScenes == {Scene({a1, b1}, 1, OneFieldPatches, 2, 0)} \cup OneDevice

\* The operations that may come to be issued, for the refinement check: each
\* issued operation moves the versions on by one at most.
Versions == 1..Cardinality(OpIds)

MCRequests ==
  {o \in [ id : OpIds, kind : Kinds, baseGeneration : Versions,
           generation : Versions \cup {Cardinality(OpIds) + 1}, fields : SUBSET Fields,
           values : AllPatches, baseRevisions : [Fields -> {0} \cup Versions],
           expected : {0} ] :
     /\ WellFormed(o)
     /\ \A x \in Fields : o.baseRevisions[x] = 0 <=> x \notin o.fields}

Symmetry == Permutations(OpIds) \cup Permutations(Sessions \cap {a1, a2})
=============================================================================
