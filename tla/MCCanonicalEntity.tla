------------------------- MODULE MCCanonicalEntity -------------------------
(***************************************************************************)
(* A small instance of CanonicalEntity: an entity of two fields, and       *)
(* operations prepared on any of its first versions, among them stale      *)
(* ones, ones prepared on edits not yet accepted, and ones of a later life.*)
(***************************************************************************)
EXTENDS CanonicalEntity, TLC

CONSTANTS f, g, u, v

MCFields == {f, g}
MCValues == {u, v}

Shape(kind, base, patch, revisions, expected) ==
  [ kind |-> kind, baseGeneration |-> base,
    generation |-> IF kind = "patch" THEN base ELSE base + 1,
    fields |-> {x \in MCFields : patch[x] # NoValue}, values |-> patch,
    baseRevisions |-> revisions, expected |-> expected ]

Two(x, y) == (f :> x) @@ (g :> y)

Adds    == {Shape("add", b, Two(u, x), Two(0, 0), 0) : b \in {0, 2}, x \in {u, NoValue}}
Deletes == {Shape("delete", 1, Two(NoValue, NoValue), Two(0, 0), n) : n \in {0, 2}}
Patches ==
  {Shape("patch", 1, Two(x, NoValue), Two(r, 0), 0) : x \in {u, v}, r \in {1, 2}}
  \cup {Shape("patch", 1, Two(v, v), Two(r, s), 0) : r \in {1, 2}, s \in {0, 1}}
  \cup {Shape("patch", 3, Two(v, NoValue), Two(1, 0), 0)}

MCRequests ==
  {[id |-> o, kind |-> s.kind, baseGeneration |-> s.baseGeneration,
    generation |-> s.generation, fields |-> s.fields, values |-> s.values,
    baseRevisions |-> s.baseRevisions, expected |-> s.expected] :
     o \in OpIds, s \in Adds \cup Deletes \cup Patches}

Symmetry == Permutations(OpIds)
=============================================================================
