---------------------------- MODULE MCMigration ----------------------------
(***************************************************************************)
(* Small instances of Migration: two devices of an account, and one or two *)
(* entities that they know something of.                                   *)
(***************************************************************************)
EXTENDS Migration

CONSTANTS D, E, pokemon, seat, friend     \* devices; an entity of each kind

High   == [priority |-> "H", sortOrder |-> "unknown"]
Middle == [priority |-> "M", sortOrder |-> "first"]

HighFirst == [priority |-> "H", sortOrder |-> "first"]

Nothing == [i \in Items |-> NoRow]
With(i, row) == [Nothing EXCEPT ![i] = row]

Knows(local, queued, board) == [local |-> local, queued |-> queued, board |-> board]
Case(remote, d, e) == [remote |-> remote, of |-> [m \in Movers |-> IF m = D THEN d ELSE e]]

Blank == Knows(Nothing, Nothing, FALSE)

\* An entity of the lists: known to the account and to a device otherwise; to neither
\* otherwise or alike; with an edit, a deletion or just an order queued.
ListCases ==
  {Case(With(pokemon, High), Knows(With(pokemon, Middle), Nothing, FALSE), Blank)} \cup
  {Case(Nothing, Knows(With(pokemon, Middle), Nothing, FALSE),
        Knows(With(pokemon, row), Nothing, FALSE)) :
     row \in {High, Middle}} \cup
  {Case(With(pokemon, High), Knows(With(pokemon, Middle), With(pokemon, Middle), FALSE), Blank),
   Case(With(pokemon, High), Knows(Nothing, With(pokemon, Removed), FALSE), Blank),
   Case(With(pokemon, High), Knows(Nothing, With(pokemon, HighFirst), FALSE), Blank)}

\* A board queued with an edited row, and without the row.
BoardCases ==
  {Case(With(seat, High), Knows(With(seat, row), With(seat, row), TRUE), Blank) :
     row \in {NoRow, Middle}}

\* A Favorite that the devices hold differently.
HeldCases ==
  {Case(Nothing, Knows(With(friend, Middle), Nothing, FALSE),
        Knows(With(friend, High), Nothing, FALSE))}

AllCases == ListCases \cup BoardCases \cup HeldCases
=============================================================================
