---------------------------- MODULE MCComponents ----------------------------
(***************************************************************************)
(* Small instances of four components that share no state: one entity of   *)
(* the account, the ledger of a controlled run, the list queue of a page   *)
(* and the seats of the Favorites.  A behaviour is of one of them.         *)
(***************************************************************************)
EXTENDS MCCanonicalEntity, GroupELedger, ListQueue, FavoriteSlots

CONSTANTS Parts, p1, p2, p3

VARIABLE part

\* One pair of names stands for the processes of the operators, for the rows and for the devices,
\* so that one symmetry serves all.
PairSymmetry == Permutations({p1, p2})

ComponentsInit ==
  /\ part \in Parts
  /\ Init /\ LedgerInit /\ ListInit /\ SlotsInit
  /\ Active(favorites) \subseteq IF part = "slots" THEN {1, 3} ELSE {}

ComponentsNext ==
  /\ UNCHANGED part
  /\ \/ part = "entity" /\ Next /\ UNCHANGED <<ledgerVars, listVars, slotVars>>
     \/ part = "ledger" /\ LedgerNext /\ UNCHANGED <<vars, listVars, slotVars>>
     \/ part = "list" /\ ListNext /\ UNCHANGED <<vars, ledgerVars, slotVars>>
     \/ part = "slots" /\ SlotsNext /\ UNCHANGED <<vars, ledgerVars, listVars>>

ComponentsSpec ==
  ComponentsInit /\ [][ComponentsNext]_<<part, vars, ledgerVars, listVars, slotVars>>
=============================================================================
