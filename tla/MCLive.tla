------------------------------- MODULE MCLive -------------------------------
(***************************************************************************)
(* Small instances, under fairness, of three components that share no      *)
(* state: the owner's reset of PINs, the public share and the migration.   *)
(* A behaviour is of one of them; the others stay as they begin.           *)
(***************************************************************************)
EXTENDS MCPinReset, Publication, MCMigration

VARIABLE part

liveVars == <<part, vars, pubVars, moveVars>>

LiveInit ==
  /\ part \in {"pin", "share", "move"}
  /\ Init /\ PubInit /\ MoveInit
  /\ part # "pin" => input = [c \in Calls |-> Ask(r1, t1, p1)]
  /\ part # "share" => share = 0
  /\ part # "move" => legacy = CHOOSE l \in Legacies : TRUE

LiveNext ==
  \/ part = "pin" /\ Next /\ UNCHANGED <<part, pubVars, moveVars>>
  \/ part = "share" /\ PubNext /\ UNCHANGED <<part, vars, moveVars>>
  \/ part = "move" /\ MoveNext /\ UNCHANGED <<part, vars, pubVars>>

\* Where the first two begin none of their fair actions is enabled, so that their fairness
\* asks nothing of the behaviours of another part; the migration's is asked of its own.
LiveFairness ==
  /\ Fairness /\ PubFairness
  /\ \A d \in Movers : WF_moveVars(part = "move" /\ MoveStep(d))

PartsSpec == LiveInit /\ [][LiveNext]_liveVars /\ LiveFairness

\* MovesEnd, of the behaviours of that part: from some time on every device is done with its
\* migration, or a conflict waits for its user, or it was interrupted after its record was
\* created and is refused.
MigrationsEnd == part = "move" => MovesEnd
=============================================================================
