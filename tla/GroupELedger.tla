---------------------------- MODULE GroupELedger ----------------------------
(***************************************************************************)
(* A run of two admitted calls, A and then B, kept at most once by three   *)
(* stores that no transaction spans: the operators' ledger directory       *)
(* (functions/production/e1ProductionClientFoundationExecution.cjs, driven *)
(* by scripts/check-e1-production-client-foundation-execution.cjs), the    *)
(* create-only control records (production/e1GroupEControlOperator.cjs and *)
(* e1-gateway/groupEControlStore.js), and the gateway's calls of the       *)
(* authority (e1-gateway/gatewayCore.js).                                  *)
(*                                                                         *)
(* The ledger is a chain of snapshot files and a HEAD file that names the  *)
(* last one.  A command locks the directory, validates the whole chain,    *)
(* writes a snapshot, replaces HEAD and unlocks; a process may die between *)
(* any two of these.  What a command is given (evidence, observations) was *)
(* true when its input was written, which is before it runs.               *)
(***************************************************************************)
EXTENDS Naturals, Sequences, FiniteSets

CONSTANTS
  Operators,         \* processes of the operators' command, each run as often as needed
  MaxOperators,      \* how many of them run at once
  MaxGatewayCalls,   \* calls of the browser through the gateway
  Nobody

ASSUME LedgerAssumption ==
  /\ MaxOperators \in Nat \ {0} /\ MaxGatewayCalls \in Nat
  /\ Nobody \notin Operators \cup {"receipt", "no receipt", "healthy", "blocked", "abort"}

Slots == {"A", "B"}

VARIABLES
  head, sequence,                      \* the snapshot that HEAD.json names, and its number
  files, lockOwner,                    \* how many snapshots there are, LOCK
  operators,                           \* [pc, command, value, prior, next] of each process
  capabilities,                        \* capability files: [slot, attempt]
  consumptions, reconciliations,       \* the control records of the run
  closeout,
  gatewayCalls, authorityCalls,        \* the gateway's calls, and those that reached the authority
  gatesOn, runtimeAlive                \* deployed gates, the page runtime of the run

directoryVars == <<head, sequence, files, lockOwner>>
controlVars   == <<consumptions, reconciliations, closeout>>
callVars      == <<gatewayCalls, authorityCalls>>
worldVars     == <<gatesOn, runtimeAlive>>
ledgerVars    == <<directoryVars, operators, capabilities, controlVars, callVars, worldVars>>

AtRest(pc) == [pc |-> pc, command |-> Nobody, value |-> Nobody, prior |-> 0, next |-> Nobody]

LedgerInit ==
  /\ head = [stage |-> "A_READY", dispatches |-> [s \in Slots |-> Nobody],
             terminals |-> [s \in Slots |-> Nobody], completed |-> {},
             gates |-> FALSE, outcome |-> "pending"]
  /\ sequence = 0 /\ files = 1 /\ lockOwner = Nobody
  /\ operators = [p \in Operators |-> AtRest("idle")]
  /\ capabilities = {}
  /\ consumptions = [s \in Slots |-> Nobody] /\ reconciliations = [s \in Slots |-> Nobody]
  /\ closeout = Nobody
  /\ gatewayCalls = <<>>
  /\ authorityCalls = [s \in Slots |-> 0]
  /\ gatesOn = FALSE /\ runtimeAlive = TRUE

----------------------------------------------------------------------------
(* Transitions of a ledger. *)

POST_ENABLE_STAGES ==
  {"ENABLEMENT_STARTED", "A_DISPATCH_COMMITTED", "A_TERMINAL_UNRECONCILED",
   "A_RECONCILED_SESSION_BOUNDARY_PENDING", "A_RECONCILED_B_PENDING", "B_DISPATCH_COMMITTED",
   "B_TERMINAL_UNRECONCILED", "AB_RECONCILED_RESTORATION_REQUIRED", "BLOCKED_RESTORATION_REQUIRED"}

Commands == {"enablement-start", "pre-enable-abort", "dispatch", "terminal", "a-reconciliation",
             "session-boundary", "b-reconciliation", "block", "restore", "closeout"}

\* The stages a command starts from.
StagesOf(command) ==
  CASE command \in {"enablement-start", "pre-enable-abort"} -> {"A_READY"}
    [] command = "dispatch" -> {"ENABLEMENT_STARTED", "A_RECONCILED_B_PENDING"}
    [] command = "terminal" -> {"A_DISPATCH_COMMITTED", "B_DISPATCH_COMMITTED"}
    [] command = "a-reconciliation" -> {"A_TERMINAL_UNRECONCILED"}
    [] command = "session-boundary" -> {"A_RECONCILED_SESSION_BOUNDARY_PENDING"}
    [] command = "b-reconciliation" -> {"B_TERMINAL_UNRECONCILED"}
    [] command = "block" -> POST_ENABLE_STAGES
         \ {"AB_RECONCILED_RESTORATION_REQUIRED", "BLOCKED_RESTORATION_REQUIRED"}
    [] command = "restore" -> POST_ENABLE_STAGES
    [] command = "closeout" -> {"RESTORED_OBSERVATION_PENDING"}

\* The slot a ledger is at.
SlotOf(ledger) ==
  IF ledger.stage \in {"ENABLEMENT_STARTED", "A_DISPATCH_COMMITTED", "A_TERMINAL_UNRECONCILED",
                       "A_RECONCILED_SESSION_BOUNDARY_PENDING"} THEN "A" ELSE "B"

\* Mutant: B counts as done once its call has ended.
SuccessfulOnceEnded(ledger) ==
  ledger.stage \in {"B_TERMINAL_UNRECONCILED", "AB_RECONCILED_RESTORATION_REQUIRED"}
Successful(ledger) == ledger.stage = "AB_RECONCILED_RESTORATION_REQUIRED"

\* The ledger a command advances to; value is the dispatched attempt or the observed outcome.
Advance(ledger, command, value) ==
  LET slot == SlotOf(ledger)
      At(stageA, stageB) == [ledger EXCEPT !.stage = IF slot = "A" THEN stageA ELSE stageB]
  IN CASE command = "enablement-start" -> [ledger EXCEPT !.stage = "ENABLEMENT_STARTED"]
       [] command = "pre-enable-abort" ->
            [ledger EXCEPT !.stage = "PRE_ENABLE_ABORTED", !.outcome = "blocked"]
       [] command = "dispatch" ->
            [At("A_DISPATCH_COMMITTED", "B_DISPATCH_COMMITTED")
               EXCEPT !.dispatches[slot] = value, !.gates = TRUE]
       [] command = "terminal" ->
            [At("A_TERMINAL_UNRECONCILED", "B_TERMINAL_UNRECONCILED") EXCEPT !.terminals[slot] = value]
       [] command = "a-reconciliation" ->
            [ledger EXCEPT !.stage = "A_RECONCILED_SESSION_BOUNDARY_PENDING"]
       [] command = "session-boundary" ->
            [ledger EXCEPT !.stage = "A_RECONCILED_B_PENDING", !.completed = {"A"}]
       [] command = "b-reconciliation" ->
            [ledger EXCEPT !.stage = "AB_RECONCILED_RESTORATION_REQUIRED", !.completed = {"A", "B"}]
       [] command = "block" ->
            [ledger EXCEPT !.stage = "BLOCKED_RESTORATION_REQUIRED", !.outcome = "blocked"]
       [] command = "restore" ->
            [ledger EXCEPT !.stage = "RESTORED_OBSERVATION_PENDING", !.gates = FALSE,
                           !.outcome = IF Successful(ledger) THEN "pending" ELSE "blocked"]
       [] command = "closeout" ->
            IF ledger.outcome = "blocked" THEN [ledger EXCEPT !.stage = "CLOSED_BLOCKED"]
            ELSE [ledger EXCEPT !.stage = "CLOSED_HEALTHY", !.outcome = "healthy"]

\* The inputs an operator can write truthfully for a command on the ledger it reads.
\* Reconciliation needs the receipt in the client's answer, and the gates on.
SlotCalls(slot, pcs) == \E g \in DOMAIN gatewayCalls :
  gatewayCalls[g].pc \in pcs /\ gatewayCalls[g].capability.slot = slot
CallAnswered(slot) == SlotCalls(slot, {"answered"})
CallEnded(slot) == SlotCalls(slot, {"answered", "failed"})

Evidence(p, command) ==
  LET slot == SlotOf(head)
  IN CASE command = "pre-enable-abort" -> IF closeout = "abort" THEN {command} ELSE {}
       [] command = "dispatch" -> IF runtimeAlive THEN {p} ELSE {}
       [] command = "terminal" ->
            IF CallAnswered(slot) THEN {"receipt"} ELSE IF CallEnded(slot) THEN {"no receipt"} ELSE {}
       [] command = "a-reconciliation" ->
            IF gatesOn /\ head.terminals[slot] = "receipt" THEN {command} ELSE {}
       [] command = "b-reconciliation" ->
            IF gatesOn /\ head.terminals[slot] = "receipt" /\ reconciliations["B"] # Nobody
            THEN {command} ELSE {}
       [] command = "session-boundary" ->
            IF runtimeAlive /\ reconciliations["A"] # Nobody THEN {command} ELSE {}
       [] command = "restore" -> IF gatesOn THEN {} ELSE {command}
       [] command = "closeout" ->
            IF closeout = (IF head.outcome = "blocked" THEN "blocked" ELSE "healthy") THEN {command} ELSE {}
       [] OTHER -> {command}

----------------------------------------------------------------------------
(* A command on the ledger directory. *)

Moves(p, pc) == operators' = [operators EXCEPT ![p].pc = pc]
Ends(p, pc) == operators' = [operators EXCEPT ![p] = AtRest(pc)]
Past(p, pc) == operators[p].pc = pc /\ UNCHANGED <<controlVars, callVars, worldVars>>

\* The input is written: the digest of HEAD, the command, its evidence.
Prepare(p) ==
  /\ Past(p, "idle")
  /\ Cardinality({q \in Operators : operators[q].pc # "idle"}) < MaxOperators
  /\ \E command \in Commands :
       /\ head.stage \in StagesOf(command)
       /\ \E value \in Evidence(p, command) :
            operators' = [operators EXCEPT ![p] =
              [pc |-> "prepared", command |-> command, value |-> value, prior |-> sequence, next |-> Nobody]]
  /\ UNCHANGED <<directoryVars, capabilities>>

\* Mutant: the lock file is not opened exclusively.
UnlockedAlways == TRUE
Unlocked == lockOwner = Nobody

Acquire(p) ==
  /\ Past(p, "prepared")
  /\ IF Unlocked THEN lockOwner' = p /\ Moves(p, "locked")
                 ELSE Ends(p, "idle") /\ UNCHANGED lockOwner
  /\ UNCHANGED <<head, sequence, files, capabilities>>

\* Mutant: files that HEAD does not name are passed over.
ReadableHead == files > sequence
\* validateLedgerDirectory: nothing but the chain that HEAD names.
Readable == files = sequence + 1

\* The whole directory is validated and the digest compared; a refusal releases the lock.
Validate(p) ==
  /\ Past(p, "locked")
  /\ IF Readable /\ operators[p].prior = sequence
     THEN /\ operators' = [operators EXCEPT ![p].pc = "validated",
                            ![p].next = Advance(head, operators[p].command, operators[p].value)]
          /\ UNCHANGED lockOwner
     ELSE Ends(p, "idle") /\ lockOwner' = Nobody
  /\ UNCHANGED <<head, sequence, files, capabilities>>

\* The next ledger, in a file of its own; HEAD is replaced after that.
WriteSnapshot(p) ==
  /\ Past(p, "validated")
  /\ files' = files + 1 /\ Moves(p, "written")
  /\ UNCHANGED <<head, sequence, lockOwner, capabilities>>

ReplaceHead(p) ==
  /\ Past(p, "written")
  /\ head' = operators[p].next /\ sequence' = operators[p].prior + 1
  /\ Moves(p, "replaced")
  /\ UNCHANGED <<files, lockOwner, capabilities>>

\* The lock is released; only a committed dispatch goes on to its capability.
Release(p) ==
  /\ Past(p, "replaced")
  /\ lockOwner' = Nobody
  /\ IF operators[p].command = "dispatch" THEN Moves(p, "signing") ELSE Ends(p, "idle")
  /\ UNCHANGED <<head, sequence, files, capabilities>>

\* The capability of the dispatch this process has committed.
Sign(p) ==
  /\ Past(p, "signing")
  /\ capabilities' = capabilities \cup
       {[slot |-> SlotOf(operators[p].next), attempt |-> operators[p].value]}
  /\ Ends(p, "idle")
  /\ UNCHANGED directoryVars

\* A process dies; what it has written stays, its lock too.
OperatorDies(p) ==
  /\ operators[p].pc \notin {"idle", "dead"} /\ Past(p, operators[p].pc)
  /\ Ends(p, IF lockOwner = p THEN "dead" ELSE "idle")
  /\ UNCHANGED <<directoryVars, capabilities>>

\* Somebody makes sure that the process is gone and removes its lock, and nothing else.
ClearLock(p) ==
  /\ Past(p, "dead")
  /\ lockOwner' = Nobody /\ Ends(p, "idle")
  /\ UNCHANGED <<head, sequence, files, capabilities>>

----------------------------------------------------------------------------
(* Control records: each is created once, in a transaction on the others. *)

RecordStep == UNCHANGED <<directoryVars, operators, capabilities, callVars, worldVars>>

\* Evidence of a reconciliation is of an admitted call that was answered.
CreateReconciliation(s) ==
  /\ consumptions[s] # Nobody /\ CallAnswered(s)
  /\ s = "B" => reconciliations["A"] # Nobody
  /\ reconciliations[s] = Nobody
  /\ reconciliations' = [reconciliations EXCEPT ![s] = consumptions[s]]
  /\ RecordStep /\ UNCHANGED <<consumptions, closeout>>

\* The record of the outcome that the restored ledger has.
CreateCloseout ==
  /\ head.stage = "RESTORED_OBSERVATION_PENDING" /\ closeout = Nobody
  /\ head.outcome # "blocked" => reconciliations["B"] # Nobody
  /\ closeout' = IF head.outcome = "blocked" THEN "blocked" ELSE "healthy"
  /\ RecordStep /\ UNCHANGED <<consumptions, reconciliations>>

CreatePreEnableAbort ==
  /\ head.stage = "A_READY" /\ closeout = Nobody
  /\ \A s \in Slots : consumptions[s] = Nobody /\ reconciliations[s] = Nobody
  /\ closeout' = "abort"
  /\ RecordStep /\ UNCHANGED <<consumptions, reconciliations>>

----------------------------------------------------------------------------
(* The gateway. *)

Gateway(g, pc) ==
  gatewayCalls[g].pc = pc
    /\ UNCHANGED <<directoryVars, operators, capabilities, reconciliations, closeout, worldVars>>
Leaves(g, pc) == gatewayCalls' = [gatewayCalls EXCEPT ![g].pc = pc]

\* The page of the run presents a capability, again if it likes; the gates are read once.
Present ==
  /\ runtimeAlive /\ gatesOn /\ Len(gatewayCalls) < MaxGatewayCalls
  /\ \E c \in capabilities : gatewayCalls' = Append(gatewayCalls, [pc |-> "presented", capability |-> c])
  /\ UNCHANGED <<directoryVars, operators, capabilities, controlVars, authorityCalls, worldVars>>

Admissible(c) ==
  /\ c.slot = "B" => reconciliations["A"] # Nobody
  /\ consumptions[c.slot] = Nobody

\* consumeAdmission; the transaction may commit and its answer be lost, and is not found by a retry.
ConsumeAdmission(g) ==
  LET c == gatewayCalls[g].capability
  IN  /\ Gateway(g, "presented")
      /\ IF Admissible(c)
         THEN /\ consumptions' = [consumptions EXCEPT ![c.slot] = c.attempt]
              /\ Leaves(g, "admitted") \/ Leaves(g, "failed")
         ELSE Leaves(g, "failed") /\ UNCHANGED consumptions
      /\ UNCHANGED authorityCalls

\* One attempt at the authority, which may be reached and not be heard.
InvokeAuthority(g) ==
  /\ Gateway(g, "admitted")
  /\ \/ /\ authorityCalls' = [authorityCalls EXCEPT ![gatewayCalls[g].capability.slot] = @ + 1]
        /\ Leaves(g, "answered") \/ Leaves(g, "failed")
     \/ UNCHANGED authorityCalls /\ Leaves(g, "failed")
  /\ UNCHANGED consumptions

GatewayFails(g) ==
  /\ gatewayCalls[g].pc \in {"presented", "admitted"} /\ Gateway(g, gatewayCalls[g].pc)
  /\ Leaves(g, "failed")
  /\ UNCHANGED <<consumptions, authorityCalls>>

----------------------------------------------------------------------------
(* What people do outside the programs. *)

WorldStep == UNCHANGED <<directoryVars, operators, capabilities, controlVars, callVars>>

\* Gates are enabled for the started enablement, and restored at any time.
EnableGates ==
  /\ head.stage = "ENABLEMENT_STARTED" /\ ~gatesOn /\ gatesOn' = TRUE
  /\ WorldStep /\ UNCHANGED runtimeAlive
RestoreGates ==
  /\ gatesOn /\ gatesOn' = FALSE
  /\ WorldStep /\ UNCHANGED runtimeAlive
RuntimeLost ==
  /\ runtimeAlive /\ runtimeAlive' = FALSE
  /\ WorldStep /\ UNCHANGED gatesOn

CommandStep(p) ==
  \/ Prepare(p) \/ Acquire(p) \/ Validate(p) \/ WriteSnapshot(p) \/ ReplaceHead(p)
  \/ Release(p) \/ Sign(p) \/ OperatorDies(p) \/ ClearLock(p)
GatewayStep(g) == ConsumeAdmission(g) \/ InvokeAuthority(g) \/ GatewayFails(g)
RecordCreated == (\E s \in Slots : CreateReconciliation(s)) \/ CreateCloseout \/ CreatePreEnableAbort
PeopleStep == EnableGates \/ RestoreGates \/ RuntimeLost

LedgerNext ==
  \/ \E p \in Operators : CommandStep(p)
  \/ Present \/ \E g \in DOMAIN gatewayCalls : GatewayStep(g)
  \/ RecordCreated \/ PeopleStep

LedgerSpec == LedgerInit /\ [][LedgerNext]_ledgerVars

----------------------------------------------------------------------------
(* Properties. *)

\* The validation of a ledger: what a stage says agrees with everything that is recorded.
BlockedStages == {"PRE_ENABLE_ABORTED", "BLOCKED_RESTORATION_REQUIRED", "CLOSED_BLOCKED"}
AnyPrefix == {"BLOCKED_RESTORATION_REQUIRED", "RESTORED_OBSERVATION_PENDING", "CLOSED_BLOCKED"}
ValidLedger(ledger) ==
  LET stage == ledger.stage
  IN /\ ledger.dispatches \in [Slots -> Operators \cup {Nobody}]
     /\ ledger.terminals \in [Slots -> {Nobody, "receipt", "no receipt"}]
     /\ \A s \in Slots : /\ ledger.terminals[s] # Nobody => ledger.dispatches[s] # Nobody
                         /\ s \in ledger.completed => ledger.terminals[s] = "receipt"
     /\ ledger.dispatches["B"] # Nobody => "A" \in ledger.completed
     /\ stage \notin AnyPrefix =>
          ledger.completed = (IF stage \in {"A_RECONCILED_B_PENDING", "B_DISPATCH_COMMITTED",
                                            "B_TERMINAL_UNRECONCILED"} THEN {"A"}
                              ELSE IF stage \in {"AB_RECONCILED_RESTORATION_REQUIRED", "CLOSED_HEALTHY"}
                              THEN Slots ELSE {})
     /\ stage \notin {"BLOCKED_RESTORATION_REQUIRED"} =>
          (ledger.gates <=> stage \in POST_ENABLE_STAGES \ {"ENABLEMENT_STARTED"})
     /\ stage # "RESTORED_OBSERVATION_PENDING" => (ledger.outcome = "blocked" <=> stage \in BlockedStages)

\* Every store has its shape, and every ledger that a command writes is one that the
\* validation accepts.
LedgerTypeOK ==
  /\ sequence \in Nat /\ files \in Nat
  /\ lockOwner \in Operators \cup {Nobody}
  /\ ValidLedger(head) /\ \A p \in Operators : operators[p].next # Nobody => ValidLedger(operators[p].next)
  /\ \A p \in Operators : operators[p].command \in Commands \cup {Nobody}
  /\ consumptions \in [Slots -> Operators \cup {Nobody}]
  /\ \A c \in capabilities : c.slot \in Slots /\ c.attempt \in Operators
  /\ closeout \in {Nobody, "healthy", "blocked", "abort"}

\* A slot has one capability at most, whatever operators overlap or die, and it is of the
\* dispatch in the chain: it is never made again, nor before its commitment.
OneCapabilityPerSlot ==
  \A c \in capabilities : head.dispatches[c.slot] = c.attempt

\* The authority is called once at most for a slot, for B only once A was reconciled, and only
\* behind a committed marker of the dispatched attempt.
AdmittedOnce ==
  \A s \in Slots :
    /\ authorityCalls[s] <= 1
    /\ authorityCalls[s] = 1 => consumptions[s] # Nobody /\ consumptions[s] = head.dispatches[s]
    /\ s = "B" /\ consumptions["B"] # Nobody =>
         reconciliations["A"] # Nobody /\ authorityCalls["A"] = 1 /\ "A" \in head.completed

\* A healthy end has both calls admitted, made and reconciled; an aborted run has done nothing;
\* and the closeout record never says better than the ledger.
EndsAreTrue ==
  /\ head.stage = "CLOSED_HEALTHY" =>
       /\ closeout = "healthy" /\ head.completed = Slots
       /\ \A s \in Slots : /\ consumptions[s] = head.dispatches[s] /\ authorityCalls[s] = 1
                           /\ reconciliations[s] = consumptions[s] /\ consumptions[s] # Nobody
  /\ head.stage = "PRE_ENABLE_ABORTED" =>
       capabilities = {} /\ \A s \in Slots : consumptions[s] = Nobody /\ authorityCalls[s] = 0
  /\ closeout = "healthy" => head.outcome # "blocked"

\* A process that died between the snapshot and HEAD leaves a directory that no command advances.
Torn == files # sequence + 1 /\ \A p \in Operators : operators[p].pc # "written"
CrashFailsClosed == [][Torn => UNCHANGED <<head, sequence, files>>]_ledgerVars

\* HEAD moves on by one snapshot at a time and to one ledger only: nothing that was dispatched,
\* observed or reconciled is ever left, and a blocked run stays blocked.
ChainGrows ==
  [][\/ UNCHANGED <<head, sequence>>
     \/ /\ sequence' = sequence + 1
        /\ \A s \in Slots : /\ head.dispatches[s] # Nobody => head'.dispatches[s] = head.dispatches[s]
                            /\ head.terminals[s] # Nobody => head'.terminals[s] = head.terminals[s]
        /\ head.completed \subseteq head'.completed
        /\ head.outcome = "blocked" => head'.outcome = "blocked"]_ledgerVars

\* However operators and gateways overlap, die and try again, each slot is dispatched to one
\* capability and admitted once, behind a ledger that the validation accepts.
RunIsExclusive == LedgerTypeOK /\ OneCapabilityPerSlot /\ AdmittedOnce

\* The chain of snapshots has one end and grows there, and is left as it is after a torn write.
ChainHolds == ChainGrows /\ CrashFailsClosed

=============================================================================
