---------------------------- MODULE Publication ----------------------------
(***************************************************************************)
(* The public share of an account follows the rows the account has         *)
(* accepted: one device publishes them in passes, keeps a durable marker   *)
(* while a pass is owed, and repairs what its own late writes overwrite    *)
(* (publication in js/data/accountSyncController.js; start and stop of     *)
(* accountSyncRuntime.js; publishAccountSyncProjection,                    *)
(* writeVerifiedLegacyPublicSnapshot and observePublicWriteCompletion of   *)
(* js/app/application.js).                                                 *)
(*                                                                         *)
(* A runtime lives in a page; its successor in the same page may meet the  *)
(* writes it left on their way.  The rows have two contents, so that an    *)
(* edit can be taken back.                                                 *)
(***************************************************************************)
EXTENDS Naturals, Sequences

CONSTANTS
  MaxChanges,        \* bound of the changes of the account's rows
  MaxRuntimes,       \* bound of the runtimes, one after the other
  MaxPublicWrites,   \* bound of the writes on their way at once
  MaxNuisances       \* bound of other events, failed awaits and reloads

ASSUME PublicationAssumption ==
  {MaxChanges, MaxRuntimes, MaxPublicWrites, MaxNuisances} \subseteq Nat

VARIABLES
  version,           \* how often the account's rows have changed
  share,             \* content of publicShares/<name>
  marker,            \* public-publication-pending-v1 in the journal
  page,              \* the controller and its runtime
  publicWrites,      \* writes of the share on their way, in order
  proof,             \* lateLegacyPublicAcknowledgement
  nuisances

pubVars == <<version, share, marker, page, publicWrites, proof, nuisances>>

Content(n) == n % 2
NoAnswer == [runtime |-> 0, content |-> 0]
NoPass == [pc |-> "none", auth |-> FALSE, content |-> 0]
Unknown == 2          \* acceptedPublicKey before the first event

Asleep(runtime) ==
  [ runtime |-> runtime, phase |-> "off", listener |-> "closed", heard |-> 0, dispatched |-> 0, events |-> <<>>,
    applying |-> "none", accepted |-> 0, key |-> Unknown, pending |-> FALSE, requested |-> FALSE,
    timer |-> FALSE, pass |-> NoPass,
    forgotten |-> FALSE ]   \* history: an event was heard while a pass removed the marker

PubInit ==
  /\ version = 0 /\ share \in {0, 1} /\ marker = FALSE
  /\ page = Asleep(0)
  /\ publicWrites = <<>> /\ proof = NoAnswer /\ nuisances = 0

----------------------------------------------------------------------------
(* The controller's helpers, on its state *)

Ready(p)   == p.phase = "ready"
ListenerHealthy(p) == p.listener = "healthy"

CloseAuthority(p) == [p EXCEPT !.listener = "listening", !.timer = FALSE, !.pass.auth = FALSE]

Schedule(p) ==
  [p EXCEPT !.timer = p.pass = NoPass /\ p.pending /\ ListenerHealthy(p) /\ Ready(p)]

\* performPublicPublication begins, with the authority there is now.
BeginPass(p) ==
  [p EXCEPT !.requested = FALSE, !.pending = TRUE, !.timer = FALSE, !.forgotten = FALSE,
            !.pass = [pc |-> "mark", auth |-> ListenerHealthy(p), content |-> 0]]

\* publishAcceptedProjection: one pass at a time; a request during one is for another.
Publish(p) ==
  IF p.pass # NoPass THEN [p EXCEPT !.requested = TRUE]
  ELSE IF Ready(p) THEN BeginPass(p) ELSE p

\* A pass has ended: another begins at once if one was requested, unless authority is gone.
AfterPass(p, owed) ==
  IF p.requested /\ ListenerHealthy(p) /\ Ready(p) THEN BeginPass(p)
  ELSE Schedule([p EXCEPT !.pass = NoPass, !.pending = owed])

At(pc) == page.pass.pc = pc
Goes(pc) == page' = [page EXCEPT !.pass.pc = pc]

\* Mutant: a pass that failed is not owed any more
GivesUp == page' = AfterPass(page, FALSE)

PassFails == page' = AfterPass(page, TRUE)

Nuisance == nuisances < MaxNuisances /\ nuisances' = nuisances + 1

----------------------------------------------------------------------------
(* The pass *)

\* The marker is set before anything is read.
PassMarks ==
  /\ At("mark") /\ Goes("project") /\ marker' = TRUE
  /\ UNCHANGED <<version, share, publicWrites, proof, nuisances>>

\* The accepted rows, in turn with the events, if the pass's authority is still the current one.
PassProjects ==
  /\ At("project") /\ page.applying = "none"
  /\ IF page.pass.auth
     THEN page' = [page EXCEPT !.pass.pc = "begin", !.pass.content = Content(page.accepted)]
     ELSE PassFails
  /\ UNCHANGED <<version, share, marker, publicWrites, proof, nuisances>>

\* executeAuthorizedMutation; the summary of the activity is saved first, or is not.
PassBegins ==
  /\ At("begin")
  /\ IF page.pass.auth THEN Goes("write") ELSE PassFails
  /\ UNCHANGED <<version, share, marker, publicWrites, proof, nuisances>>

Write == [runtime |-> page.runtime, content |-> page.pass.content, uncertain |-> FALSE, awaited |-> TRUE]

SendWrite == publicWrites' = Append(publicWrites, Write) /\ Goes("sent")

\* Mutant: an acknowledgement that came too late proves nothing
NoProof == FALSE

\* A late acknowledgement of the same content by this runtime; it serves once, and not for long.
Proof == proof = [runtime |-> page.runtime, content |-> page.pass.content]

PassWrites ==
  /\ At("write") /\ Len(publicWrites) < MaxPublicWrites
  /\ proof' = NoAnswer
  /\ IF Proof THEN Goes("proof") /\ UNCHANGED publicWrites ELSE SendWrite
  /\ UNCHANGED <<version, share, marker, nuisances>>

\* One connection: a read is answered after the writes that were sent before it.
ReadAnswers == publicWrites = <<>>

\* The readback has to agree with the proof; else the content is written after all.
PassReadsProof ==
  /\ At("proof") /\ ReadAnswers
  /\ IF share # page.pass.content THEN SendWrite
     ELSE /\ IF page.pass.auth THEN Goes("clear") ELSE PassFails
          /\ UNCHANGED publicWrites
  /\ UNCHANGED <<version, share, marker, proof, nuisances>>

\* The deadline of a write: the pass fails, and the write is observed to its end.
WriteTimesOut ==
  /\ At("sent")
  /\ publicWrites' = [i \in DOMAIN publicWrites |->
                        IF publicWrites[i].awaited THEN [publicWrites[i] EXCEPT !.uncertain = TRUE, !.awaited = FALSE]
                        ELSE publicWrites[i]]
  /\ PassFails
  /\ UNCHANGED <<version, share, marker, proof, nuisances>>

PassVerifies ==
  /\ At("read") /\ ReadAnswers
  /\ IF share = page.pass.content /\ page.pass.auth THEN Goes("clear") ELSE PassFails
  /\ UNCHANGED <<version, share, marker, publicWrites, proof, nuisances>>

\* The marker is removed; what is owed since is forgotten.
PassClears ==
  /\ At("clear")
  /\ marker' = FALSE /\ page' = AfterPass(page, FALSE)
  /\ UNCHANGED <<version, share, publicWrites, proof, nuisances>>

\* An await of the pass fails: a read, or the removal of the marker.
AwaitFails ==
  /\ page.pass.pc \in {"proof", "read", "clear"} /\ Nuisance
  /\ PassFails
  /\ UNCHANGED <<version, share, marker, publicWrites, proof>>

TimerFires ==
  /\ page.timer /\ page' = Publish(page)
  /\ UNCHANGED <<version, share, marker, publicWrites, proof, nuisances>>

----------------------------------------------------------------------------
(* The writes *)

\* observePublicWriteCompletion: a write that was given up, or is of an earlier runtime, has landed.
Repair(w) ==
  IF (w.uncertain \/ w.runtime # page.runtime) /\ Ready(page)
  THEN /\ proof' = [runtime |-> page.runtime, content |-> w.content]
       /\ page' = Publish(page)
  ELSE /\ page' = IF w.awaited /\ At("sent") /\ w.runtime = page.runtime
                  THEN [page EXCEPT !.pass.pc = "read"] ELSE page
       /\ UNCHANGED proof

WriteLands ==
  /\ publicWrites # <<>>
  /\ share' = Head(publicWrites).content
  /\ publicWrites' = Tail(publicWrites)
  /\ Repair(Head(publicWrites))
  /\ UNCHANGED <<version, marker, nuisances>>

\* The database refuses a write; the pass that waits for it fails.
WriteIsRefused ==
  /\ publicWrites # <<>> /\ Nuisance
  /\ publicWrites' = Tail(publicWrites)
  /\ IF Head(publicWrites).awaited THEN PassFails ELSE UNCHANGED page
  /\ UNCHANGED <<version, share, marker, proof>>

ProofExpires ==
  /\ proof # NoAnswer /\ Nuisance
  /\ proof' = NoAnswer
  /\ UNCHANGED <<version, share, marker, page, publicWrites>>

----------------------------------------------------------------------------
(* The account's listener *)

\* This device or another changes the rows.
RowsChange ==
  /\ version < MaxChanges /\ version' = version + 1
  /\ UNCHANGED <<share, marker, page, publicWrites, proof, nuisances>>

\* A dispatch of this device made the change: once it is accepted, the drain asks for a pass.
DispatchPublishes ==
  /\ Ready(page) /\ ListenerHealthy(page) /\ page.dispatched < page.accepted
  /\ page' = Publish([page EXCEPT !.dispatched = page.accepted])
  /\ UNCHANGED <<version, share, marker, publicWrites, proof, nuisances>>

\* handleListenerData closes the authority at once; its work waits its turn.
HearRows ==
  /\ page.phase # "off"
  /\ \/ page.listener = "closed" \/ page.heard < version
     \/ nuisances < MaxNuisances
  /\ nuisances' = IF page.listener = "closed" \/ page.heard < version THEN nuisances ELSE nuisances + 1
  /\ page' = CloseAuthority([page EXCEPT !.heard = version, !.events = Append(@, version),
                                          !.forgotten = @ \/ At("clear")])
  /\ UNCHANGED <<version, share, marker, publicWrites, proof>>

\* applyRemote takes the rows; if their public part is new, a pass is owed.
ApplyEvent ==
  /\ page.events # <<>> /\ page.applying = "none"
  /\ LET n == Head(page.events)
         owed == page.key \notin {Unknown, Content(n)} /\ Ready(page)
     IN page' = [page EXCEPT !.applying = IF owed THEN "marks" ELSE "ends", !.accepted = n,
                   !.key = Content(n), !.pending = @ \/ owed,
                   !.requested = @ \/ (owed /\ page.pass # NoPass)]
  /\ UNCHANGED <<version, share, marker, publicWrites, proof, nuisances>>

\* The journal removes and sets the marker in the order it was asked to.
EventMarks ==
  /\ page.applying = "marks" /\ ~At("clear")
  /\ marker' = TRUE /\ page' = [page EXCEPT !.applying = "ends"]
  /\ UNCHANGED <<version, share, publicWrites, proof, nuisances>>

\* Authority comes back with the latest event only.
EventEnds ==
  /\ page.applying = "ends"
  /\ LET p == [page EXCEPT !.events = Tail(@), !.applying = "none"]
     IN page' = IF p.events # <<>> THEN p
                ELSE Schedule([p EXCEPT !.listener = "healthy",
                                        !.phase = IF @ = "starting" THEN "initializing" ELSE @])
  /\ UNCHANGED <<version, share, marker, publicWrites, proof, nuisances>>

----------------------------------------------------------------------------
(* The runtime *)

StartRuntime ==
  /\ page.phase = "off" /\ page.runtime < MaxRuntimes
  /\ page' = [Asleep(page.runtime + 1) EXCEPT !.phase = "starting", !.pending = marker]
  /\ UNCHANGED <<version, share, marker, publicWrites, proof, nuisances>>

\* The end of start(): whatever the marker says, the accepted rows are published once.
StartupPublishes ==
  /\ page.phase = "initializing"
  /\ page' = Publish([page EXCEPT !.phase = "ready"])
  /\ UNCHANGED <<version, share, marker, publicWrites, proof, nuisances>>

Unawaited(ws) == [i \in DOMAIN ws |-> [ws[i] EXCEPT !.awaited = FALSE]]

\* The retired journal aborts what it was writing; the writes of the share go on.  If the session
\* goes on too, a pass that was past its checks still writes, for whichever runtime there is then.
StopRuntime ==
  /\ page.phase # "off"
  /\ page' = Asleep(page.runtime)
  /\ \/ publicWrites' = Unawaited(publicWrites) /\ UNCHANGED proof
     \/ /\ page.pass.pc \in {"write", "proof"} /\ Len(publicWrites) < MaxPublicWrites
        /\ \E r \in {page.runtime, page.runtime + 1} :
             publicWrites' = Unawaited(Append(publicWrites, [Write EXCEPT !.runtime = r]))
        /\ proof' = NoAnswer
  /\ UNCHANGED <<version, share, marker, nuisances>>

\* The page is reloaded: some of its writes have reached the database, the others are lost.
ReloadPage ==
  /\ page.phase # "off" /\ Nuisance
  /\ \E k \in 0..Len(publicWrites) : share' = IF k = 0 THEN share ELSE publicWrites[k].content
  /\ page' = Asleep(page.runtime) /\ publicWrites' = <<>> /\ proof' = NoAnswer
  /\ UNCHANGED <<version, marker>>

----------------------------------------------------------------------------
PassStep ==
  \/ PassMarks \/ PassProjects \/ PassBegins \/ PassWrites \/ PassReadsProof
  \/ PassVerifies \/ PassClears \/ TimerFires
EventStep == HearRows \/ ApplyEvent \/ EventMarks \/ EventEnds \/ StartupPublishes

PubNext ==
  \/ PassStep \/ EventStep \/ WriteLands
  \/ WriteTimesOut \/ WriteIsRefused \/ AwaitFails \/ ProofExpires
  \/ RowsChange \/ DispatchPublishes \/ StartRuntime \/ StopRuntime \/ ReloadPage

PubSpec == PubInit /\ [][PubNext]_pubVars

\* Continuations and timers run, and the connection delivers in both directions; deadlines,
\* failures, edits and the user owe nothing.
PubFairness ==
  /\ WF_pubVars(PassStep) /\ WF_pubVars(WriteLands)
  /\ WF_pubVars(ApplyEvent \/ EventMarks \/ EventEnds) /\ WF_pubVars(StartupPublishes)
  /\ WF_pubVars(HearRows)

PubLiveSpec == PubSpec /\ PubFairness

----------------------------------------------------------------------------
(* Properties *)

PubTypeOK ==
  /\ share \in {0, 1} /\ marker \in BOOLEAN
  /\ page.accepted =< version /\ page.heard =< version
  /\ page.timer => ListenerHealthy(page) /\ Ready(page) /\ page.pending /\ page.pass = NoPass
  /\ ListenerHealthy(page) => page.events = <<>>
  /\ Len(publicWrites) =< MaxPublicWrites
  /\ At("sent") => \E i \in DOMAIN publicWrites : publicWrites[i].awaited

Published == share = Content(version)

\* The page has nothing left to do.
Quiet ==
  /\ Ready(page) /\ ListenerHealthy(page) /\ page.heard = version /\ page.accepted = version
  /\ page.pass = NoPass /\ ~page.timer /\ publicWrites = <<>>

\* When a ready page has nothing left to do, the share shows the account's rows and no marker is
\* left, however late its writes landed and however often the rows changed meanwhile - unless an
\* event was heard while a pass removed the marker.
QuietIsPublished == Quiet /\ ~page.forgotten => Published /\ ~marker

\* The same without exception, as the repository's documents promise it.
ChangesAreServed == Quiet => Published

\* Rows that the share does not show are marked in the journal, so that a crash does not lose
\* the pass, before the page returns to its ready state.
StaleIsMarked ==
  Ready(page) /\ ListenerHealthy(page) /\ share # Content(page.accepted) /\ ~page.forgotten =>
    marker \/ At("mark")

\* The page, at rest or at work, knows what it owes: at rest the share is as it should be, and
\* at work a durable marker says that it is not.
DebtsAreKnown == PubTypeOK /\ QuietIsPublished /\ StaleIsMarked

\* A write that was given up lands between two passes: before the retry, after the deadline.
LandsBetweenPasses == WriteLands /\ Head(publicWrites).uncertain => page.pass = NoPass

\* While a runtime stays up the share and the marker settle, even if every write is acknowledged
\* only after its deadline: the late acknowledgement proves what the next pass would write again.
LateAcksConverge ==
  <>[](Ready(page)) /\ <>[][LandsBetweenPasses]_pubVars =>
    <>[]((Published /\ ~marker) \/ page.forgotten)

=============================================================================
