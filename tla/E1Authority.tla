---------------------------- MODULE E1Authority ----------------------------
(***************************************************************************)
(* The private authority service of the identity foundations: the requests *)
(* of functions/e1-authority-service/server.js on the Firestore documents  *)
(* of firestoreE1AuthorityAdapter.js.                                      *)
(*                                                                         *)
(* An operation is a call with several awaits: is its request known, does  *)
(* the rate limit admit it, what does the legacy application say, one      *)
(* transaction, and for a provider account a read of what an unclear       *)
(* transaction left.  Transactions are serializable; a commit may be lost  *)
(* to the caller, and the client library may run a callback again.         *)
(***************************************************************************)
EXTENDS Integers, FiniteSets

CONSTANTS
  E1Calls,                  \* requests served by instances of the service
  Uids, Handles, Subjects,  \* Auth UIDs, normalized names, Google subjects
  AuthorityScenes,          \* by name: [requests, load, legacy, accounts, handles, certified, operates,
                            \*  horizon, provisions]: what may meet, how often, from which documents, until when
  RateLimit, RateWindow,    \* RATE_LIMITS, of every operation
  Validity,                 \* of a certification
  Absent

Mutations == {"create", "reserve", "repair", "migrate", "freeze"}

Replied == {"success", "idempotent", "reconciled", "refused", "found", "absent", "conflict"}

Account == [kind : {"legacy", "provider"}, name : Handles]
Freeze  == [id : Nat, activatedAt : Nat]

\* What the server lets through to an operation.
WellFormedRequest(r) ==
  /\ r.op \in Mutations \cup {"read", "find", "share"} /\ r.uid \in Uids
  /\ r.op \in Mutations => r.name \in Handles
  /\ r.op \in {"create", "read"} => r.subject \in Subjects
  /\ r.op \in {"find", "share"} => r.names \subseteq Handles

\* Documents from before are of users of the legacy application, a handle of one of
\* them; and a certified scene is one that the operator's steps could have led to.
ASSUME AuthorityAssumption ==
  /\ RateLimit \in Nat \ {0} /\ RateWindow \in Nat \ {0} /\ Validity \in Nat \ {0}
  /\ Absent \notin Replied \cup Uids \cup Handles \cup Subjects \cup Account \cup Freeze
  /\ \A k \in DOMAIN AuthorityScenes :
       LET s == AuthorityScenes[k]
       IN  /\ \A r \in s.requests : r # Absent /\ WellFormedRequest(r)
           /\ s.load \in Nat /\ s.horizon \in Nat
           /\ s.legacy \in [Uids -> Handles \cup {Absent}]
           /\ s.accounts \cup s.handles \subseteq {u \in Uids : s.legacy[u] # Absent}
           /\ \A u, v \in s.handles : s.legacy[u] = s.legacy[v] => u = v
           /\ s.provisions \subseteq Uids \X Handles
           /\ s.certified => \A u \in Uids : s.legacy[u] # Absent => u \in s.handles

VARIABLES
  e1Scene, e1Calls, e1Clock,
  e1Accounts, trainerHandles,          \* accounts/{uid}, trainerHandles/{handleKey}
  providers, providerSubjects,         \* accounts/{uid}/providers/google, providerSubjects/{key}
  operationRequests,                   \* operationRequests/{uid}/requests/{id}
  identityMigrations, identityConflicts,
  rateLimits, admitted,                \* rateLimits/{operation}_{subject}; history of all charges
  legacyNames, rulesFrozen,            \* the legacy application, and its Rules
  provisioningFreeze, inventory, certification    \* authorityConfig

foundationVars == <<e1Accounts, trainerHandles>>
subjectVars    == <<providers, providerSubjects>>
evidenceVars   == <<identityMigrations, identityConflicts>>
documentVars   == <<foundationVars, subjectVars, operationRequests, evidenceVars>>
limitVars      == <<rateLimits, admitted>>
operatorVars   == <<legacyNames, rulesFrozen, provisioningFreeze, inventory, certification>>
e1Vars == <<e1Scene, e1Calls, e1Clock, documentVars, limitVars, operatorVars>>

Scene == AuthorityScenes[e1Scene]
RequestKey(r) == <<r.uid, r.id>>
RequestKeys == {RequestKey(r) : r \in Scene.requests}

\* The subject whose quota a request is charged to: a user, or the operator.
Payer(r) == IF r.op \in {"migrate", "freeze"} THEN "operator" ELSE r.uid
Quota(r) == <<r.op, Payer(r)>>
Quotas == {Quota(r) : r \in Scene.requests}

E1Init ==
  /\ e1Scene \in DOMAIN AuthorityScenes
  /\ e1Calls = [c \in E1Calls |->
       [pc |-> "idle", request |-> Absent, answer |-> Absent, replayOnly |-> FALSE,
        at |-> 0, seen |-> {}]]
  /\ e1Clock = 0
  /\ legacyNames = Scene.legacy
  /\ e1Accounts = [u \in Uids |-> IF u \in Scene.accounts
                                  THEN [kind |-> "legacy", name |-> legacyNames[u]] ELSE Absent]
  /\ trainerHandles = [n \in Handles |->
       IF \E u \in Scene.handles : legacyNames[u] = n
       THEN CHOOSE u \in Scene.handles : legacyNames[u] = n ELSE Absent]
  /\ providers = [u \in Uids |-> Absent] /\ providerSubjects = [s \in Subjects |-> Absent]
  /\ operationRequests = [k \in RequestKeys |-> Absent]
  /\ identityMigrations = {} /\ identityConflicts = {}
  /\ rateLimits = [q \in Quotas |-> Absent] /\ admitted = {}
  /\ rulesFrozen = Scene.certified
  /\ provisioningFreeze = IF Scene.certified THEN [id |-> 0, activatedAt |-> 0] ELSE Absent
  /\ inventory = IF Scene.certified THEN 0 ELSE Absent
  /\ certification = IF Scene.certified
                     THEN [freezeId |-> 0, capturedAt |-> 0, expiresAt |-> Validity] ELSE Absent

----------------------------------------------------------------------------
(* Calls. *)

E1Request(c) == e1Calls[c].request
Goes(c, pc) == e1Calls' = [e1Calls EXCEPT ![c].pc = pc]
Replies(c, a) == e1Calls' = [e1Calls EXCEPT ![c].pc = "done", ![c].answer = a]
Reaches(c, pc) ==
  e1Calls[c].pc = pc /\ UNCHANGED <<e1Scene, e1Clock, operatorVars>>

\* Past the quota, an operation goes on to what it reads.
AfterQuota(r) ==
  CASE r.op = "create" -> "transact" [] r.op = "read" -> "account"
    [] r.op \in {"find", "share"} -> "handles" [] OTHER -> "mapping"

E1Call(c) ==
  /\ Reaches(c, "idle")
  /\ Cardinality({d \in E1Calls : e1Calls[d].pc # "idle"}) < Scene.load
  /\ \E r \in Scene.requests :
       e1Calls' = [e1Calls EXCEPT ![c].request = r,
         ![c].pc = CASE r.op \in Mutations -> "exists" [] r.op = "share" -> "handles"
                     [] OTHER -> "charge"]
  /\ UNCHANGED <<documentVars, limitVars>>

\* operationRequestExists, outside the transaction: a known request is only replayed.
LooksUp(c) ==
  LET r == E1Request(c)
      known == operationRequests[RequestKey(r)]
  IN  /\ Reaches(c, "exists")
      /\ CASE known = Absent -> Goes(c, "charge")
           [] known # Absent /\ known.op # r.op -> Replies(c, "refused")
           [] OTHER -> e1Calls' = [e1Calls EXCEPT ![c].replayOnly = TRUE,
                                                  ![c].pc = AfterQuota(r)]
      /\ UNCHANGED <<documentVars, limitVars>>

\* rateAttemptHash: every read is an attempt, any other request is one once.
Attempt(c) == IF E1Request(c).op = "read" THEN <<c>> ELSE <<E1Request(c)>>

\* limitOperation takes the time before consumeRateLimit opens its transaction.
TakesTime(c) ==
  /\ Reaches(c, "charge")
  /\ e1Calls' = [e1Calls EXCEPT ![c].pc = "consume", ![c].at = e1Clock]
  /\ UNCHANGED <<documentVars, limitVars>>

SpentIn(q, window) ==
  IF rateLimits[q] # Absent /\ rateLimits[q].window = window THEN rateLimits[q].attempts ELSE {}

Consume(c) ==
  LET r == E1Request(c)
      q == Quota(r)
      window == e1Calls[c].at \div RateWindow
      spent == SpentIn(q, window)
      charge == spent \cup {Attempt(c)}
  IN  /\ Reaches(c, "consume")
      /\ \/ Attempt(c) \in spent /\ Goes(c, AfterQuota(r)) /\ UNCHANGED limitVars
         \/ /\ Attempt(c) \notin spent /\ Cardinality(spent) < RateLimit
            /\ rateLimits' = [rateLimits EXCEPT ![q] = [window |-> window, attempts |-> charge]]
            /\ admitted' = admitted \cup {[quota |-> q, window |-> window, attempt |-> Attempt(c)]}
            /\ Goes(c, AfterQuota(r))
         \/ /\ Attempt(c) \notin spent /\ Cardinality(spent) >= RateLimit
            /\ Replies(c, "refused") /\ UNCHANGED limitVars
      /\ UNCHANGED documentVars

\* readVerifiedLegacyMapping and verifiedLegacyFoundation: the user has this name,
\* or for a migration that is in conflict, none.
ReadsMapping(c) ==
  LET r == E1Request(c)
      expected == IF r.op = "freeze" /\ r.reason = "migration-manifest-conflict" THEN Absent ELSE r.name
  IN  /\ Reaches(c, "mapping")
      /\ IF legacyNames[r.uid] = expected THEN Goes(c, "transact") ELSE Replies(c, "refused")
      /\ UNCHANGED <<documentVars, limitVars>>

\* An await throws, the instance dies, or the answer does not arrive.
E1Fails(c) ==
  /\ e1Calls[c].pc \notin {"idle", "done"}
  /\ Reaches(c, e1Calls[c].pc)
  /\ Replies(c, "refused")
  /\ UNCHANGED <<documentVars, limitVars>>

----------------------------------------------------------------------------
(* The transactions of the adapter. *)

ExactAccount(r, kind) == e1Accounts[r.uid] = [kind |-> kind, name |-> r.name]
ExactHandle(r) == trainerHandles[r.name] = r.uid
ExactProvider(r) ==
  /\ ExactAccount(r, "provider") /\ ExactHandle(r)
  /\ providers[r.uid] = r.subject /\ providerSubjects[r.subject] = r.uid

\* A transaction that has no request document yet commits and writes it.  The
\* caller may not learn of it, and the callback may run again.
CommitsNew(c, op, answer) ==
  LET r == E1Request(c)
  IN  /\ Reaches(c, "transact") /\ r.op = op
      /\ operationRequests[RequestKey(r)] = Absent /\ ~e1Calls[c].replayOnly
      /\ operationRequests' = [operationRequests EXCEPT ![RequestKey(r)] = r]
      /\ \/ Replies(c, answer)
         \/ UNCHANGED e1Calls
         \/ op = "create" /\ Goes(c, "readback")
         \/ op # "create" /\ Replies(c, "refused")
      /\ UNCHANGED limitVars

CreatesAccount(r, kind) == e1Accounts' = [e1Accounts EXCEPT ![r.uid] = [kind |-> kind, name |-> r.name]]
CreatesHandle(r) == trainerHandles' = [trainerHandles EXCEPT ![r.name] = r.uid]
NoAccount(r) == e1Accounts[r.uid] = Absent
NoHandle(r) == trainerHandles[r.name] = Absent

\* replay: the same request is answered with what was recorded.
Replay(c) ==
  LET r == E1Request(c)
  IN  /\ Reaches(c, "transact")
      /\ operationRequests[RequestKey(r)] = r
      /\ r.op = "create" => ExactProvider(r)
      /\ Replies(c, "idempotent")
      /\ UNCHANGED <<documentVars, limitVars>>

\* Mutant of Certified.
CertifiedAfterCapture ==
  /\ provisioningFreeze # Absent /\ certification # Absent
  /\ certification.freezeId = provisioningFreeze.id /\ certification.expiresAt > e1Clock

\* validLegacyProvisioningFreeze, validProviderCreationCertification.
Certified ==
  /\ provisioningFreeze # Absent /\ certification # Absent
  /\ certification.freezeId = provisioningFreeze.id
  /\ certification.capturedAt >= provisioningFreeze.activatedAt
  /\ certification.expiresAt > e1Clock

CreateProvider(c) ==
  LET r == E1Request(c)
  IN  /\ CommitsNew(c, "create", "success")
      /\ Certified
      /\ NoAccount(r) /\ NoHandle(r)
      /\ providers[r.uid] = Absent /\ providerSubjects[r.subject] = Absent
      /\ CreatesAccount(r, "provider") /\ CreatesHandle(r)
      /\ providers' = [providers EXCEPT ![r.uid] = r.subject]
      /\ providerSubjects' = [providerSubjects EXCEPT ![r.subject] = r.uid]
      /\ UNCHANGED evidenceVars

\* Mutant of CanReserve.
CanReserveName(r) == NoAccount(r)

CanReserve(r) == NoAccount(r) /\ NoHandle(r)

Reserve(c) ==
  LET r == E1Request(c)
  IN  /\ \/ /\ CommitsNew(c, "reserve", "success")
            /\ CanReserve(r)
            /\ CreatesAccount(r, "legacy") /\ CreatesHandle(r)
         \/ /\ CommitsNew(c, "reserve", "idempotent")
            /\ ExactAccount(r, "legacy") /\ ExactHandle(r)
            /\ UNCHANGED foundationVars
      /\ UNCHANGED <<subjectVars, evidenceVars>>

\* A half of the foundation that is there is exactly this one.
Restorable(r) ==
  /\ NoAccount(r) \/ ExactAccount(r, "legacy")
  /\ NoHandle(r) \/ ExactHandle(r)
  /\ ~(NoAccount(r) /\ NoHandle(r))

Repair(c) ==
  LET r == E1Request(c)
  IN  /\ CommitsNew(c, "repair", "success")
      /\ RequestKey(r) \notin identityMigrations
      /\ Restorable(r)
      /\ CreatesAccount(r, "legacy") /\ CreatesHandle(r)
      /\ identityMigrations' = identityMigrations \cup {RequestKey(r)}
      /\ UNCHANGED <<subjectVars, identityConflicts>>

Migrate(c) ==
  LET r == E1Request(c)
  IN  /\ CommitsNew(c, "migrate", "success")
      /\ RequestKey(r) \notin identityMigrations
      /\ \/ /\ r.decision = "eligible" /\ NoAccount(r) /\ NoHandle(r)
         \/ /\ r.decision = "exact-already-migrated"
            /\ ExactAccount(r, "legacy") /\ ExactHandle(r)
      /\ CreatesAccount(r, "legacy") /\ CreatesHandle(r)
      /\ identityMigrations' = identityMigrations \cup {RequestKey(r)}
      /\ UNCHANGED <<subjectVars, identityConflicts>>

\* The name belongs to another user.
ConflictObserved(r) ==
  r.reason = "handle-owner-conflict" =>
    /\ trainerHandles[r.name] \notin {Absent, r.uid}
    /\ e1Accounts[r.uid] # Absent => e1Accounts[r.uid].name # r.name

FreezeConflict(c) ==
  LET r == E1Request(c)
  IN  /\ CommitsNew(c, "freeze", "success")
      /\ RequestKey(r) \notin identityConflicts
      /\ ConflictObserved(r)
      /\ identityConflicts' = identityConflicts \cup {RequestKey(r)}
      /\ UNCHANGED <<foundationVars, subjectVars, identityMigrations>>

\* The transaction of a provider account ends with an error the server does not know.
Unclear(c) ==
  /\ Reaches(c, "transact") /\ E1Request(c).op = "create"
  /\ Goes(c, "readback")
  /\ UNCHANGED <<documentVars, limitVars>>

\* Mutant of ReadsExactly.
ReadsAccountOnly(r) == ExactAccount(r, "provider")

\* readProviderAccountFoundation.
ReadsExactly(r) == ExactProvider(r)

Reconcile(c) ==
  /\ Reaches(c, "readback")
  /\ Replies(c, IF ReadsExactly(E1Request(c)) THEN "reconciled" ELSE "refused")
  /\ UNCHANGED <<documentVars, limitVars>>

----------------------------------------------------------------------------
(* Reads: the name of a favourite, of a public share or of a page of the   *)
(* directory, and a user's own foundation.                                 *)

ReadsHandles(c) ==
  LET claims == {<<n, trainerHandles[n]>> :
                   n \in {n \in E1Request(c).names : trainerHandles[n] # Absent}}
  IN  /\ Reaches(c, "handles")
      /\ IF claims = {} THEN Replies(c, "absent")
         ELSE e1Calls' = [e1Calls EXCEPT ![c].pc = "owners", ![c].seen = claims]
      /\ UNCHANGED <<documentVars, limitVars>>

ReadsOwners(c) ==
  /\ Reaches(c, "owners")
  /\ Replies(c, IF \A claim \in e1Calls[c].seen :
                     e1Accounts[claim[2]] # Absent /\ e1Accounts[claim[2]].name = claim[1]
                THEN "found" ELSE "conflict")
  /\ UNCHANGED <<documentVars, limitVars>>

ReadsAccount(c) ==
  LET account == e1Accounts[E1Request(c).uid]
  IN  /\ Reaches(c, "account")
      /\ IF account = Absent THEN Replies(c, "absent")
         ELSE e1Calls' = [e1Calls EXCEPT ![c].pc = "confirm", ![c].seen = {account}]
      /\ UNCHANGED <<documentVars, limitVars>>

ConfirmsAccount(c) ==
  LET u == E1Request(c).uid
      account == CHOOSE a \in e1Calls[c].seen : TRUE
      exact == IF account.kind = "provider"
               THEN ReadsExactly([uid |-> u, name |-> account.name, subject |-> E1Request(c).subject])
               ELSE legacyNames[u] = account.name
  IN  /\ Reaches(c, "confirm")
      /\ Replies(c, IF exact THEN "found" ELSE "conflict")
      /\ UNCHANGED <<documentVars, limitVars>>

----------------------------------------------------------------------------
(* The legacy application and the operator, one step per instant.          *)

OperatorStep ==
  /\ e1Clock < Scene.horizon
  /\ e1Clock' = e1Clock + 1
  /\ UNCHANGED <<e1Scene, e1Calls, documentVars, limitVars>>

HumanStep == OperatorStep /\ Scene.operates

\* The Rules refuse a new legacy name while their projection is frozen.
ProvisionLegacy ==
  /\ HumanStep /\ ~rulesFrozen
  /\ \E p \in Scene.provisions :
       /\ legacyNames[p[1]] = Absent
       /\ legacyNames' = [legacyNames EXCEPT ![p[1]] = p[2]]
  /\ UNCHANGED <<rulesFrozen, provisioningFreeze, inventory, certification>>

\* Activation freezes the Rules first, a release thaws them last.
FreezeRules ==
  /\ HumanStep /\ rulesFrozen' = TRUE
  /\ UNCHANGED <<legacyNames, provisioningFreeze, inventory, certification>>

ActivateFreeze ==
  /\ HumanStep /\ rulesFrozen /\ provisioningFreeze = Absent
  /\ provisioningFreeze' = [id |-> e1Clock, activatedAt |-> e1Clock]
  /\ UNCHANGED <<legacyNames, rulesFrozen, inventory, certification>>

ReleaseFreeze ==
  /\ HumanStep /\ provisioningFreeze' = Absent
  /\ UNCHANGED <<legacyNames, rulesFrozen, inventory, certification>>

ReleaseRules ==
  /\ HumanStep /\ provisioningFreeze = Absent /\ rulesFrozen' = FALSE
  /\ UNCHANGED <<legacyNames, provisioningFreeze, inventory, certification>>

\* An inventory can be certified when every legacy name it found is protected.
CaptureInventory ==
  /\ HumanStep
  /\ \A u \in Uids : legacyNames[u] # Absent => trainerHandles[legacyNames[u]] # Absent
  /\ inventory' = e1Clock
  /\ UNCHANGED <<legacyNames, rulesFrozen, provisioningFreeze, certification>>

Certify ==
  /\ HumanStep /\ provisioningFreeze # Absent /\ inventory # Absent
  /\ certification' = [freezeId |-> provisioningFreeze.id, capturedAt |-> inventory,
                       expiresAt |-> e1Clock + Validity]
  /\ UNCHANGED <<legacyNames, rulesFrozen, provisioningFreeze, inventory>>

Passes == OperatorStep /\ UNCHANGED operatorVars

Operates ==
  \/ ProvisionLegacy \/ FreezeRules \/ ActivateFreeze \/ ReleaseFreeze \/ ReleaseRules
  \/ CaptureInventory \/ Certify \/ Passes

E1Next ==
  \/ Operates
  \/ \E c \in E1Calls :
       \/ E1Call(c) \/ LooksUp(c) \/ TakesTime(c) \/ Consume(c) \/ ReadsMapping(c) \/ E1Fails(c)
       \/ CreateProvider(c) \/ Reserve(c) \/ Repair(c) \/ Migrate(c) \/ FreezeConflict(c)
       \/ Replay(c) \/ Unclear(c) \/ Reconcile(c)
       \/ ReadsHandles(c) \/ ReadsOwners(c) \/ ReadsAccount(c) \/ ConfirmsAccount(c)

E1Spec == E1Init /\ [][E1Next]_e1Vars

----------------------------------------------------------------------------
(* Properties. *)

\* A limiter document counts no more than its limit, and what it counts was admitted.
E1TypeOK ==
  /\ \A c \in E1Calls : e1Calls[c].answer \in Replied \cup {Absent}
  /\ \A k \in RequestKeys : operationRequests[k] # Absent =>
       RequestKey(operationRequests[k]) = k /\ operationRequests[k].op \in Mutations
  /\ \A q \in Quotas : rateLimits[q] # Absent =>
       /\ Cardinality(rateLimits[q].attempts) <= RateLimit
       /\ \A a \in rateLimits[q].attempts :
            [quota |-> q, window |-> rateLimits[q].window, attempt |-> a] \in admitted

\* A name, its owner's account and the Google subject are one fact, whichever
\* operations created them, apart from the halves left from before.
FoundationsAgree ==
  /\ \A u \in Uids : e1Accounts[u] # Absent =>
       \/ trainerHandles[e1Accounts[u].name] = u
       \/ u \in Scene.accounts \ Scene.handles /\ e1Accounts[u].name = Scene.legacy[u]
  /\ \A n \in Handles : trainerHandles[n] # Absent =>
       \/ e1Accounts[trainerHandles[n]] # Absent /\ e1Accounts[trainerHandles[n]].name = n
       \/ trainerHandles[n] \in Scene.handles \ Scene.accounts
  /\ \A u \in Uids : e1Accounts[u] # Absent /\ e1Accounts[u].kind = "provider" =>
       providers[u] # Absent /\ providerSubjects[providers[u]] = u
  /\ \A s \in Subjects : providerSubjects[s] # Absent => providers[providerSubjects[s]] = s

\* What a caller was told is so: at once, after a replay, after an answer that
\* was lost and read back; and a reader never takes a foundation that is being
\* written for a broken one.
AnswersAreTrue ==
  \A c \in E1Calls :
    LET r == E1Request(c)
        reply == e1Calls[c].answer
    IN  /\ reply \in {"success", "idempotent", "reconciled"} =>
             /\ reply # "reconciled" => operationRequests[RequestKey(r)] = r
             /\ r.op = "create" => ExactProvider(r)
             /\ r.op \in {"reserve", "repair", "migrate"} => ExactAccount(r, "legacy") /\ ExactHandle(r)
             /\ r.op = "freeze" /\ r.reason = "handle-owner-conflict" => ~ExactHandle(r)
        /\ reply = "found" /\ r.op # "read" => \A claim \in e1Calls[c].seen :
             trainerHandles[claim[1]] = claim[2]
        /\ reply = "conflict" /\ r.op # "read" => Scene.accounts # Scene.handles

\* Whatever was provisioned, inventoried, certified, released and frozen again,
\* a provider account never takes the name of a user of the legacy application.
ProviderNamesAreNew ==
  [][\A u \in Uids :
       e1Accounts'[u] # e1Accounts[u] /\ e1Accounts'[u].kind = "provider" =>
         \A v \in Uids : legacyNames[v] # e1Accounts'[u].name]_e1Vars

\* What the authority has written is whole: every document has its shape and names the others
\* that were written with it, whatever reservations, repairs and creations overlapped.
FoundationsHold == E1TypeOK /\ FoundationsAgree

=============================================================================
