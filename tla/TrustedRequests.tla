-------------------------- MODULE TrustedRequests --------------------------
(***************************************************************************)
(* The trusted operations of functions/src: each call runs one mutation    *)
(* under a request id (domain/idempotency.js, domain/trustedOperations.js) *)
(* on the Realtime Database (adapters/firebaseTrustedAdapter.js).          *)
(*                                                                         *)
(* The database runs a transaction atomically; every other await may be    *)
(* passed by the steps of other calls, may throw, and may be the last one  *)
(* of an instance that dies.  A request is [op, caller, id] with the       *)
(* arguments of its operation; the rest of it is data.                     *)
(***************************************************************************)
EXTENDS Integers, FiniteSets

CONSTANTS
  Operations,               \* calls of the callable functions
  Users, Names,             \* Auth UIDs and normalized trainer names
  Tags, Labels,             \* a viewer's tag ids and label keys
  MaxActiveTags, MaxActiveFavorites,
  Shares,                   \* [version, updatedAt, snapshot] of public shares
  RequestScenes,            \* by name: [requests, accounts], requests that may meet and names held before
  Nothing

\* What the validation of the arguments leaves of a request.
WellFormed(r) ==
  /\ r.caller \in Users
  /\ \/ r.op = "handle" /\ r.name \in Names
     \/ r.op = "tag" /\ r.tag \in Tags /\ r.label \in Labels
     \/ r.op = "favorite" /\ r.trainer \in Users /\ r.label \in Names
     \/ r.op = "history" /\ r.declared \in Shares
     \/ r.op = "viewer" /\ r.viewer \in Users

ASSUME TrustedAssumption ==
  /\ IsFiniteSet(Users) /\ IsFiniteSet(Operations)
  /\ MaxActiveTags \in Nat /\ MaxActiveFavorites \in Nat
  /\ Nothing \notin Users \cup Names \cup Tags
  /\ Nothing \notin [label : Labels, active : BOOLEAN, revision : Nat]
  /\ \A d \in Shares : d # Nothing /\ d.version \in Int /\ d.updatedAt \in Int

\* Names held before are held by one user each.
ASSUME SceneAssumption ==
  \A s \in DOMAIN RequestScenes :
    LET held == RequestScenes[s].accounts
    IN  /\ \A r \in RequestScenes[s].requests : WellFormed(r)
        /\ Nothing \notin [request : RequestScenes[s].requests, status : {"pending", "complete", "failed"}]
        /\ held \in [Users -> Names \cup {Nothing}]
        /\ \A u, v \in Users : held[u] = held[v] => u = v \/ held[u] = Nothing

VARIABLES
  reqScene,                 \* the scene of this behaviour, by name
  requests,                 \* trustedOperationRequests, by key
  operations,               \* the calls
  executed,                 \* history: the calls whose mutation was committed, by key
  accounts, shareDirectory, \* name of a user, owner of a name
  tags, labels,             \* trainerTags, trainerTagLabels of the viewer
  favorites,                \* favoriteTrainers of the viewer
  share, history, grants    \* trainerShares, trainerHistory, shareAccess

identityVars == <<accounts, shareDirectory>>
tagVars      == <<tags, labels>>
historyVars  == <<share, history>>
domainVars   == <<identityVars, tagVars, favorites, historyVars, grants>>
trustedVars  == <<reqScene, requests, operations, executed, domainVars>>

Key(r) == <<r.op, r.caller, r.id>>
Requested == RequestScenes[reqScene].requests
Keys == {Key(r) : r \in Requested}

Pcs == {"idle", "begin", "read", "transact", "complete", "record", "verify",
        "fail", "recordFailure", "done"}
Answers == {"ok", "replay", "refused", Nothing}

CallAt(pc, answer) == [pc |-> pc, answer |-> answer, request |-> Nothing]

TrustedInit ==
  /\ reqScene \in DOMAIN RequestScenes
  /\ requests = [k \in Keys |-> Nothing]
  /\ operations = [c \in Operations |-> CallAt("idle", Nothing)]
  /\ executed = [k \in Keys |-> {}]
  /\ accounts = RequestScenes[reqScene].accounts
  /\ shareDirectory = [n \in Names |-> IF \E u \in Users : accounts[u] = n
                                       THEN CHOOSE u \in Users : accounts[u] = n ELSE Nothing]
  /\ tags = [t \in Tags |-> Nothing] /\ labels = [l \in Labels |-> Nothing]
  /\ favorites = [u \in Users |-> Nothing]
  /\ share = Nothing /\ history = Nothing /\ grants = {}

Go(c, pc) == operations' = [operations EXCEPT ![c].pc = pc]
Answer(c, a) == operations' = [operations EXCEPT ![c] = CallAt("done", a)]
Request(c) == operations[c].request
At(c, pc) == operations[c].pc = pc

----------------------------------------------------------------------------
(* runIdempotent. *)

Call(c) ==
  /\ At(c, "idle")
  /\ \E r \in Requested :
       operations' = [operations EXCEPT ![c] =
         [pc |-> "begin", answer |-> Nothing, request |-> r]]
  /\ UNCHANGED <<reqScene, requests, executed, domainVars>>

\* Mutant of Acquires: a failed request may be executed again.
AcquiresAfterFailure(r) ==
  requests[Key(r)] # Nothing => requests[Key(r)].status = "failed"

Acquires(r) == requests[Key(r)] = Nothing

\* beginOperationRequest: one transaction; a record that is there is never replaced.
Begin(c) ==
  LET r == Request(c)
      record == requests[Key(r)]
  IN  /\ At(c, "begin")
      /\ \/ /\ Acquires(r)
            /\ requests' = [requests EXCEPT ![Key(r)] = [request |-> r, status |-> "pending"]]
            /\ Go(c, "read")
         \/ /\ ~Acquires(r)                       \* a replay, a mismatch or "in progress"
            /\ Answer(c, IF record.request = r /\ record.status = "complete"
                         THEN "replay" ELSE "refused")
            /\ UNCHANGED requests
         \/ Answer(c, "refused") /\ UNCHANGED requests
      /\ UNCHANGED <<reqScene, executed, domainVars>>

Owned(c, pc) == At(c, pc) /\ UNCHANGED <<reqScene, executed, domainVars>>

\* completeOperationRequest: read, write, read back.
Complete(c) ==
  /\ Owned(c, "complete")
  /\ requests[Key(Request(c))].status = "pending"
  /\ Go(c, "record") /\ UNCHANGED requests

RecordCompletion(c) ==
  /\ Owned(c, "record")
  /\ requests' = [requests EXCEPT ![Key(Request(c))].status = "complete"]
  /\ Go(c, "verify")

VerifyCompletion(c) ==
  /\ Owned(c, "verify")
  /\ requests[Key(Request(c))].status = "complete"
  /\ Answer(c, "ok") /\ UNCHANGED requests

\* Mutant of StillPending: any record is completed.
AnyRecord(r) == TRUE

StillPending(r) == requests[Key(r)].status = "pending"

\* failOperationRequest: read, and write unless the record has ended.
Fail(c) ==
  /\ Owned(c, "fail")
  /\ IF StillPending(Request(c)) THEN Go(c, "recordFailure") ELSE Answer(c, "refused")
  /\ UNCHANGED requests

RecordFailure(c) ==
  /\ Owned(c, "recordFailure")
  /\ requests' = [requests EXCEPT ![Key(Request(c))].status = "failed"]
  /\ Answer(c, "refused")

\* An await throws: inside the try the request is failed, in the catch it is left.
Throws(c) ==
  /\ \/ operations[c].pc \in {"read", "transact", "complete", "record", "verify"} /\ Go(c, "fail")
     \/ operations[c].pc \in {"fail", "recordFailure"} /\ Answer(c, "refused")
  /\ UNCHANGED <<reqScene, requests, executed, domainVars>>

OperationDies(c) ==
  /\ operations[c].pc \notin {"idle", "done"}
  /\ Answer(c, Nothing)
  /\ UNCHANGED <<reqScene, requests, executed, domainVars>>

----------------------------------------------------------------------------
(* What an operation reads before its transaction. *)

\* getCanonicalTrainerIdentity, isKnownAccountUid: account and claim agree.
Known(u) == accounts[u] # Nothing /\ shareDirectory[accounts[u]] = u

ReadFirst(c) ==
  LET r == Request(c)
  IN  /\ At(c, "read")
      /\ CASE r.op = "favorite" -> Known(r.trainer) /\ accounts[r.trainer] = r.label
           [] r.op = "history"  -> share = r.declared
           [] r.op = "viewer"   -> Known(r.viewer)
           [] OTHER             -> TRUE
      /\ Go(c, "transact")
      /\ UNCHANGED <<reqScene, requests, executed, domainVars>>

\* A transaction is committed, with or without a change; one that its callback
\* aborts throws, and Throws stands for it.
Commits(c, op) ==
  /\ At(c, "transact") /\ Request(c).op = op
  /\ executed' = [executed EXCEPT ![Key(Request(c))] = @ \cup {c}]
  /\ Go(c, "complete")
  /\ UNCHANGED <<reqScene, requests>>

\* Mutant of Unclaimed: a renamed tag keeps its former label claimed.
KeepsOldClaim(t, ls) == ls

NameIsFree(u, n) == accounts[u] = Nothing /\ shareDirectory[n] = Nothing

\* reserveHandleForUid: account and claim in one transaction on the root.
ReserveHandle(c) ==
  LET r == Request(c)
  IN  /\ Commits(c, "handle")
      /\ \/ NameIsFree(r.caller, r.name)
            /\ accounts' = [accounts EXCEPT ![r.caller] = r.name]
            /\ shareDirectory' = [shareDirectory EXCEPT ![r.name] = r.caller]
         \/ accounts[r.caller] = r.name /\ shareDirectory[r.name] = r.caller
            /\ UNCHANGED identityVars
      /\ UNCHANGED <<tagVars, favorites, historyVars, grants>>

ActiveTags == {t \in Tags : tags[t] # Nothing /\ tags[t].active}

\* The claims without the one this tag holds on its label.
Unclaimed(t, ls) ==
  [l \in Labels |-> IF ls[l] = t /\ tags[t].label = l THEN Nothing ELSE ls[l]]

Revision(x) == IF x = Nothing THEN 0 ELSE x.revision

ClaimTag(c) ==
  LET r == Request(c)
      tag == tags[r.tag]
      labelled == tag # Nothing /\ tag.active /\ tag.label = r.label
      claims == IF tag = Nothing THEN labels ELSE Unclaimed(r.tag, labels)
  IN  /\ Commits(c, "tag")
      /\ \/ /\ \/ r.action = "create" /\ labelled             \* as it is already
               \/ r.action = "rename" /\ labelled /\ tag.revision = r.base /\ labels[r.label] \in {r.tag, Nothing}
               \/ r.action = "soft_delete" /\ tag # Nothing /\ ~tag.active
            /\ UNCHANGED tagVars
         \/ /\ r.action = "soft_delete" /\ tag # Nothing /\ tag.active /\ tag.revision = r.base
            /\ labels' = claims
            /\ tags' = [tags EXCEPT ![r.tag].active = FALSE, ![r.tag].revision = @ + 1]
         \/ /\ \/ r.action = "create" /\ tag = Nothing /\ Cardinality(ActiveTags) < MaxActiveTags
               \/ r.action = "rename" /\ tag # Nothing /\ ~labelled
            /\ Revision(tag) = r.base
            /\ labels[r.label] \in {r.tag, Nothing}
            /\ labels' = [claims EXCEPT ![r.label] = r.tag]
            /\ tags' = [tags EXCEPT ![r.tag] =
                 [label |-> r.label, active |-> TRUE, revision |-> Revision(tag) + 1]]
      /\ UNCHANGED <<identityVars, favorites, historyVars, grants>>

----------------------------------------------------------------------------

ActiveFavorites == {u \in Users : favorites[u] # Nothing /\ ~favorites[u].deleted}

RoomFor == Cardinality(ActiveFavorites) < MaxActiveFavorites

\* mutateFavoriteForViewer; a refused one is committed unchanged, and then throws.
MutateFavorite(c) ==
  LET r == Request(c)
      current == favorites[r.trainer]
      put(deleted) == favorites' = [favorites EXCEPT ![r.trainer] =
        [name |-> IF deleted THEN current.name ELSE r.label,
         revision |-> Revision(current) + 1, deleted |-> deleted]]
  IN  /\ Commits(c, "favorite")
      /\ Revision(current) = r.base
      /\ \/ r.action = "add" /\ r.trainer \in ActiveFavorites /\ UNCHANGED favorites
         \/ r.action = "remove" /\ r.trainer \notin ActiveFavorites /\ UNCHANGED favorites
         \/ r.action = "remove" /\ r.trainer \in ActiveFavorites /\ put(TRUE)
         \/ /\ r.action = "add" /\ r.trainer \notin ActiveFavorites
            /\ RoomFor /\ put(FALSE)
      /\ UNCHANGED <<identityVars, tagVars, historyVars, grants>>

\* advanceHistoryForViewer: neither version nor time goes back, and a version
\* keeps its snapshot.
Advances(d) ==
  history # Nothing =>
    /\ d.version >= history.version /\ d.updatedAt >= history.updatedAt
    /\ d.version = history.version => d.snapshot = history.snapshot

AdvanceHistory(c) ==
  LET d == Request(c).declared
  IN  /\ Commits(c, "history")
      /\ Advances(d)
      /\ history' = IF history # Nothing /\ history.version = d.version THEN history ELSE d
      /\ UNCHANGED <<identityVars, tagVars, favorites, share, grants>>

\* setViewerGrantForOwner, for the owner who calls.
SetViewer(c) ==
  LET r == Request(c)
  IN  /\ Commits(c, "viewer")
      /\ grants' = IF r.action = "grant" THEN grants \cup {<<r.caller, r.viewer>>}
                   ELSE grants \ {<<r.caller, r.viewer>>}
      /\ UNCHANGED <<identityVars, tagVars, favorites, historyVars>>

\* The owner publishes, or an older share is restored.
ShareChanges ==
  /\ \E r \in Requested : r.op = "history"
  /\ share' \in Shares
  /\ UNCHANGED <<reqScene, requests, operations, executed, identityVars, tagVars, favorites,
                 history, grants>>

Transact(c) ==
  ReserveHandle(c) \/ ClaimTag(c) \/ MutateFavorite(c) \/ AdvanceHistory(c) \/ SetViewer(c)

TrustedNext ==
  \/ ShareChanges
  \/ \E c \in Operations :
       \/ Call(c) \/ Begin(c) \/ ReadFirst(c) \/ Transact(c)
       \/ Complete(c) \/ RecordCompletion(c) \/ VerifyCompletion(c)
       \/ Fail(c) \/ RecordFailure(c) \/ Throws(c) \/ OperationDies(c)

TrustedSpec == TrustedInit /\ [][TrustedNext]_trustedVars

----------------------------------------------------------------------------
(* Properties. *)

Owning == {"read", "transact", "complete", "record", "verify", "fail", "recordFailure"}

\* A call that got past beginOperationRequest works under the record it made.
TrustedTypeOK ==
  /\ reqScene \in DOMAIN RequestScenes
  /\ \A k \in Keys :
       requests[k] # Nothing =>
         /\ requests[k].request \in Requested /\ Key(requests[k].request) = k
         /\ requests[k].status \in {"pending", "complete", "failed"}
  /\ \A c \in Operations :
       /\ operations[c].pc \in Pcs /\ operations[c].answer \in Answers
       /\ operations[c].pc \in Owning => requests[Key(Request(c))].request = Request(c)
  /\ \A k \in Keys : executed[k] \subseteq Operations
  /\ grants \subseteq Users \X Users

\* However a request is repeated, at once or after failures and deaths, its
\* mutation is committed once.
ExecutedOnce == \A k \in Keys : Cardinality(executed[k]) <= 1

\* A request is recorded as complete only if its mutation was committed, and
\* what replays are answered with is never taken back.
CompletionIsFinal ==
  [][\A k \in Keys :
       /\ requests[k] # Nothing /\ requests[k].status = "complete" => requests'[k] = requests[k]
       /\ requests'[k] # Nothing /\ requests'[k].status = "complete" => executed'[k] # {}]_trustedVars

\* A user's account and the directory's claim are the same fact.
HandlesAgree ==
  /\ \A u \in Users : accounts[u] # Nothing => shareDirectory[accounts[u]] = u
  /\ \A n \in Names : shareDirectory[n] # Nothing => accounts[shareDirectory[n]] = n

\* Through creation, renaming, deletion and revival, the labels in use are
\* exactly those of the active tags, each claimed by one.
LabelsAgree ==
  /\ \A l \in Labels : labels[l] # Nothing =>
       tags[labels[l]].active /\ tags[labels[l]].label = l
  /\ \A t \in ActiveTags : labels[tags[t].label] = t

\* The favourites keep within their limit, and each carries its trainer's name,
\* which was read before the transaction.
FavoritesStand ==
  /\ Cardinality(ActiveFavorites) <= MaxActiveFavorites
  /\ \A u \in ActiveFavorites : accounts[u] = favorites[u].name

\* What a viewer has seen of a share never goes back, in version or in time,
\* and a version seen keeps its content.
HistoryAdvances ==
  [][history # Nothing =>
       /\ history'.version >= history.version /\ history'.updatedAt >= history.updatedAt
       /\ history'.version = history.version => history'.snapshot = history.snapshot]_trustedVars

\* Facts that are stored in two places stay one, and under the request that made them: names
\* and their claims, labels and their claims, favourites and the names of their trainers.
IndexesAgree == TrustedTypeOK /\ HandlesAgree /\ LabelsAgree /\ FavoritesStand

\* What was recorded is never taken back: the completion of a request, and what a viewer has seen.
RecordsAdvance == CompletionIsFinal /\ HistoryAdvances

\* docs/TRAINER-PREFERENCE-SYNC-READINESS.md:239: the tag transaction "also
\* enforces the true 24-active-tag limit".
TagLimit == Cardinality(ActiveTags) <= MaxActiveTags

=============================================================================
