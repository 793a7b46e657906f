---------------------------- MODULE MCServices ------------------------------
(***************************************************************************)
(* The services that share nothing with each other, in one run: a          *)
(* behaviour picks one of them and is a behaviour of that one.             *)
(***************************************************************************)
EXTENDS FavoriteQuota, TrustedRequests, E1Authority, TLC

CONSTANTS
  Parts,                          \* the services of this run
  p1, p2, p3, p4,                 \* calls
  a, b, n1, n2,                   \* users and names
  t1, t2, l1, l2, x, y,           \* tags, labels, snapshots
  s1, s2                          \* Google subjects

VARIABLE part

\* One set stands for the calls of every service, so that one symmetry serves all.
CallSymmetry == Permutations(Operations)

----------------------------------------------------------------------------
(* Trusted requests that may meet. *)

NoNames == [u \in Users |-> Nothing]
BothNamed == a :> n1 @@ b :> n2
TrustedScene(rs, as) == [requests |-> rs, accounts |-> as]

TagRequest(i, z, t, l, k) ==
  [op |-> "tag", caller |-> a, id |-> i, action |-> z, tag |-> t, label |-> l, base |-> k]
FavoriteRequest(i, z, u, n, k) ==
  [op |-> "favorite", caller |-> a, id |-> i, action |-> z, trainer |-> u, label |-> n, base |-> k]
HistoryRequest(i, d) == [op |-> "history", caller |-> a, id |-> i, declared |-> d]
ViewerRequest(i, z) == [op |-> "viewer", caller |-> a, id |-> i, action |-> z, viewer |-> b]
ShareAt(v, z, d) == [version |-> v, updatedAt |-> z, snapshot |-> d]

ShareVersions == {ShareAt(1, 1, x), ShareAt(1, 2, y), ShareAt(2, 2, y), ShareAt(2, 1, x)}

HandleScene == TrustedScene(
  {[op |-> "handle", caller |-> u, id |-> IF n = n1 THEN 1 ELSE 2, name |-> n] :
     u \in Users, n \in Names}, NoNames)
TagScene == TrustedScene(
  {TagRequest(1, "create", t1, l1, 0), TagRequest(2, "create", t2, l1, 0),
   TagRequest(2, "create", t2, l2, 0), TagRequest(2, "soft_delete", t1, l1, 1),
   TagRequest(3, "rename", t1, l2, 1), TagRequest(3, "rename", t1, l1, 2),
   TagRequest(3, "rename", t1, l2, 2)}, NoNames)
FavoriteScene == TrustedScene(
  {FavoriteRequest(1, "add", b, n2, 0), FavoriteRequest(2, "remove", b, n2, 1),
   FavoriteRequest(3, "add", b, n2, 2), FavoriteRequest(2, "add", a, n1, 0),
   FavoriteRequest(2, "add", b, n1, 0), FavoriteRequest(4, "add", a, n1, 0)}, BothNamed)
HistoryScene == TrustedScene(
  {HistoryRequest(1, ShareAt(1, 1, x)), HistoryRequest(2, ShareAt(1, 2, y)),
   HistoryRequest(3, ShareAt(2, 1, x))}, NoNames)
ViewerScene == TrustedScene({ViewerRequest(1, "grant"), ViewerRequest(2, "revoke")}, BothNamed)

TrustedScenes ==
  [viewers |-> ViewerScene, handles |-> HandleScene, tags |-> TagScene,
   favorites |-> FavoriteScene, history |-> HistoryScene]

\* A tag is created, deleted, another takes its place, and the first is renamed.
RevivalScene == TrustedScene(
  {TagRequest(1, "create", t1, l1, 0), TagRequest(2, "soft_delete", t1, l1, 1),
   TagRequest(3, "rename", t1, l1, 2), TagRequest(4, "create", t2, l2, 0)}, NoNames)
RevivalScenes == [revival |-> RevivalScene]

----------------------------------------------------------------------------
(* Requests of the authority that may meet, and the documents they meet. *)

NoLegacy == [u \in Uids |-> Absent]
LegacyName == a :> Absent @@ b :> n2

AuthorityScene(rs, n, legacy) ==
  [requests |-> rs, load |-> n, legacy |-> legacy, accounts |-> {}, handles |-> {},
   certified |-> FALSE, operates |-> FALSE, horizon |-> 0, provisions |-> {}]

Create(u, i, n, s) == [op |-> "create", uid |-> u, id |-> i, name |-> n, subject |-> s]
ReserveOf(i, n) == [op |-> "reserve", uid |-> b, id |-> i, name |-> n]
RepairOf(i) == [op |-> "repair", uid |-> b, id |-> i, name |-> n2]
MigrateOf(i, d) == [op |-> "migrate", uid |-> b, id |-> i, name |-> n2, decision |-> d]
FreezeOf(i, d) == [op |-> "freeze", uid |-> b, id |-> i, name |-> n1, reason |-> d]
ReadOf(u) == [op |-> "read", uid |-> u, id |-> 4, subject |-> s1]
Find(u, ns) == [op |-> "find", uid |-> u, id |-> 4, names |-> ns]
ShareOf(ns) == [op |-> "share", uid |-> a, id |-> 4, names |-> ns]

\* A Google user creates n1 while the operator freezes, certifies and releases.
FreezeScene ==
  [AuthorityScene({Create(a, 1, n1, s1)}, 1, NoLegacy)
     EXCEPT !.operates = TRUE, !.horizon = 7, !.provisions = {<<b, n1>>}]
ProviderScene ==
  [AuthorityScene({Create(a, 1, n1, s1), Create(a, 2, n1, s1), Create(b, 1, n1, s1),
                   Create(a, 2, n1, s2), ReadOf(a), Find(b, {n1, n2})}, 3, NoLegacy)
     EXCEPT !.certified = TRUE]
LegacyScene ==
  AuthorityScene({ReserveOf(1, n2), ReserveOf(2, n2), RepairOf(2), MigrateOf(3, "eligible"),
                  MigrateOf(1, "exact-already-migrated"), ShareOf({n1, n2}), Find(a, {n2})},
                 3, LegacyName)
HalfScene(accountsOf, handlesOf) ==
  [AuthorityScene({ReserveOf(1, n2), RepairOf(2), RepairOf(3), MigrateOf(2, "eligible"), ShareOf({n2})},
                  3, LegacyName) EXCEPT !.accounts = accountsOf, !.handles = handlesOf]
ConflictScene ==
  [AuthorityScene({Create(a, 1, n1, s1), ReserveOf(1, n1), FreezeOf(2, "handle-owner-conflict"),
                   FreezeOf(1, "migration-manifest-conflict")}, 2, NoLegacy)
     EXCEPT !.certified = TRUE, !.operates = TRUE, !.horizon = 2, !.provisions = {<<b, n1>>}]
\* One name, wanted by a new user and reserved for the user whom the operator
\* provisions with it.
RivalScene ==
  [AuthorityScene({Create(a, 1, n1, s1), ReserveOf(1, n1)}, 2, NoLegacy)
     EXCEPT !.certified = TRUE, !.operates = TRUE, !.horizon = 3, !.provisions = {<<b, n1>>}]
QuotaScene ==
  [AuthorityScene({ReserveOf(1, n2), ReadOf(b)}, 3, LegacyName)
     EXCEPT !.horizon = 2]

ServiceScenes ==
  [freeze |-> FreezeScene, provider |-> ProviderScene, legacy |-> LegacyScene,
   accountOnly |-> HalfScene({b}, {}), handleOnly |-> HalfScene({}, {b}),
   conflict |-> ConflictScene, rival |-> RivalScene, quota |-> QuotaScene]

----------------------------------------------------------------------------

ServiceInit ==
  /\ part \in Parts
  /\ QuotaInit /\ TrustedInit /\ E1Init
  /\ part # "trusted" => reqScene = CHOOSE s \in DOMAIN RequestScenes : TRUE
  /\ part # "authority" => e1Scene = CHOOSE s \in DOMAIN AuthorityScenes : TRUE

ServiceNext ==
  /\ UNCHANGED part
  /\ \/ part = "quota" /\ QuotaNext /\ UNCHANGED <<trustedVars, e1Vars>>
     \/ part = "trusted" /\ TrustedNext /\ UNCHANGED <<quotaVars, e1Vars>>
     \/ part = "authority" /\ E1Next /\ UNCHANGED <<quotaVars, trustedVars>>

ServiceSpec ==
  ServiceInit /\ [][ServiceNext]_<<part, quotaVars, trustedVars, e1Vars>>
=============================================================================
