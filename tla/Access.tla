-------------------------------- MODULE Access --------------------------------
(***************************************************************************)
(* Who may do what: API keys (api_keys.rs) with their memory copy and      *)
(* their file, service accounts (service_accounts.rs), the principal made  *)
(* of a credential (authentication.rs), collection claims and permissions  *)
(* (authorization.rs), the per-route checks in front of every handler      *)
(* (authorization_http.rs, authorization.rs, job_access.rs) and the        *)
(* requests that pass through them while administrators change all of it.  *)
(*                                                                         *)
(* Server in required mode.  The control plane is an environment here      *)
(* (module ControlPlane): a project is active or not.  Whether governance  *)
(* admits a request is a free choice (module Governance).                  *)
(***************************************************************************)
EXTENDS Integers, FiniteSets

CONSTANTS
    Keys, Accounts, Projects, Collections, Requests,
    Routes,          \* the routes requests take
    MaxCollections,  \* ProjectQuota.max_collections of every project
    MaxEvents        \* bound: administrative operations, requests and faults together

AllRoutes == {"create", "list", "read", "query", "write", "delete", "job", "cancel"}

None == "none"

ASSUME AccessConstants ==
    /\ Routes \subseteq AllRoutes
    /\ IsFiniteSet(Collections) /\ IsFiniteSet(Requests)
    /\ None \notin Projects
    /\ MaxCollections \in Nat \ {0}
    /\ MaxEvents \in Nat

Roles == {"owner", "editor", "reader"}
Permissions == {"admin", "write", "read"}
Subjects == Keys \cup Accounts

VARIABLES
    active,      \* projects the control plane has as active
    accounts,    \* service-accounts.json: id -> [on, roles], or None
    memKeys,     \* ApiKeyStore.state
    diskKeys,    \* api-keys.json
    minted,      \* secrets generated so far, per key
    known,       \* secrets handed to a client, as <<key, secret>>
    withdrawn,   \* secrets an acknowledged revoke or rotate took back
    memPolicy,   \* AuthorizationService.state: [scoped, legacy]
    diskPolicy,  \* authorization.json
    scopes,      \* the namespace catalog: <<project, name>> of existing collections
    req,         \* the requests
    held,        \* history: roles each request's account has had since it arrived
    raced,       \* history: projects where two creations passed the quota side by side
    events

keyVars == <<memKeys, diskKeys, minted, known, withdrawn>>
policyVars == <<memPolicy, diskPolicy, scopes>>
requestVars == <<req, held, raced>>
accessVars == <<active, accounts, keyVars, policyVars, requestVars, events>>

NoAccount == [on |-> FALSE, roles |-> [p \in Projects |-> None], exists |-> FALSE]
NoKey == [project |-> None, account |-> None, secret |-> 0, revoked |-> FALSE,
          expired |-> FALSE]
FreshKey(p, a) ==
    [project |-> p, account |-> a, secret |-> 1, revoked |-> FALSE, expired |-> FALSE]
NoPrincipal == [subject |-> None, project |-> None, role |-> None]
NoClaim == [s \in Subjects |-> "unclaimed"]
FreshClaim == [s \in Subjects |-> None]
IdleRequest == [pc |-> "idle", key |-> None, secret |-> 0, header |-> None,
                route |-> None, coll |-> None, who |-> NoPrincipal]

-----------------------------------------------------------------------------
(* Decisions *)

\* ServiceAccountStore::authorize_project: the role, or None when it fails.
AccountRole(a, p) ==
    IF accounts[a].exists /\ accounts[a].on /\ p \in active
    THEN accounts[a].roles[p] ELSE None

\* validate_active
KeyValid(key) == ~key.revoked /\ ~key.expired

\* resolve_service_account_role succeeds
RoleResolved(key) ==
    key.account # None => AccountRole(key.account, key.project) # None

\* The principal of a key: an account acts with its role, a plain key without one.
\* Mutant: every credential becomes a plain workload principal.
PlainPrincipal(k) ==
    [subject |-> k, project |-> memKeys[k].project, role |-> None]
PrincipalOf(k) ==
    LET key == memKeys[k]
    IN  IF key.account = None
        THEN [subject |-> k, project |-> key.project, role |-> None]
        ELSE [subject |-> key.account, project |-> key.project,
              role |-> AccountRole(key.account, key.project)]

\* authenticate_token
Authentic(k, secret) ==
    LET key == memKeys[k]
    IN  /\ key # NoKey
        /\ KeyValid(key)
        /\ key.project \in active
        /\ RoleResolved(key)
        /\ key.secret = secret

\* The action a route asks for (the two http_authorize functions).
RouteAction ==
    [create |-> "create", list |-> "discover", read |-> "read", query |-> "read",
     write |-> "write", delete |-> "delete", job |-> "read", cancel |-> "write"]

RoleAllows(role, action) ==
    CASE role = "owner"  -> TRUE
      [] role = "editor" -> action # "project_admin"
      [] role = "reader" -> action \in {"discover", "read"}

PermissionAllows(permission, action) ==
    CASE permission = "admin" -> action # "project_admin"
      [] permission = "write" -> action \in {"discover", "read", "write"}
      [] permission = "read"  -> action \in {"discover", "read"}

\* AuthorizationService::authorize_project for a workload credential
MayInProject(who, action, p) ==
    /\ p \in active
    /\ who.project = p
    /\ who.role # None => RoleAllows(who.role, action)

\* The policy entry of a collection: the scoped one, or a legacy one of the project.
Entry(p, c) ==
    IF memPolicy.scoped[p][c] # NoClaim THEN memPolicy.scoped[p][c]
    ELSE IF memPolicy.legacy[c] = p THEN FreshClaim ELSE NoClaim

\* authorize_collection_in_project: a permission can only take away.
MayInCollection(who, action, c) ==
    LET entry == Entry(who.project, c)
    IN  /\ MayInProject(who, action, who.project)
        /\ entry # NoClaim
        /\ entry[who.subject] # None => PermissionAllows(entry[who.subject], action)

\* apply_explicit_project_context for a workload credential
ContextAccepted(who, header) == header = None \/ header = who.project

\* job_project: jobs of collections the catalog does not know belong to no project here.
JobVisible(who, c) == <<who.project, c>> \in scopes

\* What the middleware decides before governance, per family of routes.
ProjectRouteAllowed(who, route) == MayInProject(who, RouteAction[route], who.project)
CollectionRouteAllowed(who, route, c) == MayInCollection(who, RouteAction[route], c)
QueryRouteAllowed(who, c) == MayInCollection(who, "read", c)
JobRouteAllowed(who, route, c) ==
    MayInProject(who, RouteAction[route], who.project) /\ JobVisible(who, c)

RouteAllowed(who, route, c) ==
    CASE route \in {"create", "list"} -> ProjectRouteAllowed(who, route)
      [] route \in {"job", "cancel"}  -> JobRouteAllowed(who, route, c)
      [] route = "query"              -> QueryRouteAllowed(who, c)
      [] OTHER                        -> CollectionRouteAllowed(who, route, c)

\* project_collection_count
ClaimCount(p) ==
    Cardinality({c \in Collections : memPolicy.scoped[p][c] # NoClaim})
    + Cardinality({c \in Collections : memPolicy.legacy[c] = p})

\* check_collection_quota(project, current, 1)
WithinQuota(p) == ClaimCount(p) + 1 <= MaxCollections

-----------------------------------------------------------------------------
(* Administration.  Keys and policies change in memory first and are then    *)
(* persisted whole; accounts are persisted first, so a failure changes       *)
(* nothing.                                                                  *)

\* An installation with an account that may read one project.
AccessInit ==
    /\ active = Projects
    /\ \E p \in Projects, owners \in [Keys -> Accounts \cup {None, "unissued"}] :
         /\ accounts = [a \in Accounts |-> [exists |-> TRUE, on |-> TRUE,
                          roles |-> [q \in Projects |-> IF q = p THEN "reader" ELSE None]]]
         /\ memKeys = [k \in Keys |-> IF owners[k] = "unissued" THEN NoKey
                          ELSE FreshKey(p, owners[k])]
    /\ diskKeys = memKeys
    /\ minted = [k \in Keys |-> memKeys[k].secret]
    /\ known = {<<k, 1>> : k \in {j \in Keys : memKeys[j] # NoKey}}
    /\ withdrawn = {}
    /\ \E old \in [Collections -> Projects \cup {None}] :
         /\ Cardinality({c \in Collections : old[c] # None}) <= 1
         /\ memPolicy = [scoped |-> [p \in Projects |-> [c \in Collections |-> NoClaim]],
                         legacy |-> old]
         /\ scopes = {<<old[c], c>> : c \in {d \in Collections : old[d] # None}}
    /\ diskPolicy = memPolicy
    /\ req = [r \in Requests |-> IdleRequest]
    /\ held = [r \in Requests |-> {}] /\ raced = {}
    /\ events = 0

Spend(n) == events + n <= MaxEvents /\ events' = events + n

\* The role of a key's account, active or not; a plain key has none.
RolesNow(key) ==
    IF key.account = None THEN {} ELSE {accounts[key.account].roles[key.project]}

\* Requests in flight remember the roles their account comes to have.
Remember ==
    held' = [r \in Requests |->
        LET k == req[r].key
        IN  IF req[r].pc = "idle" \/ memKeys[k].account = None THEN held[r]
            ELSE held[r] \cup {accounts'[memKeys[k].account].roles[memKeys[k].project]}]

ChangeProject(p) ==
    /\ Spend(1)
    /\ active' = IF p \in active THEN active \ {p} ELSE active \cup {p}
    /\ UNCHANGED <<accounts, keyVars, policyVars, requestVars>>

SetAccount(a, account) ==
    /\ Spend(1)
    /\ accounts' = [accounts EXCEPT ![a] = account]
    /\ Remember
    /\ UNCHANGED <<active, keyVars, policyVars, req, raced>>

CreateAccount(a) ==
    /\ ~accounts[a].exists
    /\ SetAccount(a, [NoAccount EXCEPT !.exists = TRUE, !.on = TRUE])
SetLifecycle(a) ==
    /\ accounts[a].exists
    /\ SetAccount(a, [accounts[a] EXCEPT !.on = ~@])
DeleteAccount(a) ==
    /\ accounts[a].exists
    /\ SetAccount(a, NoAccount)
AssignProject(a, p, role) ==
    /\ p \in active /\ accounts[a].exists
    /\ SetAccount(a, [accounts[a] EXCEPT !.roles[p] = role])
RemoveAssignment(a, p) ==
    /\ accounts[a].exists /\ accounts[a].roles[p] # None
    /\ SetAccount(a, [accounts[a] EXCEPT !.roles[p] = None])

\* persist: the whole memory copy replaces the file, or an error is returned.
PersistKeys(keys, acknowledged) ==
    /\ memKeys' = keys
    /\ \/ Spend(1) /\ diskKeys' = keys /\ acknowledged
       \/ Spend(1) /\ UNCHANGED <<diskKeys, known, withdrawn>>

\* create, create_for_service_account
CreateKey(k, p, a) ==
    /\ memKeys[k] = NoKey /\ minted[k] = 0
    /\ p \in active
    /\ a # None => AccountRole(a, p) # None
    /\ minted' = [minted EXCEPT ![k] = 1]
    /\ PersistKeys([memKeys EXCEPT ![k] = FreshKey(p, a)],
                   known' = known \cup {<<k, 1>>} /\ UNCHANGED withdrawn)
    /\ UNCHANGED <<active, accounts, policyVars, requestVars>>

Withdraw(k, secrets) ==
    /\ withdrawn' = withdrawn \cup {<<k, s>> : s \in secrets}
    /\ UNCHANGED known

\* Mutant: a key that is revoked already needs no second persist.
RevokeOnce(k) ==
    /\ memKeys[k] # NoKey
    /\ IF memKeys[k].revoked
       THEN Withdraw(k, 1..minted[k]) /\ Spend(1) /\ UNCHANGED <<memKeys, diskKeys>>
       ELSE PersistKeys([memKeys EXCEPT ![k].revoked = TRUE], Withdraw(k, 1..minted[k]))
    /\ UNCHANGED <<active, accounts, minted, policyVars, requestVars>>
Revoke(k) ==
    /\ memKeys[k] # NoKey
    /\ PersistKeys([memKeys EXCEPT ![k].revoked = TRUE], Withdraw(k, 1..minted[k]))
    /\ UNCHANGED <<active, accounts, minted, policyVars, requestVars>>

Rotate(k) ==
    LET secret == minted[k] + 1
    IN  /\ memKeys[k] # NoKey /\ KeyValid(memKeys[k])
        /\ memKeys[k].project \in active /\ RoleResolved(memKeys[k])
        /\ minted' = [minted EXCEPT ![k] = secret]
        /\ PersistKeys([memKeys EXCEPT ![k].secret = secret],
                       /\ known' = known \cup {<<k, secret>>}
                       /\ withdrawn' = withdrawn \cup {<<k, s>> : s \in 1..(secret - 1)})
        /\ UNCHANGED <<active, accounts, policyVars, requestVars>>

\* Time passes expires_at_unix, in memory and on disk alike.
Expire(k) ==
    /\ Spend(1)
    /\ memKeys[k] # NoKey /\ ~memKeys[k].expired
    /\ memKeys' = [memKeys EXCEPT ![k].expired = TRUE]
    /\ diskKeys' = [diskKeys EXCEPT ![k] = IF @ = NoKey THEN @ ELSE [@ EXCEPT !.expired = TRUE]]
    /\ UNCHANGED <<active, accounts, minted, known, withdrawn, policyVars, requestVars>>

PersistPolicy(policy, n) ==
    /\ memPolicy' = policy
    /\ \/ diskPolicy' = policy /\ Spend(n)
       \/ UNCHANGED diskPolicy /\ Spend(n + 1)

SetCollectionPermission(p, c, subject, permission) ==
    /\ memPolicy.scoped[p][c] # NoClaim
    /\ PersistPolicy([memPolicy EXCEPT !.scoped[p][c][subject] = permission], 1)
    /\ UNCHANGED <<active, accounts, keyVars, scopes, requestVars>>

\* The process stops and both stores are read again.
Restart ==
    /\ Spend(1)
    /\ memKeys' = diskKeys /\ memPolicy' = diskPolicy
    /\ req' = [r \in Requests |-> IdleRequest] /\ held' = [r \in Requests |-> {}]
    /\ UNCHANGED <<active, accounts, diskKeys, minted, known, withdrawn, diskPolicy,
                   scopes, raced>>

-----------------------------------------------------------------------------
(* Requests *)

\* A refused or answered request leaves nothing behind.
Finish(r) == req' = [req EXCEPT ![r] = IdleRequest]
ToStage(r, pc) ==
    IF pc = "idle" THEN Finish(r) ELSE req' = [req EXCEPT ![r].pc = pc]

NewRequest(cred, header, route, c) ==
    [pc |-> "authenticate", key |-> cred[1], secret |-> cred[2], header |-> header,
     route |-> route, coll |-> IF route = "list" THEN None ELSE c, who |-> NoPrincipal]

Arrive(r) ==
    /\ req[r].pc = "idle" /\ Spend(1)
    /\ \E cred \in known, route \in Routes, c \in Collections,
          header \in Projects \cup {None} :
         /\ header = None \/ route = "list"
         /\ req' = [req EXCEPT ![r] = NewRequest(cred, header, route, c)]
         /\ held' = [held EXCEPT ![r] = RolesNow(memKeys[cred[1]])]
    /\ UNCHANGED <<active, accounts, keyVars, policyVars, raced>>

\* http_authenticate, grpc_authenticate
Authenticate(r) ==
    /\ req[r].pc = "authenticate"
    /\ IF Authentic(req[r].key, req[r].secret)
       THEN req' = [req EXCEPT ![r].pc = "authorize", ![r].who = PrincipalOf(req[r].key)]
       ELSE ToStage(r, "idle")
    /\ UNCHANGED <<active, accounts, keyVars, policyVars, held, raced, events>>

\* The route's authorization, then governance.admit, which may refuse.
Authorize(r) ==
    /\ req[r].pc = "authorize"
    /\ \/ /\ ContextAccepted(req[r].who, req[r].header)
          /\ RouteAllowed(req[r].who, req[r].route, req[r].coll)
          /\ ToStage(r, IF req[r].route = "create" THEN "quota" ELSE "handler")
       \/ ToStage(r, "idle")
    /\ UNCHANGED <<active, accounts, keyVars, policyVars, held, raced, events>>

CheckQuota(r) ==
    LET p == req[r].who.project
        passed == {o \in Requests \ {r} : req[o].who.project = p /\ req[o].route = "create"
                                         /\ req[o].pc \in {"handler", "claim"}}
    IN  /\ req[r].pc = "quota"
        /\ ToStage(r, IF WithinQuota(p) THEN "handler" ELSE "idle")
        /\ raced' = IF WithinQuota(p) /\ passed # {} THEN raced \cup {p} ELSE raced
        /\ UNCHANGED <<active, accounts, keyVars, policyVars, held, events>>

\* Handlers that leave the policy alone.
Handle(r) ==
    /\ req[r].pc = "handler" /\ req[r].route \notin {"create", "delete"}
    /\ ToStage(r, "idle")
    /\ UNCHANGED <<active, accounts, keyVars, policyVars, held, raced, events>>

\* create_scope refuses a name the project has.
CreateScope(r) ==
    LET p == req[r].who.project  c == req[r].coll
    IN  /\ req[r].pc = "handler" /\ req[r].route = "create"
        /\ IF <<p, c>> \in scopes THEN ToStage(r, "idle") /\ UNCHANGED scopes
           ELSE scopes' = scopes \cup {<<p, c>>} /\ ToStage(r, "claim")
        /\ UNCHANGED <<active, accounts, keyVars, memPolicy, diskPolicy, held, raced, events>>

\* claim_collection authorizes again; its error removes the scope.
Claim(r) ==
    LET p == req[r].who.project  c == req[r].coll
        refused == ToStage(r, "idle") /\ scopes' = scopes \ {<<p, c>>}
    IN  /\ req[r].pc = "claim"
        /\ \/ /\ ~MayInProject(req[r].who, "create", p)
              /\ refused
              /\ UNCHANGED <<memPolicy, diskPolicy, events>>
           \/ /\ MayInProject(req[r].who, "create", p)
              /\ memPolicy.scoped[p][c] # NoClaim
              /\ ToStage(r, "existing")
              /\ UNCHANGED <<policyVars, events>>
           \/ /\ MayInProject(req[r].who, "create", p)
              /\ memPolicy.scoped[p][c] = NoClaim
              /\ PersistPolicy([memPolicy EXCEPT !.scoped[p][c] = FreshClaim], 0)
              /\ IF events' = events THEN ToStage(r, "inserted") /\ UNCHANGED scopes
                 ELSE refused
        /\ UNCHANGED <<active, accounts, keyVars, held, raced>>

\* The collection is built, or the building fails: an inserted claim is released and the
\* scope removed, errors of both ignored.
Create(r) ==
    LET p == req[r].who.project  c == req[r].coll
    IN  /\ req[r].pc \in {"inserted", "existing"}
        /\ ToStage(r, "idle")
        /\ \/ UNCHANGED <<policyVars, events>>
           \/ /\ scopes' = scopes \ {<<p, c>>}
              /\ IF req[r].pc = "inserted"
                 THEN PersistPolicy([memPolicy EXCEPT !.scoped[p][c] = NoClaim], 0)
                 ELSE UNCHANGED <<memPolicy, diskPolicy, events>>
        /\ UNCHANGED <<active, accounts, keyVars, held, raced>>

\* delete: the data is gone, then remove_collection (authorizing again), then the scope.
Delete(r) ==
    LET p == req[r].who.project  c == req[r].coll
    IN  /\ req[r].pc = "handler" /\ req[r].route = "delete"
        /\ IF MayInCollection(req[r].who, "delete", c)
           THEN /\ PersistPolicy([memPolicy EXCEPT !.scoped[p][c] = NoClaim,
                                     !.legacy[c] = IF @ = p THEN None ELSE @], 0)
                /\ scopes' = IF events' = events THEN scopes \ {<<p, c>>} ELSE scopes
           ELSE UNCHANGED <<policyVars, events>>
        /\ ToStage(r, "idle")
        /\ UNCHANGED <<active, accounts, keyVars, held, raced>>

AccessNext ==
    \/ \E p \in Projects : ChangeProject(p)
    \/ \E a \in Accounts : CreateAccount(a) \/ SetLifecycle(a) \/ DeleteAccount(a)
    \/ \E a \in Accounts, p \in Projects :
         RemoveAssignment(a, p) \/ \E role \in Roles : AssignProject(a, p, role)
    \/ \E k \in Keys : Revoke(k) \/ Rotate(k) \/ Expire(k)
    \/ \E k \in Keys, p \in Projects, a \in Accounts \cup {None} : CreateKey(k, p, a)
    \/ \E p \in Projects, c \in Collections, s \in Subjects, m \in Permissions :
         SetCollectionPermission(p, c, s, m)
    \/ Restart
    \/ \E r \in Requests :
         \/ Arrive(r) \/ Authenticate(r) \/ Authorize(r) \/ CheckQuota(r) \/ Handle(r)
         \/ CreateScope(r) \/ Claim(r) \/ Create(r) \/ Delete(r)

AccessSpec == AccessInit /\ [][AccessNext]_accessVars

-----------------------------------------------------------------------------
(* Properties *)

\* Every variable has its shape, and a deleted service account keeps no role it could come back
\* with (service_accounts.rs).
AccessTypeOK ==
    /\ active \subseteq Projects
    /\ \A a \in Accounts : accounts[a].roles \in [Projects -> Roles \cup {None}]
    /\ \A a \in Accounts : accounts[a].exists \/ accounts[a] = NoAccount
    /\ \A k \in Keys : {memKeys[k].project, diskKeys[k].project} \subseteq Projects \cup {None}
    /\ memPolicy.legacy \in [Collections -> Projects \cup {None}]
    /\ scopes \subseteq Projects \X Collections
    /\ \A r \in Requests : req[r].route \in Routes \cup {None} /\ held[r] \subseteq Roles \cup {None}

\* Once revoke or rotate (api_keys.rs) has returned Ok, no request is authenticated with a
\* secret it withdrew, whatever fails to persist before and however often the server
\* restarts after.
WithdrawnSecretsRejected ==
    [][\A r \in Requests :
         req[r].pc = "authenticate" /\ req'[r].pc = "authorize"
           => <<req[r].key, req[r].secret>> \notin withdrawn]_accessVars

\* A request of a service account's key that reaches its handler was covered by a role
\* the account held at some moment since the request arrived (authorization.rs
\* project_role_allows_action on the role api_keys.rs resolved).
AuthorityWasHeld ==
    \A r \in Requests :
      /\ req[r].pc \notin {"idle", "authenticate", "authorize"}
      /\ req[r].key # None /\ memKeys[req[r].key].account # None
      => \E role \in held[r] \cap Roles : RoleAllows(role, RouteAction[req[r].route])

\* http_authorize counts the claims long before the handler inserts one; a project has
\* more collections than its quota only after two creations passed that check side by
\* side: failed persists, released claims and restarts never add one.
QuotaExceededOnlyByRace ==
    \A p \in Projects : ClaimCount(p) > MaxCollections => p \in raced

\* Nobody acts without authority held during the request (AuthorityWasHeld), and the collection
\* quota is exceeded only by creations that raced (QuotaExceededOnlyByRace).
AccessInv == AccessTypeOK /\ AuthorityWasHeld /\ QuotaExceededOnlyByRace
=============================================================================
