----------------------------- MODULE AccessProofs -----------------------------
(***************************************************************************)
(* Proofs about Access for any sets of keys, accounts, projects,           *)
(* collections and requests, any quota and any number of events.           *)
(***************************************************************************)
EXTENDS Access, FiniteSetTheorems, TLAPS

-----------------------------------------------------------------------------
(* The inductive invariant *)

IssuedKey ==
    [project : Projects, account : Accounts \cup {None}, secret : Nat \ {0},
     revoked : BOOLEAN, expired : BOOLEAN]
AccountRecord == [on : BOOLEAN, roles : [Projects -> Roles \cup {None}], exists : BOOLEAN]
ClaimMap == [Subjects -> Permissions \cup {None, "unclaimed"}]
Policy ==
    [scoped : [Projects -> [Collections -> ClaimMap]],
     legacy : [Collections -> Projects \cup {None}]]
Principal ==
    [subject : Subjects \cup {None}, project : Projects \cup {None}, role : Roles \cup {None}]
Stages == {"idle", "authenticate", "authorize", "quota", "handler", "claim", "inserted", "existing"}
RequestRecord ==
    [pc : Stages, key : Keys \cup {None}, secret : Nat, header : Projects \cup {None},
     route : Routes \cup {None}, coll : Collections \cup {None}, who : Principal]

\* Administration: service accounts and projects.
AccountsShape ==
    /\ active \subseteq Projects
    /\ accounts \in [Accounts -> AccountRecord]
    /\ \A a \in Accounts : accounts[a].exists \/ accounts[a] = NoAccount

\* A key is on disk only if it is in memory, for the same account and project; no secret is
\* ahead of those that were generated.
KeysShape ==
    /\ minted \in [Keys -> Nat]
    /\ memKeys \in [Keys -> {NoKey} \cup IssuedKey]
    /\ diskKeys \in [Keys -> {NoKey} \cup IssuedKey]
    /\ known \subseteq Keys \X Nat
    /\ withdrawn \subseteq Keys \X Nat
KeysAgree ==
    /\ \A k \in Keys : memKeys[k].secret <= minted[k] /\ diskKeys[k].secret <= minted[k]
    /\ \A k \in Keys : diskKeys[k] # NoKey =>
         /\ memKeys[k] # NoKey
         /\ memKeys[k].account = diskKeys[k].account
         /\ memKeys[k].project = diskKeys[k].project
    /\ \A cred \in known : diskKeys[cred[1]] # NoKey

\* A secret that was taken back opens neither copy of its key.
Dead(key, secret) == key # NoKey => key.revoked \/ secret < key.secret
WithdrawnDead ==
    \A cred \in withdrawn :
      /\ cred[2] \in 1 .. minted[cred[1]]
      /\ Dead(memKeys[cred[1]], cred[2])
      /\ Dead(diskKeys[cred[1]], cred[2])

PoliciesShape ==
    /\ memPolicy \in Policy
    /\ diskPolicy \in Policy
    /\ scopes \subseteq Projects \X Collections

\* What the stage of a request says about it.
RequestsShape ==
    /\ req \in [Requests -> RequestRecord]
    /\ \A r \in Requests :
         /\ req[r].pc # "idle" =>
              /\ req[r].key \in Keys
              /\ memKeys[req[r].key] # NoKey
              /\ req[r].route \in Routes
              /\ req[r].route # "list" => req[r].coll \in Collections
         /\ req[r].pc \notin {"idle", "authenticate"} => req[r].who.project \in Projects
         /\ req[r].pc \in {"quota", "claim", "inserted", "existing"} => req[r].route = "create"

\* A request of an account's key knows the account's present role, and acts with one it knows.
RolesHeld ==
    /\ held \in [Requests -> SUBSET (Roles \cup {None})]
    /\ \A r \in Requests :
         LET key == memKeys[req[r].key]
         IN  req[r].pc # "idle" /\ key.account # None =>
               /\ accounts[key.account].roles[key.project] \in held[r]
               /\ req[r].pc # "authenticate" => req[r].who.role \in held[r] \cap Roles
               /\ req[r].pc \notin {"authenticate", "authorize"} =>
                    RoleAllows(req[r].who.role, RouteAction[req[r].route])

\* Until two creations of a project have raced, its claims and the creations that passed the
\* quota keep to the quota together, and so do the claims on disk.
Scoped(policy, p) == {c \in Collections : policy.scoped[p][c] # NoClaim}
Legacy(policy, p) == {c \in Collections : policy.legacy[c] = p}
Claims(policy, p) == Cardinality(Scoped(policy, p)) + Cardinality(Legacy(policy, p))
Creating(p) ==
    {r \in Requests : req[r].who.project = p /\ req[r].route = "create"
                       /\ req[r].pc \in {"handler", "claim"}}
QuotaKept ==
    \A p \in Projects : p \notin raced =>
      /\ Claims(memPolicy, p) + Cardinality(Creating(p)) <= MaxCollections
      /\ Claims(diskPolicy, p) <= MaxCollections

AccessIInv ==
    /\ AccountsShape /\ KeysShape /\ KeysAgree /\ WithdrawnDead
    /\ PoliciesShape /\ RequestsShape /\ RolesHeld /\ QuotaKept

-----------------------------------------------------------------------------
(* The kinds of steps *)

\* The five operations on service accounts replace one account by a well-formed one.
LEMMA AccountSteps ==
    ASSUME AccountsShape, NEW a \in Accounts,
           \/ CreateAccount(a) \/ SetLifecycle(a) \/ DeleteAccount(a)
           \/ \E p \in Projects : RemoveAssignment(a, p) \/ \E role \in Roles : AssignProject(a, p, role)
    PROVE  \E account \in AccountRecord :
             (account.exists \/ account = NoAccount) /\ SetAccount(a, account)
<1> USE DEF AccountsShape, AccountRecord, NoAccount
<1>0. accounts[a] \in AccountRecord
  OBVIOUS
<1>1. CASE CreateAccount(a)
  BY <1>1 DEF CreateAccount
<1>2. CASE SetLifecycle(a)
  <2> DEFINE new == [accounts[a] EXCEPT !.on = ~accounts[a].on]
  <2>1. new \in AccountRecord /\ new.exists
    BY <1>0, <1>2 DEF SetLifecycle
  <2> QED BY <1>2, <2>1 DEF SetLifecycle
<1>3. CASE DeleteAccount(a)
  BY <1>3 DEF DeleteAccount
<1>4. ASSUME NEW p \in Projects, NEW role \in Roles \cup {None}, accounts[a].exists,
             SetAccount(a, [accounts[a] EXCEPT !.roles[p] = role])
      PROVE  \E account \in AccountRecord :
                (account.exists \/ account = NoAccount) /\ SetAccount(a, account)
  <2>1. [accounts[a] EXCEPT !.roles[p] = role] \in AccountRecord
    BY <1>0
  <2>2. [accounts[a] EXCEPT !.roles[p] = role].exists
    BY <1>0, <1>4
  <2> QED BY <1>4, <2>1, <2>2
<1> QED BY <1>1, <1>2, <1>3, <1>4 DEF RemoveAssignment, AssignProject

\* A step is one operation, or changes nothing.
LEMMA StepKinds ==
    ASSUME AccountsShape, [AccessNext]_accessVars
    PROVE  \/ \E p \in Projects : ChangeProject(p)
           \/ \E a \in Accounts, account \in AccountRecord :
                (account.exists \/ account = NoAccount) /\ SetAccount(a, account)
           \/ \E k \in Keys : Revoke(k) \/ Rotate(k) \/ Expire(k)
           \/ \E k \in Keys, p \in Projects, a \in Accounts \cup {None} : CreateKey(k, p, a)
           \/ \E p \in Projects, c \in Collections, s \in Subjects, m \in Permissions :
                SetCollectionPermission(p, c, s, m)
           \/ Restart
           \/ \E r \in Requests :
                \/ Arrive(r) \/ Authenticate(r) \/ Authorize(r) \/ CheckQuota(r) \/ Handle(r)
                \/ CreateScope(r) \/ Claim(r) \/ Create(r) \/ Delete(r)
           \/ UNCHANGED accessVars
  BY AccountSteps DEF AccessNext

-----------------------------------------------------------------------------
(* What the operations on keys do to the map of keys *)

KeyMap == [Keys -> {NoKey} \cup IssuedKey]

\* The keys of a later map belong to the accounts and projects they belonged to, and none
\* appears or disappears.
SameOwners(keys, old) ==
    \A j \in Keys :
      /\ keys[j] = NoKey <=> old[j] = NoKey
      /\ keys[j].account = old[j].account
      /\ keys[j].project = old[j].project

\* An issued key is not the absent one.
LEMMA IssuedFact == \A key \in IssuedKey : key # NoKey
  BY AccessConstants DEF IssuedKey, NoKey

\* A revoked key is a key of the same account and project.
LEMMA KeyRevoked ==
    ASSUME NEW key \in IssuedKey
    PROVE  LET new == [key EXCEPT !.revoked = TRUE]
           IN  /\ new \in IssuedKey /\ new.revoked = TRUE
               /\ new.account = key.account /\ new.project = key.project
               /\ new.secret = key.secret
  BY DEF IssuedKey
\* The same for a new secret.
LEMMA KeyRotated ==
    ASSUME NEW key \in IssuedKey, NEW n \in Nat \ {0}
    PROVE  LET new == [key EXCEPT !.secret = n]
           IN  /\ new \in IssuedKey /\ new.secret = n
               /\ new.account = key.account /\ new.project = key.project
               /\ new.revoked = key.revoked
  BY DEF IssuedKey
\* The same for an expiry.
LEMMA KeyExpired ==
    ASSUME NEW key \in IssuedKey
    PROVE  LET new == [key EXCEPT !.expired = TRUE]
           IN  /\ new \in IssuedKey /\ new.secret = key.secret
               /\ new.account = key.account /\ new.project = key.project
               /\ new.revoked = key.revoked
  BY DEF IssuedKey

\* A created key is issued, with its first secret.
LEMMA NewKey ==
    ASSUME NEW p \in Projects, NEW a \in Accounts \cup {None}
    PROVE  LET new == FreshKey(p, a)
           IN  /\ new \in IssuedKey /\ new.secret = 1 /\ ~new.revoked
               /\ new.account = a /\ new.project = p
  BY DEF FreshKey, IssuedKey

\* Both copies expire alike.
LEMMA ExpireFact ==
    ASSUME KeysShape, NEW k \in Keys, Expire(k)
    PROVE  /\ memKeys' \in KeyMap /\ diskKeys' \in KeyMap
           /\ SameOwners(memKeys', memKeys) /\ SameOwners(diskKeys', diskKeys)
           /\ \A j \in Keys : /\ memKeys'[j].secret = memKeys[j].secret
                             /\ memKeys'[j].revoked = memKeys[j].revoked
                             /\ diskKeys'[j].secret = diskKeys[j].secret
                             /\ diskKeys'[j].revoked = diskKeys[j].revoked
<1>1. memKeys \in KeyMap /\ diskKeys \in KeyMap
  BY DEF KeysShape, KeyMap
<1>2. /\ memKeys' \in KeyMap /\ SameOwners(memKeys', memKeys)
      /\ \A j \in Keys : /\ memKeys'[j].secret = memKeys[j].secret
                        /\ memKeys'[j].revoked = memKeys[j].revoked
  <2>1. memKeys[k] \in IssuedKey
    BY <1>1 DEF Expire, KeyMap
  <2> DEFINE new == [memKeys[k] EXCEPT !.expired = TRUE]
  <2>2. memKeys' = [memKeys EXCEPT ![k] = new]
    BY DEF Expire
  <2>3. /\ new \in IssuedKey /\ new # NoKey /\ new.secret = memKeys[k].secret
        /\ new.account = memKeys[k].account /\ new.project = memKeys[k].project
        /\ new.revoked = memKeys[k].revoked
    BY <2>1, KeyExpired, IssuedFact
  <2> HIDE DEF new
  <2> QED BY <1>1, <2>1, <2>2, <2>3, IssuedFact DEF KeyMap, SameOwners
<1>3. /\ diskKeys' \in KeyMap /\ SameOwners(diskKeys', diskKeys)
      /\ \A j \in Keys : /\ diskKeys'[j].secret = diskKeys[j].secret
                        /\ diskKeys'[j].revoked = diskKeys[j].revoked
  <2>1. CASE diskKeys[k] = NoKey
    <3>1. diskKeys' = diskKeys
      BY <1>1, <2>1 DEF Expire, KeyMap
    <3> QED BY <1>1, <3>1 DEF SameOwners
  <2>2. CASE diskKeys[k] # NoKey
    <3>1. diskKeys[k] \in IssuedKey
      BY <1>1, <2>2 DEF KeyMap
    <3> DEFINE new == [diskKeys[k] EXCEPT !.expired = TRUE]
    <3>2. diskKeys' = [diskKeys EXCEPT ![k] = new]
      BY <2>2 DEF Expire
    <3>3. /\ new \in IssuedKey /\ new # NoKey /\ new.secret = diskKeys[k].secret
          /\ new.account = diskKeys[k].account /\ new.project = diskKeys[k].project
          /\ new.revoked = diskKeys[k].revoked
      BY <3>1, KeyExpired, IssuedFact
    <3> HIDE DEF new
    <3> QED BY <1>1, <3>1, <3>2, <3>3, IssuedFact DEF KeyMap, SameOwners
  <2> QED BY <2>1, <2>2
<1> QED BY <1>2, <1>3

\* A revocation, with or without its file: what memory holds then.
LEMMA RevokeFact ==
    ASSUME KeysShape, NEW k \in Keys, Revoke(k)
    PROVE  /\ memKeys' \in KeyMap /\ SameOwners(memKeys', memKeys)
           /\ memKeys'[k].secret = memKeys[k].secret /\ memKeys'[k].revoked = TRUE
           /\ \A j \in Keys \ {k} : memKeys'[j] = memKeys[j]
           /\ minted' = minted
           /\ known' = known
           /\ \/ /\ diskKeys' = memKeys'
                 /\ withdrawn' = withdrawn \cup {<<k, s>> : s \in 1..minted[k]}
              \/ diskKeys' = diskKeys /\ withdrawn' = withdrawn
<1>1. memKeys \in KeyMap /\ memKeys[k] # NoKey /\ memKeys' = [memKeys EXCEPT ![k].revoked = TRUE]
  BY DEF KeysShape, KeyMap, Revoke, PersistKeys
<1>2. /\ memKeys' \in KeyMap /\ SameOwners(memKeys', memKeys)
      /\ memKeys'[k].secret = memKeys[k].secret /\ memKeys'[k].revoked = TRUE
      /\ \A j \in Keys \ {k} : memKeys'[j] = memKeys[j]
  <2>1. memKeys[k] \in IssuedKey
    BY <1>1 DEF KeyMap
  <2> DEFINE new == [memKeys[k] EXCEPT !.revoked = TRUE]
  <2>2. memKeys' = [memKeys EXCEPT ![k] = new]
    BY <1>1
  <2>3. /\ new \in IssuedKey /\ new # NoKey /\ new.secret = memKeys[k].secret
        /\ new.account = memKeys[k].account /\ new.project = memKeys[k].project
        /\ new.revoked = TRUE
    BY <2>1, KeyRevoked, IssuedFact
  <2> HIDE DEF new
  <2> QED BY <1>1, <2>1, <2>2, <2>3, IssuedFact DEF KeyMap, SameOwners
<1>3. /\ minted' = minted
      /\ known' = known
      /\ \/ /\ diskKeys' = memKeys'
            /\ withdrawn' = withdrawn \cup {<<k, s>> : s \in 1..minted[k]}
         \/ diskKeys' = diskKeys /\ withdrawn' = withdrawn
  BY DEF Revoke, PersistKeys, Withdraw
<1> QED BY <1>2, <1>3

\* A rotation, with or without its file.
LEMMA RotateFact ==
    ASSUME KeysShape, NEW k \in Keys, Rotate(k)
    PROVE  /\ memKeys' \in KeyMap /\ SameOwners(memKeys', memKeys)
           /\ memKeys[k] # NoKey
           /\ \A j \in Keys :
                /\ memKeys'[j].secret = IF j = k THEN minted[k] + 1 ELSE memKeys[j].secret
                /\ memKeys'[j].revoked = memKeys[j].revoked
           /\ minted' = [minted EXCEPT ![k] = minted[k] + 1]
           /\ \/ /\ diskKeys' = memKeys'
                 /\ known' = known \cup {<<k, minted[k] + 1>>}
                 /\ withdrawn' = withdrawn \cup {<<k, s>> : s \in 1..minted[k]}
              \/ diskKeys' = diskKeys /\ known' = known /\ withdrawn' = withdrawn
<1>1. /\ memKeys \in KeyMap /\ memKeys[k] # NoKey
      /\ memKeys' = [memKeys EXCEPT ![k].secret = minted[k] + 1]
  BY DEF KeysShape, KeyMap, Rotate, PersistKeys
<1>2. minted[k] + 1 \in Nat \ {0} /\ (minted[k] + 1) - 1 = minted[k]
  BY DEF KeysShape
<1>3. /\ memKeys' \in KeyMap /\ SameOwners(memKeys', memKeys)
      /\ \A j \in Keys :
           /\ memKeys'[j].secret = IF j = k THEN minted[k] + 1 ELSE memKeys[j].secret
           /\ memKeys'[j].revoked = memKeys[j].revoked
  <2>1. memKeys[k] \in IssuedKey
    BY <1>1 DEF KeyMap
  <2> DEFINE new == [memKeys[k] EXCEPT !.secret = minted[k] + 1]
  <2>2. memKeys' = [memKeys EXCEPT ![k] = new]
    BY <1>1
  <2>3. /\ new \in IssuedKey /\ new # NoKey /\ new.secret = minted[k] + 1
        /\ new.account = memKeys[k].account /\ new.project = memKeys[k].project
        /\ new.revoked = memKeys[k].revoked
    BY <1>2, <2>1, KeyRotated, IssuedFact
  <2> HIDE DEF new
  <2> QED BY <1>1, <2>1, <2>2, <2>3, IssuedFact DEF KeyMap, SameOwners
<1>4. /\ minted' = [minted EXCEPT ![k] = minted[k] + 1]
      /\ \/ /\ diskKeys' = memKeys'
            /\ known' = known \cup {<<k, minted[k] + 1>>}
            /\ withdrawn' = withdrawn \cup {<<k, s>> : s \in 1..((minted[k] + 1) - 1)}
         \/ diskKeys' = diskKeys /\ known' = known /\ withdrawn' = withdrawn
  BY DEF Rotate, PersistKeys
<1> QED BY <1>1, <1>2, <1>3, <1>4

\* A creation, with or without its file.
LEMMA CreateKeyFact ==
    ASSUME KeysShape, NEW k \in Keys, NEW p \in Projects, NEW a \in Accounts \cup {None},
           CreateKey(k, p, a)
    PROVE  /\ memKeys' \in KeyMap
           /\ memKeys[k] = NoKey /\ minted[k] = 0
           /\ memKeys'[k] # NoKey /\ memKeys'[k].secret = 1 /\ ~memKeys'[k].revoked
           /\ \A j \in Keys \ {k} : memKeys'[j] = memKeys[j]
           /\ minted' = [minted EXCEPT ![k] = 1]
           /\ withdrawn' = withdrawn
           /\ \/ diskKeys' = memKeys' /\ known' = known \cup {<<k, 1>>}
              \/ diskKeys' = diskKeys /\ known' = known
<1>1. /\ memKeys \in KeyMap
      /\ memKeys' = [memKeys EXCEPT ![k] = FreshKey(p, a)]
  BY DEF KeysShape, KeyMap, CreateKey, PersistKeys
<1>2. /\ memKeys' \in KeyMap
      /\ memKeys'[k] # NoKey /\ memKeys'[k].secret = 1 /\ ~memKeys'[k].revoked
      /\ \A j \in Keys \ {k} : memKeys'[j] = memKeys[j]
  BY <1>1, NewKey, IssuedFact DEF KeyMap
<1>3. /\ memKeys[k] = NoKey /\ minted[k] = 0
      /\ minted' = [minted EXCEPT ![k] = 1]
      /\ withdrawn' = withdrawn
      /\ \/ diskKeys' = memKeys' /\ known' = known \cup {<<k, 1>>}
         \/ diskKeys' = diskKeys /\ known' = known
  BY DEF CreateKey, PersistKeys
<1> QED BY <1>2, <1>3

-----------------------------------------------------------------------------
(* What a request's step does to the requests, and what is done to a policy *)

\* Only request r moves: to stage pc, or back to idle.
Moved(r, pc) ==
    /\ \A o \in Requests \ {r} : req'[o] = req[o]
    /\ IF pc = "idle" THEN req'[r] = IdleRequest
       ELSE /\ req'[r].pc = pc
            /\ req'[r].key = req[r].key /\ req'[r].secret = req[r].secret
            /\ req'[r].route = req[r].route /\ req'[r].coll = req[r].coll
            /\ req'[r].who = req[r].who

\* An idle request is well formed.
LEMMA IdleFact == IdleRequest \in RequestRecord
  BY DEF IdleRequest, RequestRecord, Stages, NoPrincipal, Principal

\* A change of stage moves one request and keeps it well formed.
LEMMA StageFact ==
    ASSUME req \in [Requests -> RequestRecord], NEW r \in Requests, NEW pc \in Stages,
           ToStage(r, pc)
    PROVE  req' \in [Requests -> RequestRecord] /\ Moved(r, pc)
<1>1. CASE pc = "idle"
  BY <1>1, IdleFact DEF ToStage, Finish, Moved
<1>2. CASE pc # "idle"
  <2>1. req[r] \in RequestRecord
    OBVIOUS
  <2> DEFINE new == [req[r] EXCEPT !.pc = pc]
  <2>2. req' = [req EXCEPT ![r] = new]
    BY <1>2 DEF ToStage
  <2>3. /\ new \in RequestRecord /\ new.pc = pc
        /\ new.key = req[r].key /\ new.secret = req[r].secret
        /\ new.route = req[r].route /\ new.coll = req[r].coll /\ new.who = req[r].who
    BY <2>1 DEF RequestRecord
  <2> HIDE DEF new
  <2> QED BY <1>2, <2>2, <2>3 DEF Moved
<1> QED BY <1>1, <1>2

\* One entry of a policy is replaced.
LEMMA EntryFact ==
    ASSUME NEW policy \in Policy, NEW p \in Projects, NEW c \in Collections, NEW m \in ClaimMap
    PROVE  LET new == [policy EXCEPT !.scoped[p][c] = m]
           IN  /\ new \in Policy
               /\ new.legacy = policy.legacy
               /\ \A q \in Projects, d \in Collections :
                    new.scoped[q][d] = IF q = p /\ d = c THEN m ELSE policy.scoped[q][d]
  BY DEF Policy

\* remove_collection: the entry goes, and a legacy entry of the project with it.
LEMMA RemovalFact ==
    ASSUME NEW policy \in Policy, NEW p \in Projects, NEW c \in Collections, NoClaim \in ClaimMap
    PROVE  LET new == [policy EXCEPT !.scoped[p][c] = NoClaim,
                                     !.legacy[c] = IF policy.legacy[c] = p THEN None ELSE policy.legacy[c]]
           IN  /\ new \in Policy
               /\ \A q \in Projects, d \in Collections :
                    /\ new.scoped[q][d] = IF q = p /\ d = c THEN NoClaim ELSE policy.scoped[q][d]
                    /\ new.legacy[d] \in {policy.legacy[d], None}
  BY DEF Policy

\* The two claims without a permission are well formed.
LEMMA ClaimValues == NoClaim \in ClaimMap /\ FreshClaim \in ClaimMap
  BY DEF NoClaim, FreshClaim, ClaimMap


\* A step that adds no claim, and one that adds a single one.
Shrunk(policy, old) ==
    /\ policy \in Policy
    /\ \A q \in Projects, d \in Collections :
         /\ old.scoped[q][d] = NoClaim => policy.scoped[q][d] = NoClaim
         /\ policy.legacy[d] \in {old.legacy[d], None}
Grown(policy, old, p, c) ==
    /\ policy \in Policy
    /\ policy.legacy = old.legacy
    /\ \A q \in Projects, d \in Collections :
         (q # p \/ d # c) => policy.scoped[q][d] = old.scoped[q][d]

\* set_collection_permission adds no claim.
LEMMA PermissionFact ==
    ASSUME PoliciesShape, NEW p \in Projects, NEW c \in Collections, NEW s \in Subjects,
           NEW m \in Permissions, SetCollectionPermission(p, c, s, m)
    PROVE  /\ Shrunk(memPolicy', memPolicy)
           /\ diskPolicy' \in {memPolicy', diskPolicy}
           /\ scopes' = scopes
<1> DEFINE new == [memPolicy.scoped[p][c] EXCEPT ![s] = m]
<1>1. memPolicy \in Policy /\ new \in ClaimMap
  BY DEF PoliciesShape, Policy, ClaimMap
<1>2. /\ memPolicy' = [memPolicy EXCEPT !.scoped[p][c] = new]
      /\ memPolicy.scoped[p][c] # NoClaim
      /\ diskPolicy' \in {memPolicy', diskPolicy} /\ scopes' = scopes
  BY <1>1 DEF SetCollectionPermission, PersistPolicy
<1> HIDE DEF new
<1> QED BY <1>1, <1>2, EntryFact DEF Shrunk

\* claim_collection adds at most the claim of its collection.
LEMMA ClaimFact ==
    ASSUME PoliciesShape, RequestsShape, NEW r \in Requests, Claim(r)
    PROVE  /\ \/ memPolicy' = memPolicy /\ diskPolicy' = diskPolicy
              \/ /\ memPolicy.scoped[req[r].who.project][req[r].coll] = NoClaim
                 /\ Grown(memPolicy', memPolicy, req[r].who.project, req[r].coll)
                 /\ diskPolicy' \in {memPolicy', diskPolicy}
           /\ scopes' \subseteq scopes
           /\ \E pc \in {"idle", "inserted", "existing"} : ToStage(r, pc)
<1> DEFINE p == req[r].who.project
           c == req[r].coll
<1>1. p \in Projects /\ c \in Collections
  BY DEF RequestsShape, Claim
<1>2. scopes' \subseteq scopes /\ \E pc \in {"idle", "inserted", "existing"} : ToStage(r, pc)
  BY DEF Claim, PersistPolicy, policyVars
<1>3. \/ memPolicy' = memPolicy /\ diskPolicy' = diskPolicy
      \/ /\ memPolicy.scoped[p][c] = NoClaim
         /\ memPolicy' = [memPolicy EXCEPT !.scoped[p][c] = FreshClaim]
         /\ diskPolicy' \in {memPolicy', diskPolicy}
  BY DEF Claim, PersistPolicy, policyVars
<1> HIDE DEF p, c
<1>4. ASSUME memPolicy' = [memPolicy EXCEPT !.scoped[p][c] = FreshClaim]
      PROVE  Grown(memPolicy', memPolicy, p, c)
  BY <1>1, <1>4, EntryFact, ClaimValues DEF PoliciesShape, Grown
<1>5. \/ memPolicy' = memPolicy /\ diskPolicy' = diskPolicy
      \/ /\ memPolicy.scoped[p][c] = NoClaim
         /\ Grown(memPolicy', memPolicy, p, c)
         /\ diskPolicy' \in {memPolicy', diskPolicy}
  BY <1>3, <1>4
<1> QED BY <1>2, <1>5 DEF p, c

\* A failed creation takes its claim back, a finished one leaves the policy alone.
LEMMA CreateFact ==
    ASSUME PoliciesShape, RequestsShape, NEW r \in Requests, Create(r)
    PROVE  /\ Shrunk(memPolicy', memPolicy)
           /\ diskPolicy' \in {memPolicy', diskPolicy}
           /\ scopes' \subseteq scopes
           /\ ToStage(r, "idle")
<1> DEFINE p == req[r].who.project
           c == req[r].coll
<1>1. p \in Projects /\ c \in Collections
  BY DEF RequestsShape, Create
<1>2. scopes' \subseteq scopes /\ ToStage(r, "idle") /\ diskPolicy' \in {memPolicy', diskPolicy}
  BY DEF Create, PersistPolicy, policyVars
<1> DEFINE new == [memPolicy EXCEPT !.scoped[p][c] = NoClaim]
<1>3. memPolicy' = memPolicy \/ memPolicy' = new
  BY DEF Create, PersistPolicy, policyVars
<1> HIDE DEF p, c
<1>4. Shrunk(memPolicy', memPolicy)
  <2>1. memPolicy \in Policy
    BY DEF PoliciesShape
  <2>2. /\ new \in Policy /\ new.legacy = memPolicy.legacy
        /\ \A q \in Projects, d \in Collections :
             new.scoped[q][d] = IF q = p /\ d = c THEN NoClaim ELSE memPolicy.scoped[q][d]
    BY <1>1, <2>1, EntryFact, ClaimValues
  <2> HIDE DEF new
  <2> QED BY <1>3, <2>1, <2>2 DEF Shrunk
<1> QED BY <1>2, <1>4

\* A deletion takes claims away.
LEMMA DeleteFact ==
    ASSUME PoliciesShape, RequestsShape, NEW r \in Requests, Delete(r)
    PROVE  /\ Shrunk(memPolicy', memPolicy)
           /\ diskPolicy' \in {memPolicy', diskPolicy}
           /\ scopes' \subseteq scopes
           /\ ToStage(r, "idle")
<1> DEFINE p == req[r].who.project
           c == req[r].coll
           new == [memPolicy EXCEPT !.scoped[p][c] = NoClaim,
                     !.legacy[c] = IF memPolicy.legacy[c] = p THEN None ELSE memPolicy.legacy[c]]
<1>1. p \in Projects /\ c \in Collections
  BY AccessConstants DEF RequestsShape, Delete
<1>2. scopes' \subseteq scopes /\ ToStage(r, "idle") /\ diskPolicy' \in {memPolicy', diskPolicy}
  BY DEF Delete, PersistPolicy, policyVars
<1>3. memPolicy' = memPolicy \/ memPolicy' = new
  BY DEF Delete, PersistPolicy, policyVars, PoliciesShape, Policy
<1>4. memPolicy \in Policy
  BY DEF PoliciesShape
<1> HIDE DEF p, c
<1>5. /\ new \in Policy
      /\ \A q \in Projects, d \in Collections :
            /\ new.scoped[q][d] = IF q = p /\ d = c THEN NoClaim ELSE memPolicy.scoped[q][d]
            /\ new.legacy[d] \in {memPolicy.legacy[d], None}
  BY <1>1, <1>4, RemovalFact, ClaimValues
<1> HIDE DEF new
<1>6. Shrunk(memPolicy', memPolicy)
  BY <1>1, <1>3, <1>4, <1>5 DEF Shrunk
<1> QED BY <1>2, <1>6

-----------------------------------------------------------------------------
(* Every step keeps the invariant *)

\* Accounts stay well formed.
LEMMA AccountsKept == ASSUME AccessIInv, [AccessNext]_accessVars PROVE AccountsShape'
<1> USE AccessConstants DEF AccountsShape, AccessIInv
<1>1. ASSUME NEW p \in Projects,
           ChangeProject(p)
      PROVE  AccountsShape'
  BY <1>1 DEF ChangeProject, Spend
<1>2. ASSUME NEW a \in Accounts, NEW account \in AccountRecord,
                account.exists \/ account = NoAccount,
           SetAccount(a, account)
      PROVE  AccountsShape'
  BY <1>2 DEF SetAccount, Spend, Remember
<1>3. ASSUME NEW k \in Keys,
           Revoke(k)
      PROVE  AccountsShape'
  BY <1>3 DEF Revoke, PersistKeys, Withdraw
<1>4. ASSUME NEW k \in Keys,
           Rotate(k)
      PROVE  AccountsShape'
  BY <1>4 DEF Rotate, PersistKeys
<1>5. ASSUME NEW k \in Keys,
           Expire(k)
      PROVE  AccountsShape'
  BY <1>5 DEF Expire
<1>6. ASSUME NEW k \in Keys, NEW p \in Projects, NEW a \in Accounts \cup {None},
           CreateKey(k, p, a)
      PROVE  AccountsShape'
  BY <1>6 DEF CreateKey, PersistKeys
<1>7. ASSUME NEW p \in Projects, NEW c \in Collections, NEW s \in Subjects, NEW m \in Permissions,
           SetCollectionPermission(p, c, s, m)
      PROVE  AccountsShape'
  BY <1>7 DEF SetCollectionPermission, PersistPolicy
<1>8. ASSUME Restart PROVE AccountsShape'
  BY <1>8 DEF Restart
<1>9. ASSUME NEW r \in Requests,
           Arrive(r)
      PROVE  AccountsShape'
  BY <1>9 DEF Arrive
<1>10. ASSUME NEW r \in Requests,
           Authenticate(r)
      PROVE  AccountsShape'
  BY <1>10 DEF Authenticate, ToStage, Finish
<1>11. ASSUME NEW r \in Requests,
           Authorize(r)
      PROVE  AccountsShape'
  BY <1>11 DEF Authorize, ToStage, Finish
<1>12. ASSUME NEW r \in Requests,
           CheckQuota(r)
      PROVE  AccountsShape'
  BY <1>12 DEF CheckQuota, ToStage, Finish
<1>13. ASSUME NEW r \in Requests,
           Handle(r)
      PROVE  AccountsShape'
  BY <1>13 DEF Handle, ToStage, Finish
<1>14. ASSUME NEW r \in Requests,
           CreateScope(r)
      PROVE  AccountsShape'
  BY <1>14 DEF CreateScope, ToStage, Finish
<1>15. ASSUME NEW r \in Requests,
           Claim(r)
      PROVE  AccountsShape'
  BY <1>15 DEF Claim, ToStage, Finish, PersistPolicy
<1>16. ASSUME NEW r \in Requests,
           Create(r)
      PROVE  AccountsShape'
  BY <1>16 DEF Create, ToStage, Finish, PersistPolicy
<1>17. ASSUME NEW r \in Requests,
           Delete(r)
      PROVE  AccountsShape'
  BY <1>17 DEF Delete, ToStage, Finish, PersistPolicy
<1>18. ASSUME UNCHANGED accessVars PROVE AccountsShape'
  BY <1>18 DEF accessVars, requestVars
<1> QED BY StepKinds, <1>1, <1>2, <1>3, <1>4, <1>5, <1>6, <1>7, <1>8, <1>9, <1>10, <1>11, <1>12, <1>13, <1>14, <1>15, <1>16, <1>17, <1>18

\* Both copies of the keys stay well formed.
LEMMA KeysTyped == ASSUME AccessIInv, [AccessNext]_accessVars PROVE KeysShape'
<1> USE AccessConstants DEF KeysShape, keyVars, AccessIInv
<1>1. ASSUME NEW p \in Projects,
           ChangeProject(p)
      PROVE  KeysShape'
  BY <1>1 DEF ChangeProject, Spend
<1>2. ASSUME NEW a \in Accounts, NEW account \in AccountRecord,
                account.exists \/ account = NoAccount,
           SetAccount(a, account)
      PROVE  KeysShape'
  BY <1>2 DEF SetAccount, Spend, Remember
<1>3. ASSUME NEW k \in Keys,
           Revoke(k)
      PROVE  KeysShape'
  <2>1. memKeys' \in KeyMap /\ diskKeys' \in {memKeys', diskKeys} /\ minted' = minted /\ known' = known
    BY <1>3, RevokeFact
  <2>2. withdrawn' \subseteq withdrawn \cup {<<k, s>> : s \in 1..minted[k]}
    BY <1>3, RevokeFact
  <2> QED BY <2>1, <2>2 DEF KeyMap
<1>4. ASSUME NEW k \in Keys,
           Rotate(k)
      PROVE  KeysShape'
  BY <1>4, RotateFact DEF KeyMap, Expire
<1>5. ASSUME NEW k \in Keys,
           Expire(k)
      PROVE  KeysShape'
  BY <1>5, ExpireFact DEF KeyMap, Expire
<1>6. ASSUME NEW k \in Keys, NEW p \in Projects, NEW a \in Accounts \cup {None},
           CreateKey(k, p, a)
      PROVE  KeysShape'
  BY <1>6, CreateKeyFact DEF KeyMap, Expire
<1>7. ASSUME NEW p \in Projects, NEW c \in Collections, NEW s \in Subjects, NEW m \in Permissions,
           SetCollectionPermission(p, c, s, m)
      PROVE  KeysShape'
  BY <1>7 DEF SetCollectionPermission, PersistPolicy
<1>8. ASSUME Restart PROVE KeysShape'
  BY <1>8 DEF Restart
<1>9. ASSUME NEW r \in Requests,
           Arrive(r)
      PROVE  KeysShape'
  BY <1>9 DEF Arrive
<1>10. ASSUME NEW r \in Requests,
           Authenticate(r)
      PROVE  KeysShape'
  BY <1>10 DEF Authenticate, ToStage, Finish
<1>11. ASSUME NEW r \in Requests,
           Authorize(r)
      PROVE  KeysShape'
  BY <1>11 DEF Authorize, ToStage, Finish
<1>12. ASSUME NEW r \in Requests,
           CheckQuota(r)
      PROVE  KeysShape'
  BY <1>12 DEF CheckQuota, ToStage, Finish
<1>13. ASSUME NEW r \in Requests,
           Handle(r)
      PROVE  KeysShape'
  BY <1>13 DEF Handle, ToStage, Finish
<1>14. ASSUME NEW r \in Requests,
           CreateScope(r)
      PROVE  KeysShape'
  BY <1>14 DEF CreateScope, ToStage, Finish
<1>15. ASSUME NEW r \in Requests,
           Claim(r)
      PROVE  KeysShape'
  BY <1>15 DEF Claim, ToStage, Finish, PersistPolicy
<1>16. ASSUME NEW r \in Requests,
           Create(r)
      PROVE  KeysShape'
  BY <1>16 DEF Create, ToStage, Finish, PersistPolicy
<1>17. ASSUME NEW r \in Requests,
           Delete(r)
      PROVE  KeysShape'
  BY <1>17 DEF Delete, ToStage, Finish, PersistPolicy
<1>18. ASSUME UNCHANGED accessVars PROVE KeysShape'
  BY <1>18 DEF accessVars, requestVars
<1> QED BY StepKinds, <1>1, <1>2, <1>3, <1>4, <1>5, <1>6, <1>7, <1>8, <1>9, <1>10, <1>11, <1>12, <1>13, <1>14, <1>15, <1>16, <1>17, <1>18

\* Secrets are numbered.
LEMMA SecretsAreNumbers ==
    ASSUME KeysShape
    PROVE  \A j \in Keys : memKeys[j].secret \in Nat /\ diskKeys[j].secret \in Nat
  BY DEF KeysShape, NoKey, IssuedKey

\* The file never has a key that memory lacks.
LEMMA KeysAgreeKept == ASSUME AccessIInv, [AccessNext]_accessVars PROVE KeysAgree'
<1> USE AccessConstants DEF KeysShape, KeysAgree, keyVars, AccessIInv
<1>0. \A j \in Keys : memKeys[j].secret \in Nat /\ diskKeys[j].secret \in Nat
  BY SecretsAreNumbers
<1>1. ASSUME NEW p \in Projects,
           ChangeProject(p)
      PROVE  KeysAgree'
  BY <1>1 DEF ChangeProject, Spend
<1>2. ASSUME NEW a \in Accounts, NEW account \in AccountRecord,
                account.exists \/ account = NoAccount,
           SetAccount(a, account)
      PROVE  KeysAgree'
  BY <1>2 DEF SetAccount, Spend, Remember
<1>3. ASSUME NEW k \in Keys,
           Revoke(k)
      PROVE  KeysAgree'
  <2>1. /\ SameOwners(memKeys', memKeys) /\ minted' = minted /\ known' = known
        /\ \A j \in Keys : memKeys'[j].secret = memKeys[j].secret
        /\ diskKeys' = memKeys' \/ diskKeys' = diskKeys
    BY <1>3, RevokeFact
  <2> QED BY <1>0, <2>1 DEF SameOwners
<1>4. ASSUME NEW k \in Keys,
           Rotate(k)
      PROVE  KeysAgree'
  BY <1>0, <1>4, RotateFact DEF SameOwners
<1>5. ASSUME NEW k \in Keys,
           Expire(k)
      PROVE  KeysAgree'
  <2>1. known' = known /\ minted' = minted
    BY <1>5 DEF Expire
  <2> QED BY <1>0, <2>1, <1>5, ExpireFact DEF SameOwners
<1>6. ASSUME NEW k \in Keys, NEW p \in Projects, NEW a \in Accounts \cup {None},
           CreateKey(k, p, a)
      PROVE  KeysAgree'
  BY <1>0, <1>6, CreateKeyFact DEF SameOwners
<1>7. ASSUME NEW p \in Projects, NEW c \in Collections, NEW s \in Subjects, NEW m \in Permissions,
           SetCollectionPermission(p, c, s, m)
      PROVE  KeysAgree'
  BY <1>7 DEF SetCollectionPermission, PersistPolicy
<1>8. ASSUME Restart PROVE KeysAgree'
  BY <1>8 DEF Restart
<1>9. ASSUME NEW r \in Requests,
           Arrive(r)
      PROVE  KeysAgree'
  BY <1>9 DEF Arrive
<1>10. ASSUME NEW r \in Requests,
           Authenticate(r)
      PROVE  KeysAgree'
  BY <1>10 DEF Authenticate, ToStage, Finish
<1>11. ASSUME NEW r \in Requests,
           Authorize(r)
      PROVE  KeysAgree'
  BY <1>11 DEF Authorize, ToStage, Finish
<1>12. ASSUME NEW r \in Requests,
           CheckQuota(r)
      PROVE  KeysAgree'
  BY <1>12 DEF CheckQuota, ToStage, Finish
<1>13. ASSUME NEW r \in Requests,
           Handle(r)
      PROVE  KeysAgree'
  BY <1>13 DEF Handle, ToStage, Finish
<1>14. ASSUME NEW r \in Requests,
           CreateScope(r)
      PROVE  KeysAgree'
  BY <1>14 DEF CreateScope, ToStage, Finish
<1>15. ASSUME NEW r \in Requests,
           Claim(r)
      PROVE  KeysAgree'
  BY <1>15 DEF Claim, ToStage, Finish, PersistPolicy
<1>16. ASSUME NEW r \in Requests,
           Create(r)
      PROVE  KeysAgree'
  BY <1>16 DEF Create, ToStage, Finish, PersistPolicy
<1>17. ASSUME NEW r \in Requests,
           Delete(r)
      PROVE  KeysAgree'
  BY <1>17 DEF Delete, ToStage, Finish, PersistPolicy
<1>18. ASSUME UNCHANGED accessVars PROVE KeysAgree'
  BY <1>18 DEF accessVars, requestVars
<1> QED BY StepKinds, <1>1, <1>2, <1>3, <1>4, <1>5, <1>6, <1>7, <1>8, <1>9, <1>10, <1>11, <1>12, <1>13, <1>14, <1>15, <1>16, <1>17, <1>18

\* A secret that was taken back stays dead in both copies.
LEMMA WithdrawnKept == ASSUME AccessIInv, [AccessNext]_accessVars PROVE WithdrawnDead'
<1> USE AccessConstants DEF WithdrawnDead, Dead, KeysShape, KeysAgree, keyVars, AccessIInv
<1>0. \A j \in Keys : memKeys[j].secret \in Nat /\ diskKeys[j].secret \in Nat
  BY SecretsAreNumbers
<1>1. ASSUME NEW p \in Projects,
           ChangeProject(p)
      PROVE  WithdrawnDead'
  BY <1>1 DEF ChangeProject, Spend
<1>2. ASSUME NEW a \in Accounts, NEW account \in AccountRecord,
                account.exists \/ account = NoAccount,
           SetAccount(a, account)
      PROVE  WithdrawnDead'
  BY <1>2 DEF SetAccount, Spend, Remember
<1>3. ASSUME NEW k \in Keys,
           Revoke(k)
      PROVE  WithdrawnDead'
  <2>1. /\ SameOwners(memKeys', memKeys) /\ minted' = minted
        /\ memKeys'[k].secret = memKeys[k].secret /\ memKeys'[k].revoked = TRUE
        /\ \A j \in Keys \ {k} : memKeys'[j] = memKeys[j]
    BY <1>3, RevokeFact
  <2>2. CASE diskKeys' = memKeys' /\ withdrawn' = withdrawn \cup {<<k, s>> : s \in 1..minted[k]}
    BY <1>0, <2>1, <2>2 DEF SameOwners
  <2>3. CASE diskKeys' = diskKeys /\ withdrawn' = withdrawn
    BY <1>0, <2>1, <2>3 DEF SameOwners
  <2> QED BY <1>3, <2>2, <2>3, RevokeFact
<1>4. ASSUME NEW k \in Keys,
           Rotate(k)
      PROVE  WithdrawnDead'
  BY <1>0, <1>4, RotateFact DEF SameOwners
<1>5. ASSUME NEW k \in Keys,
           Expire(k)
      PROVE  WithdrawnDead'
  BY <1>0, <1>5, ExpireFact DEF SameOwners, Expire
<1>6. ASSUME NEW k \in Keys, NEW p \in Projects, NEW a \in Accounts \cup {None},
           CreateKey(k, p, a)
      PROVE  WithdrawnDead'
  BY <1>0, <1>6, CreateKeyFact DEF SameOwners
<1>7. ASSUME NEW p \in Projects, NEW c \in Collections, NEW s \in Subjects, NEW m \in Permissions,
           SetCollectionPermission(p, c, s, m)
      PROVE  WithdrawnDead'
  BY <1>7 DEF SetCollectionPermission, PersistPolicy
<1>8. ASSUME Restart PROVE WithdrawnDead'
  BY <1>8 DEF Restart
<1>9. ASSUME NEW r \in Requests,
           Arrive(r)
      PROVE  WithdrawnDead'
  BY <1>9 DEF Arrive
<1>10. ASSUME NEW r \in Requests,
           Authenticate(r)
      PROVE  WithdrawnDead'
  BY <1>10 DEF Authenticate, ToStage, Finish
<1>11. ASSUME NEW r \in Requests,
           Authorize(r)
      PROVE  WithdrawnDead'
  BY <1>11 DEF Authorize, ToStage, Finish
<1>12. ASSUME NEW r \in Requests,
           CheckQuota(r)
      PROVE  WithdrawnDead'
  BY <1>12 DEF CheckQuota, ToStage, Finish
<1>13. ASSUME NEW r \in Requests,
           Handle(r)
      PROVE  WithdrawnDead'
  BY <1>13 DEF Handle, ToStage, Finish
<1>14. ASSUME NEW r \in Requests,
           CreateScope(r)
      PROVE  WithdrawnDead'
  BY <1>14 DEF CreateScope, ToStage, Finish
<1>15. ASSUME NEW r \in Requests,
           Claim(r)
      PROVE  WithdrawnDead'
  BY <1>15 DEF Claim, ToStage, Finish, PersistPolicy
<1>16. ASSUME NEW r \in Requests,
           Create(r)
      PROVE  WithdrawnDead'
  BY <1>16 DEF Create, ToStage, Finish, PersistPolicy
<1>17. ASSUME NEW r \in Requests,
           Delete(r)
      PROVE  WithdrawnDead'
  BY <1>17 DEF Delete, ToStage, Finish, PersistPolicy
<1>18. ASSUME UNCHANGED accessVars PROVE WithdrawnDead'
  BY <1>18 DEF accessVars, requestVars
<1> QED BY StepKinds, <1>1, <1>2, <1>3, <1>4, <1>5, <1>6, <1>7, <1>8, <1>9, <1>10, <1>11, <1>12, <1>13, <1>14, <1>15, <1>16, <1>17, <1>18

\* Policies stay well formed.
LEMMA PoliciesKept == ASSUME AccessIInv, [AccessNext]_accessVars PROVE PoliciesShape'
<1> USE AccessConstants DEF PoliciesShape, RequestsShape, policyVars, AccessIInv
<1>1. ASSUME NEW p \in Projects,
           ChangeProject(p)
      PROVE  PoliciesShape'
  BY <1>1 DEF ChangeProject, Spend
<1>2. ASSUME NEW a \in Accounts, NEW account \in AccountRecord,
                account.exists \/ account = NoAccount,
           SetAccount(a, account)
      PROVE  PoliciesShape'
  BY <1>2 DEF SetAccount, Spend, Remember
<1>3. ASSUME NEW k \in Keys,
           Revoke(k)
      PROVE  PoliciesShape'
  BY <1>3 DEF Revoke, PersistKeys, Withdraw
<1>4. ASSUME NEW k \in Keys,
           Rotate(k)
      PROVE  PoliciesShape'
  BY <1>4 DEF Rotate, PersistKeys
<1>5. ASSUME NEW k \in Keys,
           Expire(k)
      PROVE  PoliciesShape'
  BY <1>5 DEF Expire
<1>6. ASSUME NEW k \in Keys, NEW p \in Projects, NEW a \in Accounts \cup {None},
           CreateKey(k, p, a)
      PROVE  PoliciesShape'
  BY <1>6 DEF CreateKey, PersistKeys
<1>7. ASSUME NEW p \in Projects, NEW c \in Collections, NEW s \in Subjects, NEW m \in Permissions,
           SetCollectionPermission(p, c, s, m)
      PROVE  PoliciesShape'
  BY <1>7, PermissionFact DEF Shrunk
<1>8. ASSUME Restart PROVE PoliciesShape'
  BY <1>8 DEF Restart
<1>9. ASSUME NEW r \in Requests,
           Arrive(r)
      PROVE  PoliciesShape'
  BY <1>9 DEF Arrive
<1>10. ASSUME NEW r \in Requests,
           Authenticate(r)
      PROVE  PoliciesShape'
  BY <1>10 DEF Authenticate, ToStage, Finish
<1>11. ASSUME NEW r \in Requests,
           Authorize(r)
      PROVE  PoliciesShape'
  BY <1>11 DEF Authorize, ToStage, Finish
<1>12. ASSUME NEW r \in Requests,
           CheckQuota(r)
      PROVE  PoliciesShape'
  BY <1>12 DEF CheckQuota, ToStage, Finish
<1>13. ASSUME NEW r \in Requests,
           Handle(r)
      PROVE  PoliciesShape'
  BY <1>13 DEF Handle, ToStage, Finish
<1>14. ASSUME NEW r \in Requests,
           CreateScope(r)
      PROVE  PoliciesShape'
  BY <1>14 DEF CreateScope, ToStage, Finish
<1>15. ASSUME NEW r \in Requests,
           Claim(r)
      PROVE  PoliciesShape'
  BY <1>15, ClaimFact DEF Grown
<1>16. ASSUME NEW r \in Requests,
           Create(r)
      PROVE  PoliciesShape'
  BY <1>16, CreateFact DEF Shrunk
<1>17. ASSUME NEW r \in Requests,
           Delete(r)
      PROVE  PoliciesShape'
  BY <1>17, DeleteFact DEF Shrunk
<1>18. ASSUME UNCHANGED accessVars PROVE PoliciesShape'
  BY <1>18 DEF accessVars, requestVars
<1> QED BY StepKinds, <1>1, <1>2, <1>3, <1>4, <1>5, <1>6, <1>7, <1>8, <1>9, <1>10, <1>11, <1>12, <1>13, <1>14, <1>15, <1>16, <1>17, <1>18

\* An arriving request carries a secret that was handed out, and remembers the role its
\* account has.
LEMMA ArriveFact ==
    ASSUME NEW r \in Requests, Arrive(r)
    PROVE  \E cred \in known, route \in Routes, c \in Collections, header \in Projects \cup {None} :
             /\ req' = [req EXCEPT ![r] = NewRequest(cred, header, route, c)]
             /\ held' = [held EXCEPT ![r] = RolesNow(memKeys[cred[1]])]
  BY DEF Arrive

\* The principal of an authentic key acts in the key's project, and for an account with the
\* role it has there now.
LEMMA PrincipalFact ==
    ASSUME AccountsShape, KeysShape, NEW k \in Keys, NEW s, Authentic(k, s)
    PROVE  /\ PrincipalOf(k) \in Principal
           /\ PrincipalOf(k).project \in Projects
           /\ memKeys[k].account # None =>
                /\ PrincipalOf(k).role \in Roles
                /\ PrincipalOf(k).role = accounts[memKeys[k].account].roles[memKeys[k].project]
<1>1. /\ memKeys[k] \in IssuedKey
      /\ memKeys[k].account # None => AccountRole(memKeys[k].account, memKeys[k].project) # None
  BY DEF Authentic, KeysShape, RoleResolved
<1>2. memKeys[k].project \in Projects /\ memKeys[k].account \in Accounts \cup {None}
  BY <1>1 DEF IssuedKey
<1>3. CASE memKeys[k].account = None
  BY <1>2, <1>3 DEF PrincipalOf, Principal, Subjects
<1>4. CASE memKeys[k].account # None
  <2> DEFINE role == AccountRole(memKeys[k].account, memKeys[k].project)
  <2>1. /\ role \in Roles
        /\ role = accounts[memKeys[k].account].roles[memKeys[k].project]
    BY <1>1, <1>2, <1>4 DEF AccountRole, AccountsShape, AccountRecord, Roles
  <2> HIDE DEF role
  <2>2. PrincipalOf(k) = [subject |-> memKeys[k].account, project |-> memKeys[k].project, role |-> role]
    BY <1>4 DEF PrincipalOf, role
  <2> QED BY <1>2, <1>4, <2>1, <2>2 DEF Principal, Subjects
<1> QED BY <1>3, <1>4

\* A request is what its stage says.
LEMMA RequestsKept == ASSUME AccessIInv, [AccessNext]_accessVars PROVE RequestsShape'
<1> USE AccessConstants DEF RequestsShape, keyVars, AccessIInv
<1>1. ASSUME NEW p \in Projects,
           ChangeProject(p)
      PROVE  RequestsShape'
  BY <1>1 DEF ChangeProject, requestVars
<1>2. ASSUME NEW a \in Accounts, NEW account \in AccountRecord,
                account.exists \/ account = NoAccount,
           SetAccount(a, account)
      PROVE  RequestsShape'
  BY <1>2 DEF SetAccount, requestVars
<1>3. ASSUME NEW k \in Keys,
           Revoke(k)
      PROVE  RequestsShape'
  <2>1. req' = req
    BY <1>3 DEF Revoke, requestVars
  <2>2. SameOwners(memKeys', memKeys)
    BY <1>3, RevokeFact
  <2> QED BY <2>1, <2>2 DEF SameOwners
<1>4. ASSUME NEW k \in Keys,
           Rotate(k)
      PROVE  RequestsShape'
  <2>1. req' = req
    BY <1>4 DEF Rotate, requestVars
  <2>2. SameOwners(memKeys', memKeys)
    BY <1>4, RotateFact
  <2> QED BY <2>1, <2>2 DEF SameOwners
<1>5. ASSUME NEW k \in Keys,
           Expire(k)
      PROVE  RequestsShape'
  <2>1. req' = req
    BY <1>5 DEF Expire, requestVars
  <2>2. SameOwners(memKeys', memKeys)
    BY <1>5, ExpireFact
  <2> QED BY <2>1, <2>2 DEF SameOwners
<1>6. ASSUME NEW k \in Keys, NEW p \in Projects, NEW a \in Accounts \cup {None},
           CreateKey(k, p, a)
      PROVE  RequestsShape'
  <2>1. req' = req
    BY <1>6 DEF CreateKey, requestVars
  <2>2. memKeys'[k] # NoKey /\ \A j \in Keys \ {k} : memKeys'[j] = memKeys[j]
    BY <1>6, CreateKeyFact
  <2> QED BY <2>1, <2>2
<1>7. ASSUME NEW p \in Projects, NEW c \in Collections, NEW s \in Subjects, NEW m \in Permissions,
           SetCollectionPermission(p, c, s, m)
      PROVE  RequestsShape'
  BY <1>7 DEF SetCollectionPermission, requestVars
<1>8. ASSUME Restart PROVE RequestsShape'
  BY <1>8, IdleFact DEF Restart, IdleRequest
<1>9. ASSUME NEW r \in Requests,
           Arrive(r)
      PROVE  RequestsShape'
  <2>1. PICK cred \in known, route \in Routes, c \in Collections, header \in Projects \cup {None} :
          req' = [req EXCEPT ![r] = NewRequest(cred, header, route, c)]
    BY <1>9, ArriveFact
  <2>2. memKeys' = memKeys
    BY <1>9 DEF Arrive
  <2>3. cred[1] \in Keys /\ cred[2] \in Nat /\ memKeys[cred[1]] # NoKey
    BY DEF KeysShape, KeysAgree
  <2> DEFINE new == NewRequest(cred, header, route, c)
  <2>4. new \in RequestRecord
    BY <2>3 DEF NewRequest, RequestRecord, Stages, Principal, NoPrincipal
  <2>5. /\ new.pc = "authenticate" /\ new.key = cred[1] /\ new.route = route
        /\ route # "list" => new.coll = c
    BY DEF NewRequest
  <2>6. req' = [req EXCEPT ![r] = new]
    BY <2>1
  <2> HIDE DEF new
  <2> QED BY <2>2, <2>3, <2>4, <2>5, <2>6
<1>10. ASSUME NEW r \in Requests,
           Authenticate(r)
      PROVE  RequestsShape'
  <2>1. CASE ToStage(r, "idle") /\ memKeys' = memKeys
    <3>1. req' \in [Requests -> RequestRecord] /\ Moved(r, "idle")
      BY <2>1, StageFact DEF Stages
    <3> QED BY <2>1, <3>1 DEF Moved, IdleRequest
  <2>2. CASE Authentic(req[r].key, req[r].secret)
    <3> DEFINE who == PrincipalOf(req[r].key)
               new == [req[r] EXCEPT !.pc = "authorize", !.who = who]
    <3>1. req' = [req EXCEPT ![r] = new] /\ memKeys' = memKeys /\ req[r].pc = "authenticate"
      BY <1>10, <2>2 DEF Authenticate
    <3>2. who \in Principal /\ who.project \in Projects
      BY <2>2, <3>1, PrincipalFact
    <3> HIDE DEF who
    <3>3. req[r] \in RequestRecord
      OBVIOUS
    <3>4. /\ new \in RequestRecord /\ new.pc = "authorize" /\ new.who = who
          /\ new.key = req[r].key /\ new.route = req[r].route /\ new.coll = req[r].coll
      BY <3>2, <3>3 DEF RequestRecord, Stages
    <3> HIDE DEF new
    <3> QED BY <3>1, <3>2, <3>4
  <2> QED BY <1>10, <2>1, <2>2 DEF Authenticate
<1>11. ASSUME NEW r \in Requests,
           Authorize(r)
      PROVE  RequestsShape'
  <2>1. PICK pc \in {"quota", "handler", "idle"} : ToStage(r, pc) /\ (pc = "quota" => req[r].route = "create")
    BY <1>11 DEF Authorize
  <2>2. memKeys' = memKeys /\ req[r].pc \notin {"idle", "authenticate"}
    BY <1>11 DEF Authorize
  <2>3. req' \in [Requests -> RequestRecord] /\ Moved(r, pc)
    BY <2>1, StageFact DEF Stages
  <2> QED BY <2>1, <2>2, <2>3 DEF Moved, IdleRequest
<1>12. ASSUME NEW r \in Requests,
           CheckQuota(r)
      PROVE  RequestsShape'
  <2>1. PICK pc \in {"handler", "idle"} : ToStage(r, pc)
    BY <1>12 DEF CheckQuota
  <2>2. memKeys' = memKeys /\ req[r].pc \notin {"idle", "authenticate"}
    BY <1>12 DEF CheckQuota
  <2>3. req' \in [Requests -> RequestRecord] /\ Moved(r, pc)
    BY <2>1, StageFact DEF Stages
  <2> QED BY <2>1, <2>2, <2>3 DEF Moved, IdleRequest
<1>13. ASSUME NEW r \in Requests,
           Handle(r)
      PROVE  RequestsShape'
  <2>1. PICK pc \in {"idle"} : ToStage(r, pc)
    BY <1>13 DEF Handle
  <2>2. memKeys' = memKeys /\ req[r].pc \notin {"idle", "authenticate"}
    BY <1>13 DEF Handle
  <2>3. req' \in [Requests -> RequestRecord] /\ Moved(r, pc)
    BY <2>1, StageFact DEF Stages
  <2> QED BY <2>1, <2>2, <2>3 DEF Moved, IdleRequest
<1>14. ASSUME NEW r \in Requests,
           CreateScope(r)
      PROVE  RequestsShape'
  <2>1. PICK pc \in {"claim", "idle"} : ToStage(r, pc) /\ req[r].route = "create"
    BY <1>14 DEF CreateScope
  <2>2. memKeys' = memKeys /\ req[r].pc \notin {"idle", "authenticate"}
    BY <1>14 DEF CreateScope
  <2>3. req' \in [Requests -> RequestRecord] /\ Moved(r, pc)
    BY <2>1, StageFact DEF Stages
  <2> QED BY <2>1, <2>2, <2>3 DEF Moved, IdleRequest
<1>15. ASSUME NEW r \in Requests,
           Claim(r)
      PROVE  RequestsShape'
  <2>1. PICK pc \in {"idle", "inserted", "existing"} : ToStage(r, pc) /\ req[r].route = "create"
    BY <1>15, ClaimFact DEF Claim
  <2>2. memKeys' = memKeys /\ req[r].pc \notin {"idle", "authenticate"}
    BY <1>15 DEF Claim
  <2>3. req' \in [Requests -> RequestRecord] /\ Moved(r, pc)
    BY <2>1, StageFact DEF Stages
  <2> QED BY <2>1, <2>2, <2>3 DEF Moved, IdleRequest
<1>16. ASSUME NEW r \in Requests,
           Create(r)
      PROVE  RequestsShape'
  <2>1. PICK pc \in {"idle"} : ToStage(r, pc)
    BY <1>16 DEF Create
  <2>2. memKeys' = memKeys /\ req[r].pc \notin {"idle", "authenticate"}
    BY <1>16 DEF Create
  <2>3. req' \in [Requests -> RequestRecord] /\ Moved(r, pc)
    BY <2>1, StageFact DEF Stages
  <2> QED BY <2>1, <2>2, <2>3 DEF Moved, IdleRequest
<1>17. ASSUME NEW r \in Requests,
           Delete(r)
      PROVE  RequestsShape'
  <2>1. PICK pc \in {"idle"} : ToStage(r, pc)
    BY <1>17 DEF Delete
  <2>2. memKeys' = memKeys /\ req[r].pc \notin {"idle", "authenticate"}
    BY <1>17 DEF Delete
  <2>3. req' \in [Requests -> RequestRecord] /\ Moved(r, pc)
    BY <2>1, StageFact DEF Stages
  <2> QED BY <2>1, <2>2, <2>3 DEF Moved, IdleRequest
<1>18. ASSUME UNCHANGED accessVars PROVE RequestsShape'
  BY <1>18 DEF accessVars, requestVars
<1> QED BY StepKinds, <1>1, <1>2, <1>3, <1>4, <1>5, <1>6, <1>7, <1>8, <1>9, <1>10, <1>11, <1>12, <1>13, <1>14, <1>15, <1>16, <1>17, <1>18

\* Whatever the route, its check includes the one of the role.
LEMMA RouteFact ==
    ASSUME NEW who, NEW route \in Routes, NEW c, RouteAllowed(who, route, c), who.role \in Roles
    PROVE  RoleAllows(who.role, RouteAction[route])
<1>1. who.role # None
  BY DEF Roles, None
<1>2. CASE route = "query"
  <2>1. RouteAction[route] = "read" /\ MayInProject(who, "read", who.project)
    BY <1>2 DEF RouteAction, RouteAllowed, QueryRouteAllowed, MayInCollection
  <2> QED BY <1>1, <2>1 DEF MayInProject
<1>3. CASE route # "query"
  <2>1. MayInProject(who, RouteAction[route], who.project)
    BY <1>3 DEF RouteAllowed, ProjectRouteAllowed, JobRouteAllowed, CollectionRouteAllowed,
                MayInCollection
  <2> QED BY <1>1, <2>1 DEF MayInProject
<1> QED BY <1>2, <1>3

\* A request in flight keeps what it remembers and adds the role its account has now.
LEMMA RememberFact ==
    ASSUME Remember, NEW r \in Requests, req[r].pc # "idle", memKeys[req[r].key].account # None
    PROVE  /\ accounts'[memKeys[req[r].key].account].roles[memKeys[req[r].key].project] \in held'[r]
           /\ held[r] \subseteq held'[r]
<1>1. held'[r] = held[r] \cup {accounts'[memKeys[req[r].key].account].roles[memKeys[req[r].key].project]}
  BY DEF Remember
<1> QED BY <1>1

\* A request acts with a role its account has had since it arrived.
LEMMA RolesKept == ASSUME AccessIInv, [AccessNext]_accessVars PROVE RolesHeld'
<1> USE AccessConstants DEF RolesHeld, keyVars, AccessIInv
<1>1. ASSUME NEW p \in Projects,
           ChangeProject(p)
      PROVE  RolesHeld'
  BY <1>1 DEF ChangeProject, requestVars
<1>2. ASSUME NEW a \in Accounts, NEW account \in AccountRecord,
                account.exists \/ account = NoAccount,
           SetAccount(a, account)
      PROVE  RolesHeld'
  <2>0. Remember
    BY <1>2 DEF SetAccount
  <2>1. /\ req' = req /\ memKeys' = memKeys
        /\ accounts' = [accounts EXCEPT ![a] = account]
        /\ Remember
    BY <1>2 DEF SetAccount, requestVars
  <2>2. accounts' \in [Accounts -> AccountRecord]
    BY <2>1, <1>2 DEF AccountsShape
  <2>3. ASSUME NEW r \in Requests, req[r].pc # "idle", memKeys[req[r].key].account # None
        PROVE  /\ memKeys[req[r].key].account \in Accounts
               /\ memKeys[req[r].key].project \in Projects
               /\ accounts'[memKeys[req[r].key].account].roles[memKeys[req[r].key].project]
                    \in Roles \cup {None}
    <3>1. memKeys[req[r].key] \in IssuedKey
      BY <2>3 DEF RequestsShape, KeysShape
    <3>2. memKeys[req[r].key].account \in Accounts /\ memKeys[req[r].key].project \in Projects
      BY <2>3, <3>1 DEF IssuedKey
    <3> QED BY <2>2, <3>2 DEF AccountRecord
  <2>4. held' \in [Requests -> SUBSET (Roles \cup {None})]
    BY <2>1, <2>3 DEF Remember
  <2>5. ASSUME NEW r \in Requests, req[r].pc # "idle", memKeys[req[r].key].account # None
        PROVE  /\ accounts'[memKeys[req[r].key].account].roles[memKeys[req[r].key].project] \in held'[r]
               /\ held[r] \subseteq held'[r]
    BY <2>0, <2>5, RememberFact
  <2> QED BY <2>1, <2>4, <2>5
<1>3. ASSUME NEW k \in Keys,
           Revoke(k)
      PROVE  RolesHeld'
  <2>1. req' = req /\ held' = held /\ accounts' = accounts
    BY <1>3 DEF Revoke, requestVars
  <2>2. SameOwners(memKeys', memKeys)
    BY <1>3, RevokeFact
  <2> QED BY <2>1, <2>2 DEF SameOwners, RequestsShape
<1>4. ASSUME NEW k \in Keys,
           Rotate(k)
      PROVE  RolesHeld'
  <2>1. req' = req /\ held' = held /\ accounts' = accounts
    BY <1>4 DEF Rotate, requestVars
  <2>2. SameOwners(memKeys', memKeys)
    BY <1>4, RotateFact
  <2> QED BY <2>1, <2>2 DEF SameOwners, RequestsShape
<1>5. ASSUME NEW k \in Keys,
           Expire(k)
      PROVE  RolesHeld'
  <2>1. req' = req /\ held' = held /\ accounts' = accounts
    BY <1>5 DEF Expire, requestVars
  <2>2. SameOwners(memKeys', memKeys)
    BY <1>5, ExpireFact
  <2> QED BY <2>1, <2>2 DEF SameOwners, RequestsShape
<1>6. ASSUME NEW k \in Keys, NEW p \in Projects, NEW a \in Accounts \cup {None},
           CreateKey(k, p, a)
      PROVE  RolesHeld'
  <2>1. req' = req /\ held' = held /\ accounts' = accounts
    BY <1>6 DEF CreateKey, requestVars
  <2>2. memKeys[k] = NoKey /\ \A j \in Keys \ {k} : memKeys'[j] = memKeys[j]
    BY <1>6, CreateKeyFact
  <2> QED BY <2>1, <2>2 DEF RequestsShape
<1>7. ASSUME NEW p \in Projects, NEW c \in Collections, NEW s \in Subjects, NEW m \in Permissions,
           SetCollectionPermission(p, c, s, m)
      PROVE  RolesHeld'
  BY <1>7 DEF SetCollectionPermission, requestVars
<1>8. ASSUME Restart PROVE RolesHeld'
  BY <1>8 DEF Restart, IdleRequest
<1>9. ASSUME NEW r \in Requests,
           Arrive(r)
      PROVE  RolesHeld'
  <2>1. PICK cred \in known, route \in Routes, c \in Collections, header \in Projects \cup {None} :
          /\ req' = [req EXCEPT ![r] = NewRequest(cred, header, route, c)]
          /\ held' = [held EXCEPT ![r] = RolesNow(memKeys[cred[1]])]
    BY <1>9, ArriveFact
  <2>2. memKeys' = memKeys /\ accounts' = accounts
    BY <1>9 DEF Arrive
  <2> DEFINE key == memKeys[cred[1]]
             new == NewRequest(cred, header, route, c)
  <2>3. key \in IssuedKey
    BY DEF KeysShape, KeysAgree
  <2>4. key.project \in Projects /\ key.account \in Accounts \cup {None}
    BY <2>3 DEF IssuedKey
  <2>5. RolesNow(key) \subseteq Roles \cup {None}
    BY <2>4 DEF RolesNow, AccountsShape, AccountRecord
  <2>6. key.account # None => accounts[key.account].roles[key.project] \in RolesNow(key)
    BY DEF RolesNow
  <2>7. new.pc = "authenticate" /\ new.key = cred[1]
    BY DEF NewRequest
  <2>8. held' = [held EXCEPT ![r] = RolesNow(key)] /\ req' = [req EXCEPT ![r] = new]
    BY <2>1
  <2> HIDE DEF new
  <2> QED BY <2>2, <2>5, <2>6, <2>7, <2>8 DEF RequestsShape
<1>10. ASSUME NEW r \in Requests,
           Authenticate(r)
      PROVE  RolesHeld'
  <2>0. memKeys' = memKeys /\ held' = held /\ accounts' = accounts /\ req[r].pc = "authenticate"
    BY <1>10 DEF Authenticate
  <2>1. CASE ToStage(r, "idle")
    <3>1. Moved(r, "idle")
      BY <2>1, StageFact DEF Stages, RequestsShape
    <3> QED BY <2>0, <3>1 DEF Moved, IdleRequest
  <2>2. CASE Authentic(req[r].key, req[r].secret)
    <3> DEFINE who == PrincipalOf(req[r].key)
               new == [req[r] EXCEPT !.pc = "authorize", !.who = who]
    <3>1. req' = [req EXCEPT ![r] = new]
      BY <1>10, <2>2 DEF Authenticate
    <3>2. req[r].key \in Keys /\ req[r] \in RequestRecord
      BY <2>0 DEF RequestsShape
    <3>3. memKeys[req[r].key].account # None =>
            /\ who.role \in Roles
            /\ who.role = accounts[memKeys[req[r].key].account].roles[memKeys[req[r].key].project]
      BY <2>2, <3>2, PrincipalFact
    <3> HIDE DEF who
    <3>4. new.pc = "authorize" /\ new.who = who /\ new.key = req[r].key
      BY <3>2 DEF RequestRecord
    <3> HIDE DEF new
    <3> QED BY <2>0, <3>1, <3>3, <3>4 DEF RequestsShape
  <2> QED BY <1>10, <2>1, <2>2 DEF Authenticate
<1>11. ASSUME NEW r \in Requests,
           Authorize(r)
      PROVE  RolesHeld'
  <2>0. memKeys' = memKeys /\ held' = held /\ accounts' = accounts /\ req[r].pc = "authorize"
    BY <1>11 DEF Authorize
  <2>1. CASE ToStage(r, "idle")
    <3>1. Moved(r, "idle")
      BY <2>1, StageFact DEF Stages, RequestsShape
    <3> QED BY <2>0, <3>1 DEF Moved, IdleRequest
  <2>2. ASSUME NEW pc \in {"quota", "handler"}, ToStage(r, pc),
               RouteAllowed(req[r].who, req[r].route, req[r].coll)
        PROVE  RolesHeld'
    <3>1. Moved(r, pc)
      BY <2>2, StageFact DEF Stages, RequestsShape
    <3>2. memKeys[req[r].key].account # None =>
            RoleAllows(req[r].who.role, RouteAction[req[r].route])
      BY <2>0, <2>2, RouteFact DEF RequestsShape
    <3> QED BY <2>0, <3>1, <3>2 DEF Moved
  <2> QED BY <1>11, <2>1, <2>2 DEF Authorize
<1>12. ASSUME NEW r \in Requests,
           CheckQuota(r)
      PROVE  RolesHeld'
  <2>1. PICK pc \in {"handler", "idle"} : ToStage(r, pc)
    BY <1>12 DEF CheckQuota
  <2>2. /\ memKeys' = memKeys /\ held' = held /\ accounts' = accounts
        /\ req[r].pc \notin {"idle", "authenticate", "authorize"}
    BY <1>12 DEF CheckQuota
  <2>3. Moved(r, pc)
    BY <2>1, StageFact DEF Stages, RequestsShape
  <2> QED BY <2>1, <2>2, <2>3 DEF Moved, IdleRequest
<1>13. ASSUME NEW r \in Requests,
           Handle(r)
      PROVE  RolesHeld'
  <2>1. PICK pc \in {"idle"} : ToStage(r, pc)
    BY <1>13 DEF Handle
  <2>2. /\ memKeys' = memKeys /\ held' = held /\ accounts' = accounts
        /\ req[r].pc \notin {"idle", "authenticate", "authorize"}
    BY <1>13 DEF Handle
  <2>3. Moved(r, pc)
    BY <2>1, StageFact DEF Stages, RequestsShape
  <2> QED BY <2>1, <2>2, <2>3 DEF Moved, IdleRequest
<1>14. ASSUME NEW r \in Requests,
           CreateScope(r)
      PROVE  RolesHeld'
  <2>1. PICK pc \in {"claim", "idle"} : ToStage(r, pc)
    BY <1>14 DEF CreateScope
  <2>2. /\ memKeys' = memKeys /\ held' = held /\ accounts' = accounts
        /\ req[r].pc \notin {"idle", "authenticate", "authorize"}
    BY <1>14 DEF CreateScope
  <2>3. Moved(r, pc)
    BY <2>1, StageFact DEF Stages, RequestsShape
  <2> QED BY <2>1, <2>2, <2>3 DEF Moved, IdleRequest
<1>15. ASSUME NEW r \in Requests,
           Claim(r)
      PROVE  RolesHeld'
  <2>1. PICK pc \in {"idle", "inserted", "existing"} : ToStage(r, pc)
    BY <1>15, ClaimFact
  <2>2. /\ memKeys' = memKeys /\ held' = held /\ accounts' = accounts
        /\ req[r].pc \notin {"idle", "authenticate", "authorize"}
    BY <1>15 DEF Claim
  <2>3. Moved(r, pc)
    BY <2>1, StageFact DEF Stages, RequestsShape
  <2> QED BY <2>1, <2>2, <2>3 DEF Moved, IdleRequest
<1>16. ASSUME NEW r \in Requests,
           Create(r)
      PROVE  RolesHeld'
  <2>1. PICK pc \in {"idle"} : ToStage(r, pc)
    BY <1>16 DEF Create
  <2>2. /\ memKeys' = memKeys /\ held' = held /\ accounts' = accounts
        /\ req[r].pc \notin {"idle", "authenticate", "authorize"}
    BY <1>16 DEF Create
  <2>3. Moved(r, pc)
    BY <2>1, StageFact DEF Stages, RequestsShape
  <2> QED BY <2>1, <2>2, <2>3 DEF Moved, IdleRequest
<1>17. ASSUME NEW r \in Requests,
           Delete(r)
      PROVE  RolesHeld'
  <2>1. PICK pc \in {"idle"} : ToStage(r, pc)
    BY <1>17 DEF Delete
  <2>2. /\ memKeys' = memKeys /\ held' = held /\ accounts' = accounts
        /\ req[r].pc \notin {"idle", "authenticate", "authorize"}
    BY <1>17 DEF Delete
  <2>3. Moved(r, pc)
    BY <2>1, StageFact DEF Stages, RequestsShape
  <2> QED BY <2>1, <2>2, <2>3 DEF Moved, IdleRequest
<1>18. ASSUME UNCHANGED accessVars PROVE RolesHeld'
  BY <1>18 DEF accessVars, requestVars
<1> QED BY StepKinds, <1>1, <1>2, <1>3, <1>4, <1>5, <1>6, <1>7, <1>8, <1>9, <1>10, <1>11, <1>12, <1>13, <1>14, <1>15, <1>16, <1>17, <1>18

\* Counting: a set that gained at most one element, a set that lost one.
LEMMA Counting ==
    ASSUME NEW S, IsFiniteSet(S), NEW T, NEW x
    PROVE  /\ Cardinality(S) \in Nat
           /\ T \subseteq S => IsFiniteSet(T) /\ Cardinality(T) \in Nat /\ Cardinality(T) <= Cardinality(S)
           /\ T \subseteq S \cup {x} => Cardinality(T) \in Nat /\ Cardinality(T) <= Cardinality(S) + 1
           /\ x \in S /\ T \subseteq S \ {x} => Cardinality(T) \in Nat /\ Cardinality(T) <= Cardinality(S) - 1
<1>1. Cardinality(S) \in Nat
  BY FS_CardinalityType
<1>2. ASSUME NEW A, NEW B, IsFiniteSet(A), B \subseteq A
      PROVE  IsFiniteSet(B) /\ Cardinality(B) \in Nat /\ Cardinality(B) <= Cardinality(A)
  BY <1>2, FS_Subset, FS_CardinalityType
<1>3. IsFiniteSet(S \cup {x}) /\ Cardinality(S \cup {x}) <= Cardinality(S) + 1
  BY <1>1, FS_AddElement
<1>4. x \in S => IsFiniteSet(S \ {x}) /\ Cardinality(S \ {x}) = Cardinality(S) - 1
  BY FS_RemoveElement
<1>5. T \subseteq S \cup {x} => Cardinality(T) \in Nat /\ Cardinality(T) <= Cardinality(S) + 1
  BY <1>1, <1>2, <1>3, FS_CardinalityType
<1>6. x \in S /\ T \subseteq S \ {x} => Cardinality(T) \in Nat /\ Cardinality(T) <= Cardinality(S) - 1
  BY <1>1, <1>2, <1>4, FS_CardinalityType
<1> QED BY <1>1, <1>2, <1>5, <1>6

\* What is counted is finite.
LEMMA FiniteClaims ==
    ASSUME NEW policy, NEW p
    PROVE  /\ IsFiniteSet(Scoped(policy, p)) /\ IsFiniteSet(Legacy(policy, p)) /\ IsFiniteSet(Creating(p))
           /\ Cardinality(Scoped(policy, p)) \in Nat /\ Cardinality(Legacy(policy, p)) \in Nat
           /\ Cardinality(Creating(p)) \in Nat
           /\ Claims(policy, p) \in Nat
<1>1. /\ IsFiniteSet(Scoped(policy, p)) /\ IsFiniteSet(Legacy(policy, p)) /\ IsFiniteSet(Creating(p))
  <2>1. Scoped(policy, p) \subseteq Collections /\ Legacy(policy, p) \subseteq Collections
        /\ Creating(p) \subseteq Requests
    BY DEF Scoped, Legacy, Creating
  <2> QED BY <2>1, FS_Subset, AccessConstants
<1> QED BY <1>1, FS_CardinalityType DEF Claims

\* A policy that shrinks has no more claims.
LEMMA ShrunkCount ==
    ASSUME NEW policy, NEW old, Shrunk(policy, old), NEW p \in Projects
    PROVE  Claims(policy, p) <= Claims(old, p)
<1>1. Scoped(policy, p) \subseteq Scoped(old, p) /\ Legacy(policy, p) \subseteq Legacy(old, p)
  BY AccessConstants DEF Shrunk, Scoped, Legacy
<1>2. /\ Cardinality(Scoped(policy, p)) <= Cardinality(Scoped(old, p))
      /\ Cardinality(Legacy(policy, p)) <= Cardinality(Legacy(old, p))
  BY <1>1, FiniteClaims, Counting
<1> QED BY <1>2, FiniteClaims DEF Claims

\* A policy that grows has at most one claim more.
LEMMA GrownCount ==
    ASSUME NEW policy, NEW old, NEW p \in Projects, NEW c \in Collections,
           Grown(policy, old, p, c), NEW q \in Projects
    PROVE  Claims(policy, q) <= Claims(old, q) + (IF q = p THEN 1 ELSE 0)
<1>1. Legacy(policy, q) = Legacy(old, q)
  BY DEF Grown, Legacy
<1>2. CASE q # p
  <2>1. Scoped(policy, q) = Scoped(old, q)
    BY <1>2 DEF Grown, Scoped
  <2> QED BY <1>1, <1>2, <2>1, FiniteClaims DEF Claims
<1>3. CASE q = p
  <2>1. Scoped(policy, q) \subseteq Scoped(old, q) \cup {c}
    BY <1>3 DEF Grown, Scoped
  <2>2. Cardinality(Scoped(policy, q)) <= Cardinality(Scoped(old, q)) + 1
    BY <2>1, FiniteClaims, Counting
  <2> QED BY <1>1, <1>3, <2>2, FiniteClaims DEF Claims
<1> QED BY <1>2, <1>3

\* A step without a new claim and without a new creation past the quota.
LEMMA QuotaStep ==
    ASSUME QuotaKept, raced \subseteq raced',
           \A p \in Projects : Claims(memPolicy', p) <= Claims(memPolicy, p),
           diskPolicy' \in {memPolicy', diskPolicy},
           \A p \in Projects : Creating(p)' \subseteq Creating(p)
    PROVE  QuotaKept'
<1> SUFFICES ASSUME NEW p \in Projects, p \notin raced'
             PROVE  /\ Claims(memPolicy', p) + Cardinality(Creating(p)') <= MaxCollections
                    /\ Claims(diskPolicy', p) <= MaxCollections
  BY DEF QuotaKept
<1>1. /\ Claims(memPolicy, p) + Cardinality(Creating(p)) <= MaxCollections
      /\ Claims(diskPolicy, p) <= MaxCollections
  BY DEF QuotaKept
<1>2. Cardinality(Creating(p)') \in Nat /\ Cardinality(Creating(p)') <= Cardinality(Creating(p))
  BY FiniteClaims, Counting
<1>3. /\ Claims(memPolicy, p) \in Nat /\ Claims(memPolicy', p) \in Nat /\ Cardinality(Creating(p)) \in Nat
      /\ MaxCollections \in Nat
  BY FiniteClaims, AccessConstants
<1> QED BY <1>1, <1>2, <1>3

\* Creations of other projects than the moving request's stay; its own move as said.
LEMMA CreatingMoves ==
    ASSUME req \in [Requests -> RequestRecord], NEW r \in Requests, NEW pc \in Stages,
           ToStage(r, pc), pc \notin {"handler", "claim"} \/ req[r].route # "create"
    PROVE  \A p \in Projects : Creating(p)' \subseteq Creating(p) \ (IF req[r].route = "create" THEN {r} ELSE {})
<1>1. Moved(r, pc)
  BY StageFact
<1> QED BY <1>1, AccessConstants DEF Moved, Creating, IdleRequest

\* Without a race the claims keep to the quota, in memory and on disk.
LEMMA QuotaPreserved == ASSUME AccessIInv, [AccessNext]_accessVars PROVE QuotaKept'
<1> USE AccessConstants DEF AccessIInv
<1>1. ASSUME NEW p \in Projects,
           ChangeProject(p)
      PROVE  QuotaKept'
  <2>1. UNCHANGED <<req, raced, memPolicy, diskPolicy>>
    BY <1>1 DEF ChangeProject, requestVars, policyVars
  <2> QED BY <2>1 DEF QuotaKept, Creating
<1>2. ASSUME NEW a \in Accounts, NEW account \in AccountRecord,
                account.exists \/ account = NoAccount,
           SetAccount(a, account)
      PROVE  QuotaKept'
  <2>1. UNCHANGED <<req, raced, memPolicy, diskPolicy>>
    BY <1>2 DEF SetAccount, requestVars, policyVars
  <2> QED BY <2>1 DEF QuotaKept, Creating
<1>3. ASSUME NEW k \in Keys,
           Revoke(k)
      PROVE  QuotaKept'
  <2>1. UNCHANGED <<req, raced, memPolicy, diskPolicy>>
    BY <1>3 DEF Revoke, requestVars, policyVars
  <2> QED BY <2>1 DEF QuotaKept, Creating
<1>4. ASSUME NEW k \in Keys,
           Rotate(k)
      PROVE  QuotaKept'
  <2>1. UNCHANGED <<req, raced, memPolicy, diskPolicy>>
    BY <1>4 DEF Rotate, requestVars, policyVars
  <2> QED BY <2>1 DEF QuotaKept, Creating
<1>5. ASSUME NEW k \in Keys,
           Expire(k)
      PROVE  QuotaKept'
  <2>1. UNCHANGED <<req, raced, memPolicy, diskPolicy>>
    BY <1>5 DEF Expire, requestVars, policyVars
  <2> QED BY <2>1 DEF QuotaKept, Creating
<1>6. ASSUME NEW k \in Keys, NEW p \in Projects, NEW a \in Accounts \cup {None},
           CreateKey(k, p, a)
      PROVE  QuotaKept'
  <2>1. UNCHANGED <<req, raced, memPolicy, diskPolicy>>
    BY <1>6 DEF CreateKey, requestVars, policyVars
  <2> QED BY <2>1 DEF QuotaKept, Creating
<1>7. ASSUME NEW p \in Projects, NEW c \in Collections, NEW s \in Subjects, NEW m \in Permissions,
           SetCollectionPermission(p, c, s, m)
      PROVE  QuotaKept'
  <2>1. req' = req /\ raced' = raced
    BY <1>7 DEF SetCollectionPermission, requestVars
  <2>2. Shrunk(memPolicy', memPolicy) /\ diskPolicy' \in {memPolicy', diskPolicy}
    BY <1>7, PermissionFact
  <2>3. \A q \in Projects : Claims(memPolicy', q) <= Claims(memPolicy, q)
    BY <2>2, ShrunkCount
  <2>4. \A q \in Projects : Creating(q)' \subseteq Creating(q)
    BY <2>1 DEF Creating
  <2> QED BY <2>1, <2>2, <2>3, <2>4, QuotaStep
<1>8. ASSUME Restart PROVE QuotaKept'
  <2>1. /\ memPolicy' = diskPolicy /\ diskPolicy' = diskPolicy /\ raced' = raced
        /\ req' = [r \in Requests |-> IdleRequest]
    BY <1>8 DEF Restart
  <2>2. ASSUME NEW p \in Projects PROVE Cardinality(Creating(p)') = 0
    <3>1. Creating(p)' = {}
      BY <2>1 DEF Creating, IdleRequest
    <3> QED BY <3>1, FS_EmptySet
  <2> SUFFICES ASSUME NEW p \in Projects, p \notin raced
               PROVE  Claims(diskPolicy, p) + 0 <= MaxCollections /\ Claims(diskPolicy, p) <= MaxCollections
    BY <2>1, <2>2 DEF QuotaKept
  <2>3. Claims(diskPolicy, p) <= MaxCollections /\ Claims(diskPolicy, p) \in Nat
    BY FiniteClaims DEF QuotaKept
  <2> QED BY <2>3
<1>9. ASSUME NEW r \in Requests,
           Arrive(r)
      PROVE  QuotaKept'
  <2>1. PICK cred \in known, route \in Routes, c \in Collections, header \in Projects \cup {None} :
          req' = [req EXCEPT ![r] = NewRequest(cred, header, route, c)]
    BY <1>9, ArriveFact
  <2>2. NewRequest(cred, header, route, c).pc = "authenticate"
    BY DEF NewRequest
  <2>4. \A p \in Projects : Creating(p)' \subseteq Creating(p)
    BY <2>1, <2>2 DEF Creating, RequestsShape
  <2>5. memPolicy' = memPolicy /\ diskPolicy' = diskPolicy /\ raced' = raced
    BY <1>9 DEF Arrive, policyVars
  <2>6. \A p \in Projects : Claims(memPolicy', p) <= Claims(memPolicy, p)
    BY <2>5, FiniteClaims
  <2> QED BY <2>4, <2>5, <2>6, QuotaStep
<1>10. ASSUME NEW r \in Requests,
           Authenticate(r)
      PROVE  QuotaKept'
  <2>1. req[r].pc = "authenticate" /\ req[r] \in RequestRecord
    BY <1>10 DEF Authenticate, RequestsShape
  <2>2. \/ ToStage(r, "idle")
        \/ req' = [req EXCEPT ![r] = [req[r] EXCEPT !.pc = "authorize", !.who = PrincipalOf(req[r].key)]]
    BY <1>10 DEF Authenticate
  <2>3. [req[r] EXCEPT !.pc = "authorize", !.who = PrincipalOf(req[r].key)].pc = "authorize"
    BY <2>1 DEF RequestRecord
  <2>4. \A p \in Projects : Creating(p)' \subseteq Creating(p)
    <3>1. CASE ToStage(r, "idle")
      BY <3>1, CreatingMoves DEF RequestsShape, Stages
    <3>2. CASE req' = [req EXCEPT ![r] = [req[r] EXCEPT !.pc = "authorize", !.who = PrincipalOf(req[r].key)]]
      BY <2>3, <3>2 DEF Creating, RequestsShape
    <3> QED BY <2>2, <3>1, <3>2
  <2>5. memPolicy' = memPolicy /\ diskPolicy' = diskPolicy /\ raced' = raced
    BY <1>10 DEF Authenticate, policyVars
  <2>6. \A p \in Projects : Claims(memPolicy', p) <= Claims(memPolicy, p)
    BY <2>5, FiniteClaims
  <2> QED BY <2>4, <2>5, <2>6, QuotaStep
<1>11. ASSUME NEW r \in Requests,
           Authorize(r)
      PROVE  QuotaKept'
  <2>1. PICK pc \in {"idle", "quota", "handler"} :
          ToStage(r, pc) /\ (pc = "handler" => req[r].route # "create")
    BY <1>11 DEF Authorize
  <2>4. \A p \in Projects : Creating(p)' \subseteq Creating(p)
    BY <2>1, CreatingMoves DEF RequestsShape, Stages
  <2>5. memPolicy' = memPolicy /\ diskPolicy' = diskPolicy /\ raced' = raced
    BY <1>11 DEF Authorize, policyVars
  <2>6. \A p \in Projects : Claims(memPolicy', p) <= Claims(memPolicy, p)
    BY <2>5, FiniteClaims
  <2> QED BY <2>4, <2>5, <2>6, QuotaStep
<1>12. ASSUME NEW r \in Requests,
           CheckQuota(r)
      PROVE  QuotaKept'
  <2>0. PICK p \in Projects : p = req[r].who.project
    BY <1>12 DEF CheckQuota, RequestsShape
  <2> DEFINE passed == {o \in Requests \ {r} : req[o].who.project = p /\ req[o].route = "create"
                                  /\ req[o].pc \in {"handler", "claim"}}
  <2>1. /\ memPolicy' = memPolicy /\ diskPolicy' = diskPolicy /\ raced \subseteq raced'
        /\ req[r].pc = "quota" /\ req[r].route = "create"
    BY <1>12 DEF CheckQuota, policyVars, RequestsShape
  <2>2. \A q \in Projects : Claims(memPolicy', q) <= Claims(memPolicy, q)
    BY <2>1, FiniteClaims
  <2>3. CASE ~WithinQuota(p)
    <3>1. ToStage(r, "idle")
      BY <1>12, <2>0, <2>3 DEF CheckQuota
    <3>2. \A q \in Projects : Creating(q)' \subseteq Creating(q)
      BY <3>1, CreatingMoves DEF RequestsShape, Stages
    <3> QED BY <2>1, <2>2, <3>2, QuotaStep
  <2>4. CASE WithinQuota(p)
    <3>1. ToStage(r, "handler") /\ (passed # {} => p \in raced')
      BY <1>12, <2>0, <2>4 DEF CheckQuota
    <3>2. Moved(r, "handler")
      BY <3>1, StageFact DEF RequestsShape, Stages
    <3>3. \A q \in Projects : q # p => Creating(q)' \subseteq Creating(q)
      BY <2>0, <3>2 DEF Moved, Creating
    <3>4. Creating(p)' \subseteq passed \cup {r}
      BY <2>0, <3>2 DEF Moved, Creating
    <3>5. Claims(memPolicy, p) + 1 <= MaxCollections
      BY <2>4 DEF WithinQuota, ClaimCount, Claims, Scoped, Legacy
    <3> HIDE DEF passed
    <3> SUFFICES ASSUME NEW q \in Projects, q \notin raced'
                 PROVE  /\ Claims(memPolicy', q) + Cardinality(Creating(q)') <= MaxCollections
                        /\ Claims(diskPolicy', q) <= MaxCollections
      BY DEF QuotaKept
    <3>6. /\ Claims(memPolicy, q) + Cardinality(Creating(q)) <= MaxCollections
          /\ Claims(diskPolicy, q) <= MaxCollections
      BY <2>1 DEF QuotaKept
    <3>7. /\ Claims(memPolicy, q) \in Nat /\ Cardinality(Creating(q)) \in Nat
          /\ MaxCollections \in Nat /\ IsFiniteSet(Creating(q))
      BY FiniteClaims, AccessConstants
    <3>8. CASE q # p
      <4>1. Cardinality(Creating(q)') \in Nat /\ Cardinality(Creating(q)') <= Cardinality(Creating(q))
        BY <3>3, <3>7, <3>8, Counting
      <4> QED BY <2>1, <3>6, <3>7, <4>1
    <3>9. CASE q = p
      <4>1. Creating(q)' \subseteq {} \cup {r}
        BY <3>1, <3>4, <3>9
      <4>2. IsFiniteSet({}) /\ Cardinality({}) = 0
        BY FS_EmptySet
      <4>3. Cardinality(Creating(q)') \in Nat /\ Cardinality(Creating(q)') <= Cardinality({}) + 1
        BY <4>1, <4>2, Counting
      <4> QED BY <2>1, <3>5, <3>6, <3>7, <3>9, <4>2, <4>3
    <3> QED BY <3>8, <3>9
  <2> QED BY <2>3, <2>4
<1>13. ASSUME NEW r \in Requests,
           Handle(r)
      PROVE  QuotaKept'
  <2>1. ToStage(r, "idle")
    BY <1>13 DEF Handle
  <2>4. \A p \in Projects : Creating(p)' \subseteq Creating(p)
    BY <2>1, CreatingMoves DEF RequestsShape, Stages
  <2>5. memPolicy' = memPolicy /\ diskPolicy' = diskPolicy /\ raced' = raced
    BY <1>13 DEF Handle, policyVars
  <2>6. \A p \in Projects : Claims(memPolicy', p) <= Claims(memPolicy, p)
    BY <2>5, FiniteClaims
  <2> QED BY <2>4, <2>5, <2>6, QuotaStep
<1>14. ASSUME NEW r \in Requests,
           CreateScope(r)
      PROVE  QuotaKept'
  <2>1. PICK pc \in {"claim", "idle"} : ToStage(r, pc)
    BY <1>14 DEF CreateScope
  <2>2. req[r].pc = "handler"
    BY <1>14 DEF CreateScope
  <2>3. Moved(r, pc)
    BY <2>1, StageFact DEF Stages, RequestsShape
  <2>4. \A p \in Projects : Creating(p)' \subseteq Creating(p)
    BY <2>1, <2>2, <2>3, AccessConstants DEF Moved, Creating, IdleRequest
  <2>5. memPolicy' = memPolicy /\ diskPolicy' = diskPolicy /\ raced' = raced
    BY <1>14 DEF CreateScope, policyVars
  <2>6. \A p \in Projects : Claims(memPolicy', p) <= Claims(memPolicy, p)
    BY <2>5, FiniteClaims
  <2> QED BY <2>4, <2>5, <2>6, QuotaStep
<1>15. ASSUME NEW r \in Requests,
           Claim(r)
      PROVE  QuotaKept'
  <2> DEFINE p == req[r].who.project
             c == req[r].coll
  <2>1. PICK pc \in {"idle", "inserted", "existing"} : ToStage(r, pc)
    BY <1>15, ClaimFact
  <2>2. /\ raced' = raced /\ req[r].pc = "claim" /\ req[r].route = "create"
        /\ p \in Projects /\ c \in Collections
    BY <1>15 DEF Claim, RequestsShape
  <2>3. \A q \in Projects : Creating(q)' \subseteq Creating(q) \ {r}
    BY <2>1, <2>2, CreatingMoves DEF RequestsShape, Stages
  <2>4. CASE memPolicy' = memPolicy /\ diskPolicy' = diskPolicy
    <3>1. \A q \in Projects : Claims(memPolicy', q) <= Claims(memPolicy, q)
      BY <2>4, FiniteClaims
    <3>2. \A q \in Projects : Creating(q)' \subseteq Creating(q)
      BY <2>3
    <3> QED BY <2>2, <2>4, <3>1, <3>2, QuotaStep
  <2>5. CASE Grown(memPolicy', memPolicy, p, c) /\ diskPolicy' \in {memPolicy', diskPolicy}
    <3> SUFFICES ASSUME NEW q \in Projects, q \notin raced
                 PROVE  /\ Claims(memPolicy', q) + Cardinality(Creating(q)') <= MaxCollections
                        /\ Claims(diskPolicy', q) <= MaxCollections
      BY <2>2 DEF QuotaKept
    <3>1. /\ Claims(memPolicy, q) + Cardinality(Creating(q)) <= MaxCollections
          /\ Claims(diskPolicy, q) <= MaxCollections
      BY DEF QuotaKept
    <3>2. Claims(memPolicy', q) <= Claims(memPolicy, q) + (IF q = p THEN 1 ELSE 0)
      BY <2>2, <2>5, GrownCount
    <3>3. /\ Claims(memPolicy, q) \in Nat /\ Claims(memPolicy', q) \in Nat
          /\ Cardinality(Creating(q)) \in Nat /\ MaxCollections \in Nat /\ IsFiniteSet(Creating(q))
      BY FiniteClaims, AccessConstants
    <3>4. CASE q = p
      <4>1. r \in Creating(q)
        BY <2>2, <3>4 DEF Creating
      <4>2. Cardinality(Creating(q)') \in Nat /\ Cardinality(Creating(q)') <= Cardinality(Creating(q)) - 1
        BY <2>3, <3>3, <4>1, Counting
      <4> QED BY <2>5, <3>1, <3>2, <3>3, <3>4, <4>2
    <3>5. CASE q # p
      <4>1. Cardinality(Creating(q)') \in Nat /\ Cardinality(Creating(q)') <= Cardinality(Creating(q))
        BY <2>3, <3>3, Counting
      <4> QED BY <2>5, <3>1, <3>2, <3>3, <3>5, <4>1
    <3> QED BY <3>4, <3>5
  <2> QED BY <1>15, <2>4, <2>5, ClaimFact
<1>16. ASSUME NEW r \in Requests,
           Create(r)
      PROVE  QuotaKept'
  <2>1. /\ Shrunk(memPolicy', memPolicy) /\ diskPolicy' \in {memPolicy', diskPolicy}
        /\ ToStage(r, "idle") /\ raced' = raced
    BY <1>16, CreateFact DEF Create
  <2>2. \A p \in Projects : Claims(memPolicy', p) <= Claims(memPolicy, p)
    BY <2>1, ShrunkCount
  <2>3. \A p \in Projects : Creating(p)' \subseteq Creating(p)
    BY <2>1, CreatingMoves DEF RequestsShape, Stages
  <2> QED BY <2>1, <2>2, <2>3, QuotaStep
<1>17. ASSUME NEW r \in Requests,
           Delete(r)
      PROVE  QuotaKept'
  <2>1. /\ Shrunk(memPolicy', memPolicy) /\ diskPolicy' \in {memPolicy', diskPolicy}
        /\ ToStage(r, "idle") /\ raced' = raced
    BY <1>17, DeleteFact DEF Delete
  <2>2. \A p \in Projects : Claims(memPolicy', p) <= Claims(memPolicy, p)
    BY <2>1, ShrunkCount
  <2>3. \A p \in Projects : Creating(p)' \subseteq Creating(p)
    BY <2>1, CreatingMoves DEF RequestsShape, Stages
  <2> QED BY <2>1, <2>2, <2>3, QuotaStep
<1>18. ASSUME UNCHANGED accessVars PROVE QuotaKept'
  BY <1>18 DEF accessVars, requestVars, policyVars, QuotaKept, Creating
<1> QED BY StepKinds, <1>1, <1>2, <1>3, <1>4, <1>5, <1>6, <1>7, <1>8, <1>9, <1>10, <1>11, <1>12, <1>13, <1>14, <1>15, <1>16, <1>17, <1>18

-----------------------------------------------------------------------------
(* Initial states *)

\* The first states: accounts and keys.
LEMMA InitialKeys ==
    ASSUME AccessInit
    PROVE  AccountsShape /\ KeysShape /\ KeysAgree /\ WithdrawnDead
<1> USE AccessConstants
<1>1. PICK p \in Projects, owners \in [Keys -> Accounts \cup {None, "unissued"}] :
        /\ accounts = [a \in Accounts |-> [exists |-> TRUE, on |-> TRUE,
                         roles |-> [q \in Projects |-> IF q = p THEN "reader" ELSE None]]]
        /\ memKeys = [k \in Keys |-> IF owners[k] = "unissued" THEN NoKey ELSE FreshKey(p, owners[k])]
  BY DEF AccessInit
<1>2. /\ active = Projects /\ diskKeys = memKeys /\ minted = [k \in Keys |-> memKeys[k].secret]
      /\ known = {<<k, 1>> : k \in {j \in Keys : memKeys[j] # NoKey}} /\ withdrawn = {}
  BY DEF AccessInit
<1>3. AccountsShape
  BY <1>1, <1>2 DEF AccountsShape, AccountRecord, Roles
<1>4. \A k \in Keys : /\ memKeys[k] \in {NoKey} \cup IssuedKey
                      /\ memKeys[k].secret \in Nat
  <2> SUFFICES ASSUME NEW k \in Keys
               PROVE  memKeys[k] \in {NoKey} \cup IssuedKey /\ memKeys[k].secret \in Nat
    OBVIOUS
  <2>1. CASE owners[k] = "unissued"
    BY <1>1, <2>1 DEF NoKey
  <2>2. CASE owners[k] # "unissued"
    <3>1. owners[k] \in Accounts \cup {None} /\ memKeys[k] = FreshKey(p, owners[k])
      BY <1>1, <2>2
    <3>2. FreshKey(p, owners[k]) \in IssuedKey /\ FreshKey(p, owners[k]).secret = 1
      BY <3>1, NewKey
    <3> QED BY <3>1, <3>2
  <2> QED BY <2>1, <2>2
<1>5. KeysShape
  <2>1. memKeys \in [Keys -> {NoKey} \cup IssuedKey]
    BY <1>1, <1>4
  <2>2. minted \in [Keys -> Nat]
    BY <1>2, <1>4
  <2> QED BY <1>2, <2>1, <2>2 DEF KeysShape
<1>6. KeysAgree
  BY <1>2, <1>4 DEF KeysAgree
<1>7. WithdrawnDead
  BY <1>2 DEF WithdrawnDead
<1> QED BY <1>3, <1>5, <1>6, <1>7

\* The first states: policies and requests.
LEMMA InitialRequests ==
    ASSUME AccessInit
    PROVE  PoliciesShape /\ RequestsShape /\ RolesHeld /\ QuotaKept
<1> USE AccessConstants
<1>1. PICK old \in [Collections -> Projects \cup {None}] :
        /\ Cardinality({c \in Collections : old[c] # None}) <= 1
        /\ memPolicy = [scoped |-> [p \in Projects |-> [c \in Collections |-> NoClaim]], legacy |-> old]
        /\ scopes = {<<old[c], c>> : c \in {d \in Collections : old[d] # None}}
  BY DEF AccessInit
<1>2. /\ diskPolicy = memPolicy /\ req = [r \in Requests |-> IdleRequest]
      /\ held = [r \in Requests |-> {}] /\ raced = {}
  BY DEF AccessInit
<1>3. PoliciesShape
  BY <1>1, <1>2, ClaimValues DEF PoliciesShape, Policy
<1>4. RequestsShape
  BY <1>2, IdleFact DEF RequestsShape, IdleRequest
<1>5. RolesHeld
  BY <1>2 DEF RolesHeld, IdleRequest
<1>6. ASSUME NEW p \in Projects
      PROVE  Claims(memPolicy, p) <= MaxCollections /\ Cardinality(Creating(p)) = 0
  <2>1. Scoped(memPolicy, p) = {} /\ Creating(p) = {}
    BY <1>1, <1>2 DEF Scoped, Creating, IdleRequest
  <2>2. Legacy(memPolicy, p) \subseteq {c \in Collections : old[c] # None}
    BY <1>1 DEF Legacy
  <2>3. IsFiniteSet({c \in Collections : old[c] # None})
    BY FS_Subset
  <2>4. /\ Cardinality(Legacy(memPolicy, p)) <= Cardinality({c \in Collections : old[c] # None})
        /\ Cardinality({c \in Collections : old[c] # None}) \in Nat
    BY <2>2, <2>3, Counting
  <2>5. Cardinality({}) = 0
    BY FS_EmptySet
  <2> QED BY <1>1, <2>1, <2>4, <2>5, FiniteClaims DEF Claims
<1>7. QuotaKept
  <2> SUFFICES ASSUME NEW p \in Projects
               PROVE  /\ Claims(memPolicy, p) + Cardinality(Creating(p)) <= MaxCollections
                      /\ Claims(diskPolicy, p) <= MaxCollections
    BY DEF QuotaKept
  <2> QED BY <1>2, <1>6, FiniteClaims
<1> QED BY <1>3, <1>4, <1>5, <1>7

-----------------------------------------------------------------------------
(* Theorems *)

\* The invariant holds in every reachable state.
LEMMA AccessInductive == AccessSpec => []AccessIInv
<1>1. AccessInit => AccessIInv
  BY InitialKeys, InitialRequests DEF AccessIInv
<1>2. AccessIInv /\ [AccessNext]_accessVars => AccessIInv'
  BY AccountsKept, KeysTyped, KeysAgreeKept, WithdrawnKept, PoliciesKept, RequestsKept, RolesKept,
     QuotaPreserved DEF AccessIInv
<1> QED BY <1>1, <1>2, PTL DEF AccessSpec

\* A request at another stage stays at its stage while one moves past authorization.
LEMMA OtherStages ==
    ASSUME RequestsShape, PoliciesShape, NEW r \in Requests, NEW o \in Requests, req[r].pc # "authenticate",
           req[o].pc = "authenticate",
           \/ Authorize(r) \/ CheckQuota(r) \/ Handle(r) \/ CreateScope(r) \/ Claim(r) \/ Create(r) \/ Delete(r)
    PROVE  req'[o] = req[o]
<1>1. \E pc \in Stages : ToStage(r, pc)
  BY ClaimFact DEF Authorize, CheckQuota, Handle, CreateScope, Create, Delete, Stages
<1> QED BY <1>1, StageFact DEF Moved, RequestsShape

\* The invariant contains AuthorityWasHeld.
LEMMA HeldAuthority == ASSUME AccessIInv PROVE AuthorityWasHeld
<1> SUFFICES ASSUME NEW r \in Requests, req[r].pc \notin {"idle", "authenticate", "authorize"},
                    memKeys[req[r].key].account # None
             PROVE  \E role \in held[r] \cap Roles : RoleAllows(role, RouteAction[req[r].route])
  BY DEF AuthorityWasHeld
<1> QED BY DEF AccessIInv, RolesHeld

\* The invariant contains AccessTypeOK.
LEMMA TypesOK == ASSUME AccessIInv PROVE AccessTypeOK
<1>1. \A a \in Accounts : accounts[a].roles \in [Projects -> Roles \cup {None}]
  BY DEF AccessIInv, AccountsShape, AccountRecord
<1>2. \A k \in Keys : {memKeys[k].project, diskKeys[k].project} \subseteq Projects \cup {None}
  BY DEF AccessIInv, KeysShape, IssuedKey, NoKey
<1>3. memPolicy.legacy \in [Collections -> Projects \cup {None}] /\ scopes \subseteq Projects \X Collections
  BY DEF AccessIInv, PoliciesShape, Policy
<1>4. \A r \in Requests : req[r].route \in Routes \cup {None} /\ held[r] \subseteq Roles \cup {None}
  BY DEF AccessIInv, RequestsShape, RequestRecord, RolesHeld
<1> QED BY <1>1, <1>2, <1>3, <1>4 DEF AccessIInv, AccountsShape, AccessTypeOK

\* The invariant contains QuotaExceededOnlyByRace.
LEMMA OnlyByRace == ASSUME AccessIInv PROVE QuotaExceededOnlyByRace
<1> SUFFICES ASSUME NEW p \in Projects, p \notin raced PROVE ~(ClaimCount(p) > MaxCollections)
  BY DEF QuotaExceededOnlyByRace
<1>1. ClaimCount(p) = Claims(memPolicy, p)
  BY DEF ClaimCount, Claims, Scoped, Legacy
<1>2. Claims(memPolicy, p) + Cardinality(Creating(p)) <= MaxCollections
  BY DEF AccessIInv, QuotaKept
<1> QED BY <1>1, <1>2, FiniteClaims, AccessConstants

\* For any sets of keys, accounts, projects, collections and requests: nobody acts without
\* authority held during the request (authorization.rs, api_keys.rs), and only racing
\* creations exceed the collection quota (authorization_http.rs).
THEOREM AccessSafe == AccessSpec => []AccessInv
<1>1. AccessIInv => AccessInv
  BY HeldAuthority, TypesOK, OnlyByRace DEF AccessInv
<1> QED BY <1>1, AccessInductive, PTL

\* A secret that an acknowledged revoke or rotate (api_keys.rs) withdrew never authenticates a
\* request again, whatever fails to persist and however often the server restarts.
THEOREM WithdrawnStayOut == AccessSpec => WithdrawnSecretsRejected
<1> DEFINE Rejects ==
      \A r \in Requests : req[r].pc = "authenticate" /\ req'[r].pc = "authorize"
        => <<req[r].key, req[r].secret>> \notin withdrawn
<1>1. AccessIInv /\ [AccessNext]_accessVars => [Rejects]_accessVars
  <2> SUFFICES ASSUME AccessIInv, [AccessNext]_accessVars, NEW o \in Requests,
                      req[o].pc = "authenticate", req'[o].pc = "authorize"
               PROVE  <<req[o].key, req[o].secret>> \notin withdrawn
    OBVIOUS
  <2>1. Authenticate(o)
    <3> USE DEF AccessIInv
    <3>1. ASSUME NEW p \in Projects, ChangeProject(p) PROVE FALSE
      BY <3>1 DEF ChangeProject, requestVars
    <3>2. ASSUME NEW a \in Accounts, NEW account \in AccountRecord, account.exists \/ account = NoAccount, SetAccount(a, account) PROVE FALSE
      BY <3>2 DEF SetAccount, requestVars
    <3>3. ASSUME NEW k \in Keys, Revoke(k) PROVE FALSE
      BY <3>3 DEF Revoke, requestVars
    <3>4. ASSUME NEW k \in Keys, Rotate(k) PROVE FALSE
      BY <3>4 DEF Rotate, requestVars
    <3>5. ASSUME NEW k \in Keys, Expire(k) PROVE FALSE
      BY <3>5 DEF Expire, requestVars
    <3>6. ASSUME NEW k \in Keys, NEW p \in Projects, NEW a \in Accounts \cup {None}, CreateKey(k, p, a) PROVE FALSE
      BY <3>6 DEF CreateKey, requestVars
    <3>7. ASSUME NEW p \in Projects, NEW c \in Collections, NEW s \in Subjects, NEW m \in Permissions, SetCollectionPermission(p, c, s, m) PROVE FALSE
      BY <3>7 DEF SetCollectionPermission, requestVars
    <3>8. ASSUME Restart PROVE FALSE
      BY <3>8 DEF Restart, IdleRequest
    <3>9. ASSUME NEW r \in Requests, Arrive(r) PROVE FALSE
      BY <3>9, ArriveFact DEF NewRequest, RequestsShape
    <3>10. ASSUME NEW r \in Requests, Authenticate(r) PROVE r = o
      BY <3>10, StageFact DEF Authenticate, Moved, RequestsShape, Stages, ToStage, Finish
    <3>11. ASSUME NEW r \in Requests, Authorize(r) PROVE FALSE
      BY <3>11, OtherStages DEF Authorize
    <3>12. ASSUME NEW r \in Requests, CheckQuota(r) PROVE FALSE
      BY <3>12, OtherStages DEF CheckQuota
    <3>13. ASSUME NEW r \in Requests, Handle(r) PROVE FALSE
      BY <3>13, OtherStages DEF Handle
    <3>14. ASSUME NEW r \in Requests, CreateScope(r) PROVE FALSE
      BY <3>14, OtherStages DEF CreateScope
    <3>15. ASSUME NEW r \in Requests, Claim(r) PROVE FALSE
      BY <3>15, OtherStages DEF Claim
    <3>16. ASSUME NEW r \in Requests, Create(r) PROVE FALSE
      BY <3>16, OtherStages DEF Create
    <3>17. ASSUME NEW r \in Requests, Delete(r) PROVE FALSE
      BY <3>17, OtherStages DEF Delete
    <3>18. ~UNCHANGED accessVars
      BY DEF accessVars, requestVars
    <3> QED BY StepKinds, <3>1, <3>2, <3>3, <3>4, <3>5, <3>6, <3>7, <3>8, <3>9, <3>10, <3>11, <3>12, <3>13, <3>14, <3>15, <3>16, <3>17, <3>18
  <2>2. Authentic(req[o].key, req[o].secret)
    <3>1. CASE ToStage(o, "idle")
      <4>1. req'[o] = IdleRequest
        BY <3>1 DEF ToStage, Finish, AccessIInv, RequestsShape
      <4> QED BY <4>1 DEF IdleRequest
    <3> QED BY <2>1, <3>1 DEF Authenticate
  <2> QED BY <2>2 DEF Authentic, KeyValid, AccessIInv, WithdrawnDead, Dead, KeysShape
<1> QED BY <1>1, AccessInductive, PTL DEF AccessSpec, WithdrawnSecretsRejected

===============================================================================
