---------------------------- MODULE ControlPlane ----------------------------
(***************************************************************************)
(* The control plane: organizations, projects, memberships, API keys and    *)
(* the collections projects own, as requests of the HTTP and gRPC adapters   *)
(* change them.                                                             *)
(*                                                                         *)
(* Nothing of it stays in memory between requests.  A request opens          *)
(* control-plane.ktcp ("cp"), organization-memberships.json ("om") or         *)
(* project-memberships.json ("pm") anew, changes the copy it has read and     *)
(* publishes the whole file: temporary file, write, rename.  The mutex of a   *)
(* store belongs to the copy, so requests on different worker threads        *)
(* interleave at every file operation, and they share one temporary path.    *)
(*                                                                         *)
(* The collection catalog, the claims of authorization.json and the API keys *)
(* have one instance in the server: their operations are atomic.             *)
(***************************************************************************)
EXTENDS Naturals, FiniteSets

CONSTANTS
  Threads,          \* worker threads that run requests
  Orgs, Projects, Subjects, Slugs,
  DefaultOrg, DefaultProject, DefaultSlug,
  Calls,            \* the requests clients make
  Keyed,            \* the projects API keys are issued for
  MaxCalls,         \* bound on the requests of a behaviour
  MaxFaults,        \* bound on crashes and I/O errors
  Absent, Unreadable, NoFile, NoCall

Files == {"cp", "om", "pm"}
Lifecycles == {"active", "suspended", "deleting"}
OrgRoles == {"owner", "admin", "member", "billing_admin"}
ProjectRoles == {"owner", "editor", "reader"}

Organization == [slug : Slugs, life : Lifecycles]
Project == [org : Orgs, slug : Slugs, life : Lifecycles]

\* ControlPlaneState and the two MembershipFiles: what a file decodes to.
ControlPlaneState ==
  [orgs : [Orgs -> Organization \cup {Absent}],
   projects : [Projects -> Project \cup {Absent}]]
OrgMembers == [Orgs -> [Subjects -> OrgRoles \cup {Absent}]]
ProjectMembers == [Projects -> [Subjects -> ProjectRoles \cup {Absent}]]
Content == [cp |-> ControlPlaneState, om |-> OrgMembers, pm |-> ProjectMembers]

\* A file: what it decodes to, and the threads that still write it.
Entry(f) == [data : Content[f] \cup {Unreadable}, by : SUBSET Threads]

CallKinds ==
  {"create_org", "update_org", "delete_org", "create_project", "update_project",
   "delete_project", "set_org_role", "remove_org_role", "set_project_role",
   "remove_project_role", "create_collection", "delete_collection"}
\* Who asks: a human subject, or the workload an API key of a project stands for.
Call ==
  [kind : CallKinds, by : Subjects \cup Projects, org : Orgs, project : Projects,
   slug : Slugs, life : Lifecycles, subject : Subjects, role : OrgRoles \cup ProjectRoles]

ASSUME ControlPlaneAssumption ==
  /\ DefaultOrg \in Orgs /\ DefaultProject \in Projects /\ DefaultSlug \in Slugs
  /\ Calls \subseteq Call /\ Keyed \subseteq Projects
  /\ \A c \in Calls : /\ c.kind = "set_org_role" => c.role \in OrgRoles
                      /\ c.kind = "set_project_role" => c.role \in ProjectRoles
                      /\ c.kind \in {"create_org", "create_project"} => c.by \in Subjects
                      /\ c.kind \in {"create_collection", "delete_collection"} => c.by = c.project
  /\ MaxCalls \in Nat /\ MaxFaults \in Nat
  /\ Absent \notin Organization \cup Project \cup OrgRoles \cup ProjectRoles
  /\ Unreadable \notin ControlPlaneState \cup OrgMembers \cup ProjectMembers
  /\ Subjects \cap Projects = {}
  /\ Absent \notin ControlPlaneState /\ NoFile \notin Files
  /\ \A f \in Files : NoFile \notin Entry(f)

VARIABLES
  final,    \* the published files: [data |-> content, by |-> threads still writing it]
  temp,     \* the temporary file beside each, or NoFile
  pc,       \* where each thread is in its request
  call,     \* the request it runs
  store,    \* the ControlPlaneState of the store it has opened for changing, or Absent
  target,   \* the file it is publishing, or NoFile
  next,     \* the content it is publishing, under the name of its file
  catalog,  \* projects with a collection in the namespace catalog
  claims,   \* projects with a collection claim in authorization.json
  spaces,   \* projects whose collection has its storage namespace on disk
  data,     \* projects whose collection is live
  keys,     \* projects an API key was issued for; revoked keys stay in the file
  server,   \* "up", "down" or "refused" when start-up failed
  served, faults,
  clashed   \* history: the files two requests had open for changing at once

vars == <<final, temp, pc, call, store, target, next, catalog, claims, spaces, data,
          keys, server, served, faults, clashed>>
fileVars == <<final, temp>>
planeVars == <<catalog, claims, spaces, data, keys>>

-----------------------------------------------------------------------------
\* The store: uniqueness, ownership and lifecycle rules of one snapshot.

OrgSlugFree(s, o, slug) ==
  \A x \in Orgs \ {o} : s.orgs[x] # Absent => s.orgs[x].slug # slug

ProjectSlugFree(s, p, o, slug) ==
  \A x \in Projects \ {p} :
    s.projects[x] # Absent => ~(s.projects[x].org = o /\ s.projects[x].slug = slug)

\* Mutant: only the way back to active is closed.
TransitionNotToActive(from, to) == from = "deleting" => to # "active"

ValidTransition(from, to) == from = "deleting" => to = "deleting"

PutOrg(s, o, org) == [s EXCEPT !.orgs[o] = org]
PutProject(s, p, project) == [s EXCEPT !.projects[p] = project]

\* validate_loaded_state.
ValidState(s) ==
  /\ \A o \in Orgs : s.orgs[o] # Absent => OrgSlugFree(s, o, s.orgs[o].slug)
  /\ \A p \in Projects :
       s.projects[p] # Absent =>
         /\ s.orgs[s.projects[p].org] # Absent
         /\ ProjectSlugFree(s, p, s.projects[p].org, s.projects[p].slug)

Owners(members) == {m \in DOMAIN members : members[m] = "owner"}
NoMembers(members) == \A m \in DOMAIN members : members[m] = Absent

-----------------------------------------------------------------------------
\* Authorization, decided on what the files hold when it is asked.

OrgRoleMayManage(role) == role \in {"owner", "admin"}

OrgAuthorized(by, o, s, om) ==
  s.orgs[o] # Absent /\ by \in Subjects /\ OrgRoleMayManage(om[o][by])

ProjectAuthorized(by, p, s, pm) ==
  /\ s.projects[p] # Absent /\ s.projects[p].life = "active"
  /\ by = p \/ (by \in Subjects /\ pm[p][by] = "owner")

\* An API key authenticates only while its project is active.
WorkloadAdmitted(p) ==
  /\ p \in keys
  /\ final["cp"].data # Unreadable
  /\ final["cp"].data.projects[p] # Absent
  /\ final["cp"].data.projects[p].life = "active"

-----------------------------------------------------------------------------
\* Files.  A temporary file belongs to whoever opened its path last.

Empty(t) == [data |-> Unreadable, by |-> {t}]

\* fs::write truncates the file that is there, whoever else has it open.
Truncate(t, e) == [data |-> Unreadable, by |-> IF e = NoFile THEN {t} ELSE e.by \cup {t}]

Coming(t) == next[t][target[t]]

\* What a file can hold after t has written it: two writers may leave a mixture.
WrittenBy(t, e) ==
  {[data |-> d, by |-> e.by \ {t}] :
     d \in {Coming(t)} \cup (IF e.data = Unreadable THEN {} ELSE {Unreadable})}

Holds(t, f) == IF f = "cp" THEN store[t] # Absent ELSE target[t] = f

Opened(t, f) ==
  clashed' = IF \E u \in Threads \ {t} : Holds(u, f) THEN clashed \cup {f} ELSE clashed

\* The request has decided: from here on it publishes `content` as file f.
Publish(t, f, content, held) ==
  /\ pc' = [pc EXCEPT ![t] = "temp"]
  /\ target' = [target EXCEPT ![t] = f]
  /\ next' = [next EXCEPT ![t] = [g \in {f} |-> content]]
  /\ store' = [store EXCEPT ![t] = held]
  /\ UNCHANGED <<fileVars, planeVars, call, server, served, faults>>

\* The request has returned to its caller.
End(t) ==
  /\ pc' = [pc EXCEPT ![t] = "idle"]
  /\ call' = [call EXCEPT ![t] = NoCall]
  /\ store' = [store EXCEPT ![t] = Absent]
  /\ target' = [target EXCEPT ![t] = NoFile]
  /\ next' = [next EXCEPT ![t] = Absent]

Goto(t, label) ==
  /\ pc' = [pc EXCEPT ![t] = label]
  /\ UNCHANGED <<call, store, target, next>>

At(t, label, kinds) == pc[t] = label /\ call[t].kind \in kinds

Cp == final["cp"].data
Om == final["om"].data
Pm == final["pm"].data

-----------------------------------------------------------------------------
\* A request arrives.

FirstStep(kind) ==
  CASE kind \in {"update_org", "delete_org", "create_project"} -> "authorize"
    [] kind \in {"update_project", "delete_project"} -> "load"
    [] kind = "create_collection" -> "scope"
    [] kind = "delete_collection" -> "drop"
    [] OTHER -> "apply"

Begin(t, c) ==
  /\ server = "up" /\ pc[t] = "idle" /\ served < MaxCalls
  /\ c.by \in Projects => WorkloadAdmitted(c.by)
  /\ c.kind = "delete_collection" => c.project \in claims
  /\ served' = served + 1
  /\ call' = [call EXCEPT ![t] = c]
  /\ pc' = [pc EXCEPT ![t] = FirstStep(c.kind)]
  /\ UNCHANGED <<fileVars, planeVars, store, target, next, server, faults, clashed>>

AuthorizeOrganization(t) ==
  /\ At(t, "authorize", {"update_org", "delete_org", "create_project"})
  /\ Cp # Unreadable /\ Om # Unreadable
  /\ OrgAuthorized(call[t].by, call[t].org, Cp, Om)
  /\ Goto(t, "apply")
  /\ UNCHANGED <<fileVars, planeVars, server, served, faults, clashed>>

\* Project updates open the store before they ask for authority.
LoadProject(t) ==
  /\ pc[t] = "load"
  /\ Cp # Unreadable /\ Cp.projects[call[t].project] # Absent
  /\ store' = [store EXCEPT ![t] = Cp]
  /\ Opened(t, "cp")
  /\ pc' = [pc EXCEPT ![t] = "authorize"]
  /\ UNCHANGED <<fileVars, planeVars, call, target, next, server, served, faults>>

ProjectManagementAuthorized(t) ==
  LET p == call[t].project
  IN  /\ Cp # Unreadable /\ Om # Unreadable
      /\ \/ OrgAuthorized(call[t].by, store[t].projects[p].org, Cp, Om)
         \/ Pm # Unreadable /\ ProjectAuthorized(call[t].by, p, Cp, Pm)

AuthorizeProjectManagement(t) ==
  /\ At(t, "authorize", {"update_project", "delete_project"})
  /\ ProjectManagementAuthorized(t)
  /\ Goto(t, "apply")
  /\ UNCHANGED <<fileVars, planeVars, server, served, faults, clashed>>

-----------------------------------------------------------------------------
\* The operations: what each checks on its copy, and what it publishes.

CreateOrganizationAllowed(c, s) ==
  s.orgs[c.org] = Absent /\ OrgSlugFree(s, c.org, c.slug)

CreateOrganization(t) ==
  LET c == call[t]
  IN  /\ At(t, "apply", {"create_org"})
      /\ Cp # Unreadable /\ CreateOrganizationAllowed(c, Cp)
      /\ Opened(t, "cp")
      /\ Publish(t, "cp", PutOrg(Cp, c.org, [slug |-> c.slug, life |-> "active"]), Cp)

UpdateOrganizationAllowed(c, s) ==
  /\ s.orgs[c.org] # Absent
  /\ ValidTransition(s.orgs[c.org].life, c.life)
  /\ OrgSlugFree(s, c.org, c.slug)

UpdateOrganization(t) ==
  LET c == call[t]
  IN  /\ At(t, "apply", {"update_org"})
      /\ Cp # Unreadable /\ UpdateOrganizationAllowed(c, Cp)
      /\ Opened(t, "cp")
      /\ Publish(t, "cp", PutOrg(Cp, c.org, [slug |-> c.slug, life |-> c.life]), Cp)

OwnsNoProjects(s, o) ==
  \A p \in Projects : s.projects[p] # Absent => s.projects[p].org # o

\* Mutant: projects of the organization are not looked for.
DeleteOwningOrganization(c, s) ==
  s.orgs[c.org] # Absent /\ s.orgs[c.org].life = "deleting"

DeleteOrganizationAllowed(c, s) ==
  /\ s.orgs[c.org] # Absent /\ s.orgs[c.org].life = "deleting"
  /\ OwnsNoProjects(s, c.org)

DeleteOrganization(t) ==
  LET c == call[t]
  IN  /\ At(t, "apply", {"delete_org"})
      /\ Cp # Unreadable /\ DeleteOrganizationAllowed(c, Cp)
      /\ Opened(t, "cp")
      /\ Publish(t, "cp", PutOrg(Cp, c.org, Absent), Cp)

CreateProjectAllowed(c, s) ==
  /\ s.orgs[c.org] # Absent /\ s.orgs[c.org].life = "active"
  /\ s.projects[c.project] = Absent
  /\ ProjectSlugFree(s, c.project, c.org, c.slug)

CreateProject(t) ==
  LET c == call[t]
  IN  /\ At(t, "apply", {"create_project"})
      /\ Cp # Unreadable /\ CreateProjectAllowed(c, Cp)
      /\ Opened(t, "cp")
      /\ Publish(t, "cp",
           PutProject(Cp, c.project, [org |-> c.org, slug |-> c.slug, life |-> "active"]), Cp)

UpdateProjectAllowed(c, s) ==
  LET project == s.projects[c.project]
  IN  /\ ValidTransition(project.life, c.life)
      /\ s.orgs[project.org] # Absent
      /\ ProjectSlugFree(s, c.project, project.org, c.slug)

UpdateProject(t) ==
  LET c == call[t]
      s == store[t]
  IN  /\ At(t, "apply", {"update_project"})
      /\ UpdateProjectAllowed(c, s)
      /\ Publish(t, "cp",
           PutProject(s, c.project,
             [org |-> s.projects[c.project].org, slug |-> c.slug, life |-> c.life]), s)
      /\ UNCHANGED clashed

DeleteProjectAllowed(c, s) ==
  s.projects[c.project].life = "deleting" /\ c.project \notin catalog

DeleteProject(t) ==
  /\ At(t, "apply", {"delete_project"})
  /\ DeleteProjectAllowed(call[t], store[t])
  /\ Publish(t, "cp", PutProject(store[t], call[t].project, Absent), store[t])
  /\ UNCHANGED clashed

\* update_role, remove_membership: the last owner stays one.
LastOwner(members, m) == members[m] = "owner" /\ Cardinality(Owners(members)) = 1

SetRoleAllowed(members, m, role) ==
  members[m] # Absent => (role = "owner" \/ ~LastOwner(members, m))

\* Mutant: the last owner may leave.
RemoveAnyRole(members, m) == members[m] # Absent

RemoveRoleAllowed(members, m) == members[m] # Absent /\ ~LastOwner(members, m)

OrgMembershipWritable(c) ==
  Cp # Unreadable /\ Om # Unreadable /\ OrgAuthorized(c.by, c.org, Cp, Om)

SetOrganizationRole(t) ==
  LET c == call[t]
  IN  /\ At(t, "apply", {"set_org_role"})
      /\ OrgMembershipWritable(c) /\ SetRoleAllowed(Om[c.org], c.subject, c.role)
      /\ Opened(t, "om")
      /\ Publish(t, "om", [Om EXCEPT ![c.org][c.subject] = c.role], Absent)

RemoveOrganizationRole(t) ==
  LET c == call[t]
  IN  /\ At(t, "apply", {"remove_org_role"})
      /\ OrgMembershipWritable(c) /\ RemoveRoleAllowed(Om[c.org], c.subject)
      /\ Opened(t, "om")
      /\ Publish(t, "om", [Om EXCEPT ![c.org][c.subject] = Absent], Absent)

\* Only a human owner of an active project manages its memberships.
ProjectMembershipWritable(c) ==
  /\ Cp # Unreadable /\ Pm # Unreadable
  /\ c.by \in Subjects /\ ProjectAuthorized(c.by, c.project, Cp, Pm)

SetProjectRole(t) ==
  LET c == call[t]
  IN  /\ At(t, "apply", {"set_project_role"})
      /\ ProjectMembershipWritable(c) /\ SetRoleAllowed(Pm[c.project], c.subject, c.role)
      /\ Opened(t, "pm")
      /\ Publish(t, "pm", [Pm EXCEPT ![c.project][c.subject] = c.role], Absent)

RemoveProjectRole(t) ==
  LET c == call[t]
  IN  /\ At(t, "apply", {"remove_project_role"})
      /\ ProjectMembershipWritable(c) /\ RemoveRoleAllowed(Pm[c.project], c.subject)
      /\ Opened(t, "pm")
      /\ Publish(t, "pm", [Pm EXCEPT ![c.project][c.subject] = Absent], Absent)

-----------------------------------------------------------------------------
\* The second file of a creation: its first owner; of a deletion: its members.

BootstrapOrgOwner(t) ==
  LET c == call[t]
  IN  /\ At(t, "owner", {"create_org"})
      /\ Cp # Unreadable /\ Om # Unreadable
      /\ Cp.orgs[c.org] # Absent /\ NoMembers(Om[c.org])
      /\ Opened(t, "om")
      /\ Publish(t, "om", [Om EXCEPT ![c.org][c.by] = "owner"], store[t])

BootstrapProjectOwner(t) ==
  LET c == call[t]
  IN  /\ At(t, "owner", {"create_project"})
      /\ Cp # Unreadable /\ Pm # Unreadable
      /\ Cp.projects[c.project] # Absent /\ NoMembers(Pm[c.project])
      /\ Opened(t, "pm")
      /\ Publish(t, "pm", [Pm EXCEPT ![c.project][c.by] = "owner"], store[t])

\* bootstrap_owner fails: the resource was deleted, or old memberships are left.
BootstrapRefused(t) ==
  LET c == call[t]
  IN  /\ Cp # Unreadable
      /\ \/ /\ At(t, "owner", {"create_org"}) /\ Om # Unreadable
            /\ ~(Cp.orgs[c.org] # Absent /\ NoMembers(Om[c.org]))
         \/ /\ At(t, "owner", {"create_project"}) /\ Pm # Unreadable
            /\ ~(Cp.projects[c.project] # Absent /\ NoMembers(Pm[c.project]))
      /\ Goto(t, "rollback")
      /\ UNCHANGED <<fileVars, planeVars, server, served, faults, clashed>>

\* The copy that created the resource deletes it again, from the state it knows.
Rollback(t) ==
  LET c == call[t]
  IN  /\ \/ /\ At(t, "rollback", {"create_org"}) /\ OwnsNoProjects(store[t], c.org)
            /\ Publish(t, "cp", PutOrg(store[t], c.org, Absent), store[t])
         \/ /\ At(t, "rollback", {"create_project"})
            /\ Publish(t, "cp", PutProject(store[t], c.project, Absent), store[t])
      /\ UNCHANGED clashed

PurgeOrganization(t) ==
  LET c == call[t]
  IN  /\ At(t, "purge", {"delete_org"})
      /\ Cp # Unreadable /\ Om # Unreadable /\ ~NoMembers(Om[c.org])
      /\ Opened(t, "om")
      /\ Publish(t, "om", [Om EXCEPT ![c.org] = [m \in Subjects |-> Absent]], store[t])

PurgeProject(t) ==
  LET c == call[t]
  IN  /\ At(t, "purge", {"delete_project"})
      /\ Cp # Unreadable /\ Pm # Unreadable /\ ~NoMembers(Pm[c.project])
      /\ Opened(t, "pm")
      /\ Publish(t, "pm", [Pm EXCEPT ![c.project] = [m \in Subjects |-> Absent]], store[t])

-----------------------------------------------------------------------------
\* persist.

\* What follows a publication of the control-plane file.
Created(t) ==
  \/ call[t].kind = "create_org" /\ Coming(t).orgs[call[t].org] # Absent
  \/ call[t].kind = "create_project" /\ Coming(t).projects[call[t].project] # Absent

Published(t) ==
  \/ /\ target[t] = "cp" /\ (Created(t) \/ call[t].kind \in {"delete_org", "delete_project"})
     /\ pc' = [pc EXCEPT ![t] = IF Created(t) THEN "owner" ELSE "purge"]
     /\ store' = [store EXCEPT ![t] = Coming(t)]
     /\ target' = [target EXCEPT ![t] = NoFile]
     /\ next' = [next EXCEPT ![t] = Absent]
     /\ UNCHANGED call
  \/ /\ ~(target[t] = "cp" /\ (Created(t) \/ call[t].kind \in {"delete_org", "delete_project"}))
     /\ End(t)

\* A failed bootstrap undoes the creation, any other failure is the caller's.
Failed(t) ==
  IF target[t] # "cp" /\ call[t].kind \in {"create_org", "create_project"}
    THEN /\ pc' = [pc EXCEPT ![t] = "rollback"]
         /\ target' = [target EXCEPT ![t] = NoFile]
         /\ next' = [next EXCEPT ![t] = Absent]
         /\ UNCHANGED <<call, store>>
    ELSE End(t)

\* ControlPlaneStore::persist removes a temporary file it finds and creates its own;
\* a file that another request creates in between makes it fail.
RemoveTemp(t) ==
  /\ pc[t] = "temp" /\ target[t] = "cp"
  /\ temp' = [temp EXCEPT !["cp"] = NoFile]
  /\ Goto(t, "create")
  /\ UNCHANGED <<final, planeVars, server, served, faults, clashed>>

CreateTemp(t) ==
  /\ pc[t] = "create"
  /\ \/ /\ temp["cp"] = NoFile
        /\ temp' = [temp EXCEPT !["cp"] = Empty(t)]
        /\ Goto(t, "write")
     \/ /\ temp["cp"] # NoFile
        /\ Failed(t)
        /\ UNCHANGED temp
  /\ UNCHANGED <<final, planeVars, server, served, faults, clashed>>

TruncateTemp(t) ==
  LET f == target[t]
  IN  /\ pc[t] = "temp" /\ f # "cp"
      /\ temp' = [temp EXCEPT ![f] = Truncate(t, @)]
      /\ Goto(t, "write")
      /\ UNCHANGED <<final, planeVars, server, served, faults, clashed>>

Writing(t, e) == e # NoFile /\ t \in e.by

\* The descriptor names the file opened in CreateTemp, wherever it is linked by now.
WriteTemp(t) ==
  LET f == target[t]
  IN  /\ pc[t] = "write"
      /\ \/ /\ Writing(t, temp[f])
            /\ \E e \in WrittenBy(t, temp[f]) : temp' = [temp EXCEPT ![f] = e]
            /\ UNCHANGED final
         \/ /\ Writing(t, final[f])
            /\ \E e \in WrittenBy(t, final[f]) : final' = [final EXCEPT ![f] = e]
            /\ UNCHANGED temp
         \/ /\ ~Writing(t, temp[f]) /\ ~Writing(t, final[f])
            /\ UNCHANGED fileVars
      /\ Goto(t, "rename")
      /\ UNCHANGED <<planeVars, server, served, faults, clashed>>

\* rename(2) moves whatever the temporary path names now.
Rename(t) ==
  LET f == target[t]
  IN  /\ pc[t] = "rename" /\ temp[f] # NoFile
      /\ final' = [final EXCEPT ![f] = temp[f]]
      /\ temp' = [temp EXCEPT ![f] = NoFile]
      /\ Published(t)
      /\ UNCHANGED <<planeVars, server, served, faults, clashed>>

RenameFindsNothing(t) ==
  /\ pc[t] = "rename" /\ temp[target[t]] = NoFile
  /\ Failed(t)
  /\ UNCHANGED <<fileVars, planeVars, server, served, faults, clashed>>

Forget(t, e) == IF e = NoFile THEN e ELSE [e EXCEPT !.by = @ \ {t}]

\* An I/O error in any of the three; syncing the directory fails after the rename.
PersistFails(t) ==
  LET f == target[t]
  IN  /\ pc[t] \in {"temp", "create", "write", "rename"} /\ faults < MaxFaults
      /\ faults' = faults + 1
      /\ \/ /\ final' = [final EXCEPT ![f] = Forget(t, @)]
            /\ temp' = [temp EXCEPT ![f] = Forget(t, @)]
         \/ /\ pc[t] = "rename" /\ f = "cp" /\ temp[f] # NoFile
            /\ final' = [final EXCEPT ![f] = temp[f]]
            /\ temp' = [temp EXCEPT ![f] = NoFile]
      /\ Failed(t)
      /\ UNCHANGED <<planeVars, server, served, clashed>>

-----------------------------------------------------------------------------
\* A request that may not go on returns its error.

OrganizationOperation == {"update_org", "delete_org", "create_project"}

ApplyAllowed(t) ==
  LET c == call[t]
  IN  CASE c.kind = "create_org" -> Cp # Unreadable /\ CreateOrganizationAllowed(c, Cp)
        [] c.kind = "update_org" -> Cp # Unreadable /\ UpdateOrganizationAllowed(c, Cp)
        [] c.kind = "delete_org" -> Cp # Unreadable /\ DeleteOrganizationAllowed(c, Cp)
        [] c.kind = "create_project" -> Cp # Unreadable /\ CreateProjectAllowed(c, Cp)
        [] c.kind = "update_project" -> UpdateProjectAllowed(c, store[t])
        [] c.kind = "delete_project" -> DeleteProjectAllowed(c, store[t])
        [] c.kind = "set_org_role" ->
             OrgMembershipWritable(c) /\ SetRoleAllowed(Om[c.org], c.subject, c.role)
        [] c.kind = "remove_org_role" ->
             OrgMembershipWritable(c) /\ RemoveRoleAllowed(Om[c.org], c.subject)
        [] c.kind = "set_project_role" ->
             ProjectMembershipWritable(c) /\ SetRoleAllowed(Pm[c.project], c.subject, c.role)
        [] c.kind = "remove_project_role" ->
             ProjectMembershipWritable(c) /\ RemoveRoleAllowed(Pm[c.project], c.subject)

\* The second file opens: a failure here ends the request without rollback or purge.
MembersOpen(t) ==
  /\ Cp # Unreadable
  /\ final[IF call[t].kind \in {"create_org", "delete_org"} THEN "om" ELSE "pm"].data # Unreadable

HasMembers(t) ==
  IF call[t].kind = "delete_org" THEN ~NoMembers(Om[call[t].org])
                                 ELSE ~NoMembers(Pm[call[t].project])

Refused(t) ==
  LET c == call[t]
  IN  \/ At(t, "authorize", OrganizationOperation)
         /\ ~(Cp # Unreadable /\ Om # Unreadable /\ OrgAuthorized(c.by, c.org, Cp, Om))
      \/ pc[t] = "load" /\ ~(Cp # Unreadable /\ Cp.projects[c.project] # Absent)
      \/ At(t, "authorize", {"update_project", "delete_project"})
         /\ ~ProjectManagementAuthorized(t)
      \/ pc[t] = "apply" /\ ~ApplyAllowed(t)
      \/ pc[t] \in {"owner", "purge"} /\ ~MembersOpen(t)
      \/ pc[t] = "purge" /\ MembersOpen(t) /\ ~HasMembers(t)
      \/ At(t, "rollback", {"create_org"}) /\ ~OwnsNoProjects(store[t], c.org)
      \/ pc[t] = "scope" /\ c.project \in catalog
      \/ pc[t] = "drop" /\ c.project \notin data

Refuse(t) ==
  /\ Refused(t)
  /\ End(t)
  /\ UNCHANGED <<fileVars, planeVars, server, served, faults, clashed>>

-----------------------------------------------------------------------------
\* Collections, one name per project: create enters the catalog, claims, builds;
\* delete takes the same things down in the order data, claim, catalog.

Active(p) ==
  Cp # Unreadable /\ Cp.projects[p] # Absent /\ Cp.projects[p].life = "active"

CollectionStep(t, label) ==
  /\ Goto(t, label)
  /\ UNCHANGED <<fileVars, server, served, clashed>>

CreateScope(t) ==
  /\ pc[t] = "scope" /\ call[t].project \notin catalog
  /\ catalog' = catalog \cup {call[t].project}
  /\ CollectionStep(t, "claim")
  /\ UNCHANGED <<claims, spaces, data, keys, faults>>

\* claim_collection asks again whether the project is active.
MayClaim(p) == Active(p)

ClaimCollection(t) ==
  /\ pc[t] = "claim"
  /\ \/ /\ MayClaim(call[t].project)
        /\ claims' = claims \cup {call[t].project}
        /\ CollectionStep(t, "namespace")
     \/ /\ ~MayClaim(call[t].project)
        /\ CollectionStep(t, "unscope")
        /\ UNCHANGED claims
  /\ UNCHANGED <<catalog, spaces, data, keys, faults>>

CreateNamespace(t) ==
  /\ pc[t] = "namespace"
  /\ spaces' = spaces \cup {call[t].project}
  /\ CollectionStep(t, "collection")
  /\ UNCHANGED <<catalog, claims, data, keys, faults>>

CreateData(t) ==
  /\ pc[t] = "collection"
  /\ data' = data \cup {call[t].project}
  /\ End(t)
  /\ UNCHANGED <<fileVars, catalog, claims, spaces, keys, server, served, faults, clashed>>

\* The claim is released; a directory left behind has an id nobody uses again.
CreateDataFails(t) ==
  /\ pc[t] \in {"namespace", "collection"} /\ faults < MaxFaults
  /\ faults' = faults + 1
  /\ claims' = claims \ {call[t].project}
  /\ spaces' = spaces \ {call[t].project}
  /\ CollectionStep(t, "unscope")
  /\ UNCHANGED <<catalog, data, keys>>

\* Mutant: the directory of the collection is left in place.
DeleteDataKeepingSpace(t) ==
  /\ pc[t] = "drop" /\ call[t].project \in data
  /\ data' = data \ {call[t].project}
  /\ CollectionStep(t, "unclaim")
  /\ UNCHANGED <<catalog, claims, spaces, keys, faults>>

DeleteData(t) ==
  /\ pc[t] = "drop" /\ call[t].project \in data
  /\ data' = data \ {call[t].project}
  /\ spaces' = spaces \ {call[t].project}
  /\ CollectionStep(t, "unclaim")
  /\ UNCHANGED <<catalog, claims, keys, faults>>

\* The rename fails, or the directory sync after it.
DeleteDataFails(t) ==
  /\ pc[t] = "drop" /\ call[t].project \in data /\ faults < MaxFaults
  /\ faults' = faults + 1
  /\ \/ UNCHANGED <<data, spaces>>
     \/ data' = data \ {call[t].project} /\ spaces' = spaces \ {call[t].project}
  /\ End(t)
  /\ UNCHANGED <<fileVars, catalog, claims, keys, server, served, clashed>>

RemoveClaim(t) ==
  LET p == call[t].project
  IN  /\ pc[t] = "unclaim"
      /\ \/ /\ Active(p) /\ p \in claims
            /\ claims' = claims \ {p}
            /\ CollectionStep(t, "unscope")
         \/ /\ ~(Active(p) /\ p \in claims)
            /\ End(t)
            /\ UNCHANGED <<fileVars, claims, server, served, clashed>>
      /\ UNCHANGED <<catalog, spaces, data, keys, faults>>

RemoveScope(t) ==
  /\ pc[t] = "unscope"
  /\ catalog' = catalog \ {call[t].project}
  /\ End(t)
  /\ UNCHANGED <<fileVars, claims, spaces, data, keys, server, served, faults, clashed>>

-----------------------------------------------------------------------------
\* API keys and the life of the server.

IssueKey(p) ==
  /\ server = "up" /\ Active(p) /\ p \notin keys
  /\ keys' = keys \cup {p}
  /\ UNCHANGED <<fileVars, pc, call, store, target, next, catalog, claims, spaces, data,
                 server, served, faults, clashed>>

Unwritten(e) == IF e = NoFile THEN e ELSE [e EXCEPT !.by = {}]

Halt ==
  /\ server' = "down"
  /\ final' = [f \in Files |-> Unwritten(final[f])]
  /\ temp' = [f \in Files |-> Unwritten(temp[f])]
  /\ pc' = [t \in Threads |-> "idle"]
  /\ call' = [t \in Threads |-> NoCall]
  /\ store' = [t \in Threads |-> Absent]
  /\ target' = [t \in Threads |-> NoFile]
  /\ next' = [t \in Threads |-> Absent]
  /\ UNCHANGED <<planeVars, served, clashed>>

Stop ==
  /\ server = "up" /\ \A t \in Threads : pc[t] = "idle"
  /\ Halt
  /\ UNCHANGED faults

Crash ==
  /\ server = "up" /\ faults < MaxFaults
  /\ faults' = faults + 1
  /\ Halt

DefaultPair ==
  [org |-> [slug |-> DefaultSlug, life |-> "active"],
   project |-> [org |-> DefaultOrg, slug |-> DefaultSlug, life |-> "active"]]

NoDefaults(s) == s.orgs[DefaultOrg] = Absent /\ s.projects[DefaultProject] = Absent

\* bootstrap_default accepts a complete pair or none.
DefaultsConsistent(s) ==
  \/ NoDefaults(s)
  \/ /\ s.orgs[DefaultOrg] # Absent /\ s.orgs[DefaultOrg].slug = DefaultSlug
     /\ s.projects[DefaultProject] # Absent
     /\ s.projects[DefaultProject].org = DefaultOrg
     /\ s.projects[DefaultProject].slug = DefaultSlug

BootstrapDefault(s) ==
  IF NoDefaults(s)
    THEN PutProject(PutOrg(s, DefaultOrg, DefaultPair.org), DefaultProject, DefaultPair.project)
    ELSE s

\* What start-up demands: known projects, the default pair, a namespace per entry.
StartAccepted ==
  /\ Cp # Unreadable
  /\ \A p \in (keys \cup claims \cup catalog) \ {DefaultProject} : Cp.projects[p] # Absent
  /\ DefaultsConsistent(Cp)
  /\ catalog \ {DefaultProject} \subseteq spaces

Start ==
  /\ server = "down" /\ StartAccepted
  /\ server' = "up"
  /\ final' = [final EXCEPT !["cp"].data = BootstrapDefault(@)]
  /\ spaces' = spaces \cup (catalog \cap {DefaultProject})
  /\ UNCHANGED <<temp, pc, call, store, target, next, catalog, claims, data, keys, served,
                 faults, clashed>>

StartRefused ==
  /\ server = "down" /\ ~StartAccepted
  /\ server' = "refused"
  /\ UNCHANGED <<fileVars, planeVars, pc, call, store, target, next, served, faults, clashed>>

-----------------------------------------------------------------------------
EmptyContent ==
  [cp |-> [orgs |-> [o \in Orgs |-> Absent], projects |-> [p \in Projects |-> Absent]],
   om |-> [o \in Orgs |-> [m \in Subjects |-> Absent]],
   pm |-> [p \in Projects |-> [m \in Subjects |-> Absent]]]

Init ==
  /\ final = [f \in Files |-> [data |-> EmptyContent[f], by |-> {}]]
  /\ temp = [f \in Files |-> NoFile]
  /\ pc = [t \in Threads |-> "idle"]
  /\ call = [t \in Threads |-> NoCall]
  /\ store = [t \in Threads |-> Absent]
  /\ target = [t \in Threads |-> NoFile]
  /\ next = [t \in Threads |-> Absent]
  /\ catalog = {} /\ claims = {} /\ spaces = {} /\ data = {} /\ keys = {}
  /\ server = "down" /\ served = 0 /\ faults = 0 /\ clashed = {}

Operation(t) ==
  \/ CreateOrganization(t) \/ UpdateOrganization(t) \/ DeleteOrganization(t)
  \/ CreateProject(t) \/ UpdateProject(t) \/ DeleteProject(t)
  \/ SetOrganizationRole(t) \/ RemoveOrganizationRole(t)
  \/ SetProjectRole(t) \/ RemoveProjectRole(t)

FollowUp(t) ==
  \/ BootstrapOrgOwner(t) \/ BootstrapProjectOwner(t) \/ BootstrapRefused(t) \/ Rollback(t)
  \/ PurgeOrganization(t) \/ PurgeProject(t)

Persist(t) ==
  \/ RemoveTemp(t) \/ CreateTemp(t) \/ TruncateTemp(t) \/ WriteTemp(t) \/ Rename(t) \/ RenameFindsNothing(t) \/ PersistFails(t)

Collection(t) ==
  \/ CreateScope(t) \/ ClaimCollection(t) \/ CreateNamespace(t) \/ CreateData(t)
  \/ CreateDataFails(t) \/ DeleteData(t) \/ DeleteDataFails(t) \/ RemoveClaim(t)
  \/ RemoveScope(t)

Request(t) ==
  \/ \E c \in Calls : Begin(t, c)
  \/ AuthorizeOrganization(t) \/ LoadProject(t) \/ AuthorizeProjectManagement(t)
  \/ Operation(t) \/ FollowUp(t) \/ Persist(t) \/ Collection(t) \/ Refuse(t)

Next ==
  \/ \E t \in Threads : Request(t)
  \/ \E p \in Keyed : IssueKey(p)
  \/ Stop \/ Crash \/ Start \/ StartRefused

Spec == Init /\ [][Next]_vars

-----------------------------------------------------------------------------
\* Properties.

\* Every variable has its type; a thread that publishes holds content for its file.
TypeOK ==
  /\ DOMAIN final = Files /\ DOMAIN temp = Files
  /\ \A f \in Files : final[f] \in Entry(f) /\ temp[f] \in Entry(f) \cup {NoFile}
  /\ pc \in [Threads -> {"idle", "authorize", "load", "apply", "owner", "rollback", "purge",
                         "temp", "create", "write", "rename", "scope", "claim", "namespace",
                         "collection", "drop", "unclaim", "unscope"}]
  /\ call \in [Threads -> Calls \cup {NoCall}]
  /\ store \in [Threads -> ControlPlaneState \cup {Absent}]
  /\ target \in [Threads -> Files \cup {NoFile}]
  /\ DOMAIN next = Threads
  /\ \A t \in Threads : IF target[t] = NoFile THEN next[t] = Absent
                                              ELSE next[t] \in [{target[t]} -> Content[target[t]]]
  /\ {catalog, claims, spaces, data, keys} \subseteq SUBSET Projects
  /\ server \in {"up", "down", "refused"}
  /\ served \in 0..MaxCalls /\ faults \in 0..MaxFaults /\ clashed \subseteq Files

\* Whatever requests overlap, crash or fail, a control-plane file that can be read
\* holds unique slugs and no project without its organization.
SnapshotsConsistent == Cp # Unreadable => ValidState(Cp)

HasOwner(members) == NoMembers(members) \/ Owners(members) # {}

\* Likewise no request, alone or overlapping others, leaves members without an owner.
OwnersRetained ==
  /\ Om # Unreadable => \A o \in Orgs : HasOwner(Om[o])
  /\ Pm # Unreadable => \A p \in Projects : HasOwner(Pm[p])

\* A published file is complete after every crash and I/O error, as long as no two
\* requests changed it at once.
PublishedReadable == \A f \in Files \ clashed : final[f].data # Unreadable

Quiet == server = "up" /\ \A t \in Threads : pc[t] = "idle"

\* Once requests have returned, an organization or project exists exactly when somebody
\* owns it: creation and deletion change two files but never half of them.
Administrable ==
  Quiet /\ clashed = {} /\ faults = 0 =>
    /\ \A o \in Orgs \ {DefaultOrg} : Cp.orgs[o] # Absent <=> ~NoMembers(Om[o])
    /\ \A p \in Projects \ {DefaultProject} : Cp.projects[p] # Absent <=> ~NoMembers(Pm[p])

\* A collection never outlives its project: creation enters the catalog before it asks
\* whether the project is active, deletion leaves "active" before it reads the catalog.
\* Overlaps on the membership file count too: one may fail the owner of a new project, and the
\* rollback takes the project without asking the catalog.
CollectionsOwned ==
  clashed \cap {"cp", "pm"} = {} /\ faults = 0 => \A p \in data : Cp.projects[p] # Absent

\* Claims and data are always covered by a catalog entry, so the check of the catalog in
\* delete_project sees them.
CatalogCovers == claims \subseteq catalog /\ data \subseteq spaces /\ spaces \subseteq catalog

LifeKept(old, new) ==
  /\ \A o \in Orgs : old.orgs[o] # Absent /\ old.orgs[o].life = "deleting" /\ new.orgs[o] # Absent
       => new.orgs[o].life = "deleting"
  /\ \A p \in Projects : old.projects[p] # Absent /\ old.projects[p].life = "deleting"
                         /\ new.projects[p] # Absent
       => new.projects[p].life = "deleting"

CpReadable == Cp # Unreadable

\* What is being deleted stays so until it is gone: requests that overlap may break
\* this, requests that do not never do.
DeletingKept ==
  [][CpReadable /\ CpReadable' /\ "cp" \notin clashed' => LifeKept(Cp, Cp')]_vars

\* What is on disk: every content a request has read or may publish is consistent in itself
\* (SnapshotsConsistent), and a published file can be read unless two requests overlapped on it
\* (PublishedReadable).
ControlPlaneInv == TypeOK /\ SnapshotsConsistent /\ PublishedReadable

\* Resources agree across the files of one installation: somebody may manage each of them
\* (Administrable), collections belong to a project that exists (CollectionsOwned), and what has
\* data or a claim is in the catalog (CatalogCovers).
ResourcesAgree == Administrable /\ CollectionsOwned /\ CatalogCovers
=============================================================================
