-------------------------- MODULE ControlPlaneProofs --------------------------
(***************************************************************************)
(* What the control plane keeps, for any organizations, projects and       *)
(* subjects, any requests and any number of threads whose file operations   *)
(* interleave, fail and are cut short by crashes: that what is on disk is   *)
(* consistent (DiskInv), and that the files agree with each other and with  *)
(* the collections (AgreementInv).                                         *)
(***************************************************************************)
EXTENDS ControlPlane, FiniteSetTheorems, TLAPS

Publishing == {"temp", "create", "write", "rename"}
Creations == {"create_org", "create_project"}
ProjectChanges == {"update_project", "delete_project"}

-----------------------------------------------------------------------------
(* The inductive invariant *)

\* A control-plane content some request may publish: consistent, and with the default
\* organization, which start-up creates without looking for its slug and which nobody can
\* delete because nobody is ever a member of it.
GoodPlane(s) == ValidState(s) /\ s.orgs[DefaultOrg] # Absent
GoodOrgMembers(d) == (\A o \in Orgs : HasOwner(d[o])) /\ NoMembers(d[DefaultOrg])
GoodProjectMembers(d) == \A p \in Projects : HasOwner(d[p])

Good(f, d) ==
  /\ f = "cp" => GoodPlane(d)
  /\ f = "om" => GoodOrgMembers(d)
  /\ f = "pm" => GoodProjectMembers(d)

\* Every content that exists: published, in a temporary file, about to be written, or held.
GoodFiles ==
  /\ \A f \in Files : final[f].data # Unreadable =>
       Good(f, final[f].data) \/ (f = "cp" /\ server # "up" /\ final[f].data = EmptyContent["cp"])
  /\ \A f \in Files : temp[f] # NoFile /\ temp[f].data # Unreadable => Good(f, temp[f].data)
GoodCopies(t) ==
  /\ store[t] # Absent => GoodPlane(store[t])
  /\ target[t] # NoFile => Good(target[t], Coming(t))

\* Where a thread is in its request tells what it holds.
Phase(t) ==
  /\ pc[t] = "idle" => call[t] = NoCall /\ store[t] = Absent /\ target[t] = NoFile
  /\ pc[t] # "idle" => call[t] \in Calls /\ server = "up"
  /\ target[t] # NoFile <=> pc[t] \in Publishing
  /\ pc[t] = "create" => target[t] = "cp"
  /\ pc[t] = "load" => call[t].kind \in ProjectChanges
  /\ pc[t] \in {"authorize", "apply"} /\ call[t].kind \in ProjectChanges =>
       store[t] # Absent /\ store[t].projects[call[t].project] # Absent
  /\ pc[t] = "owner" => call[t].kind \in Creations
  /\ pc[t] \in {"owner", "rollback", "purge"} => store[t] # Absent
  /\ target[t] = "cp" => store[t] # Absent
  /\ target[t] # NoFile /\ call[t].kind \in Creations => store[t] # Absent
  /\ pc[t] \in Publishing \cup {"owner", "rollback"} /\ call[t].kind = "create_org" =>
       call[t].org # DefaultOrg
  /\ pc[t] = "apply" /\ call[t].kind = "delete_org" => call[t].org # DefaultOrg

\* As long as no two requests had it open for changing, a file has one writer, its temporary
\* file belongs to that writer, and it is published complete.
OneWriter(f) ==
  /\ \A t, u \in Threads : Holds(t, f) /\ Holds(u, f) => t = u
  /\ final[f].by = {} /\ final[f].data # Unreadable
  /\ temp[f] # NoFile => \A t \in temp[f].by : target[t] = f /\ pc[t] = "write"
  /\ \A t \in Threads : target[t] = f /\ pc[t] = "write" =>
       temp[f] # NoFile /\ t \in temp[f].by /\ temp[f].data = Unreadable
  /\ \A t \in Threads : target[t] = f /\ pc[t] = "rename" /\ temp[f] # NoFile =>
       temp[f].data # Unreadable

DiskInv ==
  /\ TypeOK
  /\ GoodFiles
  /\ \A t \in Threads : GoodCopies(t) /\ Phase(t)
  /\ \A f \in Files : f \notin clashed => OneWriter(f)

-----------------------------------------------------------------------------
(* Contents *)

\* What each file holds.
LEMMA ContentIs ==
  /\ Content["cp"] = ControlPlaneState /\ Content["om"] = OrgMembers
  /\ Content["pm"] = ProjectMembers /\ Files = {"cp", "om", "pm"}
BY DEF Content, Files

\* The constants that stand for nothing are none of the values they are compared with.
LEMMA NothingIsSomething ==
  /\ Absent \notin Organization /\ Absent \notin Project
  /\ Absent \notin OrgRoles /\ Absent \notin ProjectRoles /\ Absent # "owner" /\ Absent # "admin"
  /\ Unreadable \notin ControlPlaneState /\ Unreadable \notin OrgMembers
  /\ Unreadable \notin ProjectMembers
  /\ Absent \notin ControlPlaneState /\ NoFile \notin Files
  /\ \A f \in Files : NoFile \notin Entry(f) /\ Unreadable \notin Content[f]
<1>1. /\ Absent \notin Organization /\ Absent \notin Project
      /\ Absent \notin OrgRoles /\ Absent \notin ProjectRoles
      /\ Unreadable \notin ControlPlaneState /\ Unreadable \notin OrgMembers
      /\ Unreadable \notin ProjectMembers
      /\ Absent \notin ControlPlaneState /\ NoFile \notin Files
      /\ \A f \in Files : NoFile \notin Entry(f)
  BY ControlPlaneAssumption
<1>2. "owner" \in OrgRoles /\ "admin" \in OrgRoles
  BY DEF OrgRoles
<1> QED BY <1>1, <1>2, ContentIs

\* A new organization, or none, in a copy.
LEMMA PutOrgFact ==
  ASSUME NEW s \in ControlPlaneState, NEW o \in Orgs, NEW org \in Organization \cup {Absent}
  PROVE  /\ PutOrg(s, o, org) \in ControlPlaneState
         /\ PutOrg(s, o, org).projects = s.projects
         /\ \A x \in Orgs : PutOrg(s, o, org).orgs[x] = IF x = o THEN org ELSE s.orgs[x]
BY DEF PutOrg, ControlPlaneState

\* A new project, or none, in a copy.
LEMMA PutProjectFact ==
  ASSUME NEW s \in ControlPlaneState, NEW p \in Projects, NEW project \in Project \cup {Absent}
  PROVE  /\ PutProject(s, p, project) \in ControlPlaneState
         /\ PutProject(s, p, project).orgs = s.orgs
         /\ \A x \in Projects :
              PutProject(s, p, project).projects[x] = IF x = p THEN project ELSE s.projects[x]
BY DEF PutProject, ControlPlaneState

\* The parts of a copy.
LEMMA PlaneParts ==
  ASSUME NEW s \in ControlPlaneState
  PROVE  /\ \A o \in Orgs : s.orgs[o] # Absent => s.orgs[o] \in Organization /\ s.orgs[o].slug \in Slugs
         /\ \A p \in Projects : s.projects[p] # Absent =>
              s.projects[p] \in Project /\ s.projects[p].org \in Orgs /\ s.projects[p].slug \in Slugs
BY DEF ControlPlaneState, Organization, Project

\* create_organization, update_organization: the slug is free in the copy.
LEMMA PutOrgGood ==
  ASSUME NEW s \in ControlPlaneState, GoodPlane(s), NEW o \in Orgs, NEW org \in Organization,
         OrgSlugFree(s, o, org.slug)
  PROVE  GoodPlane(PutOrg(s, o, org))
<1> DEFINE n == PutOrg(s, o, org)
<1>1. /\ n.projects = s.projects
      /\ \A x \in Orgs : n.orgs[x] = IF x = o THEN org ELSE s.orgs[x]
  BY PutOrgFact
<1>2. org # Absent
  BY NothingIsSomething
<1> HIDE DEF n
<1>3. ASSUME NEW x \in Orgs, n.orgs[x] # Absent PROVE OrgSlugFree(n, x, n.orgs[x].slug)
  BY <1>1, <1>3 DEF GoodPlane, ValidState, OrgSlugFree
<1>4. ASSUME NEW p \in Projects, n.projects[p] # Absent
      PROVE  /\ n.orgs[n.projects[p].org] # Absent
             /\ ProjectSlugFree(n, p, n.projects[p].org, n.projects[p].slug)
  BY <1>1, <1>2, <1>4, PlaneParts DEF GoodPlane, ValidState, ProjectSlugFree
<1>5. n.orgs[DefaultOrg] # Absent
  BY <1>1, <1>2, ControlPlaneAssumption DEF GoodPlane
<1> QED BY <1>3, <1>4, <1>5 DEF GoodPlane, ValidState, n

\* delete_organization, and the rollback of a creation: no project names it.
LEMMA DropOrgGood ==
  ASSUME NEW s \in ControlPlaneState, GoodPlane(s), NEW o \in Orgs, o # DefaultOrg, OwnsNoProjects(s, o)
  PROVE  GoodPlane(PutOrg(s, o, Absent))
<1> DEFINE n == PutOrg(s, o, Absent)
<1>1. /\ n.projects = s.projects
      /\ \A x \in Orgs : n.orgs[x] = IF x = o THEN Absent ELSE s.orgs[x]
  BY PutOrgFact
<1> HIDE DEF n
<1>2. ASSUME NEW x \in Orgs, n.orgs[x] # Absent PROVE OrgSlugFree(n, x, n.orgs[x].slug)
  BY <1>1, <1>2 DEF GoodPlane, ValidState, OrgSlugFree
<1>3. ASSUME NEW p \in Projects, n.projects[p] # Absent
      PROVE  /\ n.orgs[n.projects[p].org] # Absent
             /\ ProjectSlugFree(n, p, n.projects[p].org, n.projects[p].slug)
  BY <1>1, <1>3, PlaneParts DEF GoodPlane, ValidState, ProjectSlugFree, OwnsNoProjects
<1>4. n.orgs[DefaultOrg] # Absent
  BY <1>1, ControlPlaneAssumption DEF GoodPlane
<1> QED BY <1>2, <1>3, <1>4 DEF GoodPlane, ValidState, n

\* create_project, update_project: the organization is there and the slug free in it.
LEMMA PutProjectGood ==
  ASSUME NEW s \in ControlPlaneState, GoodPlane(s), NEW p \in Projects, NEW project \in Project,
         s.orgs[project.org] # Absent, ProjectSlugFree(s, p, project.org, project.slug)
  PROVE  GoodPlane(PutProject(s, p, project))
<1> DEFINE n == PutProject(s, p, project)
<1>1. /\ n.orgs = s.orgs
      /\ \A x \in Projects : n.projects[x] = IF x = p THEN project ELSE s.projects[x]
  BY PutProjectFact
<1> HIDE DEF n
<1>2. ASSUME NEW x \in Orgs, n.orgs[x] # Absent PROVE OrgSlugFree(n, x, n.orgs[x].slug)
  BY <1>1, <1>2 DEF GoodPlane, ValidState, OrgSlugFree
<1>3. ASSUME NEW x \in Projects, n.projects[x] # Absent
      PROVE  /\ n.orgs[n.projects[x].org] # Absent
             /\ ProjectSlugFree(n, x, n.projects[x].org, n.projects[x].slug)
  <2>1. n.orgs[n.projects[x].org] # Absent
    BY <1>1, <1>3 DEF GoodPlane, ValidState
  <2>2. ASSUME NEW y \in Projects \ {x}, n.projects[y] # Absent
        PROVE  ~(n.projects[y].org = n.projects[x].org /\ n.projects[y].slug = n.projects[x].slug)
    BY <1>1, <1>3, <2>2 DEF GoodPlane, ValidState, ProjectSlugFree
  <2> QED BY <2>1, <2>2 DEF ProjectSlugFree
<1> QED BY <1>1, <1>2, <1>3 DEF GoodPlane, ValidState, n

\* delete_project, and the rollback of a creation.
LEMMA DropProjectGood ==
  ASSUME NEW s \in ControlPlaneState, GoodPlane(s), NEW p \in Projects
  PROVE  GoodPlane(PutProject(s, p, Absent))
<1> DEFINE n == PutProject(s, p, Absent)
<1>1. /\ n.orgs = s.orgs
      /\ \A x \in Projects : n.projects[x] = IF x = p THEN Absent ELSE s.projects[x]
  BY PutProjectFact
<1> HIDE DEF n
<1>2. ASSUME NEW x \in Orgs, n.orgs[x] # Absent PROVE OrgSlugFree(n, x, n.orgs[x].slug)
  BY <1>1, <1>2 DEF GoodPlane, ValidState, OrgSlugFree
<1>3. ASSUME NEW x \in Projects, n.projects[x] # Absent
      PROVE  /\ n.orgs[n.projects[x].org] # Absent
             /\ ProjectSlugFree(n, x, n.projects[x].org, n.projects[x].slug)
  BY <1>1, <1>3 DEF GoodPlane, ValidState, ProjectSlugFree
<1> QED BY <1>1, <1>2, <1>3 DEF GoodPlane, ValidState, n

\* update_role keeps an owner: the last one keeps its role, and only a member may ask.
LEMMA SetRoleKeepsOwner ==
  ASSUME NEW members, DOMAIN members = Subjects, HasOwner(members), ~NoMembers(members),
         NEW m \in Subjects, NEW role, SetRoleAllowed(members, m, role)
  PROVE  HasOwner([members EXCEPT ![m] = role])
<1> DEFINE n == [members EXCEPT ![m] = role]
<1>1. DOMAIN n = Subjects /\ n[m] = role /\ \A x \in Subjects \ {m} : n[x] = members[x]
  OBVIOUS
<1>2. PICK x \in Subjects : members[x] = "owner"
  BY DEF HasOwner, Owners
<1> HIDE DEF n
<1>3. CASE role = "owner"
  BY <1>1, <1>3 DEF HasOwner, Owners
<1>4. CASE role # "owner" /\ x # m
  BY <1>1, <1>2, <1>4 DEF HasOwner, Owners
<1>5. CASE role # "owner" /\ x = m
  <2>1. Owners(members) # {m}
    BY <1>2, <1>5, NothingIsSomething, FS_Singleton DEF SetRoleAllowed, LastOwner
  <2>2. PICK y \in Owners(members) : y # m
    BY <1>2, <1>5, <2>1 DEF Owners
  <2> QED BY <1>1, <2>2 DEF HasOwner, Owners
<1> QED BY <1>3, <1>4, <1>5 DEF n

\* remove_membership keeps an owner: the last one may not leave.
LEMMA RemoveRoleKeepsOwner ==
  ASSUME NEW members, DOMAIN members = Subjects, HasOwner(members),
         NEW m \in Subjects, RemoveRoleAllowed(members, m)
  PROVE  HasOwner([members EXCEPT ![m] = Absent])
<1> DEFINE n == [members EXCEPT ![m] = Absent]
<1>1. DOMAIN n = Subjects /\ n[m] = Absent /\ \A x \in Subjects \ {m} : n[x] = members[x]
  OBVIOUS
<1>2. PICK x \in Subjects : members[x] = "owner"
  BY DEF HasOwner, Owners, NoMembers, RemoveRoleAllowed
<1> HIDE DEF n
<1>3. CASE x # m
  BY <1>1, <1>2, <1>3 DEF HasOwner, Owners
<1>4. CASE x = m
  <2>1. Owners(members) # {m}
    BY <1>2, <1>4, FS_Singleton DEF RemoveRoleAllowed, LastOwner
  <2>2. PICK y \in Owners(members) : y # m
    BY <1>2, <1>4, <2>1 DEF Owners
  <2> QED BY <1>1, <2>2 DEF HasOwner, Owners
<1> QED BY <1>3, <1>4 DEF n

-----------------------------------------------------------------------------
(* Steps of one thread *)

Labels ==
  {"idle", "authorize", "load", "apply", "owner", "rollback", "purge", "temp", "create", "write",
   "rename", "scope", "claim", "namespace", "collection", "drop", "unclaim", "unscope"}

\* The parts of TypeOK.
FilesTyped ==
  /\ DOMAIN final = Files /\ DOMAIN temp = Files
  /\ \A f \in Files : final[f] \in Entry(f) /\ temp[f] \in Entry(f) \cup {NoFile}
ThreadsTyped ==
  /\ pc \in [Threads -> Labels]
  /\ call \in [Threads -> Calls \cup {NoCall}]
  /\ store \in [Threads -> ControlPlaneState \cup {Absent}]
  /\ target \in [Threads -> Files \cup {NoFile}]
  /\ DOMAIN next = Threads
  /\ \A t \in Threads : IF target[t] = NoFile THEN next[t] = Absent
                                              ELSE next[t] \in [{target[t]} -> Content[target[t]]]
PlaneTyped ==
  /\ {catalog, claims, spaces, data, keys} \subseteq SUBSET Projects
  /\ server \in {"up", "down", "refused"}
  /\ served \in 0..MaxCalls /\ faults \in 0..MaxFaults

LEMMA TypeParts ==
  /\ TypeOK <=> FilesTyped /\ ThreadsTyped /\ PlaneTyped /\ clashed \subseteq Files
  /\ TypeOK' <=> FilesTyped' /\ ThreadsTyped' /\ PlaneTyped' /\ clashed' \subseteq Files
BY DEF TypeOK, FilesTyped, ThreadsTyped, PlaneTyped, Labels

\* A step leaves the other threads alone.
OthersSame(t) ==
  \A u \in Threads \ {t} :
    /\ pc'[u] = pc[u] /\ call'[u] = call[u] /\ store'[u] = store[u]
    /\ target'[u] = target[u] /\ next'[u] = next[u]

\* Then what is known of them stays so.
LEMMA OthersKeep ==
  ASSUME DiskInv, NEW t \in Threads, OthersSame(t), server' = server
  PROVE  \A u \in Threads \ {t} : GoodCopies(u)' /\ Phase(u)'
<1> SUFFICES ASSUME NEW u \in Threads \ {t} PROVE GoodCopies(u)' /\ Phase(u)'
  OBVIOUS
<1>1. GoodCopies(u) /\ Phase(u)
  BY DEF DiskInv
<1>2. /\ pc'[u] = pc[u] /\ call'[u] = call[u] /\ store'[u] = store[u]
      /\ target'[u] = target[u] /\ next'[u] = next[u]
  BY DEF OthersSame
<1>3. GoodCopies(u)'
  BY <1>1, <1>2 DEF GoodCopies, Coming
<1>4. Phase(u)'
  BY <1>1, <1>2 DEF Phase
<1> QED BY <1>3, <1>4

\* A request has returned.
LEMMA EndFact ==
  ASSUME ThreadsTyped, NEW t \in Threads, End(t)
  PROVE  /\ ThreadsTyped' /\ OthersSame(t)
         /\ pc'[t] = "idle" /\ call'[t] = NoCall /\ store'[t] = Absent /\ target'[t] = NoFile
<1>1. ThreadsTyped'
  BY DEF ThreadsTyped, End, Labels
<1> QED BY <1>1 DEF ThreadsTyped, End, OthersSame

\* A request goes on.
LEMMA GotoFact ==
  ASSUME ThreadsTyped, NEW t \in Threads, NEW label \in Labels, Goto(t, label)
  PROVE  /\ ThreadsTyped' /\ OthersSame(t) /\ pc'[t] = label
         /\ call' = call /\ store' = store /\ target' = target /\ next' = next
BY DEF ThreadsTyped, Goto, OthersSame

\* A request starts to publish.
LEMMA PublishFact ==
  ASSUME ThreadsTyped, NEW t \in Threads, NEW f \in Files, NEW content \in Content[f],
         NEW held \in ControlPlaneState \cup {Absent}, Publish(t, f, content, held)
  PROVE  /\ ThreadsTyped' /\ OthersSame(t)
         /\ pc'[t] = "temp" /\ call'[t] = call[t] /\ store'[t] = held /\ target'[t] = f
         /\ next'[t][f] = content
<1>1. /\ pc' = [pc EXCEPT ![t] = "temp"] /\ target' = [target EXCEPT ![t] = f]
      /\ next' = [next EXCEPT ![t] = [g \in {f} |-> content]]
      /\ store' = [store EXCEPT ![t] = held] /\ call' = call
  BY DEF Publish
<1>2. next'[t] \in [{f} -> Content[f]] /\ next'[t][f] = content
  BY <1>1 DEF ThreadsTyped
<1>3. f # NoFile
  BY NothingIsSomething
<1>4. OthersSame(t)
  BY <1>1 DEF OthersSame, ThreadsTyped
<1>5. /\ pc' \in [Threads -> Labels] /\ call' \in [Threads -> Calls \cup {NoCall}]
      /\ store' \in [Threads -> ControlPlaneState \cup {Absent}]
      /\ target' \in [Threads -> Files \cup {NoFile}] /\ DOMAIN next' = Threads
      /\ pc'[t] = "temp" /\ call'[t] = call[t] /\ store'[t] = held /\ target'[t] = f
  BY <1>1 DEF ThreadsTyped, Labels
<1>6. ASSUME NEW u \in Threads
      PROVE  IF target'[u] = NoFile THEN next'[u] = Absent
                                    ELSE next'[u] \in [{target'[u]} -> Content[target'[u]]]
  <2>1. CASE u = t
    BY <1>2, <1>3, <1>5, <2>1
  <2>2. CASE u # t
    BY <1>4, <2>2 DEF OthersSame, ThreadsTyped
  <2> QED BY <2>1, <2>2
<1> QED BY <1>2, <1>4, <1>5, <1>6 DEF ThreadsTyped

\* Steps that touch no file and end outside a publication.
LEMMA LeavesFiles ==
  ASSUME DiskInv, NEW t \in Threads, OthersSame(t), final' = final, temp' = temp, server' = server,
         ThreadsTyped', PlaneTyped', pc[t] # "write", target'[t] = NoFile, Phase(t)',
         store'[t] # Absent => GoodPlane(store'[t]),
         \/ clashed' = clashed /\ (store'[t] # Absent => store[t] # Absent)
         \/ Opened(t, "cp")
  PROVE  DiskInv'
<1>1. clashed' \subseteq Files /\ clashed \subseteq clashed'
  BY TypeParts, ContentIs DEF DiskInv, Opened
<1>2. TypeOK'
  BY <1>1, TypeParts DEF DiskInv, FilesTyped
<1>3. GoodFiles'
  BY DEF DiskInv, GoodFiles
<1>4. ASSUME NEW u \in Threads PROVE GoodCopies(u)' /\ Phase(u)'
  <2>1. CASE u = t
    BY <2>1 DEF GoodCopies
  <2>2. CASE u # t
    BY <2>2, OthersKeep
  <2> QED BY <2>1, <2>2
<1>5. ASSUME NEW f \in Files, f \notin clashed' PROVE OneWriter(f)'
  <2>1. OneWriter(f)
    BY <1>1, <1>5 DEF DiskInv
  <2>2. ASSUME NEW u \in Threads, Holds(u, f)' PROVE Holds(u, f) \/ (u = t /\ f = "cp" /\ Opened(t, "cp"))
    <3>1. CASE u = t
      BY <2>2, <3>1, NothingIsSomething DEF Holds
    <3>2. CASE u # t
      BY <2>2, <3>2 DEF Holds, OthersSame
    <3> QED BY <3>1, <3>2
  <2>3. ASSUME f = "cp", Opened(t, "cp"), NEW u \in Threads \ {t} PROVE ~Holds(u, f)
    BY <1>5, <2>3 DEF Opened
  <2>4. \A u, v \in Threads : Holds(u, f)' /\ Holds(v, f)' => u = v
    BY <2>1, <2>2, <2>3 DEF OneWriter
  <2>5. temp[f] # NoFile => \A u \in temp[f].by : u \in Threads /\ u # t
    BY <2>1, TypeParts DEF OneWriter, DiskInv, FilesTyped, Entry
  <2>6. temp[f] # NoFile => \A u \in temp[f].by : target'[u] = f /\ pc'[u] = "write"
    BY <2>1, <2>5 DEF OneWriter, OthersSame
  <2>7. \A u \in Threads : target'[u] = f => u # t
    BY NothingIsSomething
  <2>8. \A u \in Threads : target'[u] = f => target[u] = f /\ pc'[u] = pc[u]
    BY <2>7 DEF OthersSame
  <2> QED BY <2>1, <2>4, <2>6, <2>8 DEF OneWriter
<1> QED BY <1>2, <1>3, <1>4, <1>5 DEF DiskInv

\* The step with which a request starts to publish.
LEMMA PublishKeeps ==
  ASSUME DiskInv, NEW t \in Threads, NEW f \in Files, NEW content \in Content[f],
         NEW held \in ControlPlaneState \cup {Absent}, Publish(t, f, content, held),
         Good(f, content), held # Absent => GoodPlane(held),
         pc[t] # "idle", pc[t] \notin Publishing,
         f = "cp" \/ call[t].kind \in Creations => held # Absent,
         call[t].kind = "create_org" => call[t].org # DefaultOrg,
         f # "cp" /\ held # Absent => store[t] # Absent,
         Opened(t, f) \/ (clashed' = clashed /\ Holds(t, f))
  PROVE  DiskInv'
<1>1. /\ final' = final /\ temp' = temp /\ server' = server
      /\ UNCHANGED <<catalog, claims, spaces, data, keys, served, faults>>
  BY DEF Publish, fileVars, planeVars
<1>2. /\ ThreadsTyped' /\ OthersSame(t)
      /\ pc'[t] = "temp" /\ call'[t] = call[t] /\ store'[t] = held /\ target'[t] = f
      /\ next'[t][f] = content
  BY PublishFact, TypeParts DEF DiskInv
<1>3. clashed' \subseteq Files /\ clashed \subseteq clashed'
  BY TypeParts DEF DiskInv, Opened
<1>4. PlaneTyped'
  BY <1>1, TypeParts DEF DiskInv, PlaneTyped
<1>5. TypeOK'
  BY <1>1, <1>2, <1>3, <1>4, TypeParts DEF DiskInv, FilesTyped
<1>6. GoodFiles'
  BY <1>1 DEF DiskInv, GoodFiles
<1>7. Phase(t) /\ f # NoFile
  BY NothingIsSomething DEF DiskInv
<1>8. ASSUME NEW u \in Threads PROVE GoodCopies(u)' /\ Phase(u)'
  <2>1. CASE u = t
    <3>1. GoodCopies(t)'
      BY <1>2 DEF GoodCopies, Coming
    <3>2. Phase(t)'
      BY <1>1, <1>2, <1>7 DEF Phase, Publishing
    <3> QED BY <2>1, <3>1, <3>2
  <2>2. CASE u # t
    BY <1>1, <1>2, <2>2, OthersKeep
  <2> QED BY <2>1, <2>2
<1>9. ASSUME NEW g \in Files, g \notin clashed' PROVE OneWriter(g)'
  <2>1. OneWriter(g)
    BY <1>3, <1>9 DEF DiskInv
  <2>2. target[t] = NoFile
    BY <1>7 DEF Phase
  <2>3. ASSUME NEW u \in Threads, Holds(u, g)' PROVE Holds(u, g) \/ (u = t /\ g = f)
    <3>1. CASE u = t
      BY <1>2, <2>3, <3>1, NothingIsSomething DEF Holds
    <3>2. CASE u # t
      BY <1>2, <2>3, <3>2 DEF Holds, OthersSame
    <3> QED BY <3>1, <3>2
  <2>4. ASSUME g = f, ~Holds(t, f), NEW u \in Threads \ {t} PROVE ~Holds(u, g)
    BY <1>9, <2>4 DEF Opened
  <2>5. \A u, v \in Threads : Holds(u, g)' /\ Holds(v, g)' => u = v
    BY <2>1, <2>3, <2>4 DEF OneWriter
  <2>6. pc[t] # "write" /\ pc[t] # "rename"
    BY DEF Publishing
  <2>7. temp[g] # NoFile => \A u \in temp[g].by : u \in Threads /\ u # t
    BY <2>1, <2>6, TypeParts DEF OneWriter, DiskInv, FilesTyped, Entry
  <2>8. temp[g] # NoFile => \A u \in temp[g].by : target'[u] = g /\ pc'[u] = "write"
    BY <1>2, <2>1, <2>7 DEF OneWriter, OthersSame
  <2>9. \A u \in Threads : target'[u] = g /\ pc'[u] \in {"write", "rename"} =>
          target[u] = g /\ pc'[u] = pc[u]
    BY <1>2 DEF OthersSame
  <2> QED BY <1>1, <2>1, <2>5, <2>8, <2>9 DEF OneWriter
<1> QED BY <1>5, <1>6, <1>8, <1>9 DEF DiskInv

-----------------------------------------------------------------------------
(* Requests: what they read, check and start to publish *)

\* What a request reads.
LEMMA ReadsAreGood ==
  ASSUME DiskInv
  PROVE  /\ Cp # Unreadable => Cp \in ControlPlaneState
         /\ Cp # Unreadable /\ server = "up" => GoodPlane(Cp)
         /\ Om # Unreadable => Om \in OrgMembers /\ GoodOrgMembers(Om)
         /\ Pm # Unreadable => Pm \in ProjectMembers /\ GoodProjectMembers(Pm)
<1>1. \A f \in Files : final[f].data \in Content[f] \cup {Unreadable}
  BY TypeParts DEF DiskInv, FilesTyped, Entry
<1>2. GoodFiles
  BY DEF DiskInv
<1> QED BY <1>1, <1>2, ContentIs DEF GoodFiles, Good, Cp, Om, Pm

\* What clients may ask for.
LEMMA CallFact ==
  ASSUME NEW c \in Calls
  PROVE  /\ c.kind \in CallKinds /\ c.org \in Orgs /\ c.project \in Projects /\ c.slug \in Slugs
         /\ c.life \in Lifecycles /\ c.subject \in Subjects
         /\ c.kind = "set_org_role" => c.role \in OrgRoles
         /\ c.kind = "set_project_role" => c.role \in ProjectRoles
         /\ c.kind \in Creations => c.by \in Subjects
BY ControlPlaneAssumption DEF Call, Creations

\* The thread that takes a step, before it.
LEMMA ThreadFact ==
  ASSUME DiskInv, NEW t \in Threads
  PROVE  /\ Phase(t) /\ GoodCopies(t) /\ pc[t] \in Labels
         /\ store[t] \in ControlPlaneState \cup {Absent} /\ target[t] \in Files \cup {NoFile}
         /\ target[t] # NoFile => Coming(t) \in Content[target[t]]
BY TypeParts DEF DiskInv, ThreadsTyped, Coming

\* A request arrives.
LEMMA BeginKeeps ==
  ASSUME DiskInv, NEW t \in Threads, NEW c \in Calls, Begin(t, c)
  PROVE  DiskInv'
<1>1. /\ server = "up" /\ pc[t] = "idle" /\ served < MaxCalls /\ served' = served + 1
      /\ call' = [call EXCEPT ![t] = c] /\ pc' = [pc EXCEPT ![t] = FirstStep(c.kind)]
      /\ UNCHANGED <<final, temp, catalog, claims, spaces, data, keys, store, target, next,
                     server, faults, clashed>>
  BY DEF Begin, fileVars, planeVars
<1>2. Phase(t) /\ FirstStep(c.kind) \in Labels
  BY ThreadFact, CallFact DEF FirstStep, Labels, CallKinds
<1>3. /\ ThreadsTyped' /\ OthersSame(t)
      /\ pc'[t] = FirstStep(c.kind) /\ call'[t] = c /\ store'[t] = Absent /\ target'[t] = NoFile
  <2>1. /\ store[t] = Absent /\ target[t] = NoFile /\ ThreadsTyped
    BY <1>1, <1>2, TypeParts DEF Phase, DiskInv
  <2> QED BY <1>1, <1>2, <2>1 DEF ThreadsTyped, OthersSame
<1>4. PlaneTyped'
  BY <1>1, TypeParts, ControlPlaneAssumption DEF DiskInv, PlaneTyped
<1>5. Phase(t)'
  <2>1. c.kind \in CallKinds
    BY CallFact
  <2>2. /\ FirstStep(c.kind) \in {"authorize", "load", "scope", "drop", "apply"}
        /\ FirstStep(c.kind) = "load" <=> c.kind \in ProjectChanges
        /\ FirstStep(c.kind) = "apply" => c.kind # "delete_org"
    BY <2>1 DEF FirstStep, CallKinds, ProjectChanges
  <2> QED BY <1>1, <1>3, <2>2, NothingIsSomething, ContentIs DEF Phase, Publishing
<1> QED BY <1>1, <1>3, <1>4, <1>5, LeavesFiles

\* Only a member is authorized, and nobody is a member of the default organization.
LEMMA AuthorizedIsMember ==
  ASSUME DiskInv, Om # Unreadable, NEW by, NEW o \in Orgs, NEW s, OrgAuthorized(by, o, s, Om)
  PROVE  o # DefaultOrg /\ ~NoMembers(Om[o]) /\ DOMAIN Om[o] = Subjects
<1>1. by \in Subjects /\ Om[o][by] \in {"owner", "admin"}
  BY DEF OrgAuthorized, OrgRoleMayManage
<1>2. Om \in OrgMembers /\ NoMembers(Om[DefaultOrg])
  BY ReadsAreGood DEF GoodOrgMembers
<1>3. \A x \in Orgs : DOMAIN Om[x] = Subjects
  BY <1>2 DEF OrgMembers
<1> QED BY <1>1, <1>2, <1>3, NothingIsSomething, ControlPlaneAssumption DEF NoMembers

\* A request goes on without touching anything but its place.
LEMMA GoesOn ==
  ASSUME DiskInv, NEW t \in Threads, NEW label \in Labels \ Publishing, Goto(t, label),
         pc[t] \notin Publishing, final' = final, temp' = temp, server' = server, clashed' = clashed,
         PlaneTyped', Phase(t)'
  PROVE  DiskInv'
<1>1. /\ ThreadsTyped' /\ OthersSame(t)
      /\ call' = call /\ store' = store /\ target' = target /\ next' = next
  BY GotoFact, TypeParts DEF DiskInv
<1>2. Phase(t) /\ GoodCopies(t)
  BY ThreadFact
<1>3. target'[t] = NoFile
  BY <1>1, <1>2 DEF Phase
<1>4. store'[t] # Absent => GoodPlane(store'[t])
  BY <1>1, <1>2 DEF GoodCopies
<1> QED BY <1>1, <1>3, <1>4, LeavesFiles DEF Publishing

\* A request returns.
LEMMA Returns ==
  ASSUME DiskInv, NEW t \in Threads, End(t), pc[t] # "write", final' = final, temp' = temp,
         server' = server, clashed' = clashed, PlaneTyped'
  PROVE  DiskInv'
<1>1. /\ ThreadsTyped' /\ OthersSame(t)
      /\ pc'[t] = "idle" /\ call'[t] = NoCall /\ store'[t] = Absent /\ target'[t] = NoFile
  BY EndFact, TypeParts DEF DiskInv
<1>2. Phase(t)'
  BY <1>1, NothingIsSomething, ContentIs DEF Phase, Publishing
<1> QED BY <1>1, <1>2, LeavesFiles

\* The organization an operation is about is not the default one once it is authorized.
LEMMA AuthorizeOrganizationKeeps ==
  ASSUME DiskInv, NEW t \in Threads, AuthorizeOrganization(t)
  PROVE  DiskInv'
<1>1. /\ pc[t] = "authorize" /\ call[t].kind \in {"update_org", "delete_org", "create_project"}
      /\ Om # Unreadable /\ OrgAuthorized(call[t].by, call[t].org, Cp, Om) /\ Goto(t, "apply")
      /\ UNCHANGED <<final, temp, catalog, claims, spaces, data, keys, server, served, faults, clashed>>
  BY DEF AuthorizeOrganization, At, fileVars, planeVars
<1>2. Phase(t) /\ call[t] \in Calls
  BY <1>1, ThreadFact DEF Phase
<1>3. call[t].org # DefaultOrg
  BY <1>1, <1>2, CallFact, AuthorizedIsMember
<1>4. "apply" \in Labels \ Publishing /\ pc[t] \notin Publishing
  BY <1>1 DEF Labels, Publishing
<1>5. /\ pc'[t] = "apply" /\ call' = call /\ store' = store /\ target' = target
  BY <1>1, <1>4, GotoFact, TypeParts DEF DiskInv
<1>6. Phase(t)'
  BY <1>1, <1>2, <1>3, <1>5 DEF Phase, ProjectChanges, Publishing
<1>7. PlaneTyped'
  BY <1>1, TypeParts DEF DiskInv, PlaneTyped
<1> QED BY <1>1, <1>4, <1>6, <1>7, GoesOn

\* A project update opens the store.
LEMMA LoadProjectKeeps ==
  ASSUME DiskInv, NEW t \in Threads, LoadProject(t)
  PROVE  DiskInv'
<1>1. /\ pc[t] = "load" /\ Cp # Unreadable /\ Cp.projects[call[t].project] # Absent
      /\ store' = [store EXCEPT ![t] = Cp] /\ Opened(t, "cp")
      /\ pc' = [pc EXCEPT ![t] = "authorize"]
      /\ UNCHANGED <<final, temp, catalog, claims, spaces, data, keys, call, target, next, server,
                     served, faults>>
  BY DEF LoadProject, fileVars, planeVars
<1>2. Phase(t) /\ ThreadsTyped
  BY ThreadFact, TypeParts DEF DiskInv
<1>3. Cp \in ControlPlaneState /\ GoodPlane(Cp)
  BY <1>1, <1>2, ReadsAreGood DEF Phase
<1>4. target[t] = NoFile
  BY <1>1, <1>2 DEF Phase, Publishing
<1>5. /\ ThreadsTyped' /\ OthersSame(t)
      /\ pc'[t] = "authorize" /\ call'[t] = call[t] /\ store'[t] = Cp /\ target'[t] = NoFile
  BY <1>1, <1>2, <1>3, <1>4 DEF ThreadsTyped, OthersSame, Labels
<1>6. PlaneTyped'
  BY <1>1, TypeParts DEF DiskInv, PlaneTyped
<1>7. Phase(t)'
  BY <1>1, <1>2, <1>3, <1>5, NothingIsSomething DEF Phase, Publishing, ProjectChanges
<1> QED BY <1>1, <1>3, <1>5, <1>6, <1>7, LeavesFiles

\* Authority over the project, asked after the store was opened.
LEMMA AuthorizeProjectManagementKeeps ==
  ASSUME DiskInv, NEW t \in Threads, AuthorizeProjectManagement(t)
  PROVE  DiskInv'
<1>1. /\ pc[t] = "authorize" /\ call[t].kind \in {"update_project", "delete_project"} /\ Goto(t, "apply")
      /\ UNCHANGED <<final, temp, catalog, claims, spaces, data, keys, server, served, faults, clashed>>
  BY DEF AuthorizeProjectManagement, At, fileVars, planeVars
<1>2. Phase(t)
  BY ThreadFact
<1>3. "apply" \in Labels \ Publishing /\ pc[t] \notin Publishing
  BY <1>1 DEF Labels, Publishing
<1>4. /\ pc'[t] = "apply" /\ call' = call /\ store' = store /\ target' = target
  BY <1>1, <1>3, GotoFact, TypeParts DEF DiskInv
<1>5. Phase(t)'
  BY <1>1, <1>2, <1>4 DEF Phase, ProjectChanges, Publishing
<1>6. PlaneTyped'
  BY <1>1, TypeParts DEF DiskInv, PlaneTyped
<1> QED BY <1>1, <1>3, <1>5, <1>6, GoesOn

\* create_organization: a fresh identity with a free slug.
LEMMA CreateOrganizationKeeps ==
  ASSUME DiskInv, NEW t \in Threads, CreateOrganization(t)
  PROVE  DiskInv'
<1> DEFINE c == call[t]
<1>1. /\ pc[t] = "apply" /\ c.kind \in {"create_org"}
      /\ Cp # Unreadable /\ CreateOrganizationAllowed(c, Cp) /\ Opened(t, "cp")
      /\ Publish(t, "cp", PutOrg(Cp, c.org, [slug |-> c.slug, life |-> "active"]), Cp)
  BY DEF CreateOrganization, At
<1>2. /\ c \in Calls /\ server = "up" /\ Phase(t) /\ GoodCopies(t)
      /\ pc[t] # "idle" /\ pc[t] \notin Publishing
  BY <1>1, ThreadFact DEF Phase, Publishing
<1>3. Cp \in ControlPlaneState /\ GoodPlane(Cp) /\ Cp # Absent
  BY <1>1, <1>2, ReadsAreGood, NothingIsSomething
<1> DEFINE org == [slug |-> c.slug, life |-> "active"]
<1>4. org \in Organization /\ c.org \in Orgs /\ org.slug = c.slug
  BY <1>2, CallFact DEF Organization, Lifecycles
<1>5. OrgSlugFree(Cp, c.org, org.slug) /\ c.org # DefaultOrg
  BY <1>1, <1>3, <1>4 DEF CreateOrganizationAllowed, GoodPlane
<1>6. PutOrg(Cp, c.org, org) \in Content["cp"] /\ Good("cp", PutOrg(Cp, c.org, org))
  BY <1>3, <1>4, <1>5, PutOrgFact, PutOrgGood, ContentIs DEF Good
<1>7. "cp" \in Files
  BY ContentIs
<1> HIDE DEF org
<1> QED BY <1>1, <1>2, <1>3, <1>5, <1>6, <1>7, PublishKeeps DEF Creations, org

\* update_organization: the slug is free for it.
LEMMA UpdateOrganizationKeeps ==
  ASSUME DiskInv, NEW t \in Threads, UpdateOrganization(t)
  PROVE  DiskInv'
<1> DEFINE c == call[t]
<1>1. /\ pc[t] = "apply" /\ c.kind \in {"update_org"}
      /\ Cp # Unreadable /\ UpdateOrganizationAllowed(c, Cp) /\ Opened(t, "cp")
      /\ Publish(t, "cp", PutOrg(Cp, c.org, [slug |-> c.slug, life |-> c.life]), Cp)
  BY DEF UpdateOrganization, At
<1>2. /\ c \in Calls /\ server = "up" /\ Phase(t) /\ GoodCopies(t)
      /\ pc[t] # "idle" /\ pc[t] \notin Publishing
  BY <1>1, ThreadFact DEF Phase, Publishing
<1>3. Cp \in ControlPlaneState /\ GoodPlane(Cp) /\ Cp # Absent
  BY <1>1, <1>2, ReadsAreGood, NothingIsSomething
<1> DEFINE org == [slug |-> c.slug, life |-> c.life]
<1>4. org \in Organization /\ c.org \in Orgs /\ org.slug = c.slug
  BY <1>2, CallFact DEF Organization, Lifecycles
<1>5. OrgSlugFree(Cp, c.org, org.slug)
  BY <1>1, <1>3, <1>4 DEF UpdateOrganizationAllowed, GoodPlane
<1>6. PutOrg(Cp, c.org, org) \in Content["cp"] /\ Good("cp", PutOrg(Cp, c.org, org))
  BY <1>3, <1>4, <1>5, PutOrgFact, PutOrgGood, ContentIs DEF Good
<1>7. "cp" \in Files
  BY ContentIs
<1> HIDE DEF org
<1> QED BY <1>1, <1>2, <1>3, <1>5, <1>6, <1>7, PublishKeeps DEF Creations, org

\* delete_organization: it owns no project, and is not the default one.
LEMMA DeleteOrganizationKeeps ==
  ASSUME DiskInv, NEW t \in Threads, DeleteOrganization(t)
  PROVE  DiskInv'
<1> DEFINE c == call[t]
<1>1. /\ pc[t] = "apply" /\ c.kind \in {"delete_org"}
      /\ Cp # Unreadable /\ DeleteOrganizationAllowed(c, Cp) /\ Opened(t, "cp")
      /\ Publish(t, "cp", PutOrg(Cp, c.org, Absent), Cp)
  BY DEF DeleteOrganization, At
<1>2. /\ c \in Calls /\ server = "up" /\ Phase(t) /\ GoodCopies(t)
      /\ pc[t] # "idle" /\ pc[t] \notin Publishing
  BY <1>1, ThreadFact DEF Phase, Publishing
<1>3. Cp \in ControlPlaneState /\ GoodPlane(Cp) /\ Cp # Absent
  BY <1>1, <1>2, ReadsAreGood, NothingIsSomething
<1>4. c.org \in Orgs /\ c.org # DefaultOrg /\ OwnsNoProjects(Cp, c.org)
  BY <1>1, <1>2, CallFact DEF Phase, DeleteOrganizationAllowed
<1>5. PutOrg(Cp, c.org, Absent) \in Content["cp"] /\ Good("cp", PutOrg(Cp, c.org, Absent))
  BY <1>3, <1>4, PutOrgFact, DropOrgGood, ContentIs DEF Good
<1>6. "cp" \in Files
  BY ContentIs
<1> QED BY <1>1, <1>2, <1>3, <1>5, <1>6, PublishKeeps DEF Creations

\* create_project: an active organization and a slug that is free in it.
LEMMA CreateProjectKeeps ==
  ASSUME DiskInv, NEW t \in Threads, CreateProject(t)
  PROVE  DiskInv'
<1> DEFINE c == call[t]
<1>1. /\ pc[t] = "apply" /\ c.kind \in {"create_project"}
      /\ Cp # Unreadable /\ CreateProjectAllowed(c, Cp) /\ Opened(t, "cp")
      /\ Publish(t, "cp",
           PutProject(Cp, c.project, [org |-> c.org, slug |-> c.slug, life |-> "active"]), Cp)
  BY DEF CreateProject, At
<1>2. /\ c \in Calls /\ server = "up" /\ Phase(t) /\ GoodCopies(t)
      /\ pc[t] # "idle" /\ pc[t] \notin Publishing
  BY <1>1, ThreadFact DEF Phase, Publishing
<1>3. Cp \in ControlPlaneState /\ GoodPlane(Cp) /\ Cp # Absent
  BY <1>1, <1>2, ReadsAreGood, NothingIsSomething
<1> DEFINE project == [org |-> c.org, slug |-> c.slug, life |-> "active"]
<1>4. /\ project \in Project /\ c.project \in Projects
      /\ project.org = c.org /\ project.slug = c.slug
  BY <1>2, CallFact DEF Project, Lifecycles
<1>5. Cp.orgs[project.org] # Absent /\ ProjectSlugFree(Cp, c.project, project.org, project.slug)
  BY <1>1, <1>4 DEF CreateProjectAllowed
<1>6. PutProject(Cp, c.project, project) \in Content["cp"] /\ Good("cp", PutProject(Cp, c.project, project))
  BY <1>3, <1>4, <1>5, PutProjectFact, PutProjectGood, ContentIs DEF Good
<1>7. "cp" \in Files
  BY ContentIs
<1> HIDE DEF project
<1> QED BY <1>1, <1>2, <1>3, <1>6, <1>7, PublishKeeps DEF Creations, project

\* update_project, on the copy that was loaded before authority was asked.
LEMMA UpdateProjectKeeps ==
  ASSUME DiskInv, NEW t \in Threads, UpdateProject(t)
  PROVE  DiskInv'
<1> DEFINE c == call[t]
<1>1. /\ pc[t] = "apply" /\ c.kind \in {"update_project"}
      /\ UpdateProjectAllowed(c, store[t]) /\ clashed' = clashed
      /\ Publish(t, "cp",
           PutProject(store[t], c.project,
             [org |-> store[t].projects[c.project].org, slug |-> c.slug, life |-> c.life]), store[t])
  BY DEF UpdateProject, At
<1>2. /\ c \in Calls /\ server = "up" /\ Phase(t) /\ GoodCopies(t)
      /\ pc[t] # "idle" /\ pc[t] \notin Publishing
  BY <1>1, ThreadFact DEF Phase, Publishing
<1>3. /\ store[t] \in ControlPlaneState /\ store[t] # Absent /\ GoodPlane(store[t])
      /\ store[t].projects[c.project] # Absent /\ c.project \in Projects
  BY <1>1, <1>2, ThreadFact, CallFact DEF Phase, GoodCopies, ProjectChanges
<1>4. "cp" \in Files /\ Holds(t, "cp")
  BY <1>3, ContentIs DEF Holds
<1> DEFINE project == [org |-> store[t].projects[c.project].org, slug |-> c.slug, life |-> c.life]
<1>5. /\ project \in Project /\ project.org = store[t].projects[c.project].org
      /\ project.slug = c.slug
  BY <1>2, <1>3, CallFact, PlaneParts DEF Project
<1>6. store[t].orgs[project.org] # Absent /\ ProjectSlugFree(store[t], c.project, project.org, project.slug)
  BY <1>1, <1>5 DEF UpdateProjectAllowed
<1>7. /\ PutProject(store[t], c.project, project) \in Content["cp"]
      /\ Good("cp", PutProject(store[t], c.project, project))
  BY <1>3, <1>5, <1>6, PutProjectFact, PutProjectGood, ContentIs DEF Good
<1> HIDE DEF project
<1> QED BY <1>1, <1>2, <1>3, <1>4, <1>7, PublishKeeps DEF Creations, project

\* delete_project.
LEMMA DeleteProjectKeeps ==
  ASSUME DiskInv, NEW t \in Threads, DeleteProject(t)
  PROVE  DiskInv'
<1> DEFINE c == call[t]
<1>1. /\ pc[t] = "apply" /\ c.kind \in {"delete_project"}
      /\ clashed' = clashed
      /\ Publish(t, "cp", PutProject(store[t], c.project, Absent), store[t])
  BY DEF DeleteProject, At
<1>2. /\ c \in Calls /\ server = "up" /\ Phase(t) /\ GoodCopies(t)
      /\ pc[t] # "idle" /\ pc[t] \notin Publishing
  BY <1>1, ThreadFact DEF Phase, Publishing
<1>3. /\ store[t] \in ControlPlaneState /\ store[t] # Absent /\ GoodPlane(store[t])
      /\ store[t].projects[c.project] # Absent /\ c.project \in Projects
  BY <1>1, <1>2, ThreadFact, CallFact DEF Phase, GoodCopies, ProjectChanges
<1>4. "cp" \in Files /\ Holds(t, "cp")
  BY <1>3, ContentIs DEF Holds
<1>5. /\ PutProject(store[t], c.project, Absent) \in Content["cp"]
      /\ Good("cp", PutProject(store[t], c.project, Absent))
  BY <1>3, PutProjectFact, DropProjectGood, ContentIs DEF Good
<1> QED BY <1>1, <1>2, <1>3, <1>4, <1>5, PublishKeeps DEF Creations

\* update_role of an organization: whoever asks is a member, so there is an owner to keep.
LEMMA SetOrganizationRoleKeeps ==
  ASSUME DiskInv, NEW t \in Threads, SetOrganizationRole(t)
  PROVE  DiskInv'
<1> DEFINE c == call[t]
<1>1. /\ pc[t] = "apply" /\ c.kind \in {"set_org_role"}
      /\ Om # Unreadable /\ OrgAuthorized(c.by, c.org, Cp, Om)
      /\ SetRoleAllowed(Om[c.org], c.subject, c.role) /\ Opened(t, "om")
      /\ Publish(t, "om", [Om EXCEPT ![c.org][c.subject] = c.role], Absent)
  BY DEF SetOrganizationRole, At, OrgMembershipWritable
<1>2. /\ c \in Calls /\ server = "up" /\ Phase(t) /\ GoodCopies(t)
      /\ pc[t] # "idle" /\ pc[t] \notin Publishing
  BY <1>1, ThreadFact DEF Phase, Publishing
<1>3. Om \in OrgMembers /\ GoodOrgMembers(Om) /\ c.org \in Orgs /\ c.subject \in Subjects /\ c.role \in OrgRoles
  BY <1>1, <1>2, ReadsAreGood, CallFact
<1>4. c.org # DefaultOrg /\ ~NoMembers(Om[c.org]) /\ DOMAIN Om[c.org] = Subjects
  BY <1>1, <1>3, AuthorizedIsMember
<1>5. HasOwner([Om[c.org] EXCEPT ![c.subject] = c.role])
  BY <1>1, <1>3, <1>4, SetRoleKeepsOwner DEF GoodOrgMembers
<1> DEFINE n == [Om EXCEPT ![c.org][c.subject] = c.role]
<1>6. /\ n \in OrgMembers /\ n[c.org] = [Om[c.org] EXCEPT ![c.subject] = c.role]
      /\ \A o \in Orgs \ {c.org} : n[o] = Om[o]
  BY <1>3 DEF OrgMembers
<1> HIDE DEF n
<1>7. n \in Content["om"] /\ Good("om", n) /\ "om" \in Files
  BY <1>3, <1>4, <1>5, <1>6, ContentIs, ControlPlaneAssumption DEF Good, GoodOrgMembers
<1> QED BY <1>1, <1>2, <1>7, PublishKeeps DEF Creations, n

\* remove_membership of an organization.
LEMMA RemoveOrganizationRoleKeeps ==
  ASSUME DiskInv, NEW t \in Threads, RemoveOrganizationRole(t)
  PROVE  DiskInv'
<1> DEFINE c == call[t]
<1>1. /\ pc[t] = "apply" /\ c.kind \in {"remove_org_role"}
      /\ Om # Unreadable /\ OrgAuthorized(c.by, c.org, Cp, Om)
      /\ RemoveRoleAllowed(Om[c.org], c.subject) /\ Opened(t, "om")
      /\ Publish(t, "om", [Om EXCEPT ![c.org][c.subject] = Absent], Absent)
  BY DEF RemoveOrganizationRole, At, OrgMembershipWritable
<1>2. /\ c \in Calls /\ server = "up" /\ Phase(t) /\ GoodCopies(t)
      /\ pc[t] # "idle" /\ pc[t] \notin Publishing
  BY <1>1, ThreadFact DEF Phase, Publishing
<1>3. Om \in OrgMembers /\ GoodOrgMembers(Om) /\ c.org \in Orgs /\ c.subject \in Subjects
  BY <1>1, <1>2, ReadsAreGood, CallFact
<1>4. c.org # DefaultOrg /\ DOMAIN Om[c.org] = Subjects
  BY <1>1, <1>3, AuthorizedIsMember
<1>5. HasOwner([Om[c.org] EXCEPT ![c.subject] = Absent])
  BY <1>1, <1>3, <1>4, RemoveRoleKeepsOwner DEF GoodOrgMembers
<1> DEFINE n == [Om EXCEPT ![c.org][c.subject] = Absent]
<1>6. /\ n \in OrgMembers /\ n[c.org] = [Om[c.org] EXCEPT ![c.subject] = Absent]
      /\ \A o \in Orgs \ {c.org} : n[o] = Om[o]
  BY <1>3 DEF OrgMembers
<1> HIDE DEF n
<1>7. n \in Content["om"] /\ Good("om", n) /\ "om" \in Files
  BY <1>3, <1>4, <1>5, <1>6, ContentIs, ControlPlaneAssumption DEF Good, GoodOrgMembers
<1> QED BY <1>1, <1>2, <1>7, PublishKeeps DEF Creations, n

\* update_role of a project, asked by one of its owners.
LEMMA SetProjectRoleKeeps ==
  ASSUME DiskInv, NEW t \in Threads, SetProjectRole(t)
  PROVE  DiskInv'
<1> DEFINE c == call[t]
<1>1. /\ pc[t] = "apply" /\ c.kind \in {"set_project_role"}
      /\ Pm # Unreadable /\ c.by \in Subjects /\ ProjectAuthorized(c.by, c.project, Cp, Pm)
      /\ SetRoleAllowed(Pm[c.project], c.subject, c.role) /\ Opened(t, "pm")
      /\ Publish(t, "pm", [Pm EXCEPT ![c.project][c.subject] = c.role], Absent)
  BY DEF SetProjectRole, At, ProjectMembershipWritable
<1>2. /\ c \in Calls /\ server = "up" /\ Phase(t) /\ GoodCopies(t)
      /\ pc[t] # "idle" /\ pc[t] \notin Publishing
  BY <1>1, ThreadFact DEF Phase, Publishing
<1>3. /\ Pm \in ProjectMembers /\ GoodProjectMembers(Pm) /\ c.project \in Projects
      /\ c.subject \in Subjects /\ c.role \in ProjectRoles
  BY <1>1, <1>2, ReadsAreGood, CallFact
<1>4. ~NoMembers(Pm[c.project]) /\ DOMAIN Pm[c.project] = Subjects
  <2>1. DOMAIN Pm[c.project] = Subjects
    BY <1>3 DEF ProjectMembers
  <2>2. Pm[c.project][c.by] = "owner"
    BY <1>1, <1>3, ControlPlaneAssumption DEF ProjectAuthorized
  <2> QED BY <1>1, <2>1, <2>2, NothingIsSomething DEF NoMembers
<1>5. HasOwner([Pm[c.project] EXCEPT ![c.subject] = c.role])
  BY <1>1, <1>3, <1>4, SetRoleKeepsOwner DEF GoodProjectMembers
<1> DEFINE n == [Pm EXCEPT ![c.project][c.subject] = c.role]
<1>6. /\ n \in ProjectMembers /\ n[c.project] = [Pm[c.project] EXCEPT ![c.subject] = c.role]
      /\ \A p \in Projects \ {c.project} : n[p] = Pm[p]
  BY <1>3 DEF ProjectMembers
<1> HIDE DEF n
<1>7. n \in Content["pm"] /\ Good("pm", n) /\ "pm" \in Files
  BY <1>3, <1>5, <1>6, ContentIs DEF Good, GoodProjectMembers
<1> QED BY <1>1, <1>2, <1>7, PublishKeeps DEF Creations, n

\* remove_membership of a project.
LEMMA RemoveProjectRoleKeeps ==
  ASSUME DiskInv, NEW t \in Threads, RemoveProjectRole(t)
  PROVE  DiskInv'
<1> DEFINE c == call[t]
<1>1. /\ pc[t] = "apply" /\ c.kind \in {"remove_project_role"}
      /\ Pm # Unreadable /\ RemoveRoleAllowed(Pm[c.project], c.subject) /\ Opened(t, "pm")
      /\ Publish(t, "pm", [Pm EXCEPT ![c.project][c.subject] = Absent], Absent)
  BY DEF RemoveProjectRole, At, ProjectMembershipWritable
<1>2. /\ c \in Calls /\ server = "up" /\ Phase(t) /\ GoodCopies(t)
      /\ pc[t] # "idle" /\ pc[t] \notin Publishing
  BY <1>1, ThreadFact DEF Phase, Publishing
<1>3. /\ Pm \in ProjectMembers /\ GoodProjectMembers(Pm) /\ c.project \in Projects
      /\ c.subject \in Subjects
  BY <1>1, <1>2, ReadsAreGood, CallFact
<1>4. DOMAIN Pm[c.project] = Subjects
  BY <1>3 DEF ProjectMembers
<1>5. HasOwner([Pm[c.project] EXCEPT ![c.subject] = Absent])
  BY <1>1, <1>3, <1>4, RemoveRoleKeepsOwner DEF GoodProjectMembers
<1> DEFINE n == [Pm EXCEPT ![c.project][c.subject] = Absent]
<1>6. /\ n \in ProjectMembers /\ n[c.project] = [Pm[c.project] EXCEPT ![c.subject] = Absent]
      /\ \A p \in Projects \ {c.project} : n[p] = Pm[p]
  BY <1>3 DEF ProjectMembers
<1> HIDE DEF n
<1>7. n \in Content["pm"] /\ Good("pm", n) /\ "pm" \in Files
  BY <1>3, <1>5, <1>6, ContentIs DEF Good, GoodProjectMembers
<1> QED BY <1>1, <1>2, <1>7, PublishKeeps DEF Creations, n

\* bootstrap_owner of an organization: its first member is an owner.
LEMMA BootstrapOrgOwnerKeeps ==
  ASSUME DiskInv, NEW t \in Threads, BootstrapOrgOwner(t)
  PROVE  DiskInv'
<1> DEFINE c == call[t]
<1>1. /\ pc[t] = "owner" /\ c.kind \in {"create_org"}
      /\ Om # Unreadable /\ NoMembers(Om[c.org]) /\ Opened(t, "om")
      /\ Publish(t, "om", [Om EXCEPT ![c.org][c.by] = "owner"], store[t])
  BY DEF BootstrapOrgOwner, At
<1>2. /\ c \in Calls /\ server = "up" /\ Phase(t) /\ GoodCopies(t)
      /\ pc[t] # "idle" /\ pc[t] \notin Publishing
  BY <1>1, ThreadFact DEF Phase, Publishing
<1>3. store[t] \in ControlPlaneState /\ store[t] # Absent /\ GoodPlane(store[t])
  BY <1>1, <1>2, ThreadFact DEF Phase, GoodCopies
<1>4. /\ Om \in OrgMembers /\ GoodOrgMembers(Om) /\ c.org \in Orgs /\ c.by \in Subjects /\ c.org # DefaultOrg
  BY <1>1, <1>2, ReadsAreGood, CallFact DEF Creations, Phase
<1> DEFINE n == [Om EXCEPT ![c.org][c.by] = "owner"]
<1>5. /\ n \in OrgMembers /\ n[c.org][c.by] = "owner" /\ DOMAIN n[c.org] = Subjects
      /\ \A x \in Orgs \ {c.org} : n[x] = Om[x]
  BY <1>4 DEF OrgMembers, OrgRoles
<1> HIDE DEF n
<1>6. HasOwner(n[c.org])
  BY <1>4, <1>5 DEF HasOwner, Owners
<1>7. n \in Content["om"] /\ Good("om", n) /\ "om" \in Files
  BY <1>4, <1>5, <1>6, ContentIs, ControlPlaneAssumption DEF Good, GoodOrgMembers
<1> QED BY <1>1, <1>2, <1>3, <1>7, PublishKeeps DEF Creations, Phase, n

\* bootstrap_owner of a project.
LEMMA BootstrapProjectOwnerKeeps ==
  ASSUME DiskInv, NEW t \in Threads, BootstrapProjectOwner(t)
  PROVE  DiskInv'
<1> DEFINE c == call[t]
<1>1. /\ pc[t] = "owner" /\ c.kind \in {"create_project"}
      /\ Pm # Unreadable /\ NoMembers(Pm[c.project]) /\ Opened(t, "pm")
      /\ Publish(t, "pm", [Pm EXCEPT ![c.project][c.by] = "owner"], store[t])
  BY DEF BootstrapProjectOwner, At
<1>2. /\ c \in Calls /\ server = "up" /\ Phase(t) /\ GoodCopies(t)
      /\ pc[t] # "idle" /\ pc[t] \notin Publishing
  BY <1>1, ThreadFact DEF Phase, Publishing
<1>3. store[t] \in ControlPlaneState /\ store[t] # Absent /\ GoodPlane(store[t])
  BY <1>1, <1>2, ThreadFact DEF Phase, GoodCopies
<1>4. /\ Pm \in ProjectMembers /\ GoodProjectMembers(Pm) /\ c.project \in Projects /\ c.by \in Subjects
  BY <1>1, <1>2, ReadsAreGood, CallFact DEF Creations, Phase
<1> DEFINE n == [Pm EXCEPT ![c.project][c.by] = "owner"]
<1>5. /\ n \in ProjectMembers /\ n[c.project][c.by] = "owner" /\ DOMAIN n[c.project] = Subjects
      /\ \A x \in Projects \ {c.project} : n[x] = Pm[x]
  BY <1>4 DEF ProjectMembers, ProjectRoles
<1> HIDE DEF n
<1>6. HasOwner(n[c.project])
  BY <1>4, <1>5 DEF HasOwner, Owners
<1>7. n \in Content["pm"] /\ Good("pm", n) /\ "pm" \in Files
  BY <1>4, <1>5, <1>6, ContentIs, ControlPlaneAssumption DEF Good, GoodProjectMembers
<1> QED BY <1>1, <1>2, <1>3, <1>7, PublishKeeps DEF Creations, Phase, n

\* The memberships of a deleted organization go.
LEMMA PurgeOrganizationKeeps ==
  ASSUME DiskInv, NEW t \in Threads, PurgeOrganization(t)
  PROVE  DiskInv'
<1> DEFINE c == call[t]
<1>1. /\ pc[t] = "purge" /\ c.kind \in {"delete_org"}
      /\ Om # Unreadable /\ Opened(t, "om")
      /\ Publish(t, "om", [Om EXCEPT ![c.org] = [m \in Subjects |-> Absent]], store[t])
  BY DEF PurgeOrganization, At
<1>2. /\ c \in Calls /\ server = "up" /\ Phase(t) /\ GoodCopies(t)
      /\ pc[t] # "idle" /\ pc[t] \notin Publishing
  BY <1>1, ThreadFact DEF Phase, Publishing
<1>3. store[t] \in ControlPlaneState /\ store[t] # Absent /\ GoodPlane(store[t])
  BY <1>1, <1>2, ThreadFact DEF Phase, GoodCopies
<1>4. Om \in OrgMembers /\ GoodOrgMembers(Om) /\ c.org \in Orgs
  BY <1>1, <1>2, ReadsAreGood, CallFact
<1> DEFINE n == [Om EXCEPT ![c.org] = [m \in Subjects |-> Absent]]
<1>5. /\ n \in OrgMembers /\ n[c.org] = [m \in Subjects |-> Absent]
      /\ \A x \in Orgs \ {c.org} : n[x] = Om[x]
  BY <1>4 DEF OrgMembers
<1> HIDE DEF n
<1>6. HasOwner(n[c.org]) /\ NoMembers(n[c.org])
  BY <1>5 DEF HasOwner, NoMembers
<1>7. n \in Content["om"] /\ Good("om", n) /\ "om" \in Files
  BY <1>4, <1>5, <1>6, ContentIs, ControlPlaneAssumption DEF Good, GoodOrgMembers
<1> QED BY <1>1, <1>2, <1>3, <1>7, PublishKeeps DEF Creations, n

\* The memberships of a deleted project go.
LEMMA PurgeProjectKeeps ==
  ASSUME DiskInv, NEW t \in Threads, PurgeProject(t)
  PROVE  DiskInv'
<1> DEFINE c == call[t]
<1>1. /\ pc[t] = "purge" /\ c.kind \in {"delete_project"}
      /\ Pm # Unreadable /\ Opened(t, "pm")
      /\ Publish(t, "pm", [Pm EXCEPT ![c.project] = [m \in Subjects |-> Absent]], store[t])
  BY DEF PurgeProject, At
<1>2. /\ c \in Calls /\ server = "up" /\ Phase(t) /\ GoodCopies(t)
      /\ pc[t] # "idle" /\ pc[t] \notin Publishing
  BY <1>1, ThreadFact DEF Phase, Publishing
<1>3. store[t] \in ControlPlaneState /\ store[t] # Absent /\ GoodPlane(store[t])
  BY <1>1, <1>2, ThreadFact DEF Phase, GoodCopies
<1>4. Pm \in ProjectMembers /\ GoodProjectMembers(Pm) /\ c.project \in Projects
  BY <1>1, <1>2, ReadsAreGood, CallFact
<1> DEFINE n == [Pm EXCEPT ![c.project] = [m \in Subjects |-> Absent]]
<1>5. /\ n \in ProjectMembers /\ n[c.project] = [m \in Subjects |-> Absent]
      /\ \A x \in Projects \ {c.project} : n[x] = Pm[x]
  BY <1>4 DEF ProjectMembers
<1> HIDE DEF n
<1>6. HasOwner(n[c.project]) /\ NoMembers(n[c.project])
  BY <1>5 DEF HasOwner, NoMembers
<1>7. n \in Content["pm"] /\ Good("pm", n) /\ "pm" \in Files
  BY <1>4, <1>5, <1>6, ContentIs, ControlPlaneAssumption DEF Good, GoodProjectMembers
<1> QED BY <1>1, <1>2, <1>3, <1>7, PublishKeeps DEF Creations, n

\* The creation is undone, on the copy that made it.
LEMMA RollbackKeeps ==
  ASSUME DiskInv, NEW t \in Threads, Rollback(t)
  PROVE  DiskInv'
<1> DEFINE c == call[t]
<1>1. /\ pc[t] = "rollback" /\ clashed' = clashed
      /\ \/ /\ c.kind = "create_org" /\ OwnsNoProjects(store[t], c.org)
            /\ Publish(t, "cp", PutOrg(store[t], c.org, Absent), store[t])
         \/ /\ c.kind = "create_project"
            /\ Publish(t, "cp", PutProject(store[t], c.project, Absent), store[t])
  BY DEF Rollback, At
<1>2. /\ c \in Calls /\ server = "up" /\ Phase(t) /\ GoodCopies(t)
      /\ pc[t] # "idle" /\ pc[t] \notin Publishing
  BY <1>1, ThreadFact DEF Phase, Publishing
<1>3. store[t] \in ControlPlaneState /\ store[t] # Absent /\ GoodPlane(store[t])
  BY <1>1, <1>2, ThreadFact DEF Phase, GoodCopies
<1>4. "cp" \in Files /\ Holds(t, "cp") /\ c.org \in Orgs /\ c.project \in Projects
  BY <1>2, <1>3, ContentIs, CallFact DEF Holds
<1>5. c.kind = "create_org" => c.org # DefaultOrg
  BY <1>1, <1>2 DEF Phase
<1>6. CASE c.kind = "create_org"
  <2>1. /\ PutOrg(store[t], c.org, Absent) \in Content["cp"]
        /\ Good("cp", PutOrg(store[t], c.org, Absent))
    BY <1>1, <1>3, <1>4, <1>5, <1>6, PutOrgFact, DropOrgGood, ContentIs DEF Good
  <2> QED BY <1>1, <1>2, <1>3, <1>4, <1>5, <1>6, <2>1, PublishKeeps DEF Creations
<1>7. CASE c.kind = "create_project"
  <2>1. /\ PutProject(store[t], c.project, Absent) \in Content["cp"]
        /\ Good("cp", PutProject(store[t], c.project, Absent))
    BY <1>3, <1>4, PutProjectFact, DropProjectGood, ContentIs DEF Good
  <2> QED BY <1>1, <1>2, <1>3, <1>4, <1>7, <2>1, PublishKeeps DEF Creations
<1> QED BY <1>1, <1>6, <1>7

\* bootstrap_owner refuses.
LEMMA BootstrapRefusedKeeps ==
  ASSUME DiskInv, NEW t \in Threads, BootstrapRefused(t)
  PROVE  DiskInv'
<1>1. /\ pc[t] = "owner" /\ call[t].kind \in Creations /\ Goto(t, "rollback")
      /\ UNCHANGED <<final, temp, catalog, claims, spaces, data, keys, server, served, faults, clashed>>
  BY DEF BootstrapRefused, At, fileVars, planeVars, Creations
<1>2. Phase(t)
  BY ThreadFact
<1>3. "rollback" \in Labels \ Publishing /\ pc[t] \notin Publishing
  BY <1>1 DEF Labels, Publishing
<1>4. /\ pc'[t] = "rollback" /\ call' = call /\ store' = store /\ target' = target
  BY <1>1, <1>3, GotoFact, TypeParts DEF DiskInv
<1>5. Phase(t)'
  BY <1>1, <1>2, <1>4 DEF Phase, Publishing
<1>6. PlaneTyped'
  BY <1>1, TypeParts DEF DiskInv, PlaneTyped
<1> QED BY <1>1, <1>3, <1>5, <1>6, GoesOn

-----------------------------------------------------------------------------
(* persist: the steps on the temporary and the published file *)

\* A thread that publishes a file nobody else has open is its only writer.
LEMMA OnlyWriter ==
  ASSUME DiskInv, NEW t \in Threads, NEW f \in Files, target[t] = f, f \notin clashed
  PROVE  /\ OneWriter(f)
         /\ \A u \in Threads \ {t} : target[u] # f
         /\ temp[f] # NoFile => temp[f].by \subseteq {t}
<1>1. OneWriter(f)
  BY DEF DiskInv
<1>2. \A u \in Threads : target[u] = f => Holds(u, f)
  BY DEF DiskInv, Phase, Holds
<1>3. \A u \in Threads \ {t} : target[u] # f
  BY <1>1, <1>2 DEF OneWriter
<1>4. temp[f] # NoFile => temp[f].by \subseteq Threads
  BY TypeParts DEF DiskInv, FilesTyped, Entry
<1> QED BY <1>1, <1>3, <1>4 DEF OneWriter

\* What t leaves of a file it alone writes.
Tidy(t, f) ==
  /\ final'[f].by = {} /\ final'[f].data # Unreadable
  /\ temp'[f] # NoFile => temp'[f].by \subseteq {t}
  /\ temp'[f] # NoFile /\ t \in temp'[f].by => target'[t] = f /\ pc'[t] = "write"
  /\ target'[t] = f /\ pc'[t] = "write" =>
       temp'[f] # NoFile /\ t \in temp'[f].by /\ temp'[f].data = Unreadable
  /\ target'[t] = f /\ pc'[t] = "rename" /\ temp'[f] # NoFile => temp'[f].data # Unreadable

\* The file t publishes changes, the other files do not.
FileStep(t, f) ==
  /\ DOMAIN final' = Files /\ DOMAIN temp' = Files
  /\ \A g \in Files \ {f} : final'[g] = final[g] /\ temp'[g] = temp[g]
  /\ final'[f] \in Entry(f) /\ temp'[f] \in Entry(f) \cup {NoFile}
  /\ final'[f].data # Unreadable => Good(f, final'[f].data)
  /\ temp'[f] # NoFile /\ temp'[f].data # Unreadable => Good(f, temp'[f].data)
  /\ f \notin clashed => Tidy(t, f)

LEMMA PersistKeeps ==
  ASSUME DiskInv, NEW t \in Threads, NEW f \in Files, target[t] = f, FileStep(t, f),
         OthersSame(t), ThreadsTyped', PlaneTyped', server' = server, clashed' = clashed,
         target'[t] \in {f, NoFile}, store'[t] # Absent => store[t] # Absent,
         Phase(t)', GoodCopies(t)'
  PROVE  DiskInv'
<1>1. TypeOK'
  <2>1. FilesTyped'
    BY TypeParts DEF FileStep, DiskInv, FilesTyped
  <2> QED BY <2>1, TypeParts DEF DiskInv
<1>2. GoodFiles'
  BY DEF FileStep, DiskInv, GoodFiles
<1>3. ASSUME NEW u \in Threads PROVE GoodCopies(u)' /\ Phase(u)'
  BY OthersKeep
<1>4. ASSUME NEW g \in Files, g \notin clashed' PROVE OneWriter(g)'
  <2>1. OneWriter(g)
    BY <1>4 DEF DiskInv
  <2>2. ASSUME NEW u \in Threads, Holds(u, g)' PROVE Holds(u, g)
    <3>1. CASE u = t
      BY <2>2, <3>1, NothingIsSomething DEF Holds
    <3>2. CASE u # t
      BY <2>2, <3>2 DEF Holds, OthersSame
    <3> QED BY <3>1, <3>2
  <2>3. \A u, v \in Threads : Holds(u, g)' /\ Holds(v, g)' => u = v
    BY <2>1, <2>2 DEF OneWriter
  <2>4. CASE g = f
    <3>1. Tidy(t, f) /\ \A u \in Threads \ {t} : target'[u] # f
      BY <1>4, <2>4, OnlyWriter DEF FileStep, OthersSame
    <3> QED BY <2>3, <2>4, <3>1 DEF Tidy, OneWriter
  <2>5. CASE g # f
    <3>1. final'[g] = final[g] /\ temp'[g] = temp[g]
      BY <2>5 DEF FileStep
    <3>2. target[t] # g /\ target'[t] # g
      BY <2>5, NothingIsSomething
    <3>3. temp[g] # NoFile => temp[g].by \subseteq Threads
      BY TypeParts DEF DiskInv, FilesTyped, Entry
    <3>4. temp[g] # NoFile => \A u \in temp[g].by : target'[u] = g /\ pc'[u] = "write"
      BY <2>1, <3>2, <3>3 DEF OneWriter, OthersSame
    <3>5. \A u \in Threads : target'[u] = g => target[u] = g /\ pc'[u] = pc[u]
      BY <3>2 DEF OthersSame
    <3> QED BY <2>1, <2>3, <3>1, <3>4, <3>5 DEF OneWriter
  <2> QED BY <2>4, <2>5
<1> QED BY <1>1, <1>2, <1>3, <1>4 DEF DiskInv

\* The thread before such a step, and the files it finds.
LEMMA PersistFact ==
  ASSUME DiskInv, NEW t \in Threads, pc[t] \in Publishing
  PROVE  /\ target[t] \in Files /\ target[t] # NoFile /\ Phase(t) /\ GoodCopies(t) /\ server = "up"
         /\ Coming(t) \in Content[target[t]] /\ Good(target[t], Coming(t))
         /\ Coming(t) # Unreadable
         /\ \A f \in Files : /\ final[f] \in Entry(f) /\ temp[f] \in Entry(f) \cup {NoFile}
                             /\ final[f].data # Unreadable => Good(f, final[f].data)
                             /\ temp[f] # NoFile /\ temp[f].data # Unreadable => Good(f, temp[f].data)
         /\ DOMAIN final = Files /\ DOMAIN temp = Files
<1>1. /\ Phase(t) /\ GoodCopies(t) /\ target[t] \in Files \cup {NoFile}
      /\ target[t] # NoFile => Coming(t) \in Content[target[t]]
  BY ThreadFact
<1>2. target[t] \in Files /\ target[t] # NoFile /\ server = "up" /\ Coming(t) \in Content[target[t]]
  BY <1>1 DEF Phase, Publishing
<1>3. Good(target[t], Coming(t)) /\ Coming(t) # Unreadable
  BY <1>1, <1>2, NothingIsSomething DEF GoodCopies
<1>4. FilesTyped /\ GoodFiles
  BY TypeParts DEF DiskInv
<1> QED BY <1>1, <1>2, <1>3, <1>4 DEF FilesTyped, GoodFiles

\* A step on the files with which the request goes on publishing.
LEMMA PersistGoesOn ==
  ASSUME DiskInv, NEW t \in Threads, NEW label \in {"create", "write", "rename"}, Goto(t, label),
         pc[t] \in Publishing, label = "create" => target[t] = "cp", FileStep(t, target[t]),
         UNCHANGED <<catalog, claims, spaces, data, keys, server, served, faults, clashed>>
  PROVE  DiskInv'
<1>1. label \in Labels /\ label \in Publishing
  BY DEF Labels, Publishing
<1>2. /\ ThreadsTyped' /\ OthersSame(t) /\ pc'[t] = label
      /\ call' = call /\ store' = store /\ target' = target /\ next' = next
  BY <1>1, GotoFact, TypeParts DEF DiskInv
<1>3. /\ target[t] \in Files /\ target[t] # NoFile /\ Phase(t) /\ GoodCopies(t) /\ server = "up"
  BY PersistFact
<1>4. PlaneTyped'
  BY TypeParts DEF DiskInv, PlaneTyped
<1>5. GoodCopies(t)'
  BY <1>2, <1>3 DEF GoodCopies, Coming
<1>6. Phase(t)'
  BY <1>1, <1>2, <1>3 DEF Phase, Publishing
<1> QED BY <1>2, <1>3, <1>4, <1>5, <1>6, PersistKeeps

\* persist fails: a creation whose second file it was is undone, any other request returns.
LEMMA FailedKeeps ==
  ASSUME DiskInv, NEW t \in Threads, Failed(t), pc[t] \in Publishing,
         FileStep(t, target[t]), PlaneTyped',
         UNCHANGED <<server, clashed>>
  PROVE  DiskInv'
<1>1. /\ target[t] \in Files /\ target[t] # NoFile /\ Phase(t) /\ GoodCopies(t) /\ server = "up"
  BY PersistFact
<1>2. CASE target[t] # "cp" /\ call[t].kind \in Creations
  <2>1. /\ pc' = [pc EXCEPT ![t] = "rollback"] /\ target' = [target EXCEPT ![t] = NoFile]
        /\ next' = [next EXCEPT ![t] = Absent] /\ UNCHANGED <<call, store>>
    BY <1>2 DEF Failed, Creations
  <2>2. /\ ThreadsTyped' /\ OthersSame(t) /\ pc'[t] = "rollback" /\ target'[t] = NoFile
        /\ call'[t] = call[t] /\ store'[t] = store[t]
    <3>1. ThreadsTyped
      BY TypeParts DEF DiskInv
    <3> QED BY <2>1, <3>1 DEF ThreadsTyped, OthersSame, Labels
  <2>3. Phase(t)'
    BY <1>1, <1>2, <2>2, NothingIsSomething, ContentIs DEF Phase, Publishing, Creations, ProjectChanges
  <2>4. GoodCopies(t)'
    BY <1>1, <2>2 DEF GoodCopies
  <2> QED BY <1>1, <2>2, <2>3, <2>4, PersistKeeps
<1>3. CASE ~(target[t] # "cp" /\ call[t].kind \in Creations)
  <2>1. End(t)
    BY <1>3 DEF Failed, Creations
  <2>2. /\ ThreadsTyped' /\ OthersSame(t)
        /\ pc'[t] = "idle" /\ call'[t] = NoCall /\ store'[t] = Absent /\ target'[t] = NoFile
    BY <2>1, EndFact, TypeParts DEF DiskInv
  <2>3. Phase(t)' /\ GoodCopies(t)'
    BY <2>2, NothingIsSomething, ContentIs DEF Phase, Publishing, GoodCopies
  <2> QED BY <1>1, <2>2, <2>3, PersistKeeps
<1> QED BY <1>2, <1>3

\* The request has published: it owes a second file, or returns.
LEMMA PublishedKeeps ==
  ASSUME DiskInv, NEW t \in Threads, Published(t), pc[t] \in Publishing,
         FileStep(t, target[t]),
         UNCHANGED <<catalog, claims, spaces, data, keys, server, served, faults, clashed>>
  PROVE  DiskInv'
<1>1. /\ target[t] \in Files /\ target[t] # NoFile /\ Phase(t) /\ GoodCopies(t) /\ server = "up"
      /\ Coming(t) \in Content[target[t]] /\ Good(target[t], Coming(t))
  BY PersistFact
<1>2. PlaneTyped'
  BY TypeParts DEF DiskInv, PlaneTyped
<1>3. CASE End(t)
  <2>2. /\ ThreadsTyped' /\ OthersSame(t)
        /\ pc'[t] = "idle" /\ call'[t] = NoCall /\ store'[t] = Absent /\ target'[t] = NoFile
    BY <1>3, EndFact, TypeParts DEF DiskInv
  <2>3. Phase(t)' /\ GoodCopies(t)'
    BY <2>2, NothingIsSomething, ContentIs DEF Phase, Publishing, GoodCopies
  <2> QED BY <1>1, <1>2, <2>2, <2>3, PersistKeeps
<1>4. CASE ~End(t)
  <2>1. /\ target[t] = "cp" /\ (Created(t) \/ call[t].kind \in {"delete_org", "delete_project"})
        /\ pc' = [pc EXCEPT ![t] = IF Created(t) THEN "owner" ELSE "purge"]
        /\ store' = [store EXCEPT ![t] = Coming(t)]
        /\ target' = [target EXCEPT ![t] = NoFile]
        /\ next' = [next EXCEPT ![t] = Absent] /\ call' = call
    BY <1>4 DEF Published
  <2> DEFINE label == IF Created(t) THEN "owner" ELSE "purge"
  <2>2. /\ label \in {"owner", "purge"} /\ label \in Labels
        /\ label = "owner" => call[t].kind \in Creations
    BY DEF Created, Creations, Labels
  <2>3. Coming(t) \in ControlPlaneState /\ GoodPlane(Coming(t)) /\ Coming(t) # Absent
    BY <1>1, <2>1, ContentIs, NothingIsSomething DEF Good
  <2>4. store[t] # Absent
    BY <1>1, <2>1 DEF Phase
  <2> HIDE DEF label
  <2>5. pc' = [pc EXCEPT ![t] = label]
    BY <2>1 DEF label
  <2>6. /\ ThreadsTyped' /\ OthersSame(t) /\ pc'[t] = label /\ target'[t] = NoFile
        /\ call'[t] = call[t] /\ store'[t] = Coming(t)
    <3>1. ThreadsTyped
      BY TypeParts DEF DiskInv
    <3> QED BY <2>1, <2>2, <2>3, <2>5, <3>1 DEF ThreadsTyped, OthersSame
  <2>7. Phase(t)'
    BY <1>1, <2>1, <2>2, <2>3, <2>6, NothingIsSomething, ContentIs
       DEF Phase, Publishing, Creations, ProjectChanges
  <2>8. GoodCopies(t)'
    BY <2>3, <2>6 DEF GoodCopies
  <2> QED BY <1>1, <1>2, <2>4, <2>6, <2>7, <2>8, PersistKeeps
<1> QED BY <1>3, <1>4

\* fs::remove_file on the temporary path.
LEMMA RemoveTempKeeps ==
  ASSUME DiskInv, NEW t \in Threads, RemoveTemp(t)
  PROVE  DiskInv'
<1>1. /\ pc[t] = "temp" /\ target[t] = "cp" /\ temp' = [temp EXCEPT !["cp"] = NoFile]
      /\ Goto(t, "create") /\ final' = final
      /\ UNCHANGED <<catalog, claims, spaces, data, keys, server, served, faults, clashed>>
  BY DEF RemoveTemp, planeVars
<1>2. pc[t] \in Publishing /\ "create" \in Labels
  BY <1>1 DEF Publishing, Labels
<1>3. pc'[t] = "create"
  BY <1>1, <1>2, GotoFact, TypeParts DEF DiskInv
<1>4. "cp" \notin clashed => Tidy(t, "cp")
  BY <1>1, <1>2, <1>3, OnlyWriter, PersistFact DEF Tidy, OneWriter
<1>5. FileStep(t, "cp")
  BY <1>1, <1>2, <1>4, PersistFact DEF FileStep
<1> QED BY <1>1, <1>2, <1>5, PersistGoesOn

\* OpenOptions::create_new: it creates the file, or finds the one of another request.
LEMMA CreateTempKeeps ==
  ASSUME DiskInv, NEW t \in Threads, CreateTemp(t)
  PROVE  DiskInv'
<1>1. /\ pc[t] = "create" /\ final' = final
      /\ UNCHANGED <<catalog, claims, spaces, data, keys, server, served, faults, clashed>>
      /\ \/ temp["cp"] = NoFile /\ temp' = [temp EXCEPT !["cp"] = Empty(t)] /\ Goto(t, "write")
         \/ temp["cp"] # NoFile /\ Failed(t) /\ temp' = temp
  BY DEF CreateTemp, planeVars
<1>2. pc[t] \in Publishing /\ "write" \in Labels
  BY <1>1 DEF Publishing, Labels
<1>3. target[t] = "cp"
  BY <1>1, <1>2, PersistFact DEF Phase
<1>4. CASE temp["cp"] = NoFile
  <2>1. temp' = [temp EXCEPT !["cp"] = Empty(t)] /\ Goto(t, "write")
    BY <1>1, <1>4
  <2>2. pc'[t] = "write" /\ target'[t] = "cp"
    BY <1>2, <1>3, <2>1, GotoFact, TypeParts DEF DiskInv
  <2>3. Empty(t) \in Entry("cp") /\ Empty(t).by = {t} /\ Empty(t).data = Unreadable
    BY DEF Empty, Entry
  <2>4. temp'["cp"] = Empty(t) /\ Empty(t) # NoFile
    BY <1>2, <1>3, <2>1, <2>3, PersistFact, NothingIsSomething
  <2>5. "cp" \notin clashed => Tidy(t, "cp")
    <3>1. "cp" \notin clashed => final["cp"].by = {} /\ final["cp"].data # Unreadable
      BY <1>2, <1>3, OnlyWriter, PersistFact DEF OneWriter
    <3> QED BY <1>1, <2>2, <2>3, <2>4, <3>1 DEF Tidy
  <2>6. FileStep(t, "cp")
    BY <1>1, <1>2, <1>3, <2>1, <2>3, <2>4, <2>5, PersistFact DEF FileStep
  <2> QED BY <1>1, <1>2, <1>3, <2>1, <2>6, PersistGoesOn
<1>5. CASE temp["cp"] # NoFile
  <2>1. Failed(t) /\ temp' = temp
    BY <1>1, <1>5
  <2>2. "cp" \notin clashed => t \notin temp["cp"].by /\ temp["cp"].by \subseteq {t}
    BY <1>1, <1>2, <1>3, <1>5, OnlyWriter, PersistFact DEF OneWriter
  <2>3. target'[t] # "cp"
    <3>1. End(t)
      BY <1>3, <2>1 DEF Failed
    <3> QED BY <1>2, <3>1, EndFact, TypeParts, NothingIsSomething, ContentIs DEF DiskInv
  <2>4. "cp" \notin clashed => Tidy(t, "cp")
    BY <1>1, <1>2, <1>3, <2>1, <2>2, <2>3, OnlyWriter, PersistFact DEF Tidy, OneWriter
  <2>5. FileStep(t, "cp")
    BY <1>1, <1>2, <1>3, <2>1, <2>4, PersistFact DEF FileStep
  <2>6. PlaneTyped'
    BY <1>1, TypeParts DEF DiskInv, PlaneTyped
  <2> QED BY <1>1, <1>2, <1>3, <2>1, <2>5, <2>6, FailedKeeps
<1> QED BY <1>4, <1>5

\* fs::write opens the temporary file of a membership file, and truncates it.
LEMMA TruncateTempKeeps ==
  ASSUME DiskInv, NEW t \in Threads, TruncateTemp(t)
  PROVE  DiskInv'
<1> DEFINE f == target[t]
<1>1. /\ pc[t] = "temp" /\ f # "cp" /\ temp' = [temp EXCEPT ![f] = Truncate(t, @)]
      /\ Goto(t, "write") /\ final' = final
      /\ UNCHANGED <<catalog, claims, spaces, data, keys, server, served, faults, clashed>>
  BY DEF TruncateTemp, planeVars
<1>2. pc[t] \in Publishing /\ "write" \in Labels
  BY <1>1 DEF Publishing, Labels
<1>3. f \in Files /\ temp[f] \in Entry(f) \cup {NoFile}
  BY <1>2, PersistFact
<1>4. pc'[t] = "write" /\ target'[t] = f
  BY <1>1, <1>2, GotoFact, TypeParts DEF DiskInv
<1> HIDE DEF f
<1> DEFINE e == Truncate(t, temp[f])
<1>5. /\ e \in Entry(f) /\ e.data = Unreadable /\ t \in e.by
      /\ e.by = IF temp[f] = NoFile THEN {t} ELSE temp[f].by \cup {t}
  BY <1>3 DEF Truncate, Entry
<1> HIDE DEF e
<1>6. temp'[f] = e /\ e # NoFile /\ \A g \in Files \ {f} : temp'[g] = temp[g]
  BY <1>1, <1>2, <1>3, <1>5, PersistFact, NothingIsSomething DEF e
<1>7. f \notin clashed => Tidy(t, f)
  BY <1>1, <1>2, <1>3, <1>4, <1>5, <1>6, OnlyWriter, PersistFact DEF Tidy, OneWriter, f
<1>8. FileStep(t, f)
  BY <1>1, <1>2, <1>3, <1>5, <1>6, <1>7, PersistFact DEF FileStep
<1> QED BY <1>1, <1>2, <1>8, PersistGoesOn DEF f

\* What a file can hold after a write.
LEMMA WrittenFact ==
  ASSUME DiskInv, NEW t \in Threads, pc[t] \in Publishing, NEW e \in Entry(target[t]),
         NEW n \in WrittenBy(t, e)
  PROVE  /\ n \in Entry(target[t]) /\ n.by = e.by \ {t}
         /\ n.data # Unreadable => Good(target[t], n.data)
         /\ e.data = Unreadable => n.data # Unreadable
<1>1. /\ Coming(t) \in Content[target[t]] /\ Good(target[t], Coming(t)) /\ Coming(t) # Unreadable
  BY PersistFact
<1>2. PICK d \in {Coming(t)} \cup (IF e.data = Unreadable THEN {} ELSE {Unreadable}) :
        n = [data |-> d, by |-> e.by \ {t}]
  BY DEF WrittenBy
<1>3. d = Coming(t) \/ (d = Unreadable /\ e.data # Unreadable)
  BY <1>2
<1> QED BY <1>1, <1>2, <1>3 DEF Entry

\* The write goes to the file that was opened, wherever it is linked now.
LEMMA WriteTempKeeps ==
  ASSUME DiskInv, NEW t \in Threads, WriteTemp(t)
  PROVE  DiskInv'
<1> DEFINE f == target[t]
<1>1. /\ pc[t] = "write" /\ Goto(t, "rename")
      /\ UNCHANGED <<catalog, claims, spaces, data, keys, server, served, faults, clashed>>
      /\ \/ /\ Writing(t, temp[f]) /\ final' = final
            /\ \E e \in WrittenBy(t, temp[f]) : temp' = [temp EXCEPT ![f] = e]
         \/ /\ Writing(t, final[f]) /\ temp' = temp
            /\ \E e \in WrittenBy(t, final[f]) : final' = [final EXCEPT ![f] = e]
         \/ /\ ~Writing(t, temp[f]) /\ ~Writing(t, final[f])
            /\ final' = final /\ temp' = temp
  BY DEF WriteTemp, planeVars, fileVars
<1>2. pc[t] \in Publishing /\ "rename" \in Labels
  BY <1>1 DEF Publishing, Labels
<1>3. f \in Files /\ temp[f] \in Entry(f) \cup {NoFile} /\ final[f] \in Entry(f)
  BY <1>2, PersistFact
<1>4. pc'[t] = "rename" /\ target'[t] = f
  BY <1>1, <1>2, GotoFact, TypeParts DEF DiskInv
<1>5. f \notin clashed => /\ Writing(t, temp[f]) /\ ~Writing(t, final[f]) /\ temp[f].data = Unreadable
                          /\ temp[f].by \subseteq {t} /\ OneWriter(f)
  BY <1>1, <1>3, OnlyWriter DEF OneWriter, Writing
<1>6. CASE /\ Writing(t, temp[f]) /\ final' = final
           /\ \E e \in WrittenBy(t, temp[f]) : temp' = [temp EXCEPT ![f] = e]
  <2>1. PICK n \in WrittenBy(t, temp[f]) : temp' = [temp EXCEPT ![f] = n]
    BY <1>6
  <2>2. temp[f] \in Entry(f)
    BY <1>3, <1>6 DEF Writing
  <2>3. /\ n \in Entry(f) /\ n.by = temp[f].by \ {t}
        /\ n.data # Unreadable => Good(f, n.data)
        /\ temp[f].data = Unreadable => n.data # Unreadable
    BY <1>2, <2>1, <2>2, WrittenFact
  <2>4. temp'[f] = n /\ \A g \in Files \ {f} : temp'[g] = temp[g]
    BY <1>2, <1>3, <2>1, PersistFact
  <2> HIDE DEF f
  <2>5. f \notin clashed => Tidy(t, f)
    BY <1>4, <1>5, <1>6, <2>3, <2>4 DEF Tidy, OneWriter
  <2>6. FileStep(t, f)
    BY <1>2, <1>3, <1>6, <2>1, <2>3, <2>4, <2>5, PersistFact DEF FileStep
  <2> QED BY <1>1, <1>2, <2>6, PersistGoesOn DEF f
<1>7. CASE /\ Writing(t, final[f]) /\ temp' = temp
           /\ \E e \in WrittenBy(t, final[f]) : final' = [final EXCEPT ![f] = e]
  <2>1. PICK n \in WrittenBy(t, final[f]) : final' = [final EXCEPT ![f] = n]
    BY <1>7
  <2>2. n \in Entry(f) /\ (n.data # Unreadable => Good(f, n.data))
    BY <1>2, <1>3, <2>1, WrittenFact
  <2>3. final'[f] = n /\ \A g \in Files \ {f} : final'[g] = final[g]
    BY <1>2, <1>3, <2>1, PersistFact
  <2> HIDE DEF f
  <2>4. FileStep(t, f)
    BY <1>2, <1>3, <1>5, <1>7, <2>1, <2>2, <2>3, PersistFact DEF FileStep
  <2> QED BY <1>1, <1>2, <2>4, PersistGoesOn DEF f
<1>8. CASE ~Writing(t, temp[f]) /\ ~Writing(t, final[f]) /\ final' = final /\ temp' = temp
  <2> HIDE DEF f
  <2>1. FileStep(t, f)
    BY <1>2, <1>3, <1>5, <1>8, PersistFact DEF FileStep
  <2> QED BY <1>1, <1>2, <2>1, PersistGoesOn DEF f
<1> QED BY <1>1, <1>6, <1>7, <1>8

\* The temporary file takes the place of the published one.
LEMMA MovedIsFileStep ==
  ASSUME DiskInv, NEW t \in Threads, pc[t] = "rename", temp[target[t]] # NoFile,
         final' = [final EXCEPT ![target[t]] = temp[target[t]]],
         temp' = [temp EXCEPT ![target[t]] = NoFile], target'[t] = NoFile
  PROVE  FileStep(t, target[t])
<1> DEFINE f == target[t]
<1>1. pc[t] \in Publishing
  BY DEF Publishing
<1>2. /\ f \in Files /\ temp[f] \in Entry(f) /\ f # NoFile
      /\ temp[f].data # Unreadable => Good(f, temp[f].data)
  BY <1>1, PersistFact
<1>3. /\ final'[f] = temp[f] /\ temp'[f] = NoFile
      /\ \A g \in Files \ {f} : final'[g] = final[g] /\ temp'[g] = temp[g]
      /\ DOMAIN final' = Files /\ DOMAIN temp' = Files
  BY <1>1, <1>2, PersistFact
<1>4. f \notin clashed => temp[f].by = {} /\ temp[f].data # Unreadable
  <2>1. ASSUME f \notin clashed PROVE temp[f].by = {} /\ temp[f].data # Unreadable
    <3>1. OneWriter(f) /\ temp[f].by \subseteq {t}
      BY <1>2, <2>1, OnlyWriter
    <3> QED BY <3>1 DEF OneWriter
  <2> QED BY <2>1
<1> HIDE DEF f
<1>5. target'[t] # f
  BY <1>2
<1>6. f \notin clashed => Tidy(t, f)
  BY <1>3, <1>4, <1>5 DEF Tidy
<1>7. FileStep(t, f)
  BY <1>2, <1>3, <1>6 DEF FileStep
<1> QED BY <1>7 DEF f

\* fs::rename.
LEMMA RenameKeeps ==
  ASSUME DiskInv, NEW t \in Threads, Rename(t)
  PROVE  DiskInv'
<1>1. /\ pc[t] = "rename" /\ temp[target[t]] # NoFile
      /\ final' = [final EXCEPT ![target[t]] = temp[target[t]]]
      /\ temp' = [temp EXCEPT ![target[t]] = NoFile] /\ Published(t)
      /\ UNCHANGED <<catalog, claims, spaces, data, keys, server, served, faults, clashed>>
  BY DEF Rename, planeVars
<1>2. pc[t] \in Publishing
  BY <1>1 DEF Publishing
<1>3. target'[t] = NoFile
  BY <1>1, TypeParts DEF Published, End, DiskInv, ThreadsTyped
<1>4. FileStep(t, target[t])
  BY <1>1, <1>3, MovedIsFileStep
<1> QED BY <1>1, <1>2, <1>4, PublishedKeeps

\* A thread whose persist failed publishes nothing any more.
LEMMA FailedFact ==
  ASSUME DiskInv, NEW t \in Threads, Failed(t)
  PROVE  target'[t] = NoFile
BY TypeParts DEF Failed, End, DiskInv, ThreadsTyped

\* Another request has renamed the temporary file already.
LEMMA RenameFindsNothingKeeps ==
  ASSUME DiskInv, NEW t \in Threads, RenameFindsNothing(t)
  PROVE  DiskInv'
<1> DEFINE f == target[t]
<1>1. /\ pc[t] = "rename" /\ temp[f] = NoFile /\ Failed(t) /\ final' = final /\ temp' = temp
      /\ UNCHANGED <<catalog, claims, spaces, data, keys, server, served, faults, clashed>>
  BY DEF RenameFindsNothing, planeVars, fileVars
<1>2. pc[t] \in Publishing /\ f \in Files /\ target'[t] # f
  BY <1>1, PersistFact, FailedFact DEF Publishing
<1>3. f \notin clashed => OneWriter(f)
  BY <1>2, OnlyWriter
<1> HIDE DEF f
<1>4. f \notin clashed => Tidy(t, f)
  BY <1>1, <1>2, <1>3 DEF Tidy, OneWriter
<1>5. FileStep(t, f)
  BY <1>1, <1>2, <1>4, PersistFact DEF FileStep
<1>6. PlaneTyped'
  BY <1>1, TypeParts DEF DiskInv, PlaneTyped
<1> QED BY <1>1, <1>2, <1>5, <1>6, FailedKeeps DEF f

\* A thread that stops writing a file leaves it as it is.
LEMMA ForgetFact ==
  ASSUME NEW t, NEW f \in Files, NEW e \in Entry(f) \cup {NoFile}
  PROVE  /\ Forget(t, e) \in Entry(f) \cup {NoFile} /\ (Forget(t, e) = NoFile <=> e = NoFile)
         /\ e # NoFile => Forget(t, e).data = e.data /\ Forget(t, e).by = e.by \ {t}
<1>1. CASE e = NoFile
  BY <1>1 DEF Forget
<1>2. CASE e # NoFile
  <2>1. Forget(t, e) \in Entry(f) /\ Forget(t, e).data = e.data /\ Forget(t, e).by = e.by \ {t}
    BY <1>2 DEF Forget, Entry
  <2> QED BY <1>2, <2>1, NothingIsSomething
<1> QED BY <1>1, <1>2

\* An I/O error in persist, before the rename or after it.
LEMMA PersistFailsKeeps ==
  ASSUME DiskInv, NEW t \in Threads, PersistFails(t)
  PROVE  DiskInv'
<1> DEFINE f == target[t]
<1>1. /\ pc[t] \in Publishing /\ faults < MaxFaults /\ faults' = faults + 1 /\ Failed(t)
      /\ \/ /\ final' = [final EXCEPT ![f] = Forget(t, @)]
            /\ temp' = [temp EXCEPT ![f] = Forget(t, @)]
         \/ /\ pc[t] = "rename" /\ temp[f] # NoFile
            /\ final' = [final EXCEPT ![f] = temp[f]]
            /\ temp' = [temp EXCEPT ![f] = NoFile]
      /\ UNCHANGED <<catalog, claims, spaces, data, keys, server, served, clashed>>
  BY DEF PersistFails, planeVars, Publishing
<1>2. PlaneTyped'
  BY <1>1, TypeParts, ControlPlaneAssumption DEF DiskInv, PlaneTyped
<1>3. target'[t] = NoFile
  BY <1>1, FailedFact
<1>4. /\ f \in Files /\ target'[t] # f /\ temp[f] \in Entry(f) \cup {NoFile} /\ final[f] \in Entry(f)
      /\ DOMAIN final = Files /\ DOMAIN temp = Files
      /\ final[f].data # Unreadable => Good(f, final[f].data)
      /\ temp[f] # NoFile /\ temp[f].data # Unreadable => Good(f, temp[f].data)
  BY <1>1, <1>3, PersistFact
<1>5. CASE /\ final' = [final EXCEPT ![f] = Forget(t, @)]
           /\ temp' = [temp EXCEPT ![f] = Forget(t, @)]
  <2>1. /\ final'[f] = Forget(t, final[f]) /\ temp'[f] = Forget(t, temp[f])
        /\ \A g \in Files \ {f} : final'[g] = final[g] /\ temp'[g] = temp[g]
        /\ DOMAIN final' = Files /\ DOMAIN temp' = Files
    BY <1>4, <1>5
  <2> HIDE DEF f
  <2>2. /\ final'[f] \in Entry(f) /\ final'[f].data = final[f].data /\ final'[f].by = final[f].by \ {t}
    <3>1. final[f] \in Entry(f) /\ final[f] # NoFile
      BY <1>4, NothingIsSomething
    <3>2. /\ Forget(t, final[f]) \in Entry(f)
          /\ Forget(t, final[f]).data = final[f].data /\ Forget(t, final[f]).by = final[f].by \ {t}
      BY <3>1 DEF Forget, Entry
    <3> QED BY <2>1, <3>2
  <2>3. /\ temp'[f] \in Entry(f) \cup {NoFile} /\ (temp'[f] = NoFile <=> temp[f] = NoFile)
        /\ temp[f] # NoFile => temp'[f].data = temp[f].data /\ temp'[f].by = temp[f].by \ {t}
    <3>1. /\ Forget(t, temp[f]) \in Entry(f) \cup {NoFile} /\ (Forget(t, temp[f]) = NoFile <=> temp[f] = NoFile)
          /\ temp[f] # NoFile => Forget(t, temp[f]).data = temp[f].data /\ Forget(t, temp[f]).by = temp[f].by \ {t}
      BY <1>4, ForgetFact
    <3> QED BY <2>1, <3>1
  <2>4. f \notin clashed => OneWriter(f) /\ (temp[f] # NoFile => temp[f].by \subseteq {t})
    BY <1>4, OnlyWriter DEF f
  <2>5. f \notin clashed => Tidy(t, f)
    BY <1>4, <2>2, <2>3, <2>4 DEF Tidy, OneWriter
  <2>6. FileStep(t, f)
    BY <1>4, <2>1, <2>2, <2>3, <2>5 DEF FileStep
  <2> QED BY <1>1, <1>2, <2>6, FailedKeeps DEF f
<1>6. CASE /\ pc[t] = "rename" /\ temp[f] # NoFile
           /\ final' = [final EXCEPT ![f] = temp[f]]
           /\ temp' = [temp EXCEPT ![f] = NoFile]
  <2>1. FileStep(t, target[t])
    BY <1>3, <1>6, MovedIsFileStep
  <2> QED BY <1>1, <1>2, <2>1, FailedKeeps
<1> QED BY <1>1, <1>5, <1>6

-----------------------------------------------------------------------------
(* Refusals, collections and keys: the three files stay as they are *)

\* A request that may not go on holds no file open for writing.
LEMMA RefuseKeeps ==
  ASSUME DiskInv, NEW t \in Threads, Refuse(t)
  PROVE  DiskInv'
<1>1. /\ Refused(t) /\ End(t)
      /\ UNCHANGED <<final, temp, catalog, claims, spaces, data, keys, server, served, faults, clashed>>
  BY DEF Refuse, fileVars, planeVars
<1>2. pc[t] # "write"
  BY <1>1 DEF Refused, At
<1>3. PlaneTyped'
  BY <1>1, TypeParts DEF DiskInv, PlaneTyped
<1> QED BY <1>1, <1>2, <1>3, Returns

CollectionLabels == {"scope", "claim", "namespace", "collection", "drop", "unclaim", "unscope"}

\* The next step of a collection request.
LEMMA CollectionGoesOn ==
  ASSUME DiskInv, NEW t \in Threads, NEW label \in CollectionLabels, CollectionStep(t, label),
         pc[t] \in CollectionLabels, PlaneTyped'
  PROVE  DiskInv'
<1>1. Goto(t, label) /\ final' = final /\ temp' = temp /\ server' = server /\ clashed' = clashed
  BY DEF CollectionStep, fileVars
<1>2. label \in Labels \ Publishing /\ pc[t] \notin Publishing
  BY DEF CollectionLabels, Labels, Publishing
<1>3. pc'[t] = label /\ call' = call /\ store' = store /\ target' = target
  BY <1>1, <1>2, GotoFact, TypeParts DEF DiskInv
<1>4. Phase(t)
  BY ThreadFact
<1>5. Phase(t)'
  BY <1>1, <1>3, <1>4 DEF Phase, CollectionLabels, Publishing
<1> QED BY <1>1, <1>2, <1>5, GoesOn

\* The project a collection request names.
LEMMA CollectionFact ==
  ASSUME DiskInv, NEW t \in Threads, pc[t] \in CollectionLabels
  PROVE  /\ call[t].project \in Projects /\ PlaneTyped /\ pc[t] # "write"
         /\ catalog \subseteq Projects /\ claims \subseteq Projects /\ spaces \subseteq Projects
         /\ data \subseteq Projects /\ keys \subseteq Projects
<1>1. call[t] \in Calls
  BY ThreadFact DEF Phase, CollectionLabels
<1>2. PlaneTyped
  BY TypeParts DEF DiskInv
<1> QED BY <1>1, <1>2, CallFact DEF PlaneTyped, CollectionLabels

\* What PlaneTyped asks of the catalog, the claims, the directories, the data and the keys.
LEMMA PlaneStep ==
  ASSUME PlaneTyped, server' = server, served' = served,
         faults' = faults \/ (faults < MaxFaults /\ faults' = faults + 1),
         catalog' \subseteq Projects, claims' \subseteq Projects, spaces' \subseteq Projects,
         data' \subseteq Projects, keys' \subseteq Projects
  PROVE  PlaneTyped'
<1>1. faults' \in 0..MaxFaults
  BY ControlPlaneAssumption DEF PlaneTyped
<1> QED BY <1>1 DEF PlaneTyped

LEMMA CreateScopeKeeps ==
  ASSUME DiskInv, NEW t \in Threads, CreateScope(t)
  PROVE  DiskInv'
<1>1. /\ pc[t] = "scope" /\ catalog' = catalog \cup {call[t].project} /\ CollectionStep(t, "claim")
      /\ server' = server /\ served' = served
      /\ UNCHANGED <<claims, spaces, data, keys, faults>>
  BY DEF CreateScope, CollectionStep
<1>2. pc[t] \in CollectionLabels /\ "claim" \in CollectionLabels
  BY <1>1 DEF CollectionLabels
<1>3. PlaneTyped'
  BY <1>1, <1>2, CollectionFact, PlaneStep
<1> QED BY <1>1, <1>2, <1>3, CollectionGoesOn

LEMMA ClaimCollectionKeeps ==
  ASSUME DiskInv, NEW t \in Threads, ClaimCollection(t)
  PROVE  DiskInv'
<1>1. /\ pc[t] = "claim" /\ server' = server /\ served' = served
      /\ \/ claims' = claims \cup {call[t].project} /\ CollectionStep(t, "namespace")
         \/ claims' = claims /\ CollectionStep(t, "unscope")
      /\ UNCHANGED <<catalog, spaces, data, keys, faults>>
  BY DEF ClaimCollection, CollectionStep
<1>2. pc[t] \in CollectionLabels /\ "namespace" \in CollectionLabels /\ "unscope" \in CollectionLabels
  BY <1>1 DEF CollectionLabels
<1>3. PlaneTyped'
  BY <1>1, <1>2, CollectionFact, PlaneStep
<1> QED BY <1>1, <1>2, <1>3, CollectionGoesOn

LEMMA CreateNamespaceKeeps ==
  ASSUME DiskInv, NEW t \in Threads, CreateNamespace(t)
  PROVE  DiskInv'
<1>1. /\ pc[t] = "namespace" /\ spaces' = spaces \cup {call[t].project} /\ CollectionStep(t, "collection")
      /\ server' = server /\ served' = served
      /\ UNCHANGED <<catalog, claims, data, keys, faults>>
  BY DEF CreateNamespace, CollectionStep
<1>2. pc[t] \in CollectionLabels /\ "collection" \in CollectionLabels
  BY <1>1 DEF CollectionLabels
<1>3. PlaneTyped'
  BY <1>1, <1>2, CollectionFact, PlaneStep
<1> QED BY <1>1, <1>2, <1>3, CollectionGoesOn

LEMMA CreateDataKeeps ==
  ASSUME DiskInv, NEW t \in Threads, CreateData(t)
  PROVE  DiskInv'
<1>1. /\ pc[t] = "collection" /\ data' = data \cup {call[t].project} /\ End(t)
      /\ UNCHANGED <<final, temp, catalog, claims, spaces, keys, server, served, faults, clashed>>
  BY DEF CreateData, fileVars
<1>2. pc[t] \in CollectionLabels
  BY <1>1 DEF CollectionLabels
<1>3. PlaneTyped' /\ pc[t] # "write"
  BY <1>1, <1>2, CollectionFact, PlaneStep
<1> QED BY <1>1, <1>3, Returns

LEMMA CreateDataFailsKeeps ==
  ASSUME DiskInv, NEW t \in Threads, CreateDataFails(t)
  PROVE  DiskInv'
<1>1. /\ pc[t] \in {"namespace", "collection"} /\ faults < MaxFaults /\ faults' = faults + 1
      /\ claims' = claims \ {call[t].project} /\ spaces' = spaces \ {call[t].project}
      /\ CollectionStep(t, "unscope") /\ server' = server /\ served' = served
      /\ UNCHANGED <<catalog, data, keys>>
  BY DEF CreateDataFails, CollectionStep
<1>2. pc[t] \in CollectionLabels /\ "unscope" \in CollectionLabels
  BY <1>1 DEF CollectionLabels
<1>3. PlaneTyped'
  BY <1>1, <1>2, CollectionFact, PlaneStep
<1> QED BY <1>1, <1>2, <1>3, CollectionGoesOn

LEMMA DeleteDataKeeps ==
  ASSUME DiskInv, NEW t \in Threads, DeleteData(t)
  PROVE  DiskInv'
<1>1. /\ pc[t] = "drop" /\ data' = data \ {call[t].project} /\ spaces' = spaces \ {call[t].project}
      /\ CollectionStep(t, "unclaim") /\ server' = server /\ served' = served
      /\ UNCHANGED <<catalog, claims, keys, faults>>
  BY DEF DeleteData, CollectionStep
<1>2. pc[t] \in CollectionLabels /\ "unclaim" \in CollectionLabels
  BY <1>1 DEF CollectionLabels
<1>3. PlaneTyped'
  BY <1>1, <1>2, CollectionFact, PlaneStep
<1> QED BY <1>1, <1>2, <1>3, CollectionGoesOn

LEMMA DeleteDataFailsKeeps ==
  ASSUME DiskInv, NEW t \in Threads, DeleteDataFails(t)
  PROVE  DiskInv'
<1>1. /\ pc[t] = "drop" /\ faults < MaxFaults /\ faults' = faults + 1
      /\ data' \subseteq data /\ spaces' \subseteq spaces /\ End(t)
      /\ UNCHANGED <<final, temp, catalog, claims, keys, server, served, clashed>>
  BY DEF DeleteDataFails, fileVars
<1>2. pc[t] \in CollectionLabels
  BY <1>1 DEF CollectionLabels
<1>3. PlaneTyped' /\ pc[t] # "write"
  BY <1>1, <1>2, CollectionFact, PlaneStep
<1> QED BY <1>1, <1>3, Returns

LEMMA RemoveClaimKeeps ==
  ASSUME DiskInv, NEW t \in Threads, RemoveClaim(t)
  PROVE  DiskInv'
<1>1. /\ pc[t] = "unclaim" /\ claims' \subseteq claims
      /\ UNCHANGED <<catalog, spaces, data, keys, server, served, faults>>
      /\ \/ CollectionStep(t, "unscope")
         \/ End(t) /\ UNCHANGED <<final, temp, clashed>>
  BY DEF RemoveClaim, CollectionStep, fileVars
<1>2. pc[t] \in CollectionLabels /\ "unscope" \in CollectionLabels
  BY <1>1 DEF CollectionLabels
<1>3. PlaneTyped' /\ pc[t] # "write"
  BY <1>1, <1>2, CollectionFact, PlaneStep
<1>4. CASE CollectionStep(t, "unscope")
  BY <1>2, <1>3, <1>4, CollectionGoesOn
<1>5. CASE End(t) /\ UNCHANGED <<final, temp, clashed>>
  BY <1>1, <1>3, <1>5, Returns
<1> QED BY <1>1, <1>4, <1>5

LEMMA RemoveScopeKeeps ==
  ASSUME DiskInv, NEW t \in Threads, RemoveScope(t)
  PROVE  DiskInv'
<1>1. /\ pc[t] = "unscope" /\ catalog' = catalog \ {call[t].project} /\ End(t)
      /\ UNCHANGED <<final, temp, claims, spaces, data, keys, server, served, faults, clashed>>
  BY DEF RemoveScope, fileVars
<1>2. pc[t] \in CollectionLabels
  BY <1>1 DEF CollectionLabels
<1>3. PlaneTyped' /\ pc[t] # "write"
  BY <1>1, <1>2, CollectionFact, PlaneStep
<1> QED BY <1>1, <1>3, Returns

\* Steps that touch neither threads nor files.
LEMMA OnlyPlane ==
  ASSUME DiskInv, PlaneTyped', UNCHANGED <<final, temp, pc, call, store, target, next, server, clashed>>
  PROVE  DiskInv'
<1>1. TypeOK'
  BY TypeParts DEF DiskInv, FilesTyped, ThreadsTyped
<1>2. GoodFiles'
  BY DEF DiskInv, GoodFiles
<1>3. ASSUME NEW t \in Threads PROVE GoodCopies(t)' /\ Phase(t)'
  <2>1. GoodCopies(t)'
    BY DEF DiskInv, GoodCopies, Coming
  <2>2. Phase(t)'
    BY DEF DiskInv, Phase
  <2> QED BY <2>1, <2>2
<1>4. ASSUME NEW f \in Files, f \notin clashed' PROVE OneWriter(f)'
  BY <1>4 DEF DiskInv, OneWriter, Holds
<1> QED BY <1>1, <1>2, <1>3, <1>4 DEF DiskInv

LEMMA IssueKeyKeeps ==
  ASSUME DiskInv, NEW p \in Keyed, IssueKey(p)
  PROVE  DiskInv'
<1>1. /\ keys' = keys \cup {p}
      /\ UNCHANGED <<final, temp, pc, call, store, target, next, catalog, claims, spaces, data,
                     server, served, faults, clashed>>
  BY DEF IssueKey, fileVars
<1>2. PlaneTyped'
  BY <1>1, TypeParts, ControlPlaneAssumption DEF DiskInv, PlaneTyped
<1> QED BY <1>1, <1>2, OnlyPlane

-----------------------------------------------------------------------------
(* The server stops, crashes and starts *)

\* No request runs any more, and the files are as good as before.
LEMMA AllIdle ==
  ASSUME DiskInv, FilesTyped', ThreadsTyped', PlaneTyped', clashed' = clashed, GoodFiles',
         \A t \in Threads : /\ pc'[t] = "idle" /\ call'[t] = NoCall
                            /\ store'[t] = Absent /\ target'[t] = NoFile,
         \A f \in Files : f \notin clashed =>
           /\ final'[f].by = {} /\ final'[f].data # Unreadable
           /\ temp'[f] # NoFile => temp'[f].by = {}
  PROVE  DiskInv'
<1>1. TypeOK'
  BY TypeParts DEF DiskInv
<1>2. ASSUME NEW t \in Threads PROVE GoodCopies(t)' /\ Phase(t)'
  BY NothingIsSomething, ContentIs DEF GoodCopies, Phase, Publishing
<1>3. ASSUME NEW f \in Files, f \notin clashed' PROVE OneWriter(f)'
  <2>1. \A t \in Threads : ~Holds(t, f)'
    BY NothingIsSomething DEF Holds
  <2> QED BY <1>3, <2>1, NothingIsSomething DEF OneWriter
<1> QED BY <1>1, <1>2, <1>3 DEF DiskInv

\* A descriptor that is closed without a write.
LEMMA UnwrittenFact ==
  ASSUME NEW f \in Files, NEW e \in Entry(f) \cup {NoFile}
  PROVE  /\ Unwritten(e) \in Entry(f) \cup {NoFile} /\ (Unwritten(e) = NoFile <=> e = NoFile)
         /\ e # NoFile => Unwritten(e).data = e.data /\ Unwritten(e).by = {}
<1>1. CASE e = NoFile
  BY <1>1 DEF Unwritten
<1>2. CASE e # NoFile
  <2>1. Unwritten(e) \in Entry(f) /\ Unwritten(e).data = e.data /\ Unwritten(e).by = {}
    BY <1>2 DEF Unwritten, Entry
  <2> QED BY <1>2, <2>1, NothingIsSomething
<1> QED BY <1>1, <1>2

LEMMA HaltKeeps ==
  ASSUME DiskInv, Halt, faults' = faults \/ (faults < MaxFaults /\ faults' = faults + 1)
  PROVE  DiskInv'
<1>1. /\ server' = "down"
      /\ final' = [f \in Files |-> Unwritten(final[f])]
      /\ temp' = [f \in Files |-> Unwritten(temp[f])]
      /\ pc' = [t \in Threads |-> "idle"]
      /\ call' = [t \in Threads |-> NoCall]
      /\ store' = [t \in Threads |-> Absent]
      /\ target' = [t \in Threads |-> NoFile]
      /\ next' = [t \in Threads |-> Absent]
      /\ UNCHANGED <<catalog, claims, spaces, data, keys, served, clashed>>
  BY DEF Halt, planeVars
<1>2. ThreadsTyped'
  BY <1>1 DEF ThreadsTyped, Labels
<1>3. PlaneTyped'
  <2>1. PlaneTyped /\ faults' \in 0..MaxFaults
    BY TypeParts, ControlPlaneAssumption DEF DiskInv, PlaneTyped
  <2> QED BY <1>1, <2>1 DEF PlaneTyped
<1>4. ASSUME NEW f \in Files
      PROVE  /\ final'[f] \in Entry(f) /\ final'[f].data = final[f].data /\ final'[f].by = {}
             /\ temp'[f] \in Entry(f) \cup {NoFile} /\ (temp'[f] = NoFile <=> temp[f] = NoFile)
             /\ temp[f] # NoFile => temp'[f].data = temp[f].data /\ temp'[f].by = {}
  <2>1. final[f] \in Entry(f) /\ final[f] # NoFile /\ temp[f] \in Entry(f) \cup {NoFile}
    BY TypeParts, NothingIsSomething DEF DiskInv, FilesTyped
  <2>2. final'[f] = Unwritten(final[f]) /\ temp'[f] = Unwritten(temp[f])
    BY <1>1
  <2>3. /\ Unwritten(temp[f]) \in Entry(f) \cup {NoFile} /\ (Unwritten(temp[f]) = NoFile <=> temp[f] = NoFile)
        /\ temp[f] # NoFile => Unwritten(temp[f]).data = temp[f].data /\ Unwritten(temp[f]).by = {}
    BY <2>1, UnwrittenFact
  <2>4. /\ Unwritten(final[f]) \in Entry(f)
        /\ Unwritten(final[f]).data = final[f].data /\ Unwritten(final[f]).by = {}
    BY <2>1 DEF Unwritten, Entry
  <2> QED BY <2>2, <2>3, <2>4
<1>5. FilesTyped'
  BY <1>1, <1>4 DEF FilesTyped
<1>6. GoodFiles'
  BY <1>1, <1>4 DEF DiskInv, GoodFiles
<1>7. \A t \in Threads : /\ pc'[t] = "idle" /\ call'[t] = NoCall
                         /\ store'[t] = Absent /\ target'[t] = NoFile
  BY <1>1
<1>8. \A f \in Files : f \notin clashed =>
        /\ final'[f].by = {} /\ final'[f].data # Unreadable
        /\ temp'[f] # NoFile => temp'[f].by = {}
  BY <1>4 DEF DiskInv, OneWriter
<1> QED BY <1>1, <1>2, <1>3, <1>5, <1>6, <1>7, <1>8, AllIdle

\* While the server is not up no request runs.
LEMMA DownIsIdle ==
  ASSUME DiskInv, server # "up"
  PROVE  /\ \A t \in Threads : /\ pc[t] = "idle" /\ call[t] = NoCall
                               /\ store[t] = Absent /\ target[t] = NoFile
         /\ \A f \in Files : f \notin clashed =>
              /\ final[f].by = {} /\ final[f].data # Unreadable
              /\ temp[f] # NoFile => temp[f].by = {}
<1>1. \A t \in Threads : /\ pc[t] = "idle" /\ call[t] = NoCall
                         /\ store[t] = Absent /\ target[t] = NoFile
  BY DEF DiskInv, Phase
<1>2. \A f \in Files : temp[f] # NoFile => temp[f].by \subseteq Threads
  BY TypeParts DEF DiskInv, FilesTyped, Entry
<1>3. ASSUME NEW f \in Files, f \notin clashed
      PROVE  /\ final[f].by = {} /\ final[f].data # Unreadable
             /\ temp[f] # NoFile => temp[f].by = {}
  <2>1. OneWriter(f)
    BY <1>3 DEF DiskInv
  <2> QED BY <1>1, <1>2, <2>1 DEF OneWriter
<1> QED BY <1>1, <1>3

\* The content a first start writes: the default organization and its project, nothing else.
LEMMA FirstBootGood ==
  /\ EmptyContent["cp"] \in ControlPlaneState
  /\ BootstrapDefault(EmptyContent["cp"]) \in ControlPlaneState
  /\ GoodPlane(BootstrapDefault(EmptyContent["cp"]))
<1> DEFINE s == EmptyContent["cp"]
           s1 == PutOrg(s, DefaultOrg, DefaultPair.org)
           n == PutProject(s1, DefaultProject, DefaultPair.project)
<1>1. /\ s \in ControlPlaneState
      /\ \A o \in Orgs : s.orgs[o] = Absent
      /\ \A p \in Projects : s.projects[p] = Absent
  BY DEF EmptyContent, ControlPlaneState
<1>2. DefaultOrg \in Orgs /\ DefaultProject \in Projects /\ DefaultSlug \in Slugs
  BY ControlPlaneAssumption
<1>3. /\ DefaultPair.org \in Organization /\ DefaultPair.project \in Project
      /\ DefaultPair.project.org = DefaultOrg
  BY <1>2 DEF DefaultPair, Organization, Project, Lifecycles
<1>4. DefaultPair.org # Absent /\ DefaultPair.project # Absent
  BY <1>3, NothingIsSomething
<1> HIDE DEF s
<1>5. /\ s1 \in ControlPlaneState /\ s1.projects = s.projects
      /\ \A x \in Orgs : s1.orgs[x] = IF x = DefaultOrg THEN DefaultPair.org ELSE s.orgs[x]
  BY <1>1, <1>2, <1>3, PutOrgFact
<1> HIDE DEF s1
<1>6. /\ n \in ControlPlaneState /\ n.orgs = s1.orgs
      /\ \A x \in Projects : n.projects[x] = IF x = DefaultProject THEN DefaultPair.project ELSE s1.projects[x]
  BY <1>2, <1>3, <1>5, PutProjectFact
<1>7. BootstrapDefault(s) = n
  BY <1>1, <1>2 DEF BootstrapDefault, NoDefaults, s1
<1> HIDE DEF n
<1>8. /\ \A x \in Orgs : n.orgs[x] # Absent <=> x = DefaultOrg
      /\ \A x \in Projects : n.projects[x] # Absent <=> x = DefaultProject
      /\ n.projects[DefaultProject].org = DefaultOrg
  BY <1>1, <1>2, <1>3, <1>4, <1>5, <1>6
<1>9. GoodPlane(n)
  BY <1>2, <1>8 DEF GoodPlane, ValidState, OrgSlugFree, ProjectSlugFree
<1> QED BY <1>1, <1>6, <1>7, <1>9 DEF s

\* Start-up: the default pair is there already, or the file was empty and gets it.
LEMMA StartKeeps ==
  ASSUME DiskInv, Start
  PROVE  DiskInv'
<1>1. /\ server = "down" /\ StartAccepted /\ server' = "up"
      /\ final' = [final EXCEPT !["cp"].data = BootstrapDefault(@)]
      /\ spaces' = spaces \cup (catalog \cap {DefaultProject})
      /\ UNCHANGED <<temp, pc, call, store, target, next, catalog, claims, data, keys, served,
                     faults, clashed>>
  BY DEF Start
<1>2. FilesTyped /\ ThreadsTyped /\ PlaneTyped /\ GoodFiles /\ "cp" \in Files
  BY TypeParts, ContentIs DEF DiskInv
<1>3. ThreadsTyped'
  BY <1>1, <1>2 DEF ThreadsTyped
<1>4. PlaneTyped'
  BY <1>1, <1>2, ControlPlaneAssumption DEF PlaneTyped
<1>5. Cp # Unreadable /\ Cp \in ControlPlaneState /\ (GoodPlane(Cp) \/ Cp = EmptyContent["cp"])
  <2>1. Cp # Unreadable /\ Cp \in ControlPlaneState
    BY <1>1, ReadsAreGood DEF StartAccepted
  <2> QED BY <1>2, <2>1 DEF GoodFiles, Good, Cp
<1> DEFINE n == BootstrapDefault(Cp)
<1>6. n \in ControlPlaneState /\ GoodPlane(n)
  <2>1. CASE GoodPlane(Cp)
    BY <1>5, <2>1 DEF BootstrapDefault, NoDefaults, GoodPlane
  <2>2. CASE Cp = EmptyContent["cp"]
    BY <2>2, FirstBootGood
  <2> QED BY <1>5, <2>1, <2>2
<1>7. n # Unreadable /\ Good("cp", n) /\ n \in Content["cp"]
  BY <1>6, NothingIsSomething, ContentIs DEF Good
<1>8. /\ DOMAIN final' = Files /\ final'["cp"] \in Entry("cp")
      /\ final'["cp"].data = n /\ final'["cp"].by = final["cp"].by
      /\ \A f \in Files \ {"cp"} : final'[f] = final[f]
  <2>1. final["cp"] \in Entry("cp") /\ DOMAIN final = Files
    BY <1>2 DEF FilesTyped
  <2>2. final' = [final EXCEPT !["cp"] = [final["cp"] EXCEPT !.data = n]]
    BY <1>1 DEF Cp
  <2> HIDE DEF n
  <2>3. /\ [final["cp"] EXCEPT !.data = n] \in Entry("cp")
        /\ [final["cp"] EXCEPT !.data = n].data = n
        /\ [final["cp"] EXCEPT !.data = n].by = final["cp"].by
    BY <1>7, <2>1 DEF Entry
  <2> QED BY <1>2, <2>1, <2>2, <2>3
<1> HIDE DEF n
<1>9. FilesTyped'
  BY <1>1, <1>2, <1>8 DEF FilesTyped
<1>10. GoodFiles'
  BY <1>1, <1>2, <1>7, <1>8 DEF GoodFiles
<1>11. /\ \A t \in Threads : /\ pc[t] = "idle" /\ call[t] = NoCall
                             /\ store[t] = Absent /\ target[t] = NoFile
       /\ \A f \in Files : f \notin clashed =>
            /\ final[f].by = {} /\ final[f].data # Unreadable
            /\ temp[f] # NoFile => temp[f].by = {}
  BY <1>1, DownIsIdle
<1>12. \A f \in Files : f \notin clashed =>
         /\ final'[f].by = {} /\ final'[f].data # Unreadable
         /\ temp'[f] # NoFile => temp'[f].by = {}
  BY <1>1, <1>7, <1>8, <1>11
<1> QED BY <1>1, <1>3, <1>4, <1>9, <1>10, <1>11, <1>12, AllIdle

\* Start-up refuses: nothing changes.
LEMMA StartRefusedKeeps ==
  ASSUME DiskInv, StartRefused
  PROVE  DiskInv'
<1>1. /\ server = "down" /\ server' = "refused"
      /\ UNCHANGED <<final, temp, catalog, claims, spaces, data, keys, pc, call, store, target, next,
                     served, faults, clashed>>
  BY DEF StartRefused, fileVars, planeVars
<1>2. FilesTyped /\ ThreadsTyped /\ PlaneTyped /\ GoodFiles
  BY TypeParts DEF DiskInv
<1>3. FilesTyped' /\ ThreadsTyped'
  BY <1>1, <1>2 DEF FilesTyped, ThreadsTyped
<1>4. PlaneTyped'
  BY <1>1, <1>2 DEF PlaneTyped
<1>5. GoodFiles'
  BY <1>1, <1>2 DEF GoodFiles
<1> QED BY <1>1, <1>3, <1>4, <1>5, DownIsIdle, AllIdle

-----------------------------------------------------------------------------
(* The theorems *)

\* A data directory nobody has used satisfies the invariant.
LEMMA InitEstablishes == Init => DiskInv
<1> SUFFICES ASSUME Init PROVE DiskInv
  OBVIOUS
<1>1. \A f \in Files : EmptyContent[f] \in Content[f]
  <2>1. EmptyContent["om"] \in OrgMembers
    BY DEF EmptyContent, OrgMembers
  <2>2. EmptyContent["pm"] \in ProjectMembers
    BY DEF EmptyContent, ProjectMembers
  <2> QED BY <2>1, <2>2, FirstBootGood, ContentIs
<1>2. \A f \in Files : final[f] = [data |-> EmptyContent[f], by |-> {}] /\ temp[f] = NoFile
  BY DEF Init
<1>3. \A f \in Files : /\ final[f] \in Entry(f) /\ final[f].data = EmptyContent[f] /\ final[f].by = {}
                       /\ final[f].data # Unreadable
  <2>1. ASSUME NEW f \in Files
        PROVE  /\ final[f] \in Entry(f) /\ final[f].data = EmptyContent[f] /\ final[f].by = {}
    <3>1. EmptyContent[f] \in Content[f] \cup {Unreadable} /\ {} \in SUBSET Threads
      BY <1>1
    <3>2. final[f] = [data |-> EmptyContent[f], by |-> {}]
      BY <1>2
    <3> QED BY <3>1, <3>2 DEF Entry
  <2> QED BY <1>1, <2>1, NothingIsSomething
<1>4. \A t \in Threads : /\ pc[t] = "idle" /\ call[t] = NoCall
                         /\ store[t] = Absent /\ target[t] = NoFile
  BY DEF Init
<1>5. TypeOK
  <2>1. FilesTyped
    BY <1>2, <1>3 DEF Init, FilesTyped
  <2>2. ThreadsTyped
    BY DEF Init, ThreadsTyped, Labels
  <2>3. PlaneTyped /\ clashed \subseteq Files
    BY ControlPlaneAssumption DEF Init, PlaneTyped
  <2> QED BY <2>1, <2>2, <2>3, TypeParts
<1>6. GoodFiles
  <2>1. Good("om", EmptyContent["om"])
    BY ControlPlaneAssumption DEF Good, GoodOrgMembers, HasOwner, NoMembers, EmptyContent
  <2>2. Good("pm", EmptyContent["pm"])
    BY DEF Good, GoodProjectMembers, HasOwner, NoMembers, EmptyContent
  <2>3. server # "up"
    BY DEF Init
  <2> QED BY <1>2, <1>3, <2>1, <2>2, <2>3, ContentIs DEF GoodFiles
<1>7. ASSUME NEW t \in Threads PROVE GoodCopies(t) /\ Phase(t)
  BY <1>4, NothingIsSomething, ContentIs DEF GoodCopies, Phase, Publishing
<1>8. ASSUME NEW f \in Files PROVE OneWriter(f)
  BY <1>2, <1>3, <1>4, NothingIsSomething DEF OneWriter, Holds
<1> QED BY <1>5, <1>6, <1>7, <1>8 DEF DiskInv

\* Every step of a request keeps it.
LEMMA RequestKeeps ==
  ASSUME DiskInv, NEW t \in Threads, Request(t)
  PROVE  DiskInv'
<1>1. ASSUME NEW c \in Calls, Begin(t, c) PROVE DiskInv'
  BY <1>1, BeginKeeps
<1>2. CASE Operation(t)
  BY <1>2, CreateOrganizationKeeps, UpdateOrganizationKeeps, DeleteOrganizationKeeps,
     CreateProjectKeeps, UpdateProjectKeeps, DeleteProjectKeeps, SetOrganizationRoleKeeps,
     RemoveOrganizationRoleKeeps, SetProjectRoleKeeps, RemoveProjectRoleKeeps DEF Operation
<1>3. CASE FollowUp(t)
  BY <1>3, BootstrapOrgOwnerKeeps, BootstrapProjectOwnerKeeps, BootstrapRefusedKeeps, RollbackKeeps,
     PurgeOrganizationKeeps, PurgeProjectKeeps DEF FollowUp
<1>4. CASE Persist(t)
  BY <1>4, RemoveTempKeeps, CreateTempKeeps, TruncateTempKeeps, WriteTempKeeps, RenameKeeps,
     RenameFindsNothingKeeps, PersistFailsKeeps DEF Persist
<1>5. CASE Collection(t)
  BY <1>5, CreateScopeKeeps, ClaimCollectionKeeps, CreateNamespaceKeeps, CreateDataKeeps,
     CreateDataFailsKeeps, DeleteDataKeeps, DeleteDataFailsKeeps, RemoveClaimKeeps, RemoveScopeKeeps
     DEF Collection
<1>6. CASE AuthorizeOrganization(t) \/ LoadProject(t) \/ AuthorizeProjectManagement(t) \/ Refuse(t)
  BY <1>6, AuthorizeOrganizationKeeps, LoadProjectKeeps, AuthorizeProjectManagementKeeps, RefuseKeeps
<1> QED BY <1>1, <1>2, <1>3, <1>4, <1>5, <1>6 DEF Request

\* Every step of the system keeps it.
LEMMA NextKeeps == DiskInv /\ [Next]_vars => DiskInv'
<1> SUFFICES ASSUME DiskInv, [Next]_vars PROVE DiskInv'
  OBVIOUS
<1>1. ASSUME NEW t \in Threads, Request(t) PROVE DiskInv'
  BY <1>1, RequestKeeps
<1>2. ASSUME NEW p \in Keyed, IssueKey(p) PROVE DiskInv'
  BY <1>2, IssueKeyKeeps
<1>3. CASE Stop \/ Crash
  BY <1>3, HaltKeeps DEF Stop, Crash
<1>4. CASE Start
  BY <1>4, StartKeeps
<1>5. CASE StartRefused
  BY <1>5, StartRefusedKeeps
<1>6. CASE UNCHANGED vars
  <2>1. /\ UNCHANGED <<final, temp, pc, call, store, target, next, server, clashed>>
        /\ UNCHANGED <<catalog, claims, spaces, data, keys, served, faults>>
    BY <1>6 DEF vars
  <2>2. PlaneTyped'
    BY <2>1, TypeParts DEF DiskInv, PlaneTyped
  <2> QED BY <2>1, <2>2, OnlyPlane
<1> QED BY <1>1, <1>2, <1>3, <1>4, <1>5, <1>6 DEF Next

\* What DiskInv says of the published files.
LEMMA EmptyIsValid == ValidState(EmptyContent["cp"])
BY DEF ValidState, EmptyContent

LEMMA DiskInvImplies == DiskInv => ControlPlaneInv /\ OwnersRetained
<1> SUFFICES ASSUME DiskInv PROVE ControlPlaneInv /\ OwnersRetained
  OBVIOUS
<1>1. TypeOK
  BY DEF DiskInv
<1>2. SnapshotsConsistent
  <2>1. ASSUME Cp # Unreadable PROVE GoodPlane(Cp) \/ Cp = EmptyContent["cp"]
    BY <2>1, ContentIs DEF DiskInv, GoodFiles, Good, Cp
  <2> QED BY <2>1, EmptyIsValid DEF SnapshotsConsistent, GoodPlane
<1>3. PublishedReadable
  BY DEF DiskInv, OneWriter, PublishedReadable
<1>4. OwnersRetained
  BY ReadsAreGood DEF OwnersRetained, GoodOrgMembers, GoodProjectMembers
<1> QED BY <1>1, <1>2, <1>3, <1>4 DEF ControlPlaneInv

\* Requests that overlap at every file operation, fail there or are cut short by a crash never
\* publish a control-plane file that breaks its own rules, and only two that change the same file
\* at once can publish one that cannot be read.
THEOREM ControlPlaneKeepsDisk == Spec => []ControlPlaneInv
<1>1. Init => DiskInv
  BY InitEstablishes
<1>2. DiskInv /\ [Next]_vars => DiskInv'
  BY NextKeeps
<1>3. DiskInv => ControlPlaneInv
  BY DiskInvImplies
<1> QED BY <1>1, <1>2, <1>3, PTL DEF Spec

\* Nor do they ever leave an organization or a project with members and no owner.
THEOREM ControlPlaneKeepsOwners == Spec => []OwnersRetained
<1>1. Init => DiskInv
  BY InitEstablishes
<1>2. DiskInv /\ [Next]_vars => DiskInv'
  BY NextKeeps
<1>3. DiskInv => OwnersRetained
  BY DiskInvImplies
<1> QED BY <1>1, <1>2, <1>3, PTL DEF Spec

-----------------------------------------------------------------------------
(* Agreement of the files *)

\* An organization has its record in the control-plane file and its members in
\* organization-memberships.json, a project in project-memberships.json.
Memberships == {"om", "pm"}
Resources(f) == IF f = "om" THEN Orgs ELSE Projects
Bootstrapped(f) == IF f = "om" THEN DefaultOrg ELSE DefaultProject
Creation(f) == IF f = "om" THEN "create_org" ELSE "create_project"
Deletion(f) == IF f = "om" THEN "delete_org" ELSE "delete_project"
Named(c, f) == IF f = "om" THEN c.org ELSE c.project
Exists(s, f, x) == IF f = "om" THEN s.orgs[x] # Absent ELSE s.projects[x] # Absent
Peopled(d, x) == ~NoMembers(d[x])

\* What a request makes of the control-plane file it has read: only creations and deletions add
\* and remove, each only what it names; only a project that is being deleted is removed.
Change(c, s, n) ==
  /\ LifeKept(s, n)
  /\ \A f \in Memberships : \A x \in Resources(f) :
       \/ Exists(n, f, x) <=> Exists(s, f, x)
       \/ x = Named(c, f) /\ c.kind \in {Creation(f), Deletion(f)}
  /\ \A f \in Memberships : c.kind = Deletion(f) => ~Exists(n, f, Named(c, f))
  /\ c.kind = "delete_project" =>
       s.projects[c.project] # Absent /\ s.projects[c.project].life = "deleting"

\* And of a membership file: a creation gives what it names members, a deletion takes them away,
\* nothing else turns an empty membership into one that is not, or back.
Peopling(c, f, old, new) ==
  \A x \in Resources(f) :
    Peopled(new, x) <=>
      \/ x = Named(c, f) /\ c.kind = Creation(f)
      \/ ~(x = Named(c, f) /\ c.kind \in {Creation(f), Deletion(f)}) /\ Peopled(old, x)

\* As long as no two requests had a file open, the copy of the request that has it is current,
\* and what it renames is what it has decided on.
Fresh(t) ==
  /\ "cp" \notin clashed /\ store[t] # Absent =>
       /\ store[t] = Cp
       /\ target[t] = "cp" => Change(call[t], store[t], Coming(t))
  /\ \A f \in Memberships : f \notin clashed /\ target[t] = f =>
       Peopling(call[t], f, final[f].data, Coming(t))
  /\ \A f \in Files : f \notin clashed /\ target[t] = f =>
       /\ pc[t] = "create" => temp[f] = NoFile
       /\ pc[t] = "rename" => temp[f] # NoFile /\ temp[f].data = Coming(t)
  /\ \A f \in Memberships : target[t] = f /\ call[t].kind \in Creations =>
       call[t].kind = Creation(f)

\* The catalog entry of a collection that comes or goes is held by one request, which takes the
\* entry last and gives it up last.
Handling == {"claim", "namespace", "collection", "unclaim", "unscope"}
Handler(t) ==
  LET p == call[t].project
  IN  pc[t] \in Handling =>
        /\ p \in catalog /\ p \notin data
        /\ pc[t] \in {"claim", "unscope"} => p \notin claims
        /\ pc[t] \in {"claim", "unscope", "namespace", "unclaim"} => p \notin spaces
        /\ pc[t] = "collection" => p \in spaces
CatalogInv ==
  /\ CatalogCovers
  /\ \A t \in Threads : Handler(t)
  /\ \A t, u \in Threads : /\ pc[t] \in Handling /\ pc[u] \in Handling
                           /\ call[t].project = call[u].project
                           => t = u

\* No fault so far, and no two requests had the control-plane file or membership file f open.
Clean(f) == clashed \cap {"cp", f} = {} /\ faults = 0

\* A request between its two files: the record has changed, the members have not.
Between(t, f) ==
  \/ (pc[t] = "owner" \/ target[t] = f) /\ call[t].kind = Creation(f)
  \/ (pc[t] = "purge" \/ target[t] = f) /\ call[t].kind = Deletion(f)
Halfway(t, f) ==
  LET x == Named(call[t], f)
  IN  /\ pc[t] = "rollback" => call[t].kind # Creation(f)
      /\ target[t] = "cp" /\ call[t].kind = Creation(f) =>
           ~Exists(store[t], f, x) /\ Exists(Coming(t), f, x)
      /\ (pc[t] = "owner" \/ target[t] = f) /\ call[t].kind = Creation(f) =>
           store[t] # Absent /\ Exists(store[t], f, x) /\ ~Peopled(final[f].data, x)
      /\ (pc[t] = "purge" \/ target[t] = f) /\ call[t].kind = Deletion(f) =>
           store[t] # Absent /\ ~Exists(store[t], f, x)

Agrees(f, x) ==
  /\ Peopled(final[f].data, x) => Exists(Cp, f, x)
  /\ Exists(Cp, f, x) /\ x # Bootstrapped(f) => Peopled(final[f].data, x)
AgreeInv(f) ==
  Clean(f) =>
    /\ \A t \in Threads : Halfway(t, f)
    /\ \A x \in Resources(f) :
         Agrees(f, x) \/ \E t \in Threads : Between(t, f) /\ Named(call[t], f) = x

\* A project with a collection, or with one being built, is there and nobody is deleting it.
InUse(p) ==
  p \in data \/ \E t \in Threads : pc[t] \in {"namespace", "collection"} /\ call[t].project = p
OwnedInv ==
  Clean("pm") => \A p \in Projects : InUse(p) =>
    /\ Exists(Cp, "pm", p)
    /\ \A t \in Threads : ~(target[t] = "cp" /\ call[t].kind = "delete_project" /\ call[t].project = p)

AgreementInv ==
  /\ DiskInv
  /\ \A t \in Threads : Fresh(t)
  /\ CatalogInv
  /\ AgreeInv("om") /\ AgreeInv("pm")
  /\ OwnedInv

-----------------------------------------------------------------------------
(* What the operations make of the files *)

LEMMA Vocabulary ==
  /\ Creation("om") = "create_org" /\ Deletion("om") = "delete_org"
  /\ Creation("pm") = "create_project" /\ Deletion("pm") = "delete_project"
  /\ Resources("om") = Orgs /\ Resources("pm") = Projects
  /\ Bootstrapped("om") = DefaultOrg /\ Bootstrapped("pm") = DefaultProject
  /\ \A c : Named(c, "om") = c.org /\ Named(c, "pm") = c.project
  /\ \A s, x : /\ Exists(s, "om", x) <=> s.orgs[x] # Absent
               /\ Exists(s, "pm", x) <=> s.projects[x] # Absent
  /\ Memberships \subseteq Files /\ \A f \in Memberships : f \in {"om", "pm"} /\ f # "cp"
  /\ "om" \in Memberships /\ "pm" \in Memberships
BY ContentIs DEF Creation, Deletion, Resources, Bootstrapped, Named, Exists, Memberships

\* A record that is put in the copy of a request: an organization.
LEMMA PutOrgChange ==
  ASSUME NEW s \in ControlPlaneState, NEW c \in Calls, NEW org \in Organization \cup {Absent},
         c.kind \in {"create_org", "update_org", "delete_org"},
         s.orgs[c.org] # Absent /\ s.orgs[c.org].life = "deleting" /\ org # Absent
           => org.life = "deleting",
         c.kind = "update_org" => s.orgs[c.org] # Absent /\ org # Absent,
         c.kind = "delete_org" => org = Absent
  PROVE  Change(c, s, PutOrg(s, c.org, org))
<1> DEFINE n == PutOrg(s, c.org, org)
<1>1. c.org \in Orgs
  BY CallFact
<1>2. /\ n.projects = s.projects
      /\ \A x \in Orgs : n.orgs[x] = IF x = c.org THEN org ELSE s.orgs[x]
  BY <1>1, PutOrgFact
<1> HIDE DEF n
<1>3. LifeKept(s, n)
  BY <1>2 DEF LifeKept
<1>4. ASSUME NEW f \in Memberships, NEW x \in Resources(f)
      PROVE  \/ Exists(n, f, x) <=> Exists(s, f, x)
             \/ x = Named(c, f) /\ c.kind \in {Creation(f), Deletion(f)}
  <2>1. CASE f = "om"
    BY <1>2, <1>4, <2>1, Vocabulary
  <2>2. CASE f = "pm"
    BY <1>2, <1>4, <2>2, Vocabulary
  <2> QED BY <2>1, <2>2, Vocabulary
<1>5. ASSUME NEW f \in Memberships, c.kind = Deletion(f) PROVE ~Exists(n, f, Named(c, f))
  <2>1. f = "om"
    BY <1>5, Vocabulary
  <2> QED BY <1>1, <1>2, <1>5, <2>1, Vocabulary
<1> QED BY <1>3, <1>4, <1>5 DEF Change, n

\* A project.
LEMMA PutProjectChange ==
  ASSUME NEW s \in ControlPlaneState, NEW c \in Calls, NEW project \in Project \cup {Absent},
         c.kind \in {"create_project", "update_project", "delete_project"},
         s.projects[c.project] # Absent /\ s.projects[c.project].life = "deleting" /\ project # Absent
           => project.life = "deleting",
         c.kind = "update_project" => s.projects[c.project] # Absent /\ project # Absent,
         c.kind = "delete_project" =>
           project = Absent /\ s.projects[c.project] # Absent /\ s.projects[c.project].life = "deleting"
  PROVE  Change(c, s, PutProject(s, c.project, project))
<1> DEFINE n == PutProject(s, c.project, project)
<1>1. c.project \in Projects
  BY CallFact
<1>2. /\ n.orgs = s.orgs
      /\ \A x \in Projects : n.projects[x] = IF x = c.project THEN project ELSE s.projects[x]
  BY <1>1, PutProjectFact
<1> HIDE DEF n
<1>3. LifeKept(s, n)
  BY <1>2 DEF LifeKept
<1>4. ASSUME NEW f \in Memberships, NEW x \in Resources(f)
      PROVE  \/ Exists(n, f, x) <=> Exists(s, f, x)
             \/ x = Named(c, f) /\ c.kind \in {Creation(f), Deletion(f)}
  <2>1. CASE f = "om"
    BY <1>2, <1>4, <2>1, Vocabulary
  <2>2. CASE f = "pm"
    BY <1>2, <1>4, <2>2, Vocabulary
  <2> QED BY <2>1, <2>2, Vocabulary
<1>5. ASSUME NEW f \in Memberships, c.kind = Deletion(f) PROVE ~Exists(n, f, Named(c, f))
  <2>1. f = "pm"
    BY <1>5, Vocabulary
  <2> QED BY <1>1, <1>2, <1>5, <2>1, Vocabulary
<1> QED BY <1>3, <1>4, <1>5 DEF Change, n

\* The members of what a request names.
LEMMA PeoplingFact ==
  ASSUME NEW f \in Memberships, NEW c, NEW old, NEW new, Named(c, f) \in Resources(f),
         \A x \in Resources(f) \ {Named(c, f)} : new[x] = old[x],
         c.kind = Creation(f) => Peopled(new, Named(c, f)),
         c.kind = Deletion(f) => ~Peopled(new, Named(c, f)),
         c.kind \notin {Creation(f), Deletion(f)} => Peopled(new, Named(c, f)) /\ Peopled(old, Named(c, f))
  PROVE  Peopling(c, f, old, new)
<1>1. Creation(f) # Deletion(f)
  BY DEF Creation, Deletion
<1>2. \A x \in Resources(f) \ {Named(c, f)} : Peopled(new, x) <=> Peopled(old, x)
  BY DEF Peopled
<1> QED BY <1>1, <1>2 DEF Peopling

\* Whoever asks to take a role is no last owner, so somebody stays.
LEMMA RemovalLeavesSomebody ==
  ASSUME NEW members, DOMAIN members = Subjects, HasOwner(members),
         NEW m \in Subjects, RemoveRoleAllowed(members, m)
  PROVE  ~NoMembers([members EXCEPT ![m] = Absent])
<1> DEFINE n == [members EXCEPT ![m] = Absent]
<1>1. DOMAIN n = Subjects /\ \A x \in Subjects \ {m} : n[x] = members[x]
  OBVIOUS
<1>2. PICK x \in Subjects : members[x] = "owner"
  BY DEF HasOwner, Owners, NoMembers, RemoveRoleAllowed
<1> HIDE DEF n
<1>3. CASE x # m
  BY <1>1, <1>2, <1>3, NothingIsSomething DEF NoMembers
<1>4. CASE x = m
  <2>1. Owners(members) # {m}
    BY <1>2, <1>4, FS_Singleton DEF RemoveRoleAllowed, LastOwner
  <2>2. PICK y \in Owners(members) : y # m
    BY <1>2, <1>4, <2>1 DEF Owners
  <2> QED BY <1>1, <2>2, NothingIsSomething DEF Owners, NoMembers
<1> QED BY <1>3, <1>4, <1>1 DEF n

-----------------------------------------------------------------------------
(* What a request may start to publish *)

\* It publishes on the copy it has, or on the file it has just read; a second file follows the
\* first; and what it publishes is a change of what it has read.
Decided(t, f, content, held) ==
  /\ f \in Files /\ content \in Content[f] /\ held \in ControlPlaneState \cup {Absent}
  /\ Publish(t, f, content, held)
  /\ held # Absent => held = Cp \/ held = store[t]
  /\ f = "cp" =>
       /\ pc[t] \in {"apply", "rollback"} /\ held # Absent /\ Change(call[t], held, content)
       /\ \A g \in Memberships : call[t].kind = Creation(g) =>
            \/ pc[t] = "rollback"
            \/ ~Exists(held, g, Named(call[t], g)) /\ Exists(content, g, Named(call[t], g))
       /\ call[t].kind = "delete_project" => call[t].project \notin catalog
  /\ f # "cp" =>
       /\ pc[t] \in {"apply", "owner", "purge"}
       /\ Peopling(call[t], f, final[f].data, content)
       /\ call[t].kind \in Creations => call[t].kind = Creation(f) /\ pc[t] = "owner"
       /\ call[t].kind = Deletion(f) => pc[t] = "purge"
       /\ pc[t] \in {"owner", "purge"} =>
            held = store[t] /\ held # Absent /\ call[t].kind \in {Creation(f), Deletion(f)}
Decides(t) == \E f \in Files : \E content, held : Decided(t, f, content, held)

\* The control-plane file, with a change of an organization.
LEMMA DecidesOrg ==
  ASSUME DiskInv, NEW t \in Threads, NEW s \in ControlPlaneState, s = Cp \/ s = store[t],
         call[t] \in Calls, pc[t] \in {"apply", "rollback"},
         NEW org \in Organization \cup {Absent}, Publish(t, "cp", PutOrg(s, call[t].org, org), s),
         call[t].kind \in {"create_org", "update_org", "delete_org"},
         s.orgs[call[t].org] # Absent /\ s.orgs[call[t].org].life = "deleting" /\ org # Absent
           => org.life = "deleting",
         call[t].kind = "update_org" => s.orgs[call[t].org] # Absent /\ org # Absent,
         call[t].kind = "delete_org" => org = Absent,
         call[t].kind = "create_org" => pc[t] = "rollback" \/ (s.orgs[call[t].org] = Absent /\ org # Absent)
  PROVE  Decides(t)
<1> DEFINE c == call[t]
           n == PutOrg(s, c.org, org)
<1>1. Change(c, s, n)
  BY PutOrgChange
<1>2. c.org \in Orgs /\ n \in ControlPlaneState /\ n.orgs[c.org] = org
  BY PutOrgFact, CallFact
<1>3. s # Absent /\ n \in Content["cp"] /\ "cp" \in Files
  BY <1>2, ContentIs, NothingIsSomething
<1>4. Publish(t, "cp", n, s)
  OBVIOUS
<1> HIDE DEF n
<1>5. \A g \in Memberships : c.kind = Creation(g) => g = "om"
  BY Vocabulary
<1>6. Decided(t, "cp", n, s)
  BY <1>1, <1>2, <1>3, <1>4, <1>5, Vocabulary DEF Decided
<1> QED BY <1>3, <1>6 DEF Decides

\* With a change of a project.
LEMMA DecidesProject ==
  ASSUME DiskInv, NEW t \in Threads, NEW s \in ControlPlaneState, s = Cp \/ s = store[t],
         call[t] \in Calls, pc[t] \in {"apply", "rollback"},
         NEW project \in Project \cup {Absent},
         Publish(t, "cp", PutProject(s, call[t].project, project), s),
         call[t].kind \in {"create_project", "update_project", "delete_project"},
         s.projects[call[t].project] # Absent /\ s.projects[call[t].project].life = "deleting"
           /\ project # Absent => project.life = "deleting",
         call[t].kind = "update_project" => s.projects[call[t].project] # Absent /\ project # Absent,
         call[t].kind = "delete_project" =>
           /\ project = Absent /\ s.projects[call[t].project] # Absent
           /\ s.projects[call[t].project].life = "deleting" /\ call[t].project \notin catalog,
         call[t].kind = "create_project" =>
           pc[t] = "rollback" \/ (s.projects[call[t].project] = Absent /\ project # Absent)
  PROVE  Decides(t)
<1> DEFINE c == call[t]
           n == PutProject(s, c.project, project)
<1>1. Change(c, s, n)
  BY PutProjectChange
<1>2. c.project \in Projects /\ n \in ControlPlaneState /\ n.projects[c.project] = project
  BY PutProjectFact, CallFact
<1>3. s # Absent /\ n \in Content["cp"] /\ "cp" \in Files
  BY <1>2, ContentIs, NothingIsSomething
<1>4. Publish(t, "cp", n, s)
  OBVIOUS
<1> HIDE DEF n
<1>5. \A g \in Memberships : c.kind = Creation(g) => g = "pm"
  BY Vocabulary
<1>6. Decided(t, "cp", n, s)
  BY <1>1, <1>2, <1>3, <1>4, <1>5, Vocabulary DEF Decided
<1> QED BY <1>3, <1>6 DEF Decides

\* A membership file, with new members of what the request names.
LEMMA DecidesMembers ==
  ASSUME DiskInv, NEW t \in Threads, NEW f \in Memberships, NEW n \in Content[f],
         NEW held \in ControlPlaneState \cup {Absent}, Publish(t, f, n, held),
         call[t] \in Calls, held # Absent => held = store[t],
         \A x \in Resources(f) \ {Named(call[t], f)} : n[x] = final[f].data[x],
         \/ /\ call[t].kind = Creation(f) /\ pc[t] = "owner" /\ held # Absent
            /\ Peopled(n, Named(call[t], f))
         \/ /\ call[t].kind = Deletion(f) /\ pc[t] = "purge" /\ held # Absent
            /\ ~Peopled(n, Named(call[t], f))
         \/ /\ call[t].kind \notin Creations \cup {Deletion(f)} /\ pc[t] = "apply"
            /\ Peopled(n, Named(call[t], f)) /\ Peopled(final[f].data, Named(call[t], f))
  PROVE  Decides(t)
<1>1. Named(call[t], f) \in Resources(f)
  BY Vocabulary, CallFact
<1>2. /\ Creation(f) # Deletion(f) /\ Creation(f) \in Creations
      /\ Deletion(f) \notin Creations
  BY DEF Creation, Deletion, Creations
<1>3. Peopling(call[t], f, final[f].data, n)
  BY <1>1, <1>2, PeoplingFact
<1>4. Decided(t, f, n, held)
  BY <1>2, <1>3, Vocabulary DEF Decided
<1> QED BY <1>4 DEF Decided, Decides

\* The operations on the control-plane file.
LEMMA ControlPlaneOperationDecides ==
  ASSUME DiskInv, NEW t \in Threads,
         \/ CreateOrganization(t) \/ UpdateOrganization(t) \/ DeleteOrganization(t)
         \/ CreateProject(t) \/ UpdateProject(t) \/ DeleteProject(t) \/ Rollback(t)
  PROVE  Decides(t)
<1> DEFINE c == call[t]
<1>1. pc[t] \in {"apply", "rollback"}
  BY DEF CreateOrganization, UpdateOrganization, DeleteOrganization, CreateProject, UpdateProject,
     DeleteProject, Rollback, At
<1>2. c \in Calls /\ Phase(t) /\ store[t] \in ControlPlaneState \cup {Absent}
  BY <1>1, ThreadFact DEF Phase
<1>3. /\ c.org \in Orgs /\ c.project \in Projects /\ c.slug \in Slugs /\ c.life \in Lifecycles
      /\ Cp # Unreadable => Cp \in ControlPlaneState
  BY <1>2, CallFact, ReadsAreGood
<1>4. CASE CreateOrganization(t)
  <2> DEFINE org == [slug |-> c.slug, life |-> "active"]
  <2>1. /\ pc[t] = "apply" /\ c.kind = "create_org" /\ Cp # Unreadable /\ Cp.orgs[c.org] = Absent
        /\ Publish(t, "cp", PutOrg(Cp, c.org, org), Cp)
    BY <1>4 DEF CreateOrganization, CreateOrganizationAllowed, At
  <2>2. org \in Organization /\ org # Absent
    BY <1>3, NothingIsSomething DEF Organization, Lifecycles
  <2> HIDE DEF org
  <2> QED BY <1>2, <1>3, <2>1, <2>2, DecidesOrg
<1>5. CASE UpdateOrganization(t)
  <2> DEFINE org == [slug |-> c.slug, life |-> c.life]
  <2>1. /\ pc[t] = "apply" /\ c.kind = "update_org" /\ Cp # Unreadable /\ Cp.orgs[c.org] # Absent
        /\ ValidTransition(Cp.orgs[c.org].life, c.life)
        /\ Publish(t, "cp", PutOrg(Cp, c.org, org), Cp)
    BY <1>5 DEF UpdateOrganization, UpdateOrganizationAllowed, At
  <2>2. org \in Organization /\ org # Absent /\ org.life = c.life
    BY <1>3, NothingIsSomething DEF Organization, Lifecycles
  <2> HIDE DEF org
  <2> QED BY <1>2, <1>3, <2>1, <2>2, DecidesOrg DEF ValidTransition
<1>6. CASE DeleteOrganization(t)
  <2>1. /\ pc[t] = "apply" /\ c.kind = "delete_org" /\ Cp # Unreadable
        /\ Publish(t, "cp", PutOrg(Cp, c.org, Absent), Cp)
    BY <1>6 DEF DeleteOrganization, At
  <2> QED BY <1>2, <1>3, <2>1, DecidesOrg
<1>7. CASE CreateProject(t)
  <2> DEFINE project == [org |-> c.org, slug |-> c.slug, life |-> "active"]
  <2>1. /\ pc[t] = "apply" /\ c.kind = "create_project" /\ Cp # Unreadable
        /\ Cp.projects[c.project] = Absent
        /\ Publish(t, "cp", PutProject(Cp, c.project, project), Cp)
    BY <1>7 DEF CreateProject, CreateProjectAllowed, At
  <2>2. project \in Project /\ project # Absent
    BY <1>3, NothingIsSomething DEF Project, Lifecycles
  <2> HIDE DEF project
  <2> QED BY <1>2, <1>3, <2>1, <2>2, DecidesProject
<1>8. CASE UpdateProject(t)
  <2> DEFINE s == store[t]
             project == [org |-> s.projects[c.project].org, slug |-> c.slug, life |-> c.life]
  <2>1. /\ pc[t] = "apply" /\ c.kind = "update_project"
        /\ ValidTransition(s.projects[c.project].life, c.life)
        /\ Publish(t, "cp", PutProject(s, c.project, project), s)
    BY <1>8 DEF UpdateProject, UpdateProjectAllowed, At
  <2>2. s \in ControlPlaneState /\ s.projects[c.project] # Absent
    BY <1>2, <2>1 DEF Phase, ProjectChanges
  <2>3. project \in Project /\ project # Absent /\ project.life = c.life
    BY <1>3, <2>2, PlaneParts, NothingIsSomething DEF Project
  <2> HIDE DEF project
  <2> QED BY <1>2, <1>3, <2>1, <2>2, <2>3, DecidesProject DEF ValidTransition
<1>9. CASE DeleteProject(t)
  <2>1. /\ pc[t] = "apply" /\ c.kind = "delete_project"
        /\ store[t].projects[c.project].life = "deleting" /\ c.project \notin catalog
        /\ Publish(t, "cp", PutProject(store[t], c.project, Absent), store[t])
    BY <1>9 DEF DeleteProject, DeleteProjectAllowed, At
  <2>2. store[t] \in ControlPlaneState /\ store[t].projects[c.project] # Absent
    BY <1>2, <2>1 DEF Phase, ProjectChanges
  <2> QED BY <1>2, <1>3, <2>1, <2>2, DecidesProject
<1>10. CASE Rollback(t)
  <2>1. /\ pc[t] = "rollback"
        /\ \/ c.kind = "create_org" /\ Publish(t, "cp", PutOrg(store[t], c.org, Absent), store[t])
           \/ /\ c.kind = "create_project"
              /\ Publish(t, "cp", PutProject(store[t], c.project, Absent), store[t])
    BY <1>10 DEF Rollback, At
  <2>2. store[t] \in ControlPlaneState
    BY <1>2, <2>1 DEF Phase
  <2>3. CASE c.kind = "create_org"
    BY <1>2, <1>3, <2>1, <2>2, <2>3, DecidesOrg
  <2>4. CASE c.kind = "create_project"
    BY <1>2, <1>3, <2>1, <2>2, <2>4, DecidesProject
  <2> QED BY <2>1, <2>3, <2>4
<1> QED BY <1>4, <1>5, <1>6, <1>7, <1>8, <1>9, <1>10

\* The operations on the members of organizations.
LEMMA OrgMembersOperationDecides ==
  ASSUME DiskInv, NEW t \in Threads,
         \/ SetOrganizationRole(t) \/ RemoveOrganizationRole(t)
         \/ BootstrapOrgOwner(t) \/ PurgeOrganization(t)
  PROVE  Decides(t)
<1> DEFINE c == call[t]
<1>1. pc[t] \in {"apply", "owner", "purge"} /\ Om # Unreadable
  BY DEF SetOrganizationRole, RemoveOrganizationRole, BootstrapOrgOwner, PurgeOrganization, At,
     OrgMembershipWritable
<1>2. /\ c \in Calls /\ Phase(t) /\ store[t] \in ControlPlaneState \cup {Absent}
      /\ Om \in OrgMembers /\ GoodOrgMembers(Om)
  BY <1>1, ThreadFact, ReadsAreGood DEF Phase
<1>3. /\ c.org \in Orgs /\ c.subject \in Subjects
      /\ c.kind \in Creations => c.by \in Subjects
      /\ c.kind = "set_org_role" => c.role \in OrgRoles
      /\ DOMAIN Om[c.org] = Subjects /\ HasOwner(Om[c.org])
  BY <1>2, CallFact DEF OrgMembers, GoodOrgMembers
<1>4. ASSUME NEW n \in OrgMembers, NEW held \in ControlPlaneState \cup {Absent}, Publish(t, "om", n, held),
             held # Absent => held = store[t], \A x \in Orgs \ {c.org} : n[x] = Om[x],
             \/ c.kind = "create_org" /\ pc[t] = "owner" /\ held # Absent /\ Peopled(n, c.org)
             \/ c.kind = "delete_org" /\ pc[t] = "purge" /\ held # Absent /\ ~Peopled(n, c.org)
             \/ /\ c.kind \notin Creations \cup {"delete_org"} /\ pc[t] = "apply"
                /\ Peopled(n, c.org) /\ Peopled(Om, c.org)
      PROVE  Decides(t)
  BY <1>2, <1>4, DecidesMembers, Vocabulary, ContentIs DEF Om
<1>5. CASE SetOrganizationRole(t)
  <2> DEFINE n == [Om EXCEPT ![c.org][c.subject] = c.role]
  <2>1. /\ pc[t] = "apply" /\ c.kind = "set_org_role" /\ OrgAuthorized(c.by, c.org, Cp, Om)
        /\ Publish(t, "om", n, Absent)
    BY <1>5 DEF SetOrganizationRole, At, OrgMembershipWritable
  <2>2. /\ n \in OrgMembers /\ n[c.org][c.subject] = c.role /\ DOMAIN n[c.org] = Subjects
        /\ \A x \in Orgs \ {c.org} : n[x] = Om[x]
    BY <1>2, <1>3, <2>1 DEF OrgMembers
  <2> HIDE DEF n
  <2>3. Peopled(n, c.org) /\ Peopled(Om, c.org)
    BY <1>1, <1>3, <2>1, <2>2, AuthorizedIsMember, NothingIsSomething DEF Peopled, NoMembers
  <2> QED BY <1>4, <2>1, <2>2, <2>3 DEF Creations
<1>6. CASE RemoveOrganizationRole(t)
  <2> DEFINE n == [Om EXCEPT ![c.org][c.subject] = Absent]
  <2>1. /\ pc[t] = "apply" /\ c.kind = "remove_org_role" /\ OrgAuthorized(c.by, c.org, Cp, Om)
        /\ RemoveRoleAllowed(Om[c.org], c.subject) /\ Publish(t, "om", n, Absent)
    BY <1>6 DEF RemoveOrganizationRole, At, OrgMembershipWritable
  <2>2. /\ n \in OrgMembers /\ n[c.org] = [Om[c.org] EXCEPT ![c.subject] = Absent]
        /\ \A x \in Orgs \ {c.org} : n[x] = Om[x]
    BY <1>2, <1>3 DEF OrgMembers
  <2> HIDE DEF n
  <2>3. Peopled(n, c.org) /\ Peopled(Om, c.org)
    BY <1>1, <1>3, <2>1, <2>2, AuthorizedIsMember, RemovalLeavesSomebody DEF Peopled
  <2> QED BY <1>4, <2>1, <2>2, <2>3 DEF Creations
<1>7. CASE BootstrapOrgOwner(t)
  <2> DEFINE n == [Om EXCEPT ![c.org][c.by] = "owner"]
  <2>1. pc[t] = "owner" /\ c.kind = "create_org" /\ Publish(t, "om", n, store[t])
    BY <1>7 DEF BootstrapOrgOwner, At
  <2>2. store[t] # Absent /\ c.by \in Subjects
    BY <1>2, <1>3, <2>1 DEF Phase, Creations
  <2>3. /\ n \in OrgMembers /\ n[c.org][c.by] = "owner" /\ DOMAIN n[c.org] = Subjects
        /\ \A x \in Orgs \ {c.org} : n[x] = Om[x]
    BY <1>2, <1>3, <2>2 DEF OrgMembers, OrgRoles
  <2> HIDE DEF n
  <2>4. Peopled(n, c.org)
    BY <2>2, <2>3, NothingIsSomething DEF Peopled, NoMembers
  <2> QED BY <1>2, <1>4, <2>1, <2>2, <2>3, <2>4
<1>8. CASE PurgeOrganization(t)
  <2> DEFINE n == [Om EXCEPT ![c.org] = [m \in Subjects |-> Absent]]
  <2>1. pc[t] = "purge" /\ c.kind = "delete_org" /\ Publish(t, "om", n, store[t])
    BY <1>8 DEF PurgeOrganization, At
  <2>2. store[t] # Absent
    BY <1>2, <2>1 DEF Phase
  <2>3. /\ n \in OrgMembers /\ n[c.org] = [m \in Subjects |-> Absent]
        /\ \A x \in Orgs \ {c.org} : n[x] = Om[x]
    BY <1>2, <1>3 DEF OrgMembers
  <2> HIDE DEF n
  <2>4. ~Peopled(n, c.org)
    BY <2>3 DEF Peopled, NoMembers
  <2> QED BY <1>2, <1>4, <2>1, <2>2, <2>3, <2>4
<1> QED BY <1>5, <1>6, <1>7, <1>8

\* Only a human owner manages the members of a project, and that is one of them.
LEMMA OwnerIsMember ==
  ASSUME DiskInv, Pm # Unreadable, NEW by \in Subjects, NEW p \in Projects, NEW s,
         ProjectAuthorized(by, p, s, Pm)
  PROVE  ~NoMembers(Pm[p]) /\ DOMAIN Pm[p] = Subjects
<1>1. Pm[p][by] = "owner"
  BY ControlPlaneAssumption DEF ProjectAuthorized
<1>2. DOMAIN Pm[p] = Subjects
  BY ReadsAreGood DEF ProjectMembers
<1> QED BY <1>1, <1>2, NothingIsSomething DEF NoMembers

\* The operations on the members of projects.
LEMMA ProjectMembersOperationDecides ==
  ASSUME DiskInv, NEW t \in Threads,
         \/ SetProjectRole(t) \/ RemoveProjectRole(t)
         \/ BootstrapProjectOwner(t) \/ PurgeProject(t)
  PROVE  Decides(t)
<1> DEFINE c == call[t]
<1>1. pc[t] \in {"apply", "owner", "purge"} /\ Pm # Unreadable
  BY DEF SetProjectRole, RemoveProjectRole, BootstrapProjectOwner, PurgeProject, At,
     ProjectMembershipWritable
<1>2. /\ c \in Calls /\ Phase(t) /\ store[t] \in ControlPlaneState \cup {Absent}
      /\ Pm \in ProjectMembers /\ GoodProjectMembers(Pm)
  BY <1>1, ThreadFact, ReadsAreGood DEF Phase
<1>3. /\ c.project \in Projects /\ c.subject \in Subjects
      /\ c.kind \in Creations => c.by \in Subjects
      /\ c.kind = "set_project_role" => c.role \in ProjectRoles
      /\ DOMAIN Pm[c.project] = Subjects /\ HasOwner(Pm[c.project])
  BY <1>2, CallFact DEF ProjectMembers, GoodProjectMembers
<1>4. ASSUME NEW n \in ProjectMembers, NEW held \in ControlPlaneState \cup {Absent}, Publish(t, "pm", n, held),
             held # Absent => held = store[t], \A x \in Projects \ {c.project} : n[x] = Pm[x],
             \/ c.kind = "create_project" /\ pc[t] = "owner" /\ held # Absent /\ Peopled(n, c.project)
             \/ c.kind = "delete_project" /\ pc[t] = "purge" /\ held # Absent /\ ~Peopled(n, c.project)
             \/ /\ c.kind \notin Creations \cup {"delete_project"} /\ pc[t] = "apply"
                /\ Peopled(n, c.project) /\ Peopled(Pm, c.project)
      PROVE  Decides(t)
  BY <1>2, <1>4, DecidesMembers, Vocabulary, ContentIs DEF Pm
<1>5. CASE SetProjectRole(t)
  <2> DEFINE n == [Pm EXCEPT ![c.project][c.subject] = c.role]
  <2>1. /\ pc[t] = "apply" /\ c.kind = "set_project_role" /\ c.by \in Subjects /\ ProjectAuthorized(c.by, c.project, Cp, Pm)
        /\ Publish(t, "pm", n, Absent)
    BY <1>5 DEF SetProjectRole, At, ProjectMembershipWritable
  <2>2. /\ n \in ProjectMembers /\ n[c.project][c.subject] = c.role /\ DOMAIN n[c.project] = Subjects
        /\ \A x \in Projects \ {c.project} : n[x] = Pm[x]
    BY <1>2, <1>3, <2>1 DEF ProjectMembers
  <2> HIDE DEF n
  <2>3. Peopled(n, c.project) /\ Peopled(Pm, c.project)
    BY <1>1, <1>3, <2>1, <2>2, OwnerIsMember, NothingIsSomething DEF Peopled, NoMembers
  <2> QED BY <1>4, <2>1, <2>2, <2>3 DEF Creations
<1>6. CASE RemoveProjectRole(t)
  <2> DEFINE n == [Pm EXCEPT ![c.project][c.subject] = Absent]
  <2>1. /\ pc[t] = "apply" /\ c.kind = "remove_project_role" /\ c.by \in Subjects /\ ProjectAuthorized(c.by, c.project, Cp, Pm)
        /\ RemoveRoleAllowed(Pm[c.project], c.subject) /\ Publish(t, "pm", n, Absent)
    BY <1>6 DEF RemoveProjectRole, At, ProjectMembershipWritable
  <2>2. /\ n \in ProjectMembers /\ n[c.project] = [Pm[c.project] EXCEPT ![c.subject] = Absent]
        /\ \A x \in Projects \ {c.project} : n[x] = Pm[x]
    BY <1>2, <1>3 DEF ProjectMembers
  <2> HIDE DEF n
  <2>3. Peopled(n, c.project) /\ Peopled(Pm, c.project)
    BY <1>1, <1>3, <2>1, <2>2, OwnerIsMember, RemovalLeavesSomebody DEF Peopled
  <2> QED BY <1>4, <2>1, <2>2, <2>3 DEF Creations
<1>7. CASE BootstrapProjectOwner(t)
  <2> DEFINE n == [Pm EXCEPT ![c.project][c.by] = "owner"]
  <2>1. pc[t] = "owner" /\ c.kind = "create_project" /\ Publish(t, "pm", n, store[t])
    BY <1>7 DEF BootstrapProjectOwner, At
  <2>2. store[t] # Absent /\ c.by \in Subjects
    BY <1>2, <1>3, <2>1 DEF Phase, Creations
  <2>3. /\ n \in ProjectMembers /\ n[c.project][c.by] = "owner" /\ DOMAIN n[c.project] = Subjects
        /\ \A x \in Projects \ {c.project} : n[x] = Pm[x]
    BY <1>2, <1>3, <2>2 DEF ProjectMembers, ProjectRoles
  <2> HIDE DEF n
  <2>4. Peopled(n, c.project)
    BY <2>2, <2>3, NothingIsSomething DEF Peopled, NoMembers
  <2> QED BY <1>2, <1>4, <2>1, <2>2, <2>3, <2>4
<1>8. CASE PurgeProject(t)
  <2> DEFINE n == [Pm EXCEPT ![c.project] = [m \in Subjects |-> Absent]]
  <2>1. pc[t] = "purge" /\ c.kind = "delete_project" /\ Publish(t, "pm", n, store[t])
    BY <1>8 DEF PurgeProject, At
  <2>2. store[t] # Absent
    BY <1>2, <2>1 DEF Phase
  <2>3. /\ n \in ProjectMembers /\ n[c.project] = [m \in Subjects |-> Absent]
        /\ \A x \in Projects \ {c.project} : n[x] = Pm[x]
    BY <1>2, <1>3 DEF ProjectMembers
  <2> HIDE DEF n
  <2>4. ~Peopled(n, c.project)
    BY <2>3 DEF Peopled, NoMembers
  <2> QED BY <1>2, <1>4, <2>1, <2>2, <2>3, <2>4
<1> QED BY <1>5, <1>6, <1>7, <1>8

\* Every request that starts to publish has decided so.
LEMMA OperationDecides ==
  ASSUME DiskInv, NEW t \in Threads,
         Operation(t) \/ (FollowUp(t) /\ ~BootstrapRefused(t))
  PROVE  Decides(t)
BY ControlPlaneOperationDecides, OrgMembersOperationDecides, ProjectMembersOperationDecides
   DEF Operation, FollowUp

-----------------------------------------------------------------------------
(* The other steps of a request *)

\* A step that touches no file and publishes nothing.  A request that owes its second file only
\* goes on so when it cannot write it, or has no member to take away.
Moves(t) ==
  /\ OthersSame(t) /\ final' = final /\ temp' = temp
  /\ target[t] = NoFile /\ target'[t] = NoFile
  /\ store'[t] # Absent => store'[t] = Cp \/ store'[t] = store[t]
  /\ pc'[t] \notin {"owner", "purge"}
  /\ pc'[t] = "rollback" => BootstrapRefused(t)
  /\ pc[t] \in {"owner", "purge"} => BootstrapRefused(t) \/ Refuse(t)

\* A step away from the collections.
OffCatalog(t) ==
  /\ OthersSame(t) /\ UNCHANGED <<catalog, claims, spaces, data, keys>>
  /\ pc[t] \notin Handling /\ pc'[t] \notin Handling

\* A request goes from a place where it publishes nothing to another.
LEMMA GotoMoves ==
  ASSUME DiskInv, NEW t \in Threads, NEW label \in Labels \ {"owner", "purge", "rollback"},
         Goto(t, label), pc[t] \notin Publishing \cup {"owner", "purge"}, final' = final, temp' = temp
  PROVE  Moves(t) /\ pc'[t] = label /\ call'[t] = call[t]
<1>1. OthersSame(t) /\ pc'[t] = label /\ call' = call /\ store' = store /\ target' = target
  BY GotoFact, TypeParts DEF DiskInv
<1>2. target[t] = NoFile
  BY ThreadFact DEF Phase
<1> QED BY <1>1, <1>2 DEF Moves

\* Or ends there.
LEMMA EndMoves ==
  ASSUME DiskInv, NEW t \in Threads, End(t), pc[t] \notin Publishing,
         pc[t] \in {"owner", "purge"} => Refuse(t), final' = final, temp' = temp
  PROVE  Moves(t) /\ pc'[t] = "idle"
<1>1. OthersSame(t) /\ pc'[t] = "idle" /\ store'[t] = Absent /\ target'[t] = NoFile
  BY EndFact, TypeParts DEF DiskInv
<1>2. target[t] = NoFile
  BY ThreadFact DEF Phase
<1> QED BY <1>1, <1>2 DEF Moves

LEMMA ArrivalMoves ==
  ASSUME DiskInv, NEW t \in Threads,
         \/ \E c \in Calls : Begin(t, c)
         \/ AuthorizeOrganization(t) \/ LoadProject(t) \/ AuthorizeProjectManagement(t)
         \/ BootstrapRefused(t) \/ Refuse(t)
  PROVE  Moves(t) /\ OffCatalog(t)
<1>1. ASSUME NEW c \in Calls, Begin(t, c) PROVE Moves(t) /\ OffCatalog(t)
  <2>1. /\ pc[t] = "idle" /\ call' = [call EXCEPT ![t] = c] /\ pc' = [pc EXCEPT ![t] = FirstStep(c.kind)]
        /\ UNCHANGED <<final, temp, store, target, next, catalog, claims, spaces, data, keys>>
    BY <1>1 DEF Begin, fileVars, planeVars
  <2>2. /\ FirstStep(c.kind) \in {"authorize", "load", "scope", "drop", "apply"}
    BY DEF FirstStep
  <2>3. target[t] = NoFile /\ ThreadsTyped
    BY <2>1, ThreadFact, TypeParts DEF Phase, DiskInv
  <2>4. OthersSame(t) /\ pc'[t] = FirstStep(c.kind)
    BY <2>1, <2>3 DEF ThreadsTyped, OthersSame
  <2> QED BY <2>1, <2>2, <2>3, <2>4 DEF Moves, OffCatalog, Handling
<1>2. CASE AuthorizeOrganization(t) \/ AuthorizeProjectManagement(t)
  <2>1. /\ pc[t] = "authorize" /\ Goto(t, "apply")
        /\ UNCHANGED <<final, temp, catalog, claims, spaces, data, keys>>
    BY <1>2 DEF AuthorizeOrganization, AuthorizeProjectManagement, At, fileVars, planeVars
  <2>2. Moves(t) /\ pc'[t] = "apply"
    BY <2>1, GotoMoves DEF Labels, Publishing
  <2> QED BY <2>1, <2>2 DEF OffCatalog, Moves, Handling
<1>3. CASE LoadProject(t)
  <2>1. /\ pc[t] = "load" /\ store' = [store EXCEPT ![t] = Cp] /\ pc' = [pc EXCEPT ![t] = "authorize"]
        /\ UNCHANGED <<final, temp, call, target, next, catalog, claims, spaces, data, keys>>
    BY <1>3 DEF LoadProject, fileVars, planeVars
  <2>2. target[t] = NoFile /\ ThreadsTyped
    BY <2>1, ThreadFact, TypeParts DEF Phase, Publishing, DiskInv
  <2>3. OthersSame(t) /\ pc'[t] = "authorize" /\ store'[t] = Cp
    BY <2>1, <2>2 DEF ThreadsTyped, OthersSame
  <2> QED BY <2>1, <2>2, <2>3 DEF Moves, OffCatalog, Handling
<1>4. CASE BootstrapRefused(t)
  <2>1. /\ pc[t] = "owner" /\ Goto(t, "rollback")
        /\ UNCHANGED <<final, temp, catalog, claims, spaces, data, keys>>
    BY <1>4 DEF BootstrapRefused, At, fileVars, planeVars
  <2>2. OthersSame(t) /\ pc'[t] = "rollback" /\ call' = call /\ store' = store /\ target' = target
    BY <2>1, GotoFact, TypeParts DEF DiskInv, Labels
  <2>3. target[t] = NoFile
    BY <2>1, ThreadFact DEF Phase, Publishing
  <2> QED BY <1>4, <2>1, <2>2, <2>3 DEF Moves, OffCatalog, Handling
<1>5. CASE Refuse(t)
  <2>1. Refused(t) /\ End(t) /\ UNCHANGED <<final, temp, catalog, claims, spaces, data, keys>>
    BY <1>5 DEF Refuse, fileVars, planeVars
  <2>2. pc[t] \in {"authorize", "load", "apply", "owner", "purge", "rollback", "scope", "drop"}
    BY <2>1 DEF Refused, At
  <2>3. Moves(t) /\ pc'[t] = "idle"
    BY <1>5, <2>1, <2>2, EndMoves DEF Publishing
  <2> QED BY <2>1, <2>2, <2>3 DEF OffCatalog, Moves, Handling
<1> QED BY <1>1, <1>2, <1>3, <1>4, <1>5

\* What overlapped, and what failed, stays so.
LEMMA Monotone ==
  ASSUME DiskInv, [Next]_vars
  PROVE  clashed \subseteq clashed' /\ (faults' = 0 => faults = 0)
<1>1. faults \in Nat
  BY TypeParts DEF DiskInv, PlaneTyped
<1>2. ASSUME NEW t \in Threads, Operation(t) \/ FollowUp(t) PROVE clashed \subseteq clashed' /\ faults' = faults
  BY <1>2 DEF Operation, FollowUp, CreateOrganization, UpdateOrganization, DeleteOrganization,
     CreateProject, UpdateProject, DeleteProject, SetOrganizationRole, RemoveOrganizationRole,
     SetProjectRole, RemoveProjectRole, BootstrapOrgOwner, BootstrapProjectOwner, BootstrapRefused,
     Rollback, PurgeOrganization, PurgeProject, Publish, Opened
<1>3. ASSUME NEW t \in Threads, Persist(t)
      PROVE  clashed' = clashed /\ (faults' = faults \/ faults' = faults + 1)
  BY <1>3 DEF Persist, RemoveTemp, CreateTemp, TruncateTemp, WriteTemp, Rename, RenameFindsNothing,
     PersistFails
<1>4. ASSUME NEW t \in Threads, Collection(t)
      PROVE  clashed' = clashed /\ (faults' = faults \/ faults' = faults + 1)
  BY <1>4 DEF Collection, CreateScope, ClaimCollection, CreateNamespace, CreateData, CreateDataFails,
     DeleteData, DeleteDataFails, RemoveClaim, RemoveScope, CollectionStep
<1>5. ASSUME NEW t \in Threads,
             \/ \E c \in Calls : Begin(t, c)
             \/ AuthorizeOrganization(t) \/ LoadProject(t) \/ AuthorizeProjectManagement(t) \/ Refuse(t)
      PROVE  clashed \subseteq clashed' /\ faults' = faults
  BY <1>5 DEF Begin, AuthorizeOrganization, LoadProject, AuthorizeProjectManagement, Refuse, Opened
<1>6. ASSUME NEW t \in Threads, Request(t) PROVE clashed \subseteq clashed' /\ (faults' = 0 => faults = 0)
  BY <1>1, <1>2, <1>3, <1>4, <1>5, <1>6 DEF Request
<1>7. CASE (\E p \in Keyed : IssueKey(p)) \/ Stop \/ Crash \/ Start \/ StartRefused \/ UNCHANGED vars
  BY <1>1, <1>7 DEF IssueKey, Stop, Crash, Halt, Start, StartRefused, vars
<1> QED BY <1>6, <1>7 DEF Next

-----------------------------------------------------------------------------
(* The steps of persist *)

\* A request that publishes touches no other file.
Touches(t) ==
  /\ pc[t] \in Publishing /\ target[t] \in Files /\ OffCatalog(t)
  /\ \A g \in Files \ {target[t]} : final'[g] = final[g] /\ temp'[g] = temp[g]

\* It goes on, and what it will rename is what it has written.
Writes(t) ==
  LET f == target[t]
  IN  /\ call'[t] = call[t] /\ store'[t] = store[t] /\ target'[t] = f /\ next'[t] = next[t]
      /\ pc'[t] \in Publishing
      /\ f \notin clashed =>
           /\ final'[f].data = final[f].data
           /\ pc'[t] = "create" => temp'[f] = NoFile
           /\ pc'[t] = "rename" => temp'[f] # NoFile /\ temp'[f].data = Coming(t)

\* It has published what it decided on.
Renames(t) ==
  /\ pc[t] = "rename" /\ Published(t) /\ faults' = faults
  /\ target[t] \notin clashed => final'[target[t]].data = Coming(t)

\* It fails: with an I/O error, or because another request overlaps.
Fails(t) ==
  /\ target'[t] = NoFile
  /\ \/ /\ pc'[t] = "rollback" /\ call'[t] = call[t] /\ store'[t] = store[t]
        /\ target[t] # "cp" /\ call[t].kind \in Creations
     \/ pc'[t] = "idle" /\ store'[t] = Absent
  /\ target[t] \notin clashed =>
       faults' # 0 /\ final'[target[t]].data \in {final[target[t]].data, Coming(t)}

LEMMA FailedFails ==
  ASSUME DiskInv, NEW t \in Threads, Failed(t),
         target[t] \notin clashed =>
           faults' # 0 /\ final'[target[t]].data \in {final[target[t]].data, Coming(t)}
  PROVE  Fails(t) /\ OthersSame(t)
<1>1. ThreadsTyped
  BY TypeParts DEF DiskInv
<1>2. CASE target[t] # "cp" /\ call[t].kind \in Creations
  BY <1>1, <1>2 DEF Failed, Fails, Creations, OthersSame, ThreadsTyped
<1>3. CASE ~(target[t] # "cp" /\ call[t].kind \in Creations)
  <2>1. End(t)
    BY <1>3 DEF Failed, Creations
  <2> QED BY <1>1, <2>1, EndFact DEF Fails
<1> QED BY <1>2, <1>3

\* A step of persist is one of the three.
LEMMA PersistOutcome ==
  ASSUME DiskInv, NEW t \in Threads, Fresh(t), Persist(t)
  PROVE  Touches(t) /\ (Writes(t) \/ Renames(t) \/ Fails(t))
<1> DEFINE f == target[t]
<1>1. pc[t] \in Publishing /\ UNCHANGED <<catalog, claims, spaces, data, keys>>
  BY DEF Persist, RemoveTemp, CreateTemp, TruncateTemp, WriteTemp, Rename, RenameFindsNothing,
     PersistFails, Publishing, planeVars
<1>2. /\ f \in Files /\ Phase(t) /\ ThreadsTyped /\ DOMAIN final = Files /\ DOMAIN temp = Files
      /\ f \notin clashed => OneWriter(f)
      /\ pc[t] \notin Handling
  BY <1>1, PersistFact, OnlyWriter, TypeParts DEF DiskInv, Publishing, Handling
<1>3. ASSUME OthersSame(t), pc'[t] \in Publishing \cup {"owner", "purge", "rollback", "idle"},
             \A g \in Files \ {f} : final'[g] = final[g] /\ temp'[g] = temp[g]
      PROVE  Touches(t)
  BY <1>1, <1>2, <1>3 DEF Touches, OffCatalog, Publishing, Handling
<1>4. Fails(t) => pc'[t] \in Publishing \cup {"owner", "purge", "rollback", "idle"}
  BY DEF Fails
<1>5. CASE RemoveTemp(t)
  <2>1. f = "cp" /\ temp' = [temp EXCEPT !["cp"] = NoFile] /\ Goto(t, "create") /\ final' = final
    BY <1>5 DEF RemoveTemp
  <2>2. /\ OthersSame(t) /\ pc'[t] = "create"
        /\ call' = call /\ store' = store /\ target' = target /\ next' = next
    BY <1>2, <2>1, GotoFact DEF Labels
  <2>3. temp'["cp"] = NoFile
    BY <1>2, <2>1
  <2>4. Writes(t)
    BY <2>1, <2>2, <2>3 DEF Writes, Publishing
  <2> QED BY <1>3, <2>1, <2>2, <2>4 DEF Publishing
<1>6. CASE CreateTemp(t)
  <2>1. f = "cp" /\ final' = final /\ pc[t] = "create"
    BY <1>2, <1>6 DEF CreateTemp, Phase
  <2>2. CASE temp["cp"] = NoFile
    <3>1. temp' = [temp EXCEPT !["cp"] = Empty(t)] /\ Goto(t, "write")
      BY <1>6, <2>2 DEF CreateTemp
    <3>2. /\ OthersSame(t) /\ pc'[t] = "write"
          /\ call' = call /\ store' = store /\ target' = target /\ next' = next
      BY <1>2, <3>1, GotoFact DEF Labels
    <3>3. Writes(t)
      BY <2>1, <3>2 DEF Writes, Publishing
    <3> QED BY <1>3, <2>1, <3>1, <3>2, <3>3 DEF Publishing
  <2>3. CASE temp["cp"] # NoFile
    <3>1. temp' = temp /\ Failed(t) /\ f \in clashed
      BY <1>6, <2>1, <2>3, ContentIs DEF CreateTemp, Fresh
    <3>2. Fails(t) /\ OthersSame(t)
      BY <3>1, FailedFails
    <3> QED BY <1>3, <1>4, <2>1, <3>1, <3>2
  <2> QED BY <2>2, <2>3
<1>7. CASE TruncateTemp(t)
  <2>1. f # "cp" /\ temp' = [temp EXCEPT ![f] = Truncate(t, @)] /\ Goto(t, "write") /\ final' = final
    BY <1>7 DEF TruncateTemp
  <2>2. /\ OthersSame(t) /\ pc'[t] = "write"
        /\ call' = call /\ store' = store /\ target' = target /\ next' = next
    BY <1>2, <2>1, GotoFact DEF Labels
  <2>3. Writes(t)
    BY <2>1, <2>2 DEF Writes, Publishing
  <2> QED BY <1>3, <2>1, <2>2, <2>3 DEF Publishing
<1>8. CASE WriteTemp(t)
  <2>1. /\ pc[t] = "write" /\ Goto(t, "rename")
        /\ \/ /\ Writing(t, temp[f]) /\ final' = final
              /\ \E e \in WrittenBy(t, temp[f]) : temp' = [temp EXCEPT ![f] = e]
           \/ /\ Writing(t, final[f]) /\ temp' = temp
              /\ \E e \in WrittenBy(t, final[f]) : final' = [final EXCEPT ![f] = e]
           \/ /\ ~Writing(t, temp[f]) /\ ~Writing(t, final[f])
              /\ final' = final /\ temp' = temp
    BY <1>8 DEF WriteTemp, fileVars
  <2>2. /\ OthersSame(t) /\ pc'[t] = "rename"
        /\ call' = call /\ store' = store /\ target' = target /\ next' = next
    BY <1>2, <2>1, GotoFact DEF Labels
  <2>3. \A g \in Files \ {f} : final'[g] = final[g] /\ temp'[g] = temp[g]
    BY <1>2, <2>1
  <2>4. ASSUME f \notin clashed
        PROVE  /\ final'[f].data = final[f].data
               /\ temp'[f] # NoFile /\ temp'[f].data = Coming(t)
    <3>1. Writing(t, temp[f]) /\ ~Writing(t, final[f]) /\ temp[f].data = Unreadable
      BY <1>2, <2>1, <2>4 DEF OneWriter, Writing
    <3>2. PICK e \in WrittenBy(t, temp[f]) : temp' = [temp EXCEPT ![f] = e] /\ final' = final
      BY <2>1, <3>1
    <3>3. temp'[f] = e /\ final' = final
      BY <1>2, <3>2
    <3>4. e.data = Coming(t)
      BY <3>1, <3>2 DEF WrittenBy
    <3>5. e \in Entry(f)
      BY <1>1, <1>2, <3>1, <3>2, WrittenFact, PersistFact DEF Writing
    <3>6. e # NoFile
      BY <1>2, <3>5, NothingIsSomething
    <3> QED BY <3>3, <3>4, <3>6
  <2>5. Writes(t)
    BY <2>2, <2>4 DEF Writes, Publishing
  <2> QED BY <1>3, <2>2, <2>3, <2>5 DEF Publishing
<1>9. CASE Rename(t)
  <2>1. /\ pc[t] = "rename" /\ temp[f] # NoFile /\ Published(t) /\ faults' = faults
        /\ final' = [final EXCEPT ![f] = temp[f]] /\ temp' = [temp EXCEPT ![f] = NoFile]
    BY <1>9 DEF Rename
  <2>2. /\ final'[f] = temp[f]
        /\ \A g \in Files \ {f} : final'[g] = final[g] /\ temp'[g] = temp[g]
    BY <1>2, <2>1
  <2>3. f \notin clashed => temp[f].data = Coming(t)
    BY <1>2, <2>1 DEF Fresh
  <2>4. Renames(t)
    BY <2>1, <2>2, <2>3 DEF Renames
  <2>5. OthersSame(t) /\ pc'[t] \in Publishing \cup {"owner", "purge", "rollback", "idle"}
    BY <1>2, <2>1 DEF Published, End, OthersSame, ThreadsTyped
  <2> QED BY <1>3, <2>2, <2>4, <2>5
<1>10. CASE RenameFindsNothing(t)
  <2>1. temp' = temp /\ final' = final /\ Failed(t) /\ f \in clashed
    BY <1>2, <1>10 DEF RenameFindsNothing, fileVars, Fresh
  <2>2. Fails(t) /\ OthersSame(t)
    BY <2>1, FailedFails
  <2> QED BY <1>3, <1>4, <2>1, <2>2
<1>11. CASE PersistFails(t)
  <2>1. /\ Failed(t) /\ faults' = faults + 1
        /\ \A g \in Files \ {f} : final'[g] = final[g] /\ temp'[g] = temp[g]
    BY <1>2, <1>11 DEF PersistFails
  <2>2. faults' # 0
    BY <2>1, TypeParts DEF DiskInv, PlaneTyped
  <2>3. f \notin clashed => final'[f].data \in {final[f].data, Coming(t)}
    <3>1. CASE final' = [final EXCEPT ![f] = Forget(t, @)]
      <4>1. final'[f] = Forget(t, final[f]) /\ final[f] \in Entry(f)
        BY <1>1, <1>2, <3>1, PersistFact
      <4>2. final[f] # NoFile
        BY <1>2, <4>1, NothingIsSomething
      <4>3. Forget(t, final[f]).data = final[f].data
        BY <4>1, <4>2 DEF Forget, Entry
      <4> QED BY <4>1, <4>3
    <3>2. CASE pc[t] = "rename" /\ final' = [final EXCEPT ![f] = temp[f]]
      BY <1>2, <3>2 DEF Fresh
    <3> QED BY <1>11, <3>1, <3>2 DEF PersistFails
  <2>4. Fails(t) /\ OthersSame(t)
    BY <2>1, <2>2, <2>3, FailedFails
  <2> QED BY <1>3, <1>4, <2>1, <2>4
<1> QED BY <1>5, <1>6, <1>7, <1>8, <1>9, <1>10, <1>11 DEF Persist

\* A collection request publishes nothing.
LEMMA CollectionMoves ==
  ASSUME DiskInv, NEW t \in Threads, Collection(t)
  PROVE  Moves(t)
<1>1. pc[t] \in CollectionLabels /\ final' = final /\ temp' = temp
  BY DEF Collection, CreateScope, ClaimCollection, CreateNamespace, CreateData, CreateDataFails,
     DeleteData, DeleteDataFails, RemoveClaim, RemoveScope, CollectionStep, fileVars, CollectionLabels
<1>2. pc[t] \notin Publishing \cup {"owner", "purge"}
  BY <1>1 DEF CollectionLabels, Publishing
<1>3. \/ \E label \in {"claim", "namespace", "collection", "unclaim", "unscope"} : Goto(t, label)
      \/ End(t)
  BY DEF Collection, CreateScope, ClaimCollection, CreateNamespace, CreateData, CreateDataFails,
     DeleteData, DeleteDataFails, RemoveClaim, RemoveScope, CollectionStep
<1>4. CASE End(t)
  BY <1>1, <1>2, <1>4, EndMoves
<1>5. ASSUME NEW label \in {"claim", "namespace", "collection", "unclaim", "unscope"}, Goto(t, label)
      PROVE  Moves(t)
  BY <1>1, <1>2, <1>5, GotoMoves DEF Labels
<1> QED BY <1>3, <1>4, <1>5

\* Every step of a request is of one of these kinds.
LEMMA RequestIs ==
  ASSUME DiskInv, NEW t \in Threads, Request(t)
  PROVE  \/ Moves(t) /\ OffCatalog(t)
         \/ Collection(t) /\ Moves(t)
         \/ Decides(t)
         \/ Persist(t)
BY ArrivalMoves, CollectionMoves, OperationDecides DEF Request, FollowUp

\* Where the server stops, crashes or starts no request runs, before a start nor after any of them;
\* a new key touches neither requests nor files.
Rests ==
  /\ \A t \in Threads : pc'[t] = "idle" /\ store'[t] = Absent /\ target'[t] = NoFile
  /\ faults' = 0 => \A t \in Threads : pc[t] = "idle" /\ store[t] = Absent /\ target[t] = NoFile
  /\ UNCHANGED <<catalog, claims, data, keys, clashed>> /\ spaces \subseteq spaces'
  /\ spaces' \subseteq spaces \cup catalog
  /\ \/ \A f \in Files : final'[f].data = final[f].data
     \/ Start
Rekeys ==
  /\ UNCHANGED <<pc, call, store, target, next, final, temp, catalog, claims, spaces, data>>
  /\ UNCHANGED clashed

LEMMA ServerStep ==
  ASSUME DiskInv,
         (\E p \in Keyed : IssueKey(p)) \/ Stop \/ Crash \/ Start \/ StartRefused \/ UNCHANGED vars
  PROVE  Rests \/ Rekeys
<1>1. CASE Stop \/ Crash
  <2>1. /\ Halt
        /\ faults' = 0 => \A t \in Threads : pc[t] = "idle"
    BY <1>1, TypeParts DEF Stop, Crash, DiskInv, PlaneTyped
  <2>2. /\ final' = [f \in Files |-> Unwritten(final[f])]
        /\ UNCHANGED <<catalog, claims, spaces, data, keys, clashed>>
        /\ \A t \in Threads : pc'[t] = "idle" /\ store'[t] = Absent /\ target'[t] = NoFile
    BY <2>1 DEF Halt, planeVars
  <2>3. \A t \in Threads : pc[t] = "idle" => store[t] = Absent /\ target[t] = NoFile
    BY ThreadFact DEF Phase
  <2>4. ASSUME NEW f \in Files PROVE final'[f].data = final[f].data
    <3>1. final[f] \in Entry(f)
      BY TypeParts DEF DiskInv, FilesTyped
    <3>2. final[f] # NoFile
      BY <3>1, NothingIsSomething
    <3>3. Unwritten(final[f]).data = final[f].data
      BY <3>1, <3>2, UnwrittenFact
    <3> QED BY <2>2, <3>3
  <2> QED BY <2>1, <2>2, <2>3, <2>4 DEF Rests
<1>2. CASE Start \/ StartRefused
  <2>1. /\ server = "down" /\ UNCHANGED <<pc, store, target, catalog, claims, data, keys, clashed>>
        /\ Start \/ (final' = final /\ spaces' = spaces)
        /\ spaces' = spaces \/ spaces' = spaces \cup (catalog \cap {DefaultProject})
    BY <1>2 DEF Start, StartRefused, fileVars, planeVars
  <2>2. \A t \in Threads : pc[t] = "idle" /\ store[t] = Absent /\ target[t] = NoFile
    BY <2>1, DownIsIdle
  <2> QED BY <2>1, <2>2 DEF Rests
<1>3. CASE (\E p \in Keyed : IssueKey(p)) \/ UNCHANGED vars
  BY <1>3 DEF IssueKey, vars, Rekeys, fileVars
<1> QED BY <1>1, <1>2, <1>3

-----------------------------------------------------------------------------
(* The copies are current *)

\* What a request holds that took no step, as long as nobody else has its files open.
LEMMA FreshOthers ==
  ASSUME DiskInv, NEW t \in Threads, NEW u \in Threads \ {t}, Fresh(u), OthersSame(t),
         clashed \subseteq clashed',
         \A g \in Files : g \notin clashed' /\ Holds(u, g) =>
           final'[g].data = final[g].data /\ temp'[g] = temp[g]
  PROVE  Fresh(u)'
<1>1. /\ pc'[u] = pc[u] /\ call'[u] = call[u] /\ store'[u] = store[u]
      /\ target'[u] = target[u] /\ next'[u] = next[u]
  BY DEF OthersSame
<1>2. \A g \in Files : target[u] = g => Holds(u, g)
  BY ThreadFact DEF Phase, Holds
<1>3. store[u] # Absent => Holds(u, "cp")
  BY DEF Holds
<1>4. Coming(u)' = Coming(u)
  BY <1>1 DEF Coming
<1>5. "cp" \notin clashed' /\ store'[u] # Absent =>
         /\ store'[u] = Cp'
         /\ target'[u] = "cp" => Change(call'[u], store'[u], Coming(u)')
  BY <1>1, <1>3, <1>4, ContentIs DEF Fresh, Cp
<1>6. \A f \in Memberships : f \notin clashed' /\ target'[u] = f =>
         Peopling(call'[u], f, final'[f].data, Coming(u)')
  BY <1>1, <1>2, <1>4, Vocabulary DEF Fresh
<1>7. \A f \in Files : f \notin clashed' /\ target'[u] = f =>
         /\ pc'[u] = "create" => temp'[f] = NoFile
         /\ pc'[u] = "rename" => temp'[f] # NoFile /\ temp'[f].data = Coming(u)'
  BY <1>1, <1>2, <1>4 DEF Fresh
<1>8. \A f \in Memberships : target'[u] = f /\ call'[u].kind \in Creations => call'[u].kind = Creation(f)
  BY <1>1 DEF Fresh
<1> QED BY <1>5, <1>6, <1>7, <1>8 DEF Fresh

LEMMA MovesFresh ==
  ASSUME DiskInv, NEW t \in Threads, \A u \in Threads : Fresh(u), Moves(t), clashed \subseteq clashed'
  PROVE  \A u \in Threads : Fresh(u)'
<1>1. \A u \in Threads \ {t} : Fresh(u)'
  BY FreshOthers DEF Moves
<1>2. target'[t] = NoFile /\ Cp' = Cp /\ (store'[t] # Absent => store'[t] = Cp \/ store'[t] = store[t])
  BY DEF Moves, Cp
<1>3. "cp" \notin clashed' /\ store'[t] # Absent => store'[t] = Cp'
  BY <1>2 DEF Fresh
<1>4. Fresh(t)'
  BY <1>2, <1>3, NothingIsSomething, Vocabulary, ContentIs DEF Fresh
<1> QED BY <1>1, <1>4

LEMMA DecidesFresh ==
  ASSUME DiskInv, NEW t \in Threads, \A u \in Threads : Fresh(u), clashed \subseteq clashed',
         NEW f \in Files, NEW content, NEW held, Decided(t, f, content, held)
  PROVE  \A u \in Threads : Fresh(u)'
<1>1. /\ content \in Content[f] /\ held \in ControlPlaneState \cup {Absent} /\ Publish(t, f, content, held)
      /\ final' = final /\ temp' = temp
  BY DEF Decided, Publish, fileVars
<1>2. /\ OthersSame(t)
      /\ pc'[t] = "temp" /\ call'[t] = call[t] /\ store'[t] = held /\ target'[t] = f
      /\ Coming(t)' = content
  BY <1>1, PublishFact, TypeParts DEF DiskInv, Coming
<1>3. \A u \in Threads \ {t} : Fresh(u)'
  BY <1>1, <1>2, FreshOthers
<1>4. "cp" \notin clashed' /\ held # Absent => held = Cp
  BY DEF Decided, Fresh
<1>5. Fresh(t)'
  <2>1. "cp" \notin clashed' /\ store'[t] # Absent =>
          /\ store'[t] = Cp'
          /\ target'[t] = "cp" => Change(call'[t], store'[t], Coming(t)')
    BY <1>1, <1>2, <1>4 DEF Decided, Cp
  <2>2. \A g \in Memberships : target'[t] = g =>
          /\ Peopling(call'[t], g, final'[g].data, Coming(t)')
          /\ call'[t].kind \in Creations => call'[t].kind = Creation(g)
    BY <1>1, <1>2, Vocabulary DEF Decided
  <2> QED BY <1>2, <2>1, <2>2 DEF Fresh
<1> QED BY <1>3, <1>5

LEMMA PersistFresh ==
  ASSUME DiskInv, NEW t \in Threads, \A u \in Threads : Fresh(u), Persist(t), clashed \subseteq clashed'
  PROVE  \A u \in Threads : Fresh(u)'
<1> DEFINE f == target[t]
<1>1. Touches(t) /\ (Writes(t) \/ Renames(t) \/ Fails(t))
  BY PersistOutcome
<1>2. /\ f \in Files /\ f # NoFile /\ OthersSame(t) /\ Phase(t)
      /\ \A g \in Files \ {f} : final'[g] = final[g] /\ temp'[g] = temp[g]
  BY <1>1, ThreadFact, NothingIsSomething DEF Touches, OffCatalog
<1>3. ASSUME NEW u \in Threads \ {t} PROVE Fresh(u)'
  <2>1. ASSUME NEW g \in Files, g \notin clashed', Holds(u, g) PROVE g # f
    <3>1. OneWriter(g)
      BY <2>1 DEF DiskInv
    <3>2. Holds(t, f)
      BY <1>2 DEF Holds, Phase
    <3> QED BY <2>1, <3>1, <3>2 DEF OneWriter
  <2> QED BY <1>2, <2>1, FreshOthers
<1>4. CASE Writes(t)
  <2>1. /\ call'[t] = call[t] /\ store'[t] = store[t] /\ target'[t] = f /\ Coming(t)' = Coming(t)
        /\ f \notin clashed =>
           /\ final'[f].data = final[f].data
           /\ pc'[t] = "create" => temp'[f] = NoFile
           /\ pc'[t] = "rename" => temp'[f] # NoFile /\ temp'[f].data = Coming(t)
    BY <1>4 DEF Writes, Coming
  <2>2. \A g \in Files : g \notin clashed => final'[g].data = final[g].data
    BY <1>2, <2>1
  <2>3. "cp" \notin clashed => Cp' = Cp
    BY <2>2, ContentIs DEF Cp
  <2>4. "cp" \notin clashed' /\ store'[t] # Absent =>
          /\ store'[t] = Cp'
          /\ target'[t] = "cp" => Change(call'[t], store'[t], Coming(t)')
    BY <2>1, <2>3 DEF Fresh
  <2>5. \A g \in Memberships : target'[t] = g =>
          /\ g \notin clashed' => Peopling(call'[t], g, final'[g].data, Coming(t)')
          /\ call'[t].kind \in Creations => call'[t].kind = Creation(g)
    BY <2>1, <2>2, Vocabulary DEF Fresh
  <2>6. Fresh(t)'
    BY <2>1, <2>4, <2>5 DEF Fresh
  <2> QED BY <1>3, <2>6
<1>5. CASE Renames(t)
  <2>1. target'[t] = NoFile
    BY <1>5, TypeParts DEF Renames, Published, End, DiskInv, ThreadsTyped
  <2>2. store'[t] # Absent => f = "cp" /\ store'[t] = Coming(t)
    BY <1>5, TypeParts DEF Renames, Published, End, DiskInv, ThreadsTyped
  <2>3. "cp" \notin clashed' /\ store'[t] # Absent => store'[t] = Cp'
    BY <1>5, <2>2 DEF Renames, Cp
  <2>4. Fresh(t)'
    BY <2>1, <2>3, NothingIsSomething, Vocabulary, ContentIs DEF Fresh
  <2> QED BY <1>3, <2>4
<1>6. CASE Fails(t)
  <2>1. /\ target'[t] = NoFile
        /\ store'[t] # Absent => f # "cp" /\ store'[t] = store[t]
    BY <1>6 DEF Fails
  <2>2. "cp" \notin clashed' /\ store'[t] # Absent => store'[t] = Cp'
    BY <1>2, <2>1, ContentIs DEF Fresh, Cp
  <2>3. Fresh(t)'
    BY <2>1, <2>2, NothingIsSomething, Vocabulary, ContentIs DEF Fresh
  <2> QED BY <1>3, <2>3
<1> QED BY <1>1, <1>4, <1>5, <1>6

LEMMA FreshKept ==
  ASSUME DiskInv, \A u \in Threads : Fresh(u), [Next]_vars
  PROVE  \A u \in Threads : Fresh(u)'
<1>1. clashed \subseteq clashed'
  BY Monotone
<1>2. ASSUME NEW t \in Threads, Request(t) PROVE \A u \in Threads : Fresh(u)'
  <2>1. CASE Moves(t)
    BY <1>1, <2>1, MovesFresh
  <2>2. CASE Decides(t)
    <3>1. PICK f \in Files : \E content, held : Decided(t, f, content, held)
      BY <2>2 DEF Decides
    <3>2. PICK content, held : Decided(t, f, content, held)
      BY <3>1
    <3> QED BY <1>1, <3>2, DecidesFresh
  <2>3. CASE Persist(t)
    BY <1>1, <2>3, PersistFresh
  <2> QED BY <1>2, <2>1, <2>2, <2>3, RequestIs
<1>3. CASE Rests
  BY <1>3, NothingIsSomething, Vocabulary, ContentIs DEF Rests, Fresh
<1>4. CASE Rekeys
  <2>1. /\ UNCHANGED <<pc, call, store, target, next, final, temp, clashed>>
    BY <1>4 DEF Rekeys
  <2> QED BY <2>1 DEF Fresh, Coming, Cp
<1> QED BY <1>2, <1>3, <1>4, ServerStep DEF Next

-----------------------------------------------------------------------------
(* What is being deleted stays so *)

\* Start-up adds the default organization and project to a file that has neither.
LEMMA BootstrapKeepsLife ==
  ASSUME NEW s \in ControlPlaneState
  PROVE  /\ LifeKept(s, BootstrapDefault(s))
         /\ \A f \in Memberships : \A x \in Resources(f) :
              /\ Exists(s, f, x) => Exists(BootstrapDefault(s), f, x)
              /\ Exists(BootstrapDefault(s), f, x) /\ x # Bootstrapped(f) => Exists(s, f, x)
<1>1. CASE ~NoDefaults(s)
  BY <1>1 DEF BootstrapDefault, LifeKept
<1>2. CASE NoDefaults(s)
  <2> DEFINE s1 == PutOrg(s, DefaultOrg, DefaultPair.org)
             n == PutProject(s1, DefaultProject, DefaultPair.project)
  <2>1. DefaultOrg \in Orgs /\ DefaultProject \in Projects /\ DefaultSlug \in Slugs
    BY ControlPlaneAssumption
  <2>2. DefaultPair.org \in Organization /\ DefaultPair.project \in Project
    BY <2>1 DEF DefaultPair, Organization, Project, Lifecycles
  <2>3. DefaultPair.org # Absent /\ DefaultPair.project # Absent
    BY <2>2, NothingIsSomething
  <2>4. /\ s1 \in ControlPlaneState /\ s1.projects = s.projects
        /\ \A x \in Orgs : s1.orgs[x] = IF x = DefaultOrg THEN DefaultPair.org ELSE s.orgs[x]
    BY <2>1, <2>2, PutOrgFact
  <2> HIDE DEF s1
  <2>5. /\ n \in ControlPlaneState /\ n.orgs = s1.orgs
        /\ \A x \in Projects : n.projects[x] = IF x = DefaultProject THEN DefaultPair.project ELSE s1.projects[x]
    BY <2>1, <2>2, <2>4, PutProjectFact
  <2>6. BootstrapDefault(s) = n
    BY <1>2 DEF BootstrapDefault, s1
  <2> HIDE DEF n
  <2>7. s.orgs[DefaultOrg] = Absent /\ s.projects[DefaultProject] = Absent
    BY <1>2 DEF NoDefaults
  <2>8. LifeKept(s, n)
    BY <2>4, <2>5, <2>7 DEF LifeKept
  <2>9. ASSUME NEW f \in Memberships, NEW x \in Resources(f)
        PROVE  (Exists(s, f, x) => Exists(n, f, x)) /\ (Exists(n, f, x) /\ x # Bootstrapped(f) => Exists(s, f, x))
    <3>1. CASE f = "om"
      BY <2>3, <2>4, <2>5, <2>9, <3>1, Vocabulary
    <3>2. CASE f = "pm"
      BY <2>3, <2>4, <2>5, <2>9, <3>2, Vocabulary
    <3> QED BY <3>1, <3>2, Vocabulary
  <2> QED BY <2>6, <2>8, <2>9
<1> QED BY <1>1, <1>2

\* What a start writes.
LEMMA StartWrites ==
  ASSUME DiskInv, Start
  PROVE  /\ Cp \in ControlPlaneState /\ Cp' = BootstrapDefault(Cp)
         /\ \A f \in Files \ {"cp"} : final'[f] = final[f]
<1>1. /\ final' = [final EXCEPT !["cp"].data = BootstrapDefault(@)] /\ Cp # Unreadable
  BY DEF Start, StartAccepted
<1>2. /\ DOMAIN final = Files /\ final["cp"] \in Entry("cp") /\ "cp" \in Files
  BY TypeParts, ContentIs DEF DiskInv, FilesTyped
<1>3. final'["cp"] = [final["cp"] EXCEPT !.data = BootstrapDefault(final["cp"].data)]
  BY <1>1, <1>2
<1>4. final'["cp"].data = BootstrapDefault(final["cp"].data)
  BY <1>2, <1>3 DEF Entry
<1> QED BY <1>1, <1>2, <1>4, ReadsAreGood DEF Cp

\* Under this invariant a file nobody overlapped on changes only as its one writer decided.
LEMMA DeletingStays ==
  ASSUME DiskInv, \A u \in Threads : Fresh(u), [Next]_vars, Cp # Unreadable, "cp" \notin clashed'
  PROVE  LifeKept(Cp, Cp')
<1>1. "cp" \notin clashed
  BY Monotone
<1>2. Cp' = Cp => LifeKept(Cp, Cp')
  BY DEF LifeKept
<1>3. ASSUME NEW t \in Threads, Request(t) PROVE LifeKept(Cp, Cp')
  <2>1. CASE Moves(t) \/ Decides(t)
    BY <1>2, <2>1 DEF Moves, Decides, Decided, Publish, fileVars, Cp
  <2>2. CASE Persist(t)
    <3>1. Touches(t) /\ (Writes(t) \/ Renames(t) \/ Fails(t))
      BY <2>2, PersistOutcome
    <3>2. CASE target[t] # "cp"
      BY <1>2, <3>1, <3>2, ContentIs DEF Touches, Cp
    <3>3. CASE target[t] = "cp"
      <4>1. Cp' \in {Cp, Coming(t)}
        BY <1>1, <3>1, <3>3 DEF Writes, Renames, Fails, Cp
      <4>2. store[t] # Absent
        BY <3>3, ThreadFact DEF Phase
      <4>3. LifeKept(Cp, Coming(t))
        BY <1>1, <3>3, <4>2 DEF Fresh, Change
      <4> QED BY <1>2, <4>1, <4>3
    <3> QED BY <3>2, <3>3
  <2> QED BY <1>3, <2>1, <2>2, RequestIs
<1>4. CASE Rests
  <2>1. CASE Start
    BY <2>1, StartWrites, BootstrapKeepsLife
  <2>2. CASE ~Start
    BY <1>2, <1>4, <2>2, ContentIs DEF Rests, Cp
  <2> QED BY <2>1, <2>2
<1>5. CASE Rekeys
  BY <1>2, <1>5 DEF Rekeys, Cp
<1> QED BY <1>3, <1>4, <1>5, ServerStep DEF Next

-----------------------------------------------------------------------------
(* The catalog *)

\* A step away from the collections.
LEMMA OffCatalogKeeps ==
  ASSUME CatalogInv, NEW t \in Threads, OffCatalog(t)
  PROVE  CatalogInv'
<1>1. ASSUME NEW u \in Threads PROVE Handler(u)' /\ (pc'[u] \in Handling => pc[u] \in Handling /\ u # t)
  BY DEF CatalogInv, OffCatalog, OthersSame, Handler
<1>2. \A u, v \in Threads :
        pc'[u] \in Handling /\ pc'[v] \in Handling /\ call'[u].project = call'[v].project => u = v
  BY <1>1 DEF CatalogInv, OffCatalog, OthersSame
<1>3. CatalogCovers'
  BY DEF CatalogInv, OffCatalog, CatalogCovers
<1> QED BY <1>1, <1>2, <1>3 DEF CatalogInv

\* A step of the one request that handles a project, and changes what is recorded of it alone.
LEMMA HandlerKeeps ==
  ASSUME CatalogInv, NEW t \in Threads, OthersSame(t), NEW p, p = call[t].project,
         \A u \in Threads \ {t} : pc[u] \in Handling => call[u].project # p,
         \A q : q # p => /\ q \in catalog' <=> q \in catalog
                         /\ q \in claims' <=> q \in claims
                         /\ q \in spaces' <=> q \in spaces
                         /\ q \in data' <=> q \in data,
         pc'[t] \in Handling => call'[t] = call[t],
         (p \in claims' => p \in catalog') /\ (p \in data' => p \in spaces')
           /\ (p \in spaces' => p \in catalog'),
         Handler(t)'
  PROVE  CatalogInv'
<1>1. CatalogCovers'
  BY DEF CatalogInv, CatalogCovers
<1>2. ASSUME NEW u \in Threads \ {t} PROVE Handler(u)'
  <2>1. pc'[u] = pc[u] /\ call'[u] = call[u] /\ Handler(u)
    BY DEF OthersSame, CatalogInv
  <2> QED BY <2>1 DEF Handler
<1>3. \A u, v \in Threads :
        pc'[u] \in Handling /\ pc'[v] \in Handling /\ call'[u].project = call'[v].project => u = v
  BY DEF CatalogInv, OthersSame
<1> QED BY <1>1, <1>2, <1>3 DEF CatalogInv

\* The collection steps: nobody else handles the project.  Its entry comes first and goes last.
LEMMA CollectionKeepsCatalog ==
  ASSUME DiskInv, CatalogInv, NEW t \in Threads, Collection(t)
  PROVE  CatalogInv'
<1> DEFINE p == call[t].project
<1>1. CatalogCovers /\ Handler(t) /\ OthersSame(t) /\ ThreadsTyped
  BY CollectionMoves, TypeParts DEF CatalogInv, Moves, DiskInv
<1>2. pc[t] \in Handling => \A u \in Threads \ {t} : pc[u] \in Handling => call[u].project # p
  BY DEF CatalogInv
<1>3. p \notin catalog \/ p \in data => \A u \in Threads \ {t} : pc[u] \in Handling => call[u].project # p
  BY DEF CatalogInv, Handler
<1>4. ASSUME NEW label \in Handling, CollectionStep(t, label) PROVE pc'[t] = label /\ call'[t] = call[t]
  BY <1>1, <1>4 DEF CollectionStep, Goto, ThreadsTyped
<1>5. End(t) => pc'[t] = "idle"
  BY <1>1 DEF End, ThreadsTyped
<1>6. CASE CreateScope(t)
  <2>1. /\ pc[t] = "scope" /\ p \notin catalog /\ catalog' = catalog \cup {p}
        /\ pc'[t] = "claim" /\ call'[t] = call[t] /\ UNCHANGED <<claims, spaces, data>>
    BY <1>4, <1>6 DEF CreateScope, Handling
  <2>2. Handler(t)'
    BY <1>1, <2>1 DEF Handler, CatalogCovers
  <2> QED BY <1>1, <1>3, <2>1, <2>2, HandlerKeeps DEF CatalogCovers
<1>7. CASE ClaimCollection(t)
  <2>1. /\ pc[t] = "claim" /\ UNCHANGED <<catalog, spaces, data>> /\ call'[t] = call[t]
        /\ \/ claims' = claims \cup {p} /\ pc'[t] = "namespace"
           \/ claims' = claims /\ pc'[t] = "unscope"
    BY <1>4, <1>7 DEF ClaimCollection, Handling
  <2>2. Handler(t)'
    BY <1>1, <2>1 DEF Handler, Handling
  <2> QED BY <1>1, <1>2, <2>1, <2>2, HandlerKeeps DEF CatalogCovers, Handler, Handling
<1>8. CASE CreateNamespace(t)
  <2>1. /\ pc[t] = "namespace" /\ UNCHANGED <<catalog, claims, data>> /\ spaces' = spaces \cup {p}
        /\ call'[t] = call[t] /\ pc'[t] = "collection"
    BY <1>4, <1>8 DEF CreateNamespace, Handling
  <2>2. Handler(t)'
    BY <1>1, <2>1 DEF Handler, Handling
  <2> QED BY <1>1, <1>2, <2>1, <2>2, HandlerKeeps DEF CatalogCovers, Handler, Handling
<1>9. CASE CreateData(t)
  <2>1. /\ pc[t] = "collection" /\ UNCHANGED <<catalog, claims, spaces>> /\ data' = data \cup {p}
        /\ pc'[t] = "idle"
    BY <1>5, <1>9 DEF CreateData
  <2>2. Handler(t)'
    BY <2>1 DEF Handler, Handling
  <2> QED BY <1>1, <1>2, <2>1, <2>2, HandlerKeeps DEF CatalogCovers, Handler, Handling
<1>10. CASE CreateDataFails(t)
  <2>1. /\ pc[t] \in {"namespace", "collection"} /\ UNCHANGED <<catalog, data>>
        /\ claims' = claims \ {p} /\ spaces' = spaces \ {p}
        /\ call'[t] = call[t] /\ pc'[t] = "unscope"
    BY <1>4, <1>10 DEF CreateDataFails, Handling
  <2>2. p \notin data /\ p \in catalog
    BY <1>1, <2>1 DEF Handler, Handling
  <2>3. Handler(t)'
    BY <2>1, <2>2 DEF Handler, Handling
  <2> QED BY <1>1, <1>2, <2>1, <2>2, <2>3, HandlerKeeps DEF CatalogCovers, Handling
<1>11. CASE DeleteData(t)
  <2>1. /\ pc[t] = "drop" /\ p \in data /\ UNCHANGED <<catalog, claims>>
        /\ data' = data \ {p} /\ spaces' = spaces \ {p}
        /\ call'[t] = call[t] /\ pc'[t] = "unclaim"
    BY <1>4, <1>11 DEF DeleteData, Handling
  <2>2. Handler(t)'
    BY <1>1, <2>1 DEF Handler, CatalogCovers
  <2> QED BY <1>1, <1>3, <2>1, <2>2, HandlerKeeps DEF CatalogCovers
<1>12. CASE DeleteDataFails(t)
  <2>1. /\ p \in data /\ UNCHANGED <<catalog, claims>> /\ pc'[t] = "idle"
        /\ \/ UNCHANGED <<data, spaces>>
           \/ data' = data \ {p} /\ spaces' = spaces \ {p}
    BY <1>5, <1>12 DEF DeleteDataFails
  <2>2. Handler(t)'
    BY <2>1 DEF Handler, Handling
  <2> QED BY <1>1, <1>3, <2>1, <2>2, HandlerKeeps DEF CatalogCovers, Handling
<1>13. CASE RemoveClaim(t)
  <2>1. /\ pc[t] = "unclaim" /\ UNCHANGED <<catalog, spaces, data>>
        /\ \/ claims' = claims \ {p} /\ pc'[t] = "unscope" /\ call'[t] = call[t]
           \/ claims' = claims /\ pc'[t] = "idle"
    BY <1>4, <1>5, <1>13 DEF RemoveClaim, Handling
  <2>2. Handler(t)'
    BY <1>1, <2>1 DEF Handler, Handling
  <2> QED BY <1>1, <1>2, <2>1, <2>2, HandlerKeeps DEF CatalogCovers, Handler, Handling
<1>14. CASE RemoveScope(t)
  <2>1. /\ pc[t] = "unscope" /\ UNCHANGED <<claims, spaces, data>> /\ catalog' = catalog \ {p}
        /\ pc'[t] = "idle"
    BY <1>5, <1>14 DEF RemoveScope
  <2>2. p \notin claims /\ p \notin spaces /\ p \notin data
    BY <1>1, <2>1 DEF Handler, Handling
  <2>3. Handler(t)'
    BY <2>1 DEF Handler, Handling
  <2> QED BY <1>1, <1>2, <2>1, <2>2, <2>3, HandlerKeeps DEF CatalogCovers, Handling
<1> QED BY <1>6, <1>7, <1>8, <1>9, <1>10, <1>11, <1>12, <1>13, <1>14 DEF Collection

\* Requests that publish are away from the collections.
LEMMA PublishingOffCatalog ==
  ASSUME DiskInv, NEW t \in Threads, NEW f \in Files, NEW content, NEW held, Decided(t, f, content, held)
  PROVE  OffCatalog(t)
<1>1. /\ content \in Content[f] /\ held \in ControlPlaneState \cup {Absent} /\ Publish(t, f, content, held)
      /\ pc[t] \in {"apply", "rollback", "owner", "purge"}
      /\ UNCHANGED <<catalog, claims, spaces, data, keys>>
  BY DEF Decided, Publish, planeVars
<1>2. OthersSame(t) /\ pc'[t] = "temp"
  BY <1>1, PublishFact, TypeParts DEF DiskInv
<1> QED BY <1>1, <1>2 DEF OffCatalog, Handling

LEMMA CatalogKept ==
  ASSUME DiskInv, CatalogInv, \A u \in Threads : Fresh(u), [Next]_vars
  PROVE  CatalogInv'
<1>1. ASSUME NEW t \in Threads, Request(t) PROVE CatalogInv'
  <2>1. CASE OffCatalog(t)
    BY <2>1, OffCatalogKeeps
  <2>2. CASE Collection(t)
    BY <2>2, CollectionKeepsCatalog
  <2>3. CASE Decides(t)
    <3>1. PICK f \in Files : \E content, held : Decided(t, f, content, held)
      BY <2>3 DEF Decides
    <3>2. PICK content, held : Decided(t, f, content, held)
      BY <3>1
    <3> QED BY <2>1, <3>2, PublishingOffCatalog
  <2>4. CASE Persist(t)
    BY <2>1, <2>4, PersistOutcome DEF Touches
  <2> QED BY <1>1, <2>1, <2>2, <2>3, <2>4, RequestIs
<1>2. CASE Rests
  <2>1. \A u \in Threads : pc'[u] \notin Handling
    BY <1>2 DEF Rests, Handling
  <2>2. CatalogCovers'
    BY <1>2 DEF Rests, CatalogInv, CatalogCovers
  <2> QED BY <2>1, <2>2 DEF CatalogInv, Handler
<1>3. CASE Rekeys
  BY <1>3 DEF Rekeys, CatalogInv, CatalogCovers, Handler
<1> QED BY <1>1, <1>2, <1>3, ServerStep DEF Next

-----------------------------------------------------------------------------
(* Records and members agree *)

\* What AgreeInv stands on.
AgreeBase(f) == DiskInv /\ (\A u \in Threads : Fresh(u)) /\ AgreeInv(f)

LEMMA CleanFact ==
  ASSUME NEW f \in Memberships, AgreeBase(f), Clean(f)
  PROVE  /\ "cp" \notin clashed /\ f \notin clashed /\ faults = 0 /\ f \in Files /\ f # "cp" /\ f # NoFile
         /\ Cp # Unreadable /\ final[f].data # Unreadable
         /\ \A t \in Threads : Halfway(t, f) /\ (store[t] # Absent => store[t] = Cp)
         /\ \A t, u \in Threads : store[t] # Absent /\ store[u] # Absent => t = u
         /\ \A t, u \in Threads : target[t] = f /\ target[u] = f => t = u
         /\ \A x \in Resources(f) :
              Agrees(f, x) \/ \E t \in Threads : Between(t, f) /\ Named(call[t], f) = x
<1>1. /\ "cp" \notin clashed /\ f \notin clashed /\ faults = 0 /\ f \in Files /\ f # "cp" /\ f # NoFile
  BY Vocabulary, NothingIsSomething DEF Clean
<1>2. OneWriter("cp") /\ OneWriter(f)
  BY <1>1, ContentIs DEF AgreeBase, DiskInv
<1> QED BY <1>1, <1>2 DEF AgreeBase, AgreeInv, Fresh, OneWriter, Holds, Cp

\* The requests that took no step are where they were.
LEMMA HalfwayOthers ==
  ASSUME NEW f \in Memberships, NEW t \in Threads, NEW u \in Threads \ {t}, OthersSame(t), Halfway(u, f),
         /\ pc[u] = "owner" \/ target[u] = f
         /\ call[u].kind = Creation(f) /\ store[u] # Absent
         /\ ~Peopled(final[f].data, Named(call[u], f))
         => ~Peopled(final'[f].data, Named(call[u], f))
  PROVE  Halfway(u, f)' /\ (Between(u, f)' <=> Between(u, f))
<1>1. /\ pc'[u] = pc[u] /\ call'[u] = call[u] /\ store'[u] = store[u]
      /\ target'[u] = target[u] /\ next'[u] = next[u]
  BY DEF OthersSame
<1>2. Coming(u)' = Coming(u)
  BY <1>1 DEF Coming
<1>3. Between(u, f)' <=> Between(u, f)
  BY <1>1 DEF Between
<1>4. Halfway(u, f)'
  BY <1>1, <1>2 DEF Halfway
<1> QED BY <1>3, <1>4

\* A request that is over, or publishes nothing and is not between its files, owes nothing.
LEMMA NothingOwed ==
  ASSUME NEW f \in Memberships, NEW t \in Threads, target'[t] = NoFile, pc'[t] \notin {"owner", "purge"},
         pc'[t] = "rollback" => call'[t].kind # Creation(f)
  PROVE  Halfway(t, f)'
BY Vocabulary, NothingIsSomething, ContentIs DEF Halfway

\* Putting the two together.
LEMMA AgreeFrom ==
  ASSUME NEW f \in Memberships, AgreeBase(f), Clean(f), NEW t \in Threads,
         \A u \in Threads \ {t} : Halfway(u, f)' /\ (Between(u, f)' <=> Between(u, f)),
         OthersSame(t), Halfway(t, f)',
         \A x \in Resources(f) :
           Agrees(f, x) \/ (Between(t, f) /\ Named(call[t], f) = x) =>
             Agrees(f, x)' \/ (Between(t, f)' /\ Named(call'[t], f) = x)
  PROVE  AgreeInv(f)'
<1>1. ASSUME NEW x \in Resources(f)
      PROVE  Agrees(f, x)' \/ \E u \in Threads : Between(u, f)' /\ Named(call'[u], f) = x
  <2>1. CASE Agrees(f, x) \/ (Between(t, f) /\ Named(call[t], f) = x)
    BY <1>1, <2>1
  <2>2. ASSUME NEW u \in Threads \ {t}, Between(u, f), Named(call[u], f) = x
        PROVE  Between(u, f)' /\ Named(call'[u], f) = x
    BY <2>2 DEF OthersSame
  <2> QED BY <1>1, <2>1, <2>2, CleanFact
<1>2. \A u \in Threads : Halfway(u, f)'
  OBVIOUS
<1> QED BY <1>1, <1>2 DEF AgreeInv

LEMMA MovesAgree ==
  ASSUME NEW f \in Memberships, AgreeBase(f), Clean(f), NEW t \in Threads, Moves(t)
  PROVE  AgreeInv(f)'
<1>1. /\ OthersSame(t) /\ final' = final /\ Cp' = Cp /\ target[t] = NoFile /\ target'[t] = NoFile
      /\ pc'[t] \notin {"owner", "purge"}
      /\ pc'[t] = "rollback" => BootstrapRefused(t)
      /\ pc[t] \in {"owner", "purge"} => BootstrapRefused(t) \/ Refuse(t)
  BY DEF Moves, Cp
<1>2. /\ Halfway(t, f) /\ Phase(t) /\ f # NoFile
      /\ Creation(f) # Deletion(f) /\ Creation(f) \in Creations /\ Deletion(f) \notin Creations
  BY CleanFact, ThreadFact DEF Creation, Deletion, Creations, AgreeBase
<1>3. ASSUME BootstrapRefused(t) PROVE call[t].kind # Creation(f) /\ call' = call /\ pc[t] = "owner"
  <2>1. /\ pc[t] = "owner" /\ call' = call
        /\ \/ call[t].kind = "create_org" /\ ~(Cp.orgs[call[t].org] # Absent /\ NoMembers(Om[call[t].org]))
           \/ /\ call[t].kind = "create_project"
              /\ ~(Cp.projects[call[t].project] # Absent /\ NoMembers(Pm[call[t].project]))
    BY <1>3 DEF BootstrapRefused, At, Goto
  <2>2. ASSUME call[t].kind = Creation(f)
        PROVE  Exists(Cp, f, Named(call[t], f)) /\ ~Peopled(final[f].data, Named(call[t], f))
    BY <1>2, <2>1, <2>2, CleanFact DEF Halfway
  <2>3. CASE f = "om"
    BY <2>1, <2>2, <2>3, Vocabulary DEF Peopled, Om
  <2>4. CASE f = "pm"
    BY <2>1, <2>2, <2>4, Vocabulary DEF Peopled, Pm
  <2> QED BY <2>1, <2>3, <2>4, Vocabulary
<1>4. Halfway(t, f)'
  BY <1>1, <1>3, NothingOwed
<1>5. \A u \in Threads \ {t} : Halfway(u, f)' /\ (Between(u, f)' <=> Between(u, f))
  BY <1>1, HalfwayOthers, CleanFact
<1>6. ASSUME NEW x \in Resources(f), Between(t, f), Named(call[t], f) = x PROVE Agrees(f, x)
  <2>1. pc[t] \in {"owner", "purge"} /\ call[t].kind \in {Creation(f), Deletion(f)}
    BY <1>1, <1>2, <1>6 DEF Between
  <2>2. ~BootstrapRefused(t)
    BY <1>1, <1>2, <1>3, <1>6 DEF Between
  <2>3. Refused(t)
    BY <1>1, <2>1, <2>2 DEF Refuse
  <2>4. MembersOpen(t)
    <3>1. f = "om" => call[t].kind \in {"create_org", "delete_org"}
      BY <2>1, Vocabulary
    <3>2. f = "pm" => call[t].kind \notin {"create_org", "delete_org"}
      BY <2>1, Vocabulary
    <3> QED BY <3>1, <3>2, CleanFact, Vocabulary DEF MembersOpen
  <2>5. pc[t] = "purge" /\ ~HasMembers(t)
    BY <2>1, <2>3, <2>4 DEF Refused, At
  <2>6. call[t].kind = Deletion(f)
    BY <1>1, <1>2, <1>6, <2>5 DEF Between
  <2>7. ~Peopled(final[f].data, x)
    BY <1>6, <2>5, <2>6, Vocabulary DEF HasMembers, Peopled, Om, Pm
  <2>8. ~Exists(Cp, f, x)
    BY <1>2, <1>6, <2>5, <2>6, CleanFact DEF Halfway
  <2> QED BY <2>7, <2>8 DEF Agrees
<1>7. \A x \in Resources(f) : Agrees(f, x)' <=> Agrees(f, x)
  BY <1>1 DEF Agrees
<1> QED BY <1>1, <1>4, <1>5, <1>6, <1>7, AgreeFrom

LEMMA DecidesAgree ==
  ASSUME NEW f \in Memberships, AgreeBase(f), Clean(f), NEW t \in Threads,
         NEW g \in Files, NEW content, NEW held, Decided(t, g, content, held)
  PROVE  AgreeInv(f)'
<1>1. /\ content \in Content[g] /\ held \in ControlPlaneState \cup {Absent} /\ Publish(t, g, content, held)
      /\ final' = final /\ Cp' = Cp /\ pc[t] \in {"apply", "rollback", "owner", "purge"}
  BY DEF Decided, Publish, fileVars, Cp
<1>2. /\ OthersSame(t)
      /\ pc'[t] = "temp" /\ call'[t] = call[t] /\ store'[t] = held /\ target'[t] = g
      /\ Coming(t)' = content
  BY <1>1, PublishFact, TypeParts DEF AgreeBase, DiskInv, Coming
<1>3. Halfway(t, f) /\ target[t] = NoFile /\ f # NoFile /\ f # "cp"
  BY <1>1, CleanFact, ThreadFact DEF Phase, Publishing, AgreeBase
<1>4. \A h \in Memberships : /\ Creation(h) # Deletion(h) /\ Creation(h) \in Creations /\ Deletion(h) \notin Creations
                             /\ {Creation(h), Deletion(h)} \cap {Creation(f), Deletion(f)} # {} => h = f
  BY Vocabulary DEF Creations
<1>5. Halfway(t, f)'
  <2>1. ASSUME target'[t] = "cp", call[t].kind = Creation(f)
        PROVE  ~Exists(held, f, Named(call[t], f)) /\ Exists(content, f, Named(call[t], f))
    BY <1>2, <1>3, <2>1 DEF Decided, Halfway
  <2>2. ASSUME target'[t] = f, call[t].kind = Creation(f)
        PROVE  held # Absent /\ Exists(held, f, Named(call[t], f)) /\ ~Peopled(final[f].data, Named(call[t], f))
    BY <1>2, <1>3, <1>4, <2>2 DEF Decided, Halfway
  <2>3. ASSUME target'[t] = f, call[t].kind = Deletion(f)
        PROVE  held # Absent /\ ~Exists(held, f, Named(call[t], f))
    BY <1>2, <1>3, <1>4, <2>3 DEF Decided, Halfway
  <2> QED BY <1>1, <1>2, <2>1, <2>2, <2>3 DEF Halfway
<1>6. ASSUME Between(t, f) PROVE Between(t, f)'
  <2>1. pc[t] \in {"owner", "purge"} /\ call[t].kind \in {Creation(f), Deletion(f)}
    BY <1>3, <1>6 DEF Between
  <2>2. g # "cp" /\ call[t].kind \in {Creation(g), Deletion(g)} /\ g \in Memberships
    BY <2>1, ContentIs DEF Decided, Memberships
  <2>3. g = f
    BY <1>4, <2>1, <2>2
  <2> QED BY <1>2, <2>1, <2>3 DEF Between
<1>7. \A u \in Threads \ {t} : Halfway(u, f)' /\ (Between(u, f)' <=> Between(u, f))
  BY <1>1, <1>2, HalfwayOthers, CleanFact
<1>8. \A x \in Resources(f) : Agrees(f, x)' <=> Agrees(f, x)
  BY <1>1 DEF Agrees
<1> QED BY <1>2, <1>5, <1>6, <1>7, <1>8, AgreeFrom

LEMMA WritesAgree ==
  ASSUME NEW f \in Memberships, AgreeBase(f), Clean(f), NEW t \in Threads, Touches(t), Writes(t)
  PROVE  AgreeInv(f)'
<1>1. /\ OthersSame(t) /\ Cp' = Cp /\ final'[f].data = final[f].data
      /\ call'[t] = call[t] /\ store'[t] = store[t] /\ target'[t] = target[t]
      /\ pc[t] \in Publishing /\ pc'[t] \in Publishing
  <2>1. \A g \in {"cp", f} : final'[g].data = final[g].data
    BY CleanFact, ContentIs DEF Touches, Writes
  <2> QED BY <2>1 DEF Touches, OffCatalog, Writes, Cp
<1>2. Coming(t)' = Coming(t)
  BY DEF Writes, Coming
<1>3. Halfway(t, f) /\ pc[t] \notin {"owner", "purge", "rollback"} /\ pc'[t] \notin {"owner", "purge", "rollback"}
  BY <1>1, CleanFact DEF Publishing
<1>4. Halfway(t, f)'
  BY <1>1, <1>2, <1>3 DEF Halfway
<1>5. Between(t, f)' <=> Between(t, f)
  BY <1>1, <1>3 DEF Between
<1>6. \A u \in Threads \ {t} : Halfway(u, f)' /\ (Between(u, f)' <=> Between(u, f))
  BY <1>1, HalfwayOthers, CleanFact
<1>7. \A x \in Resources(f) : Agrees(f, x)' <=> Agrees(f, x)
  BY <1>1 DEF Agrees
<1> QED BY <1>1, <1>4, <1>5, <1>6, <1>7, AgreeFrom

\* A request that has published the control-plane file goes on to the second file when it has added
\* or removed a record, and only then.
LEMMA PlanePublished ==
  ASSUME DiskInv, NEW t \in Threads, Published(t), target[t] = "cp"
  PROVE  /\ OthersSame(t) /\ target'[t] = NoFile
         /\ \/ /\ pc'[t] = (IF Created(t) THEN "owner" ELSE "purge")
               /\ store'[t] = Coming(t) /\ call'[t] = call[t]
            \/ /\ pc'[t] = "idle" /\ ~Created(t)
               /\ \A f \in Memberships : call[t].kind # Deletion(f)
<1>1. ThreadsTyped
  BY TypeParts DEF DiskInv
<1>2. CASE Created(t) \/ call[t].kind \in {"delete_org", "delete_project"}
  BY <1>1, <1>2 DEF Published, OthersSame, ThreadsTyped
<1>3. CASE ~(Created(t) \/ call[t].kind \in {"delete_org", "delete_project"})
  <2>1. End(t)
    BY <1>3 DEF Published
  <2> QED BY <1>1, <1>3, <2>1, EndFact, Vocabulary
<1> QED BY <1>2, <1>3

LEMMA PlaneRenamedAgree ==
  ASSUME NEW f \in Memberships, AgreeBase(f), Clean(f), NEW t \in Threads, Touches(t), Renames(t),
         target[t] = "cp"
  PROVE  AgreeInv(f)'
<1> DEFINE c == call[t]
           n == Coming(t)
           y == Named(c, f)
<1>1. /\ Phase(t) /\ store[t] = Cp /\ store[t] # Absent /\ Halfway(t, f) /\ Change(c, Cp, n)
      /\ f # "cp" /\ f \in Files
  BY CleanFact, ThreadFact DEF AgreeBase, Phase, Fresh
<1>2. Cp' = n /\ final'[f].data = final[f].data
  BY <1>1, CleanFact DEF Renames, Touches, Cp
<1>3. /\ OthersSame(t) /\ target'[t] = NoFile /\ pc[t] = "rename"
      /\ \/ /\ pc'[t] = (IF Created(t) THEN "owner" ELSE "purge") /\ store'[t] = n /\ call'[t] = c
         \/ pc'[t] = "idle" /\ ~Created(t) /\ c.kind # Deletion(f)
  BY PlanePublished DEF Renames, AgreeBase
<1>4. \A x \in Resources(f) : (x = y /\ c.kind \in {Creation(f), Deletion(f)}) \/ (Exists(n, f, x) <=> Exists(Cp, f, x))
  BY <1>1 DEF Change
<1>5. y \in Resources(f) /\ Creation(f) # Deletion(f)
  <2>1. c \in Calls
    BY <1>1, <1>3 DEF Phase
  <2> QED BY <2>1, CallFact, Vocabulary
<1>6. ~Between(t, f) /\ f # NoFile
  BY <1>1, <1>3, CleanFact DEF Between
<1>7. ASSUME c.kind = Creation(f)
      PROVE  Exists(n, f, y) /\ ~Exists(Cp, f, y) /\ ~Peopled(final[f].data, y) /\ Created(t)
  <2>1. Exists(n, f, y) /\ ~Exists(Cp, f, y)
    BY <1>1, <1>7 DEF Halfway
  <2>2. Created(t)
    BY <1>7, <2>1, Vocabulary DEF Created
  <2>3. \A u \in Threads : Between(u, f) => store[u] # Absent
    BY CleanFact DEF Between, Halfway
  <2>4. \A u \in Threads : ~Between(u, f)
    BY <1>1, <1>6, <2>3, CleanFact
  <2>5. Agrees(f, y)
    BY <1>5, <2>4, CleanFact
  <2> QED BY <2>1, <2>2, <2>5 DEF Agrees
<1>8. ASSUME c.kind = Deletion(f) PROVE ~Exists(n, f, y) /\ ~Created(t)
  <2>1. ~Exists(n, f, y)
    BY <1>1, <1>8 DEF Change
  <2>2. c.kind \notin {"create_org", "create_project"}
    BY <1>8, Vocabulary
  <2> QED BY <2>1, <2>2 DEF Created
<1>9. Halfway(t, f)'
  <2>1. target'[t] \notin {"cp", f} /\ pc'[t] # "rollback"
    BY <1>1, <1>3, <1>6, ContentIs, NothingIsSomething
  <2>2. ASSUME pc'[t] = "owner", call'[t].kind = Creation(f)
        PROVE  /\ store'[t] # Absent /\ Exists(store'[t], f, Named(call'[t], f))
               /\ ~Peopled(final'[f].data, Named(call'[t], f))
    <3>1. call'[t] = c /\ store'[t] = n /\ n # Absent
      BY <1>3, <2>2, ThreadFact, ContentIs, NothingIsSomething DEF AgreeBase
    <3> QED BY <1>2, <1>7, <2>2, <3>1
  <2>3. ASSUME pc'[t] = "purge", call'[t].kind = Deletion(f)
        PROVE  store'[t] # Absent /\ ~Exists(store'[t], f, Named(call'[t], f))
    <3>1. call'[t] = c /\ store'[t] = n /\ n # Absent
      BY <1>3, <2>3, ThreadFact, ContentIs, NothingIsSomething DEF AgreeBase
    <3> QED BY <1>8, <2>3, <3>1
  <2> QED BY <2>1, <2>2, <2>3 DEF Halfway
<1>10. c.kind \in {Creation(f), Deletion(f)} => Between(t, f)' /\ Named(call'[t], f) = y
  BY <1>3, <1>5, <1>7, <1>8 DEF Between
<1>11. \A u \in Threads \ {t} : Halfway(u, f)' /\ (Between(u, f)' <=> Between(u, f))
  BY <1>2, <1>3, HalfwayOthers, CleanFact
<1>12. ASSUME NEW x \in Resources(f), Agrees(f, x)
       PROVE  Agrees(f, x)' \/ (Between(t, f)' /\ Named(call'[t], f) = x)
  <2>1. CASE x = y /\ c.kind \in {Creation(f), Deletion(f)}
    BY <1>10, <2>1
  <2>2. CASE Exists(n, f, x) <=> Exists(Cp, f, x)
    BY <1>2, <1>12, <2>2 DEF Agrees
  <2> QED BY <1>4, <2>1, <2>2
<1> QED BY <1>3, <1>6, <1>9, <1>11, <1>12, AgreeFrom

LEMMA MembersRenamedAgree ==
  ASSUME NEW f \in Memberships, AgreeBase(f), Clean(f), NEW t \in Threads, Touches(t), Renames(t),
         target[t] # "cp"
  PROVE  AgreeInv(f)'
<1> DEFINE c == call[t]
           y == Named(c, f)
<1>1. /\ Phase(t) /\ Halfway(t, f) /\ f # "cp" /\ f \in Files /\ pc[t] = "rename" /\ target[t] \in Files
      /\ target[t] # NoFile
  BY CleanFact, ThreadFact, NothingIsSomething DEF AgreeBase, Renames, Touches
<1>2. OthersSame(t) /\ target'[t] = NoFile /\ pc'[t] = "idle"
  <2>1. End(t) /\ ThreadsTyped
    BY TypeParts DEF Renames, Published, AgreeBase, DiskInv
  <2> QED BY <2>1, EndFact
<1>3. Cp' = Cp
  BY ContentIs DEF Touches, Cp
<1>4. Halfway(t, f)'
  BY <1>2, NothingOwed
<1>5. CASE target[t] # f
  <2>1. final'[f].data = final[f].data
    BY <1>1, <1>5 DEF Touches
  <2>2. \A u \in Threads \ {t} : Halfway(u, f)' /\ (Between(u, f)' <=> Between(u, f))
    BY <1>2, <2>1, HalfwayOthers, CleanFact
  <2>3. ~Between(t, f)
    BY <1>1, <1>5 DEF Between
  <2>4. \A x \in Resources(f) : Agrees(f, x)' <=> Agrees(f, x)
    BY <1>3, <2>1 DEF Agrees
  <2> QED BY <1>2, <1>4, <2>2, <2>3, <2>4, AgreeFrom
<1>6. CASE target[t] = f
  <2>1. /\ final'[f].data = Coming(t) /\ Peopling(c, f, final[f].data, Coming(t))
        /\ c.kind = Creation(f) => store[t] # Absent
    BY <1>1, <1>6, CleanFact, Vocabulary DEF Renames, AgreeBase, Fresh, Phase, Creations
  <2>2. \A x \in Resources(f) :
          Peopled(final'[f].data, x) <=>
            \/ x = y /\ c.kind = Creation(f)
            \/ ~(x = y /\ c.kind \in {Creation(f), Deletion(f)}) /\ Peopled(final[f].data, x)
    BY <2>1 DEF Peopling
  <2>3. ASSUME NEW u \in Threads \ {t}, pc[u] = "owner" \/ target[u] = f, call[u].kind = Creation(f),
               store[u] # Absent, ~Peopled(final[f].data, Named(call[u], f))
        PROVE  ~Peopled(final'[f].data, Named(call[u], f))
    <3>1. c.kind # Creation(f)
      BY <2>1, <2>3, CleanFact
    <3>2. Named(call[u], f) \in Resources(f)
      <4>1. pc[u] # "idle"
        BY <1>6, <2>3, CleanFact
      <4>2. call[u] \in Calls
        BY <4>1, ThreadFact DEF Phase, AgreeBase
      <4> QED BY <4>2, CallFact, Vocabulary
    <3> QED BY <2>2, <2>3, <3>1, <3>2
  <2>4. \A u \in Threads \ {t} : Halfway(u, f)' /\ (Between(u, f)' <=> Between(u, f))
    BY <1>2, <2>3, HalfwayOthers, CleanFact
  <2>5. c.kind = Creation(f) => Exists(Cp, f, y)
    BY <1>1, <1>6, CleanFact DEF Halfway
  <2>6. c.kind = Deletion(f) => ~Exists(Cp, f, y)
    BY <1>1, <1>6, CleanFact DEF Halfway
  <2>7. ASSUME NEW x \in Resources(f), Agrees(f, x) \/ (Between(t, f) /\ Named(call[t], f) = x)
        PROVE  Agrees(f, x)'
    <3>1. CASE x = y /\ c.kind \in {Creation(f), Deletion(f)}
      <4>1. Creation(f) # Deletion(f)
        BY Vocabulary
      <4>2. Peopled(final'[f].data, x) <=> Exists(Cp, f, x)
        BY <2>2, <2>5, <2>6, <3>1, <4>1
      <4> QED BY <1>3, <4>2 DEF Agrees
    <3>2. CASE ~(x = y /\ c.kind \in {Creation(f), Deletion(f)})
      <4>1. Agrees(f, x)
        BY <2>7, <3>2 DEF Between
      <4>2. Peopled(final'[f].data, x) <=> Peopled(final[f].data, x)
        BY <2>2, <3>2
      <4> QED BY <1>3, <4>1, <4>2 DEF Agrees
    <3> QED BY <3>1, <3>2
  <2> QED BY <1>2, <1>4, <2>4, <2>7, AgreeFrom
<1> QED BY <1>5, <1>6

LEMMA FailsAgree ==
  ASSUME NEW f \in Memberships, AgreeBase(f), Clean(f), NEW t \in Threads, Touches(t), Fails(t), faults' = 0
  PROVE  AgreeInv(f)'
<1>1. target[t] \notin {"cp", f} /\ target[t] \in Memberships
  BY CleanFact, ContentIs DEF Fails, Touches, Memberships
<1>2. OthersSame(t) /\ Cp' = Cp /\ final'[f].data = final[f].data /\ target'[t] = NoFile
  BY <1>1, CleanFact, ContentIs DEF Touches, OffCatalog, Fails, Cp
<1>3. Halfway(t, f)'
  <2>1. pc'[t] \notin {"owner", "purge"}
    BY DEF Fails
  <2>2. ASSUME pc'[t] = "rollback" PROVE call'[t].kind # Creation(f)
    <3>1. call'[t] = call[t] /\ call[t].kind \in Creations
      BY <2>2 DEF Fails
    <3>2. call[t].kind = Creation(target[t])
      BY <1>1, <3>1 DEF AgreeBase, Fresh
    <3> QED BY <1>1, <3>1, <3>2, Vocabulary
  <2> QED BY <1>2, <2>1, <2>2, NothingOwed
<1>4. ~Between(t, f)
  BY <1>1 DEF Between, Touches, Publishing
<1>5. \A u \in Threads \ {t} : Halfway(u, f)' /\ (Between(u, f)' <=> Between(u, f))
  BY <1>2, HalfwayOthers, CleanFact
<1>6. \A x \in Resources(f) : Agrees(f, x)' <=> Agrees(f, x)
  BY <1>2 DEF Agrees
<1> QED BY <1>2, <1>3, <1>4, <1>5, <1>6, AgreeFrom

\* Publishing the record of a creation or deletion opens the gap between the files, publishing the
\* members closes it.
LEMMA PersistAgree ==
  ASSUME NEW f \in Memberships, AgreeBase(f), Clean(f), NEW t \in Threads, Persist(t), faults' = 0
  PROVE  AgreeInv(f)'
<1>1. Touches(t) /\ (Writes(t) \/ Renames(t) \/ Fails(t))
  BY PersistOutcome DEF AgreeBase
<1> QED BY <1>1, WritesAgree, PlaneRenamedAgree, MembersRenamedAgree, FailsAgree

LEMMA AgreeKept ==
  ASSUME NEW f \in Memberships, AgreeBase(f), [Next]_vars
  PROVE  AgreeInv(f)'
<1> SUFFICES ASSUME Clean(f)' PROVE AgreeInv(f)'
  BY DEF AgreeInv
<1>1. DiskInv /\ faults' = 0 /\ Clean(f)
  <2>1. clashed \subseteq clashed' /\ (faults' = 0 => faults = 0)
    BY Monotone DEF AgreeBase
  <2> QED BY <2>1 DEF Clean, AgreeBase
<1>2. ASSUME NEW t \in Threads, Request(t) PROVE AgreeInv(f)'
  <2>1. CASE Moves(t)
    BY <1>1, <2>1, MovesAgree
  <2>2. CASE Decides(t)
    <3>1. PICK g \in Files : \E content, held : Decided(t, g, content, held)
      BY <2>2 DEF Decides
    <3>2. PICK content, held : Decided(t, g, content, held)
      BY <3>1
    <3> QED BY <1>1, <3>2, DecidesAgree
  <2>3. CASE Persist(t)
    BY <1>1, <2>3, PersistAgree
  <2> QED BY <1>1, <1>2, <2>1, <2>2, <2>3, RequestIs
<1>3. CASE Rests
  <2>1. \A t \in Threads : /\ pc'[t] = "idle" /\ target'[t] = NoFile
                           /\ pc[t] = "idle" /\ target[t] = NoFile
    BY <1>1, <1>3 DEF Rests
  <2>2. \A t \in Threads : Halfway(t, f)'
    BY <2>1, NothingOwed
  <2>3. \A x \in Resources(f) : Agrees(f, x)
    BY <1>1, <2>1, CleanFact DEF Between
  <2>4. \A x \in Resources(f) : Agrees(f, x)'
    <3>1. CASE \A g \in Files : final'[g].data = final[g].data
      <4>1. final'[f].data = final[f].data /\ Cp' = Cp
        BY <3>1, ContentIs, Vocabulary DEF Cp
      <4> QED BY <2>3, <4>1 DEF Agrees
    <3>2. CASE Start
      <4>1. /\ Cp \in ControlPlaneState /\ Cp' = BootstrapDefault(Cp) /\ final'[f].data = final[f].data
        BY <1>1, <3>2, StartWrites, CleanFact
      <4> QED BY <2>3, <4>1, BootstrapKeepsLife DEF Agrees
    <3> QED BY <1>3, <3>1, <3>2 DEF Rests
  <2> QED BY <2>2, <2>4 DEF AgreeInv
<1>4. CASE Rekeys
  <2>1. UNCHANGED <<pc, call, store, target, next, final, clashed, temp>>
    BY <1>4 DEF Rekeys
  <2>2. AgreeInv(f)
    BY DEF AgreeBase
  <2>3. Cp' = Cp
    BY <2>1 DEF Cp
  <2>4. \A t \in Threads : Halfway(t, f)' /\ (Between(t, f)' <=> Between(t, f))
    BY <1>1, <2>1, <2>2 DEF AgreeInv, Halfway, Between, Coming
  <2>5. \A x \in Resources(f) : Agrees(f, x)' <=> Agrees(f, x)
    BY <2>1, <2>3 DEF Agrees
  <2> QED BY <1>1, <2>1, <2>2, <2>4, <2>5 DEF AgreeInv
<1> QED BY <1>1, <1>2, <1>3, <1>4, ServerStep DEF Next

-----------------------------------------------------------------------------
(* Collections belong to a project *)

Deletes(t, p) == target[t] = "cp" /\ call[t].kind = "delete_project" /\ call[t].project = p
OwnedBase == AgreeBase("pm") /\ CatalogInv /\ OwnedInv

\* What is in use is in the catalog.
LEMMA InUseIsCatalogued ==
  ASSUME CatalogInv, NEW p, InUse(p)
  PROVE  p \in catalog
BY DEF CatalogInv, CatalogCovers, Handler, Handling, InUse

LEMMA OwnedFact ==
  ASSUME OwnedBase, Clean("pm")
  PROVE  /\ AgreeBase("pm") /\ "pm" \in Memberships /\ DiskInv /\ CatalogInv
         /\ \A p \in Projects : InUse(p) => Exists(Cp, "pm", p) /\ \A t \in Threads : ~Deletes(t, p)
BY DEF OwnedBase, OwnedInv, Deletes, AgreeBase, Memberships

\* It is enough that nothing comes into use that is not owned, that no record in use is lost, and that
\* no deletion of one begins.
LEMMA OwnedFrom ==
  ASSUME OwnedBase, Clean("pm"),
         NEW U, \A p \in Projects : InUse(p)' => InUse(p) \/ p \in U,
         \A p \in Projects : InUse(p) \/ p \in U =>
           /\ Exists(Cp', "pm", p)
           /\ \A t \in Threads : Deletes(t, p)' => InUse(p) /\ Deletes(t, p)
  PROVE  OwnedInv'
BY OwnedFact DEF OwnedInv, Deletes

LEMMA NothingNewOwned ==
  ASSUME OwnedBase, Clean("pm"), \A p \in Projects : InUse(p)' => InUse(p),
         \A p \in Projects : InUse(p) =>
           /\ Exists(Cp', "pm", p)
           /\ \A t \in Threads : Deletes(t, p)' => Deletes(t, p)
  PROVE  OwnedInv'
BY OwnedFact DEF OwnedInv, Deletes

\* A step away from the collections brings nothing into use.
LEMMA OffCatalogUse ==
  ASSUME NEW t \in Threads, OffCatalog(t), NEW p
  PROVE  InUse(p)' <=> InUse(p)
<1>1. data' = data /\ pc[t] \notin {"namespace", "collection"} /\ pc'[t] \notin {"namespace", "collection"}
  BY DEF OffCatalog, Handling
<1>2. \A u \in Threads \ {t} : pc'[u] = pc[u] /\ call'[u] = call[u]
  BY DEF OffCatalog, OthersSame
<1> QED BY <1>1, <1>2 DEF InUse

\* A collection step brings a project into use that it has just found active.
LEMMA CollectionUse ==
  ASSUME DiskInv, NEW t \in Threads, Collection(t), NEW p, InUse(p)'
  PROVE  InUse(p) \/ (p = call[t].project /\ Active(p))
<1>1. ThreadsTyped /\ OthersSame(t)
  BY CollectionMoves, TypeParts DEF Moves, DiskInv
<1>2. \A u \in Threads \ {t} : pc'[u] = pc[u] /\ call'[u] = call[u]
  BY <1>1 DEF OthersSame
<1>3. ASSUME data' \subseteq data, pc'[t] \notin {"namespace", "collection"} PROVE InUse(p)
  BY <1>2, <1>3 DEF InUse
<1>4. ASSUME NEW label, CollectionStep(t, label) PROVE pc'[t] = label /\ call' = call
  BY <1>1, <1>4 DEF CollectionStep, Goto, ThreadsTyped
<1>5. ASSUME End(t) PROVE pc'[t] = "idle"
  BY <1>1, <1>5, EndFact
<1>6. CASE CreateScope(t) \/ RemoveScope(t) \/ CreateDataFails(t) \/ DeleteData(t) \/ RemoveClaim(t)
           \/ DeleteDataFails(t)
  <2>1. data' \subseteq data
    BY <1>6 DEF CreateScope, RemoveScope, CreateDataFails, DeleteData, RemoveClaim, DeleteDataFails
  <2>2. pc'[t] \in {"idle", "claim", "unclaim", "unscope"}
    BY <1>4, <1>5, <1>6 DEF CreateScope, RemoveScope, CreateDataFails, DeleteData, RemoveClaim, DeleteDataFails
  <2> QED BY <1>3, <2>1, <2>2
<1>7. CASE ClaimCollection(t)
  <2>1. /\ data' = data /\ call' = call
        /\ \/ pc'[t] = "namespace" /\ Active(call[t].project)
           \/ pc'[t] = "unscope"
    BY <1>4, <1>7 DEF ClaimCollection, MayClaim
  <2> QED BY <1>2, <1>3, <2>1 DEF InUse
<1>8. CASE CreateNamespace(t)
  <2>1. data' = data /\ call' = call /\ pc[t] = "namespace"
    BY <1>4, <1>8 DEF CreateNamespace
  <2> QED BY <1>2, <2>1 DEF InUse
<1>9. CASE CreateData(t)
  <2>1. data' = data \cup {call[t].project} /\ pc[t] = "collection" /\ pc'[t] = "idle"
    BY <1>5, <1>9 DEF CreateData
  <2> QED BY <1>2, <2>1 DEF InUse
<1> QED BY <1>6, <1>7, <1>8, <1>9 DEF Collection

\* A project that is active is not the one a deletion is about to publish.
LEMMA ActiveIsNotDeleted ==
  ASSUME OwnedBase, Clean("pm"), NEW p, Active(p), NEW t \in Threads
  PROVE  ~Deletes(t, p)
<1> SUFFICES ASSUME Deletes(t, p) PROVE FALSE
  OBVIOUS
<1>1. store[t] # Absent
  BY ThreadFact DEF Phase, Deletes, OwnedBase, AgreeBase
<1>2. Change(call[t], Cp, Coming(t))
  BY <1>1, OwnedFact, CleanFact DEF Deletes, AgreeBase, Fresh
<1> QED BY <1>2 DEF Change, Deletes, Active

\* Publishing the control-plane file takes no project that is in use.
LEMMA PersistOwned ==
  ASSUME OwnedBase, Clean("pm"), NEW t \in Threads, Persist(t), faults' = 0
  PROVE  OwnedInv'
<1>1. Touches(t) /\ (Writes(t) \/ Renames(t) \/ Fails(t))
  BY OwnedFact, PersistOutcome DEF AgreeBase
<1>2. /\ "cp" \notin clashed /\ "pm" \in Memberships /\ DiskInv /\ Halfway(t, "pm") /\ Phase(t)
      /\ store[t] # Absent => store[t] = Cp
  BY OwnedFact, CleanFact, ThreadFact
<1>3. \A p \in Projects : InUse(p)' <=> InUse(p)
  BY <1>1, OffCatalogUse DEF Touches
<1>4. ASSUME NEW p, NEW u \in Threads, Deletes(u, p)' PROVE Deletes(u, p)
  <2>1. CASE u = t
    <3>1. Writes(t) \/ target'[t] = NoFile
      BY <1>1, TypeParts, <1>2 DEF Renames, Published, End, Fails, DiskInv, ThreadsTyped
    <3>2. NoFile # "cp"
      BY NothingIsSomething, ContentIs
    <3> QED BY <1>4, <2>1, <3>1, <3>2 DEF Writes, Deletes
  <2>2. CASE u # t
    BY <1>1, <1>4, <2>2 DEF Touches, OffCatalog, OthersSame, Deletes
  <2> QED BY <2>1, <2>2
<1>5. ASSUME NEW p \in Projects, InUse(p) PROVE Exists(Cp', "pm", p)
  <2>1. Exists(Cp, "pm", p) /\ ~Deletes(t, p)
    BY <1>5, OwnedFact
  <2>2. CASE target[t] = "cp" /\ Renames(t)
    <3>1. Cp' = Coming(t) /\ store[t] = Cp
      BY <1>2, <2>2 DEF Renames, Phase, Cp
    <3>2. Change(call[t], Cp, Coming(t))
      BY <1>2, <2>2, <3>1, OwnedFact DEF AgreeBase, Fresh, Phase
    <3>3. \/ Exists(Coming(t), "pm", p) <=> Exists(Cp, "pm", p)
          \/ p = call[t].project /\ call[t].kind \in {"create_project", "delete_project"}
      BY <3>2, Vocabulary DEF Change
    <3>4. p = call[t].project /\ call[t].kind = "create_project" => Exists(Coming(t), "pm", p)
      BY <1>2, <2>2, Vocabulary DEF Halfway
    <3> QED BY <2>1, <2>2, <3>1, <3>3, <3>4 DEF Deletes
  <2>3. CASE ~(target[t] = "cp" /\ Renames(t))
    <3>1. Cp' = Cp
      BY <1>1, <1>2, <2>3, ContentIs DEF Touches, Writes, Fails, Cp
    <3> QED BY <2>1, <3>1
  <2> QED BY <2>2, <2>3
<1> QED BY <1>3, <1>4, <1>5, NothingNewOwned

LEMMA OwnedKept ==
  ASSUME OwnedBase, [Next]_vars
  PROVE  OwnedInv'
<1> SUFFICES ASSUME Clean("pm")' PROVE OwnedInv'
  BY DEF OwnedInv
<1>1. DiskInv /\ AgreeBase("pm") /\ faults' = 0 /\ Clean("pm") /\ NoFile # "cp"
  <2>1. DiskInv
    BY DEF OwnedBase, AgreeBase
  <2>2. clashed \subseteq clashed' /\ (faults' = 0 => faults = 0)
    BY <2>1, Monotone
  <2> QED BY <2>1, <2>2, NothingIsSomething, ContentIs DEF Clean, OwnedBase
<1>2. \A p \in Projects : InUse(p) => p \in catalog /\ Exists(Cp, "pm", p)
  BY <1>1, OwnedFact, InUseIsCatalogued
<1>3. ASSUME NEW t \in Threads, Request(t) PROVE OwnedInv'
  <2>1. ASSUME Moves(t), NEW u \in Threads, NEW p, Deletes(u, p)' PROVE Deletes(u, p)
    BY <1>1, <2>1 DEF Moves, OthersSame, Deletes
  <2>2. CASE Moves(t) /\ OffCatalog(t)
    <3>1. Cp' = Cp
      BY <2>2 DEF Moves, Cp
    <3> QED BY <1>1, <1>2, <2>1, <2>2, <3>1, OffCatalogUse, NothingNewOwned
  <2>3. CASE Collection(t) /\ Moves(t)
    <3>1. Cp' = Cp
      BY <2>3 DEF Moves, Cp
    <3>2. \A p \in Projects : InUse(p)' => InUse(p) \/ (p = call[t].project /\ Active(p))
      BY <1>1, <2>3, CollectionUse
    <3>3. \A p : Active(p) => Exists(Cp, "pm", p)
      BY Vocabulary DEF Active
    <3>4. \A p : Active(p) => \A u \in Threads : ~Deletes(u, p)
      BY <1>1, ActiveIsNotDeleted
    <3> DEFINE U == {p \in Projects : Active(p)}
    <3>5. \A p \in Projects : InUse(p)' => InUse(p) \/ p \in U
      BY <3>2
    <3>6. \A p \in Projects : InUse(p) \/ p \in U =>
            /\ Exists(Cp', "pm", p)
            /\ \A u \in Threads : Deletes(u, p)' => InUse(p) /\ Deletes(u, p)
      BY <1>2, <2>1, <2>3, <3>1, <3>3, <3>4
    <3> HIDE DEF U
    <3> QED BY <1>1, <3>5, <3>6, OwnedFrom
  <2>4. CASE Decides(t)
    <3>1. PICK f \in Files : \E content, held : Decided(t, f, content, held)
      BY <2>4 DEF Decides
    <3>2. PICK content, held : Decided(t, f, content, held)
      BY <3>1
    <3>3. /\ content \in Content[f] /\ held \in ControlPlaneState \cup {Absent} /\ Publish(t, f, content, held)
          /\ Cp' = Cp
          /\ f = "cp" /\ call[t].kind = "delete_project" => call[t].project \notin catalog
      BY <3>2 DEF Decided, Publish, fileVars, Cp
    <3>4. OthersSame(t) /\ target'[t] = f /\ call'[t] = call[t] /\ OffCatalog(t)
      BY <1>1, <3>2, <3>3, PublishFact, PublishingOffCatalog, TypeParts DEF DiskInv
    <3>5. ASSUME NEW p \in Projects, InUse(p), NEW u \in Threads, Deletes(u, p)' PROVE Deletes(u, p)
      <4>1. u # t
        BY <1>2, <3>3, <3>4, <3>5 DEF Deletes
      <4> QED BY <3>4, <3>5, <4>1 DEF OthersSame, Deletes
    <3> QED BY <1>1, <1>2, <3>3, <3>4, <3>5, OffCatalogUse, NothingNewOwned
  <2>5. CASE Persist(t)
    BY <1>1, <2>5, PersistOwned
  <2> QED BY <1>1, <1>3, <2>2, <2>3, <2>4, <2>5, RequestIs
<1>4. CASE Rests
  <2>1. \A p : InUse(p)' => InUse(p)
    BY <1>4 DEF Rests, InUse
  <2>2. \A p : \A u \in Threads : ~Deletes(u, p)'
    BY <1>1, <1>4 DEF Rests, Deletes
  <2>3. \A p \in Projects : Exists(Cp, "pm", p) => Exists(Cp', "pm", p)
    <3>1. CASE \A g \in Files : final'[g].data = final[g].data
      BY <3>1, ContentIs DEF Cp
    <3>2. CASE Start
      BY <1>1, <3>2, StartWrites, BootstrapKeepsLife, Vocabulary
    <3> QED BY <1>4, <3>1, <3>2 DEF Rests
  <2> QED BY <1>1, <1>2, <2>1, <2>2, <2>3, NothingNewOwned
<1>5. CASE Rekeys
  <2>1. \A p : InUse(p)' <=> InUse(p)
    BY <1>5 DEF Rekeys, InUse
  <2>2. Cp' = Cp /\ \A p : \A u \in Threads : Deletes(u, p)' <=> Deletes(u, p)
    BY <1>5 DEF Rekeys, Deletes, Cp
  <2> QED BY <1>1, <1>2, <2>1, <2>2, NothingNewOwned
<1> QED BY <1>1, <1>3, <1>4, <1>5, ServerStep DEF Next

-----------------------------------------------------------------------------
(* The theorems *)

LEMMA InitAgrees == Init => AgreementInv
<1> SUFFICES ASSUME Init PROVE AgreementInv
  OBVIOUS
<1>1. /\ \A t \in Threads : pc[t] = "idle" /\ store[t] = Absent /\ target[t] = NoFile
      /\ catalog = {} /\ claims = {} /\ spaces = {} /\ data = {}
      /\ \A f \in Files : final[f].data = EmptyContent[f]
  BY DEF Init
<1>2. DiskInv
  BY InitEstablishes
<1>3. \A t \in Threads : Fresh(t)
  BY <1>1, NothingIsSomething, Vocabulary, ContentIs DEF Fresh
<1>4. CatalogInv
  BY <1>1 DEF CatalogInv, CatalogCovers, Handler, Handling
<1>5. ASSUME NEW f \in Memberships PROVE AgreeInv(f)
  <2>1. \A t \in Threads : Halfway(t, f)
    BY <1>1, NothingIsSomething, Vocabulary, ContentIs DEF Halfway
  <2>2. ASSUME NEW x \in Resources(f) PROVE ~Exists(Cp, f, x) /\ ~Peopled(final[f].data, x)
    <3>1. Cp = EmptyContent["cp"] /\ final["om"].data = EmptyContent["om"] /\ final["pm"].data = EmptyContent["pm"]
      BY <1>1, ContentIs DEF Cp
    <3>2. CASE f = "om"
      <4>1. x \in Orgs
        BY <3>2, Vocabulary
      <4>2. Cp.orgs[x] = Absent
        BY <3>1, <4>1 DEF EmptyContent
      <4>3. NoMembers(final["om"].data[x])
        BY <3>1, <4>1 DEF EmptyContent, NoMembers
      <4> QED BY <3>2, <4>2, <4>3, Vocabulary DEF Peopled
    <3>3. CASE f = "pm"
      <4>1. x \in Projects
        BY <3>3, Vocabulary
      <4>2. Cp.projects[x] = Absent
        BY <3>1, <4>1 DEF EmptyContent
      <4>3. NoMembers(final["pm"].data[x])
        BY <3>1, <4>1 DEF EmptyContent, NoMembers
      <4> QED BY <3>3, <4>2, <4>3, Vocabulary DEF Peopled
    <3> QED BY <3>2, <3>3, Vocabulary
  <2> QED BY <2>1, <2>2 DEF AgreeInv, Agrees
<1>6. OwnedInv
  BY <1>1 DEF OwnedInv, InUse
<1> QED BY <1>2, <1>3, <1>4, <1>5, <1>6, Vocabulary DEF AgreementInv

LEMMA AgreementKept == AgreementInv /\ [Next]_vars => AgreementInv'
<1> SUFFICES ASSUME AgreementInv, [Next]_vars PROVE AgreementInv'
  OBVIOUS
<1>1. /\ DiskInv /\ (\A t \in Threads : Fresh(t)) /\ CatalogInv
      /\ AgreeBase("om") /\ AgreeBase("pm") /\ OwnedBase
  BY DEF AgreementInv, AgreeBase, OwnedBase
<1>2. DiskInv'
  BY <1>1, NextKeeps
<1>3. \A t \in Threads : Fresh(t)'
  BY <1>1, FreshKept
<1>4. CatalogInv'
  BY <1>1, CatalogKept
<1>5. AgreeInv("om")' /\ AgreeInv("pm")'
  BY <1>1, AgreeKept, Vocabulary
<1>6. OwnedInv'
  BY <1>1, OwnedKept
<1> QED BY <1>2, <1>3, <1>4, <1>5, <1>6 DEF AgreementInv

LEMMA AgreementImplies == AgreementInv => ResourcesAgree
<1> SUFFICES ASSUME AgreementInv PROVE ResourcesAgree
  OBVIOUS
<1>1. CatalogCovers
  BY DEF AgreementInv, CatalogInv
<1>2. Administrable
  <2> SUFFICES ASSUME Quiet, clashed = {}, faults = 0
               PROVE  /\ \A o \in Orgs \ {DefaultOrg} : Cp.orgs[o] # Absent <=> ~NoMembers(Om[o])
                      /\ \A p \in Projects \ {DefaultProject} : Cp.projects[p] # Absent <=> ~NoMembers(Pm[p])
    BY DEF Administrable
  <2>1. ASSUME NEW f \in Memberships
        PROVE  \A x \in Resources(f) \ {Bootstrapped(f)} : Exists(Cp, f, x) <=> Peopled(final[f].data, x)
    <3>1. AgreeBase(f) /\ Clean(f)
      BY DEF AgreementInv, AgreeBase, Memberships, Clean
    <3>2. \A t \in Threads : pc[t] = "idle" /\ target[t] = NoFile
      BY ThreadFact DEF Quiet, AgreementInv, Phase
    <3>3. \A x \in Resources(f) : Agrees(f, x)
      BY <3>1, <3>2, CleanFact DEF Between
    <3> QED BY <3>3 DEF Agrees
  <2>2. \A o \in Orgs \ {DefaultOrg} : Cp.orgs[o] # Absent <=> ~NoMembers(Om[o])
    BY <2>1, Vocabulary DEF Peopled, Om
  <2>3. \A p \in Projects \ {DefaultProject} : Cp.projects[p] # Absent <=> ~NoMembers(Pm[p])
    BY <2>1, Vocabulary DEF Peopled, Pm
  <2> QED BY <2>2, <2>3
<1>3. CollectionsOwned
  <2> SUFFICES ASSUME clashed \cap {"cp", "pm"} = {}, faults = 0, NEW p \in data
               PROVE  Cp.projects[p] # Absent
    BY DEF CollectionsOwned
  <2>1. p \in Projects
    BY TypeParts DEF AgreementInv, DiskInv, PlaneTyped
  <2>2. Exists(Cp, "pm", p)
    BY <2>1 DEF AgreementInv, OwnedInv, Clean, InUse
  <2> QED BY <2>2, Vocabulary
<1> QED BY <1>1, <1>2, <1>3 DEF ResourcesAgree

\* AgreementInv is the invariant the properties below stand on.
THEOREM ControlPlaneFilesAgree == Spec => []AgreementInv
<1>1. Init => AgreementInv
  BY InitAgrees
<1>2. AgreementInv /\ [Next]_vars => AgreementInv'
  BY AgreementKept
<1> QED BY <1>1, <1>2, PTL DEF Spec

\* Once its requests have returned, an organization or project has a record exactly when it has
\* members, a collection belongs to a project that exists, and data and claims are covered by the
\* catalog: create and delete of control_plane_api.rs, which change two files one after the other
\* while others interleave at every file operation, never leave half of a change behind unless a file
\* operation fails or two requests overlap on a file.
THEOREM ControlPlaneAgrees == Spec => []ResourcesAgree
<1>1. AgreementInv => ResourcesAgree
  BY AgreementImplies
<1> QED BY <1>1, ControlPlaneFilesAgree, PTL

\* An organization or project that is being deleted never becomes active or suspended again: the
\* transition check (control_plane_store.rs) sees the current lifecycle as long as no two requests
\* have the control-plane file open.
THEOREM ControlPlaneKeepsDeleting == Spec => DeletingKept
<1>1. AgreementInv /\ [Next]_vars =>
        [CpReadable /\ CpReadable' /\ "cp" \notin clashed' => LifeKept(Cp, Cp')]_vars
  <2> SUFFICES ASSUME AgreementInv, [Next]_vars, CpReadable, "cp" \notin clashed'
               PROVE  LifeKept(Cp, Cp')
    OBVIOUS
  <2> QED BY DeletingStays DEF AgreementInv, CpReadable
<1> QED BY <1>1, ControlPlaneFilesAgree, PTL DEF Spec, DeletingKept
=============================================================================
