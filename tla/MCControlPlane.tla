-------------------------- MODULE MCControlPlane --------------------------
EXTENDS ControlPlane, TLC

CONSTANTS DOrg, Acme, DProject, Docs, Alice, Bob, DSlug, Other

Req(kind, by, life, subject, role) ==
  [kind |-> kind, by |-> by, org |-> Acme, project |-> Docs, slug |-> Other, life |-> life,
   subject |-> subject, role |-> role]

Plain(kind, by) == Req(kind, by, "active", Alice, "owner")

LifeCalls ==
  {Plain("create_org", Alice), [Plain("create_org", Bob) EXCEPT !.slug = DSlug],
   Plain("create_project", Alice),
   Req("update_org", Alice, "deleting", Alice, "owner"),
   Req("update_org", Alice, "suspended", Alice, "owner"),
   Req("update_project", Alice, "deleting", Alice, "owner"),
   Plain("delete_org", Alice), Plain("delete_project", Alice),
   Plain("create_collection", Docs), Plain("delete_collection", Docs)}

RoleCalls ==
  {Req("set_org_role", Alice, "active", Bob, "owner"),
   Req("set_org_role", Alice, "active", Bob, "admin"),
   Req("remove_org_role", Bob, "active", Alice, "owner"),
   Req("set_project_role", Alice, "active", Bob, "owner"),
   Req("remove_project_role", Bob, "active", Alice, "owner")}

MCCalls == LifeCalls \cup RoleCalls

\* Worker threads are interchangeable.
Symmetric == Permutations(Threads)
=============================================================================
