--------------------------- MODULE MCAdministration ---------------------------
(***************************************************************************)
(* Who may do how much: a behaviour runs access control, the limits of     *)
(* projects, or the store of search profiles.                              *)
(***************************************************************************)
EXTENDS Access, Governance, SearchProfiles, TLC

CONSTANTS x1, x2, c1, c2, p1, p2, k1, a1, g1, g2, g3

VARIABLE part

vars == <<part, accessVars, governanceVars, profileVars>>

\* The parts never run together and share their model values.  The two projects are alike too:
\* Init gives the account its role in the first.
Symmetric == Permutations({x1, x2}) \cup Permutations({c1, c2}) \cup Permutations(Submitters)

Policy(requests, window, flow, flowWindow, concurrent) ==
    [rate |-> [requests |-> requests, window |-> window],
     flow |-> [requests |-> flow, window |-> flowWindow], concurrent |-> concurrent]
MCMetered == Policy(1, 2, 3, 1, 1)
MCShort == Policy(2, 1, 0, 0, 2)
MCPolicies == {MCMetered, MCShort}
MCDefaultPolicy == Policy(0, 0, 0, 0, 2)

Init ==
    /\ part \in {"access", "limits", "profiles"}
    /\ AccessInit /\ GovernanceInit /\ ProfilesInit
    \* One of the initial states of a part that does not run is enough.
    /\ accounts[a1].roles[p1] # None
    /\ part = "access" \/ (scopes = {} /\ \A k \in Keys : memKeys[k] = NoKey)
    /\ part = "limits" \/ service = "rates"
    \* Policies were set before; one more change follows.
    /\ organization \in IF service = "rates" THEN {MCShort} ELSE {NoPolicy, MCMetered}
    /\ mayOverride
    /\ overrides = [p \in GovernedProjects |-> NoPolicy] /\ changes = MaxChanges - 1
    /\ part = "profiles" \/ pid = 7
Next ==
    /\ UNCHANGED part
    /\ \/ part = "access" /\ AccessNext /\ UNCHANGED <<governanceVars, profileVars>>
       \/ part = "limits" /\ GovernanceNext /\ UNCHANGED <<accessVars, profileVars>>
       \/ part = "profiles" /\ ProfilesNext /\ UNCHANGED <<accessVars, governanceVars>>
Spec == Init /\ [][Next]_vars
================================================================================
