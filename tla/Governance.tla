------------------------------ MODULE Governance ------------------------------
(***************************************************************************)
(* Limits on what a project may use: the policies an organization sets and *)
(* a project overrides (organization_governance.rs), the request windows   *)
(* of GovernanceService (governance.rs) and the concurrency and throughput *)
(* budgets of InMemoryResourceGovernor (resource_governance.rs).  One      *)
(* organization; callers are request threads and administrators, each lock *)
(* of the code is one step.                                                *)
(***************************************************************************)
EXTENDS Integers, FiniteSets, FiniteSetsExt, Functions

CONSTANTS
    GovernedProjects, Submitters,
    Policies,        \* the policies administrators choose from
    DefaultPolicy,   \* no rate limit, the default resource budget
    Units,           \* sizes of an ingestion
    MaxTime,         \* bound: clock
    MaxChanges,      \* bound: changes of policies
    MaxWorkers       \* bound: callers of the budgets at one time

ASSUME GovernanceConstants ==
    /\ {MaxTime, MaxChanges, MaxWorkers} \subseteq Nat
    /\ Units \subseteq Nat \ {0}
    /\ DefaultPolicy.rate.requests = 0

NoLimit == [requests |-> 0, window |-> 0]
NoPolicy == [rate |-> NoLimit, flow |-> NoLimit, concurrent |-> 0]
NoWindow == [start |-> 0, used |-> 0, open |-> FALSE]
NoGrants == [first |-> 0, total |-> 0, prompt |-> [t \in 0..MaxTime |-> 0]]
Work == {"query", "ingestion"}

VARIABLES
    clock,
    organization,   \* organization_policies: one policy, or NoPolicy
    mayOverride,    \* its project_overrides_allowed
    overrides,      \* project_overrides, or NoPolicy
    rates,          \* GovernanceService.policies, NoLimit when absent
    windows,        \* GovernanceService.windows
    granted,        \* history: requests admitted since the limit last changed, see Grant
    budgets,        \* InMemoryResourceGovernor.policies
    usage,          \* its usage, by work class
    meters,         \* its throughput windows
    metered,        \* history: units of the permits granted in the present meter window
    call,           \* what each caller is doing
    changes,
    service         \* which of the two services, which share no state, is exercised

inheritanceVars == <<organization, mayOverride, overrides, changes>>
rateVars == <<rates, windows, granted>>
budgetVars == <<budgets, usage, meters, metered>>
governanceVars == <<service, clock, inheritanceVars, rateVars, budgetVars, call>>

NoCall == [pc |-> "idle"]
Times == 0..MaxTime

-----------------------------------------------------------------------------
(* The effective policy *)

\* constrain_rate_limit, constrain_throughput: fewer requests in a longer window.
StricterLimit(org, project) ==
    IF org = NoLimit THEN project
    ELSE IF project = NoLimit THEN org
    ELSE [requests |-> Min({org.requests, project.requests}),
          window |-> Max({org.window, project.window})]

\* constrain_governance_policy, constrain_resource_budget
Constrain(org, project) ==
    [rate |-> StricterLimit(org.rate, project.rate),
     flow |-> StricterLimit(org.flow, project.flow),
     concurrent |-> Min({org.concurrent, project.concurrent})]

\* resolve_project_policy
Effective(p) ==
    LET requested == IF overrides[p] # NoPolicy THEN overrides[p]
                     ELSE IF organization # NoPolicy THEN organization ELSE DefaultPolicy
    IN  IF organization = NoPolicy THEN requested ELSE Constrain(organization, requested)

-----------------------------------------------------------------------------
(* Administration: each change is persisted before the memory copy changes,  *)
(* so that a failed one has no effect.                                       *)

\* The policies are those that were persisted.
GovernanceInit ==
    /\ service \in {"rates", "budgets"}
    /\ clock = 0
    /\ organization \in Policies \cup {NoPolicy}
    /\ mayOverride \in IF organization = NoPolicy THEN {TRUE} ELSE BOOLEAN
    /\ overrides \in [GovernedProjects -> Policies \cup {NoPolicy}]
    /\ rates = [p \in GovernedProjects |-> NoLimit]
    /\ windows = [p \in GovernedProjects |-> NoWindow]
    /\ granted = [p \in GovernedProjects |-> NoGrants]
    /\ budgets = [p \in GovernedProjects |-> DefaultPolicy]
    /\ usage = [p \in GovernedProjects |-> [w \in Work |-> 0]]
    /\ meters = [p \in GovernedProjects |-> NoWindow]
    /\ metered = [p \in GovernedProjects |-> 0]
    /\ call = [c \in Submitters |-> NoCall]
    /\ changes \in 0..MaxChanges

Change ==
    /\ changes < MaxChanges /\ changes' = changes + 1
    /\ UNCHANGED <<service, clock, rateVars, budgetVars, call>>

SetOrganizationPolicy(policy, allow) ==
    /\ organization' = policy /\ mayOverride' = allow
    /\ UNCHANGED overrides
    /\ Change

RemoveOrganizationPolicy ==
    /\ organization # NoPolicy
    /\ organization' = NoPolicy /\ mayOverride' = TRUE
    /\ UNCHANGED overrides
    /\ Change

\* set_project_override; an override stays when the organization stops allowing them.
SetProjectOverride(p, policy) ==
    /\ mayOverride
    /\ overrides' = [overrides EXCEPT ![p] = policy]
    /\ UNCHANGED <<organization, mayOverride>>
    /\ Change

RemoveProjectOverride(p) ==
    /\ overrides[p] # NoPolicy
    /\ overrides' = [overrides EXCEPT ![p] = NoPolicy]
    /\ UNCHANGED <<organization, mayOverride>>
    /\ Change

TickClock == clock < MaxTime /\ clock' = clock + 1
        /\ UNCHANGED <<service, inheritanceVars, rateVars, budgetVars, call>>

CallTo(c, next) == call' = [call EXCEPT ![c] = next]
CanCall(c) ==
    /\ call[c] = NoCall
    /\ service = "budgets" => Cardinality({d \in Submitters : call[d] # NoCall}) < MaxWorkers

\* apply_project_policy: resolve, then the rate policy, then the budget.
BeginApply(c, p) ==
    /\ CanCall(c)
    /\ CallTo(c, [pc |-> "apply rate", project |-> p, policy |-> Effective(p)])
    /\ UNCHANGED <<service, clock, inheritanceVars, rateVars, budgetVars>>

\* set_project_policy
ApplyRate(c) ==
    /\ call[c].pc = "apply rate"
    /\ LET p == call[c].project
       IN  /\ rates' = [rates EXCEPT ![p] = call[c].policy.rate]
           /\ granted' = [granted EXCEPT ![p] =
                            IF rates'[p] = rates[p] THEN @ ELSE NoGrants]
    /\ CallTo(c, [call[c] EXCEPT !.pc = "apply budget"])
    /\ UNCHANGED <<service, clock, inheritanceVars, windows, budgetVars>>

\* set_project_budget
ApplyBudget(c) ==
    /\ call[c].pc = "apply budget"
    /\ budgets' = [budgets EXCEPT ![call[c].project] = call[c].policy]
    /\ CallTo(c, NoCall)
    /\ UNCHANGED <<service, clock, inheritanceVars, rateVars, usage, meters, metered>>

\* remove_project_policy: the policy, then its windows.
RemoveRate(c, p) ==
    /\ service = "rates" /\ CanCall(c) /\ rates[p] # NoLimit
    /\ rates' = [rates EXCEPT ![p] = NoLimit]
    /\ granted' = [granted EXCEPT ![p] = NoGrants]
    /\ CallTo(c, [pc |-> "remove windows", project |-> p])
    /\ UNCHANGED <<service, clock, inheritanceVars, windows, budgetVars>>

RemoveWindows(c) ==
    /\ call[c].pc = "remove windows"
    /\ windows' = [windows EXCEPT ![call[c].project] = NoWindow]
    /\ granted' = [granted EXCEPT ![call[c].project] = NoGrants]
    /\ CallTo(c, NoCall)
    /\ UNCHANGED <<service, clock, inheritanceVars, rates, budgetVars>>

\* remove_project_budget: the budget and the meter, taken one after the other.
RemoveBudget(c, p) ==
    /\ service = "budgets" /\ CanCall(c) /\ budgets[p] # DefaultPolicy
    /\ budgets' = [budgets EXCEPT ![p] = DefaultPolicy]
    /\ CallTo(c, [pc |-> "remove meter", project |-> p])
    /\ UNCHANGED <<service, clock, inheritanceVars, rateVars, usage, meters, metered>>

RemoveMeter(c) ==
    /\ call[c].pc = "remove meter"
    /\ meters' = [meters EXCEPT ![call[c].project] = NoWindow]
    /\ metered' = [metered EXCEPT ![call[c].project] = 0]
    /\ CallTo(c, NoCall)
    /\ UNCHANGED <<service, clock, inheritanceVars, rateVars, budgets, usage>>

-----------------------------------------------------------------------------
(* Admission *)

\* The window a request at time now counts in: the open one, or a new one when there is
\* none or the open one has run its length.
WindowAt(w, now, length) ==
    IF ~w.open \/ now - w.start >= length
    THEN [start |-> now, used |-> 0, open |-> TRUE] ELSE w

\* admit: the time is read first.
BeginAdmit(c, p) ==
    /\ service = "rates" /\ CanCall(c)
    /\ CallTo(c, [pc |-> "limit", project |-> p, now |-> clock])
    /\ UNCHANGED <<service, clock, inheritanceVars, rateVars, budgetVars>>

\* The first half of admit_at: without a limit the request is admitted at once.
ReadLimit(c) ==
    /\ call[c].pc = "limit"
    /\ LET limit == rates[call[c].project]
       IN  CallTo(c, IF limit = NoLimit THEN NoCall
                     ELSE [pc |-> "admit", project |-> call[c].project, now |-> call[c].now,
                           limit |-> limit])
    /\ UNCHANGED <<service, clock, inheritanceVars, rateVars, budgetVars>>

HasRoom(w, limit) == w.used < limit.requests

\* One more request in window w: where the first of them began, how many there are, and when
\* those that were not late, for their window, read the clock.
Grant(g, w, time) ==
    [first |-> IF g.total = 0 THEN w.start ELSE g.first, total |-> g.total + 1,
     prompt |-> [g.prompt EXCEPT ![time] = @ + (IF time >= w.start THEN 1 ELSE 0)]]

\* The second half of admit_at.
Admit(c) ==
    /\ call[c].pc = "admit"
    /\ LET p == call[c].project
           w == WindowAt(windows[p], call[c].now, call[c].limit.window)
           room == HasRoom(w, call[c].limit)
       IN  /\ windows' = [windows EXCEPT ![p] = [w EXCEPT !.used = IF room THEN @ + 1 ELSE @]]
           /\ granted' = [granted EXCEPT ![p] =
                IF call[c].limit # rates[p] THEN NoGrants
                ELSE IF room THEN Grant(@, w, call[c].now) ELSE @]
    /\ CallTo(c, NoCall)
    /\ UNCHANGED <<service, clock, inheritanceVars, rates, budgetVars>>

BeginWork(c, p, work, units) ==
    /\ service = "budgets" /\ CanCall(c)
    /\ work = "query" => units = Min(Units)
    /\ CallTo(c, [pc |-> "work", project |-> p, now |-> clock, budget |-> budgets[p],
              work |-> work, units |-> units])
    /\ UNCHANGED <<service, clock, inheritanceVars, rateVars, budgetVars>>

Metered(work, budget) == work = "ingestion" /\ budget.flow # NoLimit

\* admit_ingestion_units
FlowHasRoom(w, flow, units) == units <= flow.requests - w.used

\* The second half of admit_at, under the usage lock: concurrency, then throughput, then
\* the permit.
\* Mutant: the permit is counted before the throughput is checked.
AdmitWorkEarly(c) ==
    /\ call[c].pc = "work"
    /\ LET p == call[c].project  b == call[c].budget  w == call[c].work
           m == WindowAt(meters[p], call[c].now, b.flow.window)
           fresh == ~meters[p].open \/ m.start # meters[p].start
       IN  IF usage[p][w] >= b.concurrent
           THEN CallTo(c, NoCall) /\ UNCHANGED budgetVars
           ELSE /\ usage' = [usage EXCEPT ![p][w] = @ + 1]
                /\ IF Metered(w, b) /\ ~FlowHasRoom(m, b.flow, call[c].units)
                   THEN /\ CallTo(c, NoCall) /\ meters' = [meters EXCEPT ![p] = m]
                        /\ metered' = [metered EXCEPT ![p] = IF fresh THEN 0 ELSE @]
                   ELSE /\ CallTo(c, [call[c] EXCEPT !.pc = "holding"])
                        /\ IF Metered(w, b)
                           THEN /\ meters' = [meters EXCEPT ![p] =
                                                [m EXCEPT !.used = @ + call[c].units]]
                                /\ metered' = [metered EXCEPT ![p] =
                                                 (IF fresh THEN 0 ELSE @) + call[c].units]
                           ELSE UNCHANGED <<meters, metered>>
                /\ UNCHANGED budgets
    /\ UNCHANGED <<service, clock, inheritanceVars, rateVars>>
AdmitWork(c) ==
    /\ call[c].pc = "work"
    /\ LET p == call[c].project  b == call[c].budget  w == call[c].work
           m == WindowAt(meters[p], call[c].now, b.flow.window)
           fresh == ~meters[p].open \/ m.start # meters[p].start
           flows == Metered(w, b) => FlowHasRoom(m, b.flow, call[c].units)
       IN  IF usage[p][w] >= b.concurrent
           THEN CallTo(c, NoCall) /\ UNCHANGED budgetVars
           ELSE /\ IF flows
                   THEN /\ CallTo(c, [call[c] EXCEPT !.pc = "holding"])
                        /\ usage' = [usage EXCEPT ![p][w] = @ + 1]
                   ELSE CallTo(c, NoCall) /\ UNCHANGED usage
                /\ IF Metered(w, b)
                   THEN LET units == IF flows THEN call[c].units ELSE 0
                        IN  /\ meters' = [meters EXCEPT ![p] = [m EXCEPT !.used = @ + units]]
                            /\ metered' = [metered EXCEPT ![p] = (IF fresh THEN 0 ELSE @) + units]
                   ELSE UNCHANGED <<meters, metered>>
                /\ UNCHANGED budgets
    /\ UNCHANGED <<service, clock, inheritanceVars, rateVars>>

\* ResourcePermit::release or its Drop: once, whatever became of the budget.
Release(c) ==
    /\ call[c].pc = "holding"
    /\ usage' = [usage EXCEPT ![call[c].project][call[c].work] = Max({0, @ - 1})]
    /\ CallTo(c, NoCall)
    /\ UNCHANGED <<service, clock, inheritanceVars, rateVars, budgets, meters, metered>>

GovernanceNext ==
    \/ TickClock \/ RemoveOrganizationPolicy
    \/ \E policy \in Policies, allow \in BOOLEAN : SetOrganizationPolicy(policy, allow)
    \/ \E p \in GovernedProjects :
         RemoveProjectOverride(p) \/ \E policy \in Policies : SetProjectOverride(p, policy)
    \/ \E c \in Submitters :
         \/ ApplyRate(c) \/ ApplyBudget(c) \/ RemoveWindows(c) \/ RemoveMeter(c)
         \/ ReadLimit(c) \/ Admit(c) \/ AdmitWork(c) \/ Release(c)
         \/ \E p \in GovernedProjects :
              \/ BeginApply(c, p) \/ RemoveRate(c, p) \/ RemoveBudget(c, p)
              \/ BeginAdmit(c, p)
              \/ \E work \in Work, units \in Units : BeginWork(c, p, work, units)

-----------------------------------------------------------------------------
(* Properties *)

\* Every counter and window has its shape, and no window starts after the present (governance.rs).
GovernanceTypeOK ==
    /\ clock \in Times
    /\ \A p \in GovernedProjects : windows[p].start \in 0..clock /\ windows[p].used \in Nat
    /\ \A p \in GovernedProjects : usage[p] \in [Work -> 0..Cardinality(Submitters)]
    /\ \A p \in GovernedProjects : metered[p] \in Nat /\ meters[p].used \in Nat

\* While a project's rate limit stays the same and no request under an earlier one comes in
\* between, admit_at keeps two bounds.  Over all that time, late requests included, no more is
\* admitted than the limit for every full window length that passed between the first window and
\* the present one, and once more.  And of the requests that were not late, those that read the
\* clock in a stretch as long as a window are fewer than twice the limit.  A late one, which read
\* the clock before the window it counts in began, escapes the second bound: several that read one
\* moment may land in as many later windows.
RateBounded ==
    \A p \in GovernedProjects :
      LET limit == rates[p]  g == granted[p]
          Stretch(t) == t..Min({MaxTime, t + limit.window - 1})
      IN  limit # NoLimit =>
            /\ g.total <= limit.requests * (1 + (windows[p].start - g.first) \div limit.window)
            /\ \A t \in Times : SumFunctionOnSet(g.prompt, Stretch(t)) < 2 * limit.requests

\* The governor's books agree with the permits: a project's usage of a class is the number
\* of permits held, and the units of its meter are those of the ingestions that got one,
\* on every refusal (resource_governance.rs admit_at, admit_ingestion_units, release).
BooksMatchPermits ==
    \A p \in GovernedProjects :
      /\ \A w \in Work :
           usage[p][w] = Cardinality({c \in Submitters :
             call[c].pc = "holding" /\ call[c].project = p /\ call[c].work = w})
      /\ meters[p].used = metered[p]

NoLooserLimit(a, b) ==
    b # NoLimit => a # NoLimit /\ a.requests <= b.requests /\ a.window >= b.window
NoLooser(a, b) ==
    /\ NoLooserLimit(a.rate, b.rate) /\ NoLooserLimit(a.flow, b.flow)
    /\ a.concurrent <= b.concurrent

\* resolve_project_policy: whatever overrides were stored while the organization allowed
\* them, the effective policy is no looser than the organization's nor than the override.
EffectiveNoLooser ==
    \A p \in GovernedProjects :
      /\ organization # NoPolicy => NoLooser(Effective(p), organization)
      /\ overrides[p] # NoPolicy => NoLooser(Effective(p), overrides[p])

\* Limits of projects: rate windows bound what is admitted, in the long run and, late requests
\* aside, in the short (RateBounded), usage and meters agree
\* with the permits (BooksMatchPermits), inheritance never loosens (EffectiveNoLooser).
GovernanceInv == GovernanceTypeOK /\ RateBounded /\ BooksMatchPermits /\ EffectiveNoLooser
=============================================================================
