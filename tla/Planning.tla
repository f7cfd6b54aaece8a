------------------------------ MODULE Planning ------------------------------
(***************************************************************************)
(* Inventory with the choice of a case's plan opened up: the planner goes  *)
(* once through the common bundle and what the symptom or the target makes *)
(* relevant, and leaves out what is fresh, worth too little or too much    *)
(* for what is left of two budgets.                                        *)
(***************************************************************************)
EXTENDS Inventory, FiniteSets, FiniteSetsExt

CONSTANTS
  Candidate,     \* the planner's candidates, each a probe; those outside
                 \* Probe are planned like the others and observe nothing
  Cost,          \* cost_ms of each
  Worth,         \* value of each
  MinimumValue,  \* minimum_value
  Id,            \* the rank of each probe_id in the order of strings
  Relevant,      \* the sets of candidates that a case's words and traits match
  Budget,        \* the budget_ms a case may come with
  Limit          \* the max_probes a case may come with

ASSUME PlanningAssumption ==
  /\ IsFiniteSet(Candidate)
  /\ Probe \cup Common \subseteq Candidate
  /\ Cost \in [Candidate -> Nat \ {0}]
  /\ Worth \in [Candidate -> Nat]
  /\ MinimumValue \in Nat
  /\ Id \in [Candidate -> Nat]
  /\ \A c, d \in Candidate : Id[c] = Id[d] => c = d
  /\ Relevant \subseteq SUBSET Candidate
  /\ Budget \subseteq Nat \ {0}
  /\ Limit \subseteq Nat \ {0}

VARIABLE plan  \* the plan a case has just been given, and the request for it

planningVars == <<vars, plan>>


NoPlan == [probes |-> <<>>, total_cost_ms |-> 0, skipped_fresh |-> {}, skipped_budget |-> {},
           skipped_low_value |-> {}]

NoRequest == [considered |-> {}, fresh |-> {}, budget |-> 1, limit |-> 1]

PlanningInit == Init /\ plan = [request |-> NoRequest, made |-> NoPlan]

-----------------------------------------------------------------------------
\* Mutant: one order for all, by value, cost and identifier.
BeforeByValue(c, d) ==
  \/ Worth[c] > Worth[d]
  \/ Worth[c] = Worth[d] /\ Cost[c] < Cost[d]
  \/ Worth[c] = Worth[d] /\ Cost[c] = Cost[d] /\ Id[c] < Id[d]

\* The order of consideration: the common ones by identifier, then the others
\* by value, cost and identifier.
Before(c, d) ==
  \/ c \in Common /\ d \notin Common
  \/ c \in Common /\ d \in Common /\ Id[c] < Id[d]
  \/ /\ c \notin Common /\ d \notin Common
     /\ \/ Worth[c] > Worth[d]
        \/ Worth[c] = Worth[d] /\ Cost[c] < Cost[d]
        \/ Worth[c] = Worth[d] /\ Cost[c] = Cost[d] /\ Id[c] < Id[d]

\* Mutant: a probe that takes all of what is left is one too many.
FitsStrictly(made, c, request) ==
  /\ made.total_cost_ms + Cost[c] < request.budget
  /\ Len(made.probes) # request.limit

Fits(made, c, request) ==
  /\ made.total_cost_ms + Cost[c] <= request.budget
  /\ Len(made.probes) # request.limit

\* One turn of the loop.
Consider(made, c, request) ==
  IF c \notin Common /\ c \in request.fresh
  THEN [made EXCEPT !.skipped_fresh = @ \cup {c}]
  ELSE IF c \notin Common /\ Worth[c] < MinimumValue
  THEN [made EXCEPT !.skipped_low_value = @ \cup {c}]
  ELSE IF ~ Fits(made, c, request)
  THEN [made EXCEPT !.skipped_budget = @ \cup {c}]
  ELSE [made EXCEPT !.probes = Append(@, c), !.total_cost_ms = @ + Cost[c]]

\* DeterministicPlanner.plan.
Plan(request) ==
  LET Nth(i) == CHOOSE c \in request.considered :
                  Cardinality({d \in request.considered : Before(d, c)}) = i - 1
      made[i \in 0..Cardinality(request.considered)] ==
        IF i = 0 THEN NoPlan ELSE Consider(made[i - 1], Nth(i), request)
  IN made[Cardinality(request.considered)]

\* CasePlanningRequest, with the candidates its words and traits bring in.
Requests(fresh) ==
  [considered : {Common \cup relevant : relevant \in Relevant}, fresh : {fresh},
   budget : Budget, limit : Limit]

Planned(made) == {made.probes[i] : i \in 1..Len(made.probes)}

-----------------------------------------------------------------------------
\* CaseService.open_case: the plan of a case, from the inventory as it is read.
PlanFor(p) ==
  /\ pc[p] = "plan"
  /\ \E request \in Requests(FreshProbes(created_at[p])) :
       \E made \in {Plan(request)} :
         /\ plan' = [request |-> request, made |-> made]
         /\ todo' = [todo EXCEPT ![p] = Planned(made) \cap Probe]
  /\ PlanCase(p)

\* Nobody but its case looks at a plan.
Other ==
  /\ \/ \E p \in Proc : \/ StartCase(p) \/ StartRefresh(p) \/ Leave(p)
                         \/ Collect(p) \/ CollectNothing(p) \/ Store(p)
     \/ \E s \in Signal : InvalidateFor(s)
     \/ Tick
  /\ plan' = [request |-> NoRequest, made |-> NoPlan]

PlanningNext == Other \/ \E p \in Proc : PlanFor(p)

PlanningSpec == PlanningInit /\ [][PlanningNext]_planningVars

-----------------------------------------------------------------------------
(***************************************************************************)
(* Properties                                                              *)
(***************************************************************************)

SpentBefore(c) ==
  MapThenSumSet(LAMBDA d : Cost[d], {d \in Planned(plan.made) : Before(d, c)})

\* "Every case, budget permitting" (docs/packs.md:9-10): which probes of the
\* common bundle a case runs depends on its budgets and on nothing else, not
\* on what the symptom matches and not on what the inventory holds
\* (planner.py:61-64, 84-92).
CommonPlannedAnyway ==
  Planned(plan.made) \cap Common =
    IF plan.request = NoRequest THEN {}
    ELSE Planned(Plan([plan.request EXCEPT !.considered = Common, !.fresh = {}]))

\* The plan is what one pass in order of priority makes of the two budgets:
\* every candidate is planned once or left out for one reason, and what is not
\* fresh or worth too little is planned exactly if it fits beside the planned
\* ones of higher priority, so that no probe is left out for a less important
\* one and none that still fits is left out at all, the common bundle as it would
\* be planned alone (planner.py:78-104).
PlanIsGreedy ==
  LET m == plan.made
      parts == <<Planned(m), m.skipped_fresh, m.skipped_budget, m.skipped_low_value>>
  IN /\ CommonPlannedAnyway
     /\ UNION {parts[i] : i \in 1..4} = plan.request.considered
     /\ \A i, j \in 1..4 : i # j => parts[i] \cap parts[j] = {}
     /\ \A c \in Planned(m) \cup m.skipped_budget :
          c \in Planned(m) <=>
            /\ SpentBefore(c) + Cost[c] <= plan.request.budget
            /\ Cardinality({d \in Planned(m) : Before(d, c)}) < plan.request.limit
     /\ \A i, j \in 1..Len(m.probes) : i < j => Before(m.probes[i], m.probes[j])

\* What a plan says it costs is what its probes cost, and neither budget is
\* exceeded (planner.py:90-112).
PlanInBudget ==
  /\ plan.made.total_cost_ms = MapThenSumSet(LAMBDA d : Cost[d], Planned(plan.made))
  /\ plan.made.total_cost_ms <= plan.request.budget
  /\ Len(plan.made.probes) <= plan.request.limit
=============================================================================
