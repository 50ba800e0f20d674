---------------------------- MODULE NetworkSolver ----------------------------
(***************************************************************************)
(* NetworkOptimizationSolver.solve: the transportation LP when it is small *)
(* enough, else, or when the LP solver fails, GreedyCostAllocator, which   *)
(* serves one entry of demand_locations after the other from its lanes,    *)
(* cheapest first.                                                         *)
(*                                                                         *)
(* GLOP is external: an exact solve returns any optimum of the LP that the *)
(* code builds (its vertices are whole numbers, all data being whole), and *)
(* the error when there is none.  A result is kept as the units on each    *)
(* lane; costs are whole numbers, and rounding to cents is left out.       *)
(***************************************************************************)
EXTENDS Integers, Sequences, FiniteSets, Sums

CONSTANTS
  Requests,            \* the requests solved, records as IsRequest says
  Warehouses,
  Locations,
  NoCap,               \* max_capacity_units = None
  ExactMaxVariables    \* settings.network_exact_max_variables

\* A request: the capacity of each active warehouse (the dict over active
\* warehouses that both solvers start with), the lists of
\* demand locations and lanes, in which ids may repeat, and the two options.  The
\* fixed operating costs are left out: no solver reads them.
IsRequest(r) ==
  /\ DOMAIN r.capacity \subseteq Warehouses /\ IsFiniteSet(DOMAIN r.capacity)
  /\ \A w \in DOMAIN r.capacity : r.capacity[w] \in Nat
  /\ r.capacity = [w \in DOMAIN r.capacity |-> r.capacity[w]]
  /\ r.demands \in Seq([location : Locations, units : Nat \ {0}])
  /\ r.lanes \in Seq([warehouse : Warehouses, location : Locations,
                      cost : Nat, cap : Nat \cup {NoCap}])
  /\ r.demands # <<>> /\ r.lanes # <<>>
  /\ r.allowUnmet \in BOOLEAN
  /\ r.penalty \in Nat
ASSUME RequestsAssumption == \A r \in Requests : IsRequest(r)
ASSUME NoCapAssumption == NoCap \notin Nat
ASSUME ExactAssumption == ExactMaxVariables \in Nat

VARIABLES
  request,
  pc,          \* "start", "exact", "locations", "lanes", "done"
  entry,       \* the index of the for loop over demand_locations
  need,        \* what that entry still needs
  tried,       \* the lanes the inner loop has been through
  remaining,   \* remaining_capacity
  shipped,     \* the greedy allocations: units per demand entry and lane
  short,       \* what was left of each entry's demand, summed up in unmet_total
  plan         \* the outcome

vars == <<request, pc, entry, need, tried, remaining, shipped, short, plan>>

Entries == DOMAIN request.demands
Lanes == DOMAIN request.lanes
LaneOf(k) == request.lanes[k]
Usable(k) == LaneOf(k).warehouse \in DOMAIN request.capacity

-----------------------------------------------------------------------------
\* The LP of _solve_exact.

\* Seeded fault: "cap or infinity", which takes a cap of 0 for none.
UpperBoundFalsy(k) ==
  IF LaneOf(k).cap \in {NoCap, 0} THEN request.capacity[LaneOf(k).warehouse]
  ELSE LaneOf(k).cap

\* The bound of a lane's variable; infinity is as good as the warehouse's capacity.
UpperBound(k) ==
  IF LaneOf(k).cap = NoCap THEN request.capacity[LaneOf(k).warehouse]
  ELSE LaneOf(k).cap

\* lane_vars is keyed by warehouse and location: the last of equal lanes counts.
Variables ==
  {k \in Lanes :
     /\ Usable(k)
     /\ \A j \in Lanes : j > k =>
          \/ LaneOf(j).warehouse # LaneOf(k).warehouse
          \/ LaneOf(j).location # LaneOf(k).location}

\* demand_by_location: the last of equal locations counts.
Demanded == {request.demands[i].location : i \in Entries}
DemandOf(l) ==
  request.demands[Max({i \in Entries : request.demands[i].location = l})].units

VariablesTo(l) == {k \in Variables : LaneOf(k).location = l}
VariablesFrom(w) == {k \in Variables : LaneOf(k).warehouse = w}

MeetsDemand(x, l) ==
  IF request.allowUnmet THEN Total(x, VariablesTo(l)) <= DemandOf(l)
  ELSE Total(x, VariablesTo(l)) = DemandOf(l)

\* Seeded fault: a capacity is never used to the full.
FitsCapacityStrictly(x, w) == Total(x, VariablesFrom(w)) < request.capacity[w]

FitsCapacity(x, w) == Total(x, VariablesFrom(w)) <= request.capacity[w]

Feasible ==
  {x \in [Variables -> 0..Max({0} \cup {UpperBound(k) : k \in Variables})] :
     /\ \A k \in Variables : x[k] <= UpperBound(k)
     /\ \A l \in Demanded : MeetsDemand(x, l)
     /\ \A w \in DOMAIN request.capacity : FitsCapacity(x, w)}

LaneCosts(x, S) == Total([k \in S |-> x[k] * LaneOf(k).cost], S)
Unmet(x) == Total([l \in Demanded |-> DemandOf(l) - Total(x, VariablesTo(l))], Demanded)
Objective(x) ==
  LaneCosts(x, Variables) + (IF request.allowUnmet THEN request.penalty * Unmet(x) ELSE 0)
Best(S) == Min({Objective(x) : x \in S})

-----------------------------------------------------------------------------
\* The units of an exact plan: the lanes that are no variables carry nothing.
OnLanes(x) == [k \in Lanes |-> IF k \in Variables THEN x[k] ELSE 0]

NoPlan == [outcome |-> "none"]
Infeasible == [outcome |-> "InfeasibleProblemError"]
Plan(method, units, unmet, feasible) ==
  [outcome |-> "plan", method |-> method, units |-> units, unmet |-> unmet,
   cost |-> LaneCosts(units, Lanes), feasible |-> feasible]

ExactPlan(x) ==
  Plan("exact", OnLanes(x), IF request.allowUnmet THEN Unmet(x) ELSE 0, TRUE)

\* The units on lane k, summed up over the entries.
ShippedOver(k) == Total([i \in Entries |-> shipped[i][k]], Entries)

HeuristicPlan ==
  LET unmet == Total(short, Entries)
  IN  Plan("heuristic", [k \in Lanes |-> ShippedOver(k)], unmet, unmet = 0 \/ request.allowUnmet)

Init ==
  /\ request \in Requests
  /\ pc = "start"
  /\ entry = 0
  /\ need = 0
  /\ tried = {}
  /\ remaining = request.capacity
  /\ shipped = [i \in Entries |-> [k \in Lanes |-> 0]]
  /\ short = [i \in Entries |-> 0]
  /\ plan = NoPlan

\* The choice of the method by the number of lanes.
Start ==
  /\ pc = "start"
  /\ pc' = IF Len(request.lanes) > ExactMaxVariables THEN "locations" ELSE "exact"
  /\ UNCHANGED <<request, entry, need, tried, remaining, shipped, short, plan>>

\* _solve_exact returns an optimum; without a variable or a feasible point it
\* raises InfeasibleProblemError, which solve passes on.
SolveExact ==
  /\ pc = "exact"
  /\ LET feasible == Feasible
         best == Best(feasible)
     IN  IF Variables = {} \/ feasible = {}
         THEN plan' = Infeasible
         ELSE \E x \in {y \in feasible : Objective(y) = best} :
                plan' = ExactPlan(x)
  /\ pc' = "done"
  /\ UNCHANGED <<request, entry, need, tried, remaining, shipped, short>>

\* Any other exception of _solve_exact: the heuristic takes over.
ExactFails ==
  /\ pc = "exact"
  /\ pc' = "locations"
  /\ UNCHANGED <<request, entry, need, tried, remaining, shipped, short, plan>>

\* lanes_by_location[location_id], of active warehouses only.
LanesTo(l) == {k \in Lanes : Usable(k) /\ LaneOf(k).location = l}
Untried == LanesTo(request.demands[entry].location) \ tried

\* The order that the stable sort by cost_per_unit gives.
Before(j, k) ==
  \/ LaneOf(j).cost < LaneOf(k).cost
  \/ LaneOf(j).cost = LaneOf(k).cost /\ j < k

Available(k) ==
  IF LaneOf(k).cap # NoCap /\ LaneOf(k).cap < remaining[LaneOf(k).warehouse]
  THEN LaneOf(k).cap
  ELSE remaining[LaneOf(k).warehouse]

\* Seeded fault: a lane that cannot take all of the need is skipped.
ShipAllOrNothing(k) == IF need <= Available(k) THEN need ELSE 0

Ship(k) == IF need < Available(k) THEN need ELSE Available(k)

NextEntry ==
  /\ pc = "locations"
  /\ entry < Len(request.demands)
  /\ entry' = entry + 1
  /\ need' = request.demands[entry + 1].units
  /\ tried' = {}
  /\ pc' = "lanes"
  /\ UNCHANGED <<request, remaining, shipped, short, plan>>

\* Seeded fault: the lanes are not sorted.
TryLaneUnsorted(k) ==
  /\ pc = "lanes"
  /\ need > 0
  /\ k \in Untried
  /\ \A j \in Untried : k <= j
  /\ shipped' = [shipped EXCEPT ![entry][k] = Ship(k)]
  /\ remaining' = [remaining EXCEPT ![LaneOf(k).warehouse] = @ - Ship(k)]
  /\ need' = need - Ship(k)
  /\ tried' = tried \cup {k}
  /\ UNCHANGED <<request, pc, entry, short, plan>>

\* One turn of the inner loop.
TryLane(k) ==
  /\ pc = "lanes"
  /\ need > 0
  /\ k \in Untried
  /\ \A j \in Untried : j = k \/ Before(k, j)
  /\ shipped' = [shipped EXCEPT ![entry][k] = Ship(k)]
  /\ remaining' = [remaining EXCEPT ![LaneOf(k).warehouse] = @ - Ship(k)]
  /\ need' = need - Ship(k)
  /\ tried' = tried \cup {k}
  /\ UNCHANGED <<request, pc, entry, short, plan>>

\* Seeded fault: only the last entry's shortfall is kept.
EntryDoneForgetful ==
  /\ pc = "lanes"
  /\ need = 0 \/ Untried = {}
  /\ short' = [i \in Entries |-> IF i = entry THEN need ELSE 0]
  /\ pc' = "locations"
  /\ UNCHANGED <<request, entry, need, tried, remaining, shipped, plan>>

EntryDone ==
  /\ pc = "lanes"
  /\ need = 0 \/ Untried = {}
  /\ short' = [short EXCEPT ![entry] = need]
  /\ pc' = "locations"
  /\ UNCHANGED <<request, entry, need, tried, remaining, shipped, plan>>

Finish ==
  /\ pc = "locations"
  /\ entry = Len(request.demands)
  /\ plan' = HeuristicPlan
  /\ pc' = "done"
  /\ UNCHANGED <<request, entry, need, tried, remaining, shipped, short>>

Done == pc = "done" /\ UNCHANGED vars

Next ==
  \/ Start
  \/ SolveExact
  \/ ExactFails
  \/ NextEntry
  \/ \E k \in Lanes : TryLane(k)
  \/ EntryDone
  \/ Finish
  \/ Done

Spec == Init /\ [][Next]_vars

-----------------------------------------------------------------------------
\* The types of the variables.
TypeOK ==
  /\ IsRequest(request)
  /\ pc \in {"start", "exact", "locations", "lanes", "done"}
  /\ entry \in 0..Len(request.demands)
  /\ pc = "lanes" => entry \in Entries
  /\ need \in Nat
  /\ tried \subseteq Lanes
  /\ remaining \in [DOMAIN request.capacity -> Nat]
  /\ shipped \in [Entries -> [Lanes -> Nat]]
  /\ short \in [Entries -> Nat]
  /\ plan.outcome \in {"none", "InfeasibleProblemError", "plan"}

HasPlan == plan.outcome = "plan"

\* Requests in which every id means one thing.
LanesAreDistinct ==
  \A j, k \in Lanes :
    LaneOf(j).warehouse = LaneOf(k).warehouse /\ LaneOf(j).location = LaneOf(k).location
      => j = k
LocationsAreDistinct ==
  \A i, j \in Entries : request.demands[i].location = request.demands[j].location => i = j

UnitsTo(l) == Total(plan.units, {k \in Lanes : LaneOf(k).location = l})
TotalDemand == Total([i \in Entries |-> request.demands[i].units], Entries)

\* No warehouse ships more than it has, whatever repeats in the request and
\* whichever method solved it, and an inactive one ships nothing; no lane carries more
\* than its cap, a cap of 0 included.
CapacityRespected ==
  HasPlan =>
    /\ \A w \in DOMAIN request.capacity :
         Total(plan.units, {k \in Lanes : LaneOf(k).warehouse = w}) <= request.capacity[w]
    /\ \A k \in Lanes : ~Usable(k) => plan.units[k] = 0
    /\ LocationsAreDistinct =>
         \A k \in Lanes : LaneOf(k).cap # NoCap => plan.units[k] <= LaneOf(k).cap

\* What is not shipped is reported: shipments and unmet_demand_units add up to the
\* demand, no location gets more than it asked for, and a feasible plan that may
\* not leave demand unmet serves everyone in full.
DemandIsAccountedFor ==
  HasPlan /\ LocationsAreDistinct =>
    /\ \A i \in Entries : UnitsTo(request.demands[i].location) <= request.demands[i].units
    /\ Total([l \in Demanded |-> UnitsTo(l)], Demanded) + plan.unmet = TotalDemand
    /\ plan.feasible /\ ~request.allowUnmet => plan.unmet = 0

\* Lane k can give no more to entry i: it is at its cap, or its warehouse is empty.
Saturated(i, k) ==
  remaining[LaneOf(k).warehouse] = 0 \/ shipped[i][k] = LaneOf(k).cap

\* The heuristic leaves demand unmet only where nothing more could be shipped.
ShortfallIsForced ==
  \A i \in Entries :
    short[i] > 0 => \A k \in LanesTo(request.demands[i].location) : Saturated(i, k)

\* The heuristic uses a lane only when every cheaper lane to the same location,
\* or one as cheap that comes first, can give no more (ADR-002).
CheapestFirst ==
  \A i \in Entries : \A j, k \in LanesTo(request.demands[i].location) :
    shipped[i][k] > 0 /\ Before(j, k) => Saturated(i, j)

\* The two methods solve the same problem: where the LP has a variable, a feasible
\* plan of the heuristic is a feasible point of it with the unmet demand it reports,
\* so that the LP would not have been answered with an error, nor with a dearer plan.
\* (Without variables _solve_exact raises, even where all demand may stay unmet and
\* the heuristic has a plan that ships nothing: UnmetDemandIsPenalized.)
FallbackPlansFitTheLP ==
  HasPlan /\ plan.method = "heuristic" /\ plan.feasible /\ Variables # {}
    /\ LanesAreDistinct /\ LocationsAreDistinct =>
    LET x == [k \in Variables |-> plan.units[k]]
    IN  x \in Feasible /\ Unmet(x) = plan.unmet

\* With one demand location, and a penalty that no lane exceeds, cheapest first
\* is not only predictable but optimal.
OneLocationIsOptimal ==
  HasPlan /\ plan.method = "heuristic" /\ plan.feasible
    /\ LanesAreDistinct /\ Len(request.demands) = 1
    /\ (request.allowUnmet => \A k \in Lanes : LaneOf(k).cost <= request.penalty) =>
    Objective([k \in Variables |-> plan.units[k]]) = Best(Feasible)

\* An infeasibility is real (a 409 of /network/solve): when all demand has to be
\* met, some locations together need more than the lanes to them, each warehouse
\* within its capacity, can bring (the max-flow min-cut condition).
InfeasibleIsTrue ==
  plan.outcome = "InfeasibleProblemError" /\ ~request.allowUnmet
    /\ LanesAreDistinct /\ LocationsAreDistinct =>
    \E S \in SUBSET Demanded :
      LET brings == [w \in DOMAIN request.capacity |->
                       Min({request.capacity[w],
                            Total([k \in Variables |-> UpperBound(k)],
                                  {k \in VariablesFrom(w) : LaneOf(k).location \in S})})]
      IN  Total([l \in Demanded |-> DemandOf(l)], S) > Total(brings, DOMAIN request.capacity)

-----------------------------------------------------------------------------
\* The inductive invariant of the greedy loop.

\* While an entry is served: its lanes are tried in order and to the full.
ServesInOrder ==
  pc = "lanes" =>
    /\ tried \subseteq LanesTo(request.demands[entry].location)
    /\ \A j \in tried, k \in Untried : Before(j, k)
    /\ need > 0 => \A k \in tried : Saturated(entry, k)

\* What the loop has not reached is untouched.
AheadIsUntouched ==
  /\ \A i \in Entries, k \in Lanes :
       i > entry \/ (i = entry /\ pc = "lanes" /\ k \notin tried) => shipped[i][k] = 0
  /\ \A i \in Entries : i > entry \/ (i = entry /\ pc = "lanes") => short[i] = 0

\* Each allocation is within the cap of its lane.
AllocationsAreCapped ==
  \A i \in Entries, k \in Lanes :
    LaneOf(k).cap # NoCap => shipped[i][k] <= LaneOf(k).cap

\* An allocation is on a lane to the location of its entry.
AllocationsServeTheirEntry ==
  \A i \in Entries, k \in Lanes :
    shipped[i][k] # 0 => k \in LanesTo(request.demands[i].location)

\* What a warehouse does not have any more is on the lanes from it.
StockIsAccountedFor ==
  \A w \in DOMAIN request.capacity :
    Total([k \in Lanes |-> ShippedOver(k)], {k \in Lanes : LaneOf(k).warehouse = w})
      + remaining[w] = request.capacity[w]

\* What an entry asked for is shipped, still needed or found short.
NeedIsAccountedFor ==
  \A i \in Entries : i <= entry =>
    Total(shipped[i], Lanes) + (IF i = entry /\ pc = "lanes" THEN need ELSE short[i])
      = request.demands[i].units

\* A plan is what its method left: the loops at their end, or a point of the LP; and
\* the error means that there is none.
PlanIsOfItsMethod ==
  /\ pc # "done" => plan = NoPlan
  /\ HasPlan => \/ entry = Len(request.demands) /\ plan = HeuristicPlan
                \/ \E x \in Feasible : plan = ExactPlan(x)
  /\ plan.outcome = "InfeasibleProblemError" => Variables = {} \/ Feasible = {}

IInv ==
  /\ TypeOK
  /\ ServesInOrder
  /\ AheadIsUntouched
  /\ AllocationsAreCapped
  /\ ShortfallIsForced
  /\ CheapestFirst
  /\ AllocationsServeTheirEntry
  /\ StockIsAccountedFor
  /\ NeedIsAccountedFor
  /\ PlanIsOfItsMethod

-----------------------------------------------------------------------------
\* What the descriptions of the fields say, and the code does not do.

\* allow_unmet_demand, "If true, unmet demand is penalized rather than making the
\* problem infeasible".
UnmetDemandIsPenalized ==
  request.allowUnmet => plan.outcome # "InfeasibleProblemError"

=============================================================================
