---------------------------- MODULE RoutingSolver ----------------------------
(***************************************************************************)
(* VehicleRoutingSolver.solve: the check of the total capacity, OR-Tools   *)
(* for a small request, and GreedyNearestNeighborRouter for a large one or *)
(* when OR-Tools finds no solution in time.                                *)
(*                                                                         *)
(* OR-Tools is external: it returns any solution of the model that the     *)
(* code builds, or none, or raises something else than a RoutingError.     *)
(* Stops and vehicles are their positions in the request.  Travel times    *)
(* between nodes (0 is the depot, i is stop i) stand for the distance      *)
(* matrix, the speed being constant; they are whole numbers of ticks, so   *)
(* that int() in the time callback loses part of a minute.  Rounding and   *)
(* the utilization of the result are left out.                             *)
(***************************************************************************)
EXTENDS Integers, Sequences, FiniteSets, Functions, Sums

CONSTANTS
  Requests,        \* the requests solved, records as IsRequest says
  NoWindow,        \* a stop that lacks time_window_start or time_window_end
  Ticks,           \* ticks per minute
  ExactMaxStops    \* settings.routing_exact_max_stops

ASSUME TicksAssumption == Ticks \in Nat \ {0}
ASSUME ExactAssumption == ExactMaxStops \in Nat

\* What validation leaves of a request.
IsRequest(r) ==
  /\ r.stops \in Seq([demand : Nat \ {0}, service : Nat,
                      window : {NoWindow} \cup [start : Nat, end : Nat]])
  /\ r.vehicles \in Seq([capacity : Nat \ {0}, maxDuration : Nat \ {0}])
  /\ r.vehicles # <<>>
  /\ r.travel \in [0..Len(r.stops) -> [0..Len(r.stops) -> Nat]]
ASSUME RequestsAssumption == \A r \in Requests : IsRequest(r)

VARIABLES
  request,
  pc,          \* "start", "exact", "vehicles", "stops", "done"
  vehicle,     \* the index of the for loop over the vehicles
  node,        \* current_node
  load,
  time,        \* cumulative_time
  remaining,   \* the stops that no vehicle has taken yet
  routes,      \* the heuristic's steps of each vehicle
  plan         \* the outcome

vars == <<request, pc, vehicle, node, load, time, remaining, routes, plan>>

Stops == DOMAIN request.stops
Vehicles == DOMAIN request.vehicles
Stop(i) == request.stops[i]
Vehicle(v) == request.vehicles[v]
Travel(m, n) == request.travel[m][n]
Service(n) == IF n = 0 THEN 0 ELSE Stop(n).service

Demand == [i \in Stops |-> Stop(i).demand]
TotalDemand == Total(Demand, Stops)
TotalCapacity == Total([v \in Vehicles |-> Vehicle(v).capacity], Vehicles)

RouteSteps == Seq([stop : Stops, arrival : Nat, departure : Nat, load : Nat])

-----------------------------------------------------------------------------
\* The model that _solve_exact hands to OR-Tools; a route is a sequence of stops.

At(r, k) == IF k \in DOMAIN r THEN r[k] ELSE 0

\* Seeded fault: the service is charged when its stop is left.
TimeCallbackOnLeaving(m, n) == (Travel(m, n) + Ticks * Service(m)) \div Ticks

\* Whole minutes from m to n and for the service at n.
TimeCallback(m, n) == (Travel(m, n) + Ticks * Service(n)) \div Ticks

\* The Time dimension along a route that starts at minute 0, its last value at
\* the depot: it has no slack, a vehicle never waits.
Cumul(r) ==
  Accumulated([k \in 1..Len(r) + 1 |-> TimeCallback(At(r, k - 1), At(r, k))], Len(r) + 1)

\* The capacity of the dimension, one for all vehicles.
Horizon == Max({Vehicle(v).maxDuration : v \in Vehicles})

InWindow(i, minute) ==
  Stop(i).window = NoWindow \/ minute \in Stop(i).window.start..Stop(i).window.end

\* Seeded fault: the dimension has no capacity.
InTimeUnbounded(r) ==
  LET cumul == Cumul(r)
  IN  \E start \in 0..Horizon : \A k \in DOMAIN r : InWindow(r[k], start + cumul[k])

\* The start of a route is free (fix_start_cumul_to_zero is False).
InTime(r) ==
  LET cumul == Cumul(r)
  IN  \E start \in 0..Horizon - cumul[Len(r) + 1] :
        \A k \in DOMAIN r : InWindow(r[k], start + cumul[k])

DemandOn(r) == Total([k \in DOMAIN r |-> Stop(r[k]).demand], DOMAIN r)

\* Seeded fault: the capacities are summed up.
WithinCapacitySummed(r, v) == DemandOn(r) <= TotalCapacity

WithinCapacity(r, v) == DemandOn(r) <= Vehicle(v).capacity

\* Every stop is mandatory: an order of all stops, cut into the vehicles' routes.
Orders == Bijection(1..Len(request.stops), Stops)
Cuts ==
  {c \in [0..Len(request.vehicles) -> 0..Len(request.stops)] :
     /\ c[0] = 0
     /\ c[Len(request.vehicles)] = Len(request.stops)
     /\ \A v \in Vehicles : c[v - 1] <= c[v]}
Routings ==
  {[v \in Vehicles |-> SubSeq(o, c[v - 1] + 1, c[v])] : o \in Orders, c \in Cuts}

Solutions ==
  {a \in Routings : \A v \in Vehicles : WithinCapacity(a[v], v) /\ InTime(a[v])}

\* _extract_solution: cumulative_time starts at 0 and counts parts of a minute.
StepsOf(r) ==
  LET driven == [k \in DOMAIN r |-> Travel(At(r, k - 1), r[k])]
      clock == Accumulated([k \in DOMAIN r |-> driven[k] + Ticks * Service(r[k])], Len(r))
      carried == Accumulated([k \in DOMAIN r |-> Stop(r[k]).demand], Len(r))
  IN  [k \in DOMAIN r |-> [stop |-> r[k], arrival |-> clock[k - 1] + driven[k],
                           departure |-> clock[k], load |-> carried[k]]]

-----------------------------------------------------------------------------
NoPlan == [outcome |-> "none"]
Raised(error) == [outcome |-> error]
Plan(method, steps, unassigned) ==
  [outcome |-> "plan", method |-> method, routes |-> steps, unassigned |-> unassigned]
ExactPlan(a) == Plan("exact", [v \in Vehicles |-> StepsOf(a[v])], {})

Init ==
  /\ request \in Requests
  /\ pc = "start"
  /\ vehicle = 0
  /\ node = 0
  /\ load = 0
  /\ time = 0
  /\ remaining = Stops
  /\ routes = [v \in Vehicles |-> <<>>]
  /\ plan = NoPlan

\* Seeded fault: a request that fills the vehicles to the last unit is refused.
TooMuchToCarryOrFull == TotalDemand >= TotalCapacity

TooMuchToCarry == TotalDemand > TotalCapacity

Refuse ==
  /\ pc = "start"
  /\ TooMuchToCarry
  /\ plan' = Raised("InsufficientCapacityError")
  /\ pc' = "done"
  /\ UNCHANGED <<request, vehicle, node, load, time, remaining, routes>>

Start ==
  /\ pc = "start"
  /\ ~TooMuchToCarry
  /\ pc' = IF Len(request.stops) > ExactMaxStops THEN "vehicles" ELSE "exact"
  /\ UNCHANGED <<request, vehicle, node, load, time, remaining, routes, plan>>

SolveExact ==
  /\ pc = "exact"
  /\ \E a \in Solutions : plan' = ExactPlan(a)
  /\ pc' = "done"
  /\ UNCHANGED <<request, vehicle, node, load, time, remaining, routes>>

\* No solution, or none in time: the RoutingError that solve catches.
ExactFindsNothing ==
  /\ pc = "exact"
  /\ pc' = "vehicles"
  /\ UNCHANGED <<request, vehicle, node, load, time, remaining, routes, plan>>

\* OR-Tools cannot be imported, or rejects a time window that ends up empty: no
\* except clause of solve takes the error.
ExactRaises ==
  /\ pc = "exact"
  /\ plan' = Raised("Exception")
  /\ pc' = "done"
  /\ UNCHANGED <<request, vehicle, node, load, time, remaining, routes>>

\* Seeded fault: the clock is not set back for the next vehicle.
NextVehicleLate ==
  /\ pc = "vehicles"
  /\ remaining # {}
  /\ vehicle < Len(request.vehicles)
  /\ vehicle' = vehicle + 1
  /\ node' = 0
  /\ load' = 0
  /\ pc' = "stops"
  /\ UNCHANGED <<request, time, remaining, routes, plan>>

NextVehicle ==
  /\ pc = "vehicles"
  /\ remaining # {}
  /\ vehicle < Len(request.vehicles)
  /\ vehicle' = vehicle + 1
  /\ node' = 0
  /\ load' = 0
  /\ time' = 0
  /\ pc' = "stops"
  /\ UNCHANGED <<request, remaining, routes, plan>>

Candidates == {i \in remaining : load + Stop(i).demand <= Vehicle(vehicle).capacity}

\* Seen from node n, i comes before j: nearer, or as near and listed first.
Closer(n, i, j) ==
  \/ Travel(n, i) < Travel(n, j)
  \/ Travel(n, i) = Travel(n, j) /\ i < j

\* Seeded fault: distances are taken from the depot.
NearestToDepot(i) == i \in Candidates /\ \A j \in Candidates : j = i \/ Closer(0, i, j)

Nearest(i) == i \in Candidates /\ \A j \in Candidates : j = i \/ Closer(node, i, j)

\* projected_time, within the duration of the vehicle.
InBudget(i) ==
  time + Travel(node, i) + Ticks * Stop(i).service <= Ticks * Vehicle(vehicle).maxDuration

Arrive(i) ==
  LET arrival == time + Travel(node, i)
  IN  [stop |-> i, arrival |-> arrival, departure |-> arrival + Ticks * Stop(i).service,
       load |-> load + Stop(i).demand]

\* Seeded fault: the stop stays on the list when it is the vehicle's first.
VisitKeepingFirst(i) ==
  /\ pc = "stops"
  /\ Nearest(i)
  /\ InBudget(i)
  /\ routes' = [routes EXCEPT ![vehicle] = Append(@, Arrive(i))]
  /\ load' = Arrive(i).load
  /\ time' = Arrive(i).departure
  /\ node' = i
  /\ remaining' = IF node = 0 THEN remaining ELSE remaining \ {i}
  /\ UNCHANGED <<request, pc, vehicle, plan>>

\* One turn of the while loop that adds a step.
Visit(i) ==
  /\ pc = "stops"
  /\ Nearest(i)
  /\ InBudget(i)
  /\ routes' = [routes EXCEPT ![vehicle] = Append(@, Arrive(i))]
  /\ load' = Arrive(i).load
  /\ time' = Arrive(i).departure
  /\ node' = i
  /\ remaining' = remaining \ {i}
  /\ UNCHANGED <<request, pc, vehicle, plan>>

\* Seeded fault: a full vehicle ends the whole loop, not its own route.
VehicleDoneEndsAll ==
  /\ pc = "stops"
  /\ Candidates = {} \/ \E i \in Candidates : Nearest(i) /\ ~InBudget(i)
  /\ pc' = "vehicles"
  /\ vehicle' = IF Candidates = {} THEN Len(request.vehicles) ELSE vehicle
  /\ UNCHANGED <<request, node, load, time, remaining, routes, plan>>

\* The breaks of the while loop: nothing fits, or the nearest stop takes too long.
VehicleDone ==
  /\ pc = "stops"
  /\ Candidates = {} \/ \E i \in Candidates : Nearest(i) /\ ~InBudget(i)
  /\ pc' = "vehicles"
  /\ UNCHANGED <<request, vehicle, node, load, time, remaining, routes, plan>>

Finish ==
  /\ pc = "vehicles"
  /\ remaining = {} \/ vehicle = Len(request.vehicles)
  /\ plan' = Plan("heuristic", routes, remaining)
  /\ pc' = "done"
  /\ UNCHANGED <<request, vehicle, node, load, time, remaining, routes>>

Done == pc = "done" /\ UNCHANGED vars

Next ==
  \/ Refuse
  \/ Start
  \/ SolveExact
  \/ ExactFindsNothing
  \/ ExactRaises
  \/ NextVehicle
  \/ \E i \in Stops : Visit(i)
  \/ VehicleDone
  \/ Finish
  \/ Done

Spec == Init /\ [][Next]_vars

-----------------------------------------------------------------------------
\* The types of the variables.
TypeOK ==
  /\ IsRequest(request)
  /\ pc \in {"start", "exact", "vehicles", "stops", "done"}
  /\ vehicle \in 0..Len(request.vehicles)
  /\ pc = "stops" => vehicle \in Vehicles
  /\ node \in 0..Len(request.stops)
  /\ load \in Nat
  /\ time \in Nat
  /\ remaining \subseteq Stops
  /\ routes \in [Vehicles -> RouteSteps]
  /\ plan.outcome \in {"none", "InsufficientCapacityError", "Exception", "plan"}

HasPlan == plan.outcome = "plan"
ServedIn(route) == {route[k].stop : k \in DOMAIN route}

\* Each stop is visited once, by one vehicle, or reported as unassigned, never
\* both and never neither (DeliveryStop: "visited by exactly one vehicle").
StopsServedOnce ==
  HasPlan =>
    /\ \A v, w \in Vehicles : \A j \in DOMAIN plan.routes[v], k \in DOMAIN plan.routes[w] :
         plan.routes[v][j].stop = plan.routes[w][k].stop => v = w /\ j = k
    /\ plan.unassigned = Stops \ UNION {ServedIn(plan.routes[v]) : v \in Vehicles}

\* What a vehicle carries is the demand of all its stops so far, and within its
\* capacity, whichever method made the plan.
LoadsFit ==
  HasPlan =>
    \A v \in Vehicles : \A k \in DOMAIN plan.routes[v] :
      LET route == plan.routes[v]
      IN  /\ route[k].load = Total([j \in 1..k |-> Stop(route[j].stop).demand], 1..k)
          /\ route[k].load <= Vehicle(v).capacity

\* Each route ends in time.  The heuristic keeps to the duration of its vehicle;
\* OR-Tools to the longest duration of all vehicles, back at the depot, up to the
\* part of a minute that int() drops on every leg.
DurationsFit ==
  HasPlan =>
    \A v \in Vehicles :
      LET route == plan.routes[v]
      IN  route # <<>> =>
            IF plan.method = "heuristic"
            THEN route[Len(route)].departure <= Ticks * Vehicle(v).maxDuration
            ELSE route[Len(route)].departure + Travel(route[Len(route)].stop, 0)
                   < Ticks * (Horizon + Len(route) + 1)

\* For a plan of OR-Tools each vehicle can start at a minute such that every stop
\* with a window is left within it, up to the minutes that int() drops.
WindowsBoundDepartures ==
  HasPlan /\ plan.method = "exact" =>
    \A v \in Vehicles : \E start \in 0..Horizon : \A k \in DOMAIN plan.routes[v] :
      LET step == plan.routes[v][k]
      IN  Stop(step.stop).window # NoWindow =>
            /\ Ticks * start + step.departure >= Ticks * Stop(step.stop).window.start
            /\ Ticks * start + step.departure < Ticks * (Stop(step.stop).window.end + k)

\* A request is refused only if no assignment of stops to vehicles can carry it.
RefusalIsTrue ==
  plan.outcome = "InsufficientCapacityError" =>
    \A owner \in [Stops -> Vehicles] : \E v \in Vehicles :
      Total(Demand, {i \in Stops : owner[i] = v}) > Vehicle(v).capacity

\* The heuristic's state before the k-th step of vehicle v: the stops left, where
\* the vehicle is, what it carries and since when it travels.
LeftBefore(v, k) ==
  Stops \ ({routes[v][j].stop : j \in 1..k - 1} \cup
           UNION {ServedIn(routes[w]) : w \in 1..v - 1})
NodeBefore(v, k) == IF k = 1 THEN 0 ELSE routes[v][k - 1].stop
LoadBefore(v, k) == IF k = 1 THEN 0 ELSE routes[v][k - 1].load
TimeBefore(v, k) == IF k = 1 THEN 0 ELSE routes[v][k - 1].departure

FitsBefore(v, k, i) == LoadBefore(v, k) + Stop(i).demand <= Vehicle(v).capacity
TooLateBefore(v, k, i) ==
  TimeBefore(v, k) + Travel(NodeBefore(v, k), i) + Ticks * Stop(i).service
    > Ticks * Vehicle(v).maxDuration

\* The heuristic always went to the nearest stop that was left and fitted the
\* vehicle, the first listed of equally near ones.
NearestFirst ==
  \A v \in Vehicles : \A k \in DOMAIN routes[v] : \A i \in LeftBefore(v, k) :
    FitsBefore(v, k, i) => i = routes[v][k].stop \/ Closer(NodeBefore(v, k), routes[v][k].stop, i)

Finished(v) == v < vehicle \/ (v = vehicle /\ pc \in {"vehicles", "done"})
LastOf(v) == Len(routes[v]) + 1

\* A stop that a finished vehicle left behind did not fit it at the end of its
\* route, or a stop at least as near stood in its way that took too long.
LeftBehindIsForced ==
  \A v \in Vehicles : Finished(v) =>
    \A i \in LeftBefore(v, LastOf(v)) : FitsBefore(v, LastOf(v), i) =>
      \E j \in LeftBefore(v, LastOf(v)) :
        /\ FitsBefore(v, LastOf(v), j)
        /\ TooLateBefore(v, LastOf(v), j)
        /\ j = i \/ Closer(NodeBefore(v, LastOf(v)), j, i)

-----------------------------------------------------------------------------
\* The inductive invariant.

\* No stop appears twice; what no route has is what remains.
StopsArePartitioned ==
  /\ \A v, w \in Vehicles : \A j \in DOMAIN routes[v], k \in DOMAIN routes[w] :
       routes[v][j].stop = routes[w][k].stop => v = w /\ j = k
  /\ remaining = Stops \ UNION {ServedIn(routes[v]) : v \in Vehicles}

\* Each step continues the one before it, within the limits of the vehicle.
StepsAreChained ==
  \A v \in Vehicles : \A k \in DOMAIN routes[v] :
    LET step == routes[v][k]
    IN  /\ step.arrival = TimeBefore(v, k) + Travel(NodeBefore(v, k), step.stop)
        /\ step.departure = step.arrival + Ticks * Stop(step.stop).service
        /\ step.load = LoadBefore(v, k) + Stop(step.stop).demand
        /\ step.load <= Vehicle(v).capacity
        /\ step.departure <= Ticks * Vehicle(v).maxDuration

\* The locals of the loop describe the end of the current route.
LocalsAreCurrent ==
  pc = "stops" =>
    /\ node = NodeBefore(vehicle, LastOf(vehicle))
    /\ load = LoadBefore(vehicle, LastOf(vehicle))
    /\ time = TimeBefore(vehicle, LastOf(vehicle))

\* Vehicles not reached yet have no route.
AheadIsEmpty ==
  /\ pc \in {"start", "exact"} => vehicle = 0
  /\ \A v \in Vehicles : v > vehicle => routes[v] = <<>>

\* A plan is what OR-Tools found or what the loops left; a refusal had its reason.
PlanIsOfItsMethod ==
  /\ pc # "done" => plan = NoPlan
  /\ HasPlan => \/ \E a \in Solutions : plan = ExactPlan(a)
                \/ plan = Plan("heuristic", routes, remaining)
  /\ plan.outcome = "InsufficientCapacityError" => TooMuchToCarry

IInv ==
  /\ TypeOK
  /\ StopsArePartitioned
  /\ StepsAreChained
  /\ LocalsAreCurrent
  /\ AheadIsEmpty
  /\ NearestFirst
  /\ LeftBehindIsForced
  /\ PlanIsOfItsMethod

=============================================================================
