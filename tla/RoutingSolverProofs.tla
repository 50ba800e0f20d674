------------------------- MODULE RoutingSolverProofs -------------------------
(***************************************************************************)
(* Proofs about RoutingSolver, for every request and every solution that   *)
(* OR-Tools may return.  The argument for the heuristic: a route only      *)
(* grows at its end, and while a vehicle is on its way the stops left      *)
(* before its next step are those that remain.  For plans of OR-Tools: a   *)
(* routing cuts one order of the stops, and the steps extracted from it    *)
(* follow its two dimensions.                                              *)
(***************************************************************************)
EXTENDS RoutingSolver, SumsProofs

\* The elements of a sequence.
LEMMA ElementsOfSeq ==
  ASSUME NEW S, NEW s \in Seq(S)
  PROVE  \A k \in 1..Len(s) : s[k] \in S
OBVIOUS

\* What Append does to the elements.
LEMMA AppendedSeq ==
  ASSUME NEW S, NEW s \in Seq(S), NEW e \in S
  PROVE  /\ Append(s, e) \in Seq(S)
         /\ DOMAIN s = 1..Len(s)
         /\ Len(s) \in Nat
         /\ Len(Append(s, e)) = Len(s) + 1
         /\ DOMAIN Append(s, e) = 1..Len(s) + 1
         /\ \A k \in 1..Len(s) : Append(s, e)[k] = s[k]
         /\ Append(s, e)[Len(s) + 1] = e
OBVIOUS

\* What IsRequest says of the request in hand.
LEMMA RequestTyped ==
  ASSUME IsRequest(request)
  PROVE  /\ Stops = 1..Len(request.stops)
         /\ Vehicles = 1..Len(request.vehicles)
         /\ Len(request.stops) \in Nat
         /\ Len(request.vehicles) \in Nat
         /\ \A i \in Stops : Stop(i).demand \in Nat /\ Stop(i).service \in Nat
         /\ \A v \in Vehicles : Vehicle(v).capacity \in Nat /\ Vehicle(v).maxDuration \in Nat
         /\ \A m, n \in 0..Len(request.stops) : Travel(m, n) \in Nat
<1>1. /\ request.stops \in Seq([demand : Nat \ {0}, service : Nat,
                                window : {NoWindow} \cup [start : Nat, end : Nat]])
      /\ request.vehicles \in Seq([capacity : Nat \ {0}, maxDuration : Nat \ {0}])
      /\ request.travel \in [0..Len(request.stops) -> [0..Len(request.stops) -> Nat]]
  BY DEF IsRequest
<1>2. \A i \in 1..Len(request.stops) :
        request.stops[i] \in [demand : Nat \ {0}, service : Nat,
                              window : {NoWindow} \cup [start : Nat, end : Nat]]
  BY <1>1, ElementsOfSeq
<1>3. \A v \in 1..Len(request.vehicles) :
        request.vehicles[v] \in [capacity : Nat \ {0}, maxDuration : Nat \ {0}]
  BY <1>1, ElementsOfSeq
<1>4. /\ Stops = 1..Len(request.stops)
      /\ Vehicles = 1..Len(request.vehicles)
      /\ Len(request.stops) \in Nat
      /\ Len(request.vehicles) \in Nat
  BY <1>1 DEF Stops, Vehicles
<1>5. \A i \in Stops : Stop(i).demand \in Nat /\ Stop(i).service \in Nat
  BY <1>2, <1>4 DEF Stop
<1>6. \A v \in Vehicles : Vehicle(v).capacity \in Nat /\ Vehicle(v).maxDuration \in Nat
  BY <1>3, <1>4 DEF Vehicle
<1>7. \A m, n \in 0..Len(request.stops) : Travel(m, n) \in Nat
  BY <1>1 DEF Travel
<1> QED
  BY <1>4, <1>5, <1>6, <1>7

\* The steps of a route are records of stops and numbers.
LEMMA RoutesTyped ==
  ASSUME TypeOK, NEW v \in Vehicles
  PROVE  /\ routes[v] \in RouteSteps
         /\ DOMAIN routes[v] = 1..Len(routes[v])
         /\ Len(routes[v]) \in Nat
         /\ \A k \in 1..Len(routes[v]) :
              /\ routes[v][k].stop \in Stops
              /\ routes[v][k].departure \in Nat
              /\ routes[v][k].load \in Nat
<1>1. routes[v] \in Seq([stop : Stops, arrival : Nat, departure : Nat, load : Nat])
  BY DEF TypeOK, RouteSteps
<1>2. \A k \in 1..Len(routes[v]) :
        routes[v][k] \in [stop : Stops, arrival : Nat, departure : Nat, load : Nat]
  BY <1>1, ElementsOfSeq
<1> QED
  BY <1>1, <1>2 DEF RouteSteps

\* What the request alone decides stays as it is while the request does.
LEMMA RequestDecides ==
  ASSUME UNCHANGED request
  PROVE  /\ Solutions' = Solutions
         /\ TooMuchToCarry' = TooMuchToCarry
         /\ \A a : ExactPlan(a)' = ExactPlan(a)
<1>1. /\ Stops' = Stops /\ Vehicles' = Vehicles
      /\ Len(request.stops)' = Len(request.stops)
      /\ Len(request.vehicles)' = Len(request.vehicles)
      /\ \A i : Stop(i)' = Stop(i)
      /\ \A v : Vehicle(v)' = Vehicle(v)
      /\ \A n : Service(n)' = Service(n)
      /\ \A m, n : Travel(m, n)' = Travel(m, n)
  BY DEF Stops, Vehicles, Stop, Vehicle, Service, Travel
<1>2. Demand' = Demand
  BY <1>1 DEF Demand
<1>3. [v \in Vehicles |-> Vehicle(v).capacity]' = [v \in Vehicles |-> Vehicle(v).capacity]
  BY <1>1
<1>4. TotalDemand' = TotalDemand /\ TotalCapacity' = TotalCapacity
  BY <1>1, <1>2, <1>3, Zenon DEF TotalDemand, TotalCapacity
<1>5. TooMuchToCarry' = TooMuchToCarry
  BY <1>4, Zenon DEF TooMuchToCarry
<1>6. Routings' = Routings
  <2>1. Orders' = Orders
    BY <1>1, Zenon DEF Orders
  <2>2. Cuts' = Cuts
    BY <1>1, Zenon DEF Cuts
  <2> QED
    BY <1>1, <2>1, <2>2 DEF Routings
<1>7. \A r : DemandOn(r)' = DemandOn(r)
  <2> SUFFICES ASSUME NEW r PROVE DemandOn(r)' = DemandOn(r)
    OBVIOUS
  <2>1. [k \in DOMAIN r |-> Stop(r[k]).demand]' = [k \in DOMAIN r |-> Stop(r[k]).demand]
    BY <1>1
  <2> QED
    BY <2>1, Zenon DEF DemandOn
<1>8. \A r : \A v : WithinCapacity(r, v)' = WithinCapacity(r, v)
  BY <1>1, <1>7, Zenon DEF WithinCapacity
<1>9. \A r : Cumul(r)' = Cumul(r)
  <2> SUFFICES ASSUME NEW r PROVE Cumul(r)' = Cumul(r)
    OBVIOUS
  <2>1. \A m, n : TimeCallback(m, n)' = TimeCallback(m, n)
    BY <1>1, Zenon DEF TimeCallback
  <2>2. [k \in 1..Len(r) + 1 |-> TimeCallback(At(r, k - 1), At(r, k))]'
          = [k \in 1..Len(r) + 1 |-> TimeCallback(At(r, k - 1), At(r, k))]
    BY <2>1
  <2> QED
    BY <2>2, Zenon DEF Cumul
<1>10. Horizon' = Horizon
  <2>1. {Vehicle(v).maxDuration : v \in Vehicles}' = {Vehicle(v).maxDuration : v \in Vehicles}
    BY <1>1
  <2> QED
    BY <2>1, Zenon DEF Horizon
<1>11. \A r : InTime(r)' <=> InTime(r)
  <2>1. \A i, t : InWindow(i, t)' <=> InWindow(i, t)
    BY <1>1, Zenon DEF InWindow
  <2> QED
    BY <1>9, <1>10, <2>1, Zenon DEF InTime
<1>12. Solutions' = Solutions
  BY <1>1, <1>6, <1>8, <1>11, Zenon DEF Solutions
<1>13. \A r : StepsOf(r)' = StepsOf(r)
  <2> SUFFICES ASSUME NEW r PROVE StepsOf(r)' = StepsOf(r)
    OBVIOUS
  <2> DEFINE driven == [k \in DOMAIN r |-> Travel(At(r, k - 1), r[k])]
             spent == [k \in DOMAIN r |-> driven[k] + Ticks * Service(r[k])]
             taken == [k \in DOMAIN r |-> Stop(r[k]).demand]
  <2>1. driven' = driven
    BY <1>1
  <2>2. spent' = spent
    BY <1>1, <2>1
  <2>3. taken' = taken
    BY <1>1
  <2>4. StepsOf(r) = [k \in DOMAIN r |->
           [stop |-> r[k], arrival |-> Accumulated(spent, Len(r))[k - 1] + driven[k],
            departure |-> Accumulated(spent, Len(r))[k], load |-> Accumulated(taken, Len(r))[k]]]
    BY Zenon DEF StepsOf
  <2>5. StepsOf(r)' = [k \in DOMAIN r |->
           [stop |-> r[k], arrival |-> Accumulated(spent', Len(r))[k - 1] + driven'[k],
            departure |-> Accumulated(spent', Len(r))[k], load |-> Accumulated(taken', Len(r))[k]]]
    BY Zenon DEF StepsOf
  <2> HIDE DEF driven, spent, taken
  <2> QED
    BY <2>1, <2>2, <2>3, <2>4, <2>5, Zenon
<1>14. \A a : ExactPlan(a)' = ExactPlan(a)
  <2> SUFFICES ASSUME NEW a PROVE ExactPlan(a)' = ExactPlan(a)
    OBVIOUS
  <2>1. [v \in Vehicles |-> StepsOf(a[v])]' = [v \in Vehicles |-> StepsOf(a[v])]
    BY <1>1, <1>13
  <2> QED
    BY <2>1, Zenon DEF ExactPlan, Plan
<1> QED
  BY <1>5, <1>12, <1>14

-----------------------------------------------------------------------------
\* The initial state satisfies the invariant.
LEMMA InitEstablishes == Init => IInv
<1> SUFFICES ASSUME Init PROVE IInv
  OBVIOUS
<1>1. IsRequest(request)
  BY RequestsAssumption DEF Init
<1>2. \A v \in Vehicles : routes[v] = <<>> /\ DOMAIN routes[v] = {}
  BY DEF Init
<1>3. routes \in [Vehicles -> RouteSteps]
  BY DEF Init, RouteSteps
<1>4. TypeOK
  BY <1>1, <1>3, RequestTyped DEF Init, TypeOK, NoPlan
<1>5. StopsArePartitioned
  BY <1>2 DEF Init, StopsArePartitioned, ServedIn
<1>6. StepsAreChained
  BY <1>2 DEF StepsAreChained
<1>7. LocalsAreCurrent
  BY DEF Init, LocalsAreCurrent
<1>8. AheadIsEmpty
  BY <1>2 DEF Init, AheadIsEmpty
<1>9. NearestFirst
  BY <1>2 DEF NearestFirst
<1>10. LeftBehindIsForced
  BY <1>1, RequestTyped DEF Init, LeftBehindIsForced, Finished
<1>11. PlanIsOfItsMethod
  BY DEF Init, PlanIsOfItsMethod, HasPlan, NoPlan
<1> QED
  BY <1>4, <1>5, <1>6, <1>7, <1>8, <1>9, <1>10, <1>11 DEF IInv

\* While a vehicle is on its way, the stops left before its next step remain.
LEMMA LeftIsRemaining ==
  ASSUME IInv, pc = "stops"
  PROVE  LeftBefore(vehicle, LastOf(vehicle)) = remaining
<1>1. vehicle \in Vehicles /\ Vehicles = 1..Len(request.vehicles) /\ Len(request.vehicles) \in Nat
  BY RequestTyped DEF IInv, TypeOK
<1>2. DOMAIN routes[vehicle] = 1..Len(routes[vehicle]) /\ Len(routes[vehicle]) \in Nat
  BY <1>1, RoutesTyped DEF IInv
<1>3. {routes[vehicle][j].stop : j \in 1..LastOf(vehicle) - 1} = ServedIn(routes[vehicle])
  BY <1>2 DEF LastOf, ServedIn
<1>4. \A v \in Vehicles : v > vehicle => ServedIn(routes[v]) = {}
  BY DEF IInv, AheadIsEmpty, ServedIn
<1>5. UNION {ServedIn(routes[v]) : v \in Vehicles}
        = ServedIn(routes[vehicle]) \cup UNION {ServedIn(routes[v]) : v \in 1..vehicle - 1}
  <2> DEFINE S(v) == ServedIn(routes[v])
  <2>1. \A v \in Vehicles : v > vehicle => S(v) = {}
    BY <1>4
  <2>2. \A v \in Vehicles : v = vehicle \/ v \in 1..vehicle - 1 \/ v > vehicle
    BY <1>1
  <2>3. \A v \in 1..vehicle - 1 : v \in Vehicles
    BY <1>1
  <2> HIDE DEF S
  <2>4. UNION {S(v) : v \in Vehicles} = S(vehicle) \cup UNION {S(v) : v \in 1..vehicle - 1}
    BY <1>1, <2>1, <2>2, <2>3
  <2> QED
    BY <2>4 DEF S
<1> QED
  BY <1>3, <1>5 DEF IInv, StopsArePartitioned, LeftBefore

\* Steps outside the loop over a vehicle's stops leave its variables alone.
LEMMA OutsideTheLoop ==
  ASSUME IInv, TypeOK', pc # "stops", pc' # "stops",
         pc' \in {"start", "exact"} => pc \in {"start", "exact"},
         UNCHANGED <<request, vehicle, remaining, routes>>,
         PlanIsOfItsMethod'
  PROVE  IInv'
<1>1. StopsArePartitioned'
  BY DEF IInv, StopsArePartitioned, Stops, Vehicles, ServedIn
<1>2. StepsAreChained'
  BY DEF IInv, StepsAreChained, Vehicles, Vehicle, Stop, Travel, TimeBefore, NodeBefore, LoadBefore
<1>3. LocalsAreCurrent'
  BY DEF LocalsAreCurrent
<1>4. AheadIsEmpty'
  BY DEF IInv, AheadIsEmpty, Vehicles
<1>5. NearestFirst'
  BY DEF IInv, NearestFirst, Vehicles, Stops, Vehicle, Stop, LeftBefore, ServedIn, FitsBefore,
         LoadBefore, NodeBefore, Closer, Travel
<1>6. \A v \in Vehicles : Finished(v)' => Finished(v)
  <2>1. Vehicles = 1..Len(request.vehicles) /\ Len(request.vehicles) \in Nat
    BY RequestTyped DEF IInv, TypeOK
  <2>2. pc \in {"start", "exact"} => vehicle = 0
    BY DEF IInv, AheadIsEmpty
  <2>3. \A v \in Vehicles : v = vehicle => pc \in {"vehicles", "done"}
    BY <2>1, <2>2 DEF IInv, TypeOK
  <2> QED
    BY <2>3 DEF Finished
<1>7. LeftBehindIsForced'
  BY <1>6 DEF IInv, LeftBehindIsForced, Vehicles, Stops, Vehicle, Stop, LeftBefore, LastOf, ServedIn,
              FitsBefore, TooLateBefore, LoadBefore, NodeBefore, TimeBefore, Closer, Travel
<1> QED
  BY <1>1, <1>2, <1>3, <1>4, <1>5, <1>7 DEF IInv

-----------------------------------------------------------------------------
\* The next vehicle starts at the depot, empty, and the one before is finished.
LEMMA NextVehiclePreserves == IInv /\ NextVehicle => IInv'
<1> SUFFICES ASSUME IInv, NextVehicle PROVE IInv'
  OBVIOUS
<1>1. /\ Vehicles = 1..Len(request.vehicles)
      /\ Len(request.vehicles) \in Nat
      /\ vehicle \in Nat
  BY RequestTyped DEF IInv, TypeOK
<1>2. vehicle' \in Vehicles /\ vehicle' = vehicle + 1 /\ pc = "vehicles" /\ pc' = "stops"
  BY <1>1 DEF IInv, TypeOK, NextVehicle
<1>3. UNCHANGED <<request, remaining, routes, plan>>
  BY DEF NextVehicle
<1>4. TypeOK'
  <2>1. node' \in 0..Len(request.stops) /\ load' \in Nat /\ time' \in Nat
    BY RequestTyped DEF IInv, TypeOK, NextVehicle
  <2>2. vehicle' \in 0..Len(request.vehicles)
    BY <1>1, <1>2
  <2>3. Vehicles' = Vehicles /\ Stops' = Stops /\ RouteSteps' = RouteSteps
    BY <1>3 DEF Vehicles, Stops, RouteSteps
  <2> QED
    BY <1>2, <1>3, <2>1, <2>2, <2>3 DEF IInv, TypeOK
<1>5. StopsArePartitioned'
  BY <1>3 DEF IInv, StopsArePartitioned, Stops, Vehicles, ServedIn
<1>6. StepsAreChained'
  BY <1>3 DEF IInv, StepsAreChained, Vehicles, Vehicle, Stop, Travel, TimeBefore, NodeBefore, LoadBefore
<1>7. AheadIsEmpty'
  BY <1>1, <1>2, <1>3 DEF IInv, AheadIsEmpty, Vehicles
<1>8. routes'[vehicle'] = <<>>
  BY <1>1, <1>2, <1>3 DEF IInv, AheadIsEmpty
<1>9. LocalsAreCurrent'
  BY <1>2, <1>8 DEF NextVehicle, LocalsAreCurrent, LastOf, NodeBefore, LoadBefore, TimeBefore
<1>10. NearestFirst'
  BY <1>3 DEF IInv, NearestFirst, Vehicles, Stops, Vehicle, Stop, LeftBefore, ServedIn, FitsBefore,
              LoadBefore, NodeBefore, Closer, Travel
<1>11. \A v \in Vehicles : Finished(v)' => Finished(v)
  BY <1>1, <1>2 DEF Finished
<1>12. LeftBehindIsForced'
  BY <1>3, <1>11 DEF IInv, LeftBehindIsForced, Vehicles, Stops, Vehicle, Stop, LeftBefore, LastOf,
                     ServedIn, FitsBefore, TooLateBefore, LoadBefore, NodeBefore, TimeBefore,
                     Closer, Travel
<1>13. PlanIsOfItsMethod'
  BY <1>2, <1>3 DEF IInv, PlanIsOfItsMethod, HasPlan, Plan, NoPlan
<1> QED
  BY <1>4, <1>5, <1>6, <1>7, <1>9, <1>10, <1>12, <1>13 DEF IInv

\* A vehicle is done when nothing fits, or the nearest stop that fits is too late.
LEMMA VehicleDonePreserves == IInv /\ VehicleDone => IInv'
<1> SUFFICES ASSUME IInv, VehicleDone PROVE IInv'
  OBVIOUS
<1>1. /\ vehicle \in Vehicles
      /\ Vehicles = 1..Len(request.vehicles)
      /\ Len(request.vehicles) \in Nat
  BY RequestTyped DEF IInv, TypeOK, VehicleDone
<1>2. UNCHANGED <<request, vehicle, remaining, routes, plan>> /\ pc = "stops" /\ pc' = "vehicles"
  BY DEF VehicleDone
<1>3. TypeOK'
  BY <1>2 DEF IInv, TypeOK, VehicleDone, Vehicles, Stops, RouteSteps
<1>4. StopsArePartitioned'
  BY <1>2 DEF IInv, StopsArePartitioned, Stops, Vehicles, ServedIn
<1>5. StepsAreChained'
  BY <1>2 DEF IInv, StepsAreChained, Vehicles, Vehicle, Stop, Travel, TimeBefore, NodeBefore, LoadBefore
<1>6. LocalsAreCurrent'
  BY <1>2 DEF LocalsAreCurrent
<1>7. AheadIsEmpty'
  BY <1>2 DEF IInv, AheadIsEmpty, Vehicles
<1>8. NearestFirst'
  BY <1>2 DEF IInv, NearestFirst, Vehicles, Stops, Vehicle, Stop, LeftBefore, ServedIn, FitsBefore,
              LoadBefore, NodeBefore, Closer, Travel
<1> DEFINE Forced(v) ==
      \A i \in LeftBefore(v, LastOf(v)) : FitsBefore(v, LastOf(v), i) =>
        \E j \in LeftBefore(v, LastOf(v)) :
          /\ FitsBefore(v, LastOf(v), j)
          /\ TooLateBefore(v, LastOf(v), j)
          /\ j = i \/ Closer(NodeBefore(v, LastOf(v)), j, i)
<1>9. Forced(vehicle)
  <2>1. /\ node = NodeBefore(vehicle, LastOf(vehicle))
        /\ load = LoadBefore(vehicle, LastOf(vehicle))
        /\ time = TimeBefore(vehicle, LastOf(vehicle))
    BY <1>2 DEF IInv, LocalsAreCurrent
  <2>2. LeftBefore(vehicle, LastOf(vehicle)) = remaining
    BY <1>2, LeftIsRemaining
  <2>3. \A i \in remaining : FitsBefore(vehicle, LastOf(vehicle), i) <=> i \in Candidates
    BY <2>1 DEF FitsBefore, Candidates
  <2>4. CASE Candidates = {}
    BY <2>2, <2>3, <2>4
  <2>5. CASE \E j \in Candidates : Nearest(j) /\ ~InBudget(j)
    <3>1. PICK j \in Candidates : Nearest(j) /\ ~InBudget(j)
      BY <2>5
    <3>2. j \in remaining
      BY DEF Candidates
    <3>3. TooLateBefore(vehicle, LastOf(vehicle), j)
      <4>1. /\ time \in Nat /\ node \in 0..Len(request.stops)
            /\ j \in Stops /\ Stop(j).service \in Nat /\ Travel(node, j) \in Nat
            /\ Vehicle(vehicle).maxDuration \in Nat
        BY <1>1, <3>2, RequestTyped DEF IInv, TypeOK
      <4>2. ~(time + Travel(node, j) + Ticks * Stop(j).service <= Ticks * Vehicle(vehicle).maxDuration)
        BY <3>1 DEF InBudget
      <4> QED
        BY <2>1, <4>1, <4>2, TicksAssumption DEF TooLateBefore
    <3>4. \A i \in Candidates : j = i \/ Closer(node, j, i)
      BY <3>1 DEF Nearest
    <3> QED
      BY <2>1, <2>2, <2>3, <3>2, <3>3, <3>4
  <2> QED
    BY <2>4, <2>5 DEF VehicleDone
<1>10. \A v \in Vehicles : Finished(v)' => Finished(v) \/ v = vehicle
  BY <1>1, <1>2 DEF Finished
<1>11. \A v \in Vehicles : Finished(v)' => Forced(v)
  BY <1>9, <1>10 DEF IInv, LeftBehindIsForced
<1>12. LeftBehindIsForced'
  BY <1>2, <1>11 DEF LeftBehindIsForced, Vehicles, Stops, Vehicle, Stop, LeftBefore, LastOf,
                     ServedIn, FitsBefore, TooLateBefore, LoadBefore, NodeBefore, TimeBefore,
                     Closer, Travel
<1>13. PlanIsOfItsMethod'
  BY <1>2 DEF IInv, PlanIsOfItsMethod, HasPlan, Plan, NoPlan
<1> QED
  BY <1>3, <1>4, <1>5, <1>6, <1>7, <1>8, <1>12, <1>13 DEF IInv

-----------------------------------------------------------------------------
\* A visit appends a step to the route of the vehicle that is on its way.
LEMMA VisitAppends ==
  ASSUME IInv, NEW i \in Stops, Visit(i)
  PROVE  LET n == Len(routes[vehicle])
         IN  /\ vehicle \in Vehicles
             /\ i \in remaining
             /\ n \in Nat
             /\ Arrive(i) \in [stop : Stops, arrival : Nat, departure : Nat, load : Nat]
             /\ routes' \in [Vehicles -> RouteSteps]
             /\ \A v \in Vehicles : v # vehicle => routes'[v] = routes[v]
             /\ DOMAIN routes[vehicle] = 1..n
             /\ DOMAIN routes'[vehicle] = 1..n + 1
             /\ Len(routes'[vehicle]) = n + 1
             /\ \A k \in 1..n : routes'[vehicle][k] = routes[vehicle][k]
             /\ routes'[vehicle][n + 1] = Arrive(i)
<1> DEFINE Step == [stop : Stops, arrival : Nat, departure : Nat, load : Nat]
<1>1. vehicle \in Vehicles /\ i \in remaining
  BY DEF IInv, TypeOK, Visit, Nearest, Candidates
<1>2. /\ node \in 0..Len(request.stops) /\ i \in 0..Len(request.stops)
      /\ Stop(i).demand \in Nat /\ Stop(i).service \in Nat
      /\ time \in Nat /\ load \in Nat
  BY RequestTyped DEF IInv, TypeOK
<1>3. Travel(node, i) \in Nat
  BY <1>2, RequestTyped DEF IInv, TypeOK
<1>4. Ticks * Stop(i).service \in Nat
  BY <1>2, TicksAssumption
<1>5. Arrive(i) \in Step
  BY <1>2, <1>3, <1>4 DEF Arrive
<1>6. routes[vehicle] \in Seq(Step)
  BY <1>1 DEF IInv, TypeOK, RouteSteps
<1>7. routes \in [Vehicles -> RouteSteps]
  BY DEF IInv, TypeOK
<1>8. routes' = [routes EXCEPT ![vehicle] = Append(routes[vehicle], Arrive(i))]
  BY DEF Visit
<1>9. routes'[vehicle] = Append(routes[vehicle], Arrive(i))
  BY <1>1, <1>7, <1>8
<1>10. \A v \in Vehicles : v # vehicle => routes'[v] = routes[v]
  BY <1>7, <1>8
<1> HIDE DEF Step
<1>11. /\ Append(routes[vehicle], Arrive(i)) \in Seq(Step)
       /\ DOMAIN routes[vehicle] = 1..Len(routes[vehicle])
       /\ Len(routes[vehicle]) \in Nat
       /\ Len(routes'[vehicle]) = Len(routes[vehicle]) + 1
       /\ DOMAIN routes'[vehicle] = 1..Len(routes[vehicle]) + 1
       /\ \A k \in 1..Len(routes[vehicle]) : routes'[vehicle][k] = routes[vehicle][k]
       /\ routes'[vehicle][Len(routes[vehicle]) + 1] = Arrive(i)
  BY <1>5, <1>6, <1>9, AppendedSeq
<1>12. Append(routes[vehicle], Arrive(i)) \in RouteSteps
  BY <1>11 DEF RouteSteps, Step
<1>13. routes' \in [Vehicles -> RouteSteps]
  BY <1>7, <1>8, <1>12
<1> QED
  BY <1>1, <1>5, <1>10, <1>11, <1>13 DEF Step

\* What comes before a step that was there is as it was.
LEMMA VisitKeepsThePast ==
  ASSUME IInv, NEW i \in Stops, Visit(i),
         NEW v \in Vehicles, v <= vehicle, NEW k \in 1..Len(routes[v]) + 1
  PROVE  /\ (NodeBefore(v, k) = NodeBefore(v, k)')
         /\ (LoadBefore(v, k) = LoadBefore(v, k)')
         /\ (TimeBefore(v, k) = TimeBefore(v, k)')
         /\ (LeftBefore(v, k) = LeftBefore(v, k)')
<1>1. /\ Vehicles = 1..Len(request.vehicles)
      /\ Len(request.vehicles) \in Nat
      /\ vehicle \in Vehicles
  BY RequestTyped, VisitAppends DEF IInv, TypeOK
<1>2. DOMAIN routes[v] = 1..Len(routes[v]) /\ Len(routes[v]) \in Nat
  BY RoutesTyped DEF IInv
<1>3. \A j \in 1..Len(routes[v]) : routes'[v][j] = routes[v][j]
  BY VisitAppends
<1>4. k = 1 \/ k - 1 \in 1..Len(routes[v])
  BY <1>2
<1>5. \A j \in 1..k - 1 : routes'[v][j] = routes[v][j]
  BY <1>2, <1>3
<1>6. \A w \in 1..v - 1 : routes'[w] = routes[w]
  BY <1>1, VisitAppends
<1>7. {routes[v][j].stop : j \in 1..k - 1} = {routes'[v][j].stop : j \in 1..k - 1}
  BY <1>5
<1>8. UNION {ServedIn(routes[w]) : w \in 1..v - 1} = UNION {ServedIn(routes'[w]) : w \in 1..v - 1}
  BY <1>6
<1>9. LeftBefore(v, k) = LeftBefore(v, k)'
  BY <1>7, <1>8 DEF LeftBefore, Stops, Visit
<1> QED
  BY <1>3, <1>4, <1>9 DEF NodeBefore, LoadBefore, TimeBefore

\* A visit keeps the invariant.
LEMMA VisitPreserves ==
  ASSUME IInv, NEW i \in Stops, Visit(i)
  PROVE  IInv'
<1> DEFINE n == Len(routes[vehicle])
           Next1 == n + 1
<1>1. /\ Vehicles = 1..Len(request.vehicles)
      /\ Len(request.vehicles) \in Nat
      /\ vehicle \in Vehicles
      /\ vehicle \in Nat
  <2>1. Vehicles = 1..Len(request.vehicles) /\ Len(request.vehicles) \in Nat
    BY RequestTyped DEF IInv, TypeOK
  <2>2. vehicle \in Vehicles
    BY VisitAppends
  <2> QED
    BY <2>1, <2>2
<1>2. /\ pc = "stops" /\ pc' = "stops" /\ UNCHANGED <<request, vehicle, plan>>
      /\ remaining' = remaining \ {i}
  BY DEF Visit
<1>3. /\ i \in remaining
      /\ n \in Nat
      /\ DOMAIN routes[vehicle] = 1..n
      /\ DOMAIN routes'[vehicle] = 1..Next1
      /\ Len(routes'[vehicle]) = Next1
      /\ \A k \in 1..n : routes'[vehicle][k] = routes[vehicle][k]
      /\ routes'[vehicle][Next1] = Arrive(i)
  BY VisitAppends
<1>4. \A v \in Vehicles : v # vehicle => routes'[v] = routes[v]
  BY VisitAppends
<1>5. /\ Arrive(i).stop = i
      /\ Arrive(i).arrival = time + Travel(node, i)
      /\ Arrive(i).departure = Arrive(i).arrival + Ticks * Stop(i).service
      /\ Arrive(i).load = load + Stop(i).demand
  BY DEF Arrive
<1>6. /\ node = NodeBefore(vehicle, Next1)
      /\ load = LoadBefore(vehicle, Next1)
      /\ time = TimeBefore(vehicle, Next1)
      /\ LeftBefore(vehicle, Next1) = remaining
  BY <1>2, LeftIsRemaining DEF IInv, LocalsAreCurrent, LastOf
<1>7. Vehicles' = Vehicles /\ Stops' = Stops
  BY <1>2 DEF Vehicles, Stops
<1> HIDE DEF n, Next1
<1>8. Next1 \in Nat /\ Next1 > n /\ Next1 = n + 1
  BY <1>3 DEF Next1
<1>9. \A k \in 1..Next1 : k \in 1..n \/ k = Next1
  BY <1>3, <1>8
<1>10. TypeOK'
  <2>1. /\ node' \in 0..Len(request.stops)
        /\ load' \in Nat
        /\ time' \in Nat
    <3>1. Arrive(i).load \in Nat /\ Arrive(i).departure \in Nat
      BY VisitAppends
    <3>2. i \in 0..Len(request.stops)
      BY RequestTyped DEF IInv, TypeOK
    <3> QED
      BY <3>1, <3>2 DEF Visit
  <2>2. routes' \in [Vehicles -> RouteSteps] /\ RouteSteps' = RouteSteps
    BY <1>7, VisitAppends DEF RouteSteps
  <2> QED
    BY <1>2, <1>7, <2>1, <2>2 DEF IInv, TypeOK
<1>11. ServedIn(routes'[vehicle]) = ServedIn(routes[vehicle]) \cup {i}
  BY <1>3, <1>5, <1>8, <1>9 DEF ServedIn
<1>12. StopsArePartitioned'
  <2> DEFINE S(v) == ServedIn(routes[v])
             T(v) == ServedIn(routes'[v])
  <2>1. \A v \in Vehicles : v # vehicle => T(v) = S(v)
    BY <1>4
  <2>2. T(vehicle) = S(vehicle) \cup {i}
    BY <1>11
  <2> HIDE DEF S, T
  <2>3. UNION {T(v) : v \in Vehicles} = (UNION {S(v) : v \in Vehicles}) \cup {i}
    BY <1>1, <2>1, <2>2
  <2>4. remaining = Stops \ UNION {S(v) : v \in Vehicles}
    BY DEF IInv, StopsArePartitioned, S
  <2>5. remaining' = Stops \ UNION {T(v) : v \in Vehicles}
    BY <1>2, <2>3, <2>4
  <2>6. \A v \in Vehicles : \A k \in DOMAIN routes[v] : routes[v][k].stop # i
    BY <1>3, <2>4 DEF S, ServedIn
  <2>7. \A v, w \in Vehicles : \A j \in DOMAIN routes[v], k \in DOMAIN routes[w] :
          routes[v][j].stop = routes[w][k].stop => v = w /\ j = k
    BY DEF IInv, StopsArePartitioned
  <2>8. \A v, w \in Vehicles : \A j \in DOMAIN routes'[v], k \in DOMAIN routes'[w] :
          routes'[v][j].stop = routes'[w][k].stop => v = w /\ j = k
    <3> SUFFICES ASSUME NEW v \in Vehicles, NEW w \in Vehicles,
                        NEW j \in DOMAIN routes'[v], NEW k \in DOMAIN routes'[w],
                        routes'[v][j].stop = routes'[w][k].stop
                 PROVE  v = w /\ j = k
      OBVIOUS
    <3>1. \/ v = vehicle /\ j = Next1 /\ routes'[v][j].stop = i
          \/ j \in DOMAIN routes[v] /\ routes'[v][j] = routes[v][j]
      BY <1>3, <1>4, <1>5, <1>9
    <3>2. \/ w = vehicle /\ k = Next1 /\ routes'[w][k].stop = i
          \/ k \in DOMAIN routes[w] /\ routes'[w][k] = routes[w][k]
      BY <1>3, <1>4, <1>5, <1>9
    <3> QED
      BY <2>6, <2>7, <3>1, <3>2
  <2> QED
    BY <1>7, <2>5, <2>8 DEF StopsArePartitioned, T
<1>13. \A v \in Vehicles : v <= vehicle => Len(routes[v]) \in Nat /\ DOMAIN routes[v] = 1..Len(routes[v])
  BY RoutesTyped DEF IInv
<1>14. \A v \in Vehicles : v > vehicle => DOMAIN routes'[v] = {} /\ routes'[v] = <<>>
  BY <1>1, <1>4 DEF IInv, AheadIsEmpty
<1>15. \A v \in Vehicles : v <= vehicle => \A k \in 1..Len(routes[v]) + 1 :
         /\ (NodeBefore(v, k)' = NodeBefore(v, k))
         /\ (LoadBefore(v, k)' = LoadBefore(v, k))
         /\ (TimeBefore(v, k)' = TimeBefore(v, k))
         /\ (LeftBefore(v, k)' = LeftBefore(v, k))
  BY VisitKeepsThePast
\* A step is an old one of a vehicle reached so far, or the new one.
<1>16. \A v \in Vehicles : \A k \in DOMAIN routes'[v] :
         /\ v <= vehicle
         /\ k \in 1..Len(routes[v]) + 1
         /\ \/ v = vehicle /\ k = Next1
            \/ k \in DOMAIN routes[v] /\ routes'[v][k] = routes[v][k]
  <2> SUFFICES ASSUME NEW v \in Vehicles, NEW k \in DOMAIN routes'[v]
               PROVE  /\ v <= vehicle
                      /\ k \in 1..Len(routes[v]) + 1
                      /\ \/ v = vehicle /\ k = Next1
                         \/ k \in DOMAIN routes[v] /\ routes'[v][k] = routes[v][k]
    OBVIOUS
  <2>1. v <= vehicle
    BY <1>1, <1>14
  <2>2. CASE v = vehicle
    BY <1>3, <1>8, <1>9, <2>1, <2>2 DEF n
  <2>3. CASE v # vehicle
    BY <1>4, <1>13, <2>1, <2>3
  <2> QED
    BY <2>2, <2>3
<1>17. Next1 = Len(routes[vehicle]) + 1 /\ vehicle <= vehicle
  BY <1>1 DEF Next1, n
<1>18. StepsAreChained'
  <2> SUFFICES ASSUME NEW v \in Vehicles, NEW k \in DOMAIN routes'[v]
               PROVE  /\ routes'[v][k].arrival = TimeBefore(v, k)' + Travel(NodeBefore(v, k)', routes'[v][k].stop)
                      /\ routes'[v][k].departure = routes'[v][k].arrival + Ticks * Stop(routes'[v][k].stop).service
                      /\ routes'[v][k].load = LoadBefore(v, k)' + Stop(routes'[v][k].stop).demand
                      /\ routes'[v][k].load <= Vehicle(v).capacity
                      /\ routes'[v][k].departure <= Ticks * Vehicle(v).maxDuration
    BY <1>2, <1>7 DEF StepsAreChained, Travel, Stop, Vehicle
  <2>1. /\ NodeBefore(v, k)' = NodeBefore(v, k)
        /\ LoadBefore(v, k)' = LoadBefore(v, k)
        /\ TimeBefore(v, k)' = TimeBefore(v, k)
    BY <1>15, <1>16
  <2>2. CASE k \in DOMAIN routes[v] /\ routes'[v][k] = routes[v][k]
    BY <2>1, <2>2 DEF IInv, StepsAreChained
  <2>3. CASE v = vehicle /\ k = Next1
    <3>1. load + Stop(i).demand <= Vehicle(vehicle).capacity
      BY DEF Visit, Nearest, Candidates
    <3>2. time + Travel(node, i) + Ticks * Stop(i).service <= Ticks * Vehicle(vehicle).maxDuration
      BY DEF Visit, InBudget
    <3>3. routes'[v][k] = Arrive(i)
      BY <1>3, <2>3
    <3> QED
      BY <1>5, <1>6, <2>1, <2>3, <3>1, <3>2, <3>3
  <2> QED
    BY <1>16, <2>2, <2>3
<1>19. LocalsAreCurrent'
  <2>1. (LastOf(vehicle))' = Next1 + 1
    BY <1>2, <1>3 DEF LastOf
  <2>2. Next1 + 1 # 1 /\ Next1 + 1 - 1 = Next1
    BY <1>3, <1>8
  <2>3. node' = i /\ load' = Arrive(i).load /\ time' = Arrive(i).departure
    BY DEF Visit
  <2> QED
    BY <1>2, <1>3, <1>5, <2>1, <2>2, <2>3 DEF LocalsAreCurrent, NodeBefore, LoadBefore, TimeBefore
<1>20. AheadIsEmpty'
  BY <1>2, <1>7, <1>14 DEF AheadIsEmpty
<1>21. NearestFirst'
  <2> SUFFICES ASSUME NEW v \in Vehicles, NEW k \in DOMAIN routes'[v], NEW j \in LeftBefore(v, k)',
                      FitsBefore(v, k, j)'
               PROVE  j = routes'[v][k].stop \/ Closer(NodeBefore(v, k)', routes'[v][k].stop, j)
    BY <1>2, <1>7 DEF NearestFirst, Closer, Travel
  <2>1. /\ NodeBefore(v, k)' = NodeBefore(v, k)
        /\ LoadBefore(v, k)' = LoadBefore(v, k)
        /\ j \in LeftBefore(v, k)
    BY <1>15, <1>16
  <2>2. FitsBefore(v, k, j)
    BY <1>2, <2>1 DEF FitsBefore, Stop, Vehicle
  <2>3. CASE k \in DOMAIN routes[v] /\ routes'[v][k] = routes[v][k]
    BY <2>1, <2>2, <2>3 DEF IInv, NearestFirst
  <2>4. CASE v = vehicle /\ k = Next1
    <3>1. j \in Candidates
      BY <1>6, <2>1, <2>2, <2>4 DEF FitsBefore, Candidates
    <3>2. j = i \/ Closer(node, i, j)
      BY <3>1 DEF Visit, Nearest
    <3> QED
      BY <1>3, <1>5, <1>6, <2>1, <2>4, <3>2
  <2> QED
    BY <1>16, <2>3, <2>4
<1>22. LeftBehindIsForced'
  <2>1. \A v \in Vehicles : Finished(v)' => v < vehicle /\ Finished(v)
    BY <1>2 DEF Finished
  <2>2. \A v \in Vehicles : v < vehicle =>
          /\ (LastOf(v)' = LastOf(v))
          /\ LastOf(v) \in 1..Len(routes[v]) + 1
          /\ v <= vehicle
    BY <1>1, <1>4, <1>13 DEF LastOf
  <2> SUFFICES ASSUME NEW v \in Vehicles, Finished(v)', NEW h \in LeftBefore(v, LastOf(v))',
                      FitsBefore(v, LastOf(v), h)'
               PROVE  \E j \in LeftBefore(v, LastOf(v))' :
                        /\ FitsBefore(v, LastOf(v), j)'
                        /\ TooLateBefore(v, LastOf(v), j)'
                        /\ j = h \/ Closer(NodeBefore(v, LastOf(v)), j, h)'
    BY <1>7 DEF LeftBehindIsForced
  <2>3. v < vehicle /\ Finished(v) /\ v <= vehicle /\ LastOf(v)' = LastOf(v)
    BY <2>1, <2>2
  <2> DEFINE m == LastOf(v)
  <2>4. /\ NodeBefore(v, m)' = NodeBefore(v, m)
        /\ LoadBefore(v, m)' = LoadBefore(v, m)
        /\ TimeBefore(v, m)' = TimeBefore(v, m)
        /\ LeftBefore(v, m)' = LeftBefore(v, m)
    <3> DEFINE q == LastOf(v)
    <3>1. q \in 1..Len(routes[v]) + 1 /\ q = q'
      BY <2>2, <2>3
    <3> QED
      BY <1>15, <2>2, <2>3, <3>1 DEF NodeBefore, LoadBefore, TimeBefore, LeftBefore
  <2> QED
    BY <1>2, <2>3, <2>4
       DEF IInv, LeftBehindIsForced, FitsBefore, TooLateBefore, Closer, Travel, Stop, Vehicle
<1>23. PlanIsOfItsMethod'
  BY <1>2 DEF IInv, PlanIsOfItsMethod, HasPlan, NoPlan
<1> QED
  BY <1>10, <1>12, <1>18, <1>19, <1>20, <1>21, <1>22, <1>23 DEF IInv

-----------------------------------------------------------------------------
\* Every step keeps the invariant.
LEMMA NextPreserves == IInv /\ [Next]_vars => IInv'
<1> SUFFICES ASSUME IInv, [Next]_vars PROVE IInv'
  OBVIOUS
<1> USE DEF NoPlan, Plan, Raised, HasPlan, PlanIsOfItsMethod
<1>1. CASE Refuse
  <2>1. TypeOK'
    BY <1>1 DEF IInv, TypeOK, Refuse, Vehicles, Stops, RouteSteps
  <2>2. TooMuchToCarry'
    BY <1>1, RequestDecides DEF Refuse
  <2> QED
    BY <1>1, <2>1, <2>2, OutsideTheLoop DEF Refuse
<1>2. CASE Start
  <2>1. TypeOK'
    BY <1>2 DEF IInv, TypeOK, Start, Vehicles, Stops, RouteSteps
  <2> QED
    BY <1>2, <2>1, OutsideTheLoop DEF Start, IInv
<1>3. CASE SolveExact
  <2>1. PICK a \in Solutions : plan' = ExactPlan(a)
    BY <1>3 DEF SolveExact
  <2>2. plan'.outcome = "plan" /\ \E b \in Solutions' : plan' = ExactPlan(b)'
    BY <1>3, <2>1, RequestDecides DEF SolveExact, ExactPlan
  <2>3. TypeOK'
    BY <1>3, <2>2 DEF IInv, TypeOK, SolveExact, Vehicles, Stops, RouteSteps
  <2> QED
    BY <1>3, <2>2, <2>3, OutsideTheLoop DEF SolveExact
<1>4. CASE ExactFindsNothing
  <2>1. TypeOK'
    BY <1>4 DEF IInv, TypeOK, ExactFindsNothing, Vehicles, Stops, RouteSteps
  <2> QED
    BY <1>4, <2>1, OutsideTheLoop DEF ExactFindsNothing, IInv
<1>5. CASE ExactRaises
  <2>1. TypeOK'
    BY <1>5 DEF IInv, TypeOK, ExactRaises, Vehicles, Stops, RouteSteps
  <2> QED
    BY <1>5, <2>1, OutsideTheLoop DEF ExactRaises
<1>6. CASE NextVehicle
  BY <1>6, NextVehiclePreserves
<1>7. CASE \E i \in Stops : Visit(i)
  BY <1>7, VisitPreserves
<1>8. CASE VehicleDone
  BY <1>8, VehicleDonePreserves
<1>9. CASE Finish
  <2>1. TypeOK'
    BY <1>9 DEF IInv, TypeOK, Finish, Vehicles, Stops, RouteSteps
  <2> QED
    BY <1>9, <2>1, OutsideTheLoop DEF Finish
<1>10. CASE Done \/ UNCHANGED vars
  <2>1. UNCHANGED <<request, pc, vehicle, node, load, time, remaining, routes, plan>>
    BY <1>10 DEF Done, vars
  <2>2. TypeOK'
    BY <2>1 DEF IInv, TypeOK, Vehicles, Stops, RouteSteps
  <2>3. PlanIsOfItsMethod'
    <3>1. /\ Solutions' = Solutions
          /\ TooMuchToCarry' = TooMuchToCarry
          /\ \A a : ExactPlan(a)' = ExactPlan(a)
      BY <2>1, RequestDecides
    <3> QED
      BY <2>1, <3>1 DEF IInv
  <2>4. CASE pc # "stops"
    BY <2>1, <2>2, <2>3, <2>4, OutsideTheLoop DEF IInv
  <2>5. CASE pc = "stops"
    <3>1. StopsArePartitioned'
      BY <2>1 DEF IInv, StopsArePartitioned, Stops, Vehicles, ServedIn
    <3>2. StepsAreChained'
      BY <2>1 DEF IInv, StepsAreChained, Vehicles, Vehicle, Stop, Travel, TimeBefore, NodeBefore,
                  LoadBefore
    <3>3. LocalsAreCurrent' /\ AheadIsEmpty'
      BY <2>1 DEF IInv, LocalsAreCurrent, AheadIsEmpty, Vehicles, LastOf, NodeBefore, LoadBefore,
                  TimeBefore
    <3>4. NearestFirst'
      BY <2>1 DEF IInv, NearestFirst, Vehicles, Stops, Vehicle, Stop, LeftBefore, ServedIn,
                  FitsBefore, LoadBefore, NodeBefore, Closer, Travel
    <3>5. LeftBehindIsForced'
      BY <2>1 DEF IInv, LeftBehindIsForced, Finished, Vehicles, Stops, Vehicle, Stop, LeftBefore,
                  LastOf, ServedIn, FitsBefore, TooLateBefore, LoadBefore, NodeBefore, TimeBefore,
                  Closer, Travel
    <3> QED
      BY <2>2, <2>3, <3>1, <3>2, <3>3, <3>4, <3>5 DEF IInv
  <2> QED
    BY <2>4, <2>5
<1> QED
  BY <1>1, <1>2, <1>3, <1>4, <1>5, <1>6, <1>7, <1>8, <1>9, <1>10 DEF Next

\* IInv is inductive.
THEOREM Invariance == Spec => []IInv
BY InitEstablishes, NextPreserves, PTL DEF Spec

\* The variables keep their types.
THEOREM TypeCorrect == Spec => []TypeOK
<1>1. IInv => TypeOK
  BY DEF IInv
<1> QED
  BY <1>1, Invariance, PTL

\* The heuristic always goes to the nearest stop that is left and fits
\* (heuristic_router.py, next_idx), the first listed of equally near ones.
THEOREM NearestStopFirst == Spec => []NearestFirst
<1>1. IInv => NearestFirst
  BY DEF IInv
<1> QED
  BY <1>1, Invariance, PTL

\* A finished vehicle leaves a stop behind only because it does not fit, or because
\* one at least as near takes too long (the two breaks of the while loop).
THEOREM LeftBehindForced == Spec => []LeftBehindIsForced
<1>1. IInv => LeftBehindIsForced
  BY DEF IInv
<1> QED
  BY <1>1, Invariance, PTL

-----------------------------------------------------------------------------
\* The solutions of OR-Tools.

\* What IsRequest says of the request, through the operators of OR-Tools' model.
LEMMA CallbacksTyped ==
  ASSUME IsRequest(request), NEW m \in 0..Len(request.stops), NEW n \in 0..Len(request.stops)
  PROVE  /\ Travel(m, n) \in Nat
         /\ Service(n) \in Nat
         /\ Ticks * Service(n) \in Nat
         /\ TimeCallback(m, n) \in Nat
         /\ Ticks * TimeCallback(m, n) <= Travel(m, n) + Ticks * Service(n)
         /\ Travel(m, n) + Ticks * Service(n) < Ticks * TimeCallback(m, n) + Ticks
<1>1. Travel(m, n) \in Nat /\ Service(n) \in Nat
  <2>1. n # 0 => n \in Stops
    BY RequestTyped
  <2> QED
    BY <2>1, RequestTyped DEF Service
<1>2. Ticks * Service(n) \in Nat
  BY <1>1, TicksAssumption
<1>3. ASSUME NEW x \in Nat
      PROVE  x \div Ticks \in Nat /\ Ticks * (x \div Ticks) <= x /\ x < Ticks * (x \div Ticks) + Ticks
  BY TicksAssumption
<1>4. Travel(m, n) + Ticks * Service(n) \in Nat
  BY <1>1, <1>2
<1> QED
  BY <1>1, <1>2, <1>3, <1>4 DEF TimeCallback

\* The cuts of an order are in order, and every place lies between two of them.
LEMMA CutsAreInOrder ==
  ASSUME IsRequest(request), NEW c \in Cuts
  PROVE  /\ \A v \in Vehicles : c[v - 1] \in 0..c[v] /\ c[v] \in 0..Len(request.stops)
         /\ \A v, w \in Vehicles : v < w => c[v] <= c[w - 1]
         /\ \A p \in 1..Len(request.stops) : \E v \in Vehicles : c[v - 1] < p /\ p <= c[v]
<1> DEFINE m == Len(request.vehicles)
           n == Len(request.stops)
<1>1. Vehicles = 1..m /\ m \in Nat /\ n \in Nat
  BY RequestTyped
<1>2. /\ c \in [0..m -> 0..n] /\ c[0] = 0 /\ c[m] = n
      /\ \A v \in 1..m : c[v - 1] <= c[v]
  BY <1>1 DEF Cuts
<1> HIDE DEF m, n
<1>3. ASSUME NEW w \in 0..m, NEW v \in 0..w PROVE c[v] <= c[w]
  <2> DEFINE P == {k \in 0..m : \A u \in 0..k : c[u] <= c[k]}
  <2>1. 0 \in P
    BY <1>1, <1>2
  <2>2. ASSUME NEW k \in 0..m - 1, k \in P PROVE k + 1 \in P
    <3>1. k + 1 \in 1..m /\ c[k] <= c[k + 1] /\ c[k] \in Nat /\ c[k + 1] \in Nat
      BY <1>1, <1>2
    <3>2. \A u \in 0..k + 1 : u \in 0..k \/ u = k + 1
      OBVIOUS
    <3>3. \A u \in 0..k : c[u] \in Nat /\ c[u] <= c[k]
      BY <1>1, <1>2, <2>2
    <3> QED
      BY <3>1, <3>2, <3>3
  <2>3. \A k \in 0..m : k \in P
    <3> HIDE DEF P
    <3> QED
      BY <1>1, <2>1, <2>2, RangeInduction
  <2> QED
    BY <2>3
<1>4. ASSUME NEW p \in 1..n PROVE \E v \in 1..m : c[v - 1] < p /\ p <= c[v]
  <2> DEFINE P == {k \in 0..m : p <= c[k] => \E v \in 1..m : c[v - 1] < p /\ p <= c[v]}
  <2>1. 0 \in P
    BY <1>1, <1>2
  <2>2. ASSUME NEW k \in 0..m - 1, k \in P PROVE k + 1 \in P
    <3>1. k + 1 \in 1..m /\ k + 1 - 1 = k /\ c[k] \in Nat
      BY <1>1, <1>2
    <3> QED
      BY <1>1, <2>2, <3>1
  <2>3. \A k \in 0..m : k \in P
    <3> HIDE DEF P
    <3> QED
      BY <1>1, <2>1, <2>2, RangeInduction
  <2>4. m \in P
    BY <1>1, <2>3
  <2> QED
    BY <1>1, <1>2, <2>4
<1>5. \A v \in Vehicles : c[v - 1] \in 0..c[v] /\ c[v] \in 0..n
  <2> SUFFICES ASSUME NEW v \in Vehicles PROVE c[v - 1] \in 0..c[v] /\ c[v] \in 0..n
    OBVIOUS
  <2>1. v \in 1..m /\ v - 1 \in 0..m /\ v \in 0..m
    BY <1>1
  <2> QED
    BY <1>2, <2>1
<1>6. \A v, w \in Vehicles : v < w => c[v] <= c[w - 1]
  <2> SUFFICES ASSUME NEW v \in Vehicles, NEW w \in Vehicles, v < w PROVE c[v] <= c[w - 1]
    OBVIOUS
  <2>1. w - 1 \in 0..m /\ v \in 0..w - 1
    BY <1>1
  <2> QED
    BY <1>3, <2>1
<1> QED
  BY <1>1, <1>4, <1>5, <1>6 DEF n

\* The routes of a solution have every stop once.
LEMMA RoutingsServeOnce ==
  ASSUME IsRequest(request), NEW a \in Routings
  PROVE  /\ \A v \in Vehicles : a[v] \in Seq(Stops)
         /\ \A v, w \in Vehicles : \A j \in DOMAIN a[v], k \in DOMAIN a[w] :
              a[v][j] = a[w][k] => v = w /\ j = k
         /\ \A i \in Stops : \E v \in Vehicles : \E k \in DOMAIN a[v] : a[v][k] = i
<1> DEFINE n == Len(request.stops)
<1>1. PICK o \in Orders, c \in Cuts : a = [v \in Vehicles |-> SubSeq(o, c[v - 1] + 1, c[v])]
  BY DEF Routings
<1>2. n \in Nat /\ Vehicles = 1..Len(request.vehicles) /\ Len(request.vehicles) \in Nat
  BY RequestTyped
<1>3. /\ o \in [1..n -> Stops]
      /\ \A p, q \in 1..n : o[p] = o[q] => p = q
      /\ \A i \in Stops : \E p \in 1..n : o[p] = i
  BY DEF Orders, Bijection, Injection, Surjection, IsInjective
<1> HIDE DEF n
<1>4. o \in Seq(Stops) /\ Len(o) = n
  BY <1>2, <1>3
<1>5. /\ \A v \in Vehicles : c[v - 1] \in 0..c[v] /\ c[v] \in 0..n
      /\ \A v, w \in Vehicles : v < w => c[v] <= c[w - 1]
      /\ \A p \in 1..n : \E v \in Vehicles : c[v - 1] < p /\ p <= c[v]
  BY CutsAreInOrder DEF n
<1>6. ASSUME NEW v \in Vehicles
      PROVE  /\ a[v] \in Seq(Stops)
             /\ DOMAIN a[v] = 1..c[v] - c[v - 1]
             /\ \A k \in 1..c[v] - c[v - 1] : a[v][k] = o[c[v - 1] + k]
  <2>1. c[v - 1] \in 0..Len(o) /\ c[v] \in c[v - 1]..Len(o)
    BY <1>2, <1>4, <1>5
  <2>2. a[v] = SubSeq(o, c[v - 1] + 1, c[v])
    BY <1>1
  <2> QED
    BY <1>4, <2>1, <2>2
<1>7. ASSUME NEW v \in Vehicles, NEW w \in Vehicles, NEW j \in DOMAIN a[v], NEW k \in DOMAIN a[w],
             a[v][j] = a[w][k]
      PROVE  v = w /\ j = k
  <2>1. j \in 1..c[v] - c[v - 1] /\ k \in 1..c[w] - c[w - 1]
    BY <1>6
  <2>2. /\ c[v - 1] \in Nat /\ c[v] \in Nat /\ c[v] <= n
        /\ c[w - 1] \in Nat /\ c[w] \in Nat /\ c[w] <= n
    BY <1>2, <1>5
  <2>3. c[v - 1] + j \in 1..n /\ c[w - 1] + k \in 1..n
    <3>1. ASSUME NEW x \in Nat, NEW y \in Nat, y <= n, NEW z \in 1..y - x PROVE x + z \in 1..n
      BY <1>2, <3>1
    <3> QED
      BY <2>1, <2>2, <3>1
  <2>4. c[v - 1] + j = c[w - 1] + k
    BY <1>3, <1>6, <1>7, <2>1, <2>3
  <2>5. ~(v < w) /\ ~(w < v)
    <3>1. ~(v < w)
      <4>1. v < w => c[v] <= c[w - 1]
        BY <1>5
      <4> QED
        BY <2>1, <2>2, <2>4, <4>1
    <3>2. ~(w < v)
      <4>1. w < v => c[w] <= c[v - 1]
        BY <1>5
      <4> QED
        BY <2>1, <2>2, <2>4, <4>1
    <3> QED
      BY <3>1, <3>2
  <2>6. v = w
    BY <1>2, <2>5
  <2> QED
    BY <2>1, <2>2, <2>4, <2>6
<1>8. ASSUME NEW i \in Stops PROVE \E v \in Vehicles : \E k \in DOMAIN a[v] : a[v][k] = i
  <2>1. PICK p \in 1..n : o[p] = i
    BY <1>3
  <2>2. PICK v \in Vehicles : c[v - 1] < p /\ p <= c[v]
    BY <1>5
  <2>3. c[v - 1] \in Nat /\ c[v] \in Nat
    BY <1>2, <1>5
  <2>4. p - c[v - 1] \in 1..c[v] - c[v - 1] /\ c[v - 1] + (p - c[v - 1]) = p
    BY <1>2, <2>2, <2>3
  <2> QED
    BY <1>6, <2>1, <2>4
<1> QED
  BY <1>6, <1>7, <1>8

\* A stop with a window has one with two ends.
LEMMA WindowTyped ==
  ASSUME IsRequest(request), NEW i \in Stops, Stop(i).window # NoWindow
  PROVE  Stop(i).window.start \in Nat /\ Stop(i).window.end \in Nat
<1>1. request.stops \in Seq([demand : Nat \ {0}, service : Nat,
                             window : {NoWindow} \cup [start : Nat, end : Nat]])
  BY DEF IsRequest
<1>2. i \in 1..Len(request.stops)
  BY RequestTyped
<1>3. request.stops[i] \in [demand : Nat \ {0}, service : Nat,
                            window : {NoWindow} \cup [start : Nat, end : Nat]]
  BY <1>1, <1>2, ElementsOfSeq
<1>4. request.stops[i].window \in [start : Nat, end : Nat]
  BY <1>3 DEF Stop
<1> QED
  BY <1>4 DEF Stop

\* The longest duration is that of a vehicle.
LEMMA HorizonIsNat == ASSUME IsRequest(request) PROVE Horizon \in Nat
<1> DEFINE D == {Vehicle(v).maxDuration : v \in Vehicles}
<1>1. Vehicles = 1..Len(request.vehicles) /\ Len(request.vehicles) \in Nat \ {0}
  <2>1. request.vehicles # <<>> /\ request.vehicles \in Seq([capacity : Nat \ {0}, maxDuration : Nat \ {0}])
    BY DEF IsRequest
  <2> QED
    BY <2>1 DEF Vehicles
<1>2. D \subseteq Nat /\ D # {}
  <2>1. 1 \in Vehicles
    BY <1>1
  <2> QED
    BY <2>1, RequestTyped
<1>3. IsFiniteSet(D)
  <2>1. IsFiniteSet(Vehicles)
    BY <1>1, FS_Interval
  <2> DEFINE f == [v \in Vehicles |-> Vehicle(v).maxDuration]
  <2>2. D = {f[v] : v \in Vehicles} /\ f \in [Vehicles -> D]
    OBVIOUS
  <2>3. f \in Surjection(Vehicles, D)
    BY <2>2 DEF Surjection
  <2> QED
    BY <2>1, <2>3, FS_Surjection DEF ExistsSurjection
<1>4. Max(D) \in D
  <2>1. D \subseteq Int
    BY <1>2
  <2> HIDE DEF D
  <2> QED
    BY <1>2, <1>3, <2>1, MaxOfFinite
<1> QED
  BY <1>2, <1>4, Zenon DEF Horizon

\* With t ticks a minute: a clock c that is ahead of x minutes, by less than a minute
\* for each of k legs, is so too after a leg of y whole minutes that took s ticks.
LEMMA OneMoreLeg ==
  ASSUME NEW t \in Nat, NEW c \in Nat, NEW x \in Nat, NEW k \in Nat, NEW s \in Nat, NEW y \in Nat,
         t * x <= c, c + k <= t * x + t * k, t * y <= s, s < t * y + t
  PROVE  /\ t * (x + y) <= c + s
         /\ c + s + (k + 1) <= t * (x + y) + t * (k + 1)
<1>1. t * (x + y) = t * x + t * y /\ t * (k + 1) = t * k + t
  OBVIOUS
<1>2. t * x \in Nat /\ t * y \in Nat /\ t * k \in Nat
  OBVIOUS
<1> QED
  BY <1>1, <1>2

\* The steps that _extract_solution lists: the loads are sums, and the times are
\* those of the Time dimension plus what int() dropped on the legs so far.
LEMMA StepsFollowTheDimensions ==
  ASSUME IsRequest(request), NEW r \in Seq(Stops)
  PROVE  /\ DOMAIN StepsOf(r) = DOMAIN r
         /\ \A k \in DOMAIN r :
              /\ StepsOf(r)[k].stop = r[k]
              /\ StepsOf(r)[k].load = Total([j \in 1..k |-> Stop(r[j]).demand], 1..k)
              /\ StepsOf(r)[k].load <= DemandOn(r)
              /\ Cumul(r)[k] \in Nat
              /\ StepsOf(r)[k].departure \in Nat
              /\ Ticks * Cumul(r)[k] <= StepsOf(r)[k].departure
              /\ StepsOf(r)[k].departure < Ticks * Cumul(r)[k] + Ticks * k
         /\ r # <<>> =>
              StepsOf(r)[Len(r)].departure + Travel(r[Len(r)], 0)
                < Ticks * Cumul(r)[Len(r) + 1] + Ticks * (Len(r) + 1)
         /\ Cumul(r)[Len(r) + 1] \in Nat
<1> DEFINE n == Len(r)
           driven == [k \in DOMAIN r |-> Travel(At(r, k - 1), r[k])]
           spent == [k \in DOMAIN r |-> driven[k] + Ticks * Service(r[k])]
           taken == [k \in DOMAIN r |-> Stop(r[k]).demand]
           legs == [k \in 1..n + 1 |-> TimeCallback(At(r, k - 1), At(r, k))]
           clock == Accumulated(spent, n)
           carried == Accumulated(taken, n)
           minutes == Accumulated(legs, n + 1)
<1>1. /\ n \in Nat /\ n + 1 \in Nat
      /\ DOMAIN r = 1..n
      /\ \A k \in 1..n : r[k] \in Stops /\ r[k] \in 0..Len(request.stops)
      /\ \A k \in 0..n + 1 : At(r, k) \in 0..Len(request.stops)
      /\ \A k \in 1..n : At(r, k) = r[k]
      /\ At(r, 0) = 0 /\ At(r, n + 1) = 0
  <2>1. n \in Nat /\ DOMAIN r = 1..n /\ \A k \in 1..n : r[k] \in Stops
    BY ElementsOfSeq
  <2>2. Stops = 1..Len(request.stops) /\ Len(request.stops) \in Nat
    BY RequestTyped
  <2>3. \A k \in 1..n : r[k] \in 0..Len(request.stops)
    BY <2>1, <2>2
  <2>4. \A k : k \in 1..n => At(r, k) = r[k]
    BY <2>1 DEF At
  <2>5. \A k : k \notin 1..n => At(r, k) = 0
    BY <2>1 DEF At
  <2>6. 0 \in 0..Len(request.stops)
    BY <2>2
  <2> HIDE DEF n
  <2>7. 0 \notin 1..n /\ n + 1 \notin 1..n /\ n + 1 \in Nat
    BY <2>1
  <2> QED
    BY <2>1, <2>3, <2>4, <2>5, <2>6, <2>7
<1>2. ASSUME NEW k \in 1..n
      PROVE  /\ driven[k] \in Nat
             /\ spent[k] \in Nat
             /\ taken[k] \in Nat
             /\ taken[k] = Stop(r[k]).demand
             /\ legs[k] \in Nat
             /\ Ticks * legs[k] <= spent[k]
             /\ spent[k] < Ticks * legs[k] + Ticks
  <2>1. /\ At(r, k - 1) \in 0..Len(request.stops)
        /\ r[k] \in 0..Len(request.stops) /\ r[k] \in Stops
        /\ At(r, k) = r[k]
        /\ k \in 1..n + 1 /\ k \in DOMAIN r
    <3>1. k - 1 \in 0..n + 1 /\ k \in 1..n + 1
      BY <1>1
    <3> QED
      BY <1>1, <3>1
  <2>2. /\ driven[k] = Travel(At(r, k - 1), r[k])
        /\ spent[k] = Travel(At(r, k - 1), r[k]) + Ticks * Service(r[k])
        /\ taken[k] = Stop(r[k]).demand
        /\ legs[k] = TimeCallback(At(r, k - 1), r[k])
    BY <2>1
  <2>3. Stop(r[k]).demand \in Nat
    BY <2>1, RequestTyped
  <2>4. /\ Travel(At(r, k - 1), r[k]) \in Nat
        /\ Ticks * Service(r[k]) \in Nat
        /\ TimeCallback(At(r, k - 1), r[k]) \in Nat
        /\ Ticks * TimeCallback(At(r, k - 1), r[k]) <= Travel(At(r, k - 1), r[k]) + Ticks * Service(r[k])
        /\ Travel(At(r, k - 1), r[k]) + Ticks * Service(r[k])
             < Ticks * TimeCallback(At(r, k - 1), r[k]) + Ticks
    BY <2>1, CallbacksTyped
  <2> HIDE DEF driven, spent, taken, legs
  <2> QED
    BY <2>2, <2>3, <2>4
<1>3. ASSUME n # 0
      PROVE  /\ legs[n + 1] \in Nat
             /\ Travel(r[n], 0) \in Nat
             /\ Ticks * legs[n + 1] <= Travel(r[n], 0)
             /\ Travel(r[n], 0) < Ticks * legs[n + 1] + Ticks
  <2>1. /\ r[n] \in 0..Len(request.stops) /\ 0 \in 0..Len(request.stops)
        /\ At(r, n + 1 - 1) = r[n] /\ At(r, n + 1) = 0 /\ n + 1 \in 1..n + 1
    <3>1. n \in 1..n /\ n + 1 - 1 = n /\ n + 1 \in 1..n + 1
      BY <1>1, <1>3
    <3>2. 0 \in 0..Len(request.stops)
      BY RequestTyped
    <3> QED
      BY <1>1, <3>1, <3>2
  <2>2. legs[n + 1] = TimeCallback(r[n], 0)
    BY <2>1
  <2>3. Service(0) = 0 /\ Ticks * 0 = 0
    BY TicksAssumption DEF Service
  <2>4. /\ Travel(r[n], 0) \in Nat
        /\ TimeCallback(r[n], 0) \in Nat
        /\ Ticks * TimeCallback(r[n], 0) <= Travel(r[n], 0) + Ticks * Service(0)
        /\ Travel(r[n], 0) + Ticks * Service(0) < Ticks * TimeCallback(r[n], 0) + Ticks
    BY <2>1, CallbacksTyped
  <2> HIDE DEF legs
  <2> QED
    BY <2>2, <2>3, <2>4
<1>4. n = 0 => legs[n + 1] \in Nat
  <2>1. 0 \in 0..Len(request.stops)
    BY RequestTyped
  <2>2. ASSUME n = 0 PROVE legs[n + 1] = TimeCallback(0, 0)
    <3>1. n + 1 \in 1..n + 1 /\ n + 1 - 1 = 0
      BY <2>2
    <3> QED
      BY <1>1, <3>1
  <2>3. TimeCallback(0, 0) \in Nat
    BY <2>1, CallbacksTyped
  <2> QED
    BY <2>2, <2>3
<1>5. legs[n + 1] \in Nat
  BY <1>3, <1>4
<1>6. \A k \in 1..n + 1 : legs[k] \in Nat
  <2>1. \A k \in 1..n + 1 : k \in 1..n \/ k = n + 1
    BY <1>1
  <2> HIDE DEF legs, n
  <2> QED
    BY <1>2, <1>5, <2>1
<1>7. /\ Cumul(r) = minutes
      /\ \A k \in DOMAIN r :
           StepsOf(r)[k] = [stop |-> r[k], arrival |-> clock[k - 1] + driven[k],
                            departure |-> clock[k], load |-> carried[k]]
      /\ DOMAIN StepsOf(r) = DOMAIN r
  <2>1. Cumul(r) = minutes
    BY Zenon DEF Cumul
  <2>2. StepsOf(r) = [k \in DOMAIN r |->
          [stop |-> r[k], arrival |-> clock[k - 1] + driven[k],
           departure |-> clock[k], load |-> carried[k]]]
    BY Zenon DEF StepsOf
  <2> HIDE DEF minutes, clock, carried, driven
  <2> QED
    BY <2>1, <2>2
<1> HIDE DEF driven, spent, legs
<1>8. /\ clock[0] = 0 /\ \A k \in 1..n : clock[k] = clock[k - 1] + spent[k]
      /\ minutes[0] = 0 /\ \A k \in 1..n + 1 : minutes[k] = minutes[k - 1] + legs[k]
      /\ \A k \in 0..n : carried[k] = Total(taken, 1..k)
  <2>1. /\ \A k \in 1..n : spent[k] \in Int /\ taken[k] \in Int
        /\ \A k \in 1..n + 1 : legs[k] \in Int
    <3> HIDE DEF n, taken
    <3> QED
      BY <1>2, <1>6
  <2> HIDE DEF n, taken
  <2> QED
    BY <1>1, <2>1, AccumulatedUnfolds, AccumulatedIsTotal
<1> HIDE DEF clock, minutes, carried, taken, n
\* The clock is ahead of the dimension by less than a minute per leg.
<1> DEFINE Ahead(k) == /\ minutes[k] \in Nat
                       /\ clock[k] \in Nat
                       /\ Ticks * minutes[k] <= clock[k]
                       /\ clock[k] + k <= Ticks * minutes[k] + Ticks * k
           P == {k \in 0..n : Ahead(k)}
<1>9. \A k \in 0..n : Ahead(k)
  <2>1. 0 \in P
    BY <1>1, <1>8, TicksAssumption
  <2>2. ASSUME NEW k \in 0..n - 1, k \in P PROVE k + 1 \in P
    <3>1. k + 1 \in 1..n /\ k + 1 \in 1..n + 1 /\ k + 1 - 1 = k /\ k \in Nat /\ k + 1 \in 0..n
      BY <1>1
    <3>2. clock[k + 1] = clock[k] + spent[k + 1] /\ minutes[k + 1] = minutes[k] + legs[k + 1]
      BY <1>8, <3>1
    <3>3. /\ spent[k + 1] \in Nat /\ legs[k + 1] \in Nat
          /\ Ticks * legs[k + 1] <= spent[k + 1]
          /\ spent[k + 1] < Ticks * legs[k + 1] + Ticks
      BY <1>2, <3>1
    <3>4. /\ minutes[k] \in Nat
          /\ clock[k] \in Nat
          /\ Ticks * minutes[k] <= clock[k]
          /\ clock[k] + k <= Ticks * minutes[k] + Ticks * k
      BY <2>2
    <3>5. /\ Ticks * (minutes[k] + legs[k + 1]) <= clock[k] + spent[k + 1]
          /\ clock[k] + spent[k + 1] + (k + 1)
               <= Ticks * (minutes[k] + legs[k + 1]) + Ticks * (k + 1)
      BY <3>1, <3>3, <3>4, OneMoreLeg, TicksAssumption
    <3>6. clock[k + 1] \in Nat /\ minutes[k + 1] \in Nat
      BY <3>2, <3>3, <3>4
    <3> QED
      BY <3>1, <3>2, <3>5, <3>6
  <2>3. \A k \in 0..n : k \in P
    <3> HIDE DEF P
    <3> QED
      BY <1>1, <2>1, <2>2, RangeInduction
  <2> QED
    BY <2>3
<1>10. \A k \in 1..n : carried[k] = Total([j \in 1..k |-> Stop(r[j]).demand], 1..k)
  <2> SUFFICES ASSUME NEW k \in 1..n
               PROVE  carried[k] = Total([j \in 1..k |-> Stop(r[j]).demand], 1..k)
    OBVIOUS
  <2> DEFINE g == [j \in 1..k |-> Stop(r[j]).demand]
  <2>1. \A j \in 1..k : taken[j] = g[j]
    <3>1. \A j \in 1..k : j \in 1..n
      BY <1>1
    <3> QED
      BY <1>2, <3>1
  <2>2. IsFiniteSet(1..k)
    BY <1>1, FS_Interval
  <2>3. carried[k] = Total(taken, 1..k)
    BY <1>1, <1>8
  <2>4. Total(taken, 1..k) = Total(g, 1..k)
    <3> HIDE DEF g
    <3> QED
      BY <2>1, <2>2, TotalAgrees
  <2> QED
    BY <2>3, <2>4
<1>11. \A k \in 1..n : carried[k] <= DemandOn(r)
  <2> SUFFICES ASSUME NEW k \in 1..n PROVE carried[k] <= DemandOn(r)
    OBVIOUS
  <2>1. DemandOn(r) = Total(taken, 1..n)
    BY <1>1, Zenon DEF DemandOn, taken
  <2>2. IsFiniteSet(1..n) /\ 1..k \in SUBSET (1..n) /\ \A j \in 1..n : taken[j] \in Nat
    <3>1. IsFiniteSet(1..n)
      BY <1>1, FS_Interval
    <3> QED
      BY <1>1, <1>2, <3>1
  <2>3. Total(taken, 1..k) <= Total(taken, 1..n)
    BY <2>2, TotalSubset
  <2>4. carried[k] = Total(taken, 1..k)
    BY <1>1, <1>8
  <2> QED
    BY <2>1, <2>3, <2>4
<1>12. r # <<>> => clock[n] + Travel(r[n], 0) < Ticks * minutes[n + 1] + Ticks * (n + 1)
  <2> SUFFICES ASSUME r # <<>>
               PROVE  clock[n] + Travel(r[n], 0) < Ticks * minutes[n + 1] + Ticks * (n + 1)
    OBVIOUS
  <2>1. n # 0 /\ n \in 0..n /\ n + 1 \in 1..n + 1 /\ n + 1 - 1 = n
    BY <1>1 DEF n
  <2>2. minutes[n + 1] = minutes[n] + legs[n + 1]
    BY <1>8, <2>1
  <2>3. /\ clock[n] \in Nat /\ minutes[n] \in Nat
        /\ Ticks * minutes[n] <= clock[n]
        /\ clock[n] + n <= Ticks * minutes[n] + Ticks * n
    BY <1>9, <2>1
  <2>4. /\ legs[n + 1] \in Nat
        /\ Travel(r[n], 0) \in Nat
        /\ Ticks * legs[n + 1] <= Travel(r[n], 0)
        /\ Travel(r[n], 0) < Ticks * legs[n + 1] + Ticks
    BY <1>3, <2>1
  <2>5. clock[n] + Travel(r[n], 0) + (n + 1)
          <= Ticks * (minutes[n] + legs[n + 1]) + Ticks * (n + 1)
    BY <1>1, <2>3, <2>4, OneMoreLeg, TicksAssumption
  <2>6. \A x, y \in Int : x + (n + 1) <= y => x < y
    BY <1>1
  <2>7. /\ clock[n] + Travel(r[n], 0) \in Int
        /\ Ticks * (minutes[n] + legs[n + 1]) + Ticks * (n + 1) \in Int
    <3>1. \A t, x \in Nat : t * x \in Nat
      OBVIOUS
    <3>2. minutes[n] + legs[n + 1] \in Nat /\ clock[n] + Travel(r[n], 0) \in Nat
      BY <2>3, <2>4
    <3> QED
      BY <1>1, <3>1, <3>2, TicksAssumption
  <2> QED
    BY <2>2, <2>5, <2>6, <2>7
<1>13. minutes[n + 1] \in Nat
  <2>1. n \in 0..n /\ n + 1 \in 1..n + 1 /\ n + 1 - 1 = n
    BY <1>1
  <2>2. Ahead(n)
    BY <1>9, <2>1
  <2>3. minutes[n + 1] = minutes[n] + legs[n + 1]
    BY <1>8, <2>1
  <2> QED
    BY <1>5, <2>2, <2>3
<1>14. \A k \in 1..n :
         /\ minutes[k] \in Nat /\ clock[k] \in Nat
         /\ Ticks * minutes[k] <= clock[k]
         /\ clock[k] < Ticks * minutes[k] + Ticks * k
  <2> SUFFICES ASSUME NEW k \in 1..n
               PROVE  /\ minutes[k] \in Nat /\ clock[k] \in Nat
                      /\ Ticks * minutes[k] <= clock[k]
                      /\ clock[k] < Ticks * minutes[k] + Ticks * k
    OBVIOUS
  <2>1. k \in 0..n /\ Ahead(k)
    BY <1>1, <1>9
  <2>2. Ticks * minutes[k] + Ticks * k \in Int
    BY <2>1, TicksAssumption
  <2> QED
    BY <2>1, <2>2
<1>15. ASSUME NEW k \in DOMAIN r
       PROVE  /\ StepsOf(r)[k].stop = r[k]
              /\ StepsOf(r)[k].departure = clock[k]
              /\ StepsOf(r)[k].load = carried[k]
  BY <1>7
<1>16. r # <<>> => n \in DOMAIN r
  BY <1>1 DEF n
<1>17. r # <<>> => StepsOf(r)[n].departure + Travel(r[n], 0) < Ticks * Cumul(r)[n + 1] + Ticks * (n + 1)
  BY <1>7, <1>12, <1>15, <1>16
<1>18. ASSUME NEW k \in DOMAIN r
       PROVE  /\ StepsOf(r)[k].load = Total([j \in 1..k |-> Stop(r[j]).demand], 1..k)
              /\ StepsOf(r)[k].load <= DemandOn(r)
  <2>1. StepsOf(r)[k].load = carried[k] /\ k \in 1..n
    BY <1>1, <1>15
  <2>2. carried[k] = Total([j \in 1..k |-> Stop(r[j]).demand], 1..k) /\ carried[k] <= DemandOn(r)
    BY <1>10, <1>11, <2>1
  <2> QED
    BY <2>1, <2>2, Zenon
<1>19. ASSUME NEW k \in DOMAIN r
       PROVE  /\ Cumul(r)[k] \in Nat
              /\ StepsOf(r)[k].departure \in Nat
              /\ Ticks * Cumul(r)[k] <= StepsOf(r)[k].departure
              /\ StepsOf(r)[k].departure < Ticks * Cumul(r)[k] + Ticks * k
  BY <1>1, <1>7, <1>14, <1>15
<1>20. Cumul(r)[n + 1] \in Nat
  BY <1>7, <1>13
<1> QED
  BY <1>7, <1>15, <1>17, <1>18, <1>19, <1>20, Zenon DEF n

\* A plan is one of the two methods'.
LEMMA PlanIsKnown ==
  ASSUME IInv, HasPlan
  PROVE  \/ /\ plan.method = "exact"
            /\ \E a \in Solutions : /\ a \in Routings
                                    /\ \A v \in Vehicles : WithinCapacity(a[v], v) /\ InTime(a[v])
                                    /\ plan.routes = [v \in Vehicles |-> StepsOf(a[v])]
                                    /\ plan.unassigned = {}
         \/ /\ plan.method = "heuristic"
            /\ plan.routes = routes
            /\ plan.unassigned = remaining
<1>1. CASE plan = Plan("heuristic", routes, remaining)
  BY <1>1 DEF Plan
<1>2. CASE \E a \in Solutions : plan = ExactPlan(a)
  <2>1. PICK a \in Solutions : plan = ExactPlan(a)
    BY <1>2
  <2>2. /\ plan.method = "exact" /\ plan.unassigned = {}
        /\ plan.routes = [v \in Vehicles |-> StepsOf(a[v])]
    BY <2>1 DEF ExactPlan, Plan
  <2>3. a \in Routings /\ \A v \in Vehicles : WithinCapacity(a[v], v) /\ InTime(a[v])
    BY DEF Solutions
  <2> QED
    BY <2>2, <2>3
<1> QED
  BY <1>1, <1>2 DEF IInv, PlanIsOfItsMethod

-----------------------------------------------------------------------------
\* What the plans and the refusals promise.

\* Each stop is visited once, by one vehicle, or reported as unassigned: by a plan of
\* OR-Tools, where every stop is mandatory, and by one of the heuristic (remaining).
THEOREM StopsVisitedOnce == Spec => []StopsServedOnce
<1>1. ASSUME IInv, HasPlan PROVE StopsServedOnce
  <2>1. CASE plan.routes = routes /\ plan.unassigned = remaining
    BY <1>1, <2>1 DEF IInv, StopsArePartitioned, StopsServedOnce
  <2>2. CASE \E a \in Solutions : /\ a \in Routings
                                  /\ plan.routes = [v \in Vehicles |-> StepsOf(a[v])]
                                  /\ plan.unassigned = {}
    <3>1. PICK a \in Routings : /\ plan.routes = [v \in Vehicles |-> StepsOf(a[v])]
                                /\ plan.unassigned = {}
      BY <2>2
    <3>2. IsRequest(request)
      BY <1>1 DEF IInv, TypeOK
    <3>3. /\ \A v \in Vehicles : a[v] \in Seq(Stops)
          /\ \A v, w \in Vehicles : \A j \in DOMAIN a[v], k \in DOMAIN a[w] :
               a[v][j] = a[w][k] => v = w /\ j = k
          /\ \A i \in Stops : \E v \in Vehicles : \E k \in DOMAIN a[v] : a[v][k] = i
      BY <3>2, RoutingsServeOnce
    <3>4. \A v \in Vehicles : /\ DOMAIN plan.routes[v] = DOMAIN a[v]
                              /\ \A k \in DOMAIN a[v] : plan.routes[v][k].stop = a[v][k]
      <4> SUFFICES ASSUME NEW v \in Vehicles
                   PROVE  /\ DOMAIN plan.routes[v] = DOMAIN a[v]
                          /\ \A k \in DOMAIN a[v] : plan.routes[v][k].stop = a[v][k]
        OBVIOUS
      <4>1. plan.routes[v] = StepsOf(a[v]) /\ a[v] \in Seq(Stops)
        BY <3>1, <3>3
      <4>2. /\ DOMAIN StepsOf(a[v]) = DOMAIN a[v]
            /\ \A k \in DOMAIN a[v] : StepsOf(a[v])[k].stop = a[v][k]
        BY <3>2, <4>1, StepsFollowTheDimensions
      <4> QED
        BY <4>1, <4>2
    <3>5. \A v, w \in Vehicles : \A j \in DOMAIN plan.routes[v], k \in DOMAIN plan.routes[w] :
            plan.routes[v][j].stop = plan.routes[w][k].stop => v = w /\ j = k
      BY <3>3, <3>4
    <3>6. \A i \in Stops : i \in UNION {ServedIn(plan.routes[v]) : v \in Vehicles}
      <4> SUFFICES ASSUME NEW i \in Stops
                   PROVE  \E v \in Vehicles : i \in ServedIn(plan.routes[v])
        OBVIOUS
      <4>1. PICK v \in Vehicles : \E k \in DOMAIN a[v] : a[v][k] = i
        BY <3>3
      <4> QED
        BY <3>4, <4>1 DEF ServedIn
    <3> QED
      BY <3>1, <3>5, <3>6 DEF StopsServedOnce
  <2> QED
    BY <1>1, <2>1, <2>2, PlanIsKnown
<1>2. IInv => StopsServedOnce
  BY <1>1 DEF StopsServedOnce
<1> QED
  BY <1>2, Invariance, PTL

\* The heuristic's load is the demand of the vehicle's stops so far.
LEMMA LoadsAreSums ==
  ASSUME IInv, NEW v \in Vehicles
  PROVE  \A k \in DOMAIN routes[v] :
           routes[v][k].load = Total([j \in 1..k |-> Stop(routes[v][j].stop).demand], 1..k)
<1> DEFINE n == Len(routes[v])
           f == [j \in 1..n |-> Stop(routes[v][j].stop).demand]
           carried == [k \in 0..n |-> LoadBefore(v, k + 1)]
           P == {k \in 0..n : carried[k] = Total(f, 1..k)}
<1>1. /\ n \in Nat /\ DOMAIN routes[v] = 1..n
      /\ \A k \in 1..n : routes[v][k].stop \in Stops
  BY RoutesTyped DEF IInv
<1>2. \A k \in 1..n : f[k] \in Int /\ f[k] = Stop(routes[v][k].stop).demand
  BY <1>1, RequestTyped DEF IInv, TypeOK
<1> HIDE DEF n
<1>3. carried[0] = 0 /\ \A k \in 1..n : carried[k] = routes[v][k].load
  BY <1>1 DEF LoadBefore
<1>4. \A k \in 1..n : carried[k] = carried[k - 1] + f[k]
  <2> SUFFICES ASSUME NEW k \in 1..n PROVE carried[k] = carried[k - 1] + f[k]
    OBVIOUS
  <2>1. routes[v][k].load = LoadBefore(v, k) + Stop(routes[v][k].stop).demand
    BY <1>1 DEF IInv, StepsAreChained
  <2>2. k - 1 \in 0..n /\ k - 1 + 1 = k
    BY <1>1
  <2>3. carried[k - 1] = LoadBefore(v, k)
    BY <2>2
  <2> QED
    BY <1>2, <1>3, <2>1, <2>3
<1> HIDE DEF f, carried
<1>5. 0 \in P
  <2>1. 1..0 = {} /\ 0 \in 0..n
    BY <1>1
  <2>2. Total(f, 1..0) = 0
    BY <2>1, TotalEmpty, Zenon
  <2> QED
    BY <1>3, <2>1, <2>2
<1>6. ASSUME NEW k \in 0..n - 1, k \in P PROVE k + 1 \in P
  <2>1. /\ 1..k + 1 = (1..k) \cup {k + 1} /\ k + 1 \notin 1..k
        /\ k + 1 \in 0..n /\ k + 1 \in 1..n /\ k + 1 - 1 = k /\ k \in Nat
    BY <1>1
  <2>2. Total(f, (1..k) \cup {k + 1}) = Total(f, 1..k) + f[k + 1]
    <3>1. IsFiniteSet(1..k)
      BY <2>1, FS_Interval
    <3>2. \A x \in (1..k) \cup {k + 1} : f[x] \in Int
      BY <1>1, <1>2
    <3> QED
      BY <2>1, <3>1, <3>2, TotalAdd, Zenon
  <2>3. Total(f, 1..k + 1) = Total(f, (1..k) \cup {k + 1})
    BY <2>1, Zenon
  <2>4. carried[k + 1] = carried[k] + f[k + 1]
    BY <1>4, <2>1
  <2> QED
    BY <1>6, <2>1, <2>2, <2>3, <2>4
<1>7. \A k \in 0..n : k \in P
  <2> HIDE DEF P
  <2> QED
    BY <1>1, <1>5, <1>6, RangeInduction
<1> SUFFICES ASSUME NEW k \in DOMAIN routes[v]
             PROVE  routes[v][k].load
                      = Total([j \in 1..k |-> Stop(routes[v][j].stop).demand], 1..k)
  OBVIOUS
<1> DEFINE g == [j \in 1..k |-> Stop(routes[v][j].stop).demand]
<1>8. k \in 1..n /\ k \in 0..n /\ \A j \in 1..k : j \in 1..n
  BY <1>1
<1>9. \A j \in 1..k : f[j] = g[j]
  BY <1>2, <1>8
<1>10. IsFiniteSet(1..k)
  BY <1>1, <1>8, FS_Interval
<1>11. Total(f, 1..k) = Total(g, 1..k)
  <2> HIDE DEF g
  <2> QED
    BY <1>9, <1>10, TotalAgrees
<1> QED
  BY <1>3, <1>7, <1>8, <1>11

\* What a vehicle carries is the demand of all its stops so far, and within its
\* capacity, whichever method made the plan (AddDimensionWithVehicleCapacity, the
\* candidates of the heuristic).
THEOREM LoadsWithinCapacity == Spec => []LoadsFit
<1>1. ASSUME IInv, HasPlan, NEW v \in Vehicles, NEW k \in DOMAIN plan.routes[v]
      PROVE  /\ plan.routes[v][k].load
                  = Total([j \in 1..k |-> Stop(plan.routes[v][j].stop).demand], 1..k)
             /\ plan.routes[v][k].load <= Vehicle(v).capacity
  <2>1. CASE plan.routes = routes
    <3>1. routes[v][k].load = Total([j \in 1..k |-> Stop(routes[v][j].stop).demand], 1..k)
      BY <1>1, <2>1, LoadsAreSums
    <3>2. routes[v][k].load <= Vehicle(v).capacity
      BY <1>1, <2>1 DEF IInv, StepsAreChained
    <3> QED
      BY <2>1, <3>1, <3>2, Zenon
  <2>2. CASE \E a \in Solutions :
               /\ a \in Routings
               /\ \A w \in Vehicles : WithinCapacity(a[w], w) /\ InTime(a[w])
               /\ plan.routes = [w \in Vehicles |-> StepsOf(a[w])]
    <3>1. PICK a \in Routings : /\ WithinCapacity(a[v], v)
                                /\ plan.routes[v] = StepsOf(a[v])
      BY <2>2
    <3> DEFINE r == a[v]
    <3>2. IsRequest(request)
      BY <1>1 DEF IInv, TypeOK
    <3>3. r \in Seq(Stops) /\ DOMAIN r = 1..Len(r)
      BY <3>2, RoutingsServeOnce
    <3> HIDE DEF r
    <3>4. /\ k \in DOMAIN r
          /\ \A j \in DOMAIN r : StepsOf(r)[j].stop = r[j]
          /\ StepsOf(r)[k].load = Total([j \in 1..k |-> Stop(r[j]).demand], 1..k)
          /\ StepsOf(r)[k].load <= DemandOn(r)
      BY <3>1, <3>2, <3>3, StepsFollowTheDimensions DEF r
    <3>5. /\ DemandOn(r) \in Int /\ StepsOf(r)[k].load \in Int /\ Vehicle(v).capacity \in Int
          /\ DemandOn(r) <= Vehicle(v).capacity
      <4>1. \A j \in DOMAIN r : r[j] \in Stops
        BY <3>3, ElementsOfSeq
      <4>2. \A j \in DOMAIN r : Stop(r[j]).demand \in Nat
        BY <3>2, <4>1, RequestTyped
      <4> DEFINE f == [j \in DOMAIN r |-> Stop(r[j]).demand]
                 g == [j \in 1..k |-> Stop(r[j]).demand]
      <4>3. IsFiniteSet(DOMAIN r) /\ IsFiniteSet(1..k)
        <5>1. k \in Int /\ Len(r) \in Int
          BY <3>3, <3>4
        <5> QED
          BY <3>3, <5>1, FS_Interval
      <4>4. /\ \A j \in DOMAIN r : f[j] \in Int
            /\ \A j \in 1..k : g[j] \in Int
        <5>1. \A j \in 1..k : j \in DOMAIN r
          BY <3>3, <3>4
        <5> QED
          BY <4>2, <5>1
      <4>5. DemandOn(r) = Total(f, DOMAIN r) /\ StepsOf(r)[k].load = Total(g, 1..k)
        BY <3>4, Zenon DEF DemandOn
      <4>6. Total(f, DOMAIN r) \in Int /\ Total(g, 1..k) \in Int
        <5> HIDE DEF f, g
        <5> QED
          BY <4>3, <4>4, TotalInt
      <4>7. DemandOn(r) <= Vehicle(v).capacity
        BY <3>1 DEF WithinCapacity, r
      <4>8. Vehicle(v).capacity \in Int
        BY <1>1, <3>2, RequestTyped
      <4> QED
        BY <4>5, <4>6, <4>7, <4>8
    <3>6. Total([j \in 1..k |-> Stop(plan.routes[v][j].stop).demand], 1..k)
            = Total([j \in 1..k |-> Stop(r[j]).demand], 1..k)
      <4>1. \A j \in 1..k : plan.routes[v][j].stop = r[j]
        BY <3>1, <3>3, <3>4 DEF r
      <4>2. [j \in 1..k |-> Stop(plan.routes[v][j].stop).demand] = [j \in 1..k |-> Stop(r[j]).demand]
        BY <4>1
      <4> QED
        BY <4>2, Zenon
    <3>7. plan.routes[v][k].load = StepsOf(r)[k].load
      BY <3>1 DEF r
    <3>8. StepsOf(r)[k].load <= Vehicle(v).capacity
      BY <3>4, <3>5
    <3> QED
      BY <3>4, <3>6, <3>7, <3>8, Zenon
  <2> QED
    BY <1>1, <2>1, <2>2, PlanIsKnown
<1>2. IInv => LoadsFit
  BY <1>1, Zenon DEF LoadsFit
<1> QED
  BY <1>2, Invariance, PTL

\* Each route ends in time: one of the heuristic within the duration of its vehicle,
\* one of OR-Tools within the longest duration of all vehicles, back at the depot,
\* up to the part of a minute that int() drops on every leg (the Time dimension).
THEOREM RoutesEndInTime == Spec => []DurationsFit
<1>1. ASSUME IInv, HasPlan, NEW v \in Vehicles, plan.routes[v] # <<>>
      PROVE  LET route == plan.routes[v]
             IN  IF plan.method = "heuristic"
                 THEN route[Len(route)].departure <= Ticks * Vehicle(v).maxDuration
                 ELSE route[Len(route)].departure + Travel(route[Len(route)].stop, 0)
                        < Ticks * (Horizon + Len(route) + 1)
  <2>1. CASE plan.routes = routes /\ plan.method = "heuristic"
    <3>1. routes[v] \in Seq([stop : Stops, arrival : Nat, departure : Nat, load : Nat])
      BY <1>1 DEF IInv, TypeOK, RouteSteps
    <3>2. Len(routes[v]) \in DOMAIN routes[v]
      BY <1>1, <2>1, <3>1
    <3> QED
      BY <1>1, <2>1, <3>2 DEF IInv, StepsAreChained
  <2>2. CASE /\ plan.method = "exact"
             /\ \E a \in Solutions : /\ a \in Routings
                                     /\ \A w \in Vehicles : WithinCapacity(a[w], w) /\ InTime(a[w])
                                     /\ plan.routes = [w \in Vehicles |-> StepsOf(a[w])]
    <3>1. PICK a \in Routings : InTime(a[v]) /\ plan.routes[v] = StepsOf(a[v])
      BY <2>2
    <3> DEFINE r == a[v]
               n == Len(a[v])
    <3>2. IsRequest(request)
      BY <1>1 DEF IInv, TypeOK
    <3>3. r \in Seq(Stops) /\ DOMAIN r = 1..n /\ n \in Nat /\ \A k \in 1..n : r[k] \in Stops
      <4>1. r \in Seq(Stops)
        BY <3>2, RoutingsServeOnce
      <4> QED
        BY <4>1, ElementsOfSeq
    <3>4. /\ DOMAIN StepsOf(r) = DOMAIN r
          /\ \A k \in DOMAIN r : StepsOf(r)[k].stop = r[k] /\ StepsOf(r)[k].departure \in Nat
          /\ r # <<>> => StepsOf(r)[n].departure + Travel(r[n], 0)
                           < Ticks * Cumul(r)[n + 1] + Ticks * (n + 1)
          /\ Cumul(r)[n + 1] \in Nat
      BY <3>2, <3>3, StepsFollowTheDimensions
    <3>5. /\ Horizon \in Nat /\ Cumul(r)[n + 1] <= Horizon
      <4>1. PICK start \in 0..Horizon - Cumul(r)[n + 1] : TRUE
        BY <3>1 DEF InTime
      <4>2. Horizon \in Nat
        BY <3>2, HorizonIsNat
      <4> QED
        BY <3>4, <4>1, <4>2
    <3> HIDE DEF r, n
    <3>6. Len(plan.routes[v]) = n /\ n \in DOMAIN r /\ r # <<>>
      <4>1. n # 0
        BY <1>1, <3>1, <3>3, <3>4 DEF r
      <4> QED
        BY <3>1, <3>3, <3>4, <4>1 DEF r
    <3>7. r[n] \in Stops /\ Travel(r[n], 0) \in Nat /\ StepsOf(r)[n].departure \in Nat
      BY <3>2, <3>3, <3>4, <3>6, RequestTyped
    <3>8. /\ Ticks * Cumul(r)[n + 1] <= Ticks * Horizon
          /\ Ticks * (Horizon + n + 1) = Ticks * Horizon + Ticks * (n + 1)
          /\ Ticks * Cumul(r)[n + 1] \in Nat /\ Ticks * Horizon \in Nat /\ Ticks * (n + 1) \in Nat
      <4>1. ASSUME NEW t \in Nat, NEW x \in Nat, NEW y \in Nat, NEW z \in Nat, x <= y
            PROVE  /\ t * x <= t * y /\ t * (y + z + 1) = t * y + t * (z + 1)
                   /\ t * x \in Nat /\ t * y \in Nat /\ t * (z + 1) \in Nat
        <5>1. t * x <= t * y
          BY <4>1, FactorKeepsOrder
        <5>2. t * (y + z + 1) = t * y + t * (z + 1)
          OBVIOUS
        <5> QED
          BY <5>1, <5>2
      <4> QED
        BY <3>3, <3>4, <3>5, <4>1, TicksAssumption
    <3>9. StepsOf(r)[n].departure + Travel(r[n], 0) < Ticks * (Horizon + n + 1)
      BY <3>4, <3>6, <3>7, <3>8
    <3>10. plan.routes[v][n].departure = StepsOf(r)[n].departure /\ plan.routes[v][n].stop = r[n]
      BY <3>1, <3>4, <3>6 DEF r
    <3> QED
      BY <2>2, <3>6, <3>9, <3>10
  <2> QED
    BY <1>1, <2>1, <2>2, PlanIsKnown
<1>2. IInv => DurationsFit
  BY <1>1, Zenon DEF DurationsFit
<1> QED
  BY <1>2, Invariance, PTL

\* For a plan of OR-Tools each vehicle can start at a minute such that every stop
\* with a window is left within it, up to the minutes that int() drops (SetRange).
THEOREM WindowsKept == Spec => []WindowsBoundDepartures
<1>1. ASSUME IInv, HasPlan, plan.method = "exact", NEW v \in Vehicles
      PROVE  \E start \in 0..Horizon : \A k \in DOMAIN plan.routes[v] :
               LET step == plan.routes[v][k]
               IN  Stop(step.stop).window # NoWindow =>
                     /\ Ticks * start + step.departure >= Ticks * Stop(step.stop).window.start
                     /\ Ticks * start + step.departure < Ticks * (Stop(step.stop).window.end + k)
  <2>1. PICK a \in Routings : InTime(a[v]) /\ plan.routes[v] = StepsOf(a[v])
    BY <1>1, PlanIsKnown
  <2> DEFINE r == a[v]
             n == Len(a[v])
  <2>2. IsRequest(request)
    BY <1>1 DEF IInv, TypeOK
  <2>3. r \in Seq(Stops) /\ DOMAIN r = 1..n /\ n \in Nat /\ \A k \in 1..n : r[k] \in Stops
    <3>1. r \in Seq(Stops)
      BY <2>2, RoutingsServeOnce
    <3> QED
      BY <3>1, ElementsOfSeq
  <2>4. /\ DOMAIN StepsOf(r) = DOMAIN r
        /\ \A k \in DOMAIN r :
             /\ StepsOf(r)[k].stop = r[k]
             /\ Cumul(r)[k] \in Nat
             /\ StepsOf(r)[k].departure \in Nat
             /\ Ticks * Cumul(r)[k] <= StepsOf(r)[k].departure
             /\ StepsOf(r)[k].departure < Ticks * Cumul(r)[k] + Ticks * k
        /\ Cumul(r)[n + 1] \in Nat
    BY <2>2, <2>3, StepsFollowTheDimensions
  <2>5. PICK start \in 0..Horizon - Cumul(r)[n + 1] :
          \A k \in DOMAIN r : InWindow(r[k], start + Cumul(r)[k])
    BY <2>1 DEF InTime
  <2>6. start \in 0..Horizon /\ start \in Nat
    BY <2>2, <2>4, <2>5, HorizonIsNat
  <2> HIDE DEF r, n
  <2>7. ASSUME NEW k \in DOMAIN r, Stop(r[k]).window # NoWindow
        PROVE  /\ Ticks * start + StepsOf(r)[k].departure >= Ticks * Stop(r[k]).window.start
               /\ Ticks * start + StepsOf(r)[k].departure < Ticks * (Stop(r[k]).window.end + k)
    <3>1. r[k] \in Stops /\ k \in Nat
      BY <2>3
    <3>2. Stop(r[k]).window.start \in Nat /\ Stop(r[k]).window.end \in Nat
      BY <2>2, <2>7, <3>1, WindowTyped
    <3>3. start + Cumul(r)[k] \in Stop(r[k]).window.start..Stop(r[k]).window.end
      BY <2>5, <2>7 DEF InWindow
    <3>4. ASSUME NEW t \in Nat \ {0}, NEW x \in Nat, NEW y \in Nat, NEW z \in Nat, NEW m \in Nat,
                 NEW lo \in Nat, NEW hi \in Nat,
                 t * y <= z, z < t * y + t * m, lo <= x + y, x + y <= hi
          PROVE  t * x + z >= t * lo /\ t * x + z < t * (hi + m)
      <4>1. t * lo <= t * (x + y) /\ t * (x + y) <= t * hi
        BY <3>4, FactorKeepsOrder
      <4>2. t * (x + y) = t * x + t * y /\ t * (hi + m) = t * hi + t * m
        OBVIOUS
      <4>3. /\ t * x \in Nat /\ t * y \in Nat /\ t * m \in Nat /\ t * lo \in Nat /\ t * hi \in Nat
        OBVIOUS
      <4> QED
        BY <3>4, <4>1, <4>2, <4>3
    <3>5. /\ Cumul(r)[k] \in Nat /\ StepsOf(r)[k].departure \in Nat
          /\ Ticks * Cumul(r)[k] <= StepsOf(r)[k].departure
          /\ StepsOf(r)[k].departure < Ticks * Cumul(r)[k] + Ticks * k
      BY <2>4
    <3>6. Stop(r[k]).window.start <= start + Cumul(r)[k] /\ start + Cumul(r)[k] <= Stop(r[k]).window.end
      BY <2>6, <3>2, <3>3, <3>5
    <3> QED
      BY <2>6, <3>1, <3>2, <3>4, <3>5, <3>6, TicksAssumption
  <2>8. \A k \in DOMAIN plan.routes[v] :
          /\ k \in DOMAIN r
          /\ plan.routes[v][k].departure = StepsOf(r)[k].departure
          /\ plan.routes[v][k].stop = r[k]
    BY <2>1, <2>4 DEF r
  <2> QED
    BY <2>6, <2>7, <2>8
<1>2. IInv => WindowsBoundDepartures
  BY <1>1, Zenon DEF WindowsBoundDepartures
<1> QED
  BY <1>2, Invariance, PTL

\* A request is refused only if no assignment of stops to vehicles can carry it
\* (the sums that VehicleRoutingSolver.solve compares first).
THEOREM RefusalsAreTrue == Spec => []RefusalIsTrue
<1>1. ASSUME IInv, plan.outcome = "InsufficientCapacityError", NEW owner \in [Stops -> Vehicles],
             \A v \in Vehicles : ~(Total(Demand, {i \in Stops : owner[i] = v}) > Vehicle(v).capacity)
      PROVE  FALSE
  <2> DEFINE carried == [v \in Vehicles |-> Total(Demand, {i \in Stops : owner[i] = v})]
             capacity == [v \in Vehicles |-> Vehicle(v).capacity]
  <2>1. IsRequest(request) /\ TooMuchToCarry
    BY <1>1 DEF IInv, TypeOK, PlanIsOfItsMethod
  <2>2. IsFiniteSet(Stops) /\ IsFiniteSet(Vehicles)
    <3>1. /\ Stops = 1..Len(request.stops) /\ Len(request.stops) \in Int
          /\ Vehicles = 1..Len(request.vehicles) /\ Len(request.vehicles) \in Int
      BY <2>1, RequestTyped
    <3>2. \A k \in Int : IsFiniteSet(1..k)
      BY FS_Interval
    <3> QED
      BY <3>1, <3>2
  <2>3. \A i \in Stops : Demand[i] \in Int /\ owner[i] \in Vehicles
    BY <2>1, RequestTyped DEF Demand
  <2>4. Total(Demand, Stops) = Total(carried, Vehicles)
    BY <2>2, <2>3, TotalFibers
  <2>5. ASSUME NEW v \in Vehicles
        PROVE  carried[v] \in Int /\ capacity[v] \in Int /\ carried[v] <= capacity[v]
    <3>1. IsFiniteSet({i \in Stops : owner[i] = v})
      BY <2>2, FS_Subset
    <3>2. Total(Demand, {i \in Stops : owner[i] = v}) \in Int
      BY <2>3, <3>1, TotalInt
    <3>3. Vehicle(v).capacity \in Int
      BY <2>1, RequestTyped
    <3>4. ~(Total(Demand, {i \in Stops : owner[i] = v}) > Vehicle(v).capacity)
      BY <1>1
    <3>5. /\ carried[v] = Total(Demand, {i \in Stops : owner[i] = v})
          /\ capacity[v] = Vehicle(v).capacity
      OBVIOUS
    <3> HIDE DEF carried, capacity
    <3> QED
      BY <3>2, <3>3, <3>4, <3>5
  <2>6. Total(carried, Vehicles) <= Total(capacity, Vehicles)
    <3> HIDE DEF carried, capacity
    <3> QED
      BY <2>2, <2>5, TotalMonotone
  <2>7. Total(carried, Vehicles) \in Int /\ Total(capacity, Vehicles) \in Int
    <3> HIDE DEF carried, capacity
    <3> QED
      BY <2>2, <2>5, TotalInt
  <2>8. Total(Demand, Stops) > Total(capacity, Vehicles)
    BY <2>1, Zenon DEF TooMuchToCarry, TotalDemand, TotalCapacity
  <2> HIDE DEF carried, capacity
  <2> QED
    BY <2>4, <2>6, <2>7, <2>8
<1>2. IInv => RefusalIsTrue
  BY <1>1, Zenon DEF RefusalIsTrue
<1> QED
  BY <1>2, Invariance, PTL
=============================================================================
