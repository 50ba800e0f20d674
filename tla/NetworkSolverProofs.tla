------------------------- MODULE NetworkSolverProofs -------------------------
(***************************************************************************)
(* Proofs about NetworkSolver, for every request and every optimum of the  *)
(* LP.  The argument for the loop: capacity only ever shrinks, so that a   *)
(* lane that can give no more to an entry never can again; lanes are tried *)
(* in the order of the sort, and as long as the entry needs more, each is  *)
(* used up.  For plans: what is shipped and what is left add up, by lane,  *)
(* by entry and by warehouse.                                              *)
(***************************************************************************)
EXTENDS NetworkSolver, SumsProofs

\* The elements of a sequence.
LEMMA ElementsOfSeq ==
  ASSUME NEW S, NEW s \in Seq(S)
  PROVE  \A k \in 1..Len(s) : s[k] \in S
OBVIOUS

\* What IsRequest says of the request in hand.
LEMMA RequestTyped ==
  ASSUME TypeOK
  PROVE  /\ Lanes = 1..Len(request.lanes)
         /\ Entries = 1..Len(request.demands)
         /\ Len(request.demands) \in Nat
         /\ \A k \in Lanes : /\ k \in Nat
                             /\ LaneOf(k).cost \in Nat
                             /\ LaneOf(k).cap \in Nat \cup {NoCap}
         /\ \A i \in Entries : request.demands[i].units \in Nat
         /\ \A w \in DOMAIN request.capacity : request.capacity[w] \in Nat
         /\ request.capacity \in [DOMAIN request.capacity -> Nat]
<1>1. /\ request.lanes \in Seq([warehouse : Warehouses, location : Locations,
                                cost : Nat, cap : Nat \cup {NoCap}])
      /\ request.demands \in Seq([location : Locations, units : Nat \ {0}])
      /\ \A w \in DOMAIN request.capacity : request.capacity[w] \in Nat
      /\ request.capacity = [w \in DOMAIN request.capacity |-> request.capacity[w]]
  BY DEF TypeOK, IsRequest
<1>2. request.capacity \in [DOMAIN request.capacity -> Nat]
  BY <1>1
<1>3. \A k \in 1..Len(request.lanes) :
        request.lanes[k] \in [warehouse : Warehouses, location : Locations,
                              cost : Nat, cap : Nat \cup {NoCap}]
  BY <1>1, ElementsOfSeq
<1>4. \A i \in 1..Len(request.demands) :
        request.demands[i] \in [location : Locations, units : Nat \ {0}]
  BY <1>1, ElementsOfSeq
<1>5. /\ Lanes = 1..Len(request.lanes)
      /\ Entries = 1..Len(request.demands)
      /\ Len(request.demands) \in Nat
  BY <1>1 DEF Lanes, Entries
<1> QED
  BY <1>1, <1>2, <1>3, <1>4, <1>5 DEF LaneOf

\* The lists of a request are finite.
LEMMA ListsAreFinite ==
  ASSUME TypeOK
  PROVE  /\ IsFiniteSet(Lanes) /\ IsFiniteSet(Entries) /\ IsFiniteSet(Demanded)
         /\ \A S \in SUBSET Lanes : IsFiniteSet(S)
<1>1. request.lanes \in Seq([warehouse : Warehouses, location : Locations,
                            cost : Nat, cap : Nat \cup {NoCap}])
  BY DEF TypeOK, IsRequest
<1>2. Len(request.lanes) \in Nat
  BY <1>1
<1>3. IsFiniteSet(1..Len(request.lanes)) /\ IsFiniteSet(1..Len(request.demands))
  BY <1>2, RequestTyped, FS_Interval
<1>4. IsFiniteSet(Lanes) /\ IsFiniteSet(Entries)
  <2>1. Lanes = 1..Len(request.lanes) /\ Entries = 1..Len(request.demands)
    BY RequestTyped
  <2> QED
    BY <1>3, <2>1, Zenon
<1>5. IsFiniteSet(Demanded)
  <2> DEFINE at == [i \in Entries |-> request.demands[i].location]
  <2>1. at \in Surjection(Entries, Demanded)
    BY DEF Surjection, Demanded
  <2> HIDE DEF at
  <2> QED
    BY <1>4, <2>1, FS_Surjection
<1> QED
  BY <1>4, <1>5, FS_Subset

\* The sort is a strict order on the lanes.
LEMMA BeforeIsStrict ==
  ASSUME TypeOK
  PROVE  /\ \A j, k \in Lanes : Before(j, k) => ~Before(k, j)
         /\ \A i, j, k \in Lanes : Before(i, j) /\ Before(j, k) => Before(i, k)
BY RequestTyped DEF Before

\* What is shipped over a lane fits the need, the warehouse and the cap, and is all
\* the lane can give unless it meets the need.
LEMMA ShipFits ==
  ASSUME TypeOK, NEW k \in Lanes, Usable(k)
  PROVE  LET w == LaneOf(k).warehouse
         IN  /\ Ship(k) \in Nat
             /\ need - Ship(k) \in Nat
             /\ remaining[w] - Ship(k) \in Nat
             /\ LaneOf(k).cap # NoCap => Ship(k) <= LaneOf(k).cap
             /\ need - Ship(k) > 0 => remaining[w] - Ship(k) = 0 \/ Ship(k) = LaneOf(k).cap
<1> DEFINE w == LaneOf(k).warehouse
<1>1. need \in Nat /\ remaining[w] \in Nat
  BY DEF TypeOK, Usable
<1>2. LaneOf(k).cap \in Nat \cup {NoCap}
  BY RequestTyped
<1>3. CASE LaneOf(k).cap # NoCap /\ LaneOf(k).cap < remaining[w]
  <2>1. Available(k) = LaneOf(k).cap
    BY <1>3 DEF Available
  <2> QED
    BY <1>1, <1>2, <1>3, <2>1 DEF Ship
<1>4. CASE ~(LaneOf(k).cap # NoCap /\ LaneOf(k).cap < remaining[w])
  <2>1. Available(k) = remaining[w]
    BY <1>4 DEF Available
  <2> QED
    BY <1>1, <1>2, <1>4, <2>1 DEF Ship
<1> QED
  BY <1>3, <1>4

\* The LP depends on the request only.
LEMMA LpUnchanged ==
  ASSUME UNCHANGED request
  PROVE  /\ Variables' = Variables /\ Feasible' = Feasible
         /\ \A x : ExactPlan(x)' = ExactPlan(x)
<1>1. Variables' = Variables /\ Demanded' = Demanded
  BY DEF Variables, Lanes, Usable, LaneOf, Demanded, Entries
<1>2. \A l : VariablesTo(l)' = VariablesTo(l) /\ DemandOf(l)' = DemandOf(l)
  BY Zenon DEF Variables, VariablesTo, LaneOf, Usable, Lanes, DemandOf, Entries
<1>3. [Variables -> 0..Max({0} \cup {UpperBound(k) : k \in Variables})]'
        = [Variables -> 0..Max({0} \cup {UpperBound(k) : k \in Variables})]
  BY Zenon DEF Variables, UpperBound, Usable, Lanes, LaneOf
<1>4. \A x : (\A k \in Variables : x[k] <= UpperBound(k))'
              = (\A k \in Variables : x[k] <= UpperBound(k))
  BY Zenon DEF UpperBound, Variables, Usable, Lanes, LaneOf
<1>5. \A x : (\A l \in Demanded : MeetsDemand(x, l))' <=> (\A l \in Demanded : MeetsDemand(x, l))
  <2>1. \A x, l : /\ Total(x, VariablesTo(l))' = Total(x, VariablesTo(l))
                  /\ DemandOf(l)' = DemandOf(l)
    BY <1>2, Zenon
  <2>2. \A x, l : MeetsDemand(x, l)' <=> MeetsDemand(x, l)
    BY <2>1 DEF MeetsDemand
  <2> QED
    BY <1>1, <2>2
<1>6. \A x : (\A w \in DOMAIN request.capacity : FitsCapacity(x, w))'
              = (\A w \in DOMAIN request.capacity : FitsCapacity(x, w))
  BY Zenon DEF FitsCapacity, VariablesFrom, Variables, Usable, Lanes, LaneOf
<1>7. Feasible' = Feasible
  BY <1>3, <1>4, <1>5, <1>6, Zenon DEF Feasible
<1>8. \A x : ExactPlan(x)' = ExactPlan(x)
  <2>1. \A x : OnLanes(x)' = OnLanes(x)
    BY Zenon DEF OnLanes, Variables, Usable, Lanes, LaneOf
  <2>2. \A x : Unmet(x)' = Unmet(x)
    BY Zenon DEF Unmet, Demanded, DemandOf, VariablesTo, Variables, Usable, Lanes, LaneOf, Entries
  <2> QED
    BY <2>1, <2>2, Zenon DEF ExactPlan, Plan, LaneCosts, Lanes, LaneOf
<1> QED
  BY <1>1, <1>7, <1>8

\* A plan stays of its method while nothing that it sums up changes.
LEMMA PlanStays ==
  ASSUME PlanIsOfItsMethod, UNCHANGED <<request, entry, shipped, short, plan>>,
         pc' = "done" <=> pc = "done"
  PROVE  PlanIsOfItsMethod'
<1>1. HeuristicPlan' = HeuristicPlan
  BY Zenon DEF HeuristicPlan, Plan, LaneCosts, ShippedOver, Lanes, LaneOf, Entries
<1>2. HasPlan' = HasPlan /\ NoPlan' = NoPlan
  BY Zenon DEF HasPlan, NoPlan
<1>3. pc' # "done" => plan' = NoPlan'
  BY <1>2, Zenon DEF PlanIsOfItsMethod
<1> QED
  BY LpUnchanged, <1>1, <1>2, <1>3, Zenon DEF PlanIsOfItsMethod

-----------------------------------------------------------------------------
\* The initial state satisfies the invariant.
LEMMA InitEstablishes == Init => IInv
<1> SUFFICES ASSUME Init PROVE IInv
  OBVIOUS
<1>1. \A i \in Entries : \A k \in Lanes : shipped[i][k] = 0
  BY DEF Init
<1>2. \A i \in Entries : short[i] = 0
  BY DEF Init
<1>3. request.demands \in Seq([location : Locations, units : Nat \ {0}])
  BY RequestsAssumption DEF Init, IsRequest
<1>4. remaining \in [DOMAIN request.capacity -> Nat]
  BY RequestsAssumption DEF Init, IsRequest
<1>5. TypeOK
  BY <1>3, <1>4, RequestsAssumption DEF Init, TypeOK, NoPlan
<1>6. ServesInOrder
  BY DEF Init, ServesInOrder
<1>7. AheadIsUntouched
  BY <1>1, <1>2 DEF AheadIsUntouched
<1>8. AllocationsAreCapped
  BY <1>1, <1>5, RequestTyped DEF AllocationsAreCapped
<1>9. ShortfallIsForced
  BY <1>2 DEF ShortfallIsForced
<1>10. CheapestFirst
  BY <1>1 DEF CheapestFirst, LanesTo
<1>11. AllocationsServeTheirEntry
  BY <1>1 DEF AllocationsServeTheirEntry
<1>12. StockIsAccountedFor
  <2> DEFINE units == [k \in Lanes |-> ShippedOver(k)]
  <2>1. \A k \in Lanes : ShippedOver(k) = 0
    <3>1. \A k \in Lanes : \A i \in Entries : [j \in Entries |-> shipped[j][k]][i] = 0
      BY <1>1
    <3> QED
      BY <1>5, <3>1, ListsAreFinite, TotalIsZero DEF ShippedOver
  <2>2. \A S \in SUBSET Lanes : Total(units, S) = 0
    <3>1. \A k \in Lanes : units[k] = 0
      BY <2>1
    <3> HIDE DEF units
    <3> QED
      BY <1>5, <3>1, ListsAreFinite, TotalIsZero
  <2>3. \A w \in DOMAIN request.capacity : remaining[w] = request.capacity[w]
    BY DEF Init
  <2> QED
    BY <1>5, <2>2, <2>3, RequestTyped DEF StockIsAccountedFor
<1>13. NeedIsAccountedFor
  BY <1>5, RequestTyped DEF Init, NeedIsAccountedFor
<1>14. PlanIsOfItsMethod
  BY DEF Init, PlanIsOfItsMethod, HasPlan, NoPlan
<1> QED
  BY <1>5, <1>6, <1>7, <1>8, <1>9, <1>10, <1>11, <1>12, <1>13, <1>14 DEF IInv

\* Steps outside the loop over the lanes leave its variables alone.
LEMMA OutsideTheLoop ==
  ASSUME IInv, TypeOK', PlanIsOfItsMethod', pc' # "lanes", pc # "lanes",
         UNCHANGED <<request, entry, tried, remaining, shipped, short>>
  PROVE  IInv'
<1>1. ServesInOrder'
  BY DEF ServesInOrder
<1>2. AheadIsUntouched'
  BY DEF IInv, AheadIsUntouched, Entries, Lanes
<1>3. AllocationsAreCapped'
  BY DEF IInv, AllocationsAreCapped, Entries, Lanes, LaneOf
<1>4. ShortfallIsForced'
  BY DEF IInv, ShortfallIsForced, Entries, Lanes, LanesTo, Usable, LaneOf, Saturated
<1>5. CheapestFirst'
  BY DEF IInv, CheapestFirst, Entries, Lanes, LanesTo, Usable, LaneOf, Before, Saturated
<1>6. AllocationsServeTheirEntry'
  BY DEF IInv, AllocationsServeTheirEntry, Entries, Lanes, LanesTo, Usable, LaneOf
<1>7. StockIsAccountedFor'
  BY DEF IInv, StockIsAccountedFor, ShippedOver, Entries, Lanes, LaneOf
<1>8. NeedIsAccountedFor'
  BY DEF IInv, NeedIsAccountedFor, Entries, Lanes
<1> QED
  BY <1>1, <1>2, <1>3, <1>4, <1>5, <1>6, <1>7, <1>8 DEF IInv

\* An outcome has one of the three forms.
LEMMA PlanOutcome ==
  ASSUME NEW method, NEW units, NEW unmet, NEW feasible
  PROVE  Plan(method, units, unmet, feasible).outcome = "plan"
BY DEF Plan

\* The loop turns to the next entry.
LEMMA NextEntryPreserves == ASSUME IInv, NextEntry PROVE IInv'
<1> USE DEF IInv
<1>1. /\ pc = "locations" /\ pc' = "lanes"
      /\ entry' = entry + 1 /\ entry < Len(request.demands)
      /\ tried' = {}
      /\ UNCHANGED <<request, remaining, shipped, short, plan>>
      /\ need' = request.demands[entry + 1].units
  BY DEF NextEntry
<1>2. entry + 1 \in Entries /\ entry \in Nat
  BY <1>1, RequestTyped DEF TypeOK
<1>3. TypeOK'
  <2>1. need' \in Nat
    BY <1>1, <1>2, RequestTyped
  <2>2. entry' \in 0..Len(request.demands)
    BY <1>1, <1>2, RequestTyped
  <2> QED
    BY <1>1, <1>2, <2>1, <2>2 DEF TypeOK, Entries, Lanes
<1>4. ServesInOrder'
  BY <1>1 DEF ServesInOrder
<1>5. AheadIsUntouched'
  <2>1. \A i \in Entries : i \in Nat /\ (i > entry + 1 \/ i = entry + 1 => i > entry)
    BY <1>2, RequestTyped
  <2> QED
    BY <1>1, <2>1 DEF AheadIsUntouched, Entries, Lanes
<1>6. AllocationsAreCapped'
  BY <1>1 DEF AllocationsAreCapped, Entries, Lanes, LaneOf
<1>7. ShortfallIsForced'
  BY <1>1 DEF ShortfallIsForced, Entries, Lanes, LanesTo, Usable, LaneOf, Saturated
<1>8. CheapestFirst'
  BY <1>1 DEF CheapestFirst, Entries, Lanes, LanesTo, Usable, LaneOf, Before, Saturated
<1>9. AllocationsServeTheirEntry'
  BY <1>1 DEF AllocationsServeTheirEntry, Entries, Lanes, LanesTo, Usable, LaneOf
<1>10. StockIsAccountedFor'
  BY <1>1 DEF StockIsAccountedFor, ShippedOver, Entries, Lanes, LaneOf
<1>11. NeedIsAccountedFor'
  <2>1. Total(shipped[entry + 1], Lanes) = 0
    <3>1. \A k \in Lanes : shipped[entry + 1][k] = 0
      BY <1>2 DEF AheadIsUntouched
    <3> QED
      BY <3>1, ListsAreFinite, TotalIsZero
  <2>2. \A i \in Entries : i <= entry + 1 =>
          Total(shipped[i], Lanes) + (IF i = entry + 1 THEN need' ELSE short[i])
            = request.demands[i].units
    <3>1. ASSUME NEW i \in Entries, i = entry + 1
          PROVE  Total(shipped[i], Lanes) + need' = request.demands[i].units
      BY <1>1, <2>1, <3>1, RequestTyped
    <3>2. ASSUME NEW i \in Entries, i # entry + 1, i <= entry + 1
          PROVE  Total(shipped[i], Lanes) + short[i] = request.demands[i].units
      BY <1>1, <1>2, <3>2, RequestTyped DEF NeedIsAccountedFor
    <3> QED
      BY <3>1, <3>2
  <2> QED
    BY <1>1, <2>2 DEF NeedIsAccountedFor, Entries, Lanes
<1>12. PlanIsOfItsMethod'
  <2>1. plan = NoPlan
    BY <1>1 DEF PlanIsOfItsMethod
  <2> QED
    BY <1>1, <2>1 DEF PlanIsOfItsMethod, HasPlan, NoPlan
<1> QED
  BY <1>3, <1>4, <1>5, <1>6, <1>7, <1>8, <1>9, <1>10, <1>11, <1>12

\* The loop leaves an entry: what it still needs could not be had.
LEMMA EntryDonePreserves == ASSUME IInv, EntryDone PROVE IInv'
<1> USE DEF IInv
<1>1. /\ pc = "lanes" /\ pc' = "locations"
      /\ need = 0 \/ Untried = {}
      /\ short' = [short EXCEPT ![entry] = need]
      /\ UNCHANGED <<request, entry, need, tried, remaining, shipped, plan>>
  BY DEF EntryDone
<1>2. entry \in Entries /\ need \in Nat /\ short \in [Entries -> Nat]
  BY <1>1 DEF TypeOK
<1>3. TypeOK'
  <2>1. short' \in [Entries -> Nat]
    BY <1>1, <1>2
  <2> QED
    BY <1>1, <2>1 DEF TypeOK, Entries, Lanes
<1>4. ServesInOrder'
  BY <1>1 DEF ServesInOrder
<1>5. AheadIsUntouched'
  <2>1. \A i \in Entries : i > entry => i # entry
    BY <1>2, RequestTyped
  <2> QED
    BY <1>1, <1>2, <2>1 DEF AheadIsUntouched, Entries, Lanes
<1>6. AllocationsAreCapped'
  BY <1>1 DEF AllocationsAreCapped, Entries, Lanes, LaneOf
<1>7. ShortfallIsForced'
  <2>1. ASSUME NEW i \in Entries, short'[i] > 0,
               NEW k \in LanesTo(request.demands[i].location)
        PROVE  Saturated(i, k)
    <3>1. CASE i = entry
      <4>1. need > 0 /\ Untried = {}
        BY <1>1, <1>2, <2>1, <3>1
      <4>2. k \in tried
        BY <2>1, <3>1, <4>1 DEF Untried
      <4> QED
        BY <1>1, <3>1, <4>1, <4>2 DEF ServesInOrder
    <3>2. CASE i # entry
      BY <1>1, <1>2, <2>1, <3>2 DEF ShortfallIsForced
    <3> QED
      BY <3>1, <3>2
  <2> QED
    BY <1>1, <2>1 DEF ShortfallIsForced, Entries, Lanes, LanesTo, Usable, LaneOf, Saturated
<1>8. CheapestFirst'
  BY <1>1 DEF CheapestFirst, Entries, Lanes, LanesTo, Usable, LaneOf, Before, Saturated
<1>9. AllocationsServeTheirEntry'
  BY <1>1 DEF AllocationsServeTheirEntry, Entries, Lanes, LanesTo, Usable, LaneOf
<1>10. StockIsAccountedFor'
  BY <1>1 DEF StockIsAccountedFor, ShippedOver, Entries, Lanes, LaneOf
<1>11. NeedIsAccountedFor'
  BY <1>1, <1>2 DEF NeedIsAccountedFor, Entries, Lanes
<1>12. PlanIsOfItsMethod'
  <2>1. plan = NoPlan
    BY <1>1 DEF PlanIsOfItsMethod
  <2> QED
    BY <1>1, <2>1 DEF PlanIsOfItsMethod, HasPlan, NoPlan
<1> QED
  BY <1>3, <1>4, <1>5, <1>6, <1>7, <1>8, <1>9, <1>10, <1>11, <1>12

\* One lane is tried.
LEMMA TryLanePreserves ==
  ASSUME IInv, NEW k \in Lanes, TryLane(k)
  PROVE  IInv'
<1> USE DEF IInv
<1> DEFINE here == request.demands[entry].location
           w == LaneOf(k).warehouse
           u == Ship(k)
           SaturatedNext(i, j) ==
             remaining'[LaneOf(j).warehouse] = 0 \/ shipped'[i][j] = LaneOf(j).cap
<1>1. /\ pc = "lanes" /\ need > 0 /\ k \in Untried
      /\ \A j \in Untried : j = k \/ Before(k, j)
      /\ shipped' = [shipped EXCEPT ![entry][k] = u]
      /\ remaining' = [remaining EXCEPT ![w] = @ - u]
      /\ need' = need - u
      /\ tried' = tried \cup {k}
      /\ pc' = "lanes"
      /\ UNCHANGED <<request, entry, short, plan>>
  BY DEF TryLane
<1>2. /\ entry \in Entries
      /\ k \in LanesTo(here) /\ k \notin tried /\ Usable(k)
      /\ w \in DOMAIN request.capacity
  BY <1>1 DEF TypeOK, Untried, LanesTo, Usable
<1>3. /\ u \in Nat
      /\ need - u \in Nat
      /\ remaining[w] - u \in Nat
      /\ LaneOf(k).cap # NoCap => u <= LaneOf(k).cap
      /\ need - u > 0 => remaining[w] - u = 0 \/ u = LaneOf(k).cap
  BY <1>2, ShipFits
<1>4. /\ remaining \in [DOMAIN request.capacity -> Nat]
      /\ shipped \in [Entries -> [Lanes -> Nat]]
  BY DEF TypeOK
<1> HIDE DEF u
<1>5. /\ remaining'[w] = remaining[w] - u
      /\ \A v \in DOMAIN request.capacity : v # w => remaining'[v] = remaining[v]
      /\ remaining' \in [DOMAIN request.capacity -> Nat]
  BY <1>1, <1>2, <1>3, <1>4
<1>6. /\ shipped'[entry][k] = u
      /\ \A i \in Entries, j \in Lanes : i # entry \/ j # k => shipped'[i][j] = shipped[i][j]
      /\ shipped' \in [Entries -> [Lanes -> Nat]]
  BY <1>1, <1>2, <1>3, <1>4
\* What was saturated stays so.
<1>7. ASSUME NEW i \in Entries, NEW j \in Lanes, Usable(j), i # entry \/ j # k,
             Saturated(i, j)
      PROVE  SaturatedNext(i, j)
  <2>1. shipped'[i][j] = shipped[i][j]
    BY <1>6, <1>7
  <2>2. remaining[LaneOf(j).warehouse] = 0 => remaining'[LaneOf(j).warehouse] = 0
    BY <1>3, <1>4, <1>5, <1>7 DEF Usable
  <2> QED
    BY <1>7, <2>1, <2>2 DEF Saturated
<1>8. LaneOf(k)' = LaneOf(k) /\ Entries' = Entries /\ Lanes' = Lanes
  BY <1>1 DEF LaneOf, Entries, Lanes
<1>9. need' > 0 => SaturatedNext(entry, k)
  BY <1>1, <1>3, <1>5, <1>6
<1>10. tried \subseteq LanesTo(here) /\ \A j \in tried, m \in Untried : Before(j, m)
  BY <1>1 DEF ServesInOrder
<1>11. \A j \in LanesTo(here) : j \in Lanes /\ Usable(j)
  BY DEF LanesTo
<1>12. TypeOK'
  BY <1>1, <1>2, <1>3, <1>5, <1>6, <1>8 DEF TypeOK
<1>13. ServesInOrder'
  <2>1. Untried' = Untried \ {k}
    BY <1>1 DEF Untried, LanesTo, Usable, Lanes, LaneOf
  <2>2. \A j \in tried', m \in Untried' : Before(j, m)
    BY <1>1, <1>10, <2>1
  <2>3. need' > 0 => \A j \in tried : SaturatedNext(entry, j)
    <3> SUFFICES ASSUME need' > 0, NEW j \in tried PROVE SaturatedNext(entry, j)
      OBVIOUS
    <3>1. j \in Lanes /\ Usable(j) /\ j # k
      BY <1>2, <1>10, <1>11
    <3>2. Saturated(entry, j)
      BY <1>1 DEF ServesInOrder
    <3> QED
      BY <1>2, <1>7, <3>1, <3>2
  <2>4. tried' \subseteq LanesTo(here)
    BY <1>1, <1>2, <1>10
  <2>5. need' > 0 => \A j \in tried' : SaturatedNext(entry, j)
    BY <1>1, <1>9, <2>3
  <2> QED
    BY <1>1, <2>2, <2>4, <2>5
    DEF ServesInOrder, LanesTo, Usable, Lanes, LaneOf, Before, Saturated
<1>14. AheadIsUntouched'
  <2>1. ASSUME NEW i \in Entries, NEW j \in Lanes,
               i > entry \/ (i = entry /\ j \notin tried')
        PROVE  shipped'[i][j] = 0
    <3>1. i # entry \/ j # k
      BY <1>1, <1>2, <2>1, RequestTyped
    <3>2. shipped[i][j] = 0
      BY <1>1, <2>1 DEF AheadIsUntouched
    <3> QED
      BY <1>6, <3>1, <3>2
  <2> QED
    BY <1>1, <1>8, <2>1 DEF AheadIsUntouched
<1>15. AllocationsAreCapped'
  <2>1. ASSUME NEW i \in Entries, NEW j \in Lanes, LaneOf(j).cap # NoCap
        PROVE  shipped'[i][j] <= LaneOf(j).cap
    <3>1. CASE i = entry /\ j = k
      BY <1>3, <1>6, <2>1, <3>1
    <3>2. CASE i # entry \/ j # k
      BY <1>6, <2>1, <3>2 DEF AllocationsAreCapped
    <3> QED
      BY <3>1, <3>2
  <2> QED
    BY <1>1, <1>8, <2>1 DEF AllocationsAreCapped, LaneOf
<1>16. ShortfallIsForced'
  <2>1. ASSUME NEW i \in Entries, short[i] > 0,
               NEW j \in LanesTo(request.demands[i].location)
        PROVE  SaturatedNext(i, j)
    <3>1. i # entry
      BY <1>1, <2>1 DEF AheadIsUntouched
    <3>2. j \in Lanes /\ Usable(j) /\ Saturated(i, j)
      BY <2>1 DEF LanesTo, ShortfallIsForced
    <3> QED
      BY <1>7, <3>1, <3>2
  <2> QED
    BY <1>1, <2>1 DEF ShortfallIsForced, Entries, Lanes, LanesTo, Usable, LaneOf, Saturated
<1>17. CheapestFirst'
  <2>1. ASSUME NEW i \in Entries,
               NEW j \in LanesTo(request.demands[i].location),
               NEW m \in LanesTo(request.demands[i].location),
               shipped'[i][m] > 0, Before(j, m)
        PROVE  SaturatedNext(i, j)
    <3>1. j \in Lanes /\ Usable(j) /\ m \in Lanes
      BY <2>1 DEF LanesTo
    <3>2. CASE i # entry
      <4>1. Saturated(i, j)
        BY <1>6, <2>1, <3>1, <3>2 DEF CheapestFirst
      <4> QED
        BY <1>7, <3>1, <3>2, <4>1
    \* The lane itself: those before it were tried, and the need was not met.
    <3>3. CASE i = entry /\ m = k
      <4>1. j # k
        BY <2>1, <3>1, <3>3, BeforeIsStrict
      <4>2. j \in tried
        BY <1>1, <2>1, <3>1, <3>3, <4>1, BeforeIsStrict DEF Untried
      <4>3. Saturated(entry, j)
        BY <1>1, <4>2 DEF ServesInOrder
      <4> QED
        BY <1>2, <1>7, <3>1, <3>3, <4>1, <4>3
    \* A lane used earlier: it is before k, so that j is not k.
    <3>4. CASE i = entry /\ m # k
      <4>1. shipped[i][m] > 0
        BY <1>6, <2>1, <3>1, <3>4
      <4>2. m \in tried
        BY <1>1, <3>1, <3>4, <4>1 DEF AheadIsUntouched
      <4>3. Before(m, k)
        BY <1>1, <1>10, <4>2
      <4>4. j # k
        BY <2>1, <3>1, <4>3, BeforeIsStrict
      <4>5. Saturated(i, j)
        BY <2>1, <4>1 DEF CheapestFirst
      <4> QED
        BY <1>2, <1>7, <3>1, <3>4, <4>4, <4>5
    <3> QED
      BY <3>2, <3>3, <3>4
  <2> QED
    BY <1>1, <2>1
    DEF CheapestFirst, Entries, Lanes, LanesTo, Usable, LaneOf, Before, Saturated
<1>18. AllocationsServeTheirEntry'
  <2>1. \A i \in Entries, j \in Lanes :
          shipped'[i][j] # 0 => j \in LanesTo(request.demands[i].location)
    BY <1>2, <1>6 DEF AllocationsServeTheirEntry
  <2> QED
    BY <1>1, <2>1 DEF AllocationsServeTheirEntry, Entries, Lanes, LanesTo, Usable, LaneOf
<1>19. shipped[entry][k] = 0
  BY <1>1, <1>2 DEF AheadIsUntouched, LanesTo
<1>20. StockIsAccountedFor'
  <2> DEFINE before == [j \in Lanes |-> ShippedOver(j)]
             after == [j \in Lanes |-> Total([i \in Entries |-> shipped'[i][j]], Entries)]
  <2>1. ASSUME NEW j \in Lanes
        PROVE  before[j] \in Int /\ after[j] = before[j] + (IF j = k THEN u ELSE 0)
    <3> DEFINE old == [i \in Entries |-> shipped[i][j]]
               new == [i \in Entries |-> shipped'[i][j]]
    <3>1. \A i \in Entries : old[i] \in Nat /\ new[i] \in Nat
      BY <1>4, <1>6
    <3>2. \A i \in Entries \ {entry} : old[i] = new[i]
      BY <1>6
    <3>3. new[entry] - old[entry] = IF j = k THEN u ELSE 0
      BY <1>2, <1>3, <1>4, <1>6, <1>19
    <3>4. before[j] = Total(old, Entries) /\ after[j] = Total(new, Entries)
      BY DEF ShippedOver
    <3> HIDE DEF old, new, before, after
    <3> QED
      BY <1>2, <1>3, <3>1, <3>2, <3>3, <3>4, ListsAreFinite, TotalChange, TotalInt
  <2>2. ASSUME NEW v \in DOMAIN request.capacity
        PROVE  Total(after, {j \in Lanes : LaneOf(j).warehouse = v}) + remaining'[v]
                 = request.capacity[v]
    <3> DEFINE from == {j \in Lanes : LaneOf(j).warehouse = v}
    <3> SUFFICES Total(after, from) + remaining'[v] = request.capacity[v]
      OBVIOUS
    <3>1. /\ Total(before, from) + remaining[v] = request.capacity[v]
          /\ Total(before, from) \in Int
          /\ \A j \in from : before[j] \in Int /\ after[j] \in Int
      <4>1. IsFiniteSet(from)
        BY ListsAreFinite
      <4>2. \A j \in from : before[j] \in Int /\ after[j] \in Int
        BY <1>3, <2>1
      <4>3. Total(before, from) + remaining[v] = request.capacity[v]
        BY DEF StockIsAccountedFor
      <4> HIDE DEF before, after
      <4> QED
        BY <4>1, <4>2, <4>3, TotalInt
    <3>2. CASE v = w
      <4>1. k \in from /\ after[k] - before[k] = u /\ \A j \in from \ {k} : after[j] = before[j]
        BY <1>3, <2>1, <3>2
      <4>2. IsFiniteSet(from)
        BY ListsAreFinite
      <4> HIDE DEF before, after, from
      <4>3. Total(after, from) = Total(before, from) + u
        BY <3>1, <4>1, <4>2, TotalChange
      <4> QED
        BY <1>2, <1>3, <1>4, <1>5, <3>1, <3>2, <4>3
    <3>3. CASE v # w
      <4>1. \A j \in from : after[j] = before[j]
        BY <2>1, <3>3
      <4>2. IsFiniteSet(from)
        BY ListsAreFinite
      <4>3. Total(after, from) = Total(before, from)
        <5> HIDE DEF before, after, from
        <5> QED
          BY <4>1, <4>2, TotalAgrees
      <4> HIDE DEF before, after, from
      <4> QED
        BY <1>5, <3>1, <3>3, <4>3
    <3> QED
      BY <3>2, <3>3
  <2> QED
    BY <1>1, <1>8, <2>2 DEF StockIsAccountedFor, ShippedOver, LaneOf
<1>21. NeedIsAccountedFor'
  <2>1. Total(shipped'[entry], Lanes) = Total(shipped[entry], Lanes) + u
        /\ Total(shipped[entry], Lanes) \in Int
    <3> DEFINE old == shipped[entry]
               new == shipped'[entry]
    <3>1. \A j \in Lanes : old[j] \in Nat /\ new[j] \in Nat
      BY <1>2, <1>4, <1>6
    <3>2. \A j \in Lanes \ {k} : old[j] = new[j]
      BY <1>2, <1>6
    <3>3. new[k] - old[k] = u
      BY <1>3, <1>6, <1>19
    <3> HIDE DEF old, new
    <3>4. Total(new, Lanes) = Total(old, Lanes) + u /\ Total(old, Lanes) \in Int
      BY <3>1, <3>2, <3>3, ListsAreFinite, TotalChange, TotalInt
    <3> QED
      BY <3>4 DEF old, new
  <2>2. \A i \in Entries : i # entry => Total(shipped'[i], Lanes) = Total(shipped[i], Lanes)
    <3>1. \A i \in Entries : i # entry => \A j \in Lanes : shipped'[i][j] = shipped[i][j]
      BY <1>6
    <3> QED
      BY <3>1, ListsAreFinite, TotalAgrees
  <2>3. \A i \in Entries : i <= entry =>
          Total(shipped'[i], Lanes) + (IF i = entry THEN need' ELSE short[i])
            = request.demands[i].units
    <3>1. Total(shipped[entry], Lanes) + need = request.demands[entry].units
      BY <1>1, <1>2, RequestTyped DEF NeedIsAccountedFor
    <3>2. Total(shipped'[entry], Lanes) + need' = request.demands[entry].units
      BY <1>1, <1>3, <2>1, <3>1 DEF TypeOK
    <3> QED
      BY <1>1, <2>2, <3>2 DEF NeedIsAccountedFor
  <2> QED
    BY <1>1, <1>8, <2>3 DEF NeedIsAccountedFor
<1>22. PlanIsOfItsMethod'
  <2>1. plan = NoPlan
    BY <1>1 DEF PlanIsOfItsMethod
  <2> QED
    BY <1>1, <2>1 DEF PlanIsOfItsMethod, HasPlan, NoPlan
<1> QED
  BY <1>12, <1>13, <1>14, <1>15, <1>16, <1>17, <1>18, <1>20, <1>21, <1>22

-----------------------------------------------------------------------------
\* IInv is inductive, for every request and every choice of the LP solver.
THEOREM Invariance == Spec => []IInv
<1>1. Init => IInv
  BY InitEstablishes
<1>2. IInv /\ [Next]_vars => IInv'
  <2> SUFFICES ASSUME IInv, [Next]_vars PROVE IInv'
    OBVIOUS
  <2>1. CASE Start
    <3>1. TypeOK'
      BY <2>1 DEF Start, IInv, TypeOK, Entries, Lanes
    <3>2. PlanIsOfItsMethod'
      BY <2>1, PlanStays DEF IInv, Start
    <3> QED
      BY <2>1, <3>1, <3>2, OutsideTheLoop DEF Start
  <2>2. CASE SolveExact
    <3>1. /\ pc = "exact" /\ pc' = "done"
          /\ UNCHANGED <<request, entry, need, tried, remaining, shipped, short>>
          /\ plan' = Infeasible \/ \E x \in Feasible : plan' = ExactPlan(x)
      BY <2>2 DEF SolveExact
    <3>2. PlanIsOfItsMethod' /\ plan'.outcome \in {"InfeasibleProblemError", "plan"}
      <4>1. CASE plan' = Infeasible
        <5>1. Variables = {} \/ Feasible = {}
          <6>1. \A x : ExactPlan(x).outcome = "plan"
            BY PlanOutcome, Zenon DEF ExactPlan
          <6>2. \A x : ExactPlan(x) # Infeasible
            BY <6>1 DEF Infeasible
          <6>3. Variables = {} \/ Feasible = {} \/ \E x : plan' = ExactPlan(x)
            BY <2>2, Zenon DEF SolveExact
          <6> QED
            BY <4>1, <6>2, <6>3
        <5>2. Variables' = {} \/ Feasible' = {}
          BY <3>1, <5>1, LpUnchanged
        <5> QED
          BY <3>1, <4>1, <5>2 DEF PlanIsOfItsMethod, HasPlan, Infeasible
      <4>2. ASSUME NEW x \in Feasible, plan' = ExactPlan(x)
            PROVE  PlanIsOfItsMethod' /\ plan'.outcome = "plan"
        <5>1. x \in Feasible' /\ plan' = ExactPlan(x)'
          BY <3>1, <4>2, LpUnchanged
        <5> QED
          BY <3>1, <4>2, <5>1, PlanOutcome DEF PlanIsOfItsMethod, ExactPlan
      <4> QED
        BY <3>1, <4>1, <4>2
    <3>3. TypeOK'
      BY <3>1, <3>2 DEF IInv, TypeOK, Entries, Lanes
    <3> QED
      BY <3>1, <3>2, <3>3, OutsideTheLoop
  <2>3. CASE ExactFails
    <3>1. TypeOK'
      BY <2>3 DEF ExactFails, IInv, TypeOK, Entries, Lanes
    <3>2. PlanIsOfItsMethod'
      BY <2>3, PlanStays DEF IInv, ExactFails
    <3> QED
      BY <2>3, <3>1, <3>2, OutsideTheLoop DEF ExactFails
  <2>4. CASE NextEntry
    BY <2>4, NextEntryPreserves
  <2>5. CASE \E k \in Lanes : TryLane(k)
    BY <2>5, TryLanePreserves
  <2>6. CASE EntryDone
    BY <2>6, EntryDonePreserves
  <2>7. CASE Finish
    <3>1. /\ pc = "locations" /\ pc' = "done"
          /\ UNCHANGED <<request, entry, need, tried, remaining, shipped, short>>
          /\ plan' = HeuristicPlan /\ entry = Len(request.demands)
      BY <2>7 DEF Finish
    <3>2. plan'.outcome = "plan"
      BY <3>1, PlanOutcome DEF HeuristicPlan
    <3>3. TypeOK'
      BY <3>1, <3>2 DEF IInv, TypeOK, Entries, Lanes
    <3>4. HeuristicPlan' = HeuristicPlan
      BY <3>1, Zenon DEF HeuristicPlan, Plan, LaneCosts, ShippedOver, Lanes, LaneOf, Entries
    <3>5. PlanIsOfItsMethod'
      BY <3>1, <3>2, <3>4 DEF PlanIsOfItsMethod
    <3> QED
      BY <3>1, <3>3, <3>5, OutsideTheLoop
  <2>8. CASE UNCHANGED vars
    <3> USE <2>8 DEF vars
    <3>1. TypeOK' /\ AheadIsUntouched' /\ AllocationsAreCapped'
      BY DEF IInv, TypeOK, AheadIsUntouched, AllocationsAreCapped, Entries, Lanes, LaneOf
    <3>2. ServesInOrder'
      BY DEF IInv, ServesInOrder, Untried, LanesTo, Usable, Lanes, LaneOf, Before, Saturated
    <3>3. ShortfallIsForced' /\ CheapestFirst'
      BY DEF IInv, ShortfallIsForced, CheapestFirst, Entries, LanesTo, Usable, Lanes, LaneOf,
             Before, Saturated
    <3>4. AllocationsServeTheirEntry' /\ StockIsAccountedFor' /\ NeedIsAccountedFor'
      BY DEF IInv, AllocationsServeTheirEntry, StockIsAccountedFor, NeedIsAccountedFor,
             ShippedOver, Entries, LanesTo, Usable, Lanes, LaneOf
    <3>5. PlanIsOfItsMethod'
      BY PlanStays DEF IInv
    <3> QED
      BY <3>1, <3>2, <3>3, <3>4, <3>5 DEF IInv
  <2> QED
    BY <2>1, <2>2, <2>3, <2>4, <2>5, <2>6, <2>7, <2>8 DEF Next, Done
<1> QED
  BY <1>1, <1>2, PTL DEF Spec

\* The variables keep their types: no warehouse's remaining capacity is ever negative.
THEOREM TypeCorrect == Spec => []TypeOK
<1>1. IInv => TypeOK
  BY DEF IInv
<1> QED
  BY <1>1, Invariance, PTL

\* Demand is left unmet only where every lane is at its cap or out of stock.
THEOREM ShortfallForced == Spec => []ShortfallIsForced
<1>1. IInv => ShortfallIsForced
  BY DEF IInv
<1> QED
  BY <1>1, Invariance, PTL

\* A lane is used only after every cheaper one to the same location is used up.
THEOREM CheapestLaneFirst == Spec => []CheapestFirst
<1>1. IInv => CheapestFirst
  BY DEF IInv
<1> QED
  BY <1>1, Invariance, PTL

-----------------------------------------------------------------------------
\* What a plan holds.

\* The parts of a plan of the heuristic.
LEMMA HeuristicFields ==
  ASSUME plan = HeuristicPlan
  PROVE  /\ plan.method = "heuristic"
         /\ plan.units = [k \in Lanes |-> ShippedOver(k)]
         /\ plan.unmet = Total(short, Entries)
         /\ plan.feasible <=> (plan.unmet = 0 \/ request.allowUnmet)
BY DEF HeuristicPlan, Plan

\* The parts of an exact plan.
LEMMA ExactFields ==
  ASSUME NEW x, plan = ExactPlan(x)
  PROVE  /\ plan.method = "exact"
         /\ plan.units = OnLanes(x)
         /\ plan.unmet = IF request.allowUnmet THEN Unmet(x) ELSE 0
         /\ plan.feasible = TRUE
BY DEF ExactPlan, Plan

\* The LP's variables are lanes of active warehouses.
LEMMA VariablesAreLanes ==
  /\ Variables \in SUBSET Lanes
  /\ \A k \in Variables : Usable(k)
  /\ \A w : VariablesFrom(w) \in SUBSET Variables
  /\ \A l : VariablesTo(l) \in SUBSET Variables
BY DEF Variables, VariablesFrom, VariablesTo

\* A feasible point, constraint by constraint.
LEMMA FeasiblePoint ==
  ASSUME NEW x \in Feasible
  PROVE  /\ \A k \in Variables : x[k] \in Nat /\ x[k] <= UpperBound(k)
         /\ \A l \in Demanded : MeetsDemand(x, l)
         /\ \A w \in DOMAIN request.capacity : FitsCapacity(x, w)
<1>1. /\ x \in [Variables -> 0..Max({0} \cup {UpperBound(k) : k \in Variables})]
      /\ \A k \in Variables : x[k] <= UpperBound(k)
      /\ \A l \in Demanded : MeetsDemand(x, l)
      /\ \A w \in DOMAIN request.capacity : FitsCapacity(x, w)
  BY Zenon DEF Feasible
<1>2. \E m : x \in [Variables -> 0..m]
  BY <1>1, Zenon
<1>3. \A k \in Variables : x[k] \in Nat
  BY <1>2
<1> QED
  BY <1>1, <1>3

\* What a plan of the heuristic ships on a lane.
LEMMA ShippedIsNat ==
  ASSUME TypeOK, NEW k \in Lanes
  PROVE  ShippedOver(k) \in Nat
<1> DEFINE f == [i \in Entries |-> shipped[i][k]]
<1>1. \A i \in Entries : f[i] \in Nat
  BY DEF TypeOK
<1> HIDE DEF f
<1>2. Total(f, Entries) \in Nat
  BY <1>1, ListsAreFinite, TotalNat
<1> QED
  BY <1>2 DEF f, ShippedOver

\* Where locations are distinct, what is shipped on a lane to an entry's location is
\* shipped for that entry.
LEMMA ShippedForOneEntry ==
  ASSUME TypeOK, AllocationsServeTheirEntry, LocationsAreDistinct,
         NEW i \in Entries, NEW k \in Lanes, LaneOf(k).location = request.demands[i].location
  PROVE  ShippedOver(k) = shipped[i][k]
<1> DEFINE f == [j \in Entries |-> shipped[j][k]]
<1>1. \A j \in Entries : f[j] \in Int
  BY DEF TypeOK
<1>2. \A j \in Entries \ {i} : f[j] = 0
  BY DEF AllocationsServeTheirEntry, LanesTo, LocationsAreDistinct
<1>3. f[i] = shipped[i][k] /\ ShippedOver(k) = Total(f, Entries)
  BY DEF ShippedOver
<1> HIDE DEF f
<1>4. Total(f, Entries) = Total(f, {i})
  BY <1>1, <1>2, ListsAreFinite, TotalIgnoresZeros
<1> QED
  BY <1>1, <1>3, <1>4, TotalSingle

\* So the units to the location of an entry are those shipped for it.
LEMMA ShippedToOneEntry ==
  ASSUME TypeOK, AllocationsServeTheirEntry, LocationsAreDistinct, NEW i \in Entries
  PROVE  Total([k \in Lanes |-> ShippedOver(k)],
               {k \in Lanes : LaneOf(k).location = request.demands[i].location})
           = Total(shipped[i], Lanes)
<1> DEFINE f == [k \in Lanes |-> ShippedOver(k)]
           g == shipped[i]
           S == {k \in Lanes : LaneOf(k).location = request.demands[i].location}
<1>1. \A k \in S : f[k] = g[k]
  BY ShippedForOneEntry
<1>2. \A k \in Lanes \ S : g[k] = 0
  BY DEF AllocationsServeTheirEntry, LanesTo
<1>3. \A k \in Lanes : g[k] \in Int
  BY DEF TypeOK
<1>4. IsFiniteSet(S) /\ S \in SUBSET Lanes
  BY ListsAreFinite
<1>5. Total(f, S) = Total(g, Lanes)
  <2> HIDE DEF f, g, S
  <2>1. Total(f, S) = Total(g, S)
    BY <1>1, <1>4, TotalAgrees
  <2>2. Total(g, Lanes) = Total(g, S)
    BY <1>2, <1>3, <1>4, ListsAreFinite, TotalIgnoresZeros
  <2> QED
    BY <2>1, <2>2
<1> QED
  BY <1>5

\* The units on lanes with a property are those of the variables with it.
LEMMA UnitsOfVariables ==
  ASSUME TypeOK, NEW x \in Feasible, NEW S \in SUBSET Lanes
  PROVE  Total(OnLanes(x), S) = Total(x, S \cap Variables)
<1> DEFINE f == OnLanes(x)
           V == S \cap Variables
<1>1. \A k \in S : f[k] \in Int
  BY FeasiblePoint DEF OnLanes
<1>2. \A k \in S \ V : f[k] = 0
  BY DEF OnLanes
<1>3. \A k \in V : f[k] = x[k]
  BY DEF OnLanes
<1>4. IsFiniteSet(S) /\ IsFiniteSet(V) /\ V \in SUBSET S
  BY ListsAreFinite, FS_Subset
<1>5. Total(f, S) = Total(x, V)
  <2> HIDE DEF f, V
  <2> QED
    BY <1>1, <1>2, <1>3, <1>4, TotalIgnoresZeros, TotalAgrees
<1> QED
  BY <1>5

\* The demand of a location that is listed once.
LEMMA DemandOfEntry ==
  ASSUME TypeOK, LocationsAreDistinct, NEW i \in Entries
  PROVE  DemandOf(request.demands[i].location) = request.demands[i].units
<1>1. {j \in Entries : request.demands[j].location = request.demands[i].location} = {i}
  BY DEF LocationsAreDistinct
<1>2. Max({i}) = i
  BY RequestTyped DEF Max
<1> QED
  BY <1>1, <1>2, Zenon DEF DemandOf

-----------------------------------------------------------------------------
\* No warehouse ships more than it has, an inactive one nothing, and no lane carries
\* more than its cap.
LEMMA PlansKeepCapacity == ASSUME IInv PROVE CapacityRespected
<1> SUFFICES ASSUME HasPlan
             PROVE  /\ \A w \in DOMAIN request.capacity :
                         Total(plan.units, {k \in Lanes : LaneOf(k).warehouse = w})
                           <= request.capacity[w]
                    /\ \A k \in Lanes : ~Usable(k) => plan.units[k] = 0
                    /\ LocationsAreDistinct =>
                         \A k \in Lanes : LaneOf(k).cap # NoCap => plan.units[k] <= LaneOf(k).cap
  BY DEF CapacityRespected
<1> USE DEF IInv
<1>1. CASE plan = HeuristicPlan
  <2> DEFINE units == [k \in Lanes |-> ShippedOver(k)]
  <2>1. plan.units = units
    BY <1>1, HeuristicFields
  <2>2. ASSUME NEW w \in DOMAIN request.capacity
        PROVE  Total(units, {k \in Lanes : LaneOf(k).warehouse = w}) <= request.capacity[w]
    <3> DEFINE from == {k \in Lanes : LaneOf(k).warehouse = w}
    <3>1. Total(units, from) + remaining[w] = request.capacity[w] /\ remaining[w] \in Nat
      BY DEF StockIsAccountedFor, TypeOK
    <3>2. Total(units, from) \in Nat
      <4>1. IsFiniteSet(from) /\ \A k \in from : units[k] \in Nat
        BY ListsAreFinite, ShippedIsNat
      <4> HIDE DEF units, from
      <4> QED
        BY <4>1, TotalNat
    <3> SUFFICES Total(units, from) <= request.capacity[w]
      OBVIOUS
    <3> HIDE DEF units, from
    <3> QED
      BY <3>1, <3>2, RequestTyped
  <2>3. ASSUME NEW k \in Lanes, ~Usable(k)
        PROVE  units[k] = 0
    <3>1. \A i \in Entries : [j \in Entries |-> shipped[j][k]][i] = 0
      BY <2>3 DEF AllocationsServeTheirEntry, LanesTo
    <3> QED
      BY <3>1, ListsAreFinite, TotalIsZero DEF ShippedOver
  <2>4. ASSUME LocationsAreDistinct, NEW k \in Lanes, LaneOf(k).cap # NoCap
        PROVE  units[k] <= LaneOf(k).cap
    <3>1. CASE \E i \in Entries : LaneOf(k).location = request.demands[i].location
      BY <2>4, <3>1, ShippedForOneEntry DEF AllocationsAreCapped
    <3>2. CASE ~\E i \in Entries : LaneOf(k).location = request.demands[i].location
      <4>1. \A i \in Entries : [j \in Entries |-> shipped[j][k]][i] = 0
        BY <3>2 DEF AllocationsServeTheirEntry, LanesTo
      <4>2. units[k] = 0
        BY <4>1, ListsAreFinite, TotalIsZero DEF ShippedOver
      <4> QED
        BY <2>4, <4>2, RequestTyped
    <3> QED
      BY <3>1, <3>2
  <2> HIDE DEF units
  <2> QED
    BY <2>1, <2>2, <2>3, <2>4
<1>2. ASSUME NEW x \in Feasible, plan = ExactPlan(x)
      PROVE  /\ \A w \in DOMAIN request.capacity :
                  Total(plan.units, {k \in Lanes : LaneOf(k).warehouse = w})
                    <= request.capacity[w]
             /\ \A k \in Lanes : ~Usable(k) => plan.units[k] = 0
             /\ \A k \in Lanes : LaneOf(k).cap # NoCap => plan.units[k] <= LaneOf(k).cap
  <2>1. plan.units = OnLanes(x)
    BY <1>2, ExactFields
  <2>2. ASSUME NEW w \in DOMAIN request.capacity
        PROVE  Total(OnLanes(x), {k \in Lanes : LaneOf(k).warehouse = w}) <= request.capacity[w]
    <3> DEFINE from == {k \in Lanes : LaneOf(k).warehouse = w}
    <3>1. from \cap Variables = VariablesFrom(w)
      BY VariablesAreLanes DEF VariablesFrom
    <3>2. Total(OnLanes(x), from) = Total(x, from \cap Variables)
      BY UnitsOfVariables
    <3>3. Total(OnLanes(x), from) = Total(x, VariablesFrom(w))
      BY <3>1, <3>2, Zenon
    <3>4. Total(x, VariablesFrom(w)) <= request.capacity[w]
      BY FeasiblePoint DEF FitsCapacity
    <3> QED
      BY <3>3, <3>4
  <2>3. \A k \in Lanes : ~Usable(k) => OnLanes(x)[k] = 0
    BY VariablesAreLanes DEF OnLanes
  <2>4. \A k \in Lanes : LaneOf(k).cap # NoCap => OnLanes(x)[k] <= LaneOf(k).cap
    BY FeasiblePoint, RequestTyped DEF OnLanes, UpperBound
  <2> QED
    BY <2>1, <2>2, <2>3, <2>4
<1> QED
  BY <1>1, <1>2 DEF PlanIsOfItsMethod

\* Capacities and caps are respected in every reachable state, by either method.
THEOREM CapacityIsRespected == Spec => []CapacityRespected
BY PlansKeepCapacity, Invariance, PTL

\* The demand, location by location or entry by entry.
LEMMA DemandByLocation ==
  ASSUME TypeOK, LocationsAreDistinct
  PROVE  \A f : (\A l \in Demanded : f[l] \in Int) =>
           Total(f, Demanded) = Total([i \in Entries |-> f[request.demands[i].location]], Entries)
<1> SUFFICES ASSUME NEW f, \A l \in Demanded : f[l] \in Int
             PROVE  Total(f, Demanded)
                      = Total([i \in Entries |-> f[request.demands[i].location]], Entries)
  OBVIOUS
<1> DEFINE h == [i \in Entries |-> request.demands[i].location]
<1>1. \A i \in Entries : f[h[i]] \in Int
  BY DEF Demanded
<1>2. \A i, j \in Entries : h[i] = h[j] => i = j
  BY DEF LocationsAreDistinct
<1>3. Demanded = {h[i] : i \in Entries}
  BY DEF Demanded
<1>4. [i \in Entries |-> f[request.demands[i].location]] = [i \in Entries |-> f[h[i]]]
  OBVIOUS
<1> HIDE DEF h
<1>5. Total(f, {h[i] : i \in Entries}) = Total([i \in Entries |-> f[h[i]]], Entries)
  BY <1>1, <1>2, ListsAreFinite, TotalRenamed
<1> QED
  BY <1>3, <1>4, <1>5, Zenon

\* Shipments and the unmet demand add up to the demand, no location gets more than it
\* asked for, and where demand must be met, a feasible plan meets it.
LEMMA PlansAccountForDemand == ASSUME IInv PROVE DemandIsAccountedFor
<1> SUFFICES ASSUME HasPlan, LocationsAreDistinct
             PROVE  /\ \A i \in Entries :
                         UnitsTo(request.demands[i].location) <= request.demands[i].units
                    /\ Total([l \in Demanded |-> UnitsTo(l)], Demanded) + plan.unmet = TotalDemand
                    /\ plan.feasible /\ ~request.allowUnmet => plan.unmet = 0
  BY DEF DemandIsAccountedFor
<1> USE DEF IInv
<1> DEFINE units == [i \in Entries |-> request.demands[i].units]
           to == [i \in Entries |-> UnitsTo(request.demands[i].location)]
           left == [i \in Entries |-> units[i] - to[i]]
<1>1. \A i \in Entries : units[i] \in Nat
  BY RequestTyped
\* It is enough to account for each entry.
<1>2. ASSUME \A i \in Entries : to[i] \in Nat, plan.unmet = Total(left, Entries)
      PROVE  Total([l \in Demanded |-> UnitsTo(l)], Demanded) + plan.unmet = TotalDemand
  <2> DEFINE f == [l \in Demanded |-> UnitsTo(l)]
  <2>1. \A l \in Demanded : f[l] \in Int
    BY <1>2 DEF Demanded
  <2>2. [i \in Entries |-> f[request.demands[i].location]] = to
    BY DEF Demanded
  <2>3. \A i \in Entries : to[i] \in Int /\ left[i] \in Int /\ units[i] = to[i] + left[i]
    BY <1>1, <1>2
  <2>4. TotalDemand = Total(units, Entries)
    BY DEF TotalDemand
  <2> SUFFICES Total(f, Demanded) + plan.unmet = TotalDemand
    OBVIOUS
  <2> HIDE DEF f, to, left, units
  <2>5. Total(f, Demanded) = Total(to, Entries)
    <3>1. Total(f, Demanded) = Total([i \in Entries |-> f[request.demands[i].location]], Entries)
      BY <2>1, DemandByLocation
    <3> QED
      BY <2>2, <3>1, Zenon
  <2>6. Total(units, Entries) = Total(to, Entries) + Total(left, Entries)
    BY <2>3, ListsAreFinite, TotalPlus
  <2> QED
    BY <1>2, <2>4, <2>5, <2>6
<1>3. CASE entry = Len(request.demands) /\ plan = HeuristicPlan
  <2>1. \A i \in Entries : to[i] = Total(shipped[i], Lanes)
    BY <1>3, HeuristicFields, ShippedToOneEntry, Zenon DEF UnitsTo
  <2>2. \A i \in Entries : Total(shipped[i], Lanes) \in Nat
    BY ListsAreFinite, TotalNat DEF TypeOK
  <2>3. pc # "lanes"
    BY DEF PlanIsOfItsMethod, HasPlan, NoPlan
  <2>4. \A i \in Entries : to[i] + short[i] = units[i] /\ short[i] \in Nat
    BY <1>3, <2>1, <2>3, RequestTyped DEF NeedIsAccountedFor, TypeOK
  <2>5. plan.unmet = Total(short, Entries)
    BY <1>3, HeuristicFields
  <2>6. \A i \in Entries : to[i] \in Nat
    BY <2>1, <2>2
  <2>7. \A i \in Entries : left[i] = short[i]
    BY <1>1, <2>4, <2>6
  <2>8. \A i \in Entries : to[i] <= request.demands[i].units
    BY <1>1, <2>4, <2>6
  <2> HIDE DEF left, units
  <2>9. plan.unmet = Total(left, Entries)
    BY <2>5, <2>7, ListsAreFinite, TotalAgrees
  <2> QED
    BY <1>2, <1>3, <2>6, <2>8, <2>9, HeuristicFields
<1>4. ASSUME NEW x \in Feasible, plan = ExactPlan(x)
      PROVE  /\ \A i \in Entries :
                  UnitsTo(request.demands[i].location) <= request.demands[i].units
             /\ Total([l \in Demanded |-> UnitsTo(l)], Demanded) + plan.unmet = TotalDemand
             /\ plan.feasible /\ ~request.allowUnmet => plan.unmet = 0
  <2>1. ASSUME NEW l \in Demanded PROVE UnitsTo(l) = Total(x, VariablesTo(l))
    <3> DEFINE S == {k \in Lanes : LaneOf(k).location = l}
    <3>1. S \cap Variables = VariablesTo(l)
      BY VariablesAreLanes DEF VariablesTo
    <3>2. UnitsTo(l) = Total(x, S \cap Variables)
      BY <1>4, ExactFields, UnitsOfVariables DEF UnitsTo
    <3> QED
      BY <3>1, <3>2, Zenon
  <2>2. ASSUME NEW l \in Demanded PROVE Total(x, VariablesTo(l)) \in Nat
    <3>1. IsFiniteSet(VariablesTo(l)) /\ \A k \in VariablesTo(l) : x[k] \in Nat
      BY VariablesAreLanes, ListsAreFinite, FeasiblePoint, FS_Subset
    <3> QED
      BY <3>1, TotalNat
  <2>3. \A i \in Entries : request.demands[i].location \in Demanded
    BY DEF Demanded
  <2>4. \A i \in Entries : to[i] \in Nat /\ to[i] = Total(x, VariablesTo(request.demands[i].location))
    BY <2>1, <2>2, <2>3
  <2>5. \A i \in Entries : IF request.allowUnmet THEN to[i] <= units[i] ELSE to[i] = units[i]
    BY <2>3, <2>4, FeasiblePoint, DemandOfEntry DEF MeetsDemand
  <2>6. plan.unmet = Total(left, Entries)
    <3>1. CASE request.allowUnmet
      <4> DEFINE f == [l \in Demanded |-> DemandOf(l) - Total(x, VariablesTo(l))]
      <4>1. plan.unmet = Total(f, Demanded)
        BY <1>4, <3>1, ExactFields DEF Unmet
      <4>2. [i \in Entries |-> f[request.demands[i].location]] = left
        BY <2>3, <2>4, DemandOfEntry
      <4>3. \A l \in Demanded : f[l] \in Int
        BY <1>1, <2>2, DemandOfEntry DEF Demanded
      <4> HIDE DEF f, left
      <4>4. Total(f, Demanded) = Total([i \in Entries |-> f[request.demands[i].location]], Entries)
        BY <4>3, DemandByLocation
      <4> QED
        BY <4>1, <4>2, <4>4, Zenon
    <3>2. CASE ~request.allowUnmet
      <4>1. \A i \in Entries : left[i] = 0
        BY <1>1, <2>4, <2>5, <3>2
      <4> HIDE DEF left
      <4> QED
        BY <1>4, <3>2, <4>1, ExactFields, ListsAreFinite, TotalIsZero
    <3> QED
      BY <3>1, <3>2
  <2>7. Total([l \in Demanded |-> UnitsTo(l)], Demanded) + plan.unmet = TotalDemand
    BY <1>2, <2>4, <2>6
  <2>8. \A i \in Entries : to[i] <= units[i]
    BY <1>1, <2>4, <2>5
  <2> QED
    BY <1>4, <2>7, <2>8, ExactFields
<1> QED
  BY <1>3, <1>4 DEF PlanIsOfItsMethod

\* Demand is accounted for in every reachable state, by either method.
THEOREM AllDemandIsAccountedFor == Spec => []DemandIsAccountedFor
BY PlansAccountForDemand, Invariance, PTL

\* A bound of a variable is one of the bounds.
LEMMA BoundsAreBounded ==
  ASSUME TypeOK, NEW k \in Variables
  PROVE  /\ UpperBound(k) \in Nat
         /\ UpperBound(k) <= Max({0} \cup {UpperBound(j) : j \in Variables})
         /\ Max({0} \cup {UpperBound(j) : j \in Variables}) \in Int
<1> DEFINE at == [j \in Variables |-> UpperBound(j)]
           B == {UpperBound(j) : j \in Variables}
<1>1. \A j \in Variables : UpperBound(j) \in Nat
  BY VariablesAreLanes, RequestTyped DEF UpperBound, Usable
<1>2. IsFiniteSet(B)
  <2>1. IsFiniteSet(Variables)
    BY VariablesAreLanes, ListsAreFinite
  <2>2. at \in Surjection(Variables, B)
    BY DEF Surjection
  <2> HIDE DEF at, B
  <2> QED
    BY <2>1, <2>2, FS_Surjection
<1>3. B \subseteq Nat /\ UpperBound(k) \in B
  BY <1>1
<1>4. IsFiniteSet({0} \cup B) /\ {0} \cup B \subseteq Int /\ {0} \cup B # {}
  <2>1. IsFiniteSet(B \cup {0})
    BY <1>2, FS_AddElement
  <2>2. B \cup {0} = {0} \cup B
    OBVIOUS
  <2>3. IsFiniteSet({0} \cup B)
    BY <2>1, <2>2, Zenon
  <2> QED
    BY <1>3, <2>3
<1>5. Max({0} \cup B) \in {0} \cup B /\ \A y \in {0} \cup B : y <= Max({0} \cup B)
  <2> HIDE DEF B
  <2> QED
    BY <1>4, MaxOfFinite
<1> QED
  BY <1>1, <1>3, <1>5

\* Where each id means one thing, a feasible plan of the heuristic is a feasible point
\* of the LP, with the unmet demand it reports.  (Without variables too: the empty
\* point, although the code does not ask the LP then.)
LEMMA FallbackPointFits ==
  ASSUME IInv, HasPlan, plan.method = "heuristic", plan.feasible,
         LanesAreDistinct, LocationsAreDistinct
  PROVE  LET x == [k \in Variables |-> plan.units[k]]
         IN  x \in Feasible /\ Unmet(x) = plan.unmet
<1> USE DEF IInv
<1> DEFINE units == [k \in Lanes |-> ShippedOver(k)]
           x == [k \in Variables |-> plan.units[k]]
<1>1. plan = HeuristicPlan /\ entry = Len(request.demands)
  BY ExactFields DEF PlanIsOfItsMethod
<1>2. plan.units = units /\ plan.unmet = Total(short, Entries)
  BY <1>1, HeuristicFields
<1>3. Variables = {k \in Lanes : Usable(k)}
  <2>1. \A j, k \in Lanes : j > k => j # k
    BY RequestTyped
  <2> QED
    BY <2>1 DEF Variables, LanesAreDistinct
<1>4. \A k \in Variables : k \in Lanes /\ Usable(k) /\ x[k] = units[k] /\ x[k] \in Nat
  BY <1>2, <1>3, ShippedIsNat
<1>5. \A w \in DOMAIN request.capacity : FitsCapacity(x, w)
  <2> SUFFICES ASSUME NEW w \in DOMAIN request.capacity PROVE FitsCapacity(x, w)
    OBVIOUS
  <2> DEFINE from == {k \in Lanes : LaneOf(k).warehouse = w}
  <2>1. Total(units, from) <= request.capacity[w]
    BY <1>2, PlansKeepCapacity DEF CapacityRespected
  <2>2. from = VariablesFrom(w)
    BY <1>3 DEF VariablesFrom, Usable
  <2>3. Total(x, VariablesFrom(w)) = Total(units, VariablesFrom(w))
    <3>1. \A k \in VariablesFrom(w) : x[k] = units[k]
      BY <1>4 DEF VariablesFrom
    <3>2. IsFiniteSet(VariablesFrom(w))
      BY VariablesAreLanes, ListsAreFinite, FS_Subset
    <3> HIDE DEF x, units
    <3> QED
      BY <3>1, <3>2, TotalAgrees
  <2>4. Total(units, from) = Total(units, VariablesFrom(w))
    BY <2>2, Zenon
  <2> HIDE DEF x, units, from
  <2> QED
    BY <2>1, <2>3, <2>4 DEF FitsCapacity
<1>6. \A k \in Variables : x[k] <= UpperBound(k)
  <2> SUFFICES ASSUME NEW k \in Variables PROVE x[k] <= UpperBound(k)
    OBVIOUS
  <2>1. CASE LaneOf(k).cap # NoCap
    BY <1>2, <1>4, <2>1, PlansKeepCapacity DEF CapacityRespected, UpperBound
  <2>2. CASE LaneOf(k).cap = NoCap
    <3> DEFINE w == LaneOf(k).warehouse
    <3>1. w \in DOMAIN request.capacity /\ k \in VariablesFrom(w)
      BY <1>4 DEF VariablesFrom, Usable
    <3>2. Total(x, VariablesFrom(w)) <= request.capacity[w]
      BY <1>5, <3>1 DEF FitsCapacity
    <3>3. x[k] <= Total(x, VariablesFrom(w)) /\ Total(x, VariablesFrom(w)) \in Nat
      <4>1. IsFiniteSet(VariablesFrom(w)) /\ \A j \in VariablesFrom(w) : x[j] \in Nat
        BY <1>4, VariablesAreLanes, ListsAreFinite, FS_Subset
      <4> HIDE DEF x, w
      <4> QED
        BY <3>1, <4>1, TotalElement, TotalNat
    <3>4. UpperBound(k) = request.capacity[w] /\ request.capacity[w] \in Nat
      BY <2>2, <3>1, RequestTyped DEF UpperBound
    <3>5. x[k] \in Nat
      BY <1>4
    <3> HIDE DEF x, w
    <3> QED
      BY <3>2, <3>3, <3>4, <3>5
  <2> QED
    BY <2>1, <2>2
<1>7. ASSUME NEW i \in Entries
      PROVE  LET l == request.demands[i].location
             IN  /\ Total(x, VariablesTo(l)) = Total(shipped[i], Lanes)
                 /\ DemandOf(l) = request.demands[i].units
  <2> DEFINE l == request.demands[i].location
             S == {k \in Lanes : LaneOf(k).location = l}
  <2>1. Total(units, S) = Total(shipped[i], Lanes)
    BY ShippedToOneEntry
  <2>2. VariablesTo(l) \in SUBSET S /\ \A k \in S \ VariablesTo(l) : units[k] = 0
    <3>1. \A k \in Lanes : ~Usable(k) => units[k] = 0
      BY <1>2, PlansKeepCapacity DEF CapacityRespected
    <3> QED
      BY <1>3, <3>1 DEF VariablesTo
  <2>3. \A k \in S : units[k] \in Int
    BY ShippedIsNat
  <2>4. IsFiniteSet(S) /\ IsFiniteSet(VariablesTo(l))
    BY <2>2, ListsAreFinite, FS_Subset
  <2>5. \A k \in VariablesTo(l) : x[k] = units[k]
    BY <1>4 DEF VariablesTo
  <2>6. Total(x, VariablesTo(l)) = Total(units, S)
    <3> HIDE DEF x, units, S, l
    <3> QED
      BY <2>2, <2>3, <2>4, <2>5, TotalIgnoresZeros, TotalAgrees
  <2> QED
    BY <2>1, <2>6, DemandOfEntry
<1>8. \A i \in Entries : /\ Total(shipped[i], Lanes) + short[i] = request.demands[i].units
                         /\ short[i] \in Nat
                         /\ Total(shipped[i], Lanes) \in Nat
  <2>1. pc # "lanes"
    BY DEF PlanIsOfItsMethod, HasPlan, NoPlan
  <2>2. \A i \in Entries : Total(shipped[i], Lanes) \in Nat
    BY ListsAreFinite, TotalNat DEF TypeOK
  <2> QED
    BY <1>1, <2>1, <2>2, RequestTyped DEF NeedIsAccountedFor, TypeOK
<1>9. \A l \in Demanded : MeetsDemand(x, l)
  <2> SUFFICES ASSUME NEW i \in Entries PROVE MeetsDemand(x, request.demands[i].location)
    BY DEF Demanded
  <2>1. CASE request.allowUnmet
    BY <1>7, <1>8, <2>1, RequestTyped DEF MeetsDemand
  <2>2. CASE ~request.allowUnmet
    <3>1. Total(short, Entries) = 0
      BY <1>1, <1>2, <2>2, HeuristicFields
    <3>2. short[i] = 0
      BY <1>8, <3>1, ListsAreFinite, TotalElement
    <3> QED
      BY <1>7, <1>8, <2>2, <3>2, RequestTyped DEF MeetsDemand
  <2> QED
    BY <2>1, <2>2
<1>10. x \in Feasible
  <2>1. x \in [Variables -> 0..Max({0} \cup {UpperBound(k) : k \in Variables})]
    <3> DEFINE m == Max({0} \cup {UpperBound(k) : k \in Variables})
    <3>1. \A k \in Variables : /\ UpperBound(k) \in Nat
                              /\ UpperBound(k) <= m /\ m \in Int
      BY BoundsAreBounded
    <3> SUFFICES x \in [Variables -> 0..m]
      OBVIOUS
    <3> HIDE DEF m
    <3>2. ASSUME NEW k \in Variables PROVE x[k] \in 0..m
      <4>1. x[k] \in Nat /\ x[k] <= UpperBound(k)
        BY <1>4, <1>6
      <4> HIDE DEF x
      <4> QED
        BY <3>1, <4>1
    <3> QED
      BY <3>2
  <2> HIDE DEF x
  <2> QED
    BY <1>5, <1>6, <1>9, <2>1, Zenon DEF Feasible
<1>11. Unmet(x) = plan.unmet
  <2> DEFINE f == [l \in Demanded |-> DemandOf(l) - Total(x, VariablesTo(l))]
             g == [i \in Entries |-> f[request.demands[i].location]]
  <2>1. \A i \in Entries : g[i] = short[i]
    BY <1>7, <1>8 DEF Demanded
  <2>2. \A l \in Demanded : f[l] \in Int
    BY <1>7, <1>8, RequestTyped DEF Demanded
  <2>3. Unmet(x) = Total(f, Demanded)
    BY DEF Unmet
  <2> HIDE DEF f, x
  <2>4. Total(f, Demanded) = Total(g, Entries)
    BY <2>2, DemandByLocation
  <2> HIDE DEF g
  <2> QED
    BY <1>2, <2>1, <2>3, <2>4, ListsAreFinite, TotalAgrees
<1> QED
  BY <1>10, <1>11

LEMMA FallbacksFit == ASSUME IInv PROVE FallbackPlansFitTheLP
BY FallbackPointFits DEF FallbackPlansFitTheLP

\* The two methods solve the same problem, in every reachable state: where the LP has a
\* variable, the plan of the fallback is one of its points.
THEOREM FallbackFitsTheLP == Spec => []FallbackPlansFitTheLP
BY FallbacksFit, Invariance, PTL

-----------------------------------------------------------------------------
\* With one demand location, cheapest first is optimal.  Let c be the price of the
\* dearest lane used, or the penalty when demand is left unmet.  Cheaper lanes are
\* used to the full and dearer ones not at all, so that on each lane any other
\* shipment is worse by at least c per unit that it differs.

\* A unit more or less on a lane of price p, against the price c.
LEMMA Exchange ==
  ASSUME NEW a \in Nat, NEW b \in Nat, NEW p \in Nat, NEW c \in Nat,
         \/ b <= a /\ p <= c
         \/ a <= b /\ c <= p
         \/ p = c
  PROVE  a * p + c * b <= b * p + c * a
<1>1. CASE b <= a /\ p <= c
  <2>1. PICK e \in Nat : a = b + e
    <3>1. a - b \in Nat /\ a = b + (a - b)
      BY <1>1
    <3> QED
      BY <3>1
  <2>2. e * p <= e * c
    BY <1>1, FactorKeepsOrder
  <2>3. a * p = b * p + e * p /\ c * a = c * b + e * c
    BY <2>1
  <2> QED
    BY <2>2, <2>3
<1>2. CASE a <= b /\ c <= p
  <2>1. PICK e \in Nat : b = a + e
    <3>1. b - a \in Nat /\ b = a + (b - a)
      BY <1>2
    <3> QED
      BY <3>1
  <2>2. e * c <= e * p
    BY <1>2, FactorKeepsOrder
  <2>3. b * p = a * p + e * p /\ c * b = c * a + e * c
    BY <2>1
  <2> QED
    BY <2>2, <2>3
<1>3. CASE p = c
  BY <1>3
<1> QED
  BY <1>1, <1>2, <1>3

\* The exchange argument, summed up.
LEMMA ThresholdSum ==
  ASSUME NEW T, IsFiniteSet(T), NEW x, NEW y, NEW price, NEW c \in Nat,
         \A k \in T : x[k] \in Nat /\ y[k] \in Nat /\ price[k] \in Nat,
         \A k \in T : x[k] * price[k] + c * y[k] <= y[k] * price[k] + c * x[k]
  PROVE  Total([k \in T |-> x[k] * price[k]], T) + c * Total(y, T)
           <= Total([k \in T |-> y[k] * price[k]], T) + c * Total(x, T)
<1> DEFINE px == [k \in T |-> x[k] * price[k]]
           py == [k \in T |-> y[k] * price[k]]
           cx == [k \in T |-> c * x[k]]
           cy == [k \in T |-> c * y[k]]
           left == [k \in T |-> px[k] + cy[k]]
           right == [k \in T |-> py[k] + cx[k]]
<1>1. \A a, b \in Nat : a * b \in Nat
  OBVIOUS
<1>2. \A k \in T : px[k] \in Nat /\ py[k] \in Nat /\ cx[k] \in Nat /\ cy[k] \in Nat
  BY <1>1
<1>3. \A k \in T : cx[k] = c * x[k] /\ cy[k] = c * y[k]
  OBVIOUS
<1>4. \A k \in T : px[k] + cy[k] <= py[k] + cx[k]
  OBVIOUS
<1> SUFFICES Total(px, T) + c * Total(y, T) <= Total(py, T) + c * Total(x, T)
  OBVIOUS
<1> HIDE DEF px, py, cx, cy
<1>5. Total(cx, T) = c * Total(x, T) /\ Total(cy, T) = c * Total(y, T)
  BY <1>3, TotalScaled
<1>6. Total(left, T) = Total(px, T) + Total(cy, T)
  <2>1. \A k \in T : px[k] \in Int /\ cy[k] \in Int /\ left[k] = px[k] + cy[k]
    BY <1>2
  <2> HIDE DEF left
  <2> QED
    BY <2>1, TotalPlus
<1>7. Total(right, T) = Total(py, T) + Total(cx, T)
  <2>1. \A k \in T : py[k] \in Int /\ cx[k] \in Int /\ right[k] = py[k] + cx[k]
    BY <1>2
  <2> HIDE DEF right
  <2> QED
    BY <2>1, TotalPlus
<1>8. Total(left, T) <= Total(right, T)
  <2>1. \A k \in T : left[k] \in Int /\ right[k] \in Int /\ left[k] <= right[k]
    BY <1>2, <1>4
  <2> HIDE DEF left, right
  <2> QED
    BY <2>1, TotalMonotone
<1> QED
  BY <1>5, <1>6, <1>7, <1>8

\* The units of the only entry, lane by lane.
LEMMA OneEntry ==
  ASSUME IInv, LanesAreDistinct, Len(request.demands) = 1
  PROVE  /\ Entries = {1} /\ LocationsAreDistinct
         /\ Variables = {k \in Lanes : Usable(k)}
         /\ VariablesTo(request.demands[1].location) = LanesTo(request.demands[1].location)
         /\ \A k \in Lanes : /\ ShippedOver(k) = shipped[1][k]
                             /\ shipped[1][k] \in Nat
                             /\ k \notin LanesTo(request.demands[1].location) => shipped[1][k] = 0
<1> USE DEF IInv
<1>1. Entries = {1}
  BY RequestTyped
<1>2. LocationsAreDistinct
  BY <1>1 DEF LocationsAreDistinct
<1>3. Variables = {k \in Lanes : Usable(k)}
  <2>1. \A j, k \in Lanes : j > k => j # k
    BY RequestTyped
  <2> QED
    BY <2>1 DEF Variables, LanesAreDistinct
<1>4. ASSUME NEW k \in Lanes
      PROVE  /\ ShippedOver(k) = shipped[1][k]
             /\ shipped[1][k] \in Nat
             /\ k \notin LanesTo(request.demands[1].location) => shipped[1][k] = 0
  <2> DEFINE f == [i \in Entries |-> shipped[i][k]]
  <2>1. f[1] = shipped[1][k] /\ f[1] \in Nat /\ f[1] \in Int
    BY <1>1 DEF TypeOK
  <2>2. ShippedOver(k) = Total(f, {1})
    BY <1>1, Zenon DEF ShippedOver
  <2>3. k \notin LanesTo(request.demands[1].location) => shipped[1][k] = 0
    BY <1>1 DEF AllocationsServeTheirEntry
  <2> HIDE DEF f
  <2>4. Total(f, {1}) = f[1]
    <3>1. \A a : f[a] \in Int => Total(f, {a}) = f[a]
      BY TotalSingle
    <3> QED
      BY <2>1, <3>1, Zenon
  <2> QED
    BY <2>1, <2>2, <2>3, <2>4
<1>5. VariablesTo(request.demands[1].location) = LanesTo(request.demands[1].location)
  BY <1>3 DEF VariablesTo, LanesTo
<1> QED
  BY <1>1, <1>2, <1>3, <1>4, <1>5

\* No feasible point has more on a lane that the heuristic used up.
LEMMA SaturatedIsFull ==
  ASSUME IInv, LanesAreDistinct, Len(request.demands) = 1, NEW y \in Feasible,
         NEW k \in LanesTo(request.demands[1].location), Saturated(1, k)
  PROVE  y[k] <= shipped[1][k]
<1> USE DEF IInv
<1> DEFINE w == LaneOf(k).warehouse
           units == [j \in Lanes |-> ShippedOver(j)]
           from == {j \in Lanes : LaneOf(j).warehouse = w}
<1>1. /\ k \in Variables /\ k \in Lanes /\ w \in DOMAIN request.capacity
      /\ k \in VariablesFrom(w) /\ k \in from
  BY OneEntry DEF LanesTo, Usable, VariablesFrom
<1>2. y[k] \in Nat /\ y[k] <= UpperBound(k)
  BY <1>1, FeasiblePoint
<1>3. CASE shipped[1][k] = LaneOf(k).cap
  <2>1. LaneOf(k).cap # NoCap
    BY <1>1, <1>3, OneEntry, NoCapAssumption
  <2> QED
    BY <1>2, <1>3, <2>1 DEF UpperBound
<1>4. CASE remaining[w] = 0
  <2>1. Total(units, from) = request.capacity[w]
    <3>1. Total(units, from) + remaining[w] = request.capacity[w]
      BY <1>1 DEF StockIsAccountedFor
    <3>2. Total(units, from) \in Nat
      <4>1. IsFiniteSet(from) /\ \A j \in from : units[j] \in Nat
        BY ListsAreFinite, OneEntry
      <4> HIDE DEF units, from
      <4> QED
        BY <4>1, TotalNat
    <3> HIDE DEF units, from
    <3> QED
      BY <1>4, <3>1, <3>2
  <2>2. Total(units, from) = shipped[1][k]
    <3>1. \A j \in from : units[j] \in Int
      BY OneEntry
    <3>2. \A j \in from \ {k} : units[j] = 0
      BY <1>1, OneEntry DEF LanesAreDistinct, LanesTo
    <3>3. units[k] = shipped[1][k]
      BY <1>1, OneEntry
    <3>4. IsFiniteSet(from) /\ {k} \in SUBSET from
      BY <1>1, ListsAreFinite
    <3> HIDE DEF units, from
    <3> QED
      BY <1>1, <3>1, <3>2, <3>3, <3>4, TotalIgnoresZeros, TotalSingle
  <2>3. y[k] <= Total(y, VariablesFrom(w)) /\ Total(y, VariablesFrom(w)) \in Nat
    <3>1. IsFiniteSet(VariablesFrom(w)) /\ \A j \in VariablesFrom(w) : y[j] \in Nat
      BY FeasiblePoint, VariablesAreLanes, ListsAreFinite, FS_Subset
    <3> HIDE DEF w
    <3> QED
      BY <1>1, <3>1, TotalElement, TotalNat
  <2>4. Total(y, VariablesFrom(w)) <= request.capacity[w]
    BY <1>1, FeasiblePoint DEF FitsCapacity
  <2>5. request.capacity[w] = shipped[1][k] /\ request.capacity[w] \in Nat
    BY <1>1, <2>1, <2>2, RequestTyped
  <2> HIDE DEF w
  <2> QED
    BY <1>2, <2>3, <2>4, <2>5
<1> QED
  BY <1>3, <1>4 DEF Saturated

\* The unmet demand and the demand of the only location.
LEMMA OneLocation ==
  ASSUME IInv, LanesAreDistinct, Len(request.demands) = 1, NEW y \in Feasible
  PROVE  LET l == request.demands[1].location
             d == request.demands[1].units
         IN  /\ Total(y, VariablesTo(l)) \in Nat
             /\ Unmet(y) = d - Total(y, VariablesTo(l))
             /\ d \in Nat \ {0}
             /\ IF request.allowUnmet THEN Total(y, VariablesTo(l)) <= d
                ELSE Total(y, VariablesTo(l)) = d
<1> USE DEF IInv
<1> DEFINE l == request.demands[1].location
           d == request.demands[1].units
           f == [m \in Demanded |-> DemandOf(m) - Total(y, VariablesTo(m))]
<1>1. Demanded = {l} /\ 1 \in Entries
  BY OneEntry DEF Demanded
<1>2. Total(y, VariablesTo(l)) \in Nat
  <2>1. IsFiniteSet(VariablesTo(l)) /\ \A k \in VariablesTo(l) : y[k] \in Nat
    BY FeasiblePoint, VariablesAreLanes, ListsAreFinite, FS_Subset
  <2> HIDE DEF l
  <2> QED
    BY <2>1, TotalNat
<1>3. DemandOf(l) = d
  BY <1>1, OneEntry, DemandOfEntry
<1>4. d \in Nat \ {0}
  <2>1. request.demands \in Seq([location : Locations, units : Nat \ {0}])
    BY DEF TypeOK, IsRequest
  <2>2. \A i \in 1..Len(request.demands) :
          request.demands[i] \in [location : Locations, units : Nat \ {0}]
    BY <2>1, ElementsOfSeq
  <2> QED
    BY <2>2
<1>5. IF request.allowUnmet THEN Total(y, VariablesTo(l)) <= d ELSE Total(y, VariablesTo(l)) = d
  BY <1>1, <1>3, FeasiblePoint DEF MeetsDemand
<1>6. Unmet(y) = f[l]
  <2>1. Unmet(y) = Total(f, {l})
    BY <1>1, Zenon DEF Unmet
  <2>2. f[l] \in Int
    BY <1>1, <1>2, <1>3, <1>4
  <2>3. \A a : f[a] \in Int => Total(f, {a}) = f[a]
    BY TotalSingle
  <2> QED
    BY <2>1, <2>2, <2>3, Zenon
<1>7. f[l] = d - Total(y, VariablesTo(l))
  BY <1>1, <1>3
<1> QED
  BY <1>2, <1>4, <1>5, <1>6, <1>7

\* The lane that the sort puts last, of those used.
LEMMA LastOfLanes ==
  ASSUME TypeOK, NEW S \in SUBSET Lanes, S # {}
  PROVE  \E m \in S : \A k \in S : k = m \/ Before(k, m)
<1> DEFINE P == {T \in SUBSET S : T = {} \/ \E m \in T : \A k \in T : k = m \/ Before(k, m)}
<1>1. ASSUME NEW T \in SUBSET S, NEW a \in S \ T, T \in P PROVE T \cup {a} \in P
  <2>1. CASE T = {}
    BY <2>1
  <2>2. ASSUME NEW m \in T, \A k \in T : k = m \/ Before(k, m)
        PROVE  \E n \in T \cup {a} : \A k \in T \cup {a} : k = n \/ Before(k, n)
    <3>1. Before(a, m) \/ Before(m, a) \/ a = m
      BY RequestTyped DEF Before
    <3>2. CASE Before(a, m) \/ a = m
      BY <2>2, <3>2
    <3>3. CASE Before(m, a)
      BY <2>2, <3>3, BeforeIsStrict
    <3> QED
      BY <3>1, <3>2, <3>3
  <2> QED
    BY <1>1, <2>1, <2>2
<1>2. S \in P
  <2>1. {} \in P /\ IsFiniteSet(S)
    BY ListsAreFinite
  <2> HIDE DEF P
  <2> QED
    BY <1>1, <2>1, SubsetInduction
<1> QED
  BY <1>2

\* With one demand location, and a penalty that no lane exceeds, the heuristic's plan
\* is an optimum of the LP.
LEMMA CheapestFirstIsOptimal == ASSUME IInv PROVE OneLocationIsOptimal
<1> SUFFICES ASSUME HasPlan, plan.method = "heuristic", plan.feasible, LanesAreDistinct,
                    Len(request.demands) = 1,
                    request.allowUnmet => \A k \in Lanes : LaneOf(k).cost <= request.penalty
             PROVE  Objective([k \in Variables |-> plan.units[k]]) = Best(Feasible)
  BY DEF OneLocationIsOptimal
<1> USE DEF IInv
<1> DEFINE x == [k \in Variables |-> plan.units[k]]
           l == request.demands[1].location
           d == request.demands[1].units
           T == VariablesTo(l)
           price == [k \in Lanes |-> LaneOf(k).cost]
           spent(y) == [k \in Variables |-> y[k] * LaneOf(k).cost]
<1>1. plan = HeuristicPlan /\ entry = Len(request.demands)
  BY ExactFields DEF PlanIsOfItsMethod
<1>2. x \in Feasible /\ Unmet(x) = plan.unmet
  BY OneEntry, FallbackPointFits
<1>3. /\ \A k \in Variables : x[k] = shipped[1][k] /\ x[k] \in Nat
      /\ \A k \in Variables \ T : x[k] = 0
      /\ T = LanesTo(l) /\ T \in SUBSET Variables /\ IsFiniteSet(T) /\ IsFiniteSet(Variables)
      /\ Variables \in SUBSET Lanes
  BY <1>1, HeuristicFields, OneEntry, VariablesAreLanes, ListsAreFinite, FS_Subset
<1>4. \A k \in Lanes : price[k] = LaneOf(k).cost /\ price[k] \in Nat
  BY RequestTyped
<1>5. plan.unmet = short[1] /\ short[1] \in Nat
  <2>1. short[1] \in Nat /\ short[1] \in Int
    BY OneEntry DEF TypeOK
  <2>2. plan.unmet = Total(short, {1})
    BY <1>1, HeuristicFields, OneEntry, Zenon
  <2>3. \A a : short[a] \in Int => Total(short, {a}) = short[a]
    BY TotalSingle
  <2> QED
    BY <2>1, <2>2, <2>3, Zenon
<1>6. \A k \in T : Saturated(1, k) => \A y \in Feasible : y[k] <= x[k]
  BY <1>3, SaturatedIsFull
\* The price of one unit more or less.
<1>7. PICK c \in Nat :
        /\ short[1] > 0 => request.allowUnmet /\ c = request.penalty
        /\ short[1] = 0 /\ request.allowUnmet => c <= request.penalty
        /\ \A y \in Feasible : \A k \in T :
             x[k] * price[k] + c * y[k] <= y[k] * price[k] + c * x[k]
  <2>1. CASE short[1] > 0
    <3>1. request.allowUnmet
      BY <1>1, <1>5, <2>1, HeuristicFields
    <3>2. request.penalty \in Nat
      BY DEF TypeOK, IsRequest
    <3>3. ASSUME NEW y \in Feasible, NEW k \in T
          PROVE  x[k] * price[k] + request.penalty * y[k]
                   <= y[k] * price[k] + request.penalty * x[k]
      <4>1. Saturated(1, k)
        BY <1>3, <2>1, OneEntry DEF ShortfallIsForced
      <4>2. y[k] <= x[k]
        BY <1>6, <4>1
      <4>3. price[k] <= request.penalty /\ price[k] \in Nat
        BY <1>3, <1>4, <3>1
      <4>4. x[k] \in Nat /\ y[k] \in Nat
        BY <1>3, FeasiblePoint
      <4> HIDE DEF x, price
      <4> QED
        BY <3>2, <4>2, <4>3, <4>4, Exchange
    <3> HIDE DEF x, price, T
    <3> QED
      BY <2>1, <3>1, <3>2, <3>3
  <2>2. CASE short[1] = 0
    <3> DEFINE U == {k \in T : x[k] > 0}
    <3>1. U # {}
      <4>1. Total(x, T) = d /\ d # 0
        <5>1. Unmet(x) = 0
          BY <1>2, <1>5, <2>2
        <5>2. Total(x, T) \in Nat /\ Unmet(x) = d - Total(x, T) /\ d \in Nat \ {0}
          BY <1>2, OneLocation
        <5> HIDE DEF x, T, d
        <5> QED
          BY <5>1, <5>2
      <4>2. U = {} => \A k \in T : x[k] = 0
        BY <1>3
      <4> HIDE DEF x, T
      <4> QED
        BY <1>3, <4>1, <4>2, TotalIsZero
    <3>2. U \in SUBSET Lanes
      BY <1>3
    <3>3. PICK m \in U : \A k \in U : k = m \/ Before(k, m)
      <4> HIDE DEF U
      <4> QED
        BY <3>1, <3>2, LastOfLanes
    <3>4. m \in T /\ m \in Lanes /\ x[m] > 0
      BY <3>2
    <3>5. ASSUME NEW y \in Feasible, NEW k \in T
          PROVE  x[k] * price[k] + price[m] * y[k] <= y[k] * price[k] + price[m] * x[k]
      <4>1. /\ x[k] \in Nat /\ y[k] \in Nat /\ price[k] \in Nat /\ price[m] \in Nat
            /\ k \in Lanes /\ m \in Nat /\ k \in Nat
        BY <1>3, <1>4, <3>4, FeasiblePoint, RequestTyped
      <4>2. CASE price[k] < price[m]
        <5>1. Before(k, m)
          BY <1>4, <3>4, <4>1, <4>2 DEF Before
        <5>2. Saturated(1, k)
          BY <1>3, <3>4, <5>1, OneEntry DEF CheapestFirst
        <5>3. y[k] <= x[k]
          BY <1>6, <5>2
        <5> HIDE DEF x, price
        <5> QED
          BY <4>1, <4>2, <5>3, Exchange
      <4>3. CASE price[k] > price[m]
        <5>1. k \notin U
          BY <1>4, <3>3, <3>4, <4>1, <4>3 DEF Before
        <5>2. x[k] = 0
          BY <4>1, <5>1
        <5> HIDE DEF x, price
        <5> QED
          BY <4>1, <4>3, <5>2, Exchange
      <4>4. CASE price[k] = price[m]
        <5> HIDE DEF x, price
        <5> QED
          BY <4>1, <4>4, Exchange
      <4> HIDE DEF x, price
      <4> QED
        BY <4>1, <4>2, <4>3, <4>4
    <3>6. request.allowUnmet => price[m] <= request.penalty
      BY <1>4, <3>4
    <3>7. price[m] \in Nat
      BY <1>4, <3>4
    <3> HIDE DEF x, price, T
    <3> QED
      BY <2>2, <3>5, <3>6, <3>7
  <2> HIDE DEF x, price, T
  <2> QED
    BY <1>5, <2>1, <2>2
<1>8. ASSUME NEW y \in Feasible
      PROVE  Objective(y) \in Int /\ Objective(x) <= Objective(y)
  <2>1. \A a, b \in Nat : a * b \in Nat
    OBVIOUS
  <2>2. \A k \in Variables : y[k] \in Nat /\ LaneOf(k).cost \in Nat
    BY <1>3, <1>4, FeasiblePoint
  <2>3. /\ \A k \in Variables : spent(x)[k] \in Nat /\ spent(y)[k] \in Nat
        /\ \A k \in Variables \ T : spent(x)[k] = 0
    BY <1>3, <2>1, <2>2
  <2>4. Total(spent(x), Variables) = Total(spent(x), T) /\ Total(spent(x), T) \in Nat
    <3> DEFINE s == spent(x)
    <3>1. /\ \A k \in Variables : s[k] \in Nat
          /\ \A k \in Variables \ T : s[k] = 0
      BY <2>3
    <3> HIDE DEF s, T
    <3>2. Total(s, Variables) = Total(s, T) /\ Total(s, T) \in Nat
      BY <1>3, <3>1, TotalIgnoresZeros, TotalNat
    <3> QED
      BY <3>2 DEF s
  <2>5. /\ Total(spent(y), T) <= Total(spent(y), Variables)
        /\ Total(spent(y), T) \in Nat /\ Total(spent(y), Variables) \in Nat
    <3> DEFINE s == spent(y)
    <3>1. \A k \in Variables : s[k] \in Nat
      BY <2>3
    <3> HIDE DEF s, T
    <3>2. Total(s, T) <= Total(s, Variables) /\ Total(s, T) \in Nat /\ Total(s, Variables) \in Nat
      BY <1>3, <3>1, TotalSubset, TotalNat
    <3> QED
      BY <3>2 DEF s
  <2>6. Total(spent(x), T) + c * Total(y, T) <= Total(spent(y), T) + c * Total(x, T)
    <3> DEFINE sx == [k \in T |-> x[k] * price[k]]
               sy == [k \in T |-> y[k] * price[k]]
    <3>1. \A k \in T : spent(x)[k] = sx[k] /\ spent(y)[k] = sy[k]
      BY <1>3
    <3>2. Total(spent(x), T) = Total(sx, T) /\ Total(spent(y), T) = Total(sy, T)
      <4> DEFINE fx == spent(x)
                 fy == spent(y)
      <4>1. \A k \in T : fx[k] = sx[k] /\ fy[k] = sy[k]
        BY <3>1
      <4> HIDE DEF sx, sy, T, fx, fy
      <4>2. Total(fx, T) = Total(sx, T) /\ Total(fy, T) = Total(sy, T)
        BY <1>3, <4>1, TotalAgrees
      <4> QED
        BY <4>2 DEF fx, fy
    <3>3. \A k \in T : x[k] \in Nat /\ y[k] \in Nat /\ price[k] \in Nat
      BY <1>3, <1>4, <2>2
    <3>4. Total(sx, T) + c * Total(y, T) <= Total(sy, T) + c * Total(x, T)
      <4> HIDE DEF x, price, T
      <4> QED
        BY <1>3, <1>7, <3>3, ThresholdSum
    <3> QED
      BY <3>2, <3>4
  <2>7. /\ LaneCosts(x, Variables) = Total(spent(x), Variables)
        /\ LaneCosts(y, Variables) = Total(spent(y), Variables)
    BY Zenon DEF LaneCosts
  <2>8. /\ Total(x, T) \in Nat /\ Total(y, T) \in Nat /\ d \in Nat
        /\ Unmet(x) = d - Total(x, T) /\ Unmet(y) = d - Total(y, T)
        /\ IF request.allowUnmet THEN Total(y, T) <= d ELSE Total(y, T) = d
        /\ IF request.allowUnmet THEN Total(x, T) <= d ELSE Total(x, T) = d
    BY <1>2, OneLocation
  <2>9. request.penalty \in Nat
    BY DEF TypeOK, IsRequest
  <2>10. short[1] = d - Total(x, T)
    BY <1>2, <1>5, <2>8
  <2> HIDE DEF x, T, d, spent
  <2>11. CASE ~request.allowUnmet
    BY <2>4, <2>5, <2>6, <2>7, <2>8, <2>11 DEF Objective
  <2>12. CASE request.allowUnmet
    <3> DEFINE p == request.penalty
               X == Total(x, T)
               Y == Total(y, T)
    <3>1. c * (X - Y) <= p * (X - Y)
      <4>1. CASE short[1] > 0
        <5>1. c = p
          BY <1>7, <4>1
        <5>2. X - Y \in Int
          BY <2>8
        <5> HIDE DEF X, Y, p
        <5> QED
          BY <5>1, <5>2
      <4>2. CASE short[1] = 0
        <5>1. X - Y \in Nat /\ c <= p
          BY <1>7, <2>8, <2>10, <2>12, <4>2
        <5> HIDE DEF X, Y, p
        <5> QED
          BY <2>9, <5>1, FactorKeepsOrder DEF p
      <4> QED
        BY <1>5, <4>1, <4>2
    <3>2. Objective(x) = Total(spent(x), T) + p * (d - X)
      BY <2>4, <2>7, <2>8, <2>12 DEF Objective
    <3>3. Objective(y) = Total(spent(y), Variables) + p * (d - Y)
      BY <2>7, <2>8, <2>12 DEF Objective
    <3>4. p \in Nat /\ X \in Nat /\ Y \in Nat /\ d \in Nat
      BY <2>8, <2>9
    <3> HIDE DEF p, X, Y
    <3>5. Total(spent(x), T) + c * Y <= Total(spent(y), T) + c * X
      BY <2>6 DEF X, Y
    <3> QED
      BY <2>4, <2>5, <3>1, <3>2, <3>3, <3>4, <3>5
  <2> QED
    BY <2>11, <2>12
<1>9. Objective(x) = Best(Feasible)
  <2> DEFINE S == {Objective(y) : y \in Feasible}
  <2>1. S \subseteq Int /\ Objective(x) \in S /\ \A v \in S : Objective(x) <= v
    BY <1>2, <1>8
  <2>2. Best(Feasible) = Min(S)
    BY DEF Best
  <2> HIDE DEF S, x
  <2> QED
    BY <2>1, <2>2, MinIs
<1> QED
  BY <1>9

\* The heuristic is optimal for one location, in every reachable state.
THEOREM OneLocationOptimal == Spec => []OneLocationIsOptimal
BY CheapestFirstIsOptimal, Invariance, PTL

-----------------------------------------------------------------------------
\* Where there is no feasible point, a set of locations proves it: the max-flow min-cut
\* condition.  The argument goes by bounds on the lanes instead of flows: as long as no
\* set of locations asks for more than can be brought to it, lower the bounds; when no
\* bound can be lowered any more, the bounds themselves meet all demands.

\* What the lanes from warehouse w to the locations of S carry when each carries u, what
\* the warehouse can bring of it, what all can, and what these locations ask for.
CarriedTo(u, w, S) == Total(u, {k \in VariablesFrom(w) : LaneOf(k).location \in S})
Brought(u, w, S) ==
  IF CarriedTo(u, w, S) <= request.capacity[w] THEN CarriedTo(u, w, S) ELSE request.capacity[w]
AllBrought(u, S) == Total([w \in DOMAIN request.capacity |-> Brought(u, w, S)], DOMAIN request.capacity)
Wanted(S) == Total([l \in Demanded |-> DemandOf(l)], S)

\* Bounds on the lanes are enough when no set of locations asks for more than can be
\* brought to it; such a set is tight when it asks for all of it.
Bounds == [Variables -> Nat]
Enough(u) == \A S \in SUBSET Demanded : Wanted(S) <= AllBrought(u, S)
Tight(u) == {S \in SUBSET Demanded : Wanted(S) = AllBrought(u, S)}

LEMMA DemandsAreNat ==
  ASSUME TypeOK
  PROVE  \A l \in Demanded : DemandOf(l) \in Nat \ {0}
<1> TAKE l \in Demanded
<1> DEFINE I == {i \in Entries : request.demands[i].location = l}
<1>1. IsFiniteSet(I) /\ I # {} /\ I \subseteq Int
  BY ListsAreFinite, RequestTyped, FS_Subset DEF Demanded
<1>2. Max(I) \in I
  <2> HIDE DEF I
  <2> QED
    BY <1>1, MaxOfFinite
<1>3. request.demands[Max(I)] \in [location : Locations, units : Nat \ {0}]
  <2>1. request.demands \in Seq([location : Locations, units : Nat \ {0}])
    BY DEF TypeOK, IsRequest
  <2> QED
    BY <1>2, <2>1, RequestTyped, ElementsOfSeq
<1> QED
  BY <1>3 DEF DemandOf

\* The sets and the numbers of the setting.
LEMMA CutsTyped ==
  ASSUME TypeOK, NEW u \in Bounds
  PROVE  /\ IsFiniteSet(Demanded) /\ IsFiniteSet(DOMAIN request.capacity)
         /\ \A w, S : /\ IsFiniteSet({k \in VariablesFrom(w) : LaneOf(k).location \in S})
                      /\ CarriedTo(u, w, S) \in Nat
         /\ \A w \in DOMAIN request.capacity : \A S : Brought(u, w, S) \in Nat
         /\ \A S : AllBrought(u, S) \in Nat
         /\ \A S \in SUBSET Demanded : Wanted(S) \in Nat
<1>1. IsFiniteSet(Demanded) /\ IsFiniteSet(DOMAIN request.capacity) /\ IsFiniteSet(Variables)
  BY ListsAreFinite, VariablesAreLanes DEF TypeOK, IsRequest
<1>2. ASSUME NEW w, NEW S
      PROVE  /\ IsFiniteSet({k \in VariablesFrom(w) : LaneOf(k).location \in S})
             /\ CarriedTo(u, w, S) \in Nat
  <2> DEFINE R == {k \in VariablesFrom(w) : LaneOf(k).location \in S}
  <2>1. R \subseteq Variables /\ \A k \in R : u[k] \in Nat
    BY DEF VariablesFrom, Bounds
  <2>2. IsFiniteSet(R)
    BY <1>1, <2>1, FS_Subset
  <2> QED
    BY <2>1, <2>2, TotalNat DEF CarriedTo
<1>3. \A w \in DOMAIN request.capacity : request.capacity[w] \in Nat
  BY RequestTyped
<1>4. \A w \in DOMAIN request.capacity : \A S : Brought(u, w, S) \in Nat
  BY <1>2, <1>3 DEF Brought
<1>5. ASSUME NEW S PROVE AllBrought(u, S) \in Nat
  <2> DEFINE f == [w \in DOMAIN request.capacity |-> Brought(u, w, S)]
  <2>1. \A w \in DOMAIN request.capacity : f[w] \in Nat
    BY <1>4
  <2> HIDE DEF f
  <2>2. Total(f, DOMAIN request.capacity) \in Nat
    BY <1>1, <2>1, TotalNat
  <2> QED
    BY <2>2 DEF f, AllBrought
<1>6. ASSUME NEW S \in SUBSET Demanded PROVE Wanted(S) \in Nat
  <2> DEFINE f == [l \in Demanded |-> DemandOf(l)]
  <2>1. \A l \in S : f[l] \in Nat
    BY DemandsAreNat
  <2>2. IsFiniteSet(S)
    BY <1>1, FS_Subset
  <2> HIDE DEF f
  <2>3. Total(f, S) \in Nat
    BY <2>1, <2>2, TotalNat
  <2> QED
    BY <2>3 DEF f, Wanted
<1> QED
  BY <1>1, <1>2, <1>4, <1>5, <1>6

\* What is carried to two sets of locations adds up to that of union and intersection.
LEMMA CarriedIsModular ==
  ASSUME TypeOK, NEW u \in Bounds, NEW S, NEW T, NEW w
  PROVE  CarriedTo(u, w, S \cup T) + CarriedTo(u, w, S \cap T)
           = CarriedTo(u, w, S) + CarriedTo(u, w, T)
<1> DEFINE R(U) == {k \in VariablesFrom(w) : LaneOf(k).location \in U}
<1>1. R(S \cup T) = R(S) \cup R(T) /\ R(S \cap T) = R(S) \cap R(T)
  OBVIOUS
<1>2. IsFiniteSet(R(S)) /\ IsFiniteSet(R(T))
  BY CutsTyped
<1>3. \A k \in R(S) \cup R(T) : u[k] \in Int
  BY DEF Bounds, VariablesFrom
<1>4. \A U : CarriedTo(u, w, U) = Total(u, R(U))
  BY DEF CarriedTo
<1> HIDE DEF R
<1>5. Total(u, R(S) \cup R(T)) + Total(u, R(S) \cap R(T)) = Total(u, R(S)) + Total(u, R(T))
  BY <1>2, <1>3, TotalUnion
<1> QED
  BY <1>1, <1>4, <1>5

\* So does what they ask for.
LEMMA WantedIsModular ==
  ASSUME TypeOK, NEW S \in SUBSET Demanded, NEW T \in SUBSET Demanded
  PROVE  Wanted(S \cup T) + Wanted(S \cap T) = Wanted(S) + Wanted(T)
<1> DEFINE f == [l \in Demanded |-> DemandOf(l)]
<1>1. \A l \in S \cup T : f[l] \in Int
  BY DemandsAreNat
<1>2. IsFiniteSet(S) /\ IsFiniteSet(T)
  BY ListsAreFinite, FS_Subset
<1>3. \A U : Wanted(U) = Total(f, U)
  BY DEF Wanted
<1> HIDE DEF f
<1>4. Total(f, S \cup T) + Total(f, S \cap T) = Total(f, S) + Total(f, T)
  BY <1>1, <1>2, TotalUnion
<1> QED
  BY <1>3, <1>4

\* More locations get no less.
LEMMA CarriedGrows ==
  ASSUME TypeOK, NEW u \in Bounds, NEW S, NEW T, S \subseteq T, NEW w
  PROVE  CarriedTo(u, w, S) <= CarriedTo(u, w, T)
<1> DEFINE R(U) == {k \in VariablesFrom(w) : LaneOf(k).location \in U}
<1>1. R(S) \in SUBSET R(T) /\ IsFiniteSet(R(T)) /\ \A k \in R(T) : u[k] \in Nat
  BY CutsTyped DEF Bounds, VariablesFrom
<1> HIDE DEF R
<1>2. Total(u, R(S)) <= Total(u, R(T))
  BY <1>1, TotalSubset
<1> QED
  BY <1>2 DEF CarriedTo, R

\* A warehouse brings to union and intersection no more than to the two sets.
LEMMA Submodular ==
  ASSUME TypeOK, NEW u \in Bounds, NEW S, NEW T, NEW w \in DOMAIN request.capacity
  PROVE  Brought(u, w, S \cup T) + Brought(u, w, S \cap T) <= Brought(u, w, S) + Brought(u, w, T)
<1> DEFINE s == CarriedTo(u, w, S)
           t == CarriedTo(u, w, T)
           p == CarriedTo(u, w, S \cup T)
           q == CarriedTo(u, w, S \cap T)
           c == request.capacity[w]
<1>1. s \in Nat /\ t \in Nat /\ p \in Nat /\ q \in Nat /\ c \in Nat
  BY CutsTyped, RequestTyped
<1>2. q <= s /\ q <= t /\ s <= p /\ t <= p /\ p + q = s + t
  <2>1. S \cap T \subseteq S /\ S \cap T \subseteq T /\ S \subseteq S \cup T /\ T \subseteq S \cup T
    OBVIOUS
  <2>2. q <= s /\ q <= t /\ s <= p /\ t <= p
    BY <2>1, CarriedGrows
  <2>3. p + q = s + t
    BY CarriedIsModular
  <2> QED
    BY <2>2, <2>3
<1>3. /\ Brought(u, w, S) = IF s <= c THEN s ELSE c
      /\ Brought(u, w, T) = IF t <= c THEN t ELSE c
      /\ Brought(u, w, S \cup T) = IF p <= c THEN p ELSE c
      /\ Brought(u, w, S \cap T) = IF q <= c THEN q ELSE c
  BY DEF Brought
<1> HIDE DEF s, t, p, q, c
<1> QED
  BY <1>1, <1>2, <1>3

\* Union and intersection of tight sets are tight, and no warehouse brings less to them
\* than to the two.
LEMMA TightSetsCombine ==
  ASSUME TypeOK, NEW u \in Bounds, Enough(u), NEW S \in Tight(u), NEW T \in Tight(u)
  PROVE  /\ S \cup T \in Tight(u) /\ S \cap T \in Tight(u)
         /\ \A w \in DOMAIN request.capacity :
              Brought(u, w, S \cup T) + Brought(u, w, S \cap T) = Brought(u, w, S) + Brought(u, w, T)
<1> DEFINE W == DOMAIN request.capacity
           b(U) == [w \in W |-> Brought(u, w, U)]
           before == [w \in W |-> Brought(u, w, S) + Brought(u, w, T)]
           after == [w \in W |-> Brought(u, w, S \cup T) + Brought(u, w, S \cap T)]
<1>1. IsFiniteSet(W) /\ \A U : \A w \in W : b(U)[w] \in Int
  BY CutsTyped
<1>2. \A w \in W : /\ before[w] = b(S)[w] + b(T)[w]
                   /\ after[w] = b(S \cup T)[w] + b(S \cap T)[w]
  OBVIOUS
<1>3. \A w \in W : after[w] \in Int /\ before[w] \in Int /\ after[w] <= before[w]
  <2> TAKE w \in W
  <2>1. Brought(u, w, S \cup T) + Brought(u, w, S \cap T) <= Brought(u, w, S) + Brought(u, w, T)
    BY Submodular
  <2>2. \A U : Brought(u, w, U) \in Nat
    BY CutsTyped
  <2>3. /\ after[w] = Brought(u, w, S \cup T) + Brought(u, w, S \cap T)
        /\ before[w] = Brought(u, w, S) + Brought(u, w, T)
    OBVIOUS
  <2> HIDE DEF W, before, after
  <2> QED
    BY <2>1, <2>2, <2>3
<1>4. \A U : AllBrought(u, U) = Total(b(U), W)
  BY DEF AllBrought
<1>5. S \subseteq Demanded /\ T \subseteq Demanded
  BY DEF Tight
<1>6. \A w \in W : after[w] = before[w] =>
        Brought(u, w, S \cup T) + Brought(u, w, S \cap T) = Brought(u, w, S) + Brought(u, w, T)
  OBVIOUS
<1> HIDE DEF W, b, before, after
<1>7. Total(before, W) = Total(b(S), W) + Total(b(T), W)
  BY <1>1, <1>2, TotalPlus
<1>8. Total(after, W) = Total(b(S \cup T), W) + Total(b(S \cap T), W)
  <2> DEFINE p == b(S \cup T)
             q == b(S \cap T)
  <2>1. \A w \in W : p[w] \in Int /\ q[w] \in Int /\ after[w] = p[w] + q[w]
    BY <1>1, <1>2
  <2> HIDE DEF p, q
  <2>2. Total(after, W) = Total(p, W) + Total(q, W)
    BY <1>1, <2>1, TotalPlus
  <2> QED
    BY <2>2 DEF p, q
<1>9. Total(after, W) <= Total(before, W)
  BY <1>1, <1>3, TotalMonotone
<1>10. Wanted(S \cup T) + Wanted(S \cap T) = Wanted(S) + Wanted(T)
  BY <1>5, WantedIsModular
<1>11. /\ Wanted(S) = AllBrought(u, S) /\ Wanted(T) = AllBrought(u, T)
       /\ Wanted(S \cup T) <= AllBrought(u, S \cup T)
       /\ Wanted(S \cap T) <= AllBrought(u, S \cap T)
  BY <1>5 DEF Tight, Enough
<1>12. /\ \A U : AllBrought(u, U) \in Nat
       /\ \A U \in SUBSET Demanded : Wanted(U) \in Nat
  BY CutsTyped
<1>13. /\ Wanted(S \cup T) = AllBrought(u, S \cup T)
       /\ Wanted(S \cap T) = AllBrought(u, S \cap T)
       /\ Total(before, W) <= Total(after, W)
  BY <1>4, <1>5, <1>7, <1>8, <1>9, <1>10, <1>11, <1>12
<1>14. \A w \in W : after[w] = before[w]
  BY <1>1, <1>3, <1>13, TotalSqueeze
<1> QED
  BY <1>5, <1>6, <1>13, <1>14 DEF Tight, W

\* The empty set is tight.
LEMMA NothingIsTight ==
  ASSUME TypeOK, NEW u \in Bounds
  PROVE  {} \in Tight(u) /\ \A w : CarriedTo(u, w, {}) = 0
<1>1. ASSUME NEW w PROVE CarriedTo(u, w, {}) = 0
  <2>1. {k \in VariablesFrom(w) : LaneOf(k).location \in {}} = {}
    OBVIOUS
  <2> QED
    BY <2>1, TotalEmpty, Zenon DEF CarriedTo
<1>2. \A w \in DOMAIN request.capacity : Brought(u, w, {}) = 0
  BY <1>1, RequestTyped DEF Brought
<1>3. AllBrought(u, {}) = 0
  <2> DEFINE f == [w \in DOMAIN request.capacity |-> Brought(u, w, {})]
  <2>1. \A w \in DOMAIN request.capacity : f[w] = 0
    BY <1>2
  <2> HIDE DEF f
  <2>2. Total(f, DOMAIN request.capacity) = 0
    BY <2>1, CutsTyped, TotalIsZero
  <2> QED
    BY <2>2 DEF f, AllBrought
<1>4. Wanted({}) = 0
  BY TotalEmpty DEF Wanted
<1> QED
  BY <1>1, <1>3, <1>4 DEF Tight

\* Bounds that are enough, none of which can be smaller: a lane that may carry something
\* leads to a tight set to which its warehouse brings all that its lanes can carry.
Lean(u) ==
  \A k \in Variables : u[k] > 0 =>
    \E S \in Tight(u) :
      /\ LaneOf(k).location \in S
      /\ CarriedTo(u, LaneOf(k).warehouse, S) <= request.capacity[LaneOf(k).warehouse]

\* Of lean bounds, the lanes from a warehouse together carry no more than it has.
LEMMA LeanFitsCapacity ==
  ASSUME TypeOK, NEW u \in Bounds, Enough(u), Lean(u), NEW w \in DOMAIN request.capacity
  PROVE  Total(u, VariablesFrom(w)) <= request.capacity[w]
<1> DEFINE c == request.capacity[w]
           V == {k \in VariablesFrom(w) : u[k] > 0}
           P == {K \in SUBSET V : \E S \in Tight(u) : /\ CarriedTo(u, w, S) <= c
                                                      /\ \A k \in K : LaneOf(k).location \in S}
<1>1. c \in Nat
  BY RequestTyped
<1>2. {} \in P
  BY <1>1, NothingIsTight
<1>3. ASSUME NEW K \in SUBSET V, NEW x \in V \ K, K \in P PROVE K \cup {x} \in P
  <2>1. PICK S \in Tight(u) : CarriedTo(u, w, S) <= c /\ \A k \in K : LaneOf(k).location \in S
    BY <1>3
  <2>2. x \in Variables /\ u[x] > 0 /\ LaneOf(x).warehouse = w
    BY <1>3 DEF VariablesFrom
  <2>3. PICK T \in Tight(u) : LaneOf(x).location \in T /\ CarriedTo(u, w, T) <= c
    <3>1. \E T \in Tight(u) :
            /\ LaneOf(x).location \in T
            /\ CarriedTo(u, LaneOf(x).warehouse, T) <= request.capacity[LaneOf(x).warehouse]
      BY <2>2, Zenon DEF Lean
    <3> QED
      BY <2>2, <3>1, Zenon
  <2>4. /\ S \cup T \in Tight(u)
        /\ Brought(u, w, S \cup T) + Brought(u, w, S \cap T) = Brought(u, w, S) + Brought(u, w, T)
    <3> HIDE DEF V, P, c
    <3>1. S \cup T \in Tight(u)
      BY TightSetsCombine
    <3>2. \A v \in DOMAIN request.capacity :
            Brought(u, v, S \cup T) + Brought(u, v, S \cap T) = Brought(u, v, S) + Brought(u, v, T)
      BY TightSetsCombine
    <3> QED
      BY <3>1, <3>2
  <2>5. CarriedTo(u, w, S \cup T) <= c
    <3> DEFINE s == CarriedTo(u, w, S)
               t == CarriedTo(u, w, T)
               p == CarriedTo(u, w, S \cup T)
               q == CarriedTo(u, w, S \cap T)
    <3>1. s \in Nat /\ t \in Nat /\ p \in Nat /\ q \in Nat
      BY CutsTyped
    <3>2. p + q = s + t
      BY CarriedIsModular
    <3>3. S \cap T \subseteq S
      OBVIOUS
    <3>4. q <= s
      BY <3>3, CarriedGrows
    <3>5. /\ Brought(u, w, S) = s /\ Brought(u, w, T) = t
          /\ Brought(u, w, S \cup T) = IF p <= c THEN p ELSE c
          /\ Brought(u, w, S \cap T) = IF q <= c THEN q ELSE c
      BY <2>1, <2>3 DEF Brought
    <3> HIDE DEF s, t, p, q, c
    <3>6. s <= c
      BY <2>1 DEF s
    <3>7. (IF p <= c THEN p ELSE c) + q = s + t
      BY <1>1, <2>4, <3>1, <3>4, <3>5, <3>6
    <3> QED
      BY <1>1, <3>1, <3>2, <3>7 DEF p
  <2>6. \A k \in K \cup {x} : LaneOf(k).location \in S \cup T
    BY <2>1, <2>3
  <2> QED
    BY <2>4, <2>5, <2>6
<1>4. IsFiniteSet(Variables) /\ V \subseteq Variables /\ VariablesFrom(w) \subseteq Variables
  BY ListsAreFinite, VariablesAreLanes DEF VariablesFrom
<1>5. V \in P
  <2>1. IsFiniteSet(V)
    BY <1>4, FS_Subset
  <2> HIDE DEF V, P
  <2> QED
    BY <1>2, <1>3, <2>1, SubsetInduction
<1>6. PICK S \in Tight(u) : CarriedTo(u, w, S) <= c /\ \A k \in V : LaneOf(k).location \in S
  BY <1>5
<1> DEFINE R == {k \in VariablesFrom(w) : LaneOf(k).location \in S}
<1>7. /\ IsFiniteSet(VariablesFrom(w)) /\ R \in SUBSET VariablesFrom(w)
      /\ \A k \in VariablesFrom(w) : u[k] \in Int
      /\ \A k \in VariablesFrom(w) \ R : u[k] = 0
  BY <1>4, <1>6, FS_Subset DEF Bounds
<1> HIDE DEF R
<1>8. Total(u, VariablesFrom(w)) = Total(u, R)
  BY <1>7, TotalIgnoresZeros
<1> QED
  BY <1>6, <1>8 DEF R, CarriedTo

\* A location can be taken out of a set.
LEMMA CarriedSplits ==
  ASSUME TypeOK, NEW u \in Bounds, NEW w, NEW S, NEW l \in S
  PROVE  CarriedTo(u, w, S) = CarriedTo(u, w, S \ {l}) + CarriedTo(u, w, {l})
<1> DEFINE T == S \ {l}
           N == {l}
<1>1. T \cup N = S /\ T \cap N = {}
  OBVIOUS
<1> HIDE DEF T, N
<1>2. CarriedTo(u, w, T \cup N) + CarriedTo(u, w, T \cap N) = CarriedTo(u, w, T) + CarriedTo(u, w, N)
  BY CarriedIsModular
<1>3. CarriedTo(u, w, {}) = 0 /\ CarriedTo(u, w, S) \in Nat
  BY NothingIsTight, CutsTyped
<1>4. CarriedTo(u, w, S) = CarriedTo(u, w, T) + CarriedTo(u, w, N)
  BY <1>1, <1>2, <1>3
<1> QED
  BY <1>4 DEF T, N

\* What is carried to one location, by warehouse.
LEMMA CarriedToOne ==
  ASSUME TypeOK, NEW u \in Bounds, NEW l
  PROVE  Total(u, VariablesTo(l))
           = Total([w \in DOMAIN request.capacity |-> CarriedTo(u, w, {l})], DOMAIN request.capacity)
<1> DEFINE h == [k \in VariablesTo(l) |-> LaneOf(k).warehouse]
           W == DOMAIN request.capacity
           V == VariablesTo(l)
           f == [w \in W |-> Total(u, {k \in V : h[k] = w})]
           g == [w \in W |-> CarriedTo(u, w, {l})]
<1>1. V \subseteq Variables /\ IsFiniteSet(V) /\ IsFiniteSet(W)
  BY ListsAreFinite, VariablesAreLanes, CutsTyped, FS_Subset DEF VariablesTo
<1>2. \A k \in V : u[k] \in Int /\ h[k] \in W
  BY <1>1 DEF Bounds, Variables, Usable
<1>3. \A w \in W : f[w] = g[w]
  <2> TAKE w \in W
  <2>1. {k \in V : h[k] = w} = {k \in VariablesFrom(w) : LaneOf(k).location \in {l}}
    BY DEF VariablesTo, VariablesFrom
  <2> QED
    BY <2>1 DEF CarriedTo
<1>4. f = g
  BY <1>3
<1> HIDE DEF W, V, h
<1>5. Total(u, V) = Total(f, W)
  BY <1>1, <1>2, TotalFibers
<1> QED
  BY <1>4, <1>5 DEF W, V

\* Lean bounds bring to each location what it asks for.
LEMMA LeanMeetsDemand ==
  ASSUME TypeOK, NEW u \in Bounds, Enough(u), Lean(u), NEW l \in Demanded
  PROVE  Total(u, VariablesTo(l)) = DemandOf(l)
<1> DEFINE W == DOMAIN request.capacity
           V == {k \in VariablesTo(l) : u[k] > 0}
           to == Total(u, VariablesTo(l))
           g == [w \in W |-> CarriedTo(u, w, {l})]
           b(S) == [w \in W |-> Brought(u, w, S)]
           FullyUsed(k, S) ==
             CarriedTo(u, LaneOf(k).warehouse, S) <= request.capacity[LaneOf(k).warehouse]
<1>1. /\ IsFiniteSet(VariablesTo(l)) /\ IsFiniteSet(V) /\ IsFiniteSet(W)
      /\ \A k \in VariablesTo(l) : u[k] \in Nat
  BY ListsAreFinite, VariablesAreLanes, CutsTyped, FS_Subset DEF VariablesTo, Bounds
<1>2. to \in Nat /\ DemandOf(l) \in Nat
  BY <1>1, TotalNat, DemandsAreNat
<1>3. Wanted({l}) = DemandOf(l)
  BY <1>2, TotalSingle DEF Wanted
<1>4. \A S : AllBrought(u, S) = Total(b(S), W) /\ \A w \in W : b(S)[w] \in Int
  BY CutsTyped DEF AllBrought
<1>5. to = Total(g, W)
  BY CarriedToOne
<1>6. DemandOf(l) <= to
  <2>1. \A w \in W : b({l})[w] \in Int /\ g[w] \in Int /\ b({l})[w] <= g[w]
    <3> TAKE w \in W
    <3>1. CarriedTo(u, w, {l}) \in Nat /\ request.capacity[w] \in Nat
      BY CutsTyped, RequestTyped
    <3>2. Brought(u, w, {l}) \in Nat /\ Brought(u, w, {l}) <= CarriedTo(u, w, {l})
      BY <3>1 DEF Brought
    <3>3. b({l})[w] = Brought(u, w, {l}) /\ g[w] = CarriedTo(u, w, {l})
      OBVIOUS
    <3> HIDE DEF b, g, W
    <3> QED
      BY <3>1, <3>2, <3>3
  <2>2. Wanted({l}) <= AllBrought(u, {l})
    BY DEF Enough
  <2>3. Total(b({l}), W) <= Total(g, W)
    <3> DEFINE f == b({l})
    <3>1. \A w \in W : f[w] \in Int /\ g[w] \in Int /\ f[w] <= g[w]
      BY <2>1
    <3> HIDE DEF f, g, W
    <3>2. Total(f, W) <= Total(g, W)
      BY <1>1, <3>1, TotalMonotone
    <3> QED
      BY <3>2 DEF f
  <2>4. AllBrought(u, {l}) \in Nat
    BY CutsTyped
  <2>5. AllBrought(u, {l}) <= to
    BY <1>4, <1>5, <2>3
  <2> HIDE DEF to
  <2> QED
    BY <1>2, <1>3, <2>2, <2>4, <2>5
<1>7. CASE V = {}
  <2>1. \A k \in VariablesTo(l) : u[k] = 0
    BY <1>1, <1>7
  <2>2. to = 0
    BY <1>1, <2>1, TotalIsZero
  <2> QED
    BY <1>2, <1>6, <2>2
<1>8. CASE V # {}
  <2> DEFINE P == {K \in SUBSET V : \E S \in Tight(u) : l \in S /\ \A k \in K : FullyUsed(k, S)}
  <2>1. \A k \in V : \E S \in Tight(u) : l \in S /\ FullyUsed(k, S)
    <3>1. \A k \in V : k \in Variables /\ u[k] > 0 /\ LaneOf(k).location = l
      BY DEF VariablesTo
    <3>2. \A k \in Variables : u[k] > 0 =>
            \E S \in Tight(u) : LaneOf(k).location \in S /\ FullyUsed(k, S)
      BY Zenon DEF Lean
    <3> QED
      BY <3>1, <3>2, Zenon
  <2>2. {} \in P
    BY <1>8, <2>1
  <2>3. ASSUME NEW K \in SUBSET V, NEW x \in V \ K, K \in P PROVE K \cup {x} \in P
    <3>1. PICK S \in Tight(u) : l \in S /\ \A k \in K : FullyUsed(k, S)
      BY <2>3
    <3>2. PICK T \in Tight(u) : l \in T /\ FullyUsed(x, T)
      BY <2>1
    <3>3. S \cap T \in Tight(u) /\ l \in S \cap T
      BY <3>1, <3>2, TightSetsCombine
    <3>4. ASSUME NEW k \in K \cup {x} PROVE FullyUsed(k, S \cap T)
      <4> DEFINE w == LaneOf(k).warehouse
      <4>1. S \cap T \subseteq S /\ S \cap T \subseteq T
        OBVIOUS
      <4>2. CarriedTo(u, w, S \cap T) <= CarriedTo(u, w, S) /\ CarriedTo(u, w, S \cap T) <= CarriedTo(u, w, T)
        BY <4>1, CarriedGrows
      <4>3. w \in W
        BY DEF VariablesTo, Variables, Usable
      <4>4. /\ request.capacity[w] \in Nat /\ CarriedTo(u, w, S \cap T) \in Nat
            /\ CarriedTo(u, w, S) \in Nat /\ CarriedTo(u, w, T) \in Nat
        BY <4>3, CutsTyped, RequestTyped
      <4>5. CarriedTo(u, w, S) <= request.capacity[w] \/ CarriedTo(u, w, T) <= request.capacity[w]
        BY <3>1, <3>2
      <4> HIDE DEF w
      <4>6. CarriedTo(u, w, S \cap T) <= request.capacity[w]
        BY <4>2, <4>4, <4>5
      <4> QED
        BY <4>6 DEF w
    <3> HIDE DEF FullyUsed
    <3> QED
      BY <3>3, <3>4
  <2>4. V \in P
    <3> HIDE DEF V, P
    <3> QED
      BY <1>1, <2>2, <2>3, SubsetInduction
  <2>5. PICK S \in Tight(u) : l \in S /\ \A k \in V : FullyUsed(k, S)
    BY <2>4
  <2> DEFINE T == S \ {l}
  <2>6. /\ T \cup {l} = S /\ T \cap {l} = {} /\ S \subseteq Demanded
        /\ T \subseteq Demanded /\ {l} \subseteq Demanded
    BY <2>5 DEF Tight
  <2> HIDE DEF T
  \* Without l, each warehouse brings less by what it carried to l.
  <2>7. ASSUME NEW w \in W
        PROVE  b(S)[w] = b(T)[w] + g[w]
    <3> DEFINE s == CarriedTo(u, w, S)
               t == CarriedTo(u, w, T)
               z == CarriedTo(u, w, {l})
               c == request.capacity[w]
    <3>1. s \in Nat /\ t \in Nat /\ z \in Nat /\ c \in Nat
      BY CutsTyped, RequestTyped
    <3>2. s = t + z
      <4>1. CarriedTo(u, w, S) = CarriedTo(u, w, S \ {l}) + CarriedTo(u, w, {l})
        BY <2>5, CarriedSplits
      <4> QED
        BY <4>1 DEF T
    <3>3. z = 0 \/ s <= c
      <4> SUFFICES ASSUME z # 0 PROVE s <= c
        OBVIOUS
      <4> DEFINE R == {k \in VariablesFrom(w) : LaneOf(k).location \in {l}}
      <4>1. IsFiniteSet(R)
        BY CutsTyped
      <4>2. \E k \in R : u[k] # 0
        <5> SUFFICES ASSUME \A k \in R : u[k] = 0 PROVE FALSE
          OBVIOUS
        <5> HIDE DEF R
        <5>1. Total(u, R) = 0
          BY <4>1, TotalIsZero
        <5> QED
          BY <5>1 DEF CarriedTo, R
      <4>3. PICK k \in R : u[k] # 0
        BY <4>2
      <4>4. k \in V /\ LaneOf(k).warehouse = w
        BY <4>3 DEF VariablesFrom, VariablesTo, Bounds
      <4> QED
        BY <2>5, <4>4
    <3>4. b(S)[w] = (IF s <= c THEN s ELSE c) /\ b(T)[w] = (IF t <= c THEN t ELSE c) /\ g[w] = z
      BY DEF Brought
    <3> HIDE DEF s, t, z, c, b, g
    <3> QED
      BY <3>1, <3>2, <3>3, <3>4
  <2>8. AllBrought(u, S) = AllBrought(u, T) + to
    <3> DEFINE p == b(S)
               q == b(T)
    <3>1. \A w \in W : q[w] \in Int /\ g[w] \in Int /\ p[w] = q[w] + g[w]
      <4>1. \A w \in W : g[w] \in Int
        <5>1. \A w \in W : CarriedTo(u, w, {l}) \in Nat
          BY CutsTyped
        <5> QED
          BY <5>1
      <4>2. \A w \in W : q[w] \in Int
        BY <1>4
      <4> HIDE DEF b, g, W
      <4> QED
        BY <2>7, <4>1, <4>2
    <3> HIDE DEF p, q, g, W
    <3>2. Total(p, W) = Total(q, W) + Total(g, W)
      BY <1>1, <3>1, TotalPlus
    <3> QED
      BY <1>4, <1>5, <3>2 DEF p, q
  <2>9. Wanted(S) = Wanted(T) + DemandOf(l)
    <3>1. Wanted(T \cup {l}) + Wanted(T \cap {l}) = Wanted(T) + Wanted({l})
      BY <2>6, WantedIsModular
    <3>2. Wanted({}) = 0
      BY TotalEmpty DEF Wanted
    <3>3. Wanted(T \cup {l}) = Wanted(S) /\ Wanted(T \cap {l}) = Wanted({})
      BY <2>6
    <3>4. Wanted(S) \in Nat
      BY <2>6, CutsTyped
    <3> QED
      BY <1>3, <3>1, <3>2, <3>3, <3>4
  <2>10. Wanted(S) = AllBrought(u, S) /\ Wanted(T) <= AllBrought(u, T)
    BY <2>6 DEF Tight, Enough
  <2>11. AllBrought(u, T) \in Nat /\ Wanted(T) \in Nat
    BY <2>6, CutsTyped
  <2> HIDE DEF to
  <2>12. to <= DemandOf(l)
    BY <1>2, <2>8, <2>9, <2>10, <2>11
  <2> QED
    BY <1>2, <1>6, <2>12 DEF to
<1> QED
  BY <1>7, <1>8

\* Bounds that are enough have lean ones below them: those of the least total.
LEMMA LeanExists ==
  ASSUME TypeOK, NEW a \in Bounds, Enough(a)
  PROVE  \E u \in Bounds : Enough(u) /\ Lean(u) /\ \A k \in Variables : u[k] <= a[k]
<1> DEFINE Good == {u \in Bounds : Enough(u) /\ \A k \in Variables : u[k] <= a[k]}
           n == Total(a, Variables)
           Z == {z \in -n..0 : \E u \in Good : z = -Total(u, Variables)}
<1>1. IsFiniteSet(Variables)
  BY ListsAreFinite, VariablesAreLanes
<1>2. \A u \in Bounds : Total(u, Variables) \in Nat
  <2> TAKE u \in Bounds
  <2>1. \A k \in Variables : u[k] \in Nat
    BY DEF Bounds
  <2> QED
    BY <1>1, <2>1, TotalNat
<1>3. a \in Good
  BY DEF Bounds
<1>4. \A u \in Good : -Total(u, Variables) \in Z
  <2> TAKE u \in Good
  <2>1. \A k \in Variables : u[k] \in Int /\ a[k] \in Int /\ u[k] <= a[k]
    BY DEF Bounds
  <2>2. Total(u, Variables) <= Total(a, Variables)
    BY <1>1, <2>1, TotalMonotone
  <2>3. Total(u, Variables) \in Nat /\ n \in Nat
    BY <1>2
  <2>4. -Total(u, Variables) \in -n..0
    BY <2>2, <2>3
  <2> QED
    BY <2>4
<1>5. IsFiniteSet(Z) /\ Z # {} /\ Z \subseteq Int
  <2>1. n \in Nat
    BY <1>2
  <2>2. IsFiniteSet(-n..0)
    BY <2>1, FS_Interval
  <2>3. IsFiniteSet(Z)
    BY <2>2, FS_Subset
  <2> QED
    BY <1>3, <1>4, <2>1, <2>3
<1>6. Max(Z) \in Z /\ \A z \in Z : z <= Max(Z)
  <2> HIDE DEF Z
  <2> QED
    BY <1>5, MaxOfFinite
<1>7. PICK u \in Good : Max(Z) = -Total(u, Variables)
  BY <1>6
<1>8. \A v \in Good : Total(u, Variables) <= Total(v, Variables)
  <2> TAKE v \in Good
  <2>1. -Total(v, Variables) <= -Total(u, Variables)
    BY <1>4, <1>6, <1>7
  <2> QED
    BY <1>2, <2>1
<1>9. u \in Bounds /\ Enough(u) /\ \A k \in Variables : u[k] <= a[k]
  OBVIOUS
<1>10. Lean(u)
  <2> SUFFICES ASSUME NEW k \in Variables, u[k] > 0
               PROVE  \E S \in Tight(u) :
                        /\ LaneOf(k).location \in S
                        /\ CarriedTo(u, LaneOf(k).warehouse, S) <= request.capacity[LaneOf(k).warehouse]
    BY DEF Lean
  <2> DEFINE w == LaneOf(k).warehouse
             W == DOMAIN request.capacity
             v == [u EXCEPT ![k] = @ - 1]
  <2>1. /\ v \in Bounds /\ v[k] = u[k] - 1 /\ \A j \in Variables : v[j] <= a[j]
        /\ \A j \in Variables \ {k} : v[j] = u[j]
    BY <1>3, <1>9 DEF Bounds
  <2> HIDE DEF v
  <2>2. \A j \in Variables : u[j] \in Int /\ v[j] \in Int
    BY <1>9, <2>1 DEF Bounds
  <2>3. Total(v, Variables) = Total(u, Variables) + (v[k] - u[k])
    BY <1>1, <2>1, <2>2, TotalChange
  <2>4. ~Enough(v)
    <3>1. v \notin Good
      BY <1>2, <1>8, <1>9, <2>1, <2>2, <2>3
    <3> QED
      BY <2>1, <3>1
  <2>5. PICK S \in SUBSET Demanded : ~(Wanted(S) <= AllBrought(v, S))
    BY <2>4 DEF Enough
  <2>6. w \in W
    BY DEF Variables, Usable
  <2>7. \A x \in W : CarriedTo(v, x, S) =
          IF x = w /\ LaneOf(k).location \in S THEN CarriedTo(u, x, S) - 1 ELSE CarriedTo(u, x, S)
    <3> TAKE x \in W
    <3> DEFINE R == {j \in VariablesFrom(x) : LaneOf(j).location \in S}
    <3>1. IsFiniteSet(R) /\ R \subseteq Variables
      BY CutsTyped DEF VariablesFrom
    <3>2. k \in R <=> x = w /\ LaneOf(k).location \in S
      BY DEF VariablesFrom
    <3>3. CarriedTo(u, x, S) = Total(u, R) /\ CarriedTo(v, x, S) = Total(v, R)
      BY DEF CarriedTo
    <3>4. CarriedTo(u, x, S) \in Nat
      BY <1>9, CutsTyped
    <3> HIDE DEF R
    <3>5. ASSUME k \in R PROVE Total(v, R) = Total(u, R) + (v[k] - u[k])
      BY <2>1, <2>2, <3>1, <3>5, TotalChange
    <3>6. ASSUME k \notin R PROVE Total(v, R) = Total(u, R)
      <4>1. \A j \in R : v[j] = u[j]
        BY <2>1, <3>1, <3>6
      <4> QED
        BY <3>1, <4>1, TotalAgrees
    <3> QED
      BY <2>1, <2>2, <3>2, <3>3, <3>4, <3>5, <3>6
  <2> DEFINE c == request.capacity[w]
             s == CarriedTo(u, w, S)
             d == Brought(v, w, S) - Brought(u, w, S)
             f == [x \in W |-> Brought(u, x, S)]
             g == [x \in W |-> Brought(v, x, S)]
  <2>8. c \in Nat /\ s \in Nat /\ IsFiniteSet(W)
    BY <1>9, <2>6, CutsTyped, RequestTyped
  <2>9. d = IF LaneOf(k).location \in S /\ s <= c THEN -1 ELSE 0
    <3>1. Brought(u, w, S) = IF s <= c THEN s ELSE c
      BY DEF Brought
    <3>2. Brought(v, w, S) =
            IF CarriedTo(v, w, S) <= c THEN CarriedTo(v, w, S) ELSE c
      BY DEF Brought
    <3>3. CarriedTo(v, w, S) = IF LaneOf(k).location \in S THEN s - 1 ELSE s
      BY <2>6, <2>7
    <3> HIDE DEF s, c, w
    <3> QED
      BY <2>8, <3>1, <3>2, <3>3
  <2>10. AllBrought(v, S) = AllBrought(u, S) + d
    <3>1. \A x \in W : f[x] \in Int /\ g[x] \in Int
      BY <1>9, <2>1, CutsTyped
    <3>2. \A x \in W \ {w} : f[x] = g[x]
      BY <2>7 DEF Brought
    <3>3. g[w] - f[w] = d
      BY <2>6
    <3>4. AllBrought(v, S) = Total(g, W) /\ AllBrought(u, S) = Total(f, W)
      BY DEF AllBrought
    <3> HIDE DEF f, g, d, w, W
    <3>5. Total(g, W) = Total(f, W) + (g[w] - f[w])
      BY <2>6, <2>8, <3>1, <3>2, TotalChange
    <3> QED
      BY <3>3, <3>4, <3>5
  <2>11. AllBrought(u, S) \in Nat /\ Wanted(S) \in Nat /\ Wanted(S) <= AllBrought(u, S)
    BY <1>9, <2>5, CutsTyped DEF Enough
  <2> HIDE DEF d, s, c, w
  <2>12. d = -1 /\ Wanted(S) = AllBrought(u, S)
    BY <2>5, <2>9, <2>10, <2>11
  <2>13. LaneOf(k).location \in S /\ s <= c
    BY <2>9, <2>12
  <2> QED
    BY <2>5, <2>12, <2>13 DEF Tight, s, c, w
<1> QED
  BY <1>9, <1>10

\* The max-flow min-cut condition: bounds that are enough have a feasible point.
LEMMA EnoughIsFeasible ==
  ASSUME TypeOK, ~request.allowUnmet, Enough([k \in Variables |-> UpperBound(k)])
  PROVE  Variables # {} /\ Feasible # {}
<1> DEFINE a == [k \in Variables |-> UpperBound(k)]
<1>1. a \in Bounds
  BY BoundsAreBounded DEF Bounds
<1>2. PICK u \in Bounds : Enough(u) /\ Lean(u) /\ \A k \in Variables : u[k] <= a[k]
  <2> HIDE DEF a
  <2>1. Enough(a)
    BY DEF a
  <2> QED
    BY <1>1, <2>1, LeanExists
<1>3. \A l \in Demanded : Total(u, VariablesTo(l)) = DemandOf(l)
  BY <1>2, LeanMeetsDemand
<1>4. u \in Feasible
  <2>1. \A k \in Variables : /\ u[k] \in 0..Max({0} \cup {UpperBound(j) : j \in Variables})
                             /\ u[k] <= UpperBound(k)
    <3> TAKE k \in Variables
    <3>1. u[k] \in Nat /\ u[k] <= UpperBound(k)
      BY <1>2 DEF Bounds
    <3> QED
      BY <3>1, BoundsAreBounded
  <2>2. u \in [Variables -> 0..Max({0} \cup {UpperBound(j) : j \in Variables})]
    BY <1>2, <2>1 DEF Bounds
  <2>3. \A w \in DOMAIN request.capacity : FitsCapacity(u, w)
    BY <1>2, LeanFitsCapacity DEF FitsCapacity
  <2>4. \A l \in Demanded : MeetsDemand(u, l)
    BY <1>3 DEF MeetsDemand
  <2> QED
    BY <2>1, <2>2, <2>3, <2>4 DEF Feasible
<1>5. Variables # {}
  <2>1. 1 \in Entries
    BY RequestTyped DEF TypeOK, IsRequest
  <2>2. PICK l \in Demanded : DemandOf(l) \in Nat \ {0}
    BY <2>1, DemandsAreNat DEF Demanded
  <2>3. Variables = {} => VariablesTo(l) = {}
    BY DEF VariablesTo
  <2> QED
    BY <1>3, <2>2, <2>3, TotalEmpty
<1> QED
  BY <1>4, <1>5

\* An infeasibility has a set of locations that proves it.
LEMMA InfeasibleHasACut == ASSUME IInv PROVE InfeasibleIsTrue
<1> SUFFICES ASSUME plan.outcome = "InfeasibleProblemError", ~request.allowUnmet
             PROVE  \E S \in SUBSET Demanded :
                      LET brings == [w \in DOMAIN request.capacity |->
                                       Min({request.capacity[w],
                                            Total([k \in Variables |-> UpperBound(k)],
                                                  {k \in VariablesFrom(w) : LaneOf(k).location \in S})})]
                      IN  Total([l \in Demanded |-> DemandOf(l)], S) > Total(brings, DOMAIN request.capacity)
  BY DEF InfeasibleIsTrue
<1> DEFINE a == [k \in Variables |-> UpperBound(k)]
<1>1. TypeOK /\ (Variables = {} \/ Feasible = {})
  BY DEF IInv, PlanIsOfItsMethod
<1>2. a \in Bounds
  BY <1>1, BoundsAreBounded DEF Bounds
<1>3. PICK S \in SUBSET Demanded : ~(Wanted(S) <= AllBrought(a, S))
  BY <1>1, EnoughIsFeasible DEF Enough
<1> DEFINE brings == [w \in DOMAIN request.capacity |->
                        Min({request.capacity[w],
                             Total(a, {k \in VariablesFrom(w) : LaneOf(k).location \in S})})]
<1>4. \A w \in DOMAIN request.capacity : brings[w] = Brought(a, w, S)
  <2> TAKE w \in DOMAIN request.capacity
  <2> DEFINE c == request.capacity[w]
             t == CarriedTo(a, w, S)
  <2>0. brings[w] = Min({c, t})
    BY DEF CarriedTo
  <2> HIDE DEF a, brings
  <2>1. c \in Nat /\ t \in Nat
    BY <1>1, <1>2, CutsTyped, RequestTyped
  <2>2. Brought(a, w, S) = IF t <= c THEN t ELSE c
    BY DEF Brought
  <2> HIDE DEF c, t
  <2>3. t <= c => Min({c, t}) = t
    BY <2>1, MinIs
  <2>4. ~(t <= c) => Min({c, t}) = c
    BY <2>1, MinIs
  <2> QED
    BY <2>0, <2>2, <2>3, <2>4
<1>5. Total(brings, DOMAIN request.capacity) = AllBrought(a, S)
  <2>1. brings = [w \in DOMAIN request.capacity |-> Brought(a, w, S)]
    <3> DEFINE other == [w \in DOMAIN request.capacity |-> Brought(a, w, S)]
    <3>1. \A w \in DOMAIN request.capacity : brings[w] = other[w]
      BY <1>4
    <3>2. brings = other
      BY <3>1
    <3> QED
      BY <3>2
  <2> QED
    BY <2>1 DEF AllBrought
<1>6. Wanted(S) \in Nat /\ AllBrought(a, S) \in Nat
  <2> HIDE DEF a
  <2> QED
    BY <1>1, <1>2, CutsTyped
<1>7. Total([l \in Demanded |-> DemandOf(l)], S) > Total(brings, DOMAIN request.capacity)
  <2> HIDE DEF brings, a
  <2> QED
    BY <1>3, <1>5, <1>6 DEF Wanted
<1> QED
  BY <1>7

\* An infeasibility is real in every reachable state.
THEOREM InfeasibilityIsTrue == Spec => []InfeasibleIsTrue
BY InfeasibleHasACut, Invariance, PTL

=============================================================================
