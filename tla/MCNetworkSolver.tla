--------------------------- MODULE MCNetworkSolver ---------------------------
(***************************************************************************)
(* Requests for TLC: two warehouses, two locations, and lists of lanes and *)
(* demand locations chosen for ties, caps of 0, inactive warehouses,       *)
(* unreachable locations and repeated ids.                                 *)
(***************************************************************************)
EXTENDS NetworkSolver

Lane(w, l, cost, cap) == [warehouse |-> w, location |-> l, cost |-> cost, cap |-> cap]
Wants(l, units) == [location |-> l, units |-> units]

Capacities == UNION {[A -> 1..2] : A \in SUBSET {"WH-1", "WH-2"}}

LaneLists ==
  { <<Lane("WH-1", "L1", c, NoCap), Lane("WH-2", "L1", 2, cap),
      Lane("WH-1", "L2", 2, 1), Lane("WH-2", "L2", 2 * c - 3, NoCap)>> :
        c \in {2, 3}, cap \in {NoCap, 0, 1} }
  \cup
  { <<Lane("WH-1", "L1", 1, cap), Lane("WH-2", "L1", 3, NoCap), Lane("WH-1", "L2", 2, NoCap)>> :
        cap \in {NoCap, 1} }
  \cup
  { <<Lane("WH-1", "L1", 1, 1), Lane("WH-1", "L1", 2, 1), Lane("WH-2", "L2", 1, NoCap)>>,
    <<Lane("WH-2", "L1", 2, NoCap)>>,
    <<Lane("WH-1", "L1", 3, NoCap), Lane("WH-1", "L1", 1, 1), Lane("WH-2", "L1", 2, 2),
      Lane("WH-1", "L2", 1, NoCap), Lane("WH-2", "L2", 1, NoCap)>> }

DemandLists ==
  { <<Wants("L1", m)>> : m \in {1, 3} }
  \cup { <<Wants("L1", m), Wants("L2", 2)>> : m \in 1..3 }
  \cup { <<Wants("L2", 2), Wants("L1", 2)>>, <<Wants("L1", 2), Wants("L1", 1)>> }

RequestsWith(allowUnmet, penalties) ==
  [capacity : Capacities, demands : DemandLists,
   lanes : LaneLists, allowUnmet : {allowUnmet}, penalty : penalties]
MCRequests == RequestsWith(TRUE, {2, 10}) \cup RequestsWith(FALSE, {10})
MCWarehouses == {"WH-1", "WH-2"}
MCLocations == {"L1", "L2"}
=============================================================================
