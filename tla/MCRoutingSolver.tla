--------------------------- MODULE MCRoutingSolver ---------------------------
(***************************************************************************)
(* Requests for TLC: up to four stops on a line through the depot, their   *)
(* places in half minutes of travel, and up to three vehicles, chosen for  *)
(* ties, full and overfull vehicles, short shifts and time windows.        *)
(***************************************************************************)
EXTENDS RoutingSolver

At0(demand, service) == [demand |-> demand, service |-> service, window |-> NoWindow]
Within(demand, service, start, end) ==
  [demand |-> demand, service |-> service, window |-> [start |-> start, end |-> end]]
Van(capacity, maxDuration) == [capacity |-> capacity, maxDuration |-> maxDuration]

StopLists ==
  { <<At0(1, 0), At0(d, s), At0(1, 1)>> : d \in {1, 2}, s \in {0, 2} }
  \cup { <<At0(2, 1), Within(1, s, 2, e), At0(1, 0)>> : s \in {0, 2}, e \in {3, 4} }
  \cup { <<Within(1, 1, 4, 5), Within(2, 0, 1, 3), At0(1, 3)>>,
         <<At0(1, 1), At0(3, 0)>>, <<Within(1, 0, 9, 10)>>, <<Within(1, 3, 1, 2)>>,
         <<At0(1, 0), At0(2, 1), At0(1, 2), At0(2, 0)>>,
         <<At0(2, 2), Within(1, 0, 1, 2), At0(1, 0), At0(1, 1)>> }

\* The places of the depot and the stops.
Places == { <<0, 1, 3, -2, 4>>, <<0, 3, 3, 5, 1>>, <<0, -1, 1, 3, -3>>,
            <<2, 2, 5, 1, 3>>, <<0, 6, 1, 2, -1>>, <<1, 4, 0, 2, -3>> }
Gap(a, b) == IF a < b THEN b - a ELSE a - b
Line(p, n) == [i \in 0..n |-> [j \in 0..n |-> Gap(p[i + 1], p[j + 1])]]

VehicleLists ==
  { <<Van(c, t)>> : c \in {1, 4, 6}, t \in {2, 6} }
  \cup { <<Van(c, t), Van(d, u)>> : c \in 1..3, t \in {2, 5}, d \in {2, 4}, u \in {2, 5} }
  \cup { <<Van(2, 3), Van(1, t), Van(3, 4)>> : t \in {1, 4} }

MCRequests ==
  { [stops |-> s, vehicles |-> v, travel |-> Line(p, Len(s))] :
      s \in StopLists, v \in VehicleLists, p \in Places }
=============================================================================
