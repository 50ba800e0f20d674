------------------------ MODULE MCReplenishmentSolver ------------------------
(***************************************************************************)
(* Requests for TLC: up to three rows of two SKUs and a third, cheap and   *)
(* dear, empty and well stocked, with and without capacity and order cost, *)
(* at levels in and between the entries of the table, and budgets from one *)
(* unit of money to more than any order costs.                             *)
(***************************************************************************)
EXTENDS ReplenishmentSolver, TLC

Row(sku, stock, unitCost, level) ==
  [sku |-> sku, stock |-> stock, demand |-> 2, stdDev |-> 3, rootLead |-> 2,
   unitCost |-> unitCost, rate |-> 100, orderCost |-> 0, level |-> level, capacity |-> None]

Firsts ==
  { Row("A", stock, cost, level) : stock \in {0, 3, 16}, cost \in {1, 4}, level \in {500, 930} }
Seconds ==
  { [Row(sku, stock, 3, level) EXCEPT !.capacity = cap] :
      sku \in {"A", "B"}, stock \in {0, 12, 16}, level \in {500, 930}, cap \in {None, 13} }
  \cup { [Row("B", 12, 4, 950) EXCEPT !.orderCost = 1, !.demand = 3, !.capacity = cap] :
           cap \in {None, 20} }
  \cup { [Row("B", stock, 4, level) EXCEPT !.capacity = cap] :
           stock \in {16}, level \in {900, 940, 949}, cap \in {None, 13} }
Thirds == { Row("C", 1, 2, 999), Row("A", 3, 2, 500), Row("B", 30, 3, 500) }

MCRequests ==
  { [skus |-> rows, budget |-> b] :
      rows \in { <<f>> : f \in Firsts } \cup { <<f, s>> : f \in Firsts, s \in Seconds }
               \cup { <<f, s, t>> : f \in Firsts, s \in Seconds, t \in Thirds },
      b \in {None, 1, 13, 20, 37} }
=============================================================================
