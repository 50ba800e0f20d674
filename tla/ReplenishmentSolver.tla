------------------------- MODULE ReplenishmentSolver -------------------------
(***************************************************************************)
(* ReplenishmentSolver.solve: safety stock, reorder point and order        *)
(* quantity of each SKU at each location, then one linear program that     *)
(* shares a budget among the orders.                                       *)
(*                                                                         *)
(* OR-Tools' GLOP is external: it returns an optimal vertex of the program *)
(* that the code builds, or fails.  Quantities, days and money are whole   *)
(* numbers and fractions are exact: floating point is left out.  Levels    *)
(* are in thousandths, rates in hundredths, z-scores in 1/90000 (so that   *)
(* every interpolation is whole).  The square root of the order quantity   *)
(* is rounded without being computed; lead times are squares.              *)
(***************************************************************************)
EXTENDS Integers, Sequences, Sums

CONSTANTS
  Requests,   \* the requests solved, records as IsRequest says
  None        \* no budget_constraint, no max_capacity

\* What validation leaves of a request.
SKULocation ==
  [sku : STRING, stock : Nat, demand : Nat \ {0}, stdDev : Nat, rootLead : Nat \ {0},
   unitCost : Nat \ {0}, rate : Nat \ {0}, orderCost : Nat, level : 500..999,
   capacity : {None} \cup Nat]
IsRequest(r) ==
  /\ r.budget \in {None} \cup (Nat \ {0})
  /\ r.skus \in Seq(SKULocation) \ {<<>>}
ASSUME RequestsAssumption == \A r \in Requests : IsRequest(r)

VARIABLES
  request,
  pc,        \* "start", "budget", "done"
  recs,      \* the recommendations before the budget
  plan       \* the outcome

vars == <<request, pc, recs, plan>>

-----------------------------------------------------------------------------
\* _recommend_for_sku

\* SERVICE_LEVEL_Z_SCORES, by levels in thousandths, in hundredths.
Levels == <<500, 800, 900, 950, 975, 990, 999>>
Scores == <<0, 84, 128, 165, 196, 233, 309>>

\* Seeded fault: the fraction is taken from the upper end of its interval.
ZScoreFromAbove(level) ==
  LET k == CHOOSE i \in 1..6 : Levels[i] <= level /\ level <= Levels[i + 1]
      width == Levels[k + 1] - Levels[k]
  IN  (Scores[k] * width + (Levels[k + 1] - level) * (Scores[k + 1] - Scores[k])) * (900 \div width)

\* The score of a level of the table, or the interpolation between two of them.
ZScore(level) ==
  LET k == CHOOSE i \in 1..6 : Levels[i] <= level /\ level <= Levels[i + 1]
      width == Levels[k + 1] - Levels[k]
  IN  (Scores[k] * width + (level - Levels[k]) * (Scores[k + 1] - Scores[k])) * (900 \div width)

\* round(): halves go to the even neighbour.
RoundRatio(a, b) ==
  LET q == a \div b
      twice == 2 * (a % b)
  IN  IF twice > b \/ (twice = b /\ q % 2 = 1) THEN q + 1 ELSE q

\* n = round(sqrt(a / b)): the root is within half of n.
RoundsRoot(n, a, b) ==
  LET below == (2 * n - 1) * (2 * n - 1) * b
      above == (2 * n + 1) * (2 * n + 1) * b
  IN  /\ (n = 0 \/ below <= 4 * a) /\ 4 * a <= above
      /\ n % 2 = 1 => 4 * a \notin {below, above}

\* The limit only bounds the choice; it is not below the root.
RoundRoot(a, b, limit) == CHOOSE n \in 0..limit : RoundsRoot(n, a, b)

LeadDemand(sl) == sl.demand * sl.rootLead * sl.rootLead
SafetyStock(sl) == ZScore(sl.level) * sl.stdDev * sl.rootLead
ReorderPoint(sl) == 90000 * LeadDemand(sl) + SafetyStock(sl)

\* 2 * annual_demand * order_cost / annual_holding_cost_per_unit, rates in percent
Eoq(sl) ==
  IF sl.orderCost = 0 THEN LeadDemand(sl)
  ELSE RoundRoot(73000 * sl.demand * sl.orderCost, sl.unitCost * sl.rate,
                 365 * sl.demand * (sl.orderCost + 1))

\* Seeded fault: an order may fill the whole site, whatever it holds.
CappedAtCapacity(sl) ==
  IF sl.capacity = None THEN Eoq(sl) ELSE Min({Eoq(sl), sl.capacity})

\* The order quantity that the capacity of the site has room for.
Capped(sl) ==
  IF sl.capacity = None THEN Eoq(sl)
  ELSE Min({Eoq(sl), Max({0, sl.capacity - sl.stock})})

\* days_of_supply_remaining, in hundredths of a day
DaysOfSupply(sl) == RoundRatio(100 * sl.stock, sl.demand)

ShouldReorder(sl) == 90000 * sl.stock <= ReorderPoint(sl)

RecommendForSku(sl) ==
  [sku |-> sl.sku, reorder |-> ShouldReorder(sl), days |-> DaysOfSupply(sl),
   quantity |-> IF ShouldReorder(sl) THEN Capped(sl) ELSE 0]

-----------------------------------------------------------------------------
\* _apply_budget_constraint

Rows == DOMAIN request.skus
LastWith(sku, rows) == Max({i \in rows : request.skus[i].sku = sku})

\* cost_by_sku: the last location of a SKU sets the price of all of them.
CostBySku(sku) == request.skus[LastWith(sku, Rows)].unitCost

TotalCost(list) ==
  Total([i \in DOMAIN list |-> list[i].quantity * CostBySku(list[i].sku)], DOMAIN list)

\* The variables of the program, one per SKU with a reorder anywhere.
Fractions == {recs[i].sku : i \in {j \in Rows : recs[j].reorder}}

\* SetCoefficient keeps what the last recommendation of the SKU sets.
Coefficient(sku) == recs[LastWith(sku, Rows)].quantity * CostBySku(sku)

\* Seeded fault: the weight grows with the days of supply.
UrgencyInverted(sku) ==
  10000 \div Max({recs[LastWith(sku, {i \in Rows : recs[i].reorder})].days, 10})

\* The inverse of urgency_weight, in hundredths: that of the last reorder.
InverseUrgency(sku) == Max({recs[LastWith(sku, {i \in Rows : recs[i].reorder})].days, 10})

\* What a unit of money buys in s is worth at least what it buys in t.
WorthMore(s, t) ==
  Coefficient(s) * InverseUrgency(s) <= Coefficient(t) * InverseUrgency(t)

Full == [num |-> 1, den |-> 1]
Nothing == [num |-> 0, den |-> 1]

\* The optimal vertices of the fractional knapsack: the SKUs of greatest worth in
\* full, as much of the next one as is left, none of the others.
Cost(skus) == Total([s \in Fractions |-> Coefficient(s)], skus)
Splits ==
  { d \in [full : SUBSET Fractions, part : Fractions] :
      /\ d.part \notin d.full
      /\ Cost(d.full) <= request.budget
      /\ Cost(d.full) + Coefficient(d.part) > request.budget
      /\ \A o \in Fractions \ d.full : WorthMore(d.part, o) /\ \A s \in d.full : WorthMore(s, o) }
Funding(d) ==
  [s \in Fractions |->
     IF s \in d.full THEN Full
     ELSE IF s = d.part THEN [num |-> request.budget - Cost(d.full), den |-> Coefficient(s)]
     ELSE Nothing]
LpOptima ==
  IF Cost(Fractions) <= request.budget THEN {[s \in Fractions |-> Full]}
  ELSE {Funding(d) : d \in Splits}

\* Seeded fault: the quantity is rounded up.
AdjustedUp(rec, fractions) ==
  IF rec.sku \in DOMAIN fractions
  THEN LET f == fractions[rec.sku]
       IN  [rec EXCEPT !.quantity = -((-rec.quantity * f.num) \div f.den)]
  ELSE rec

\* Every recommendation of a funded SKU is scaled, those without a reorder too.
Adjusted(rec, fractions) ==
  IF rec.sku \in DOMAIN fractions
  THEN LET f == fractions[rec.sku]
       IN  [rec EXCEPT !.quantity = RoundRatio(rec.quantity * f.num, f.den)]
  ELSE rec
Shared(fractions) == [i \in Rows |-> Adjusted(recs[i], fractions)]

-----------------------------------------------------------------------------
NoPlan == [outcome |-> "none"]
Raised(error) == [outcome |-> error]
Plan(list, binding) ==
  [outcome |-> "plan", orders |-> list, binding |-> binding, cost |-> TotalCost(list)]

Init ==
  /\ request \in Requests
  /\ pc = "start"
  /\ recs = <<>>
  /\ plan = NoPlan

Recommend ==
  /\ pc = "start"
  /\ recs' = [i \in Rows |-> RecommendForSku(request.skus[i])]
  /\ pc' = "budget"
  /\ UNCHANGED <<request, plan>>

OverBudget == request.budget # None /\ TotalCost(recs) > request.budget

Unconstrained ==
  /\ pc = "budget"
  /\ ~OverBudget
  /\ plan' = Plan(recs, FALSE)
  /\ pc' = "done"
  /\ UNCHANGED <<request, recs>>

ShareBudget ==
  /\ pc = "budget"
  /\ OverBudget
  /\ \E fractions \in LpOptima :
       plan' = Plan(Shared(fractions), TRUE)
  /\ pc' = "done"
  /\ UNCHANGED <<request, recs>>

\* Any budget needs OR-Tools, which is loaded before the costs are looked at; with
\* orders over the budget, the program may end without an optimum.
LpFails ==
  /\ pc = "budget"
  /\ request.budget # None
  /\ \/ plan' = Raised("ReplenishmentError")
     \/ OverBudget /\ plan' = Raised("BudgetInfeasibleError")
  /\ pc' = "done"
  /\ UNCHANGED <<request, recs>>

Done == pc = "done" /\ UNCHANGED vars

Next == Recommend \/ Unconstrained \/ ShareBudget \/ LpFails \/ Done

Spec == Init /\ [][Next]_vars

-----------------------------------------------------------------------------
Solved == plan.outcome = "plan"

\* The inductive invariant: which step has computed what.  It says nothing that the
\* actions do not; the proofs of the properties start from it.
Recommended == [i \in Rows |-> RecommendForSku(request.skus[i])]
IInv ==
  /\ request \in Requests
  /\ recs = IF pc = "start" THEN <<>> ELSE Recommended
  /\ Solved =>
       /\ pc = "done"
       /\ \/ ~OverBudget /\ plan = Plan(recs, FALSE)
          \/ OverBudget /\ \E fractions \in LpOptima : plan = Plan(Shared(fractions), TRUE)

Distinct == \A i, j \in Rows : request.skus[i].sku = request.skus[j].sku => i = j

\* The budget is used and kept but for the rounding of one order: when it binds,
\* at most one order is cut in part, and what is spent differs from the budget by
\* at most half a unit of it.  (Each SKU at one location; SpendCap is about all.)
BudgetIsSpent ==
  (Solved /\ Distinct /\ plan.binding) =>
    \E i \in Rows :
      /\ 2 * (plan.cost - request.budget) \in -request.skus[i].unitCost..request.skus[i].unitCost
      /\ \A j \in Rows \ {i} : plan.orders[j].quantity \in {0, recs[j].quantity}

\* No order overfills its site, however the budget scaled it, and none is larger
\* than the one recommended before the budget was shared.
OrdersFitTheSite ==
  Solved =>
    \A i \in Rows :
      LET sl == request.skus[i]
          order == plan.orders[i].quantity
      IN  /\ 0 <= order /\ order <= recs[i].quantity
          /\ (sl.capacity # None /\ order > 0) => sl.stock + order <= sl.capacity

\* A higher service level never means less stock: where two locations differ in
\* their level only, the one that asks for more reorders whenever the other does.
MoreServiceMoreStock ==
  \A i, j \in DOMAIN recs :
    LET a == request.skus[i]
        b == request.skus[j]
    IN  (a.level <= b.level /\ b = [a EXCEPT !.level = b.level, !.sku = b.sku]) =>
          /\ recs[i].reorder => recs[j].reorder
          /\ recs[i].quantity <= recs[j].quantity

\* Cuts spare the urgent: while an order of one SKU is cut, another SKU of higher
\* price per unit that would last longer on its stock, in an order as large, gets
\* nothing.
CutsSpareTheUrgent ==
  (Solved /\ Distinct) =>
    \A i, j \in Rows :
      ( /\ plan.orders[i].quantity < recs[i].quantity
        /\ recs[i].quantity <= recs[j].quantity
        /\ request.skus[i].unitCost <= request.skus[j].unitCost
        /\ recs[i].reorder /\ recs[j].reorder
        /\ Max({recs[i].days, 10}) < Max({recs[j].days, 10}) )
      => plan.orders[j].quantity = 0

\* "Total spend cap across all reorders this cycle".
SpendCap == (Solved /\ request.budget # None) => plan.cost <= request.budget

=============================================================================
