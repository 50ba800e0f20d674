----------------------- MODULE ReplenishmentSolverProofs -----------------------
(***************************************************************************)
(* Proofs about ReplenishmentSolver, for every request and every optimum   *)
(* of the program that shares the budget.                                  *)
(***************************************************************************)
EXTENDS ReplenishmentSolver, SumsProofs

-----------------------------------------------------------------------------
\* Rounding.

\* Division with remainder.
LEMMA Division ==
  ASSUME NEW a \in Nat, NEW b \in Nat \ {0}
  PROVE  /\ a \div b \in Nat /\ a % b \in 0..b - 1
         /\ a = b * (a \div b) + (a % b)
OBVIOUS

LEMMA ProductIsNat ==
  \A x, y \in Nat : x * y \in Nat
OBVIOUS

\* round(a / b) is within half of a / b.
LEMMA RoundRatioIsNear ==
  ASSUME NEW a \in Nat, NEW b \in Nat \ {0}
  PROVE  /\ RoundRatio(a, b) \in Nat
         /\ 2 * (b * RoundRatio(a, b)) \in 2 * a - b..2 * a + b
<1> DEFINE q == a \div b
           m == a % b
<1>1. q \in Nat /\ m \in 0..b - 1 /\ a = b * q + m
  BY Division
<1>2. RoundRatio(a, b) = IF 2 * m > b \/ (2 * m = b /\ q % 2 = 1) THEN q + 1 ELSE q
  BY DEF RoundRatio
<1> HIDE DEF q, m
<1>3. b * q \in Nat /\ b * (q + 1) = b * q + b /\ b * (q + 1) \in Nat
  BY <1>1
<1>4. CASE RoundRatio(a, b) = q /\ 2 * m <= b
  BY <1>1, <1>3, <1>4
<1>5. CASE RoundRatio(a, b) = q + 1 /\ 2 * m >= b
  BY <1>1, <1>3, <1>5
<1> QED
  BY <1>1, <1>2, <1>4, <1>5

\* A ratio that is not above a whole number is not rounded above it.
LEMMA RoundRatioIsBounded ==
  ASSUME NEW a \in Nat, NEW b \in Nat \ {0}, NEW n \in Nat, a <= b * n
  PROVE  RoundRatio(a, b) <= n
<1> DEFINE r == RoundRatio(a, b)
<1>1. r \in Nat /\ 2 * (b * r) <= 2 * a + b
  <2>1. r \in Nat /\ 2 * (b * r) \in 2 * a - b..2 * a + b
    BY RoundRatioIsNear
  <2> QED
    BY <2>1
<1> HIDE DEF r
<1>2. ASSUME r >= n + 1 PROVE FALSE
  <2>1. b * r >= b * (n + 1)
    BY <1>1, <1>2, FactorKeepsOrder
  <2>2. b * (n + 1) = b * n + b /\ b * n \in Nat /\ b * r \in Nat
    BY <1>1
  <2> QED
    BY <1>1, <2>1, <2>2
<1> QED
  BY <1>1, <1>2 DEF r

\* A whole number stays what it is, and nothing stays nothing.
LEMMA RoundRatioOfWhole ==
  ASSUME NEW n \in Nat
  PROVE  RoundRatio(n * 1, 1) = n /\ RoundRatio(n * 0, 1) = 0
<1>1. \A k \in Nat : k \div 1 = k /\ k % 1 = 0
  OBVIOUS
<1>2. n * 1 = n /\ n * 0 = 0
  OBVIOUS
<1> QED
  BY <1>1, <1>2 DEF RoundRatio

\* Every quotient has a rounded root up to a limit above its root.
LEMMA RootExists ==
  ASSUME NEW a \in Nat, NEW b \in Nat \ {0}, NEW limit \in Nat \ {0},
         4 * a <= (2 * limit - 1) * (2 * limit - 1)
  PROVE  RoundRoot(a, b, limit) \in 0..limit /\ RoundsRoot(RoundRoot(a, b, limit), a, b)
<1> DEFINE Above(n) == (2 * n + 1) * (2 * n + 1) * b
           P == {k \in 0..limit - 1 : (\A n \in 0..k : Above(n) < 4 * a)
                                       \/ \E n \in 0..k : RoundsRoot(n, a, b) \/ RoundsRoot(n + 1, a, b)}
<1>1. \A n \in 0..limit : Above(n) \in Nat
  <2> SUFFICES ASSUME NEW n \in 0..limit PROVE Above(n) \in Nat
    OBVIOUS
  <2>1. 2 * n + 1 \in Nat
    OBVIOUS
  <2> QED
    BY <2>1, ProductIsNat
<1>2. \A n \in 0..limit : /\ 2 * (n + 1) - 1 = 2 * n + 1
                          /\ n # 0 => 2 * n - 1 = 2 * (n - 1) + 1
  OBVIOUS
\* Where the values above n pass 4 * a, n or its successor is the rounded root.
<1>3. ASSUME NEW n \in 0..limit - 1, n = 0 \/ Above(n - 1) < 4 * a, 4 * a <= Above(n)
      PROVE  RoundsRoot(n, a, b) \/ RoundsRoot(n + 1, a, b)
  <2>1. Above(n) <= Above(n + 1)
    <3> DEFINE w == 2 * n + 1
               v == 2 * (n + 1) + 1
    <3>1. w \in Nat /\ v \in Nat /\ w <= v
      OBVIOUS
    <3> HIDE DEF w, v
    <3>2. w * w <= v * v /\ w * w \in Nat /\ v * v \in Nat
      BY <3>1
    <3>3. w * w * b <= v * v * b
      BY <3>2
    <3> QED
      BY <3>3 DEF w, v
  <2>2. n \in 0..limit /\ n + 1 \in 0..limit /\ n # 0 => n - 1 \in 0..limit
    OBVIOUS
  <2>3. RoundsRoot(n, a, b) <=> /\ n = 0 \/ (2 * n - 1) * (2 * n - 1) * b <= 4 * a
                                /\ 4 * a <= Above(n)
                                /\ n % 2 = 1 => 4 * a \notin {(2 * n - 1) * (2 * n - 1) * b, Above(n)}
    BY DEF RoundsRoot
  <2>4. n # 0 => (2 * n - 1) * (2 * n - 1) * b = Above(n - 1)
    BY <1>2
  <2>5. RoundsRoot(n + 1, a, b) <=> /\ Above(n) <= 4 * a
                                    /\ 4 * a <= Above(n + 1)
                                    /\ (n + 1) % 2 = 1 => 4 * a \notin {Above(n), Above(n + 1)}
    <3>1. n + 1 # 0
      OBVIOUS
    <3>2. (2 * (n + 1) - 1) * (2 * (n + 1) - 1) * b = Above(n)
      BY <1>2
    <3> QED
      BY <3>1, <3>2 DEF RoundsRoot
  <2>6. Above(n) \in Nat /\ Above(n + 1) \in Nat /\ n # 0 => Above(n - 1) \in Nat
    BY <1>1
  <2>7. n % 2 = 1 => (n + 1) % 2 # 1 /\ n # 0
    OBVIOUS
  <2> HIDE DEF Above
  <2>8. CASE 4 * a = Above(n) /\ n % 2 = 1
    BY <2>1, <2>5, <2>7, <2>8
  <2>9. CASE ~(4 * a = Above(n) /\ n % 2 = 1)
    BY <1>1, <1>3, <2>3, <2>4, <2>6, <2>7, <2>9
  <2> QED
    BY <2>8, <2>9
<1>4. 0 \in P
  <2>1. 0 \in 0..limit - 1 /\ 0..0 = {0}
    OBVIOUS
  <2>2. CASE Above(0) < 4 * a
    BY <2>1, <2>2
  <2>3. CASE ~(Above(0) < 4 * a)
    <3>1. 4 * a <= Above(0)
      BY <1>1, <2>3
    <3>2. RoundsRoot(0, a, b) \/ RoundsRoot(0 + 1, a, b)
      BY <1>3, <2>1, <3>1
    <3> QED
      BY <2>1, <3>2
  <2> QED
    BY <2>2, <2>3
<1>5. ASSUME NEW k \in 0..limit - 1 - 1, k \in P PROVE k + 1 \in P
  <2>1. k + 1 \in 0..limit - 1 /\ 0..k \subseteq 0..k + 1 /\ k + 1 \in 0..k + 1
    OBVIOUS
  <2>2. CASE \E n \in 0..k : RoundsRoot(n, a, b) \/ RoundsRoot(n + 1, a, b)
    BY <2>1, <2>2
  <2>3. CASE \A n \in 0..k : Above(n) < 4 * a
    <3>1. CASE Above(k + 1) < 4 * a
      <4>1. \A n \in 0..k + 1 : n \in 0..k \/ n = k + 1
        OBVIOUS
      <4> HIDE DEF Above
      <4>2. \A n \in 0..k + 1 : Above(n) < 4 * a
        BY <2>3, <3>1, <4>1
      <4> QED
        BY <2>1, <4>2
    <3>2. CASE ~(Above(k + 1) < 4 * a)
      <4>1. k + 1 \in 0..limit /\ k \in 0..k /\ k + 1 - 1 = k
        OBVIOUS
      <4>2. 4 * a <= Above(k + 1) /\ Above(k + 1 - 1) < 4 * a
        BY <1>1, <2>3, <3>2, <4>1
      <4>3. RoundsRoot(k + 1, a, b) \/ RoundsRoot(k + 1 + 1, a, b)
        BY <1>3, <2>1, <4>2
      <4> QED
        BY <2>1, <4>3
    <3> QED
      BY <3>1, <3>2
  <2> QED
    BY <1>5, <2>2, <2>3
<1>6. limit - 1 \in P
  <2> HIDE DEF P
  <2>1. limit - 1 \in Nat
    OBVIOUS
  <2>2. \A k \in 0..limit - 1 : k \in P
    BY <1>4, <1>5, <2>1, RangeInduction
  <2> QED
    BY <2>1, <2>2
<1>7. ~(\A n \in 0..limit - 1 : Above(n) < 4 * a)
  <2> DEFINE w == 2 * (limit - 1) + 1
  <2>1. w = 2 * limit - 1 /\ w \in Nat
    OBVIOUS
  <2> HIDE DEF w
  <2>2. w * w \in Nat /\ w * w * b >= w * w
    <3>1. w * w \in Nat
      BY <2>1
    <3>2. \A x \in Nat : x * b >= x
      OBVIOUS
    <3> QED
      BY <3>1, <3>2
  <2>3. 4 * a <= w * w * b
    <3>1. 4 * a <= w * w
      BY <2>1
    <3>2. w * w * b \in Nat
      BY <2>2
    <3> QED
      BY <2>2, <3>1, <3>2
  <2>4. limit - 1 \in 0..limit - 1 /\ Above(limit - 1) = w * w * b
    BY DEF w
  <2> HIDE DEF Above
  <2> QED
    BY <1>1, <2>2, <2>3, <2>4
<1>8. \E n \in 0..limit : RoundsRoot(n, a, b)
  <2>1. PICK n \in 0..limit - 1 : RoundsRoot(n, a, b) \/ RoundsRoot(n + 1, a, b)
    BY <1>6, <1>7
  <2>2. n \in 0..limit /\ n + 1 \in 0..limit
    OBVIOUS
  <2> QED
    BY <2>1, <2>2
<1> QED
  BY <1>8 DEF RoundRoot

\* A quotient has one rounded root: of two neighbours that are both within half of
\* it, one is odd.
LEMMA RootIsUnique ==
  ASSUME NEW a \in Nat, NEW b \in Nat \ {0}, NEW m \in Nat, NEW n \in Nat,
         RoundsRoot(m, a, b), RoundsRoot(n, a, b), m < n
  PROVE  FALSE
<1> DEFINE v == 2 * m + 1
           w == 2 * n - 1
<1>1. v \in Nat \ {0} /\ w \in Nat \ {0} /\ v <= w /\ (v = w => n = m + 1)
  OBVIOUS
<1>2. /\ 4 * a <= v * v * b /\ (m % 2 = 1 => 4 * a # v * v * b)
      /\ w * w * b <= 4 * a /\ (n % 2 = 1 => 4 * a # w * w * b)
  BY DEF RoundsRoot
<1> HIDE DEF v, w
<1>3. CASE v < w
  <2>1. v * v \in Nat /\ w * w \in Nat /\ v * v < w * w
    <3>1. v * v <= v * w /\ v * w < w * w
      BY <1>1, <1>3
    <3> QED
      BY <1>1, <3>1
  <2>2. \A x, y \in Nat : x < y => x * b < y * b /\ x * b \in Nat /\ y * b \in Nat
    OBVIOUS
  <2>3. v * v * b < w * w * b /\ v * v * b \in Nat /\ w * w * b \in Nat
    BY <2>1, <2>2
  <2> QED
    BY <1>2, <2>3
<1>4. CASE v = w
  <2>1. v * v \in Nat /\ v * v * b \in Nat
    BY <1>1, ProductIsNat
  <2>2. 4 * a = v * v * b
    BY <1>2, <1>4, <2>1
  <2>3. m % 2 = 1 \/ n % 2 = 1
    BY <1>1, <1>4
  <2> QED
    BY <1>2, <1>4, <2>2, <2>3
<1> QED
  BY <1>1, <1>3, <1>4

-----------------------------------------------------------------------------
\* One recommendation.

\* The order quantity is a number, for every row, and where an order costs something
\* the rounded root of the formula: the root exists.
LEMMA EoqIsRounded ==
  ASSUME NEW sl \in SKULocation
  PROVE  /\ Eoq(sl) \in Nat /\ LeadDemand(sl) \in Nat
         /\ sl.orderCost # 0 =>
              RoundsRoot(Eoq(sl), 73000 * sl.demand * sl.orderCost, sl.unitCost * sl.rate)
<1> DEFINE d == sl.demand
           o == sl.orderCost
           b == sl.unitCost * sl.rate
           a == 73000 * sl.demand * sl.orderCost
           limit == 365 * sl.demand * (sl.orderCost + 1)
           x == d * o
<1>1. d \in Nat \ {0} /\ o \in Nat /\ sl.rootLead \in Nat
  BY DEF SKULocation
<1>2. sl.unitCost \in Nat \ {0} /\ sl.rate \in Nat \ {0}
  BY DEF SKULocation
<1>3. b \in Nat \ {0}
  BY <1>2
<1>4. LeadDemand(sl) \in Nat
  <2>1. d * sl.rootLead \in Nat
    BY <1>1, ProductIsNat
  <2>2. d * sl.rootLead * sl.rootLead \in Nat
    BY <1>1, <2>1, ProductIsNat
  <2> QED
    BY <2>2 DEF LeadDemand
<1>5. CASE o = 0
  BY <1>4, <1>5 DEF Eoq
<1>6. CASE o # 0
  <2>1. x \in Nat /\ x >= 1
    BY <1>1, <1>6
  <2>2. a = 73000 * x /\ limit = 365 * x + 365 * d
    BY <1>1
  <2>3. Eoq(sl) = RoundRoot(a, b, limit)
    BY <1>6 DEF Eoq
  <2> DEFINE w == 2 * limit - 1
  <2> HIDE DEF d, o, a, b, limit, x
  <2>4. a \in Nat /\ limit \in Nat \ {0}
    BY <1>1, <2>1, <2>2
  <2>5. w \in Nat /\ w >= 730 /\ w >= 730 * x
    BY <1>1, <2>1, <2>2
  <2> HIDE DEF w
  <2>6. w * 730 <= w * w /\ 730 * (730 * x) <= 730 * w
    BY <2>1, <2>5, FactorKeepsOrder
  <2>7. 4 * a <= w * w
    <3>1. w * w \in Nat /\ w * 730 = 730 * w /\ 730 * (730 * x) >= 292000 * x
      BY <2>1, <2>5
    <3> QED
      BY <2>1, <2>2, <2>5, <2>6, <3>1
  <2>8. RoundRoot(a, b, limit) \in 0..limit /\ RoundsRoot(RoundRoot(a, b, limit), a, b)
    BY <1>3, <2>4, <2>7, RootExists DEF w
  <2>9. Eoq(sl) \in Nat /\ RoundsRoot(Eoq(sl), a, b)
    BY <2>3, <2>4, <2>8
  <2> QED
    BY <1>4, <2>9 DEF a, b
<1> QED
  BY <1>5, <1>6 DEF o

LEMMA EoqIsNat ==
  ASSUME NEW sl \in SKULocation
  PROVE  Eoq(sl) \in Nat /\ LeadDemand(sl) \in Nat
BY EoqIsRounded

\* The economic order quantity of every row with an order cost is the one number that
\* round(math.sqrt(...)) can give, halves to even: the limit of the search never cuts
\* it off, and no other number fits (_recommend_for_sku).
THEOREM EoqIsTheRoundedRoot ==
  \A sl \in SKULocation, n \in Nat :
    sl.orderCost # 0 =>
      (Eoq(sl) = n <=> RoundsRoot(n, 73000 * sl.demand * sl.orderCost, sl.unitCost * sl.rate))
<1> SUFFICES ASSUME NEW sl \in SKULocation, NEW n \in Nat, sl.orderCost # 0
             PROVE  Eoq(sl) = n <=>
                      RoundsRoot(n, 73000 * sl.demand * sl.orderCost, sl.unitCost * sl.rate)
  OBVIOUS
<1> DEFINE a == 73000 * sl.demand * sl.orderCost
           b == sl.unitCost * sl.rate
<1>1. a \in Nat /\ b \in Nat \ {0}
  <2>1. /\ sl.demand \in Nat /\ sl.orderCost \in Nat
        /\ sl.unitCost \in Nat \ {0} /\ sl.rate \in Nat \ {0}
    BY DEF SKULocation
  <2>2. 73000 * sl.demand \in Nat
    BY <2>1
  <2>3. sl.unitCost * sl.rate \in Nat \ {0}
    BY <2>1
  <2> QED
    BY <2>1, <2>2, <2>3, ProductIsNat
<1>2. Eoq(sl) \in Nat /\ RoundsRoot(Eoq(sl), a, b)
  BY EoqIsRounded
<1> HIDE DEF a, b
<1>3. RoundsRoot(n, a, b) => Eoq(sl) = n
  <2>1. ASSUME RoundsRoot(n, a, b), Eoq(sl) < n PROVE FALSE
    BY <1>1, <1>2, <2>1, RootIsUnique
  <2>2. ASSUME RoundsRoot(n, a, b), n < Eoq(sl) PROVE FALSE
    BY <1>1, <1>2, <2>2, RootIsUnique
  <2> QED
    BY <1>2, <2>1, <2>2
<1> QED
  BY <1>2, <1>3 DEF a, b

\* A capped order is a number and fits in the room that the site has left.
LEMMA CappedFits ==
  ASSUME NEW sl \in SKULocation
  PROVE  /\ Capped(sl) \in Nat
         /\ sl.capacity # None /\ Capped(sl) > 0 => sl.stock + Capped(sl) <= sl.capacity
<1>1. Eoq(sl) \in Nat /\ sl.stock \in Nat
  BY EoqIsNat DEF SKULocation
<1>2. CASE sl.capacity = None
  BY <1>1, <1>2 DEF Capped
<1>3. CASE sl.capacity # None
  <2> DEFINE free == sl.capacity - sl.stock
             room == Max({0, free})
  <2>1. sl.capacity \in Nat
    BY <1>3 DEF SKULocation
  <2>2. free \in Int
    BY <1>1, <2>1
  <2> HIDE DEF free
  <2>3. room \in {0, free} /\ \A y \in {0, free} : y <= room
    <3>1. IsFiniteSet({0, free}) /\ {0, free} # {} /\ {0, free} \subseteq Int
      <4>1. IsFiniteSet({0})
        BY FS_Singleton
      <4>2. IsFiniteSet({0} \cup {free})
        BY <4>1, FS_AddElement
      <4>3. {0} \cup {free} = {0, free}
        OBVIOUS
      <4> QED
        BY <2>2, <4>2, <4>3
    <3> QED
      BY <3>1, MaxOfFinite
  <2>4. room \in Nat /\ (room > 0 => room = free)
    BY <2>2, <2>3
  <2> HIDE DEF room
  <2>5. \/ Min({Eoq(sl), room}) = Eoq(sl) /\ Eoq(sl) <= room
        \/ Min({Eoq(sl), room}) = room
    <3>1. {Eoq(sl), room} \subseteq Int
      BY <1>1, <2>4
    <3>2. CASE Eoq(sl) <= room
      <4>1. \A y \in {Eoq(sl), room} : Eoq(sl) <= y
        BY <1>1, <2>4, <3>2
      <4> QED
        BY <3>1, <3>2, <4>1, MinIs
    <3>3. CASE ~(Eoq(sl) <= room)
      <4>1. \A y \in {Eoq(sl), room} : room <= y
        BY <1>1, <2>4, <3>3
      <4> QED
        BY <3>1, <4>1, MinIs
    <3> QED
      BY <3>2, <3>3
  <2>6. Capped(sl) = Min({Eoq(sl), room})
    BY <1>3 DEF Capped, room, free
  <2> QED
    BY <1>1, <2>1, <2>4, <2>5, <2>6 DEF free
<1> QED
  BY <1>2, <1>3

\* The fields of a recommendation.
LEMMA RecommendationIs ==
  ASSUME NEW sl
  PROVE  /\ DOMAIN RecommendForSku(sl) = {"sku", "reorder", "days", "quantity"}
         /\ RecommendForSku(sl).sku = sl.sku
         /\ RecommendForSku(sl).days = DaysOfSupply(sl)
         /\ RecommendForSku(sl).reorder <=> ShouldReorder(sl)
         /\ RecommendForSku(sl).quantity = IF ShouldReorder(sl) THEN Capped(sl) ELSE 0
<1> DEFINE rec == RecommendForSku(sl)
<1>1. /\ DOMAIN rec = {"sku", "reorder", "days", "quantity"} /\ rec.sku = sl.sku
      /\ rec.days = DaysOfSupply(sl)
      /\ rec.quantity = IF ShouldReorder(sl) THEN Capped(sl) ELSE 0
      /\ rec.reorder = ShouldReorder(sl)
  BY DEF RecommendForSku
<1>2. rec.reorder <=> ShouldReorder(sl)
  <2> HIDE DEF rec
  <2> QED
    BY <1>1, Zenon
<1> QED
  BY <1>1, <1>2

\* Each recommendation is a number of units that fits its site, none without a reorder.
LEMMA RecommendationFits ==
  ASSUME NEW sl \in SKULocation
  PROVE  LET rec == RecommendForSku(sl)
         IN  /\ rec.sku = sl.sku /\ rec.quantity \in Nat /\ rec.days \in Nat
             /\ ~rec.reorder => rec.quantity = 0
             /\ sl.capacity # None /\ rec.quantity > 0 => sl.stock + rec.quantity <= sl.capacity
<1>1. sl.stock \in Nat /\ sl.demand \in Nat \ {0}
  BY DEF SKULocation
<1>2. DaysOfSupply(sl) \in Nat
  <2>1. 100 * sl.stock \in Nat
    BY <1>1
  <2> QED
    BY <1>1, <2>1, RoundRatioIsNear DEF DaysOfSupply
<1> DEFINE rec == RecommendForSku(sl)
<1>3. /\ rec.sku = sl.sku /\ rec.days = DaysOfSupply(sl)
      /\ rec.quantity = Capped(sl) \/ rec.quantity = 0
      /\ ~rec.reorder => rec.quantity = 0
  BY RecommendationIs
<1> HIDE DEF rec
<1> SUFFICES /\ rec.sku = sl.sku /\ rec.quantity \in Nat /\ rec.days \in Nat
             /\ ~rec.reorder => rec.quantity = 0
             /\ sl.capacity # None /\ rec.quantity > 0 => sl.stock + rec.quantity <= sl.capacity
  BY DEF rec
<1>4. Capped(sl) \in Nat /\ (sl.capacity # None /\ Capped(sl) > 0 => sl.stock + Capped(sl) <= sl.capacity)
  BY CappedFits
<1> QED
  BY <1>2, <1>3, <1>4

\* Between the entries of the table the score is on the line through them.
LEMMA ZScoreOnTheLines ==
  ASSUME NEW level \in 500..999
  PROVE  \/ level \in 500..800 /\ ZScore(level) = 252 * (level - 500)
         \/ level \in 800..900 /\ ZScore(level) = 75600 + 396 * (level - 800)
         \/ level \in 900..950 /\ ZScore(level) = 115200 + 666 * (level - 900)
         \/ level \in 950..975 /\ ZScore(level) = 148500 + 1116 * (level - 950)
         \/ level \in 975..990 /\ ZScore(level) = 176400 + 2220 * (level - 975)
         \/ level \in 990..999 /\ ZScore(level) = 209700 + 7600 * (level - 990)
<1> DEFINE InSegment(i) == Levels[i] <= level /\ level <= Levels[i + 1]
           k == CHOOSE i \in 1..6 : InSegment(i)
           width == Levels[k + 1] - Levels[k]
<1>1. /\ Levels[1] = 500 /\ Levels[2] = 800 /\ Levels[3] = 900 /\ Levels[4] = 950
      /\ Levels[5] = 975 /\ Levels[6] = 990 /\ Levels[7] = 999
  BY DEF Levels
<1>2. /\ Scores[1] = 0 /\ Scores[2] = 84 /\ Scores[3] = 128 /\ Scores[4] = 165
      /\ Scores[5] = 196 /\ Scores[6] = 233 /\ Scores[7] = 309
  BY DEF Scores
<1>3. \E i \in 1..6 : InSegment(i)
  <2>1. level <= 800 => InSegment(1)
    BY <1>1
  <2>2. level >= 800 /\ level <= 900 => InSegment(2)
    BY <1>1
  <2>3. level >= 900 /\ level <= 950 => InSegment(3)
    BY <1>1
  <2>4. level >= 950 /\ level <= 975 => InSegment(4)
    BY <1>1
  <2>5. level >= 975 /\ level <= 990 => InSegment(5)
    BY <1>1
  <2>6. level >= 990 => InSegment(6)
    BY <1>1
  <2> HIDE DEF InSegment
  <2> QED
    BY <2>1, <2>2, <2>3, <2>4, <2>5, <2>6
<1>4. k \in 1..6 /\ InSegment(k)
  <2> HIDE DEF InSegment
  <2> QED
    BY <1>3
<1>5. ZScore(level)
        = (Scores[k] * width + (level - Levels[k]) * (Scores[k + 1] - Scores[k])) * (900 \div width)
  BY DEF ZScore
<1> HIDE DEF k
<1>6. /\ 900 \div 300 = 3 /\ 900 \div 100 = 9 /\ 900 \div 50 = 18
      /\ 900 \div 25 = 36 /\ 900 \div 15 = 60 /\ 900 \div 9 = 100
  OBVIOUS
<1>7. CASE k = 1
  <2>1. ZScore(level) = (0 * 300 + (level - 500) * 84) * 3 /\ level \in 500..800
    BY <1>1, <1>2, <1>4, <1>5, <1>6, <1>7
  <2> QED
    BY <2>1
<1>8. CASE k = 2
  <2>1. ZScore(level) = (84 * 100 + (level - 800) * 44) * 9 /\ level \in 800..900
    BY <1>1, <1>2, <1>4, <1>5, <1>6, <1>8
  <2> QED
    BY <2>1
<1>9. CASE k = 3
  <2>1. ZScore(level) = (128 * 50 + (level - 900) * 37) * 18 /\ level \in 900..950
    BY <1>1, <1>2, <1>4, <1>5, <1>6, <1>9
  <2> QED
    BY <2>1
<1>10. CASE k = 4
  <2>1. ZScore(level) = (165 * 25 + (level - 950) * 31) * 36 /\ level \in 950..975
    BY <1>1, <1>2, <1>4, <1>5, <1>6, <1>10
  <2> QED
    BY <2>1
<1>11. CASE k = 5
  <2>1. ZScore(level) = (196 * 15 + (level - 975) * 37) * 60 /\ level \in 975..990
    BY <1>1, <1>2, <1>4, <1>5, <1>6, <1>11
  <2> QED
    BY <2>1
<1>12. CASE k = 6
  <2>1. ZScore(level) = (233 * 9 + (level - 990) * 76) * 100 /\ level \in 990..999
    BY <1>1, <1>2, <1>4, <1>5, <1>6, <1>12
  <2> QED
    BY <2>1
<1> QED
  BY <1>4, <1>7, <1>8, <1>9, <1>10, <1>11, <1>12

\* The levels that a request may ask for.
ServiceLevels == 500..999

LEMMA ZScoreGrows ==
  ASSUME NEW low \in ServiceLevels, NEW high \in ServiceLevels, low <= high
  PROVE  ZScore(low) \in Nat /\ ZScore(high) \in Nat /\ ZScore(low) <= ZScore(high)
<1> USE DEF ServiceLevels
<1> DEFINE Line(l, z) ==
             \/ l \in 500..800 /\ z = 252 * (l - 500)
             \/ l \in 800..900 /\ z = 75600 + 396 * (l - 800)
             \/ l \in 900..950 /\ z = 115200 + 666 * (l - 900)
             \/ l \in 950..975 /\ z = 148500 + 1116 * (l - 950)
             \/ l \in 975..990 /\ z = 176400 + 2220 * (l - 975)
             \/ l \in 990..999 /\ z = 209700 + 7600 * (l - 990)
           y == ZScore(low)
           z == ZScore(high)
<1>1. Line(low, y) /\ Line(high, z)
  BY ZScoreOnTheLines
<1> HIDE DEF y, z
<1>2. y \in Nat /\ z \in Nat
  BY <1>1
<1>3. y <= z
  BY <1>1, <1>2
<1> QED
  BY <1>2, <1>3 DEF y, z

-----------------------------------------------------------------------------
\* The invariant.

LEMMA InitInvariant == Init => IInv
BY DEF Init, IInv, Solved, NoPlan

\* What is computed from the request and the recommendations stays while they do.
LEMMA SharedUnchanged ==
  ASSUME UNCHANGED <<request, recs>>
  PROVE  /\ Rows' = Rows /\ Recommended' = Recommended
         /\ OverBudget' = OverBudget /\ LpOptima' = LpOptima
         /\ Plan(recs, FALSE)' = Plan(recs, FALSE)
         /\ \A f : Plan(Shared(f), TRUE)' = Plan(Shared(f), TRUE)
<1>1. request' = request /\ recs' = recs
  OBVIOUS
<1>2. Rows' = Rows
  BY <1>1 DEF Rows
<1>3. \A sku, rows : LastWith(sku, rows)' = LastWith(sku, rows)
  BY <1>1 DEF LastWith
<1>4. \A sku : CostBySku(sku)' = CostBySku(sku)
  BY <1>1, <1>2, <1>3 DEF CostBySku
<1>5. \A list : TotalCost(list)' = TotalCost(list)
  <2> SUFFICES ASSUME NEW list PROVE TotalCost(list)' = TotalCost(list)
    OBVIOUS
  <2>1. [i \in DOMAIN list |-> list[i].quantity * CostBySku(list[i].sku)]'
          = [i \in DOMAIN list |-> list[i].quantity * CostBySku(list[i].sku)]
    BY <1>4
  <2> QED
    BY <2>1, Zenon DEF TotalCost
<1>6. Fractions' = Fractions
  BY <1>1, <1>2 DEF Fractions
<1>7. \A sku : Coefficient(sku)' = Coefficient(sku) /\ InverseUrgency(sku)' = InverseUrgency(sku)
  BY <1>1, <1>2, <1>3, <1>4 DEF Coefficient, InverseUrgency
<1>8. \A skus : Cost(skus)' = Cost(skus)
  <2>1. [s \in Fractions |-> Coefficient(s)]' = [s \in Fractions |-> Coefficient(s)]
    BY <1>6, <1>7
  <2> QED
    BY <2>1, Zenon DEF Cost
<1>9. \A s, t : WorthMore(s, t)' = WorthMore(s, t)
  BY <1>7 DEF WorthMore
<1>10. Splits' = Splits
  BY <1>1, <1>6, <1>7, <1>8, <1>9 DEF Splits
<1>11. LpOptima' = LpOptima
  <2>1. (Cost(Fractions) <= request.budget)' = (Cost(Fractions) <= request.budget)
    BY <1>1, <1>6, <1>8
  <2>2. {[s \in Fractions |-> Full]}' = {[s \in Fractions |-> Full]}
    BY <1>6 DEF Full
  <2>3. \A d : Funding(d)' = Funding(d)
    BY <1>1, <1>6, <1>7, <1>8 DEF Funding, Full, Nothing
  <2>4. {Funding(d) : d \in Splits}' = {Funding(d) : d \in Splits}
    BY <1>10, <2>3
  <2> QED
    BY <2>1, <2>2, <2>4, Zenon DEF LpOptima
<1>12. OverBudget' = OverBudget
  BY <1>1, <1>5 DEF OverBudget
<1>13. Plan(recs, FALSE)' = Plan(recs, FALSE)
  BY <1>1, <1>5 DEF Plan
<1>14. \A f : Plan(Shared(f), TRUE)' = Plan(Shared(f), TRUE)
  <2>1. \A f : Shared(f)' = Shared(f)
    BY <1>1, <1>2 DEF Shared, Adjusted
  <2> QED
    BY <1>5, <2>1 DEF Plan
<1>15. Recommended' = Recommended
  BY <1>1, <1>2 DEF Recommended
<1> QED
  BY <1>2, <1>11, <1>12, <1>13, <1>14, <1>15

LEMMA NextKeepsInvariant == IInv /\ [Next]_vars => IInv'
<1> SUFFICES ASSUME IInv, [Next]_vars PROVE IInv'
  OBVIOUS
<1>1. CASE Recommend
  <2>1. recs' = Recommended /\ request' = request /\ pc' # "start" /\ plan' = plan /\ pc = "start"
    BY <1>1 DEF Recommend, Recommended
  <2>2. Recommended' = Recommended
    BY <2>1 DEF Recommended, Rows
  <2>3. ~Solved'
    BY <2>1 DEF IInv, Solved
  <2> QED
    BY <2>1, <2>2, <2>3 DEF IInv
<1>2. CASE pc = "budget" /\ pc' = "done" /\ UNCHANGED <<request, recs>>
           /\ (Solved' => \/ ~OverBudget /\ plan' = Plan(recs, FALSE)
                          \/ OverBudget /\ \E f \in LpOptima : plan' = Plan(Shared(f), TRUE))
  <2>1. recs' = Recommended' /\ request' \in Requests
    BY <1>2, SharedUnchanged DEF IInv
  <2>2. Solved' => \/ ~OverBudget' /\ plan' = Plan(recs, FALSE)'
                   \/ OverBudget' /\ \E f \in LpOptima' : plan' = Plan(Shared(f), TRUE)'
    BY <1>2, SharedUnchanged
  <2> QED
    BY <1>2, <2>1, <2>2 DEF IInv
<1>3. CASE Unconstrained
  BY <1>2, <1>3 DEF Unconstrained
<1>4. CASE ShareBudget
  BY <1>2, <1>4 DEF ShareBudget
<1>5. CASE LpFails
  <2>1. ~Solved'
    BY <1>5 DEF LpFails, Solved, Raised
  <2> QED
    BY <1>2, <1>5, <2>1 DEF LpFails
<1>6. CASE Done \/ UNCHANGED vars
  <2>1. UNCHANGED vars
    BY <1>6 DEF Done
  <2>2. /\ request' = request /\ recs' = recs /\ pc' = pc /\ plan' = plan
        /\ Solved' <=> Solved
    BY <2>1 DEF vars, Solved
  <2>3. request' \in Requests /\ recs' = IF pc' = "start" THEN <<>> ELSE Recommended'
    BY <2>2, SharedUnchanged DEF IInv
  <2>4. Solved' => \/ ~OverBudget' /\ plan' = Plan(recs, FALSE)'
                   \/ OverBudget' /\ \E f \in LpOptima' : plan' = Plan(Shared(f), TRUE)'
    BY <2>2, SharedUnchanged DEF IInv
  <2> QED
    BY <2>2, <2>3, <2>4 DEF IInv
<1> QED
  BY <1>1, <1>3, <1>4, <1>5, <1>6 DEF Next

\* What each step has computed (ReplenishmentSolver.solve): where the theorems start.
LEMMA InvariantHolds == Spec => []IInv
BY InitInvariant, NextKeepsInvariant, PTL DEF Spec

-----------------------------------------------------------------------------
\* What the invariant says of each row.

LEMMA RowsTyped ==
  ASSUME IInv
  PROVE  /\ Rows = 1..Len(request.skus) /\ Len(request.skus) \in Nat
         /\ IsFiniteSet(Rows) /\ Rows \subseteq Int
         /\ \A i \in Rows : request.skus[i] \in SKULocation
         /\ request.budget # None => request.budget \in Nat
<1>1. IsRequest(request)
  BY RequestsAssumption DEF IInv
<1>2. request.skus \in Seq(SKULocation)
  BY <1>1 DEF IsRequest
<1>3. Len(request.skus) \in Nat /\ Rows = 1..Len(request.skus)
  BY <1>2 DEF Rows
<1>4. \A i \in 1..Len(request.skus) : request.skus[i] \in SKULocation
  BY <1>2
<1>5. IsFiniteSet(1..Len(request.skus))
  BY <1>3, FS_Interval
<1>6. IsFiniteSet(Rows)
  BY <1>3, <1>5, Zenon
<1>7. request.budget # None => request.budget \in Nat
  BY <1>1 DEF IsRequest
<1> QED
  BY <1>3, <1>4, <1>6, <1>7

LEMMA RecsTyped ==
  ASSUME IInv, pc # "start"
  PROVE  /\ DOMAIN recs = Rows
         /\ \A i \in Rows :
              LET sl == request.skus[i]
              IN  /\ recs[i] = RecommendForSku(sl)
                  /\ recs[i].sku = sl.sku /\ recs[i].quantity \in Nat /\ recs[i].days \in Nat
                  /\ ~recs[i].reorder => recs[i].quantity = 0
                  /\ sl.capacity # None /\ recs[i].quantity > 0 =>
                       sl.stock + recs[i].quantity <= sl.capacity
                  /\ sl.unitCost \in Nat \ {0}
<1>1. recs = [i \in Rows |-> RecommendForSku(request.skus[i])]
  BY DEF IInv, Recommended
<1>2. ASSUME NEW i \in Rows
      PROVE  /\ request.skus[i] \in SKULocation
             /\ recs[i] = RecommendForSku(request.skus[i])
             /\ request.skus[i].unitCost \in Nat \ {0}
  BY <1>1, RowsTyped DEF SKULocation
<1>3. DOMAIN recs = Rows
  BY <1>1
<1> QED
  BY <1>2, <1>3, RecommendationFits

LEMMA LastIsOne ==
  ASSUME IInv, NEW rows \in SUBSET Rows, NEW sku, NEW r \in rows, request.skus[r].sku = sku
  PROVE  LastWith(sku, rows) \in rows /\ request.skus[LastWith(sku, rows)].sku = sku
<1> DEFINE S == {i \in rows : request.skus[i].sku = sku}
<1>1. S \subseteq Rows /\ S # {}
  OBVIOUS
<1>2. IsFiniteSet(S) /\ S \subseteq Int
  BY <1>1, RowsTyped, FS_Subset
<1>3. Max(S) \in S
  <2> HIDE DEF S
  <2> QED
    BY <1>1, <1>2, MaxOfFinite
<1> QED
  BY <1>3 DEF LastWith

\* The program has one variable for each SKU with a reorder; its coefficients are
\* amounts of money and the weights of the objective positive.
LEMMA ProgramTyped ==
  ASSUME IInv, pc # "start"
  PROVE  /\ IsFiniteSet(Fractions)
         /\ \A s \in Fractions : Coefficient(s) \in Nat /\ InverseUrgency(s) \in Nat \ {0}
         /\ \A i \in Rows : CostBySku(recs[i].sku) \in Nat
<1>1. IsFiniteSet(Fractions)
  <2> DEFINE J == {j \in Rows : recs[j].reorder}
             at == [i \in J |-> recs[i].sku]
  <2>1. at \in Surjection(J, Fractions)
    BY DEF Surjection, Fractions
  <2>2. IsFiniteSet(J)
    BY RowsTyped, FS_Subset
  <2> HIDE DEF at, J
  <2> QED
    BY <2>1, <2>2, FS_Surjection
<1>2. ASSUME NEW i \in Rows
      PROVE  /\ LastWith(recs[i].sku, Rows) \in Rows
             /\ CostBySku(recs[i].sku) \in Nat
             /\ Coefficient(recs[i].sku) \in Nat
  <2>1. LastWith(recs[i].sku, Rows) \in Rows
    BY RecsTyped, LastIsOne
  <2>2. CostBySku(recs[i].sku) \in Nat
    BY <2>1, RecsTyped DEF CostBySku
  <2>3. recs[LastWith(recs[i].sku, Rows)].quantity \in Nat
    BY <2>1, RecsTyped
  <2> QED
    BY <2>1, <2>2, <2>3, ProductIsNat DEF Coefficient
<1>3. ASSUME NEW i \in Rows, recs[i].reorder
      PROVE  InverseUrgency(recs[i].sku) \in Nat \ {0}
  <2> DEFINE J == {j \in Rows : recs[j].reorder}
             l == LastWith(recs[i].sku, J)
  <2>1. l \in J
    <3>1. J \in SUBSET Rows /\ i \in J /\ request.skus[i].sku = recs[i].sku
      BY <1>3, RecsTyped
    <3> HIDE DEF J
    <3> QED
      BY <3>1, LastIsOne
  <2>2. recs[l].days \in Nat
    BY <2>1, RecsTyped
  <2>3. InverseUrgency(recs[i].sku) = Max({recs[l].days, 10})
    BY DEF InverseUrgency
  <2> DEFINE n == recs[l].days
  <2> HIDE DEF J, l, n
  <2>4. IsFiniteSet({n, 10}) /\ {n, 10} # {} /\ {n, 10} \subseteq Int
    <3>1. IsFiniteSet({n})
      BY FS_Singleton
    <3>2. IsFiniteSet({n} \cup {10})
      BY <3>1, FS_AddElement
    <3>3. {n} \cup {10} = {n, 10}
      OBVIOUS
    <3> QED
      BY <2>2, <3>2, <3>3 DEF n
  <2>5. Max({n, 10}) \in {n, 10} /\ \A y \in {n, 10} : y <= Max({n, 10})
    BY <2>4, MaxOfFinite
  <2>6. Max({n, 10}) \in Nat \ {0}
    BY <2>2, <2>5 DEF n
  <2> QED
    BY <2>3, <2>6 DEF n
<1> QED
  BY <1>1, <1>2, <1>3 DEF Fractions

\* The cost of any of the orders is an amount of money.
LEMMA CostTyped ==
  ASSUME IInv, pc # "start", NEW skus \in SUBSET Fractions
  PROVE  Cost(skus) \in Nat /\ IsFiniteSet(skus)
<1> DEFINE c == [s \in Fractions |-> Coefficient(s)]
<1>1. IsFiniteSet(skus) /\ \A s \in skus : c[s] \in Nat
  BY ProgramTyped, FS_Subset
<1>2. Cost(skus) = Total(c, skus)
  BY DEF Cost
<1> HIDE DEF c
<1> QED
  BY <1>1, <1>2, TotalNat

\* An optimum funds each order in full, not at all, or in a part less than one.
LEMMA OptimaTyped ==
  ASSUME IInv, pc # "start", OverBudget, NEW f \in LpOptima
  PROVE  /\ DOMAIN f = Fractions
         /\ \A s \in Fractions :
              \/ f[s] = Full \/ f[s] = Nothing
              \/ f[s].num \in Nat /\ f[s].den \in Nat \ {0} /\ f[s].num < f[s].den
<1>1. CASE Cost(Fractions) <= request.budget
  BY <1>1 DEF LpOptima
<1>2. CASE ~(Cost(Fractions) <= request.budget)
  <2>1. PICK d \in Splits : f = Funding(d)
    BY <1>2 DEF LpOptima
  <2>2. /\ d.full \in SUBSET Fractions /\ d.part \in Fractions
        /\ Cost(d.full) <= request.budget
        /\ Cost(d.full) + Coefficient(d.part) > request.budget
    BY DEF Splits
  <2>3. Cost(d.full) \in Nat /\ Coefficient(d.part) \in Nat /\ request.budget \in Nat
    BY <2>2, CostTyped, ProgramTyped, RowsTyped DEF OverBudget
  <2> DEFINE part == [num |-> request.budget - Cost(d.full), den |-> Coefficient(d.part)]
  <2>4. part.num \in Nat /\ part.den \in Nat \ {0} /\ part.num < part.den
    BY <2>2, <2>3
  <2>5. /\ DOMAIN f = Fractions
        /\ \A s \in Fractions : f[s] = IF s \in d.full THEN Full ELSE IF s = d.part THEN part ELSE Nothing
    BY <2>1 DEF Funding
  <2> HIDE DEF part
  <2> QED
    BY <2>4, <2>5
<1> QED
  BY <1>1, <1>2

\* Sharing the budget keeps an order or makes it smaller.
LEMMA SharingCuts ==
  ASSUME IInv, pc # "start", OverBudget, NEW f \in LpOptima, NEW i \in Rows
  PROVE  LET order == Shared(f)[i].quantity
         IN  /\ Shared(f)[i].sku = recs[i].sku
             /\ order \in 0..recs[i].quantity
             /\ recs[i].sku \in Fractions /\ f[recs[i].sku] = Full => order = recs[i].quantity
             /\ recs[i].sku \in Fractions /\ f[recs[i].sku] = Nothing => order = 0
             /\ recs[i].sku \in Fractions =>
                  order = RoundRatio(recs[i].quantity * f[recs[i].sku].num, f[recs[i].sku].den)
             /\ recs[i].sku \notin Fractions => order = recs[i].quantity
<1> DEFINE rec == recs[i]
           q == recs[i].quantity
           g == f[recs[i].sku]
           rounded == RoundRatio(q * g.num, g.den)
           adjusted == Shared(f)[i]
<1>0. q \in Nat /\ DOMAIN f = Fractions
  BY RecsTyped, OptimaTyped
<1>1. adjusted = Adjusted(rec, f)
  BY DEF Shared
<1>2. /\ rec.sku \in Fractions => adjusted = [rec EXCEPT !.quantity = rounded]
      /\ rec.sku \notin Fractions => adjusted = rec
  BY <1>0, <1>1 DEF Adjusted
<1>3. /\ adjusted.sku = rec.sku
      /\ rec.sku \in Fractions => adjusted.quantity = rounded
  <2>1. rec = RecommendForSku(request.skus[i])
    BY RecsTyped
  <2>2. DOMAIN rec = {"sku", "reorder", "days", "quantity"}
    BY <2>1, RecommendationIs
  <2> HIDE DEF rec, rounded, adjusted
  <2> QED
    BY <1>2, <2>2
<1>4. CASE rec.sku \in Fractions
  <2>1. \/ g = Full \/ g = Nothing
        \/ g.num \in Nat /\ g.den \in Nat \ {0} /\ g.num < g.den
    BY <1>4, OptimaTyped
  <2>2. g = Full => rounded = q /\ rounded \in 0..q
    BY <1>0, RoundRatioOfWhole DEF Full
  <2>3. g = Nothing => rounded = 0 /\ rounded \in 0..q
    BY <1>0, RoundRatioOfWhole DEF Nothing
  <2>4. ASSUME g.num \in Nat, g.den \in Nat \ {0}, g.num < g.den
        PROVE  rounded \in 0..q
    <3> DEFINE n == g.num
               m == g.den
    <3>1. q * n \in Nat /\ q * n <= q * m /\ q * m = m * q
      BY <1>0, <2>4, ProductIsNat, FactorKeepsOrder
    <3> HIDE DEF n, m, q
    <3>2. n \in Nat /\ m \in Nat \ {0} /\ q \in Nat
      BY <1>0, <2>4 DEF n, m, q
    <3>3. RoundRatio(q * n, m) \in Nat /\ RoundRatio(q * n, m) <= q
      BY <3>1, <3>2, RoundRatioIsNear, RoundRatioIsBounded
    <3> QED
      BY <3>2, <3>3 DEF n, m, q
  <2> QED
    BY <1>3, <1>4, <2>1, <2>2, <2>3, <2>4
<1>5. CASE rec.sku \notin Fractions
  BY <1>0, <1>2, <1>5
<1> QED
  BY <1>3, <1>4, <1>5

-----------------------------------------------------------------------------
\* What the runs check, for every request.

\* No order overfills its site, and none is larger than recommended
\* (_recommend_for_sku, _apply_budget_constraint).
THEOREM OrdersFit == Spec => []OrdersFitTheSite
<1>1. IInv => OrdersFitTheSite
  <2> SUFFICES ASSUME IInv, Solved, NEW i \in Rows
               PROVE  LET sl == request.skus[i]
                          order == plan.orders[i].quantity
                      IN  /\ 0 <= order /\ order <= recs[i].quantity
                          /\ (sl.capacity # None /\ order > 0) => sl.stock + order <= sl.capacity
    BY DEF OrdersFitTheSite
  <2> DEFINE sl == request.skus[i]
             order == plan.orders[i].quantity
             q == recs[i].quantity
  <2>1. pc # "start"
    BY DEF IInv
  <2>2. order \in 0..q
    <3>1. CASE plan = Plan(recs, FALSE)
      <4>1. order = q /\ q \in Nat
        BY <2>1, <3>1, RecsTyped DEF Plan
      <4> QED
        BY <4>1
    <3>2. CASE OverBudget /\ \E f \in LpOptima : plan = Plan(Shared(f), TRUE)
      <4>1. PICK f \in LpOptima : plan = Plan(Shared(f), TRUE)
        BY <3>2
      <4>2. order = Shared(f)[i].quantity
        BY <4>1 DEF Plan
      <4> QED
        BY <2>1, <3>2, <4>2, SharingCuts
    <3> QED
      BY <3>1, <3>2 DEF IInv
  <2>3. /\ q \in Nat /\ sl.stock \in Nat /\ sl.capacity \in {None} \cup Nat
        /\ sl.capacity # None /\ q > 0 => sl.stock + q <= sl.capacity
    BY <2>1, RecsTyped, RowsTyped DEF SKULocation
  <2> HIDE DEF sl, order, q
  <2>4. /\ 0 <= order /\ order <= q
        /\ (sl.capacity # None /\ order > 0) => sl.stock + order <= sl.capacity
    BY <2>2, <2>3
  <2> QED
    BY <2>4 DEF sl, order, q
<1> QED
  BY <1>1, InvariantHolds, PTL

\* Of two locations that differ in their level only, the higher one reorders whenever
\* the other does, and as much (_z_score, _recommend_for_sku).
THEOREM MoreServiceMeansMoreStock == Spec => []MoreServiceMoreStock
<1>1. IInv => MoreServiceMoreStock
  <2> SUFFICES ASSUME IInv, NEW i \in DOMAIN recs, NEW j \in DOMAIN recs,
                      request.skus[i].level <= request.skus[j].level,
                      request.skus[j] = [request.skus[i] EXCEPT !.level = request.skus[j].level,
                                                                !.sku = request.skus[j].sku]
               PROVE  /\ recs[i].reorder => recs[j].reorder
                      /\ recs[i].quantity <= recs[j].quantity
    BY DEF MoreServiceMoreStock
  <2> DEFINE a == request.skus[i]
             b == request.skus[j]
  <2>1. pc # "start"
    <3>1. pc = "start" => DOMAIN recs = {}
      BY DEF IInv
    <3> QED
      BY <3>1
  <2>2. /\ i \in Rows /\ j \in Rows /\ a \in SKULocation /\ b \in SKULocation
        /\ recs[i] = RecommendForSku(a) /\ recs[j] = RecommendForSku(b)
    BY <2>1, RecsTyped, RowsTyped
  <2>3. b = [a EXCEPT !.level = b.level, !.sku = b.sku]
    OBVIOUS
  <2> HIDE DEF a, b
  <2>4. /\ b.stock = a.stock /\ b.demand = a.demand /\ b.stdDev = a.stdDev
        /\ b.rootLead = a.rootLead /\ b.unitCost = a.unitCost /\ b.rate = a.rate
        /\ b.orderCost = a.orderCost /\ b.capacity = a.capacity
    BY <2>2, <2>3 DEF SKULocation
  <2>5. Capped(b) = Capped(a) /\ Capped(a) \in Nat /\ Capped(b) \in Nat
    <3>1. Eoq(b) = Eoq(a)
      BY <2>4 DEF Eoq, LeadDemand
    <3> QED
      BY <2>2, <2>4, <3>1, CappedFits DEF Capped
  <2>6. ReorderPoint(a) \in Int /\ ReorderPoint(b) \in Int /\ ReorderPoint(a) <= ReorderPoint(b)
    <3> DEFINE spread == a.stdDev * a.rootLead
               lead == LeadDemand(a)
               za == ZScore(a.level)
               zb == ZScore(b.level)
    <3>1. a.stdDev \in Nat /\ a.rootLead \in Nat /\ a.level \in 500..999 /\ b.level \in 500..999
      BY <2>2 DEF SKULocation
    <3>2. spread \in Nat
      BY <3>1, ProductIsNat
    <3>0. a.level <= b.level
      BY DEF a, b
    <3>3. za \in Nat /\ zb \in Nat /\ za <= zb
      <4> DEFINE low == a.level
                 high == b.level
      <4>1. low \in ServiceLevels /\ high \in ServiceLevels /\ low <= high
        BY <3>1, <3>0 DEF ServiceLevels
      <4> HIDE DEF low, high
      <4>2. ZScore(low) \in Nat /\ ZScore(high) \in Nat /\ ZScore(low) <= ZScore(high)
        BY <4>1, ZScoreGrows, Zenon
      <4> QED
        BY <4>2, Zenon DEF low, high
    <3>4. LeadDemand(b) = lead /\ lead \in Nat
      BY <2>2, <2>4, EoqIsNat DEF LeadDemand
    <3>5. SafetyStock(a) = spread * za /\ SafetyStock(b) = spread * zb
      <4>1. \A x, y, z \in Nat : x * y * z = (y * z) * x
        OBVIOUS
      <4>2. SafetyStock(a) = za * a.stdDev * a.rootLead
        BY DEF SafetyStock
      <4>3. SafetyStock(b) = zb * a.stdDev * a.rootLead
        BY <2>4 DEF SafetyStock
      <4> HIDE DEF za, zb
      <4> QED
        BY <3>1, <3>3, <4>1, <4>2, <4>3
    <3> HIDE DEF spread, lead, za, zb
    <3>6. spread * za <= spread * zb /\ spread * za \in Nat /\ spread * zb \in Nat
      BY <3>2, <3>3, FactorKeepsOrder, ProductIsNat
    <3> QED
      BY <3>4, <3>5, <3>6 DEF ReorderPoint, lead
  <2>7. /\ recs[i].reorder <=> ShouldReorder(a)
        /\ recs[j].reorder <=> ShouldReorder(b)
        /\ recs[i].quantity = IF ShouldReorder(a) THEN Capped(a) ELSE 0
        /\ recs[j].quantity = IF ShouldReorder(b) THEN Capped(b) ELSE 0
    BY <2>2, RecommendationIs
  <2>8. a.stock \in Nat
    BY <2>2 DEF SKULocation
  <2>9. ShouldReorder(a) => ShouldReorder(b)
    BY <2>4, <2>6, <2>8 DEF ShouldReorder
  <2>10. recs[i].quantity <= recs[j].quantity
    BY <2>5, <2>7, <2>9
  <2> QED
    BY <2>7, <2>9, <2>10
<1> QED
  BY <1>1, InvariantHolds, PTL

-----------------------------------------------------------------------------
\* Where each SKU is at one location, a variable of the program is one order.

LEMMA DistinctRows ==
  ASSUME IInv, pc # "start", Distinct, NEW i \in Rows
  PROVE  /\ \A j \in Rows : recs[j].sku = recs[i].sku => j = i
         /\ CostBySku(recs[i].sku) = request.skus[i].unitCost
         /\ Coefficient(recs[i].sku) = recs[i].quantity * request.skus[i].unitCost
         /\ recs[i].sku \in Fractions <=> recs[i].reorder
         /\ recs[i].reorder => InverseUrgency(recs[i].sku) = Max({recs[i].days, 10})
<1> DEFINE s == recs[i].sku
           J == {j \in Rows : recs[j].reorder}
<1>1. \A j \in Rows : recs[j].sku = s => j = i
  BY RecsTyped DEF Distinct
<1>2. \A j \in Rows : request.skus[j].sku = s => j = i
  BY RecsTyped DEF Distinct
<1>3. LastWith(s, Rows) = i
  BY <1>2, RecsTyped, LastIsOne
<1>4. recs[i].reorder => LastWith(s, J) = i
  <2>1. recs[i].reorder => J \in SUBSET Rows /\ i \in J /\ request.skus[i].sku = s
    BY RecsTyped
  <2> HIDE DEF J
  <2>2. recs[i].reorder => LastWith(s, J) \in Rows /\ request.skus[LastWith(s, J)].sku = s
    BY <2>1, LastIsOne
  <2> QED
    BY <1>2, <2>2
<1>5. s \in Fractions <=> recs[i].reorder
  <2>1. recs[i].reorder => s \in Fractions
    BY DEF Fractions
  <2>2. ASSUME s \in Fractions PROVE recs[i].reorder
    <3>1. PICK j \in Rows : recs[j].reorder /\ recs[j].sku = s
      BY <2>2 DEF Fractions
    <3> QED
      BY <1>1, <3>1
  <2> QED
    BY <2>1, <2>2
<1>6. recs[i].reorder => InverseUrgency(s) = Max({recs[i].days, 10})
  BY <1>4 DEF InverseUrgency
<1> QED
  BY <1>1, <1>3, <1>5, <1>6 DEF CostBySku, Coefficient

\* The cost of each recommended order.
Costs == [i \in Rows |-> recs[i].quantity * request.skus[i].unitCost]

\* What the program counts for some of the SKUs is the cost of their orders.
LEMMA CostOfOrders ==
  ASSUME IInv, pc # "start", Distinct, NEW F \in SUBSET Fractions
  PROVE  Cost(F) = Total(Costs, {i \in Rows : recs[i].sku \in F})
<1> DEFINE I == {i \in Rows : recs[i].sku \in F}
           h == [i \in Rows |-> recs[i].sku]
           c == [s \in Fractions |-> Coefficient(s)]
<1>1. F = {h[i] : i \in I}
  BY DEF Fractions
<1>2. \A i \in I : /\ c[h[i]] = Costs[i] /\ Costs[i] \in Int
                   /\ \A j \in I : h[i] = h[j] => i = j
  <2> SUFFICES ASSUME NEW i \in I
               PROVE  /\ c[h[i]] = Costs[i] /\ Costs[i] \in Int
                      /\ \A j \in I : h[i] = h[j] => i = j
    OBVIOUS
  <2>1. c[h[i]] = recs[i].quantity * request.skus[i].unitCost
    BY DistinctRows
  <2>2. recs[i].quantity * request.skus[i].unitCost \in Nat
    BY RecsTyped, ProductIsNat
  <2>3. Costs[i] = recs[i].quantity * request.skus[i].unitCost
    BY DEF Costs
  <2>4. \A j \in I : h[i] = h[j] => i = j
    BY DistinctRows
  <2> QED
    BY <2>1, <2>2, <2>3, <2>4
<1>3. IsFiniteSet(I)
  BY RowsTyped, FS_Subset
<1>4. Cost(F) = Total(c, F)
  BY DEF Cost
<1> SUFFICES Cost(F) = Total(Costs, I)
  OBVIOUS
<1> HIDE DEF I, h, c
<1>5. Total(c, {h[i] : i \in I}) = Total([i \in I |-> c[h[i]]], I)
  BY <1>2, <1>3, TotalRenamed
<1>6. Total([i \in I |-> c[h[i]]], I) = Total(Costs, I)
  BY <1>2, <1>3, TotalAgrees
<1>7. Total(c, F) = Total(c, {h[i] : i \in I})
  BY <1>1, Zenon
<1> QED
  BY <1>4, <1>5, <1>6, <1>7, Zenon

\* What a list of orders costs.
LEMMA CostOfList ==
  ASSUME IInv, pc # "start", Distinct, NEW list, DOMAIN list = Rows,
         \A i \in Rows : list[i].sku = recs[i].sku
  PROVE  TotalCost(list) = Total([i \in Rows |-> list[i].quantity * request.skus[i].unitCost], Rows)
<1>1. [i \in DOMAIN list |-> list[i].quantity * CostBySku(list[i].sku)]
        = [i \in Rows |-> list[i].quantity * request.skus[i].unitCost]
  <2>1. \A i \in Rows : CostBySku(list[i].sku) = request.skus[i].unitCost
    BY DistinctRows
  <2> QED
    BY <2>1
<1>2. TotalCost(list) = Total([i \in DOMAIN list |-> list[i].quantity * CostBySku(list[i].sku)], Rows)
  BY Zenon DEF TotalCost
<1> QED
  BY <1>1, <1>2, Zenon

\* Over the budget, no optimum funds every order in full: it is a split.
LEMMA OptimumIsASplit ==
  ASSUME IInv, pc # "start", Distinct, OverBudget, NEW f \in LpOptima
  PROVE  \E d \in Splits : f = Funding(d)
<1> DEFINE I == {i \in Rows : recs[i].sku \in Fractions}
<1>1. TotalCost(recs) = Total(Costs, Rows)
  BY RecsTyped, CostOfList DEF Costs
<1>2. Cost(Fractions) = Total(Costs, I)
  BY CostOfOrders
<1>3. Total(Costs, Rows) = Total(Costs, I)
  <2>1. \A i \in Rows : Costs[i] \in Int /\ (i \notin I => Costs[i] = 0)
    <3> SUFFICES ASSUME NEW i \in Rows PROVE Costs[i] \in Int /\ (i \notin I => Costs[i] = 0)
      OBVIOUS
    <3>1. recs[i].quantity \in Nat /\ request.skus[i].unitCost \in Nat
      BY RecsTyped
    <3>2. Costs[i] = recs[i].quantity * request.skus[i].unitCost
      BY DEF Costs
    <3>3. i \notin I => recs[i].quantity = 0
      BY DistinctRows, RecsTyped
    <3> QED
      BY <3>1, <3>2, <3>3
  <2>2. IsFiniteSet(Rows) /\ I \in SUBSET Rows
    BY RowsTyped
  <2> HIDE DEF I
  <2> QED
    BY <2>1, <2>2, TotalIgnoresZeros
<1>4. request.budget \in Nat /\ Cost(Fractions) \in Nat /\ TotalCost(recs) > request.budget
  BY RowsTyped, CostTyped DEF OverBudget
<1>5. ~(Cost(Fractions) <= request.budget)
  BY <1>1, <1>2, <1>3, <1>4
<1> QED
  BY <1>5 DEF LpOptima

\* The more urgent of two orders is the last to be cut: while one is cut, another of
\* a SKU that lasts longer, costs no less and is no smaller gets nothing
\* (_apply_budget_constraint, the weights of the objective).
THEOREM UrgentSpared == Spec => []CutsSpareTheUrgent
<1>1. IInv => CutsSpareTheUrgent
  <2> SUFFICES ASSUME IInv, Solved, Distinct, NEW i \in Rows, NEW j \in Rows,
                      plan.orders[i].quantity < recs[i].quantity,
                      recs[i].quantity <= recs[j].quantity,
                      request.skus[i].unitCost <= request.skus[j].unitCost,
                      recs[i].reorder, recs[j].reorder,
                      Max({recs[i].days, 10}) < Max({recs[j].days, 10})
               PROVE  plan.orders[j].quantity = 0
    BY DEF CutsSpareTheUrgent
  <2> DEFINE s == recs[i].sku
             t == recs[j].sku
  <2>1. pc # "start"
    BY DEF IInv
  <2>2. OverBudget /\ \E f \in LpOptima : plan = Plan(Shared(f), TRUE)
    <3>1. ASSUME plan = Plan(recs, FALSE) PROVE FALSE
      <4>1. plan.orders[i].quantity = recs[i].quantity /\ recs[i].quantity \in Nat
        BY <2>1, <3>1, RecsTyped DEF Plan
      <4> QED
        BY <4>1
    <3> QED
      BY <3>1 DEF IInv
  <2>3. PICK f \in LpOptima : plan = Plan(Shared(f), TRUE)
    BY <2>2
  <2>4. PICK d \in Splits : f = Funding(d)
    BY <2>1, <2>2, OptimumIsASplit
  <2>5. /\ plan.orders[i].quantity = Shared(f)[i].quantity
        /\ plan.orders[j].quantity = Shared(f)[j].quantity
    BY <2>3 DEF Plan
  <2>6. s \in Fractions /\ t \in Fractions
    BY <2>1, DistinctRows
  <2>7. s \notin d.full
    <3>1. ASSUME s \in d.full PROVE FALSE
      <4>1. f[s] = Full
        BY <2>4, <2>6, <3>1 DEF Funding
      <4>2. plan.orders[i].quantity = recs[i].quantity /\ recs[i].quantity \in Nat
        BY <2>1, <2>2, <2>5, <2>6, <4>1, SharingCuts, RecsTyped
      <4> QED
        BY <4>2
    <3> QED
      BY <3>1
  <2>8. CASE recs[j].quantity = 0
    <3>1. Shared(f)[j].quantity \in 0..recs[j].quantity
      BY <2>1, <2>2, SharingCuts
    <3> QED
      BY <2>5, <2>8, <3>1
  <2>9. CASE recs[j].quantity # 0
    <3>1. ~WorthMore(t, s)
      <4> DEFINE qi == recs[i].quantity
                 qj == recs[j].quantity
                 ci == request.skus[i].unitCost
                 cj == request.skus[j].unitCost
                 ui == InverseUrgency(s)
                 uj == InverseUrgency(t)
                 x == qi * ci
                 y == qj * cj
      <4>1. /\ qi \in Nat /\ qj \in Nat \ {0} /\ ci \in Nat \ {0} /\ cj \in Nat \ {0}
            /\ ui \in Nat \ {0} /\ uj \in Nat \ {0} /\ qi <= qj /\ ci <= cj
        BY <2>1, <2>6, <2>9, RecsTyped, ProgramTyped
      <4>2. ui < uj
        BY <2>1, DistinctRows
      <4>3. Coefficient(s) = x /\ Coefficient(t) = y
        BY <2>1, DistinctRows
      <4> HIDE DEF qi, qj, ci, cj, ui, uj
      <4>4. x \in Nat /\ y \in Nat \ {0} /\ x <= y
        <5>1. qi * ci <= qi * cj /\ cj * qi <= cj * qj
          BY <4>1, FactorKeepsOrder
        <5>2. qi * ci \in Nat /\ qi * cj = cj * qi /\ qj * cj = cj * qj /\ cj * qi \in Nat /\ cj * qj \in Nat
          BY <4>1
        <5>3. qj * cj # 0
          BY <4>1
        <5> QED
          BY <5>1, <5>2, <5>3
      <4> HIDE DEF x, y
      <4>5. ui * x <= ui * y /\ y * (ui + 1) <= y * uj
        BY <4>1, <4>2, <4>4, FactorKeepsOrder
      <4>6. /\ ui * x = x * ui /\ ui * y = y * ui /\ y * (ui + 1) = y * ui + y
            /\ x * ui \in Nat /\ y * ui \in Nat /\ y * uj \in Nat
        BY <4>1, <4>4
      <4>7. ~(y * uj <= x * ui)
        BY <4>4, <4>5, <4>6
      <4> QED
        BY <4>3, <4>7 DEF WorthMore, ui, uj
    <3>2. /\ \A o \in Fractions \ d.full : WorthMore(d.part, o)
          /\ \A o \in Fractions \ d.full : \A r \in d.full : WorthMore(r, o)
      BY DEF Splits
    <3>3. t \notin d.full /\ t # d.part
      BY <2>6, <2>7, <3>1, <3>2
    <3>4. f[t] = Nothing
      BY <2>4, <2>6, <3>3 DEF Funding
    <3> QED
      BY <2>1, <2>2, <2>5, <2>6, <3>4, SharingCuts
  <2> QED
    BY <2>8, <2>9
<1> QED
  BY <1>1, InvariantHolds, PTL

\* A factor can be cancelled.
LEMMA CancelFactor ==
  ASSUME NEW q \in Nat \ {0}, NEW x \in Int, NEW y \in Int, q * x <= q * y
  PROVE  x <= y
<1>1. ASSUME y + 1 <= x PROVE FALSE
  <2>1. q * (y + 1) <= q * x
    BY <1>1, FactorKeepsOrder
  <2>2. q * (y + 1) = q * y + q /\ q * y \in Int /\ q * x \in Int
    OBVIOUS
  <2> QED
    BY <2>1, <2>2
<1> QED
  BY <1>1

\* The cost of the order that is cut in part: off by at most half a unit.
LEMMA PartIsNear ==
  ASSUME NEW q \in Nat \ {0}, NEW c \in Nat \ {0}, NEW left \in Nat
  PROVE  2 * (RoundRatio(q * left, q * c) * c - left) \in -c..c
<1> DEFINE b == q * c
           a == q * left
           r == RoundRatio(a, b)
<1>1. a \in Nat /\ b \in Nat \ {0}
  OBVIOUS
<1> HIDE DEF a, b
<1>2. r \in Nat /\ 2 * (b * r) \in 2 * a - b..2 * a + b
  BY <1>1, RoundRatioIsNear
<1> HIDE DEF r
<1>3. /\ 2 * (b * r) = q * (2 * (c * r))
      /\ 2 * a + b = q * (2 * left + c)
      /\ 2 * a - b = q * (2 * left - c)
  BY <1>2 DEF a, b
<1>4. q * (2 * (c * r)) <= q * (2 * left + c) /\ q * (2 * left - c) <= q * (2 * (c * r))
  <2>1. b * r \in Nat
    BY <1>1, <1>2
  <2>2. 2 * (b * r) <= 2 * a + b /\ 2 * a - b <= 2 * (b * r)
    BY <1>1, <1>2, <2>1
  <2> QED
    BY <1>3, <2>2
<1>5. c * r \in Nat /\ c * r = r * c
  BY <1>2
<1>6. 2 * (c * r) <= 2 * left + c /\ 2 * left - c <= 2 * (c * r)
  BY <1>4, <1>5, CancelFactor
<1>7. 2 * (r * c - left) \in -c..c
  BY <1>5, <1>6
<1> QED
  BY <1>7 DEF r, a, b

\* When the budget binds, at most one order is cut in part, and what is spent is
\* within half a unit of it of the budget (_apply_budget_constraint).
THEOREM BudgetSpent == Spec => []BudgetIsSpent
<1>1. IInv => BudgetIsSpent
  <2> SUFFICES ASSUME IInv, Solved, Distinct, plan.binding
               PROVE  \E i \in Rows :
                        /\ 2 * (plan.cost - request.budget)
                             \in -request.skus[i].unitCost..request.skus[i].unitCost
                        /\ \A j \in Rows \ {i} : plan.orders[j].quantity \in {0, recs[j].quantity}
    BY DEF BudgetIsSpent
  <2>1. pc # "start"
    BY DEF IInv
  <2>2. OverBudget /\ \E f \in LpOptima : plan = Plan(Shared(f), TRUE)
    <3>1. plan # Plan(recs, FALSE)
      BY DEF Plan
    <3> QED
      BY <3>1 DEF IInv
  <2>3. PICK f \in LpOptima : plan = Plan(Shared(f), TRUE)
    BY <2>2
  <2>4. PICK d \in Splits : f = Funding(d)
    BY <2>1, <2>2, OptimumIsASplit
  <2> DEFINE orders == Shared(f)
             left == request.budget - Cost(d.full)
             h == [i \in Rows |-> orders[i].quantity * request.skus[i].unitCost]
             I == {i \in Rows : recs[i].sku \in d.full}
  <2>5. plan.orders = orders /\ plan.cost = TotalCost(orders)
    BY <2>3 DEF Plan
  <2>6. /\ d.full \in SUBSET Fractions /\ d.part \in Fractions /\ d.part \notin d.full
        /\ Cost(d.full) <= request.budget
        /\ Cost(d.full) + Coefficient(d.part) > request.budget
    BY DEF Splits
  <2>7. PICK p \in Rows : recs[p].sku = d.part
    BY <2>6 DEF Fractions
  <2> DEFINE q == recs[p].quantity
             c == request.skus[p].unitCost
  <2>8. /\ request.budget \in Nat /\ Cost(d.full) \in Nat /\ left \in Nat
        /\ q \in Nat /\ c \in Nat \ {0}
    BY <2>1, <2>2, <2>6, RowsTyped, RecsTyped, CostTyped DEF OverBudget
  <2>9. Coefficient(d.part) = q * c /\ q # 0
    <3>1. Coefficient(d.part) = q * c
      BY <2>1, <2>7, DistinctRows
    <3>2. Coefficient(d.part) # 0
      BY <2>6, <2>8
    <3>3. q = 0 => q * c = 0
      BY <2>8
    <3> QED
      BY <3>1, <3>2, <3>3
\* The orders, one by one.
  <2>10. ASSUME NEW i \in Rows
         PROVE  /\ orders[i].quantity \in Nat /\ request.skus[i].unitCost \in Nat /\ h[i] \in Int
                /\ i \in I => orders[i].quantity = recs[i].quantity
                /\ i # p /\ i \notin I => orders[i].quantity = 0
                /\ i # p => orders[i].quantity \in {0, recs[i].quantity}
    <3>1. recs[i].quantity \in Nat /\ request.skus[i].unitCost \in Nat
      BY <2>1, RecsTyped
    <3>2. orders[i].quantity \in 0..recs[i].quantity
      BY <2>1, <2>2, SharingCuts
    <3>3. i \in I => orders[i].quantity = recs[i].quantity
      <4>1. i \in I => recs[i].sku \in Fractions /\ f[recs[i].sku] = Full
        BY <2>4, <2>6 DEF Funding
      <4> QED
        BY <2>1, <2>2, <4>1, SharingCuts
    <3>4. i # p /\ i \notin I => orders[i].quantity = 0
      <4>1. i # p => recs[i].sku # d.part
        BY <2>1, <2>7, DistinctRows
      <4>2. CASE recs[i].sku \in Fractions
        <5>1. i # p /\ i \notin I => f[recs[i].sku] = Nothing
          BY <2>4, <4>1, <4>2 DEF Funding
        <5> QED
          BY <2>1, <2>2, <4>2, <5>1, SharingCuts
      <4>3. CASE recs[i].sku \notin Fractions
        <5>1. recs[i].quantity = 0
          BY <2>1, <4>3, DistinctRows, RecsTyped
        <5> QED
          BY <3>2, <5>1
      <4> QED
        BY <4>2, <4>3
    <3>5. orders[i].quantity \in Nat
      BY <3>1, <3>2
    <3>6. h[i] \in Int
      <4>1. orders[i].quantity * request.skus[i].unitCost \in Nat
        BY <3>1, <3>5, ProductIsNat
      <4> QED
        BY <4>1
    <3> HIDE DEF orders, h, I
    <3> QED
      BY <3>1, <3>3, <3>4, <3>5, <3>6
  <2>11. orders[p].quantity = RoundRatio(q * left, q * c)
    <3>1. recs[p].sku \in Fractions
      BY <2>6, <2>7
    <3>2. f[recs[p].sku] = [num |-> left, den |-> q * c]
      BY <2>4, <2>6, <2>7, <2>9 DEF Funding
    <3>3. orders[p].quantity = RoundRatio(q * f[recs[p].sku].num, f[recs[p].sku].den)
      BY <2>1, <2>2, <3>1, SharingCuts
    <3> QED
      BY <3>2, <3>3
\* Their sum: the orders in full, and the one in part.
  <2>12. TotalCost(orders) = Total(h, Rows)
    <3>1. DOMAIN orders = Rows
      BY DEF Shared
    <3>2. \A i \in Rows : orders[i].sku = recs[i].sku
      BY <2>1, <2>2, SharingCuts
    <3> HIDE DEF orders
    <3> QED
      BY <2>1, <3>1, <3>2, CostOfList
  <2>13. /\ IsFiniteSet(Rows) /\ IsFiniteSet(I) /\ p \notin I /\ I \cup {p} \in SUBSET Rows
         /\ I \in SUBSET Rows
    BY <2>6, <2>7, RowsTyped, FS_Subset
  <2>14. \A i \in Rows \ (I \cup {p}) : h[i] = 0
    <3> SUFFICES ASSUME NEW i \in Rows, i \notin I, i # p PROVE h[i] = 0
      OBVIOUS
    <3>1. orders[i].quantity = 0 /\ request.skus[i].unitCost \in Nat
      BY <2>10
    <3>2. h[i] = orders[i].quantity * request.skus[i].unitCost
      OBVIOUS
    <3> HIDE DEF h, orders
    <3> QED
      BY <3>1, <3>2
  <2>15. Total(h, I) = Total(Costs, I)
    <3>1. \A i \in I : h[i] = Costs[i]
      BY <2>10 DEF Costs
    <3> HIDE DEF h, I
    <3> QED
      BY <2>13, <3>1, TotalAgrees
  <2>16. Total(Costs, I) = Cost(d.full)
    BY <2>1, <2>6, CostOfOrders
  <2>17. h[p] = RoundRatio(q * left, q * c) * c
    BY <2>11
  <2>18. \A i \in Rows : h[i] \in Int
    BY <2>10
  <2> HIDE DEF h, I
  <2>19. Total(h, Rows) = Total(h, I) + h[p]
    <3>1. Total(h, Rows) = Total(h, I \cup {p})
      BY <2>13, <2>14, <2>18, TotalIgnoresZeros
    <3>2. Total(h, I \cup {p}) = Total(h, I) + h[p]
      BY <2>13, <2>18, TotalAdd
    <3> QED
      BY <3>1, <3>2
  <2> DEFINE z == RoundRatio(q * left, q * c) * c
  <2>20. 2 * (z - left) \in -c..c
    <3> HIDE DEF q, c, left
    <3> QED
      BY <2>8, <2>9, PartIsNear
  <2>21. z \in Int
    BY <2>7, <2>17, <2>18
  <2>22. plan.cost = Cost(d.full) + z
    BY <2>5, <2>12, <2>15, <2>16, <2>17, <2>19
  <2>23. left = request.budget - Cost(d.full)
    OBVIOUS
  <2> HIDE DEF z, left
  <2>24. plan.cost - request.budget = z - left
    BY <2>8, <2>21, <2>22, <2>23
  <2>25. 2 * (plan.cost - request.budget) \in -c..c
    BY <2>20, <2>24
  <2>26. \A j \in Rows \ {p} : plan.orders[j].quantity \in {0, recs[j].quantity}
    BY <2>5, <2>10
  <2> QED
    BY <2>25, <2>26
<1> QED
  BY <1>1, InvariantHolds, PTL
=============================================================================
