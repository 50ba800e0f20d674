--------------------------- MODULE UiSessionProofs ---------------------------
(***************************************************************************)
(* The copilot tab of a session at rest names a plan and its own domain,   *)
(* for any tabs and any number of clicks.                                  *)
(***************************************************************************)
EXTENDS UiSession, TLAPS

\* Plan ids are positions in owner, which only grows.
LEMMA OwnerGrows ==
  ASSUME NEW s \in Seq(Tabs), NEW t \in Tabs
  PROVE  /\ Append(s, t) \in Seq(Tabs)
         /\ Len(s) + 1 \in DOMAIN Append(s, t)
         /\ Append(s, t)[Len(s) + 1] = t
         /\ \A i \in DOMAIN s : i \in DOMAIN Append(s, t) /\ Append(s, t)[i] = s[i]
  OBVIOUS

LEMMA InitIInv == Init => IInv
<1> SUFFICES ASSUME Init PROVE IInv
  OBVIOUS
<1> USE TabsAssumption, ClicksAssumption DEF Init, Fields
<1>1. TypeOK
  <2>1. owner \in Seq(Tabs) /\ clicks \in 0..MaxClicks
    OBVIOUS
  <2>2. box \in [Tabs -> Nat] /\ solving \subseteq Tabs /\ edited \in BOOLEAN
    OBVIOUS
  <2>3. session \in [plan : Nat, domain : Tabs] /\ copilot \in [plan : Nat, domain : Tabs]
    OBVIOUS
  <2>4. read \in [plan : Nat \cup {Idle}, domain : Tabs \cup {Idle}]
    OBVIOUS
  <2>5. waiting \in [Tabs -> Nat \cup {Idle}] /\ running \in [Tabs -> Nat \cup {Idle}]
    OBVIOUS
  <2> QED
    BY <2>1, <2>2, <2>3, <2>4, <2>5 DEF TypeOK
<1>2. Mirrored
  BY DEF Mirrored
<1>3. NewestIsShown
  BY DEF NewestIsShown
<1>4. BoxesAreOwned
  BY DEF BoxesAreOwned
<1> QED
  BY <1>1, <1>2, <1>3, <1>4 DEF IInv

\* What a solve puts into its box: nothing, or a plan that it owns.
LEMMA FillKeeps ==
  ASSUME IInv, NEW t \in Tabs, NEW id \in Nat, Fill(t, id),
         owner' \in Seq(Tabs),
         \A i \in DOMAIN owner : i \in DOMAIN owner' /\ owner'[i] = owner[i],
         id # 0 => id \in DOMAIN owner' /\ owner'[id] = t
  PROVE  IInv'
<1> USE IdleAssumption DEF IInv, Fill
<1>1. TypeOK'
  BY DEF TypeOK
<1>2. Mirrored'
  BY DEF Mirrored
<1>3. NewestIsShown'
  <2> SUFFICES ASSUME NEW u \in Tabs
               PROVE  /\ waiting'[u] # Idle => waiting'[u] = box'[u]
                      /\ (waiting'[u] = Idle /\ running'[u] # Idle) => running'[u] = box'[u]
                      /\ (waiting'[u] = Idle /\ running'[u] = Idle /\ session'.domain = u)
                           => session'.plan = box'[u]
    BY DEF NewestIsShown
  <2>1. CASE u = t /\ id # box[t]
    BY <2>1 DEF TypeOK
  <2>2. CASE u # t \/ id = box[t]
    BY <2>2 DEF TypeOK, NewestIsShown
  <2> QED
    BY <2>1, <2>2
<1>4. BoxesAreOwned'
  BY DEF BoxesAreOwned, TypeOK
<1> QED
  BY <1>1, <1>2, <1>3, <1>4

\* The model's bound on clicks is kept.
LEMMA ClicksCount == clicks \in 0..MaxClicks /\ Click => clicks' \in 0..MaxClicks
  BY ClicksAssumption DEF Click

LEMMA NextIInv == IInv /\ [Next]_vars => IInv'
<1> SUFFICES ASSUME IInv, [Next]_vars PROVE IInv'
  OBVIOUS
<1> USE DEF IInv
<1>1. ASSUME NEW t \in Tabs, ClickSolve(t) PROVE IInv'
  <2>1. clicks' \in 0..MaxClicks
    BY <1>1, ClicksCount DEF ClickSolve, TypeOK
  <2>2. TypeOK'
    BY <1>1, <2>1 DEF ClickSolve, TypeOK
  <2> QED
    BY <1>1, <2>2 DEF ClickSolve, Mirrored, NewestIsShown, BoxesAreOwned
<1>2. ASSUME NEW f \in Fields, Edit(f) PROVE IInv'
  <2>1. clicks' \in 0..MaxClicks
    BY <1>2, ClicksCount DEF Edit, TypeOK
  <2>2. Len(owner) \in Nat
    <3>1. owner \in Seq(Tabs)
      BY DEF TypeOK
    <3> QED
      BY <3>1
  <2>3. copilot' \in [plan : Nat, domain : Tabs]
    <3>1. CASE f = "plan"
      <4>1. PICK value \in 0..Len(owner) + 1 : copilot' = [copilot EXCEPT !["plan"] = value]
        BY <1>2, <3>1 DEF Edit
      <4>2. value \in Nat
        BY <2>2
      <4> QED
        BY <4>1, <4>2 DEF TypeOK
    <3>2. CASE f = "domain"
      <4>1. PICK value \in Tabs : copilot' = [copilot EXCEPT !["domain"] = value]
        BY <1>2, <3>2 DEF Edit
      <4> QED
        BY <4>1 DEF TypeOK
    <3> QED
      BY <3>1, <3>2 DEF Fields
  <2>4. TypeOK'
    BY <1>2, <2>1, <2>3 DEF Edit, TypeOK
  <2> QED
    BY <1>2, <2>4 DEF Edit, Mirrored, NewestIsShown, BoxesAreOwned
<1>3. CASE ClickAsk
  <2>1. clicks' \in 0..MaxClicks
    BY <1>3, ClicksCount DEF ClickAsk, TypeOK
  <2>2. TypeOK'
    BY <1>3, <2>1 DEF ClickAsk, TypeOK
  <2> QED
    BY <1>3, <2>2 DEF ClickAsk, Mirrored, NewestIsShown, BoxesAreOwned
<1>4. ASSUME NEW t \in Tabs, Solved(t) PROVE IInv'
  <2>1. owner \in Seq(Tabs)
    BY DEF TypeOK
  <2>2. Len(owner) + 1 \in Nat
    BY <2>1
  <2>3. owner' = Append(owner, t) /\ Fill(t, Len(owner) + 1)
    BY <1>4 DEF Solved
  <2> QED
    BY <2>1, <2>2, <2>3, OwnerGrows, FillKeeps
<1>5. ASSUME NEW t \in Tabs, NotSolved(t) PROVE IInv'
  BY <1>5, FillKeeps DEF NotSolved, TypeOK
<1>6. ASSUME NEW t \in Tabs, RunChange(t) PROVE IInv'
  <2>1. TypeOK'
    BY <1>6 DEF RunChange, TypeOK
  <2>2. NewestIsShown'
    BY <1>6, IdleAssumption DEF RunChange, TypeOK, NewestIsShown
  <2> QED
    BY <1>6, <2>1, <2>2 DEF RunChange, Mirrored, BoxesAreOwned
<1>7. ASSUME NEW t \in Tabs, StoreChange(t) PROVE IInv'
  <2>1. TypeOK'
    BY <1>7, IdleAssumption DEF StoreChange, TypeOK
  <2>2. Mirrored'
    BY <1>7 DEF StoreChange, Mirrored
  <2>3. NewestIsShown'
    BY <1>7, IdleAssumption DEF StoreChange, TypeOK, NewestIsShown
  <2> QED
    BY <1>7, <2>1, <2>2, <2>3 DEF StoreChange, BoxesAreOwned
<1>8. ASSUME NEW f \in Fields, ReadSession(f) PROVE IInv'
  <2>1. TypeOK'
    BY <1>8 DEF ReadSession, TypeOK, Fields
  <2>2. Mirrored'
    BY <1>8, IdleAssumption DEF ReadSession, TypeOK, Mirrored, Fields
  <2> QED
    BY <1>8, <2>1, <2>2 DEF ReadSession, NewestIsShown, BoxesAreOwned
<1>9. ASSUME NEW f \in Fields, Deliver(f) PROVE IInv'
  <2>1. TypeOK'
    BY <1>9 DEF Deliver, TypeOK, Fields
  <2>2. Mirrored'
    BY <1>9 DEF Deliver, TypeOK, Mirrored, Fields
  <2> QED
    BY <1>9, <2>1, <2>2 DEF Deliver, NewestIsShown, BoxesAreOwned
<1>10. CASE Answer
  <2>1. TypeOK'
    BY <1>10 DEF Answer, Answers, Failures, TypeOK
  <2> QED
    BY <1>10, <2>1 DEF Answer, Mirrored, NewestIsShown, BoxesAreOwned
<1>11. CASE UNCHANGED vars
  BY <1>11 DEF vars, TypeOK, Mirrored, NewestIsShown, BoxesAreOwned
<1> QED
  BY <1>1, <1>2, <1>3, <1>4, <1>5, <1>6, <1>7, <1>8, <1>9, <1>10, <1>11
  DEF Next, UserNext, SystemNext

\* No value is forgotten on its way from a tab's box to the copilot tab, whatever
\* the order of events.
THEOREM Invariance == Spec => []IInv
<1> QED
  BY InitIInv, NextIInv, PTL DEF Spec

\* The page at rest shows one plan: the copilot tab has the plan and the domain of
\* the tab that was filled last.
LEMMA RestIsConsistent == IInv => SettledTabIsConsistent
<1> SUFFICES ASSUME IInv, Quiet, ~edited
             PROVE  /\ copilot.plan = box[copilot.domain]
                    /\ copilot.plan # 0 => owner[copilot.plan] = copilot.domain
  BY DEF SettledTabIsConsistent
<1>1. copilot["plan"] = session["plan"] /\ copilot["domain"] = session["domain"]
  BY DEF IInv, Mirrored, Quiet, Fields
<1>2. session.domain \in Tabs /\ session.plan = box[session.domain]
  BY DEF IInv, TypeOK, NewestIsShown, Quiet
<1> QED
  BY <1>1, <1>2 DEF IInv, BoxesAreOwned

THEOREM Consistency == Spec => []SettledTabIsConsistent
<1> QED
  BY Invariance, RestIsConsistent, PTL

=============================================================================
