-------------------------- MODULE RateLimiterProofs --------------------------
(***************************************************************************)
(* Proofs about RateLimiter, for every limit and window, any number of     *)
(* processes and clients, and any bounds on the clock and the restarts.    *)
(* The argument: what was dropped from a deque had expired and stays so;   *)
(* a request is recorded only when fewer than Limit times are left in the  *)
(* deque, so that the time Limit places before it is among the dropped.    *)
(* Most of it is about one deque: Consistent(s, k, t) says of the recorded *)
(* times s, of which k were dropped, what IInv says of them at time t.     *)
(***************************************************************************)
EXTENDS RateLimiter, TLAPS

Consistent(s, k, t) ==
  /\ s \in Seq(Nat)
  /\ k \in 0..Len(s)
  /\ \A i \in 1..Len(s) : s[i] <= t
  /\ \A i, j \in 1..Len(s) : i <= j => s[i] <= s[j]
  /\ \A i \in 1..k : t - s[i] > Window
  /\ Len(s) - k <= Limit
  /\ \A i \in 1..Len(s) : i + Limit <= Len(s) => s[i + Limit] - s[i] > Window

\* What a rejection says about the times of its client.
Deserved(s, t) ==
  /\ Len(s) >= Limit
  /\ \A i \in 1..Len(s) : i > Len(s) - Limit => ~(t - s[i] > Window)

\* The invariant, deque by deque.
PerDeque ==
  /\ TypeOK
  /\ \A p \in Processes : verdict[p].status = "rejected" => verdict[p].at <= now
  /\ \A p \in Processes, c \in Clients : Consistent(admitted[p][c], popped[p][c], now)
  /\ RejectionsAreDeserved

-----------------------------------------------------------------------------
\* One deque: time passes.
LEMMA OneTick ==
  ASSUME NEW s, NEW k, NEW t \in Nat, Consistent(s, k, t)
  PROVE  Consistent(s, k, t + 1)
<1>1. \A i \in 1..Len(s) : s[i] \in Nat
  BY DEF Consistent
<1> QED
  BY <1>1, WindowAssumption DEF Consistent

\* One deque: expired times are dropped.
LEMMA OneDrop ==
  ASSUME NEW s, NEW k, NEW t \in Nat, Consistent(s, k, t),
         NEW j \in k..Len(s),
         \A i \in (k + 1)..j : t - s[i] > Window
  PROVE  Consistent(s, j, t)
<1>1. Len(s) \in Nat /\ k \in Nat /\ j \in 0..Len(s) /\ j >= k
  BY DEF Consistent
<1>2. \A i \in 1..j : t - s[i] > Window
  BY <1>1 DEF Consistent
<1>3. Len(s) - j <= Limit
  BY <1>1, LimitAssumption DEF Consistent
<1> QED
  BY <1>1, <1>2, <1>3 DEF Consistent

\* One deque: a request is recorded.
LEMMA OneAppend ==
  ASSUME NEW s, NEW k, NEW t \in Nat, Consistent(s, k, t), Len(s) - k < Limit
  PROVE  Consistent(Append(s, t), k, t)
<1> DEFINE u == Append(s, t)
<1>1. s \in Seq(Nat) /\ Len(s) \in Nat /\ k \in Nat /\ k <= Len(s)
  BY DEF Consistent
<1>2. /\ u \in Seq(Nat)
      /\ Len(u) = Len(s) + 1
      /\ \A i \in 1..Len(s) : u[i] = s[i] /\ s[i] \in Nat
      /\ u[Len(s) + 1] = t
  BY <1>1
<1> HIDE DEF u
<1>3. k \in 0..Len(u) /\ Len(u) - k <= Limit
  BY <1>1, <1>2, LimitAssumption
<1>4. \A i \in 1..Len(u) : u[i] <= t
  <2> SUFFICES ASSUME NEW i \in 1..Len(u) PROVE u[i] <= t
    OBVIOUS
  <2>1. i \in 1..Len(s) \/ i = Len(s) + 1
    BY <1>1, <1>2
  <2>2. CASE i \in 1..Len(s)
    BY <2>2, <1>2 DEF Consistent
  <2>3. CASE i = Len(s) + 1
    BY <2>3, <1>2
  <2> QED
    BY <2>1, <2>2, <2>3
<1>5. \A i, j \in 1..Len(u) : i <= j => u[i] <= u[j]
  <2> SUFFICES ASSUME NEW i \in 1..Len(u), NEW j \in 1..Len(u), i <= j PROVE u[i] <= u[j]
    OBVIOUS
  <2>1. CASE j = Len(s) + 1
    BY <2>1, <1>2, <1>4
  <2>2. CASE j \in 1..Len(s)
    <3>1. i \in 1..Len(s)
      BY <2>2, <1>1
    <3> QED
      BY <2>2, <3>1, <1>2 DEF Consistent
  <2> QED
    BY <2>1, <2>2, <1>1, <1>2
<1>6. \A i \in 1..k : t - u[i] > Window
  <2> SUFFICES ASSUME NEW i \in 1..k PROVE t - u[i] > Window
    OBVIOUS
  <2>1. i \in 1..Len(s)
    BY <1>1
  <2> QED
    BY <2>1, <1>2 DEF Consistent
<1>7. \A i \in 1..Len(u) : i + Limit <= Len(u) => u[i + Limit] - u[i] > Window
  <2> SUFFICES ASSUME NEW i \in 1..Len(u), i + Limit <= Len(u)
               PROVE  u[i + Limit] - u[i] > Window
    OBVIOUS
  <2>1. CASE i + Limit <= Len(s)
    <3>1. i \in 1..Len(s) /\ i + Limit \in 1..Len(s)
      BY <2>1, <1>1, LimitAssumption
    <3> QED
      BY <2>1, <3>1, <1>2 DEF Consistent
  \* The new request: the time Limit places before it was dropped.
  <2>2. CASE i + Limit = Len(s) + 1
    <3>1. i \in 1..k
      BY <2>2, <1>1, LimitAssumption
    <3> QED
      BY <2>2, <3>1, <1>2, <1>6
  <2>3. i + Limit <= Len(s) \/ i + Limit = Len(s) + 1
    <3>1. Len(u) = Len(s) + 1 /\ Len(s) \in Nat /\ i \in Int
      BY <1>1, <1>2
    <3> QED
      BY <3>1, LimitAssumption
  <2> QED
    BY <2>1, <2>2, <2>3
<1> QED
  BY <1>2, <1>3, <1>4, <1>5, <1>6, <1>7 DEF Consistent, u

\* One deque: when Limit times are left that have not expired, a 429 is deserved.
LEMMA OneRejection ==
  ASSUME NEW s, NEW k, NEW t \in Nat, Consistent(s, k, t), Len(s) - k >= Limit,
         k < Len(s) => ~(t - s[k + 1] > Window)
  PROVE  Deserved(s, t)
<1>1. Len(s) \in Nat /\ k \in Nat /\ k <= Len(s)
  BY DEF Consistent
<1>2. ASSUME NEW i \in 1..Len(s), i > Len(s) - Limit
      PROVE  ~(t - s[i] > Window)
  <2>1. k + 1 \in 1..Len(s) /\ k + 1 <= i /\ k < Len(s)
    BY <1>1, <1>2, LimitAssumption
  <2>2. s[k + 1] <= s[i] /\ s[i] \in Nat /\ s[k + 1] \in Nat
    BY <2>1 DEF Consistent
  <2> QED
    BY <2>1, <2>2, WindowAssumption
<1> QED
  BY <1>1, <1>2, LimitAssumption DEF Deserved

-----------------------------------------------------------------------------
\* PerDeque is IInv, put together differently.
LEMMA SameInvariant == IInv <=> PerDeque
<1>1. ASSUME TypeOK, NEW p \in Processes, NEW c \in Clients
      PROVE  /\ admitted[p][c] \in Seq(Nat)
             /\ popped[p][c] \in 0..Len(admitted[p][c])
  BY <1>1 DEF TypeOK
<1>2. IInv => PerDeque
  BY <1>1 DEF IInv, PerDeque, Consistent, Ordered, DroppedHaveExpired, Expired,
              DequesAreBounded, Queued, SlidingWindow
<1>3. PerDeque => IInv
  BY DEF IInv, PerDeque, Consistent, Ordered, DroppedHaveExpired, Expired,
         DequesAreBounded, Queued, SlidingWindow
<1> QED
  BY <1>2, <1>3

\* The initial state satisfies the invariant.
LEMMA InitEstablishes == Init => PerDeque
<1> SUFFICES ASSUME Init PROVE PerDeque
  OBVIOUS
<1>1. \A p \in Processes : verdict[p].status = "none"
  BY DEF Init, NoVerdict
<1>2. \A p \in Processes, c \in Clients : admitted[p][c] = << >> /\ popped[p][c] = 0
  BY DEF Init
<1>3. TypeOK
  <2>1. \A p \in Processes, c \in Clients : popped[p][c] <= Len(admitted[p][c])
    BY <1>2
  <2> QED
    BY <2>1, TimeAssumption DEF Init, TypeOK, Verdicts
<1>4. Consistent(<< >>, 0, now)
  BY LimitAssumption DEF Consistent
<1> QED
  BY <1>1, <1>2, <1>3, <1>4 DEF PerDeque, RejectionsAreDeserved

\* A rejection carries a time and a client.
LEMMA VerdictFacts ==
  ASSUME TypeOK, NEW p \in Processes, verdict[p].status = "rejected"
  PROVE  verdict[p].at \in Nat /\ verdict[p].client \in Clients
<1>1. verdict[p] \in Verdicts /\ verdict[p] # NoVerdict
  BY DEF TypeOK, NoVerdict
<1> QED
  BY <1>1 DEF Verdicts

\* The passing of time.
LEMMA TickPreserves == ASSUME PerDeque, Tick PROVE PerDeque'
<1>1. /\ now \in Nat /\ now' = now + 1
      /\ admitted' = admitted /\ popped' = popped /\ verdict' = verdict
  BY DEF Tick, PerDeque, TypeOK
<1>2. TypeOK'
  BY TimeAssumption DEF Tick, PerDeque, TypeOK
<1>3. \A p \in Processes : verdict[p].status = "rejected" =>
        verdict[p].at <= now /\ verdict[p].at \in Nat
  BY VerdictFacts DEF PerDeque
<1>4. \A p \in Processes, c \in Clients : Consistent(admitted[p][c], popped[p][c], now + 1)
  BY <1>1, OneTick DEF PerDeque
\* No verdict was given at the new time.
<1>5. \A p \in Processes : verdict[p].status = "rejected" =>
        verdict[p].at <= now + 1 /\ verdict[p].at # now + 1
  BY <1>1, <1>3
<1>6. RejectionsAreDeserved'
  BY <1>1, <1>5 DEF RejectionsAreDeserved
<1> QED
  BY <1>1, <1>2, <1>4, <1>5, <1>6 DEF PerDeque

\* A request: the deque of its client, and the verdict on it.
LEMMA DispatchPreserves ==
  ASSUME PerDeque, NEW p \in Processes, NEW c \in Clients, Dispatch(p, c)
  PROVE  PerDeque'
<1> DEFINE s == admitted[p][c]
           k == popped[p][c]
<1>1. /\ now \in Nat /\ now \in 0..MaxTime
      /\ Consistent(s, k, now)
      /\ s \in Seq(Nat) /\ Len(s) \in Nat /\ k \in Nat
  BY DEF PerDeque, TypeOK, Consistent
<1>2. PICK to \in k..Len(s) :
        /\ Drops(s, k, to)
        /\ popped' = [popped EXCEPT ![p][c] = to]
        /\ \/ /\ Len(s) - to >= Limit
              /\ verdict' = [verdict EXCEPT ![p] =
                               [status |-> "rejected", client |-> c, at |-> now]]
              /\ admitted' = admitted
           \/ /\ ~(Len(s) - to >= Limit)
              /\ verdict' = [verdict EXCEPT ![p] =
                               [status |-> "passed", client |-> c, at |-> now]]
              /\ admitted' = [admitted EXCEPT ![p][c] = Append(s, now)]
  BY DEF Dispatch, Full
<1>3. now' = now /\ restarts' = restarts
  BY DEF Dispatch
<1>4. Consistent(s, to, now)
  BY <1>1, <1>2, OneDrop DEF Drops, Expired
<1>5. /\ Append(s, now) \in Seq(Nat)
      /\ Len(Append(s, now)) = Len(s) + 1
      /\ to \in Nat /\ to <= Len(s)
  BY <1>1, <1>2
<1>6. /\ admitted \in [Processes -> [Clients -> Seq(Nat)]]
      /\ popped \in [Processes -> [Clients -> Nat]]
      /\ verdict \in [Processes -> Verdicts]
  BY DEF PerDeque, TypeOK
<1>7. /\ popped'[p][c] = to
      /\ \A q \in Processes, d \in Clients : q # p \/ d # c =>
           popped'[q][d] = popped[q][d]
  BY <1>2, <1>6
<1>8. \A q \in Processes, d \in Clients : q # p \/ d # c =>
        admitted'[q][d] = admitted[q][d]
  BY <1>2, <1>6
<1>9. /\ verdict'[p].at = now /\ verdict'[p].client = c
      /\ verdict'[p].status = "rejected" => admitted' = admitted /\ Len(s) - to >= Limit
  BY <1>2, <1>6
<1>10. \A q \in Processes : q # p => verdict'[q] = verdict[q]
  BY <1>2, <1>6
<1>11. Consistent(admitted'[p][c], to, now)
  <2>1. CASE admitted' = admitted
    BY <2>1, <1>4
  <2>2. CASE /\ ~(Len(s) - to >= Limit)
             /\ admitted' = [admitted EXCEPT ![p][c] = Append(s, now)]
    <3>1. admitted'[p][c] = Append(s, now)
      BY <2>2, <1>6
    <3>2. Len(s) - to < Limit
      BY <2>2, <1>1, <1>5, LimitAssumption
    <3> QED
      BY <3>1, <3>2, <1>1, <1>4, OneAppend
  <2> QED
    BY <2>1, <2>2, <1>2
<1>12. ASSUME NEW q \in Processes, NEW d \in Clients
       PROVE  Consistent(admitted'[q][d], popped'[q][d], now)
  <2>1. CASE q = p /\ d = c
    BY <2>1, <1>7, <1>11
  <2>2. CASE q # p \/ d # c
    BY <2>2, <1>7, <1>8 DEF PerDeque
  <2> QED
    BY <2>1, <2>2
<1>13. TypeOK'
  <2>1. admitted' \in [Processes -> [Clients -> Seq(Nat)]]
    <3>1. CASE admitted' = admitted
      BY <3>1, <1>6
    <3>2. CASE admitted' = [admitted EXCEPT ![p][c] = Append(s, now)]
      <4>1. [admitted[p] EXCEPT ![c] = Append(s, now)] \in [Clients -> Seq(Nat)]
        BY <1>5, <1>6
      <4> QED
        BY <3>2, <4>1, <1>6
    <3> QED
      BY <3>1, <3>2, <1>2
  <2>2. popped' \in [Processes -> [Clients -> Nat]]
    BY <1>2, <1>5, <1>6
  <2>3. \A q \in Processes, d \in Clients : popped'[q][d] <= Len(admitted'[q][d])
    BY <1>12 DEF Consistent
  <2>4. verdict' \in [Processes -> Verdicts]
    <3>1. \A status \in {"passed", "rejected"} :
            [status |-> status, client |-> c, at |-> now] \in Verdicts
      BY <1>1 DEF Verdicts
    <3> QED
      BY <3>1, <1>2, <1>6
  <2> QED
    BY <1>1, <1>3, <2>1, <2>2, <2>3, <2>4 DEF TypeOK, PerDeque
<1>14. \A q \in Processes : verdict'[q].status = "rejected" => verdict'[q].at <= now
  BY <1>1, <1>9, <1>10 DEF PerDeque
<1>15. RejectionsAreDeserved'
  <2>1. ASSUME NEW q \in Processes, verdict'[q].status = "rejected", verdict'[q].at = now
        PROVE  Deserved(admitted'[q][verdict'[q].client], now)
    <3>1. CASE q = p
      <4>1. to < Len(s) => ~(now - s[to + 1] > Window)
        BY <1>2 DEF Drops, Expired
      <4>2. Deserved(s, now)
        BY <2>1, <3>1, <4>1, <1>1, <1>4, <1>9, OneRejection
      <4> QED
        BY <2>1, <3>1, <4>2, <1>9
    <3>2. CASE q # p
      <4>1. verdict'[q] = verdict[q] /\ verdict[q].client \in Clients
        BY <2>1, <3>2, <1>10, VerdictFacts DEF PerDeque
      <4>2. admitted'[q][verdict[q].client] = admitted[q][verdict[q].client]
        BY <3>2, <4>1, <1>8
      <4>3. Deserved(admitted[q][verdict[q].client], now)
        BY <2>1, <4>1 DEF PerDeque, RejectionsAreDeserved, Expired, Deserved
      <4> QED
        BY <4>1, <4>2, <4>3
    <3> QED
      BY <3>1, <3>2
  <2> QED
    BY <2>1, <1>3 DEF RejectionsAreDeserved, Expired, Deserved
<1> QED
  BY <1>3, <1>12, <1>13, <1>14, <1>15 DEF PerDeque

\* A restart empties the deques of its process.
LEMMA RestartPreserves ==
  ASSUME PerDeque, NEW p \in Processes, Restart(p)
  PROVE  PerDeque'
<1>1. /\ admitted \in [Processes -> [Clients -> Seq(Nat)]]
      /\ popped \in [Processes -> [Clients -> Nat]]
      /\ verdict \in [Processes -> Verdicts]
      /\ now \in Nat
  BY DEF PerDeque, TypeOK
<1>2. /\ now' = now
      /\ \A c \in Clients : admitted'[p][c] = << >> /\ popped'[p][c] = 0
      /\ verdict'[p].status = "none"
  BY <1>1 DEF Restart, NoVerdict
<1>3. \A q \in Processes : q # p =>
        /\ admitted'[q] = admitted[q] /\ popped'[q] = popped[q]
        /\ verdict'[q] = verdict[q]
  BY <1>1 DEF Restart
<1>4. Consistent(<< >>, 0, now)
  BY <1>1, LimitAssumption DEF Consistent
<1>5. \A q \in Processes, c \in Clients : Consistent(admitted'[q][c], popped'[q][c], now)
  BY <1>2, <1>3, <1>4 DEF PerDeque
<1>6. TypeOK'
  <2>1. [c \in Clients |-> << >>] \in [Clients -> Seq(Nat)]
    OBVIOUS
  <2>2. admitted' \in [Processes -> [Clients -> Seq(Nat)]]
    BY <1>1, <2>1 DEF Restart
  <2>3. popped' \in [Processes -> [Clients -> Nat]]
    BY <1>1 DEF Restart
  <2>4. \A q \in Processes, c \in Clients : popped'[q][c] <= Len(admitted'[q][c])
    BY <1>5 DEF Consistent
  <2>5. verdict' \in [Processes -> Verdicts]
    BY <1>1 DEF Restart, Verdicts
  <2>6. now' \in 0..MaxTime /\ restarts' \in 0..MaxRestarts
    BY TimeAssumption DEF Restart, PerDeque, TypeOK
  <2> QED
    BY <2>2, <2>3, <2>4, <2>5, <2>6 DEF TypeOK
<1>7. \A q \in Processes : verdict'[q].status = "rejected" => verdict'[q].at <= now
  BY <1>2, <1>3 DEF PerDeque
<1>8. RejectionsAreDeserved'
  BY <1>2, <1>3 DEF PerDeque, RejectionsAreDeserved, Expired
<1> QED
  BY <1>2, <1>5, <1>6, <1>7, <1>8 DEF PerDeque

-----------------------------------------------------------------------------
\* IInv is inductive: it holds whatever the requests, the clock and the restarts do.
THEOREM Invariance == Spec => []IInv
<1>1. Init => PerDeque
  BY InitEstablishes
<1>2. PerDeque /\ [Next]_vars => PerDeque'
  <2> SUFFICES ASSUME PerDeque, [Next]_vars PROVE PerDeque'
    OBVIOUS
  <2>1. CASE \E p \in Processes, c \in Clients : Dispatch(p, c)
    BY <2>1, DispatchPreserves
  <2>2. CASE Tick
    BY <2>2, TickPreserves
  <2>3. CASE \E p \in Processes : Restart(p)
    BY <2>3, RestartPreserves
  <2>4. CASE UNCHANGED vars
    BY <2>4 DEF vars, PerDeque, TypeOK, RejectionsAreDeserved, Expired
  <2> QED
    BY <2>1, <2>2, <2>3, <2>4 DEF Next
<1>3. PerDeque => IInv
  BY SameInvariant
<1> QED
  BY <1>1, <1>2, <1>3, PTL DEF Spec

\* The variables keep their types, and no deque drops more than it holds.
THEOREM TypeCorrect == Spec => []TypeOK
<1>1. IInv => TypeOK
  BY DEF IInv
<1> QED
  BY <1>1, Invariance, PTL

\* However a client spreads its requests, any Limit + 1 that one process lets
\* through take longer than a window.
THEOREM WindowSlides == Spec => []SlidingWindow
<1>1. IInv => SlidingWindow
  BY DEF IInv
<1> QED
  BY <1>1, Invariance, PTL

\* A client is rejected for its own admitted requests of the last window only.
THEOREM RejectionsJustified == Spec => []RejectionsAreDeserved
<1>1. IInv => RejectionsAreDeserved
  BY DEF IInv
<1> QED
  BY <1>1, Invariance, PTL

\* No deque outgrows the limit.
THEOREM MemoryBounded == Spec => []DequesAreBounded
<1>1. IInv => DequesAreBounded
  BY DEF IInv
<1> QED
  BY <1>1, Invariance, PTL
=============================================================================
