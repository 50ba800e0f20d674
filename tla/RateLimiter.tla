----------------------------- MODULE RateLimiter -----------------------------
(***************************************************************************)
(* RateLimitMiddleware: each API process keeps, per client address, the    *)
(* monotonic times of the requests it let through, in a deque.  A request  *)
(* first drops the times that left the window, then is rejected with 429   *)
(* or recorded and passed on.  dispatch has no await before it has         *)
(* recorded the request, so on the event loop of its process it is atomic. *)
(*                                                                         *)
(* admitted[p][c] keeps every time recorded since process p started; the   *)
(* deque is what follows its first popped[p][c] elements.                  *)
(***************************************************************************)
EXTENDS Integers, Sequences, FiniteSets

CONSTANTS
  Processes,   \* the API processes (replicas) a client may be routed to
  Clients,     \* client addresses
  Limit,       \* settings.rate_limit_per_minute
  Window,      \* _WINDOW_SECONDS
  MaxTime,     \* bound of the model: the clock stops there
  MaxRestarts  \* bound of the model: restarts of processes

ASSUME LimitAssumption == Limit \in Nat
ASSUME WindowAssumption == Window \in Nat
ASSUME TimeAssumption == MaxTime \in Nat /\ MaxRestarts \in Nat

VARIABLES
  now,        \* the clock, in seconds
  admitted,   \* the times recorded for a client by the present process
  popped,     \* how many of them popleft has dropped
  verdict,    \* the last decision of each process
  restarts    \* restarts so far

vars == <<now, admitted, popped, verdict, restarts>>

NoVerdict == [status |-> "none"]
Verdicts == {NoVerdict} \cup
  [status : {"passed", "rejected"}, client : Clients, at : 0..MaxTime]

\* self._requests[client_ip], a defaultdict: empty until the first request.
Queued(p, c) == Len(admitted[p][c]) - popped[p][c]

-----------------------------------------------------------------------------
Init ==
  /\ now = 0
  /\ admitted = [p \in Processes |-> [c \in Clients |-> << >>]]
  /\ popped = [p \in Processes |-> [c \in Clients |-> 0]]
  /\ verdict = [p \in Processes |-> NoVerdict]
  /\ restarts = 0

\* Seeded fault: a time that is exactly one window old is dropped.
ExpiresEarly(time) == now - time >= Window

Expired(time) == now - time > Window

\* Seeded fault: expired times stay in the deque.
DropsNone(times, from, to) == to = from

\* The while loop: elements are dropped from the left as long as they expired.
Drops(times, from, to) ==
  /\ \A i \in (from + 1)..to : Expired(times[i])
  /\ to < Len(times) => ~Expired(times[to + 1])

\* Seeded fault: one request too many.
FullOffByOne(n) == n > Limit

Full(n) == n >= Limit

Dispatch(p, c) ==
  /\ \E to \in popped[p][c]..Len(admitted[p][c]) :
       /\ Drops(admitted[p][c], popped[p][c], to)
       /\ popped' = [popped EXCEPT ![p][c] = to]
       /\ IF Full(Len(admitted[p][c]) - to)
          THEN /\ verdict' = [verdict EXCEPT ![p] =
                                [status |-> "rejected", client |-> c, at |-> now]]
               /\ UNCHANGED admitted
          ELSE /\ verdict' = [verdict EXCEPT ![p] =
                                [status |-> "passed", client |-> c, at |-> now]]
               /\ admitted' = [admitted EXCEPT ![p][c] = Append(@, now)]
  /\ UNCHANGED <<now, restarts>>

Tick ==
  /\ now < MaxTime
  /\ now' = now + 1
  /\ UNCHANGED <<admitted, popped, verdict, restarts>>

\* A process is replaced: its deques were in memory only.
Restart(p) ==
  /\ restarts < MaxRestarts
  /\ restarts' = restarts + 1
  /\ admitted' = [admitted EXCEPT ![p] = [c \in Clients |-> << >>]]
  /\ popped' = [popped EXCEPT ![p] = [c \in Clients |-> 0]]
  /\ verdict' = [verdict EXCEPT ![p] = NoVerdict]
  /\ UNCHANGED now

Next ==
  \/ \E p \in Processes, c \in Clients : Dispatch(p, c)
  \/ Tick
  \/ \E p \in Processes : Restart(p)

Spec == Init /\ [][Next]_vars

-----------------------------------------------------------------------------
\* The types of the variables.
TypeOK ==
  /\ now \in 0..MaxTime
  /\ admitted \in [Processes -> [Clients -> Seq(Nat)]]
  /\ popped \in [Processes -> [Clients -> Nat]]
  /\ \A p \in Processes, c \in Clients : popped[p][c] <= Len(admitted[p][c])
  /\ verdict \in [Processes -> Verdicts]
  /\ restarts \in 0..MaxRestarts

\* The sliding window: of any Limit + 1 requests that a process let through for
\* one client, the last came more than a window after the first, wherever the
\* window is laid and whatever the rejected requests between them.
SlidingWindow ==
  \A p \in Processes, c \in Clients :
    \A i \in 1..Len(admitted[p][c]) :
      i + Limit <= Len(admitted[p][c]) =>
        admitted[p][c][i + Limit] - admitted[p][c][i] > Window

\* A 429 is deserved: Limit requests of that client, of no other, were let
\* through within the window that ends now, and rejected ones do not count.  So a
\* client that waits for a window is never turned away, and one that keeps
\* knocking is not locked out by its own rejections.
RejectionsAreDeserved ==
  \A p \in Processes :
    (verdict[p].status = "rejected" /\ verdict[p].at = now) =>
      LET times == admitted[p][verdict[p].client]
      IN  /\ Len(times) >= Limit
          /\ \A i \in 1..Len(times) : i > Len(times) - Limit => ~Expired(times[i])

\* A deque never holds more than Limit times, however often the client asks: the
\* memory spent on one address is bounded.
DequesAreBounded == \A p \in Processes, c \in Clients : Queued(p, c) <= Limit

-----------------------------------------------------------------------------
\* The inductive invariant: what is in a deque, and what has left it.

\* Times are recorded in the order of the clock.
Ordered ==
  /\ \A p \in Processes : verdict[p].status = "rejected" => verdict[p].at <= now
  /\ \A p \in Processes, c \in Clients :
       LET times == admitted[p][c]
       IN  /\ \A i \in 1..Len(times) : times[i] <= now
           /\ \A i, j \in 1..Len(times) : i <= j => times[i] <= times[j]

\* What was dropped had expired, and time does not bring it back.
DroppedHaveExpired ==
  \A p \in Processes, c \in Clients :
    \A i \in 1..popped[p][c] : Expired(admitted[p][c][i])

IInv ==
  /\ TypeOK
  /\ Ordered
  /\ DroppedHaveExpired
  /\ DequesAreBounded
  /\ SlidingWindow
  /\ RejectionsAreDeserved

=============================================================================
