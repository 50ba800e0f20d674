---------------------------- MODULE PlanRegistry ----------------------------
(***************************************************************************)
(* What SupplyIQ promises about solved plans, whatever happens inside:     *)
(*                                                                         *)
(*  - a plan, once stored, is never changed and never disappears;          *)
(*  - the input of every stored plan was submitted by a client or is what  *)
(*    a set of modifications makes of the input of a stored plan           *)
(*    (ADR-004: the copilot proposes changes, it never invents an input);  *)
(*  - the stored result is the solver's answer to the stored input;        *)
(*  - a plan id that a client was given names a stored plan.               *)
(*                                                                         *)
(* PlanService implements this specification.                              *)
(***************************************************************************)
CONSTANTS
  Requests,     \* validated solver requests, of the three domains together
  NoRequest,    \* "no request": modifications that do not apply
  Mods,         \* non-empty lists of what-if modifications
  Applied       \* Applied[r][m]: r with the modifications m, or NoRequest

VARIABLES
  submitted,    \* requests that clients sent to a /solve route
  store,        \* plan id -> [request, result]
  published     \* plan ids that clients were told

vars == <<submitted, store, published>>

Init ==
  /\ submitted = {}
  /\ store = [id \in {} |-> NoRequest]
  /\ published = {}

Submit(r) ==
  /\ submitted' = submitted \cup {r}
  /\ UNCHANGED <<store, published>>

Insert(id, r) ==
  /\ id \notin DOMAIN store
  /\ store' = [i \in DOMAIN store \cup {id} |->
                 IF i = id THEN [request |-> r, result |-> r] ELSE store[i]]
  /\ UNCHANGED <<submitted, published>>

\* A plan solved from what a client sent.
Store(id, r) ==
  /\ r \in submitted
  /\ Insert(id, r)

\* A what-if plan: re-solved from the modified input of a stored plan.
Derive(id, parent, m) ==
  /\ parent \in DOMAIN store
  /\ Applied[store[parent].request][m] # NoRequest
  /\ Insert(id, Applied[store[parent].request][m])

Publish(id) ==
  /\ id \in DOMAIN store
  /\ published' = published \cup {id}
  /\ UNCHANGED <<submitted, store>>

Next ==
  \/ \E r \in Requests : Submit(r)
  \/ \E id \in DOMAIN store', r \in Requests : Store(id, r)
  \/ \E id \in DOMAIN store', parent \in DOMAIN store, m \in Mods : Derive(id, parent, m)
  \/ \E id \in DOMAIN store : Publish(id)

Spec == Init /\ [][Next]_vars
=============================================================================
