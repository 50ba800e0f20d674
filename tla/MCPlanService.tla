--------------------------- MODULE MCPlanService ---------------------------
(***************************************************************************)
(* PlanService for TLC.  base is a network request, closed what a what-if  *)
(* makes of it, and huge what a what-if with an infinite number makes of   *)
(* either; route is a routing request that no modification fits.           *)
(***************************************************************************)
EXTENDS PlanService

CONSTANTS base, closed, huge, route, close, inflate, w1, w2, w3, p1, p2

\* Two threads of one process, and a process with one thread.
MCReplicaOf == [w \in Workers |-> IF w = w3 THEN p2 ELSE p1]
MCDomainOf == [r \in Requests |-> IF r = route THEN "routing" ELSE "network"]
MCApplied ==
  [r \in Requests |-> [m \in Mods |->
     CASE r \in {base, closed} /\ m = inflate -> huge
       [] r = base /\ m = close -> closed
       [] OTHER -> NoRequest]]
=============================================================================
