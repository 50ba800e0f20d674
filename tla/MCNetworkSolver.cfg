\* Both methods on every request: up to four lanes go to the LP, which may fail;
\* five lanes go to the heuristic at once.
CONSTANTS
  Requests <- MCRequests
  Warehouses <- MCWarehouses
  Locations <- MCLocations
  NoCap = NoCap
  ExactMaxVariables = 4
SPECIFICATION Spec
INVARIANTS
  CapacityRespected DemandIsAccountedFor ShortfallIsForced
  CheapestFirst FallbackPlansFitTheLP OneLocationIsOptimal InfeasibleIsTrue IInv
