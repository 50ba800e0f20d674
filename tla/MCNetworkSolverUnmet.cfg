\* A request without an active warehouse.
CONSTANTS
  Requests <- MCRequests
  Warehouses <- MCWarehouses
  Locations <- MCLocations
  NoCap = NoCap
  ExactMaxVariables = 4
SPECIFICATION Spec
INVARIANT UnmetDemandIsPenalized
