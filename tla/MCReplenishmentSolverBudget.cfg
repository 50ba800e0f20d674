CONSTANTS
  None = None
  Requests <- MCRequests
SPECIFICATION Spec
INVARIANT SpendCap
