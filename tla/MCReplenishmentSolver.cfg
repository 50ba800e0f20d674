CONSTANTS
  None = None
  Requests <- MCRequests
SPECIFICATION Spec
INVARIANTS BudgetIsSpent OrdersFitTheSite MoreServiceMoreStock CutsSpareTheUrgent
