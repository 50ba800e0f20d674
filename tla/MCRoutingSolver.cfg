\* Both methods: up to three stops go to OR-Tools, which may give up or raise; four
\* stops go to the heuristic at once.
CONSTANTS
  Requests <- MCRequests
  NoWindow = NoWindow
  Ticks = 2
  ExactMaxStops = 3
SPECIFICATION Spec
INVARIANTS
  StopsServedOnce LoadsFit DurationsFit WindowsBoundDepartures RefusalIsTrue
  NearestFirst LeftBehindIsForced IInv
