\* One process and two clients, a limit of 2 in a window of 2 seconds: the clock
\* runs through three windows, and the process is restarted once.
CONSTANTS
  Processes = {p1}
  Clients = {c1, c2}
  Limit = 2
  Window = 2
  MaxTime = 6
  MaxRestarts = 1
SYMMETRY Symmetry
SPECIFICATION Spec
INVARIANTS SlidingWindow RejectionsAreDeserved IInv
CHECK_DEADLOCK TRUE
