SPECIFICATION Spec
CONSTANTS
  c1 = c1
  c2 = c2
  c3 = c3
  Client = {c1, c2}
  PID <- PIDs
  N = 10
  ClockMax = 7
  ValorMax = 7
  MayOvertake = TRUE
  MayExit = FALSE
INVARIANTS
  MutualExclusion
CHECK_DEADLOCK FALSE
