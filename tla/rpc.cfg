SPECIFICATION FairSpec
CONSTANTS
  c1 = c1
  c2 = c2
  c3 = c3
  Client = {c1, c2, c3}
  PID <- PIDs
  N = 10
  ClockMax = 15
  ValorMax = 7
  MayOvertake = FALSE
  MayExit = TRUE
INVARIANTS
  TypeOK
  MutualExclusion
  CounterHandedOver
  HolderAtHead
  WaitsForHolder
PROPERTIES
  CounterStep
  ImplementsExclusao
  WaitsAreExplained
CHECK_DEADLOCK FALSE
