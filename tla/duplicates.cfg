SPECIFICATION Spec
CONSTANTS
  c1 = c1
  c2 = c2
  c3 = c3
  Client = {c1, c2}
  PID <- PIDs
  N = 2
  ClockMax = 4
  ValorMax = 1
  ValorInicial = 0
  Losable = {}
  Duplicable = {"REQUEST_TOKEN"}
  MayExit = FALSE
INVARIANTS
  MutualExclusion
  CounterHandedOver
PROPERTIES
  CounterStep
