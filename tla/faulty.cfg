SPECIFICATION Spec
CONSTANTS
  c1 = c1
  c2 = c2
  c3 = c3
  Client = {c1, c2}
  PID <- PIDs
  N = 10
  ClockMax = 7
  ValorMax = 1
  ValorInicial = 1
  Losable = {"REQUEST_TOKEN", "RELEASE_TOKEN", "REPLY_ALLOW", "ACK"}
  Duplicable = {}
  MayExit = TRUE
INVARIANTS
  TypeOK
  TokenUnico
  MutualExclusion
  CounterHandedOver
  FlagNamesHolder
  OnlyOwnAcks
PROPERTIES
  CounterStep
  ImplementsExclusao
CHECK_DEADLOCK FALSE
