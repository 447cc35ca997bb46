SPECIFICATION Spec
CONSTANTS
  c1 = c1
  c2 = c2
  c3 = c3
  Client = {c1, c2, c3}
  PID <- PIDs
  N = 1
  ClockMax = 7
  ValorMax = 1
  ValorInicial = 1
  Losable = {}
  Duplicable = {}
  MayExit = FALSE
INVARIANTS
  NoForgottenRequest
