SPECIFICATION FairSpec
CONSTANTS
  c1 = c1
  c2 = c2
  c3 = c3
  Client = {c1, c2, c3}
  PID <- PIDsZero
  N = 3
  ClockMax = 7
  ValorMax = 0
  ValorInicial = 0
  Losable = {}
  Duplicable = {}
  MayExit = FALSE
INVARIANTS
  NoForgottenRequest
  TokenNeverLost
PROPERTIES
  EveryRequestGranted
