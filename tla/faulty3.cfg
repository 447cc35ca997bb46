SPECIFICATION Spec
CONSTANTS
  c1 = c1
  c2 = c2
  c3 = c3
  Client = {c1, c2, c3}
  PID <- PIDsZero
  N = 10
  ClockMax = 4
  ValorMax = 0
  ValorInicial = 0
  Losable = {"REQUEST_TOKEN", "RELEASE_TOKEN", "REPLY_ALLOW", "ACK"}
  Duplicable = {}
  MayExit = TRUE
INVARIANTS
  FilaOK
  OneRequest
CHECK_DEADLOCK FALSE
