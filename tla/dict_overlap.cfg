SPECIFICATION Spec
CONSTANTS
  c1 = c1
  c2 = c2
  w1 = w1
  w2 = w2
  t1 = t1
  t2 = t2
  Nulo = Nulo
  Client = {c1, c2}
  Palavra = {w1, w2}
  Thread = {t1, t2}
  DICTSIZ = 2
  IntMax = 2
  MaxCalls = 2
SYMMETRY Simetria
INVARIANTS
  ResultsAreOwn
CHECK_DEADLOCK FALSE
