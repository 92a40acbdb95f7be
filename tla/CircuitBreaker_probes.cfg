CONSTANTS
  c1 = c1
  c2 = c2
  c3 = c3
  t1 = t1
  NoTool = NoTool
  Tools = {t1}
  Callers = {c1, c2, c3}
  FailureThreshold = 2
  SuccessThreshold = 2
  ResetTimeout = 2
  HalfOpenMaxCalls = 1
  CountCap = 3
SPECIFICATION Spec
INVARIANTS ProbesBounded
