CONSTANTS
  c1 = c1
  c2 = c2
  c3 = c3
  t1 = t1
  NoTool = NoTool
  Tools = {t1}
  Callers = {c1, c2, c3}
  FailureThreshold = 2
  SuccessThreshold = 3
  ResetTimeout = 2
  HalfOpenMaxCalls = 2
  CountCap = 3
SPECIFICATION FairSpec
INVARIANTS ClosedBelowThreshold ProbePeriodsAreFresh SlotsAccounted
PROPERTIES OpenWaitsOutReset TripsOnlyAfterRun ImplementsGate
           HalfOpenResolves ClosesUnlessCancelled
