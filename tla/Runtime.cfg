CONSTANTS
  search = search
  ghost = ghost
  NoTool = NoTool
  one = one
  two = two
  Calls = {one, two}
  Tools = {search, ghost}
  Cacheable = {search}
  Retryable <- RetryableMessages
  Requests <- RequestsOf
  Ttl = 1
  Limit = 1
  Period = 1
  MaxRetries = 1
  MaxDelay = 2
  FailureThreshold = 1
  SuccessThreshold = 1
  ResetTimeout = 1
  HalfOpenMaxCalls = 1
  CountCap = 2
  Routed = TRUE
SPECIFICATION FairSpec
INVARIANTS RuntimeTypeOK FailureCountsOnce ShortCircuits ReportsWhatRan TimedOutIsFinal TimedCallsBounded
PROPERTIES ImplementsGate TimedCallsReturn
CHECK_DEADLOCK FALSE
