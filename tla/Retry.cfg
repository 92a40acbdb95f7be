CONSTANTS
  connection = connection
  oauth = oauth
  Timeouts <- TimeoutValues
  Errors <- ErrorValues
  RetryOn = {connection}
  SkipOn = {oauth}
  MaxRetries = 2
  BaseDelays = {0, 1}
  MaxDelay = 2
  Jitter = TRUE
SPECIFICATION FairSpec
INVARIANTS ReportsAttempts RetriesOnlyRetryable OverrunBounded
PROPERTIES AlwaysReturns
CHECK_DEADLOCK FALSE
