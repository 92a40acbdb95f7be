CONSTANTS
  k1 = k1
  k2 = k2
  k3 = k3
  slow = slow
  free = free
  never = never
  Global = Global
  NoTool = NoTool
  Outside = Outside
  Inner = Inner
  Dropped = Dropped
  Panicked = Panicked
  Callers = {k1, k2, k3}
  Tools = {slow, free, never}
  Windows = {Global, slow, never}
  Limit <- LimitOf
  Period <- PeriodOf
SPECIFICATION FairSpec
INVARIANTS SlidingWindow
PROPERTIES SleepsOnlyWhenFull HeldUpOnlyByOthers
