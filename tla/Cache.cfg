CONSTANTS
  a = a
  b = b
  brief = brief
  lasting = lasting
  plain = plain
  NoKey = NoKey
  Callers = {a, b}
  Keys = {brief, lasting, plain}
  Cacheable = {brief, lasting}
  Ttl <- TtlOf
  Latency = 1
  MaxVersion <- VersionsOf
SPECIFICATION FairSpec
INVARIANTS BoundedStaleness GoesBackOnlyByRace
PROPERTIES Converges
