CONSTANTS
  default = default
  other = other
  write = write
  value1 = value1
  value2 = value2
  NoValue = NoValue
  Ids = {1, 2}
  BulkyIds = {2}
  Tools <- Asked
  Namespace <- Host
  Namespaces <- AskedNamespaces
  AllowedTools <- Entries
  AnyTool = FALSE
  MaxToolCalls = 1
  Values = {value1, value2}
  MaxRequests = 4
SPECIFICATION BrokerSpec
INVARIANTS AnsweredInOrder RunsOnlyPermitted CallsCounted
PROPERTIES ResultIsFinal
CHECK_DEADLOCK FALSE
