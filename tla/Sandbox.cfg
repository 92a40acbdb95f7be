CONSTANTS
  read = read
  host = host
  value1 = value1
  NoValue = NoValue
  Ids = {1, 2, 3, 4}
  BulkyIds = {}
  Tools <- Names
  Namespace <- Host
  Namespaces <- Hosts
  AllowedTools <- Names
  AnyTool = FALSE
  MaxToolCalls = 1
  Values = {value1}
  MaxRequests = 4
  Widths = {1, 3}
  MaxOutput = 2
  PipeCap = 1
  MaxPrinted = 2
  SystemRoots <- Roots
  DenyRead <- Denied
  Places <- PlacesOf
  Setups <- SetupsOf
  WallClock = TRUE
SPECIFICATION FairSpec
INVARIANTS SandboxTypeOK ReportIsFaithful OutputKept NothingLeftBehind GuestSeesItsFiles
PROPERTIES RunReturns
CHECK_DEADLOCK FALSE
