CONSTANTS
  web = web
  files = files
  x = x
  y = y
  c1 = c1
  c2 = c2
  c3 = c3
  a = a
  b = b
  Empty = Empty
  NoServer = NoServer
  NoConn = NoConn
  Servers = {web, files}
  Conns = {c1, c2, c3}
  Tools = {x, y, Empty}
  Offers <- OffersOf
  Callers = {a, b}
SPECIFICATION FairSpec
INVARIANTS RoutedToFirst ConnectionsHeld ToolsAvailable
PROPERTIES CloseDisconnects
CHECK_DEADLOCK FALSE
