SPECIFICATION SocketSpec
CONSTANTS
  a = a
  b = b
  ua = ua
  ub = ub
  Hosts = {a, b}
  Urls = {ua, ub}
  Owner <- MCOwner
  Advertised <- MCAdvertised
  Networks <- MCNetworks
  SocketTTL = 1
  MaxConnections = 2
  MaxTasks = 2
  MaxStops = 1
  NoUrl = none
INVARIANTS
  SocketTypeOK
  RegisteredIsAlive
  ReadyIsMutual
PROPERTIES
  DialsAreAnswered
CHECK_DEADLOCK FALSE
