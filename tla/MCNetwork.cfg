SPECIFICATION Spec
CONSTANTS
  a = a
  b = b
  c = c
  Nodes = {a, b, c}
  Links <- MCOneWay
  Forced = {}
  Syncing = {c}
  TTL = 2
  MaxHeight = 2
  MaxFaults = 1
  NoNode = none
INVARIANTS
  TypeOK
  ChainsAgree
PROPERTIES
  CatchUp
CHECK_DEADLOCK FALSE
