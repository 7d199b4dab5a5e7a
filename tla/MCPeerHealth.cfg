SPECIFICATION PeerSpec
CONSTANTS
  HttpPeers = {h1}
  SocketPeers = {s1}
  Strangers = {x1}
  Configured = {h1}
  Fanout = 1
  LowestScore <- MCLowestScore
  HighestScore = 0
  Timer = timer
  Others = {other}
  Imports = {0}
  MaxFailures = 4
  NoPeer = none
INVARIANTS
  EligibleWhenEarned
PROPERTIES
  PeersRecover
CHECK_DEADLOCK FALSE
