SPECIFICATION PageSpec
CONSTANTS
  k1 = k1
  k2 = k2
  k3 = k3
  p1 = p1
  Wallets = {k1, k2, k3}
  Passphrases = {p1, p2}
  Forms = {f1, f2}
  KeystoreFiles <- MCFiles
  PageSlots = {s1, s2}
  MaxClicks = 3
  None = nothing
INVARIANTS
  SessionMatchesStorage
  EstimateIsCurrent
PROPERTIES
  AccountCatchesUp
CHECK_DEADLOCK FALSE
