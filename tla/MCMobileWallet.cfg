CONSTANTS
  k1 = k1  k2 = k2  k3 = k3
  p1 = p1  p2 = p2
  s1 = s1  s2 = s2
  Keys = {k1, k2, k3}
  Passes = {p1, p2}
  Files <- MCFiles
  Devices <- MCDevices
  Slots = {s1, s2}
  MaxTaps = 3
  MaxEnds = 1
  Nothing = Nothing
SPECIFICATION Spec
SYMMETRY MCSymmetry
INVARIANTS
  TypeOK
  SessionIsCurrent
  VaultSettles
CHECK_DEADLOCK FALSE
