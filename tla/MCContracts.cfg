SPECIFICATION Spec
CONSTANTS
  ama = ama
  kofi = kofi
  zola = zola
  Wallets = {ama, kofi, zola}
  Addresses = {c1, zola}
  Treasury = treasury
  InitialBalance <- MCInitialBalance
  Bond = 1
  Amounts = {1}
  Circles <- MCCircles
  Escrows <- MCEscrows
  MaxTransfers = 2
  MaxCalls = 7
INVARIANTS
  BalanceIsOwed
  TurnsRotate
PROPERTIES
  SpendingIsAllowed
CHECK_DEADLOCK FALSE
