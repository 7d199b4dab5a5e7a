SPECIFICATION Spec
CONSTANTS
  NumAccounts = 5
  Treasury = 1
  Escrow = 3
  Sources = {1, 2}
  Wallets = {4, 5}
  InitialBalance <- MCInitialBalance
  InitialStake <- MCInitialStake
  Stakes = {0, 1, 2}
  ActiveStakes = {2}
  InitialParams <- MCParams
  BlockReward = 1
  Payloads <- MCPayloads
  Amounts = {1}
  MaxTransactions = 4
  LastTxHeight = 3
  MaxHeight = 7
INVARIANTS
  TypeOK
  SupplyAccounted
  OnlyApprovedTakesEffect
  VestsOnSchedule
CHECK_DEADLOCK FALSE
