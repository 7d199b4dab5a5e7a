SPECIFICATION Spec
CONSTANTS
  NaN = NaN
  Null = Null
  NumAccounts = 5
  Treasury = 1
  RelayerPool = 2
  GenesisValidators = {3}
  FirstValidator = 3
  GenesisStake = 4
  InitialBalance <- MCInitialBalance
  Signers = {4, 5}
  Payees = {5}
  Amounts = {2, 3, NaN}
  Fees = {1}
  CommissionRates = {20, NaN}
  BaseFee = 1
  MinValidatorStake = 3
  BlockReward = 3
  UnbondingPeriod = 2
  FeeBurnPercent = 25
  MobileRelayerPercent = 25
  MaxTransactions = 4
  LastTxHeight = 2
  MaxHeight = 4
INVARIANTS
  TypeOK
  RecordsAgreeWithBooks
  WeightIsBacked
  WithdrawalsAreDue
PROPERTIES
  SupplyAccounted
  OnlyOwnTransactionsSpend
  WithdrawalsPaidInFull
CHECK_DEADLOCK FALSE
