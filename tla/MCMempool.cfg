SPECIFICATION Spec
CONSTANTS
  Wallets <- MCWallets
  Faucet = "faucet"
  InitialBalance <- MCInitialBalance
  SignedTransactions <- MCSigned
  FaucetRecipients <- MCRecipients
  FaucetAmounts = {2}
  MaxFaucetAmount = 2
  Cooldown = 1
  BaseFees = {1, 2}
  Grants = {0, 3}
  GrantRecipient = "a"
  MaxPerBlock = 1
  Roles = {TRUE, FALSE}
  MaxPeerBlock = 2
  MaxConfirmed = 1
  MaxRequests = 2
  MaxClock = 2
INVARIANTS
  TypeOK
  PendingWillExecute
  CooldownKept
PROPERTIES
  
  ImplementsTxLog
  PendingIsSettled
CHECK_DEADLOCK FALSE
