----------------------------- MODULE Contracts -----------------------------
(***************************************************************************)
(* The native contract templates: AfroCoin allowances, savings circles and *)
(* merchant escrows.  A contract's state says what it owes; the tokens are *)
(* on an ordinary account at its address, which anybody may pay into.      *)
(* Who deploys a contract chooses its address, be it his own wallet's, a   *)
(* stranger's or the treasury's: the account is then theirs to spend, too. *)
(*                                                                         *)
(* Amounts are natural: one that is no number, or negative, reaches        *)
(* transferInState as 0 or less, which throws, and an allowance that is no *)
(* number counts as 0.                                                     *)
(*                                                                         *)
(* A transaction that throws leaves the state alone, hence an action is    *)
(* one that succeeds.  Fees and gas are left out.                          *)
(***************************************************************************)
EXTENDS Integers, Sequences, FiniteSets

CONSTANTS
  Wallets,          \* accounts that own a key
  Addresses,        \* addresses that contracts are deployed at
  Treasury,         \* state.treasury
  InitialBalance,   \* wallet -> balance
  Bond,             \* params.contractDeploymentBond
  Amounts,          \* amounts of payments and approvals
  Circles,          \* args of savings circles: [contributionAmount, members]
  Escrows,          \* args of merchant escrows: [amount, buyer, merchant]
  MaxTransfers,     \* bound: transactions to AfroCoin, and payments
  MaxCalls          \* bound: transactions to other contracts

Accounts == Wallets \cup Addresses \cup {Treasury}

\* No key derives to the treasury's address; and nobody is named twice among the
\* first members of a circle, which the code does not check.
ASSUME ContractsAssumption ==
  /\ Treasury \notin Wallets
  /\ InitialBalance \in [Wallets -> Nat]
  /\ Amounts \subseteq Nat
  /\ {Bond, MaxTransfers, MaxCalls} \subseteq Nat
  /\ \A args \in Circles :
       /\ args.contributionAmount \in Nat
       /\ args.members \in Seq(Accounts)
       /\ \A i, j \in DOMAIN args.members : i # j => args.members[i] # args.members[j]
  /\ Escrows \subseteq [amount : Nat, buyer : Accounts, merchant : Accounts]

VARIABLES
  balances,       \* account -> balance
  allowances,     \* owner -> spender -> allowance, of the AfroCoin contract
  contracts,      \* address -> contract
  donated,        \* history: address -> payments in that were not for its contract
  joined,         \* history: address -> account -> payouts before it joined
  caller,         \* history: who sent the last transaction
  transfers,      \* transactions to AfroCoin, and payments, so far
  calls           \* transactions to other contracts so far

vars == <<balances, allowances, contracts, donated, joined, caller,
          transfers, calls>>

NoContract == [template |-> "none"]

Circle(args) ==
  [template |-> "savings_circle", contributionAmount |-> args.contributionAmount,
   members |-> args.members, currentRecipientIndex |-> 1, payouts |-> <<>>, pot |-> 0]

Escrow(args, owner) ==
  [template |-> "merchant_escrow", owner |-> owner, amount |-> args.amount,
   buyer |-> args.buyer, merchant |-> args.merchant, funded |-> FALSE, released |-> FALSE]

Instance(template, args, owner) ==
  IF template = "savings_circle" THEN Circle(args) ELSE Escrow(args, owner)

Init ==
  /\ balances = [a \in Accounts |-> IF a \in Wallets THEN InitialBalance[a] ELSE 0]
  /\ allowances = [w \in Wallets |-> [d \in Wallets |-> 0]]
  /\ contracts = [c \in Addresses |-> NoContract]
  /\ donated = [c \in Addresses |-> 0]
  /\ joined = [c \in Addresses |-> [a \in Accounts |-> 0]]
  /\ caller = Treasury
  /\ transfers = 0
  /\ calls = 0

-----------------------------------------------------------------------------
(***************************************************************************)
(* transferInState.                                                        *)
(***************************************************************************)
Transferable(from, amount) == amount > 0 /\ balances[from] >= amount

Transfer(from, to, amount) ==
  /\ Transferable(from, amount)
  /\ balances' = [[balances EXCEPT ![from] = @ - amount] EXCEPT ![to] = @ + amount]

Donated(to, amount) == [c \in Addresses |-> donated[c] + (IF c = to THEN amount ELSE 0)]

Transferred(sender) ==
  /\ transfers < MaxTransfers
  /\ transfers' = transfers + 1
  /\ caller' = sender
  /\ UNCHANGED calls

Called(sender) ==
  /\ calls < MaxCalls
  /\ calls' = calls + 1
  /\ caller' = sender
  /\ UNCHANGED transfers

\* A payment, or AfroCoin's transfer.
Pay(sender, to, amount) ==
  /\ Transferred(sender) /\ Transfer(sender, to, amount)
  /\ donated' = Donated(to, amount)
  /\ UNCHANGED <<allowances, contracts, joined>>

-----------------------------------------------------------------------------
(***************************************************************************)
(* AfroCoin.                                                               *)
(***************************************************************************)
Approve(sender, spender, amount) ==
  /\ Transferred(sender)
  /\ allowances' = [allowances EXCEPT ![sender][spender] = amount]
  /\ UNCHANGED <<balances, contracts, donated, joined>>

\* Mutant of Spent: the spender's own book is charged.
SpentOfSpender(owner, spender, amount) == [allowances EXCEPT ![spender][owner] = @ - amount]

Spent(owner, spender, amount) == [allowances EXCEPT ![owner][spender] = @ - amount]

TransferFrom(sender, from, to, amount) ==
  /\ Transferred(sender)
  /\ allowances[from][sender] >= amount
  /\ allowances' = Spent(from, sender, amount)
  /\ Transfer(from, to, amount)
  /\ donated' = Donated(to, amount)
  /\ UNCHANGED <<contracts, joined>>

-----------------------------------------------------------------------------
(***************************************************************************)
(* Deployment, at any address that has no contract yet: the bond goes to   *)
(* the treasury.                                                           *)
(***************************************************************************)
Deploy(sender, c, template, args) ==
  /\ Called(sender)
  /\ contracts[c] = NoContract
  /\ balances[sender] >= Bond
  /\ balances' = [balances EXCEPT ![sender] = @ - Bond, ![Treasury] = @ + Bond]
  /\ contracts' = [contracts EXCEPT ![c] = Instance(template, args, sender)]
  /\ UNCHANGED <<allowances, donated, joined>>

-----------------------------------------------------------------------------
(***************************************************************************)
(* Savings circles.                                                        *)
(***************************************************************************)
Members(c) == {contracts[c].members[i] : i \in DOMAIN contracts[c].members}

\* Mutant of Joined: new members go first.
JoinedFirst(members, sender) == <<sender>> \o members

Joined(members, sender) == Append(members, sender)

Join(sender, c) ==
  /\ Called(sender)
  /\ contracts[c].template = "savings_circle"
  /\ IF sender \in Members(c) THEN UNCHANGED <<contracts, joined>>
     ELSE /\ contracts' = [contracts EXCEPT ![c].members = Joined(@, sender)]
          /\ joined' = [joined EXCEPT ![c][sender] = Len(contracts[c].payouts)]
  /\ UNCHANGED <<balances, allowances, donated>>

\* Anybody may contribute, members or not, as often as they like.
Contribute(sender, c) ==
  /\ Called(sender)
  /\ contracts[c].template = "savings_circle"
  /\ Transfer(sender, c, contracts[c].contributionAmount)
  /\ contracts' = [contracts EXCEPT ![c].pot = @ + contracts[c].contributionAmount]
  /\ UNCHANGED <<allowances, donated, joined>>

\* Anybody may ask for the next payout.
PayoutNext(sender, c) ==
  LET circle == contracts[c]
      recipient == circle.members[circle.currentRecipientIndex]
  IN  /\ Called(sender)
      /\ circle.template = "savings_circle"
      /\ circle.members # <<>>
      /\ circle.pot > 0
      /\ Transfer(c, recipient, circle.pot)
      /\ contracts' = [contracts EXCEPT
           ![c].payouts = Append(@, recipient),
           ![c].pot = 0,
           ![c].currentRecipientIndex = (@ % Len(circle.members)) + 1]
      /\ donated' = Donated(recipient, circle.pot)
      /\ UNCHANGED <<allowances, joined>>

-----------------------------------------------------------------------------
(***************************************************************************)
(* Merchant escrows.                                                       *)
(***************************************************************************)
Fund(sender, c) ==
  LET escrow == contracts[c]
  IN  /\ Called(sender)
      /\ escrow.template = "merchant_escrow"
      /\ sender = escrow.buyer
      /\ ~ escrow.funded
      /\ Transfer(sender, c, escrow.amount)
      /\ contracts' = [contracts EXCEPT ![c].funded = TRUE]
      /\ UNCHANGED <<allowances, donated, joined>>

\* Mutant of Releasable: whether it was released before does not matter.
ReleasableAgain(escrow) == escrow.funded

Releasable(escrow) == escrow.funded /\ ~ escrow.released

Release(sender, c) ==
  LET escrow == contracts[c]
  IN  /\ Called(sender)
      /\ escrow.template = "merchant_escrow"
      /\ Releasable(escrow)
      /\ sender \in {escrow.buyer, escrow.owner}
      /\ Transfer(c, escrow.merchant, escrow.amount)
      /\ contracts' = [contracts EXCEPT ![c].released = TRUE]
      /\ donated' = Donated(escrow.merchant, escrow.amount)
      /\ UNCHANGED <<allowances, joined>>

\* After a refund the buyer may fund the escrow again.
Refund(sender, c) ==
  LET escrow == contracts[c]
  IN  /\ Called(sender)
      /\ escrow.template = "merchant_escrow"
      /\ escrow.funded /\ ~ escrow.released
      /\ sender \in {escrow.owner, escrow.merchant}
      /\ Transfer(c, escrow.buyer, escrow.amount)
      /\ contracts' = [contracts EXCEPT ![c].funded = FALSE]
      /\ donated' = Donated(escrow.buyer, escrow.amount)
      /\ UNCHANGED <<allowances, joined>>

-----------------------------------------------------------------------------
Next ==
  \E sender \in Wallets :
    \/ \E to \in Accounts, amount \in Amounts : Pay(sender, to, amount)
    \/ \E spender \in Wallets, amount \in Amounts : Approve(sender, spender, amount)
    \/ \E from \in Wallets, to \in Accounts, amount \in Amounts :
         TransferFrom(sender, from, to, amount)
    \/ \E c \in Addresses :
         \/ \E args \in Circles : Deploy(sender, c, "savings_circle", args)
         \/ \E args \in Escrows : Deploy(sender, c, "merchant_escrow", args)
         \/ Join(sender, c)
         \/ Contribute(sender, c)
         \/ PayoutNext(sender, c)
         \/ Fund(sender, c)
         \/ Release(sender, c)
         \/ Refund(sender, c)

Spec == Init /\ [][Next]_vars

-----------------------------------------------------------------------------
(***************************************************************************)
(* Type invariant.                                                         *)
(***************************************************************************)
CircleContracts ==
  [template : {"savings_circle"}, contributionAmount : Nat, members : Seq(Accounts),
   currentRecipientIndex : Nat \ {0}, payouts : Seq(Accounts), pot : Nat]

EscrowContracts ==
  [template : {"merchant_escrow"}, owner : Wallets, amount : Nat, buyer : Accounts,
   merchant : Accounts, funded : BOOLEAN, released : BOOLEAN]

TypeOK ==
  /\ balances \in [Accounts -> Nat]
  /\ allowances \in [Wallets -> [Wallets -> Nat]]
  /\ contracts \in [Addresses -> {NoContract} \cup CircleContracts \cup EscrowContracts]
  /\ donated \in [Addresses -> Nat]
  /\ joined \in [Addresses -> [Accounts -> Nat]]
  /\ caller \in Wallets \cup {Treasury}
  /\ transfers \in 0 .. MaxTransfers
  /\ calls \in 0 .. MaxCalls

(***************************************************************************)
(* The account of a contract that nobody else can spend from holds what    *)
(* its state says it owes, to the token, apart from payments that were no  *)
(* contribution: whoever funds, releases, refunds and funds again, in      *)
(* whatever order, and whatever accounts the contract pays, no funding is  *)
(* paid out twice, and none stays behind.  A contract at the address of a  *)
(* wallet or of the treasury shares the account with its owner, whose      *)
(* payments may leave it owing what it does not have.                      *)
(***************************************************************************)
Owed(contract) ==
  CASE contract.template = "savings_circle" -> contract.pot
    [] contract.template = "merchant_escrow" ->
         IF contract.funded /\ ~ contract.released THEN contract.amount ELSE 0
    [] OTHER -> 0

\* Addresses of contracts only.
OwnAddresses == Addresses \ (Wallets \cup {Treasury})

BalanceIsOwed == \A c \in OwnAddresses : balances[c] = Owed(contracts[c]) + donated[c]

(***************************************************************************)
(* Payouts of a circle rotate: nobody is paid again before everybody who   *)
(* was a member by his first turn has been paid in between, although       *)
(* others join in the middle.                                              *)
(***************************************************************************)
TurnsRotate ==
  \A c \in Addresses : contracts[c].template = "savings_circle" =>
    LET paid == contracts[c].payouts
    IN  \A i, j \in DOMAIN paid :
          (i < j /\ paid[i] = paid[j]) =>
            \A w \in Members(c) \ {paid[i]} :
              joined[c][w] < i => \E k \in (i + 1) .. (j - 1) : paid[k] = w

(***************************************************************************)
(* No account loses tokens, a wallet's, a contract's or the treasury's,    *)
(* unless its owner sent the transaction, or the sender's allowance shrank *)
(* by as much, or a contract at that very address owes so much less than   *)
(* before.  The last also takes tokens of a wallet at whose address a      *)
(* stranger deployed, but never more than was paid to the contract there.  *)
(***************************************************************************)
SpendingIsAllowed ==
  [][\A a \in Accounts :
       caller' # a /\ balances'[a] < balances[a] =>
         LET spent == balances[a] - balances'[a]
         IN  \/ /\ a \in Wallets
                /\ spent <= allowances[a][caller'] - allowances'[a][caller']
             \/ /\ a \in Addresses
                /\ spent <= Owed(contracts[a]) - Owed(contracts'[a])]_vars
=============================================================================
