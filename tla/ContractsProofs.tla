-------------------------- MODULE ContractsProofs --------------------------
(***************************************************************************)
(* Proofs about the native contracts, for all accounts, arguments and      *)
(* bounds.                                                                 *)
(***************************************************************************)
EXTENDS Contracts, TLAPS

(***************************************************************************)
(* The next recipient of a circle is a member, if there is one; payoutNext *)
(* would pay an address that does not exist otherwise.                     *)
(***************************************************************************)
TurnInRange(circle) ==
  \/ circle.currentRecipientIndex <= Len(circle.members)
  \/ /\ circle.members = <<>>
     /\ circle.currentRecipientIndex = 1

(***************************************************************************)
(* And what an escrow released had been funded: a buyer who could fund it  *)
(* again would never get the tokens back.                                  *)
(***************************************************************************)
Coherent(contract) ==
  /\ contract.template = "savings_circle" => TurnInRange(contract)
  /\ contract.template = "merchant_escrow" => (contract.released => contract.funded)

AllCoherent == \A c \in Addresses : Coherent(contracts[c])

Inv == TypeOK /\ AllCoherent /\ BalanceIsOwed

-----------------------------------------------------------------------------
(***************************************************************************)
(* Records of contracts.                                                   *)
(***************************************************************************)
\* Templates tell the kinds of contract apart, in executeContractCall.
LEMMA CircleKind ==
  ASSUME NEW k \in {NoContract} \cup CircleContracts \cup EscrowContracts,
         k.template = "savings_circle"
  PROVE  k \in CircleContracts
  BY DEF NoContract, CircleContracts, EscrowContracts

LEMMA EscrowKind ==
  ASSUME NEW k \in {NoContract} \cup CircleContracts \cup EscrowContracts,
         k.template = "merchant_escrow"
  PROVE  k \in EscrowContracts
  BY DEF NoContract, CircleContracts, EscrowContracts

\* What createContractInstance returns is a contract that owes nothing.
LEMMA FreshInstance ==
  /\ \A args \in Circles, owner \in Wallets :
       LET k == Instance("savings_circle", args, owner)
       IN  k \in CircleContracts /\ Owed(k) = 0 /\ Coherent(k)
  /\ \A args \in Escrows, owner \in Wallets :
       LET k == Instance("merchant_escrow", args, owner)
       IN  k \in EscrowContracts /\ Owed(k) = 0 /\ Coherent(k)
<1>1. ASSUME NEW args \in Circles, NEW owner \in Wallets
      PROVE  LET k == Instance("savings_circle", args, owner)
             IN  k \in CircleContracts /\ Owed(k) = 0 /\ Coherent(k)
  <2>1. args.contributionAmount \in Nat /\ args.members \in Seq(Accounts)
    BY ContractsAssumption DEF ContractsAssumption
  <2>2. Circle(args) \in CircleContracts
    BY <2>1 DEF Circle, CircleContracts
  <2>3. Owed(Circle(args)) = 0
    BY DEF Circle, Owed
  <2>4. Coherent(Circle(args))
    BY <2>1 DEF Circle, TurnInRange, Coherent
  <2> QED BY <2>2, <2>3, <2>4 DEF Instance
<1>2. ASSUME NEW args \in Escrows, NEW owner \in Wallets
      PROVE  LET k == Instance("merchant_escrow", args, owner)
             IN  k \in EscrowContracts /\ Owed(k) = 0 /\ Coherent(k)
  <2>1. args \in [amount : Nat, buyer : Accounts, merchant : Accounts]
    BY ContractsAssumption DEF ContractsAssumption
  <2>2. Escrow(args, owner) \in EscrowContracts
    BY <2>1 DEF Escrow, EscrowContracts
  <2>3. Owed(Escrow(args, owner)) = 0
    BY DEF Escrow, Owed
  <2>4. Coherent(Escrow(args, owner))
    BY DEF Escrow, Coherent
  <2> QED BY <2>2, <2>3, <2>4 DEF Instance
<1> QED BY <1>1, <1>2

LEMMA AccountsApart ==
  /\ Wallets \subseteq Accounts /\ Addresses \subseteq Accounts /\ Treasury \in Accounts
  /\ OwnAddresses \subseteq Addresses
  /\ Treasury \notin Wallets
  /\ \A c \in OwnAddresses : c \notin Wallets /\ c # Treasury
  BY ContractsAssumption DEF ContractsAssumption, Accounts, OwnAddresses

-----------------------------------------------------------------------------
(***************************************************************************)
(* transferInState: balances stay natural, one account loses what another  *)
(* gains.                                                                  *)
(***************************************************************************)
LEMMA TransferMoves ==
  ASSUME NEW from \in Accounts, NEW to \in Accounts, NEW amount \in Nat,
         balances \in [Accounts -> Nat], Transfer(from, to, amount)
  PROVE  /\ balances' \in [Accounts -> Nat]
         /\ from # to => balances'[from] = balances[from] - amount
         /\ from # to => balances'[to] = balances[to] + amount
         /\ from = to => balances'[from] = balances[from]
         /\ \A a \in Accounts \ {from, to} : balances'[a] = balances[a]
<1>1. amount > 0 /\ balances[from] >= amount
  BY DEF Transfer, Transferable
<1>2. balances' = [[balances EXCEPT ![from] = @ - amount] EXCEPT ![to] = @ + amount]
  BY DEF Transfer
<1>3. \A a \in Accounts : balances'[a] =
        IF a = to THEN (IF a = from THEN balances[a] - amount ELSE balances[a]) + amount
        ELSE IF a = from THEN balances[a] - amount ELSE balances[a]
  BY <1>2
<1>4. DOMAIN balances' = Accounts /\ balances' = [a \in Accounts |-> balances'[a]]
  BY <1>2
<1>5. \A a \in Accounts : balances'[a] \in Nat
  BY <1>1, <1>3
<1> QED BY <1>1, <1>3, <1>4, <1>5

-----------------------------------------------------------------------------
(***************************************************************************)
(* What payments keep, and what a call to one contract keeps.              *)
(***************************************************************************)
ContractsType ==
  contracts \in [Addresses -> {NoContract} \cup CircleContracts \cup EscrowContracts]

\* What a contract owes is natural.
LEMMA OwedNat ==
  ASSUME NEW k \in {NoContract} \cup CircleContracts \cup EscrowContracts
  PROVE  Owed(k) \in Nat
<1>1. CASE k = NoContract
  BY <1>1 DEF NoContract, Owed
<1>2. CASE k \in CircleContracts
  BY <1>2 DEF CircleContracts, Owed
<1>3. CASE k \in EscrowContracts
  BY <1>3 DEF EscrowContracts, Owed
<1> QED BY <1>1, <1>2, <1>3

\* A payment to a contract that no method made is donated.
LEMMA PaymentKeepsBalances ==
  ASSUME Inv, NEW from \in Wallets, NEW to \in Accounts, NEW amount \in Nat,
         Transfer(from, to, amount), donated' = Donated(to, amount), UNCHANGED contracts
  PROVE  /\ balances' \in [Accounts -> Nat]
         /\ donated' \in [Addresses -> Nat]
         /\ BalanceIsOwed'
<1>1. balances \in [Accounts -> Nat] /\ donated \in [Addresses -> Nat]
  BY DEF Inv, TypeOK
<1>2. from \in Accounts /\ from \notin OwnAddresses
  BY DEF Accounts, OwnAddresses
<1>3. /\ balances' \in [Accounts -> Nat]
      /\ from # to => balances'[to] = balances[to] + amount
      /\ \A a \in Accounts \ {from, to} : balances'[a] = balances[a]
  BY <1>1, <1>2, TransferMoves
<1>4. /\ donated' \in [Addresses -> Nat]
      /\ \A c \in Addresses : donated'[c] = donated[c] + (IF c = to THEN amount ELSE 0)
  BY <1>1 DEF Donated
<1>5. BalanceIsOwed'
  <2> SUFFICES ASSUME NEW c \in OwnAddresses
               PROVE  balances'[c] = Owed(contracts[c]) + donated'[c]
    BY DEF BalanceIsOwed
  <2>1. balances[c] = Owed(contracts[c]) + donated[c]
    BY DEF Inv, BalanceIsOwed
  <2>2. c \in Addresses /\ c \in Accounts /\ c # from
    BY <1>2 DEF Accounts, OwnAddresses
  <2>3. Owed(contracts[c]) \in Nat
    BY <2>2, OwedNat DEF Inv, TypeOK
  <2>4. CASE c = to
    BY <1>1, <1>3, <1>4, <2>1, <2>2, <2>3, <2>4
  <2>5. CASE c # to
    BY <1>1, <1>3, <1>4, <2>1, <2>2, <2>3, <2>5
  <2> QED BY <2>4, <2>5
<1> QED BY <1>3, <1>4, <1>5

\* A call that brings one account and its contract back in step keeps all in step,
\* if what it pays to other contracts is donated.
LEMMA CallKeepsBalances ==
  ASSUME Inv, NEW c \in Addresses, NEW k \in CircleContracts \cup EscrowContracts,
         contracts' = [contracts EXCEPT ![c] = k],
         Coherent(k), c \in OwnAddresses => balances'[c] = Owed(k) + donated'[c],
         \A d \in OwnAddresses \ {c} :
           balances[d] = Owed(contracts[d]) + donated[d] =>
             balances'[d] = Owed(contracts[d]) + donated'[d]
  PROVE  ContractsType' /\ AllCoherent' /\ BalanceIsOwed'
<1>1. ContractsType
  BY DEF Inv, TypeOK, ContractsType
<1>2. ContractsType'
  BY <1>1 DEF ContractsType
<1>3. contracts'[c] = k /\ \A d \in Addresses \ {c} : contracts'[d] = contracts[d]
  BY <1>1 DEF ContractsType
<1>4. AllCoherent'
  <2> SUFFICES ASSUME NEW d \in Addresses
               PROVE  Coherent(contracts'[d])
    BY DEF AllCoherent, Coherent, TurnInRange
  <2>1. CASE d = c
    BY <1>3, <2>1
  <2>2. CASE d # c
    BY <1>3, <2>2 DEF Inv, AllCoherent
  <2> QED BY <2>1, <2>2
<1>5. BalanceIsOwed'
  <2> SUFFICES ASSUME NEW d \in OwnAddresses
               PROVE  balances'[d] = Owed(contracts'[d]) + donated'[d]
    BY DEF BalanceIsOwed, Owed, OwnAddresses
  <2>1. CASE d = c
    BY <1>3, <2>1
  <2>2. CASE d # c
    BY <1>3, <2>2 DEF Inv, BalanceIsOwed, OwnAddresses
  <2> QED BY <2>1, <2>2
<1> QED BY <1>2, <1>4, <1>5

\* What a method pays out of the contract's account lowers what it owes, and is
\* donated if another contract gets it, or the very same.
LEMMA PayoutKeepsBalances ==
  ASSUME Inv, NEW c \in Addresses, NEW k \in CircleContracts \cup EscrowContracts,
         contracts' = [contracts EXCEPT ![c] = k], Coherent(k),
         NEW to \in Accounts, NEW amount \in Nat, Transfer(c, to, amount),
         donated' = Donated(to, amount),
         Owed(contracts[c]) = amount, Owed(k) = 0
  PROVE  /\ balances' \in [Accounts -> Nat] /\ donated' \in [Addresses -> Nat]
         /\ ContractsType' /\ AllCoherent' /\ BalanceIsOwed'
<1>1. /\ balances \in [Accounts -> Nat] /\ donated \in [Addresses -> Nat]
      /\ c \in Accounts
  BY AccountsApart DEF Inv, TypeOK
<1>2. /\ balances' \in [Accounts -> Nat]
      /\ c # to => balances'[c] = balances[c] - amount
      /\ c # to => balances'[to] = balances[to] + amount
      /\ c = to => balances'[c] = balances[c]
      /\ \A a \in Accounts \ {c, to} : balances'[a] = balances[a]
  BY <1>1, TransferMoves
<1>3. /\ donated' \in [Addresses -> Nat]
      /\ \A d \in Addresses : donated'[d] = donated[d] + (IF d = to THEN amount ELSE 0)
  BY <1>1 DEF Donated
<1>4. c \in OwnAddresses => balances'[c] = Owed(k) + donated'[c]
  <2> SUFFICES ASSUME c \in OwnAddresses
               PROVE  balances'[c] = Owed(k) + donated'[c]
    OBVIOUS
  <2>1. balances[c] = amount + donated[c]
    BY DEF Inv, BalanceIsOwed
  <2> QED BY <1>1, <1>2, <1>3, <2>1
<1>5. ASSUME NEW d \in OwnAddresses \ {c}, balances[d] = Owed(contracts[d]) + donated[d]
      PROVE  balances'[d] = Owed(contracts[d]) + donated'[d]
  <2>1. d \in Addresses /\ d \in Accounts
    BY AccountsApart DEF OwnAddresses
  <2>2. Owed(contracts[d]) \in Nat
    BY <2>1, OwedNat DEF Inv, TypeOK
  <2>3. CASE d = to
    BY <1>1, <1>2, <1>3, <1>5, <2>1, <2>2, <2>3
  <2>4. CASE d # to
    BY <1>1, <1>2, <1>3, <1>5, <2>1, <2>2, <2>4
  <2> QED BY <2>3, <2>4
<1>6. ContractsType' /\ AllCoherent' /\ BalanceIsOwed'
  BY <1>4, <1>5, CallKeepsBalances
<1> QED BY <1>2, <1>3, <1>6

-----------------------------------------------------------------------------
(***************************************************************************)
(* Each action keeps the invariant.                                        *)
(***************************************************************************)
\* The parts of the type invariant that an action sets on its own.
LEMMA TypeParts ==
  /\ \A sender \in Wallets :
       TypeOK /\ Transferred(sender) =>
         /\ caller' \in Wallets \cup {Treasury}
         /\ transfers' \in 0 .. MaxTransfers /\ calls' \in 0 .. MaxCalls
  /\ \A sender \in Wallets :
       TypeOK /\ Called(sender) =>
         /\ caller' \in Wallets \cup {Treasury}
         /\ transfers' \in 0 .. MaxTransfers /\ calls' \in 0 .. MaxCalls
  BY ContractsAssumption DEF ContractsAssumption, TypeOK, Transferred, Called

LEMMA PayStep ==
  ASSUME Inv, NEW sender \in Wallets, NEW to \in Accounts, NEW amount \in Amounts,
         Pay(sender, to, amount)
  PROVE  Inv'
<1>1. amount \in Nat
  BY ContractsAssumption DEF ContractsAssumption
<1>2. /\ balances' \in [Accounts -> Nat]
      /\ donated' \in [Addresses -> Nat]
      /\ BalanceIsOwed'
  BY <1>1, PaymentKeepsBalances DEF Pay
<1>3. TypeOK'
  BY <1>2, TypeParts DEF Inv, TypeOK, Pay
<1>4. AllCoherent'
  BY DEF Inv, Pay, AllCoherent, Coherent, TurnInRange
<1> QED BY <1>2, <1>3, <1>4 DEF Inv

LEMMA ApproveStep ==
  ASSUME Inv, NEW sender \in Wallets, NEW spender \in Wallets, NEW amount \in Amounts,
         Approve(sender, spender, amount)
  PROVE  Inv'
<1>1. amount \in Nat
  BY ContractsAssumption DEF ContractsAssumption
<1>2. allowances' \in [Wallets -> [Wallets -> Nat]]
  BY <1>1 DEF Inv, TypeOK, Approve
<1>3. TypeOK'
  BY <1>2, TypeParts DEF Inv, TypeOK, Approve
<1>4. AllCoherent'
  BY DEF Inv, Approve, AllCoherent, Coherent, TurnInRange
<1>5. BalanceIsOwed'
  BY DEF Inv, Approve, BalanceIsOwed, Owed
<1> QED BY <1>3, <1>4, <1>5 DEF Inv

LEMMA TransferFromStep ==
  ASSUME Inv, NEW sender \in Wallets, NEW from \in Wallets, NEW to \in Accounts,
         NEW amount \in Amounts, TransferFrom(sender, from, to, amount)
  PROVE  Inv'
<1>1. amount \in Nat
  BY ContractsAssumption DEF ContractsAssumption
<1>2. /\ balances' \in [Accounts -> Nat]
      /\ donated' \in [Addresses -> Nat]
      /\ BalanceIsOwed'
  BY <1>1, PaymentKeepsBalances DEF TransferFrom
<1>3. allowances' \in [Wallets -> [Wallets -> Nat]]
  <2>1. allowances \in [Wallets -> [Wallets -> Nat]]
    BY DEF Inv, TypeOK
  <2>2. allowances[from][sender] \in Nat /\ allowances[from][sender] - amount \in Nat
    BY <1>1, <2>1 DEF TransferFrom
  <2> QED BY <2>1, <2>2 DEF TransferFrom, Spent
<1>4. TypeOK'
  BY <1>2, <1>3, TypeParts DEF Inv, TypeOK, TransferFrom
<1>5. AllCoherent'
  BY DEF Inv, TransferFrom, AllCoherent, Coherent, TurnInRange
<1> QED BY <1>2, <1>4, <1>5 DEF Inv

LEMMA DeployStep ==
  ASSUME Inv, NEW sender \in Wallets, NEW c \in Addresses, NEW template, NEW args,
         \/ template = "savings_circle" /\ args \in Circles
         \/ template = "merchant_escrow" /\ args \in Escrows,
         Deploy(sender, c, template, args)
  PROVE  Inv'
<1> DEFINE k == Instance(template, args, sender)
<1>1. /\ k \in CircleContracts \cup EscrowContracts
      /\ Owed(k) = 0 /\ Coherent(k)
  <2>1. CASE template = "savings_circle" /\ args \in Circles
    BY <2>1, FreshInstance
  <2>2. CASE template = "merchant_escrow" /\ args \in Escrows
    BY <2>2, FreshInstance
  <2> QED BY <2>1, <2>2
<1>2. /\ balances' \in [Accounts -> Nat]
      /\ \A d \in OwnAddresses : balances'[d] = balances[d]
  <2>1. balances \in [Accounts -> Nat] /\ Bond \in Nat /\ balances[sender] >= Bond
    BY ContractsAssumption DEF ContractsAssumption, Inv, TypeOK, Deploy
  <2>2. sender # Treasury
    BY AccountsApart
  <2> QED BY <2>1, <2>2, AccountsApart DEF Deploy
<1>3. c \in OwnAddresses => balances'[c] = Owed(k) + donated'[c]
  <2>1. c \in OwnAddresses => balances[c] = Owed(NoContract) + donated[c]
    BY DEF Inv, BalanceIsOwed, Deploy
  <2>2. Owed(NoContract) = 0
    BY DEF Owed, NoContract
  <2>3. donated' = donated
    BY DEF Deploy
  <2> QED BY <1>1, <1>2, <2>1, <2>2, <2>3
<1>4. contracts' = [contracts EXCEPT ![c] = k] /\ UNCHANGED donated
  BY DEF Deploy
<1> HIDE DEF k
<1>5. ContractsType' /\ AllCoherent' /\ BalanceIsOwed'
  BY <1>1, <1>2, <1>3, <1>4, CallKeepsBalances
<1>6. TypeOK'
  BY <1>2, <1>5, TypeParts DEF Inv, TypeOK, Deploy, ContractsType
<1> QED BY <1>5, <1>6 DEF Inv

LEMMA JoinStep ==
  ASSUME Inv, NEW sender \in Wallets, NEW c \in Addresses, Join(sender, c)
  PROVE  Inv'
<1> DEFINE circle == contracts[c]
           k == [circle EXCEPT !.members = Append(@, sender)]
<1>1. circle \in CircleContracts
  BY CircleKind DEF Inv, TypeOK, Join
<1>2. CASE sender \in Members(c)
  <2>1. UNCHANGED <<contracts, joined, balances, allowances, donated>>
    BY <1>2 DEF Join
  <2>2. TypeOK'
    BY <2>1, TypeParts DEF Inv, TypeOK, Join
  <2> QED BY <2>1, <2>2
    DEF Inv, AllCoherent, Coherent, TurnInRange, BalanceIsOwed, Owed
<1>3. CASE sender \notin Members(c)
  <2>1. /\ circle.members \in Seq(Accounts) /\ circle.template = "savings_circle"
        /\ circle.currentRecipientIndex \in Nat \ {0}
        /\ circle.pot \in Nat /\ Len(circle.payouts) \in Nat
    BY <1>1 DEF CircleContracts
  <2>2. /\ k.template = circle.template /\ k.pot = circle.pot
        /\ k.currentRecipientIndex = circle.currentRecipientIndex
        /\ k.members = Append(circle.members, sender)
    BY <1>1 DEF CircleContracts
  <2>3. k \in CircleContracts
    <3>1. Append(circle.members, sender) \in Seq(Accounts)
      BY <2>1, AccountsApart
    <3> QED BY <1>1, <3>1 DEF CircleContracts
  <2>4. contracts' = [contracts EXCEPT ![c] = k] /\ UNCHANGED <<balances, donated>>
    BY <1>3 DEF Join, Joined
  <2>5. joined' = [joined EXCEPT ![c][sender] = Len(circle.payouts)]
    BY <1>3 DEF Join
  <2>6. /\ c \in OwnAddresses => balances[c] = Owed(circle) + donated[c]
        /\ Coherent(circle)
    BY DEF Inv, BalanceIsOwed, AllCoherent
  <2> HIDE DEF k, circle
  <2>7. Owed(k) = Owed(circle)
    BY <2>1, <2>2 DEF Owed
  <2>8. Len(k.members) = Len(circle.members) + 1 /\ Len(circle.members) \in Nat
    BY <2>1, <2>2
  <2>9. Coherent(k)
    <3>1. TurnInRange(circle)
      BY <2>1, <2>6 DEF Coherent
    <3>2. circle.members = <<>> => Len(circle.members) = 0
      OBVIOUS
    <3>3. k.currentRecipientIndex <= Len(k.members)
      BY <2>1, <2>2, <2>8, <3>1, <3>2 DEF TurnInRange
    <3>4. TurnInRange(k)
      BY <3>3 DEF TurnInRange
    <3> QED BY <2>1, <2>2, <3>4 DEF Coherent
  <2>10. ContractsType' /\ AllCoherent' /\ BalanceIsOwed'
    BY <2>3, <2>4, <2>6, <2>7, <2>9, CallKeepsBalances
  <2>11. joined' \in [Addresses -> [Accounts -> Nat]]
    <3>1. joined \in [Addresses -> [Accounts -> Nat]]
      BY DEF Inv, TypeOK
    <3> QED BY <2>1, <2>5, <3>1
  <2>12. TypeOK'
    BY <2>10, <2>11, TypeParts DEF Inv, TypeOK, Join, ContractsType
  <2> QED BY <2>10, <2>12 DEF Inv
<1> QED BY <1>2, <1>3

LEMMA ContributeStep ==
  ASSUME Inv, NEW sender \in Wallets, NEW c \in Addresses, Contribute(sender, c)
  PROVE  Inv'
<1> DEFINE circle == contracts[c]
           amount == circle.contributionAmount
           k == [circle EXCEPT !.pot = @ + amount]
<1>1. circle \in CircleContracts
  BY CircleKind DEF Inv, TypeOK, Contribute
<1>2. amount \in Nat /\ circle.pot \in Nat /\ circle.template = "savings_circle"
  BY <1>1 DEF CircleContracts
<1>3. /\ k.template = circle.template /\ k.pot = circle.pot + amount
      /\ k.currentRecipientIndex = circle.currentRecipientIndex
      /\ k.members = circle.members
  BY <1>1 DEF CircleContracts
<1>4. k \in CircleContracts
  BY <1>1, <1>2 DEF CircleContracts
<1>5. contracts' = [contracts EXCEPT ![c] = k] /\ UNCHANGED donated
  BY DEF Contribute
<1>6. Transfer(sender, c, amount) /\ balances \in [Accounts -> Nat]
  BY DEF Contribute, Inv, TypeOK
<1>7. /\ c \in OwnAddresses => balances[c] = Owed(circle) + donated[c]
      /\ Coherent(circle) /\ donated[c] \in Nat
  BY DEF Inv, TypeOK, BalanceIsOwed, AllCoherent
<1> HIDE DEF k, amount, circle
<1>8. /\ balances' \in [Accounts -> Nat]
      /\ c \in OwnAddresses => balances'[c] = balances[c] + amount
  BY <1>2, <1>6, TransferMoves, AccountsApart
<1>9. \A d \in OwnAddresses \ {c} : balances'[d] = balances[d]
  BY <1>2, <1>6, TransferMoves, AccountsApart
<1>10. Owed(circle) = circle.pot /\ Owed(k) = k.pot
  BY <1>2, <1>3 DEF Owed
<1>11. c \in OwnAddresses => balances'[c] = Owed(k) + donated'[c]
  <2>1. balances[c] \in Nat /\ donated' = donated
    BY <1>5, <1>6, AccountsApart
  <2> QED BY <1>2, <1>3, <1>7, <1>8, <1>10, <2>1
<1>12. Coherent(k)
  BY <1>2, <1>3, <1>7 DEF Coherent, TurnInRange
<1>13. ContractsType' /\ AllCoherent' /\ BalanceIsOwed'
  BY <1>4, <1>5, <1>9, <1>11, <1>12, CallKeepsBalances
<1>14. TypeOK'
  BY <1>8, <1>13, TypeParts DEF Inv, TypeOK, Contribute, ContractsType
<1> QED BY <1>13, <1>14 DEF Inv

LEMMA PayoutNextStep ==
  ASSUME Inv, NEW sender \in Wallets, NEW c \in Addresses, PayoutNext(sender, c)
  PROVE  Inv'
<1> DEFINE circle == contracts[c]
           recipient == circle.members[circle.currentRecipientIndex]
           next == (circle.currentRecipientIndex % Len(circle.members)) + 1
           k == [circle EXCEPT !.payouts = Append(@, recipient), !.pot = 0,
                               !.currentRecipientIndex = next]
<1>1. circle \in CircleContracts
  BY CircleKind DEF Inv, TypeOK, PayoutNext
<1>2. /\ circle.members \in Seq(Accounts) /\ circle.members # <<>>
      /\ circle.payouts \in Seq(Accounts) /\ circle.pot \in Nat
      /\ circle.currentRecipientIndex \in Nat \ {0}
      /\ circle.template = "savings_circle"
  BY <1>1 DEF CircleContracts, PayoutNext
<1>3. Coherent(circle)
  BY DEF Inv, AllCoherent
<1>4. /\ Len(circle.members) \in Nat \ {0}
      /\ circle.currentRecipientIndex \in 1 .. Len(circle.members)
  BY <1>2, <1>3 DEF Coherent, TurnInRange
<1>5. recipient \in Accounts
  BY <1>2, <1>4
<1>6. next \in 1 .. Len(circle.members)
  <2>1. \A i \in Nat, n \in Nat \ {0} : (i % n) + 1 \in 1 .. n
    OBVIOUS
  <2> QED BY <1>2, <1>4, <2>1
<1>7. /\ contracts' = [contracts EXCEPT ![c] = k]
      /\ Transfer(c, recipient, circle.pot) /\ donated' = Donated(recipient, circle.pot)
  BY DEF PayoutNext
<1> HIDE DEF recipient, next
<1>8. /\ k.template = circle.template /\ k.pot = 0
      /\ k.currentRecipientIndex = next /\ k.members = circle.members
  BY <1>1 DEF CircleContracts
<1>9. k \in CircleContracts
  <2>1. Append(circle.payouts, recipient) \in Seq(Accounts) /\ next \in Nat \ {0}
    BY <1>2, <1>5, <1>6
  <2> QED BY <1>1, <2>1 DEF CircleContracts
<1> HIDE DEF k
<1>10. Owed(circle) = circle.pot /\ Owed(k) = 0
  BY <1>2, <1>8 DEF Owed
<1>11. Coherent(k)
  <2>1. TurnInRange(k)
    BY <1>4, <1>6, <1>8 DEF TurnInRange
  <2> QED BY <1>2, <1>8, <2>1 DEF Coherent
<1>12. /\ balances' \in [Accounts -> Nat] /\ donated' \in [Addresses -> Nat]
       /\ ContractsType' /\ AllCoherent' /\ BalanceIsOwed'
  BY <1>2, <1>5, <1>7, <1>9, <1>10, <1>11, PayoutKeepsBalances
<1>13. TypeOK'
  BY <1>12, TypeParts DEF Inv, TypeOK, PayoutNext, ContractsType
<1> QED BY <1>12, <1>13 DEF Inv

(***************************************************************************)
(* The three methods of an escrow set one flag each and move its amount    *)
(* accordingly.                                                            *)
(***************************************************************************)
LEMMA EscrowFields ==
  ASSUME NEW escrow \in EscrowContracts
  PROVE  /\ escrow.amount \in Nat /\ escrow.buyer \in Accounts /\ escrow.merchant \in Accounts
         /\ escrow.funded \in BOOLEAN /\ escrow.released \in BOOLEAN
         /\ escrow.template = "merchant_escrow"
  BY DEF EscrowContracts

LEMMA FundStep ==
  ASSUME Inv, NEW sender \in Wallets, NEW c \in Addresses, Fund(sender, c)
  PROVE  Inv'
<1> DEFINE escrow == contracts[c]
           k == [escrow EXCEPT !.funded = TRUE]
<1>1. escrow \in EscrowContracts
  BY EscrowKind DEF Inv, TypeOK, Fund
<1>2. k \in EscrowContracts
  BY <1>1 DEF EscrowContracts
<1>3. /\ k.template = escrow.template /\ k.amount = escrow.amount
      /\ k.funded = TRUE /\ k.released = escrow.released
  BY <1>1 DEF EscrowContracts
<1>4. ~ escrow.funded /\ Transfer(sender, c, escrow.amount)
  BY DEF Fund
<1>5. contracts' = [contracts EXCEPT ![c] = k] /\ UNCHANGED donated
  BY DEF Fund
<1>6. /\ balances \in [Accounts -> Nat] /\ donated[c] \in Nat
      /\ c \in OwnAddresses => balances[c] = Owed(escrow) + donated[c]
      /\ Coherent(escrow)
  BY DEF Inv, TypeOK, BalanceIsOwed, AllCoherent
<1> HIDE DEF k, escrow
<1>7. Owed(escrow) = 0 /\ Owed(k) = escrow.amount /\ Coherent(k)
  BY <1>1, <1>3, <1>4, <1>6, EscrowFields DEF Owed, Coherent
<1>8. /\ balances' \in [Accounts -> Nat]
      /\ c \in OwnAddresses => balances'[c] = balances[c] + escrow.amount
  BY <1>1, <1>4, <1>6, EscrowFields, TransferMoves, AccountsApart
<1>9. \A d \in OwnAddresses \ {c} : balances'[d] = balances[d]
  BY <1>1, <1>4, <1>6, EscrowFields, TransferMoves, AccountsApart
<1>10. c \in OwnAddresses => balances'[c] = Owed(k) + donated'[c]
  <2>1. balances[c] \in Nat /\ donated' = donated
    BY <1>5, <1>6, AccountsApart
  <2> QED BY <1>1, <1>6, <1>7, <1>8, <2>1, EscrowFields
<1>11. ContractsType' /\ AllCoherent' /\ BalanceIsOwed'
  BY <1>2, <1>5, <1>7, <1>9, <1>10, CallKeepsBalances
<1>12. TypeOK'
  BY <1>8, <1>11, TypeParts DEF Inv, TypeOK, Fund, ContractsType
<1> QED BY <1>11, <1>12 DEF Inv

\* Release and refund pay the amount out.
LEMMA PaidOut ==
  ASSUME Inv, NEW c \in Addresses, NEW escrow \in EscrowContracts, contracts[c] = escrow,
         escrow.funded, ~ escrow.released,
         NEW to \in Accounts, Transfer(c, to, escrow.amount),
         donated' = Donated(to, escrow.amount),
         NEW k \in EscrowContracts, k.released => k.funded, k.released \/ ~ k.funded,
         contracts' = [contracts EXCEPT ![c] = k]
  PROVE  /\ balances' \in [Accounts -> Nat] /\ donated' \in [Addresses -> Nat]
         /\ ContractsType' /\ AllCoherent' /\ BalanceIsOwed'
<1>1. Owed(escrow) = escrow.amount /\ Owed(k) = 0 /\ Coherent(k)
  BY EscrowFields DEF Owed, Coherent
<1> QED BY <1>1, EscrowFields, PayoutKeepsBalances

LEMMA ReleaseStep ==
  ASSUME Inv, NEW sender \in Wallets, NEW c \in Addresses, Release(sender, c)
  PROVE  Inv'
<1> DEFINE escrow == contracts[c]
           k == [escrow EXCEPT !.released = TRUE]
<1>1. escrow \in EscrowContracts
  BY EscrowKind DEF Inv, TypeOK, Release
<1>2. k \in EscrowContracts /\ k.released = TRUE /\ k.funded = escrow.funded
  BY <1>1 DEF EscrowContracts
<1>3. /\ escrow.funded /\ ~ escrow.released
      /\ Transfer(c, escrow.merchant, escrow.amount)
      /\ contracts' = [contracts EXCEPT ![c] = k]
      /\ donated' = Donated(escrow.merchant, escrow.amount)
  BY DEF Release, Releasable
<1> HIDE DEF k, escrow
<1>4. /\ balances' \in [Accounts -> Nat] /\ donated' \in [Addresses -> Nat]
      /\ ContractsType' /\ AllCoherent' /\ BalanceIsOwed'
  BY <1>1, <1>2, <1>3, EscrowFields, PaidOut DEF escrow
<1>5. TypeOK'
  BY <1>4, TypeParts DEF Inv, TypeOK, Release, ContractsType
<1> QED BY <1>4, <1>5 DEF Inv

LEMMA RefundStep ==
  ASSUME Inv, NEW sender \in Wallets, NEW c \in Addresses, Refund(sender, c)
  PROVE  Inv'
<1> DEFINE escrow == contracts[c]
           k == [escrow EXCEPT !.funded = FALSE]
<1>1. escrow \in EscrowContracts
  BY EscrowKind DEF Inv, TypeOK, Refund
<1>2. k \in EscrowContracts /\ k.released = escrow.released /\ k.funded = FALSE
  BY <1>1 DEF EscrowContracts
<1>3. /\ escrow.funded /\ ~ escrow.released
      /\ Transfer(c, escrow.buyer, escrow.amount)
      /\ contracts' = [contracts EXCEPT ![c] = k]
      /\ donated' = Donated(escrow.buyer, escrow.amount)
  BY DEF Refund
<1> HIDE DEF k, escrow
<1>4. /\ balances' \in [Accounts -> Nat] /\ donated' \in [Addresses -> Nat]
      /\ ContractsType' /\ AllCoherent' /\ BalanceIsOwed'
  BY <1>1, <1>2, <1>3, EscrowFields, PaidOut DEF escrow
<1>5. TypeOK'
  BY <1>4, TypeParts DEF Inv, TypeOK, Refund, ContractsType
<1> QED BY <1>4, <1>5 DEF Inv

-----------------------------------------------------------------------------
(***************************************************************************)
(* The invariant is inductive.                                             *)
(***************************************************************************)
LEMMA InitInv ==
  ASSUME Init
  PROVE  Inv
<1>1. TypeOK
  BY ContractsAssumption, AccountsApart DEF ContractsAssumption, Init, TypeOK, Accounts
<1>2. AllCoherent
  BY DEF Init, AllCoherent, Coherent, NoContract
<1>3. BalanceIsOwed
  BY AccountsApart DEF Init, BalanceIsOwed, Owed, NoContract
<1> QED BY <1>1, <1>2, <1>3 DEF Inv

LEMMA StepInv ==
  ASSUME Inv, [Next]_vars
  PROVE  Inv'
<1>1. CASE UNCHANGED vars
  BY <1>1 DEF Inv, vars, TypeOK, AllCoherent, Coherent, TurnInRange, BalanceIsOwed, Owed
<1>2. ASSUME NEW sender \in Wallets, NEW to \in Accounts, NEW amount \in Amounts,
             Pay(sender, to, amount)
      PROVE  Inv'
  BY <1>2, PayStep
<1>3. ASSUME NEW sender \in Wallets, NEW spender \in Wallets, NEW amount \in Amounts,
             Approve(sender, spender, amount)
      PROVE  Inv'
  BY <1>3, ApproveStep
<1>4. ASSUME NEW sender \in Wallets, NEW from \in Wallets, NEW to \in Accounts,
             NEW amount \in Amounts, TransferFrom(sender, from, to, amount)
      PROVE  Inv'
  BY <1>4, TransferFromStep
<1>5. ASSUME NEW sender \in Wallets, NEW c \in Addresses, NEW args \in Circles,
             Deploy(sender, c, "savings_circle", args)
      PROVE  Inv'
  BY <1>5, DeployStep
<1>6. ASSUME NEW sender \in Wallets, NEW c \in Addresses, NEW args \in Escrows,
             Deploy(sender, c, "merchant_escrow", args)
      PROVE  Inv'
  BY <1>6, DeployStep
<1>7. ASSUME NEW sender \in Wallets, NEW c \in Addresses,
             \/ Join(sender, c) \/ Contribute(sender, c) \/ PayoutNext(sender, c)
             \/ Fund(sender, c) \/ Release(sender, c) \/ Refund(sender, c)
      PROVE  Inv'
  BY <1>7, JoinStep, ContributeStep, PayoutNextStep, FundStep, ReleaseStep, RefundStep
<1> QED BY <1>1, <1>2, <1>3, <1>4, <1>5, <1>6, <1>7 DEF Next

LEMMA InvAlways == Spec => []Inv
  BY InitInv, StepInv, PTL DEF Spec

(***************************************************************************)
(* Balances and allowances never go negative, and contracts keep their     *)
(* shape.                                                                  *)
(***************************************************************************)
THEOREM ContractsTypeCorrect == Spec => []TypeOK
<1>1. Inv => TypeOK
  BY DEF Inv
<1> QED BY <1>1, InvAlways, PTL

(***************************************************************************)
(* The account of every contract holds what its state owes, apart from     *)
(* payments that were no contribution.                                     *)
(***************************************************************************)
THEOREM ContractsBalanceIsOwed == Spec => []BalanceIsOwed
<1>1. Inv => BalanceIsOwed
  BY DEF Inv
<1> QED BY <1>1, InvAlways, PTL

\* What SpendingIsAllowed says of one step.
Permitted(a, spent) ==
  \/ /\ a \in Wallets
     /\ spent <= allowances[a][caller'] - allowances'[a][caller']
  \/ /\ a \in Addresses
     /\ spent <= Owed(contracts[a]) - Owed(contracts'[a])

Allowed ==
  \A a \in Accounts :
    caller' # a /\ balances'[a] < balances[a] => Permitted(a, balances[a] - balances'[a])

\* A method that pays the amount that its contract then owes less.
LEMMA PaidFromContract ==
  ASSUME Inv, NEW c \in Addresses, NEW a \in Accounts, balances'[a] < balances[a],
         NEW to \in Accounts, NEW amount \in Nat, Transfer(c, to, amount),
         Owed(contracts[c]) = amount, Owed(contracts'[c]) = 0
  PROVE  Permitted(a, balances[a] - balances'[a])
<1>1. balances \in [Accounts -> Nat] /\ c \in Accounts
  BY AccountsApart DEF Inv, TypeOK
<1>2. a = c
  BY <1>1, TransferMoves
<1>3. balances[a] - balances'[a] <= amount
  BY <1>1, <1>2, TransferMoves
<1> QED BY <1>2, <1>3 DEF Permitted

LEMMA StepAllowed ==
  ASSUME Inv, [Next]_vars
  PROVE  Allowed \/ UNCHANGED vars
<1>1. SUFFICES ASSUME NEW a \in Accounts, Next, caller' # a, balances'[a] < balances[a]
               PROVE  Permitted(a, balances[a] - balances'[a])
  BY DEF Allowed
<1>2. /\ balances \in [Accounts -> Nat]
      /\ allowances \in [Wallets -> [Wallets -> Nat]]
  BY DEF Inv, TypeOK
<1>3. ASSUME NEW from \in Accounts \ {a}, NEW to \in Accounts, NEW amount \in Nat,
             Transfer(from, to, amount)
      PROVE  FALSE
  <2>1. balances'[a] >= balances[a]
    BY <1>2, <1>3, TransferMoves
  <2> QED BY <1>1, <1>2, <2>1, <1>3, TransferMoves
<1>4. Amounts \subseteq Nat
  BY ContractsAssumption DEF ContractsAssumption
<1>5. ASSUME NEW sender \in Wallets, NEW to \in Accounts, NEW amount \in Amounts,
             Pay(sender, to, amount)
      PROVE  FALSE
  BY <1>1, <1>3, <1>4, <1>5, AccountsApart DEF Pay, Transferred
<1>6. ASSUME NEW sender \in Wallets, NEW spender \in Wallets, NEW amount \in Amounts,
             Approve(sender, spender, amount)
      PROVE  FALSE
  BY <1>1, <1>2, <1>6 DEF Approve
<1>7. ASSUME NEW sender \in Wallets, NEW from \in Wallets, NEW to \in Accounts,
             NEW amount \in Amounts, TransferFrom(sender, from, to, amount)
      PROVE  Permitted(a, balances[a] - balances'[a])
  <2>1. from = a
    BY <1>3, <1>4, <1>7, AccountsApart DEF TransferFrom
  <2>2. caller' = sender /\ amount \in Nat /\ Transfer(a, to, amount)
    BY <1>4, <1>7, <2>1 DEF TransferFrom, Transferred
  <2>3. balances[a] - balances'[a] <= amount
    BY <1>2, <2>2, TransferMoves
  <2>4. allowances'[a][sender] = allowances[a][sender] - amount
    BY <1>2, <1>7, <2>1 DEF TransferFrom, Spent
  <2>5. allowances[a][sender] \in Nat /\ balances'[a] \in Nat /\ balances[a] \in Nat
    BY <1>2, <2>1, <2>2, TransferMoves
  <2> QED BY <2>1, <2>2, <2>3, <2>4, <2>5 DEF Permitted
<1>8. ASSUME NEW sender \in Wallets, NEW c \in Addresses, NEW template, NEW args,
             Deploy(sender, c, template, args)
      PROVE  FALSE
  <2>1. sender # a /\ Bond \in Nat
    BY <1>1, <1>8, ContractsAssumption DEF Deploy, Called, ContractsAssumption
  <2>2. balances'[a] >= balances[a]
    BY <1>2, <1>8, <2>1 DEF Deploy
  <2>3. balances'[a] \in Nat
    BY <1>2, <1>8, <2>1 DEF Deploy
  <2> QED BY <1>1, <1>2, <2>2, <2>3
<1>9. ASSUME NEW sender \in Wallets, NEW c \in Addresses,
             \/ Join(sender, c) \/ Contribute(sender, c) \/ PayoutNext(sender, c)
             \/ Fund(sender, c) \/ Release(sender, c) \/ Refund(sender, c)
      PROVE  Permitted(a, balances[a] - balances'[a])
  <2>1. caller' = sender /\ sender # a
    BY <1>1, <1>9 DEF Called, Join, Contribute, PayoutNext, Fund, Release, Refund
  <2>2. /\ contracts[c] \in {NoContract} \cup CircleContracts \cup EscrowContracts
        /\ contracts \in [Addresses -> {NoContract} \cup CircleContracts \cup EscrowContracts]
    BY DEF Inv, TypeOK
  <2>3. CASE Join(sender, c)
    BY <1>1, <1>2, <2>3 DEF Join
  <2>4. CASE Contribute(sender, c)
    <3>1. contracts[c].contributionAmount \in Nat
      BY <2>2, <2>4, CircleKind DEF Contribute, CircleContracts
    <3> QED BY <1>3, <2>1, <2>4, <3>1, AccountsApart DEF Contribute
  <2>5. CASE PayoutNext(sender, c)
    <3> DEFINE recipient == contracts[c].members[contracts[c].currentRecipientIndex]
    <3>1. contracts[c] \in CircleContracts /\ TurnInRange(contracts[c])
      BY <2>2, <2>5, CircleKind DEF PayoutNext, Inv, AllCoherent, Coherent
    <3>2. /\ contracts[c].pot \in Nat /\ contracts[c].members \in Seq(Accounts)
          /\ contracts[c].members # <<>>
          /\ contracts[c].currentRecipientIndex \in Nat \ {0}
          /\ contracts[c].template = "savings_circle"
      BY <2>5, <3>1 DEF CircleContracts, PayoutNext
    <3>3. contracts[c].currentRecipientIndex \in 1 .. Len(contracts[c].members)
      BY <3>1, <3>2 DEF TurnInRange
    <3>4. recipient \in Accounts
      BY <3>2, <3>3
    <3>5. contracts'[c].template = "savings_circle" /\ contracts'[c].pot = 0
      BY <2>2, <2>5, <3>1 DEF PayoutNext, CircleContracts
    <3>6. Owed(contracts[c]) = contracts[c].pot /\ Owed(contracts'[c]) = 0
      BY <3>2, <3>5 DEF Owed
    <3>7. Transfer(c, recipient, contracts[c].pot)
      BY <2>5 DEF PayoutNext
    <3> QED BY <1>1, <3>2, <3>4, <3>6, <3>7, PaidFromContract
  <2>6. CASE Fund(sender, c)
    <3>1. contracts[c].amount \in Nat
      BY <2>2, <2>6, EscrowKind, EscrowFields DEF Fund
    <3> QED BY <1>3, <2>1, <2>6, <3>1, AccountsApart DEF Fund
  <2>7. CASE Release(sender, c)
    <3>1. contracts[c] \in EscrowContracts
      BY <2>2, <2>7, EscrowKind DEF Release
    <3>2. /\ contracts'[c].template = "merchant_escrow" /\ contracts'[c].released
          /\ contracts[c].funded /\ ~ contracts[c].released
      BY <2>2, <2>7, <3>1 DEF Release, Releasable, EscrowContracts
    <3>3. Owed(contracts[c]) = contracts[c].amount /\ Owed(contracts'[c]) = 0
      BY <3>1, <3>2, EscrowFields DEF Owed
    <3>4. Transfer(c, contracts[c].merchant, contracts[c].amount)
      BY <2>7 DEF Release
    <3> QED BY <1>1, <3>1, <3>3, <3>4, EscrowFields, PaidFromContract
  <2>8. CASE Refund(sender, c)
    <3>1. contracts[c] \in EscrowContracts
      BY <2>2, <2>8, EscrowKind DEF Refund
    <3>2. /\ contracts'[c].template = "merchant_escrow" /\ ~ contracts'[c].funded
          /\ contracts[c].funded /\ ~ contracts[c].released
      BY <2>2, <2>8, <3>1 DEF Refund, EscrowContracts
    <3>3. Owed(contracts[c]) = contracts[c].amount /\ Owed(contracts'[c]) = 0
      BY <3>1, <3>2, EscrowFields DEF Owed
    <3>4. Transfer(c, contracts[c].buyer, contracts[c].amount)
      BY <2>8 DEF Refund
    <3> QED BY <1>1, <3>1, <3>3, <3>4, EscrowFields, PaidFromContract
  <2> QED BY <1>9, <2>3, <2>4, <2>5, <2>6, <2>7, <2>8
<1> QED BY <1>1, <1>5, <1>6, <1>7, <1>8, <1>9 DEF Next

(***************************************************************************)
(* No account loses tokens unless its owner sent the transaction, or the   *)
(* sender's allowance or what a contract at that address owes shrank by as *)
(* much, wherever contracts are deployed.                                  *)
(***************************************************************************)
THEOREM ContractsSpendingIsAllowed == Spec => SpendingIsAllowed
<1>1. Inv /\ [Next]_vars => [Allowed]_vars
  BY StepAllowed DEF vars
<1> QED BY <1>1, InvAlways, PTL DEF Spec, SpendingIsAllowed, Allowed, Permitted

-----------------------------------------------------------------------------
(***************************************************************************)
(* Turns.  A circle is seen here as its members, what it paid, whose turn  *)
(* it is and when members joined.                                          *)
(***************************************************************************)
Distinct(members) == \A p, q \in DOMAIN members : members[p] = members[q] => p = q

PaidToMembers(members, paid) == \A i \in DOMAIN paid : \E p \in DOMAIN members : paid[i] = members[p]

\* From the turn onwards, place q comes before place p.
Awaiting(turn, q, p) == IF turn <= p THEN turn <= q /\ q < p ELSE turn <= q \/ q < p

\* Whoever was a member by payout i was paid since, or is before the one paid.
Rotating(members, paid, turn, since) ==
  \A i \in DOMAIN paid : \A p, q \in DOMAIN members :
    paid[i] = members[p] /\ p # q /\ since[members[q]] < i =>
      \/ Awaiting(turn, q, p)
      \/ \E l \in (i + 1) .. Len(paid) : paid[l] = members[q]

Rotated(members, paid, since) ==
  \A i, j \in DOMAIN paid :
    i < j /\ paid[i] = paid[j] =>
      \A q \in DOMAIN members :
        members[q] # paid[i] /\ since[members[q]] < i =>
          \E l \in (i + 1) .. (j - 1) : paid[l] = members[q]

Turns(members, paid, turn, since) ==
  /\ Distinct(members) /\ PaidToMembers(members, paid)
  /\ Rotating(members, paid, turn, since) /\ Rotated(members, paid, since)

CircleTurns(circle, since) ==
  circle.template = "savings_circle" =>
    Turns(circle.members, circle.payouts, circle.currentRecipientIndex, since)

AllTurns == \A c \in Addresses : CircleTurns(contracts[c], joined[c])

\* A new member is asked for by no earlier payout.
LEMMA JoinKeepsTurns ==
  ASSUME NEW members \in Seq(Accounts), NEW paid \in Seq(Accounts), NEW turn \in Nat,
         NEW since \in [Accounts -> Nat], Turns(members, paid, turn, since),
         NEW w \in Accounts, \A q \in DOMAIN members : members[q] # w
  PROVE  Turns(Append(members, w), paid, turn, [since EXCEPT ![w] = Len(paid)])
<1> DEFINE all == Append(members, w)
           later == [since EXCEPT ![w] = Len(paid)]
<1>1. /\ Len(members) \in Nat /\ DOMAIN members = 1 .. Len(members)
      /\ DOMAIN all = 1 .. (Len(members) + 1)
      /\ \A q \in DOMAIN members : all[q] = members[q]
      /\ all[Len(members) + 1] = w
  OBVIOUS
<1>2. /\ later[w] = Len(paid)
      /\ \A q \in DOMAIN members : later[members[q]] = since[members[q]]
  OBVIOUS
<1>3. Len(paid) \in Nat /\ DOMAIN paid = 1 .. Len(paid)
  OBVIOUS
<1>4. \A i \in DOMAIN paid : ~ (Len(paid) < i)
  BY <1>3
<1>5. \A i \in DOMAIN paid : paid[i] # w
  BY DEF Turns, PaidToMembers
<1>6. \A q \in DOMAIN all : q \in DOMAIN members \/ all[q] = w
  BY <1>1
<1> HIDE DEF all, later
<1>7. Distinct(all)
  <2> SUFFICES ASSUME NEW p \in DOMAIN all, NEW q \in DOMAIN all, all[p] = all[q]
               PROVE  p = q
    BY DEF Distinct
  <2>1. CASE p \in DOMAIN members /\ q \in DOMAIN members
    BY <1>1, <2>1 DEF Turns, Distinct
  <2>2. CASE p \notin DOMAIN members /\ q \notin DOMAIN members
    BY <1>1, <2>2
  <2>3. CASE (p \in DOMAIN members) # (q \in DOMAIN members)
    BY <1>1, <1>6, <2>3
  <2> QED BY <2>1, <2>2, <2>3
<1>8. PaidToMembers(all, paid)
  <2> SUFFICES ASSUME NEW i \in DOMAIN paid
               PROVE  \E p \in DOMAIN all : paid[i] = all[p]
    BY DEF PaidToMembers
  <2>1. PICK p \in DOMAIN members : paid[i] = members[p]
    BY DEF Turns, PaidToMembers
  <2>2. p \in DOMAIN all /\ paid[i] = all[p]
    BY <1>1, <2>1
  <2> QED BY <2>2
<1>9. Rotating(all, paid, turn, later)
  <2> SUFFICES ASSUME NEW i \in DOMAIN paid, NEW p \in DOMAIN all, NEW q \in DOMAIN all,
                      paid[i] = all[p], p # q, later[all[q]] < i
               PROVE  Awaiting(turn, q, p) \/ \E l \in (i + 1) .. Len(paid) : paid[l] = all[q]
    BY DEF Rotating
  <2>1. p \in DOMAIN members /\ q \in DOMAIN members
    BY <1>2, <1>4, <1>5, <1>6
  <2>2. paid[i] = members[p] /\ all[q] = members[q] /\ since[members[q]] < i
    BY <1>1, <1>2, <2>1
  <2> QED BY <2>1, <2>2 DEF Turns, Rotating
<1>10. Rotated(all, paid, later)
  <2> SUFFICES ASSUME NEW i \in DOMAIN paid, NEW j \in DOMAIN paid, i < j, paid[i] = paid[j],
                      NEW q \in DOMAIN all, all[q] # paid[i], later[all[q]] < i
               PROVE  \E l \in (i + 1) .. (j - 1) : paid[l] = all[q]
    BY DEF Rotated
  <2>1. q \in DOMAIN members
    BY <1>2, <1>4, <1>6
  <2>2. all[q] = members[q] /\ since[members[q]] < i
    BY <1>1, <1>2, <2>1
  <2>3. Rotated(members, paid, since)
    BY DEF Turns
  <2>4. \E l \in (i + 1) .. (j - 1) : paid[l] = members[q]
    BY <2>1, <2>2, <2>3 DEF Rotated
  <2> QED BY <2>2, <2>4
<1> QED BY <1>7, <1>8, <1>9, <1>10 DEF Turns, all, later

\* Paying the one whose turn it is: the others were paid since his last turn.
LEMMA PayoutKeepsTurns ==
  ASSUME NEW members \in Seq(Accounts), NEW paid \in Seq(Accounts),
         NEW turn \in 1 .. Len(members), NEW since \in [Accounts -> Nat],
         Turns(members, paid, turn, since)
  PROVE  Turns(members, Append(paid, members[turn]), (turn % Len(members)) + 1, since)
<1> DEFINE size == Len(members)
           next == (turn % size) + 1
           n == Len(paid)
           more == Append(paid, members[turn])
<1>1. /\ size \in Nat \ {0} /\ DOMAIN members = 1 .. size /\ turn \in 1 .. size
      /\ n \in Nat /\ DOMAIN paid = 1 .. n
  OBVIOUS
<1>2. members[turn] \in Accounts
  BY <1>1
<1>3. /\ DOMAIN more = 1 .. (n + 1) /\ Len(more) = n + 1
      /\ \A i \in 1 .. n : more[i] = paid[i]
      /\ more[n + 1] = members[turn]
  BY <1>2
<1>4. next = IF turn = size THEN 1 ELSE turn + 1
  <2>1. \A t \in Nat, m \in Nat \ {0} : 1 <= t /\ t < m => t % m = t
    OBVIOUS
  <2>2. \A m \in Nat \ {0} : m % m = 0
    OBVIOUS
  <2> HIDE DEF size
  <2>3. CASE turn = size
    BY <1>1, <2>2, <2>3
  <2>4. CASE turn < size
    BY <1>1, <2>1, <2>4
  <2> QED BY <1>1, <2>3, <2>4
<1> HIDE DEF size, next, n, more
\* One step of the turn passes over nobody who comes before p.
<1>11. ASSUME NEW p \in DOMAIN members, NEW q \in DOMAIN members, q # turn
       PROVE  /\ Awaiting(turn, q, p) => Awaiting(next, q, p)
              /\ p = turn => Awaiting(next, q, p)
  BY <1>1, <1>4, <1>11 DEF Awaiting
<1>5. PaidToMembers(members, more)
  <2> SUFFICES ASSUME NEW i \in DOMAIN more
               PROVE  \E p \in DOMAIN members : more[i] = members[p]
    BY DEF PaidToMembers
  <2>1. CASE i \in 1 .. n
    BY <1>1, <1>3, <2>1 DEF Turns, PaidToMembers
  <2>2. CASE i = n + 1
    BY <1>1, <1>3, <2>2 DEF size
  <2> QED BY <1>1, <1>3, <2>1, <2>2
\* The others were paid since an earlier payout to the same member.
<1>6. ASSUME NEW i \in 1 .. n, paid[i] = members[turn],
             NEW q \in DOMAIN members, q # turn, since[members[q]] < i
      PROVE  \E l \in (i + 1) .. n : paid[l] = members[q]
  <2>1. ~ Awaiting(turn, q, turn)
    BY <1>1 DEF Awaiting
  <2>2. turn \in DOMAIN members /\ i \in DOMAIN paid
    BY <1>1 DEF size
  <2> QED BY <1>6, <2>1, <2>2 DEF Turns, Rotating, n
<1>7. Rotating(members, more, next, since)
  <2> SUFFICES ASSUME NEW i \in DOMAIN more, NEW p \in DOMAIN members, NEW q \in DOMAIN members,
                      more[i] = members[p], p # q, since[members[q]] < i
               PROVE  Awaiting(next, q, p) \/ \E l \in (i + 1) .. Len(more) : more[l] = members[q]
    BY DEF Rotating
  <2>1. CASE q = turn /\ i \in 1 .. n
    <3>1. n + 1 \in (i + 1) .. Len(more) /\ more[n + 1] = members[q]
      BY <1>1, <1>3, <2>1
    <3> QED BY <3>1
  <2>2. CASE q # turn /\ i \in 1 .. n
    <3>1. paid[i] = members[p] /\ i \in DOMAIN paid
      BY <1>1, <1>3, <2>2
    <3>2. CASE Awaiting(turn, q, p)
      BY <1>11, <2>2, <3>2
    <3>3. CASE \E l \in (i + 1) .. n : paid[l] = members[q]
      <4>1. PICK l \in (i + 1) .. n : paid[l] = members[q]
        BY <3>3
      <4>2. l \in (i + 1) .. Len(more) /\ more[l] = members[q]
        BY <1>1, <1>3, <2>2, <4>1
      <4> QED BY <4>2
    <3> QED BY <3>1, <3>2, <3>3 DEF Turns, Rotating, n
  <2>3. CASE i = n + 1
    <3>1. p = turn
      <4>1. members[p] = members[turn] /\ turn \in DOMAIN members
        BY <1>1, <1>3, <2>3 DEF size
      <4> QED BY <4>1 DEF Turns, Distinct
    <3> QED BY <1>11, <3>1
  <2> QED BY <1>1, <1>3, <2>1, <2>2, <2>3
<1>8. Rotated(members, more, since)
  <2> SUFFICES ASSUME NEW i \in DOMAIN more, NEW j \in DOMAIN more, i < j, more[i] = more[j],
                      NEW q \in DOMAIN members, members[q] # more[i], since[members[q]] < i
               PROVE  \E l \in (i + 1) .. (j - 1) : more[l] = members[q]
    BY DEF Rotated
  <2>1. i \in 1 .. n /\ more[i] = paid[i]
    BY <1>1, <1>3
  <2>2. PICK l \in (i + 1) .. (j - 1) : l \in 1 .. n /\ paid[l] = members[q]
    <3>1. CASE j \in 1 .. n
      <4>1. paid[i] = paid[j] /\ i \in DOMAIN paid /\ j \in DOMAIN paid
        BY <1>1, <1>3, <2>1, <3>1
      <4>2. PICK l \in (i + 1) .. (j - 1) : paid[l] = members[q]
        BY <2>1, <4>1 DEF Turns, Rotated
      <4>3. l \in 1 .. n
        BY <1>1, <2>1, <3>1, <4>2
      <4> QED BY <4>2, <4>3
    <3>2. CASE j = n + 1
      <4>1. paid[i] = members[turn] /\ q # turn
        BY <1>3, <2>1, <3>2
      <4>2. PICK l \in (i + 1) .. n : paid[l] = members[q]
        BY <1>6, <2>1, <4>1
      <4>3. l \in 1 .. n /\ l \in (i + 1) .. (j - 1)
        BY <1>1, <2>1, <3>2, <4>2
      <4> QED BY <4>2, <4>3
    <3> QED BY <1>1, <1>3, <3>1, <3>2
  <2> QED BY <1>3, <2>2
<1>9. Distinct(members)
  BY DEF Turns
<1> QED BY <1>5, <1>7, <1>8, <1>9 DEF Turns, more, next, size
\* A call to one contract leaves the turns of the others alone.
LEMMA TurnsElsewhere ==
  ASSUME AllTurns, ContractsType, NEW c \in Addresses, NEW k,
         contracts' = [contracts EXCEPT ![c] = k],
         \A d \in Addresses \ {c} : joined'[d] = joined[d],
         CircleTurns(k, joined'[c])
  PROVE  AllTurns'
<1> SUFFICES ASSUME NEW d \in Addresses
             PROVE  CircleTurns(contracts'[d], joined'[d])
  BY DEF AllTurns, CircleTurns, Turns, Distinct, PaidToMembers, Rotating, Rotated, Awaiting
<1>1. contracts'[c] = k /\ \A e \in Addresses \ {c} : contracts'[e] = contracts[e]
  BY DEF ContractsType
<1>2. CASE d = c
  BY <1>1, <1>2
<1>3. CASE d # c
  BY <1>1, <1>3 DEF AllTurns
<1> QED BY <1>2, <1>3

LEMMA DeployTurns ==
  ASSUME Inv, AllTurns, NEW sender \in Wallets, NEW c \in Addresses,
         NEW template, NEW args,
         \/ template = "savings_circle" /\ args \in Circles
         \/ template = "merchant_escrow" /\ args \in Escrows,
         Deploy(sender, c, template, args)
  PROVE  AllTurns'
<1> DEFINE k == Instance(template, args, sender)
<1>1. contracts' = [contracts EXCEPT ![c] = k] /\ joined' = joined /\ ContractsType
  BY DEF Deploy, Inv, TypeOK, ContractsType
<1>2. CASE template = "savings_circle"
  <2>1. k.members = args.members /\ k.payouts = <<>>
    BY <1>2 DEF Instance, Circle
  <2>2. Distinct(args.members)
    BY <1>2, ContractsAssumption DEF ContractsAssumption, Distinct
  <2>3. DOMAIN <<>> = {}
    OBVIOUS
  <2> HIDE DEF k
  <2>4. CircleTurns(k, joined'[c])
    BY <2>1, <2>2, <2>3 DEF CircleTurns, Turns, PaidToMembers, Rotating, Rotated
  <2> QED BY <1>1, <2>4, TurnsElsewhere
<1>3. CASE template = "merchant_escrow"
  <2>1. k.template = "merchant_escrow"
    BY <1>3 DEF Instance, Escrow
  <2> HIDE DEF k
  <2>2. CircleTurns(k, joined'[c])
    BY <2>1 DEF CircleTurns
  <2> QED BY <1>1, <2>2, TurnsElsewhere
<1> QED BY <1>2, <1>3

LEMMA JoinTurns ==
  ASSUME Inv, AllTurns, NEW sender \in Wallets, NEW c \in Addresses, Join(sender, c)
  PROVE  AllTurns'
<1> DEFINE circle == contracts[c]
           k == [circle EXCEPT !.members = Append(@, sender)]
<1>1. circle \in CircleContracts /\ ContractsType /\ joined \in [Addresses -> [Accounts -> Nat]]
  BY CircleKind DEF Inv, TypeOK, Join, ContractsType
<1>2. CASE sender \in Members(c)
  <2>1. UNCHANGED <<contracts, joined>>
    BY <1>2 DEF Join
  <2> QED BY <2>1
    DEF AllTurns, CircleTurns, Turns, Distinct, PaidToMembers, Rotating, Rotated, Awaiting
<1>3. CASE sender \notin Members(c)
  <2>1. /\ circle.members \in Seq(Accounts) /\ circle.payouts \in Seq(Accounts)
        /\ circle.template = "savings_circle" /\ circle.currentRecipientIndex \in Nat
        /\ joined[c] \in [Accounts -> Nat]
    BY <1>1 DEF CircleContracts
  <2>2. /\ k.template = "savings_circle" /\ k.payouts = circle.payouts
        /\ k.currentRecipientIndex = circle.currentRecipientIndex
        /\ k.members = Append(circle.members, sender)
    BY <1>1 DEF CircleContracts
  <2>3. /\ contracts' = [contracts EXCEPT ![c] = k]
        /\ joined' = [joined EXCEPT ![c][sender] = Len(circle.payouts)]
    BY <1>3 DEF Join, Joined
  <2>4. /\ joined'[c] = [joined[c] EXCEPT ![sender] = Len(circle.payouts)]
        /\ \A d \in Addresses \ {c} : joined'[d] = joined[d]
    BY <1>1, <2>3
  <2>5. \A q \in DOMAIN circle.members : circle.members[q] # sender
    BY <1>3 DEF Members
  <2>6. Turns(circle.members, circle.payouts, circle.currentRecipientIndex, joined[c])
    BY <2>1 DEF AllTurns, CircleTurns
  <2> HIDE DEF k, circle
  <2>7. Turns(Append(circle.members, sender), circle.payouts, circle.currentRecipientIndex,
              [joined[c] EXCEPT ![sender] = Len(circle.payouts)])
    BY <2>1, <2>5, <2>6, AccountsApart, JoinKeepsTurns
  <2>8. CircleTurns(k, joined'[c])
    BY <2>2, <2>4, <2>7 DEF CircleTurns
  <2> QED BY <1>1, <2>3, <2>4, <2>8, TurnsElsewhere
<1> QED BY <1>2, <1>3

LEMMA ContributeTurns ==
  ASSUME Inv, AllTurns, NEW sender \in Wallets, NEW c \in Addresses, Contribute(sender, c)
  PROVE  AllTurns'
<1> DEFINE circle == contracts[c]
           k == [circle EXCEPT !.pot = @ + circle.contributionAmount]
<1>1. circle \in CircleContracts /\ ContractsType
  BY CircleKind DEF Inv, TypeOK, Contribute, ContractsType
<1>2. /\ k.template = circle.template /\ k.payouts = circle.payouts
      /\ k.currentRecipientIndex = circle.currentRecipientIndex
      /\ k.members = circle.members
  BY <1>1 DEF CircleContracts
<1>3. contracts' = [contracts EXCEPT ![c] = k] /\ joined' = joined
  BY DEF Contribute
<1>4. CircleTurns(circle, joined[c])
  BY DEF AllTurns
<1> HIDE DEF k, circle
<1>5. CircleTurns(k, joined'[c])
  BY <1>2, <1>3, <1>4 DEF CircleTurns
<1> QED BY <1>1, <1>3, <1>5, TurnsElsewhere

LEMMA PayoutTurns ==
  ASSUME Inv, AllTurns, NEW sender \in Wallets, NEW c \in Addresses, PayoutNext(sender, c)
  PROVE  AllTurns'
<1> DEFINE circle == contracts[c]
           recipient == circle.members[circle.currentRecipientIndex]
           next == (circle.currentRecipientIndex % Len(circle.members)) + 1
           k == [circle EXCEPT !.payouts = Append(@, recipient), !.pot = 0,
                               !.currentRecipientIndex = next]
<1>1. circle \in CircleContracts /\ ContractsType /\ joined \in [Addresses -> [Accounts -> Nat]]
  BY CircleKind DEF Inv, TypeOK, PayoutNext, ContractsType
<1>2. /\ circle.members \in Seq(Accounts) /\ circle.members # <<>>
      /\ circle.payouts \in Seq(Accounts) /\ circle.currentRecipientIndex \in Nat \ {0}
      /\ circle.template = "savings_circle" /\ joined[c] \in [Accounts -> Nat]
  BY <1>1 DEF CircleContracts, PayoutNext
<1>3. Coherent(circle)
  BY DEF Inv, AllCoherent
<1>4. circle.currentRecipientIndex \in 1 .. Len(circle.members)
  BY <1>2, <1>3 DEF Coherent, TurnInRange
<1>5. contracts' = [contracts EXCEPT ![c] = k] /\ joined' = joined
  BY DEF PayoutNext
<1>6. /\ k.template = "savings_circle" /\ k.members = circle.members
      /\ k.payouts = Append(circle.payouts, recipient)
      /\ k.currentRecipientIndex = next
  BY <1>1 DEF CircleContracts
<1>7. Turns(circle.members, circle.payouts, circle.currentRecipientIndex, joined[c])
  BY <1>2 DEF AllTurns, CircleTurns
<1> HIDE DEF k, circle
<1>8. Turns(circle.members, Append(circle.payouts, recipient), next, joined[c])
  BY <1>2, <1>4, <1>7, PayoutKeepsTurns
<1>9. CircleTurns(k, joined'[c])
  BY <1>5, <1>6, <1>8 DEF CircleTurns
<1> QED BY <1>1, <1>5, <1>9, TurnsElsewhere

\* The methods of an escrow change a contract that has no turns.
LEMMA EscrowTurns ==
  ASSUME Inv, AllTurns, NEW sender \in Wallets, NEW c \in Addresses,
         Fund(sender, c) \/ Release(sender, c) \/ Refund(sender, c)
  PROVE  AllTurns'
<1>1. contracts[c] \in EscrowContracts /\ ContractsType /\ joined' = joined
  BY EscrowKind DEF Inv, TypeOK, Fund, Release, Refund, ContractsType
<1>2. PICK k : contracts' = [contracts EXCEPT ![c] = k] /\ k.template = "merchant_escrow"
  <2>1. CASE Fund(sender, c)
    <3>1. [contracts[c] EXCEPT !.funded = TRUE].template = "merchant_escrow"
      BY <1>1 DEF EscrowContracts
    <3> QED BY <2>1, <3>1 DEF Fund
  <2>2. CASE Release(sender, c)
    <3>1. [contracts[c] EXCEPT !.released = TRUE].template = "merchant_escrow"
      BY <1>1 DEF EscrowContracts
    <3> QED BY <2>2, <3>1 DEF Release
  <2>3. CASE Refund(sender, c)
    <3>1. [contracts[c] EXCEPT !.funded = FALSE].template = "merchant_escrow"
      BY <1>1 DEF EscrowContracts
    <3> QED BY <2>3, <3>1 DEF Refund
  <2> QED BY <2>1, <2>2, <2>3
<1>3. CircleTurns(k, joined'[c])
  BY <1>2 DEF CircleTurns
<1> QED BY <1>1, <1>2, <1>3, TurnsElsewhere

LEMMA StepTurns ==
  ASSUME Inv, AllTurns, [Next]_vars
  PROVE  AllTurns'
<1>1. CASE UNCHANGED <<contracts, joined>>
  BY <1>1 DEF AllTurns, CircleTurns, Turns, Distinct, PaidToMembers, Rotating, Rotated, Awaiting
<1>2. ASSUME NEW sender \in Wallets,
             \/ \E to \in Accounts, amount \in Amounts : Pay(sender, to, amount)
             \/ \E spender \in Wallets, amount \in Amounts : Approve(sender, spender, amount)
             \/ \E from \in Wallets, to \in Accounts, amount \in Amounts :
                  TransferFrom(sender, from, to, amount)
      PROVE  AllTurns'
  BY <1>1, <1>2 DEF Pay, Approve, TransferFrom
<1>3. ASSUME NEW sender \in Wallets, NEW c \in Addresses,
             \/ \E args \in Circles : Deploy(sender, c, "savings_circle", args)
             \/ \E args \in Escrows : Deploy(sender, c, "merchant_escrow", args)
      PROVE  AllTurns'
  BY <1>3, DeployTurns
<1>4. ASSUME NEW sender \in Wallets, NEW c \in Addresses,
             \/ Join(sender, c) \/ Contribute(sender, c) \/ PayoutNext(sender, c)
             \/ Fund(sender, c) \/ Release(sender, c) \/ Refund(sender, c)
      PROVE  AllTurns'
  BY <1>4, JoinTurns, ContributeTurns, PayoutTurns, EscrowTurns
<1>5. CASE UNCHANGED vars
  BY <1>1, <1>5 DEF vars
<1> QED BY <1>2, <1>3, <1>4, <1>5 DEF Next

(***************************************************************************)
(* Payouts rotate among all who were members by then, for circles of any   *)
(* size, joined by anybody at any time, and for any number of rounds.      *)
(***************************************************************************)
THEOREM ContractsTurnsRotate == Spec => []TurnsRotate
<1>1. Init => AllTurns
  BY DEF Init, AllTurns, CircleTurns, NoContract
<1>2. Inv /\ AllTurns /\ [Next]_vars => AllTurns'
  BY StepTurns
<1>3. AllTurns => TurnsRotate
  <2> SUFFICES ASSUME AllTurns, NEW c \in Addresses, contracts[c].template = "savings_circle",
                      NEW i \in DOMAIN contracts[c].payouts, NEW j \in DOMAIN contracts[c].payouts,
                      i < j, contracts[c].payouts[i] = contracts[c].payouts[j],
                      NEW w \in Members(c), w # contracts[c].payouts[i], joined[c][w] < i
               PROVE  \E l \in (i + 1) .. (j - 1) : contracts[c].payouts[l] = w
    BY DEF TurnsRotate
  <2>1. PICK q \in DOMAIN contracts[c].members : contracts[c].members[q] = w
    BY DEF Members
  <2>2. Rotated(contracts[c].members, contracts[c].payouts, joined[c])
    BY DEF AllTurns, CircleTurns, Turns
  <2> QED BY <2>1, <2>2 DEF Rotated
<1> QED BY <1>1, <1>2, <1>3, InvAlways, PTL DEF Spec
=============================================================================
