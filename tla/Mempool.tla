------------------------------- MODULE Mempool -------------------------------
(***************************************************************************)
(* The transactions of one node: the pending ones in its mempool, and the  *)
(* committed state that its own blocks and its peers' blocks extend.       *)
(* Every decision about the mempool is a trial execution of the whole      *)
(* queue on a copy of the committed state (projectPendingTransactions).    *)
(*                                                                         *)
(* A handler runs up to its first await in one step.  requestFaucet is the *)
(* one that decides something after an await: between the submission of    *)
(* its transaction and its block, any other handler may run.               *)
(*                                                                         *)
(* Wallets sign payments, which stand for all other types too, and         *)
(* transactions of type faucet: only those of the system, which bear the   *)
(* faucet's address as sender, have to keep the faucet's rules.  Two       *)
(* transactions are the same (same id) exactly when they are equal.        *)
(* Amounts and fees are whole numbers.  (What is not a number passes the   *)
(* comparisons and moves nothing: it leaves a nonce behind.)               *)
(***************************************************************************)
EXTENDS AmountMath, Sequences, SequencesExt

CONSTANTS
  Wallets,          \* accounts with a key
  Faucet,           \* state.faucet.address, an account without a key
  InitialBalance,   \* account -> balance at genesis
  SignedTransactions, \* what wallets ever sign
  FaucetRecipients, \* who asks the faucet
  FaucetAmounts,    \* amounts that are asked for
  MaxFaucetAmount,  \* state.faucet.maxAmount
  Cooldown,         \* state.faucet.cooldownMs
  BaseFees,         \* values that governance gives params.baseFee
  Grants,           \* amounts that governance grants out of the faucet's account
  GrantRecipient,   \* the wallet that receives them
  MaxPerBlock,      \* params.maxTransactionsPerBlock
  Roles,            \* the cases checked: whether this node has a validatorAddress
  MaxPeerBlock,     \* bound: transactions in a peer's block
  MaxConfirmed,     \* bound: confirmed transactions that still let peers add
  MaxRequests,      \* bound: faucet requests to this node
  MaxClock          \* bound: time

Accounts == Wallets \cup {Faucet}

Transactions ==
  [type : {"payment", "faucet"}, sender : Accounts, to : Accounts,
   amount : Nat, fee : Nat, nonce : Nat, at : Nat]  \* at: 0 for what is no date

ASSUME MempoolAssumption ==
  /\ Faucet \notin Wallets
  /\ InitialBalance \in [Accounts -> Nat]
  /\ SignedTransactions \subseteq {tx \in Transactions : tx.sender \in Wallets}
  /\ FaucetRecipients \subseteq Wallets
  /\ GrantRecipient \in Wallets
  /\ FaucetAmounts \cup BaseFees \cup Grants \subseteq Nat
  /\ {MaxFaucetAmount, MaxPeerBlock, MaxConfirmed, MaxRequests} \subseteq Nat
  /\ 0 \in Grants
  /\ BaseFees # {}
  /\ {Cooldown, MaxPerBlock, MaxClock} \subseteq Nat \ {0}
  /\ Roles \subseteq BOOLEAN

VARIABLES
  state,       \* committed state: [balances, nonces, requestLog, baseFee, transactions]
  mempool,     \* pending transactions, oldest first
  recorded,    \* what the last handler added to mempoolRejections
  faucetCalls, \* faucet transactions whose requestFaucet waits at its await
  requests,    \* faucet requests so far
  selected,    \* selectProposer chooses this node for the next block
  clock,       \* this node's time
  isValidator  \* one of Roles

vars == <<state, mempool, recorded, faucetCalls, requests, selected, clock, isValidator>>

FaucetTransaction(to, amount, nonce, at) ==
  [type |-> "faucet", sender |-> Faucet, to |-> to, amount |-> amount,
   fee |-> 0, nonce |-> nonce, at |-> at]

\* selectProposer depends on the tip's hash: any outcome, for a validator.
Selections(validator) == IF validator THEN BOOLEAN ELSE {TRUE}

\* requestLog is 0 for an account that never had faucet funds.
Init ==
  /\ \E fee \in BaseFees :
       state = [balances |-> InitialBalance, nonces |-> [a \in Accounts |-> 0],
                requestLog |-> [a \in Accounts |-> 0], baseFee |-> fee,
                transactions |-> <<>>]
  /\ mempool = <<>>
  /\ recorded = <<>>
  /\ faucetCalls = {}
  /\ requests = 0
  /\ isValidator \in Roles
  /\ selected \in Selections(isValidator)
  /\ clock = 1

-----------------------------------------------------------------------------
(***************************************************************************)
(* Execution of one transaction (executeTransactionOnState).               *)
(***************************************************************************)
BySystem(tx) == tx.type = "faucet" /\ tx.sender = Faucet

ValidFaucet(st, tx) ==
  /\ tx.amount \in 1 .. MaxFaucetAmount
  /\ st.requestLog[tx.to] = 0 \/ tx.at - st.requestLog[tx.to] >= Cooldown

\* The faucet pays what is disbursed, whoever signed it; the sender pays the fee.
Owed(tx) == IF tx.type = "faucet" THEN tx.fee ELSE tx.fee + tx.amount

Funded(st, tx) ==
  /\ Owed(tx) <= st.balances[tx.sender]
  /\ tx.type = "faucet" => tx.amount <= st.balances[Faucet]

\* Mutants of Executable: the balance, or the nonce, is not checked.
ExecutableUnfunded(st, tx) ==
  /\ BySystem(tx) => ValidFaucet(st, tx)
  /\ tx.type = "payment" => tx.fee >= st.baseFee
  /\ tx.nonce = st.nonces[tx.sender] + 1
  /\ tx.amount > 0

ExecutableAnyNonce(st, tx) ==
  /\ BySystem(tx) => ValidFaucet(st, tx)
  /\ tx.type = "payment" => tx.fee >= st.baseFee
  /\ tx.amount > 0
  /\ Funded(st, tx)

Executable(st, tx) ==
  /\ BySystem(tx) => ValidFaucet(st, tx)
  /\ tx.type = "payment" => tx.fee >= st.baseFee
  /\ tx.nonce = st.nonces[tx.sender] + 1
  /\ tx.amount > 0
  /\ Funded(st, tx)

\* Funds leave one account and reach another.
Moved(balances, from, to, amount) ==
  LET debited == [balances EXCEPT ![from] = balances[from] - amount]
  IN  [debited EXCEPT ![to] = debited[to] + amount]

\* The fee, and then the payment or the disbursement.
Paid(balances, tx) ==
  Moved([balances EXCEPT ![tx.sender] = balances[tx.sender] - tx.fee],
        IF tx.type = "faucet" THEN Faucet ELSE tx.sender, tx.to, tx.amount)

\* Mutant of Executed: the disbursement is not logged.
ExecutedUnlogged(st, tx) ==
  [balances |-> Paid(st.balances, tx),
   nonces |-> [st.nonces EXCEPT ![tx.sender] = tx.nonce],
   requestLog |-> st.requestLog,
   baseFee |-> st.baseFee,
   transactions |-> Append(st.transactions, tx)]

Executed(st, tx) ==
  [balances |-> Paid(st.balances, tx),
   nonces |-> [st.nonces EXCEPT ![tx.sender] = tx.nonce],
   requestLog |-> [st.requestLog EXCEPT ![tx.to] = IF tx.type = "faucet" THEN tx.at ELSE @],
   baseFee |-> st.baseFee,
   transactions |-> Append(st.transactions, tx)]

(***************************************************************************)
(* projectPendingTransactions: execute the queue one by one, each on the   *)
(* result of those retained before it.                                     *)
(***************************************************************************)
Untried(st) == [state |-> st, retained |-> <<>>, rejected |-> <<>>]

Tried(before, tx) ==
  IF Executable(before.state, tx)
    THEN [before EXCEPT !.state = Executed(@, tx), !.retained = Append(@, tx)]
    ELSE [before EXCEPT !.rejected = Append(@, tx)]

Projection(st, txs) ==
  LET after[k \in 0 .. Len(txs)] == IF k = 0 THEN Untried(st) ELSE Tried(after[k - 1], txs[k])
  IN  after[Len(txs)]

\* recordMempoolRejection, for each of them.
Rejections(txs, stage) == [i \in DOMAIN txs |-> [tx |-> txs[i], stage |-> stage]]

-----------------------------------------------------------------------------
HasTransaction(tx) == tx \in ToSet(state.transactions) \cup ToSet(mempool)

\* Mutant of Outdated: pending transactions that leave are not recorded.
OutdatedUnrecorded(queue, tx) == <<>>

\* submitTransaction, for a queue and a candidate that passed its checks.
\* The candidate is refused, or it joins the queue and pending transactions
\* that no longer execute leave.
Refused(queue, tx) == tx \in ToSet(Projection(state, Append(queue, tx)).rejected)
Admitted(queue, tx) == Projection(state, Append(queue, tx)).retained
Outdated(queue, tx) == Projection(state, Append(queue, tx)).rejected

\* A wallet's transaction, from a client, a peer's gossip or a peer's mempool.
SubmitTransaction(tx) ==
  /\ ~ HasTransaction(tx)
  /\ IF Refused(mempool, tx)
       THEN /\ recorded' = Rejections(<<tx>>, "admission")
            /\ UNCHANGED mempool
       ELSE /\ recorded' = Rejections(Outdated(mempool, tx), "admission")
            /\ mempool' = Admitted(mempool, tx)
  /\ UNCHANGED <<state, faucetCalls, requests, selected, clock, isValidator>>

NextNonce(a, queue) ==
  state.nonces[a] + Cardinality({i \in DOMAIN queue : queue[i].sender = a}) + 1

\* requestFaucet up to its first await.  A request against the committed
\* cooldown or cap throws unrecorded; the queue stays reconciled either way.
RequestFaucet(to, amount) ==
  LET reconciled == Projection(state, mempool)
      queue == reconciled.retained
      tx == FaucetTransaction(to, amount, NextNonce(Faucet, queue), clock)
      stale == Rejections(reconciled.rejected, "pre-faucet")
  IN  /\ requests < MaxRequests
      /\ requests' = requests + 1
      /\ \/ /\ ~ ValidFaucet(state, tx)
            /\ mempool' = queue
            /\ recorded' = stale
            /\ UNCHANGED faucetCalls
         \/ /\ ValidFaucet(state, tx) /\ Refused(queue, tx)
            /\ mempool' = queue
            /\ recorded' = stale \o Rejections(<<tx>>, "admission")
            /\ UNCHANGED faucetCalls
         \/ /\ ValidFaucet(state, tx) /\ ~ Refused(queue, tx)
            /\ mempool' = Admitted(queue, tx)
            /\ recorded' = stale \o Rejections(Outdated(queue, tx), "admission")
            /\ faucetCalls' = faucetCalls \cup {tx}
      /\ UNCHANGED <<state, selected, clock, isValidator>>

-----------------------------------------------------------------------------
(***************************************************************************)
(* The end of a block: governance may set another base fee, and may grant  *)
(* funds out of the faucet's account (a treasury source) to an account.    *)
(***************************************************************************)
Granted(st, amount) ==
  [st EXCEPT !.balances = Moved(@, Faucet, GrantRecipient, amount)]

BlockEnds(st) ==
  {[Granted(st, amount) EXCEPT !.baseFee = fee] :
     amount \in {g \in Grants : g <= st.balances[Faucet]}, fee \in BaseFees}

\* Mutant of Fitting: the block's capacity is off by one.
FittingShort(queue) == Lesser(MaxPerBlock - 1, Len(queue))

\* The queue as produceBlock reconciles it, its candidates and its overflow.
Ready == Projection(state, mempool)
Fitting(queue) == Lesser(MaxPerBlock, Len(queue))
Candidates(queue) == SubSeq(queue, 1, Fitting(queue))
Overflow(queue) == SubSeq(queue, Fitting(queue) + 1, Len(queue))

\* produceBlock up to its await: what overflows is not looked at again.
\* (Quantifying over singletons lets TLC evaluate each projection once.)
MineBlock ==
  \E ready \in {Ready} : \E block \in {Projection(state, Candidates(ready.retained))} :
    /\ mempool' = Overflow(ready.retained)
    /\ recorded' = Rejections(ready.rejected, "pre-block")
                     \o Rejections(block.rejected, "block")
    /\ state' \in BlockEnds(block.state)
    /\ selected' \in Selections(isValidator)

\* The block timer, or an operator.
ProduceBlock ==
  /\ selected
  /\ MineBlock
  /\ UNCHANGED <<faucetCalls, requests, clock, isValidator>>

\* The rest of requestFaucet: a block at once if this node may produce one.
FinishFaucet(tx) ==
  /\ tx \in faucetCalls
  /\ faucetCalls' = faucetCalls \ {tx}
  /\ \/ /\ selected
        /\ MineBlock
     \/ /\ ~ selected
        /\ UNCHANGED <<state, mempool, recorded, selected>>
  /\ UNCHANGED <<requests, clock, isValidator>>

\* The queue without what a block confirmed.
Without(queue, txs) ==
  LET kept[k \in 0 .. Len(queue)] ==
        IF k = 0 THEN <<>>
        ELSE IF queue[k] \in ToSet(txs) THEN kept[k - 1] ELSE Append(kept[k - 1], queue[k])
  IN  kept[Len(queue)]

\* Mutant of AfterBlock: the rest is not reconciled.
AfterBlockUnreconciled(st, txs) ==
  [state |-> st, rejected |-> <<>>,
   retained |-> Without(mempool, txs)]

\* acceptBlock drops what the block confirmed and reconciles the rest.
AfterBlock(st, txs) ==
  Projection(st, Without(mempool, txs))

\* A peer's block that extends the tip.  One with a transaction that does
\* not execute changes nothing.
AcceptBlock(txs) ==
  /\ Projection(state, txs).rejected = <<>>
  /\ state' \in BlockEnds(Projection(state, txs).state)
  /\ mempool' = AfterBlock(state', txs).retained
  /\ recorded' = Rejections(AfterBlock(state', txs).rejected, "post-block")
  /\ selected' \in Selections(isValidator)
  /\ UNCHANGED <<faucetCalls, requests, clock, isValidator>>

Tick ==
  /\ clock < MaxClock
  /\ clock' = clock + 1
  /\ UNCHANGED <<state, mempool, recorded, faucetCalls, requests, selected, isValidator>>

-----------------------------------------------------------------------------
\* Peers confirm what wallets signed, and faucet transactions dated by their clocks.
PeerTransactions ==
  SignedTransactions \cup
  {FaucetTransaction(to, amount, state.nonces[Faucet] + k, at) :
     to \in FaucetRecipients, amount \in FaucetAmounts,
     k \in 1 .. MaxPeerBlock, at \in 1 .. MaxClock}

PeerBlocks ==
  IF Len(state.transactions) > MaxConfirmed THEN {<<>>}
  ELSE UNION {[1 .. n -> {tx \in PeerTransactions : tx \notin ToSet(state.transactions)}] :
                n \in 0 .. MaxPeerBlock}

Next ==
  \/ \E tx \in SignedTransactions : SubmitTransaction(tx)
  \/ \E to \in FaucetRecipients, amount \in FaucetAmounts : RequestFaucet(to, amount)
  \/ \E tx \in faucetCalls : FinishFaucet(tx)
  \/ ProduceBlock
  \/ \E txs \in PeerBlocks : AcceptBlock(txs)
  \/ Tick

\* start-node.js produces a block on a timer; without a validator address it
\* does so whoever is selected, and with one nobody tells when it is selected.
Spec == Init /\ [][Next]_vars /\ WF_vars(~ isValidator /\ ProduceBlock)

-----------------------------------------------------------------------------
(***************************************************************************)
(* Type invariant.                                                         *)
(***************************************************************************)
TypeOK ==
  /\ state \in [balances : [Accounts -> Nat], nonces : [Accounts -> Nat],
                requestLog : [Accounts -> Nat], baseFee : Nat,
                transactions : Seq(Transactions)]
  /\ mempool \in Seq(Transactions)
  /\ recorded \in Seq([tx : Transactions,
                       stage : {"admission", "pre-faucet", "pre-block", "block", "post-block"}])
  /\ faucetCalls \subseteq Transactions
  /\ requests \in 0 .. MaxRequests
  /\ selected \in BOOLEAN
  /\ clock \in 1 .. MaxClock
  /\ isValidator \in BOOLEAN

(***************************************************************************)
(* The mempool never holds a transaction that can no longer execute, but   *)
(* for what the end of a block changed behind it: the base fee rose above  *)
(* a fee that a pending payment offers, or a grant took the funds that     *)
(* pending transactions of type faucet pay out.                            *)
(***************************************************************************)
FeesSuffice ==
  \A i \in DOMAIN mempool : mempool[i].type = "payment" => mempool[i].fee >= state.baseFee

FaucetSuffices ==
  SumTo([i \in DOMAIN mempool |-> IF mempool[i].type = "faucet" THEN mempool[i].amount ELSE 0],
        Len(mempool)) <= state.balances[Faucet]

PendingWillExecute == FeesSuffice /\ FaucetSuffices => Projection(state, mempool).rejected = <<>>

(***************************************************************************)
(* A disbursement that the system signed comes at least a cooldown after   *)
(* those before it to the same recipient, in whatever mempools they waited *)
(* and whoever's clock dated them; as far back as, and including, the last *)
(* one that a wallet signed.  Such a one comes when it likes, and counts   *)
(* with the date its sender gave it, if it is a date.                      *)
(***************************************************************************)
CooldownKept ==
  \A i, j \in DOMAIN state.transactions :
    LET first == state.transactions[i]
        second == state.transactions[j]
        since == {k \in i + 1 .. j : /\ state.transactions[k].type = "faucet"
                                     /\ state.transactions[k].to = first.to}
    IN  /\ first.type = "faucet" /\ j \in since
        /\ \A k \in since : BySystem(state.transactions[k])
        => first.at = 0 \/ second.at - first.at >= Cooldown

(***************************************************************************)
(* No transaction is lost: one that leaves the mempool is either confirmed *)
(* or recorded among the rejections by the handler that dropped it.        *)
(***************************************************************************)
LeavesAccounted ==
  [][\A tx \in ToSet(mempool) \ ToSet(mempool') :
       tx \in ToSet(state'.transactions) <=> \A i \in DOMAIN recorded' : recorded'[i].tx # tx]_vars

(***************************************************************************)
(* No pending transaction waits for ever behind others: where the timer    *)
(* produces blocks whoever is selected, it is confirmed or dropped.        *)
(***************************************************************************)
PendingIsSettled ==
  \A tx \in SignedTransactions : ~ isValidator /\ tx \in ToSet(mempool) ~> tx \notin ToSet(mempool)

(***************************************************************************)
(* The node's transactions implement the abstract log and pool.            *)
(***************************************************************************)
Promise == INSTANCE TxLog WITH log <- state.transactions, pool <- ToSet(mempool)
ImplementsTxLog == Promise!Spec
=============================================================================
