------------------------------- MODULE Staking -------------------------------
(***************************************************************************)
(* The ledger state behind AfroChain's proof of stake: balances, the       *)
(* delegation books, the validator records that cache totals of those      *)
(* books, reward accounts and the queue of unbonding withdrawals.          *)
(*                                                                         *)
(* Every node applies the same transactions in the same order.  One that   *)
(* throws leaves the state alone (executeTransactionOnState works on a     *)
(* draft), hence each action below is a transaction that succeeds; and     *)
(* CloseBlock is the maintenance that ends every block.  The block height  *)
(* and the proposer are fixed while a block's transactions execute.        *)
(*                                                                         *)
(* payload.amount and payload.commissionRate are whatever the sender       *)
(* wrote.  Number() turns what is no number into NaN, no comparison with   *)
(* NaN ever holds, arithmetic with it stays NaN, and Number(x || 0) counts *)
(* it as 0.  On disk NaN becomes null, which counts as 0 in arithmetic     *)
(* too: a node that restarted goes on with other values than one that did  *)
(* not, so the state here is that of one node, which may restart.          *)
(*                                                                         *)
(* Every other amount is a whole number here.  The code accepts fractions  *)
(* too, and adds them as floating-point numbers, exact only to rounding.   *)
(***************************************************************************)
EXTENDS AmountMath

CONSTANTS
  NaN,                \* JavaScript's NaN
  Null,               \* null: what is left of NaN in JSON
  NumAccounts,        \* accounts are 1 .. NumAccounts
  Treasury,           \* state.treasury, pays the base reward
  RelayerPool,        \* state.mobileRelayerPool, earns the relayer subsidy
  GenesisValidators,  \* BOOTSTRAP_VALIDATORS
  FirstValidator,     \* Object.keys(state.validators)[0]
  GenesisStake,       \* their selfStake
  InitialBalance,     \* account -> liquid balance at genesis
  Signers,            \* accounts that own a key and can send transactions
  Payees,             \* recipients that payments are made to
  Amounts,            \* Number(payload.amount || 0) of transactions
  Fees,               \* fees that transactions offer
  CommissionRates,    \* commissionRate of new validators, in percent
  BaseFee,
  MinValidatorStake,
  BlockReward,
  UnbondingPeriod,
  FeeBurnPercent,
  MobileRelayerPercent,
  MaxTransactions,    \* bound: transactions of all signers together
  LastTxHeight,       \* bound: last block that carries transactions
  MaxHeight           \* bound: last block

Accounts == 1 .. NumAccounts
UnlockHeights == 1 .. (MaxHeight + UnbondingPeriod)

ASSUME AccountsAssumption ==
  /\ NumAccounts \in Nat
  /\ Treasury \in Accounts
  /\ RelayerPool \in Accounts
  /\ Treasury # RelayerPool
  /\ GenesisValidators \subseteq Accounts
  /\ FirstValidator \in GenesisValidators
  /\ Signers \subseteq Accounts \ {Treasury, RelayerPool}
  /\ Payees \subseteq Accounts
  /\ InitialBalance \in [Accounts -> Nat]

ASSUME NaNAssumption == NaN \notin Int /\ Null \notin Int /\ NaN # Null

ASSUME ParamsAssumption ==
  /\ Amounts \subseteq Int \cup {NaN}
  /\ Fees \subseteq Nat
  /\ CommissionRates \subseteq (0 .. 20) \cup {NaN}
  /\ {BaseFee, BlockReward} \subseteq Nat
  /\ {MinValidatorStake, UnbondingPeriod} \subseteq Nat \ {0}
  /\ GenesisStake \in Nat
  /\ GenesisStake >= MinValidatorStake
  /\ {FeeBurnPercent, MobileRelayerPercent} \subseteq 0 .. 49
  /\ {MaxTransactions, LastTxHeight, MaxHeight} \subseteq Nat
  /\ LastTxHeight <= MaxHeight

\* A field for amounts in S that may have stopped being a number.
Maybe(S) == S \cup {NaN, Null}

\* Number(x || 0).
Number(x) == IF x \in {NaN, Null} THEN 0 ELSE x

\* x + y and x - y: NaN stays NaN, null counts as 0.
Plus(x, y) == IF NaN \in {x, y} THEN NaN ELSE Number(x) + Number(y)
Minus(x, y) == IF NaN \in {x, y} THEN NaN ELSE Number(x) - Number(y)

\* JSON.parse(JSON.stringify(x)).
Stored(x) == IF x = NaN THEN Null ELSE x

VARIABLES
  balances,           \* account -> liquid balance
  nonces,             \* account -> last committed nonce
  delegations,        \* validator -> delegator -> stake (0: no entry)
  validators,         \* account -> validator record
  rewardAccounts,     \* account -> unclaimed rewards
  pendingWithdrawals, \* account -> unlock height -> amount unbonding
  burned,             \* metrics.totalFeesBurned
  height,             \* height of the block under construction
  proposer,           \* proposer of that block
  blockFees,          \* totalFees of that block so far
  spoilt              \* history: validators whose stake took a NaN since they registered

vars == <<balances, nonces, delegations, validators, rewardAccounts,
          pendingWithdrawals, burned, height, proposer, blockFees, spoilt>>

\* Whether the record exists, and its active flag.
Statuses == {"unregistered", "active", "inactive"}

ValidatorRecords ==
  [status : Statuses, commissionRate : Maybe(0 .. 20),
   selfStake : Maybe(Int), delegatedStake : Maybe(Int), totalStake : Maybe(Int)]

Unregistered ==
  [status |-> "unregistered", commissionRate |-> 0,
   selfStake |-> 0, delegatedStake |-> 0, totalStake |-> 0]

FreshValidator(stake, rate) ==
  [status |-> "active", commissionRate |-> rate,
   selfStake |-> stake, delegatedStake |-> 0, totalStake |-> stake]

(***************************************************************************)
(* selectProposer: stake-weighted over the active validators, seeded by    *)
(* the tip's hash.  The hash is arbitrary, so any of them with a positive  *)
(* weight may come out; with none, the first registered one proposes.      *)
(***************************************************************************)
ProposersFrom(vs) ==
  LET weighted == {v \in Accounts : vs[v].status = "active"
                                         /\ Number(vs[v].totalStake) > 0}
  IN  IF weighted = {} THEN {FirstValidator} ELSE weighted

Init ==
  /\ balances = InitialBalance
  /\ nonces = [a \in Accounts |-> 0]
  /\ delegations = [v \in Accounts |-> [d \in Accounts |->
                      IF v \in GenesisValidators /\ d = v THEN GenesisStake ELSE 0]]
  /\ validators = [v \in Accounts |-> IF v \in GenesisValidators
                                        THEN FreshValidator(GenesisStake, 6)
                                        ELSE Unregistered]
  /\ rewardAccounts = [a \in Accounts |-> 0]
  /\ pendingWithdrawals = [a \in Accounts |-> [u \in UnlockHeights |-> 0]]
  /\ burned = 0
  /\ height = 1
  /\ proposer \in ProposersFrom(validators)
  /\ blockFees = 0
  /\ spoilt = {}

-----------------------------------------------------------------------------
(***************************************************************************)
(* executeTransactionOnState around each type of transaction: the fee is   *)
(* high enough and can be paid next to what the transaction itself spends; *)
(* the nonce is used up and the block's fees grow.                         *)
(***************************************************************************)
CanSpend(s, fee, amount) ==
  /\ height <= LastTxHeight
  /\ SumTo(nonces, NumAccounts) < MaxTransactions
  /\ fee >= BaseFee
  /\ balances[s] >= fee + Number(amount)

Commit(s, fee) ==
  /\ nonces' = [nonces EXCEPT ![s] = @ + 1]
  /\ blockFees' = blockFees + fee
  /\ UNCHANGED <<burned, height, proposer>>

\* A payment; the sender may name itself as the recipient.
Pay(s, to, amount, fee) ==
  /\ CanSpend(s, fee, amount)
  /\ Number(amount) > 0
  /\ balances' = [[balances EXCEPT ![s] = @ - fee - amount] EXCEPT ![to] = @ + amount]
  /\ Commit(s, fee)
  /\ UNCHANGED <<delegations, validators, rewardAccounts, pendingWithdrawals, spoilt>>

\* The stake of v takes an amount; registering again is a fresh start.
Stakes(v, amount) == spoilt' = IF amount = NaN THEN spoilt \cup {v} ELSE spoilt

StakesAfresh(v, amount) == spoilt' = IF amount = NaN THEN spoilt \cup {v} ELSE spoilt \ {v}

\* Mutant of RegisterValidator: a returning validator's whole book is replaced.
RegisterValidatorClearsBook(s, amount, rate, fee) ==
  /\ CanSpend(s, fee, amount)
  /\ validators[s].status # "active"
  /\ amount # NaN => amount >= MinValidatorStake
  /\ balances' = [balances EXCEPT ![s] = @ - fee - Number(amount)]
  /\ delegations' = [delegations EXCEPT ![s] =
                        [d \in Accounts |-> IF d = s THEN amount ELSE 0]]
  /\ validators' = [validators EXCEPT ![s] = FreshValidator(amount, rate)]
  /\ StakesAfresh(s, amount)
  /\ Commit(s, fee)
  /\ UNCHANGED <<rewardAccounts, pendingWithdrawals>>

\* Registration replaces the sender's own book entry and its whole record,
\* also when a deactivated validator comes back.
RegisterValidator(s, amount, rate, fee) ==
  /\ CanSpend(s, fee, amount)
  /\ validators[s].status # "active"
  /\ amount # NaN => amount >= MinValidatorStake
  /\ balances' = [balances EXCEPT ![s] = @ - fee - Number(amount)]
  /\ delegations' = [delegations EXCEPT ![s][s] = amount]
  /\ validators' = [validators EXCEPT ![s] = FreshValidator(amount, rate)]
  /\ StakesAfresh(s, amount)
  /\ Commit(s, fee)
  /\ UNCHANGED <<rewardAccounts, pendingWithdrawals>>

\* delta moves through the record: own stake, or a delegator's, and the total.
Restaked(record, own, delta) ==
  [record EXCEPT !.selfStake = IF own THEN Plus(@, delta) ELSE @,
                 !.delegatedStake = IF own THEN @ ELSE Plus(@, delta),
                 !.totalStake = Plus(@, delta)]

Delegate(s, v, amount, fee) ==
  /\ CanSpend(s, fee, amount)
  /\ validators[v].status = "active"
  /\ amount # NaN => amount > 0
  /\ balances' = [balances EXCEPT ![s] = @ - fee - Number(amount)]
  /\ delegations' = [delegations EXCEPT ![v][s] = Plus(Number(@), amount)]
  /\ validators' = [validators EXCEPT ![v] = Restaked(@, s = v, amount)]
  /\ Stakes(v, amount)
  /\ Commit(s, fee)
  /\ UNCHANGED <<rewardAccounts, pendingWithdrawals>>

\* Mutants of AfterUndelegation: the active flag, or the total, is forgotten.
UndelegationKeepsStatus(record, own, amount) == Restaked(record, own, Minus(0, amount))

UndelegationKeepsTotal(record, own, amount) ==
  LET rest == Restaked(record, own, Minus(0, amount))
  IN  [rest EXCEPT !.totalStake = record.totalStake,
                   !.status = IF Number(rest.selfStake) >= MinValidatorStake
                                THEN "active" ELSE "inactive"]

\* active is recomputed from the validator's own stake whoever undelegates.
AfterUndelegation(record, own, amount) ==
  LET rest == Restaked(record, own, Minus(0, amount))
  IN  [rest EXCEPT !.status =
         IF Number(rest.selfStake) >= MinValidatorStake THEN "active" ELSE "inactive"]

\* A withdrawal of NaN pays out nothing, and counts as nothing in the queue.
UnlockHeight == height + UnbondingPeriod

Undelegate(s, v, amount, fee) ==
  /\ CanSpend(s, fee, 0)
  /\ validators[v].status # "unregistered"
  /\ amount # NaN => amount > 0 /\ Number(delegations[v][s]) >= amount
  /\ balances' = [balances EXCEPT ![s] = @ - fee]
  /\ delegations' = [delegations EXCEPT ![v][s] = Minus(Number(@), amount)]
  /\ validators' = [validators EXCEPT ![v] = AfterUndelegation(@, s = v, amount)]
  /\ pendingWithdrawals' =
       [pendingWithdrawals EXCEPT ![s][UnlockHeight] = @ + Number(amount)]
  /\ Stakes(v, amount)
  /\ Commit(s, fee)
  /\ UNCHANGED rewardAccounts

ClaimRewards(s, fee) ==
  /\ CanSpend(s, fee, 0)
  /\ Number(rewardAccounts[s]) > 0
  /\ balances' = [balances EXCEPT ![s] = @ - fee + Number(rewardAccounts[s])]
  /\ rewardAccounts' = [rewardAccounts EXCEPT ![s] = 0]
  /\ Commit(s, fee)
  /\ UNCHANGED <<delegations, validators, pendingWithdrawals, spoilt>>

-----------------------------------------------------------------------------
(***************************************************************************)
(* CloseBlock: processPendingWithdrawals credits what has matured, then    *)
(* distributeBlockRewards splits the fees and the base reward.             *)
(***************************************************************************)
\* Mutant of Matured: the boundary is off by one.
MaturedLate(u) == u < height

Matured(u) == u <= height

\* Mutant of Released: what unlocks at this very height is dropped unpaid.
ReleasedBefore(a) ==
  SumTo([u \in UnlockHeights |-> IF MaturedLate(u) THEN pendingWithdrawals[a][u] ELSE 0],
        MaxHeight + UnbondingPeriod)

Released(a) ==
  SumTo([u \in UnlockHeights |-> IF Matured(u) THEN pendingWithdrawals[a][u] ELSE 0],
        MaxHeight + UnbondingPeriod)

\* Mutant of BaseReward: the treasury's balance is not looked at.
BaseRewardUncapped == BlockReward

\* The base reward is capped by what the treasury holds after withdrawals.
BaseReward == Lesser(BlockReward, balances[Treasury] + Released(Treasury))
Burn == Round(blockFees * FeeBurnPercent, 100)
RelayerSubsidy == Round(blockFees * MobileRelayerPercent, 100)
RewardPool == Greater(0, BaseReward + (blockFees - Burn - RelayerSubsidy))
Commission ==
  LET rate == validators[proposer].commissionRate
  IN  IF rate = NaN THEN NaN ELSE Round(RewardPool * Number(rate), 100)

\* A delegator's part of the pool, by its entry in the proposer's book over
\* the total that the validator record claims.
Share(d) ==
  LET entry == delegations[proposer][d]
      total == validators[proposer].totalStake
  IN  CASE entry = 0 -> 0
        [] entry # 0 /\ NaN \in {Commission, entry, total} -> NaN
        [] OTHER -> Round((RewardPool - Commission) * Number(entry), Greater(Number(total), 1))

Assigned ==
  IF NaN \in {Commission} \cup {Share(d) : d \in Accounts}
    THEN NaN
    ELSE Commission + SumTo([d \in Accounts |-> Share(d)], NumAccounts)

\* Mutant of Earned: the rounding remainder goes to nobody.
EarnedWithoutRemainder(a) ==
  Plus(Share(a), IF a = proposer THEN Commission ELSE 0)

\* The proposer also takes the rounding remainder, whatever its sign.
Earned(a) ==
  Plus(Share(a), IF a = proposer THEN Plus(Commission, Minus(RewardPool, Assigned)) ELSE 0)

\* Only the proposer's account and those of its book's entries are written.
Rewarded(a) ==
  IF a # proposer /\ delegations[proposer][a] = 0
    THEN rewardAccounts[a]
    ELSE Plus(Number(rewardAccounts[a]), Earned(a))

\* What a node goes on with after a block: if it restarted, what it reads back.
Kept(x, restarted) == IF restarted THEN Stored(x) ELSE x

KeptRecord(record, restarted) ==
  [record EXCEPT !.commissionRate = Kept(@, restarted),
                 !.selfStake = Kept(@, restarted),
                 !.delegatedStake = Kept(@, restarted),
                 !.totalStake = Kept(@, restarted)]

CloseBlock(restarted) ==
  /\ height <= MaxHeight
  /\ balances' = [a \in Accounts |-> balances[a] + Released(a)
                    - (IF a = Treasury THEN BaseReward ELSE 0)
                    + (IF a = RelayerPool THEN RelayerSubsidy ELSE 0)]
  /\ pendingWithdrawals' = [a \in Accounts |-> [u \in UnlockHeights |->
                              IF Matured(u) THEN 0 ELSE pendingWithdrawals[a][u]]]
  /\ rewardAccounts' = [a \in Accounts |-> Kept(Rewarded(a), restarted)]
  /\ delegations' = [v \in Accounts |-> [d \in Accounts |-> Kept(delegations[v][d], restarted)]]
  /\ validators' = [v \in Accounts |-> KeptRecord(validators[v], restarted)]
  /\ burned' = burned + Burn
  /\ height' = height + 1
  /\ blockFees' = 0
  /\ proposer' \in ProposersFrom(validators)
  /\ UNCHANGED <<nonces, spoilt>>

-----------------------------------------------------------------------------
\* An account without a key never signs, the genesis validators among them.
SomeTransaction ==
  \E s \in Signers, fee \in Fees :
    \/ \E amount \in Amounts :
         \/ \E to \in Payees : Pay(s, to, amount, fee)
         \/ \E rate \in CommissionRates : RegisterValidator(s, amount, rate, fee)
         \/ \E v \in Accounts : Delegate(s, v, amount, fee)
         \/ \E v \in Accounts : Undelegate(s, v, amount, fee)
    \/ ClaimRewards(s, fee)

Next == SomeTransaction \/ \E restarted \in BOOLEAN : CloseBlock(restarted)

Spec == Init /\ [][Next]_vars

-----------------------------------------------------------------------------
\* What the state owes and holds, in total and per account.
BookTotal(v) == SumTo([d \in Accounts |-> Number(delegations[v][d])], NumAccounts)
PendingTotal(a) == SumTo(pendingWithdrawals[a], MaxHeight + UnbondingPeriod)
StakeOf(a) == SumTo([v \in Accounts |-> Number(delegations[v][a])], NumAccounts)

Staked == SumTo([v \in Accounts |-> BookTotal(v)], NumAccounts)
Unbonding == SumTo([a \in Accounts |-> PendingTotal(a)], NumAccounts)
Unclaimed == SumTo([a \in Accounts |-> Number(rewardAccounts[a])], NumAccounts)

Supply ==
  SumTo(balances, NumAccounts) + Unclaimed + Staked + Unbonding + burned + blockFees

Holdings(a) == balances[a] + PendingTotal(a) + StakeOf(a)

(***************************************************************************)
(* Type invariant.  Balances and withdrawals stay natural numbers whatever *)
(* senders write; only stakes, commissions and rewards can stop being      *)
(* numbers.                                                                *)
(***************************************************************************)
TypeOK ==
  /\ balances \in [Accounts -> Nat]
  /\ nonces \in [Accounts -> Nat]
  /\ delegations \in [Accounts -> [Accounts -> Maybe(Nat)]]
  /\ validators \in [Accounts -> ValidatorRecords]
  /\ rewardAccounts \in [Accounts -> Maybe(Int)]
  /\ pendingWithdrawals \in [Accounts -> [UnlockHeights -> Nat]]
  /\ burned \in Nat
  /\ height \in 1 .. (MaxHeight + 1)
  /\ proposer \in Accounts
  /\ blockFees \in Nat
  /\ spoilt \subseteq Accounts

(***************************************************************************)
(* The validator record is a cache of the delegation book.  Through every  *)
(* order of registering, delegating and undelegating: its own stake is the *)
(* validator's entry in the book, the total is own plus delegated stake,   *)
(* and the validator is active exactly while it has the minimum stake of   *)
(* its own (register_validator, delegate and undelegate each write three   *)
(* of these fields).  The exception is a validator whose stake took an     *)
(* amount that is no number, its own or anybody's, since it registered.    *)
(* Nobody at all has stake with an account that is no validator.           *)
(***************************************************************************)
RecordAgrees(v) ==
  LET record == validators[v]
  IN  /\ {record.selfStake, record.delegatedStake, record.totalStake} \subseteq Int
      /\ record.selfStake = delegations[v][v]
      /\ record.totalStake = record.selfStake + record.delegatedStake
      /\ record.status = "active" <=> record.selfStake >= MinValidatorStake

RecordsAgreeWithBooks ==
  \A v \in Accounts :
    /\ v \notin spoilt => RecordAgrees(v)
    /\ validators[v].status = "unregistered" => \A d \in Accounts : delegations[v][d] = 0

(***************************************************************************)
(* A validator's weight in selectProposer never exceeds the stake that its *)
(* book backs it with, even after it registered again on top of old        *)
(* delegations, and even after amounts that are no numbers: those only     *)
(* take its weight away.                                                   *)
(***************************************************************************)
WeightIsBacked == \A v \in Accounts : Number(validators[v].totalStake) <= BookTotal(v)

(***************************************************************************)
(* No withdrawal is overdue once a block closed, and none unlocks later    *)
(* than one unbonding period from now (undelegate and                      *)
(* processPendingWithdrawals agree on where the boundary is).              *)
(***************************************************************************)
WithdrawalsAreDue ==
  \A a \in Accounts, u \in UnlockHeights :
    pendingWithdrawals[a][u] > 0 => u \in height .. (height + UnbondingPeriod)

(***************************************************************************)
(* Nothing is minted and nothing is destroyed, with these exceptions.  A   *)
(* validator that registers again loses the stake it still had in its own  *)
(* book (register_validator assigns the entry instead of adding to it).  A *)
(* stake transaction whose amount is no number loses the whole book entry  *)
(* it touches.  And in a block where the commission or a share of the      *)
(* rewards is no number, the reward accounts are off, the proposer's is no *)
(* number any more, and everything else still adds up: the pool left the   *)
(* treasury and the fees.                                                  *)
(***************************************************************************)
EntryLost(v, d) ==
  \/ d = v /\ validators[v].status = "inactive" /\ validators'[v].status = "active"
  \/ delegations'[v][d] = NaN

RewardsLost ==
  /\ height' # height
  /\ Assigned = NaN
  /\ rewardAccounts'[proposer] \in {NaN, Null}
  /\ (Supply - Unclaimed)' = Supply - Unclaimed - RewardPool

SupplyAccounted ==
  [][\/ Supply' = Supply
     \/ \E v, d \in Accounts :
          EntryLost(v, d) /\ Supply' = Supply - Number(delegations[v][d])
     \/ RewardsLost]_vars

(***************************************************************************)
(* An account's balance, stakes and unbonding withdrawals together shrink  *)
(* only in a transaction of its own, whatever others do with the           *)
(* validators it delegated to.  (The treasury pays block rewards.)         *)
(***************************************************************************)
OnlyOwnTransactionsSpend ==
  [][\A a \in Accounts \ {Treasury} :
       Holdings(a)' < Holdings(a) => nonces'[a] = nonces[a] + 1]_vars

(***************************************************************************)
(* A withdrawal leaves the queue only in a block at or after its unlock    *)
(* height, and the block credits the whole amount to the liquid balance.   *)
(***************************************************************************)
WithdrawalsPaidInFull ==
  [][\A a \in Accounts \ {Treasury, RelayerPool} :
       PendingTotal(a)' < PendingTotal(a) =>
         /\ balances'[a] - balances[a] = PendingTotal(a) - PendingTotal(a)'
         /\ \A u \in UnlockHeights :
              pendingWithdrawals'[a][u] < pendingWithdrawals[a][u] => u <= height]_vars
=============================================================================
