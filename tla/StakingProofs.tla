---------------------------- MODULE StakingProofs ----------------------------
(***************************************************************************)
(* Proofs about Staking for every number of accounts, every parameter and  *)
(* every bound.                                                            *)
(***************************************************************************)
EXTENDS Staking, AmountMathProofs

-----------------------------------------------------------------------------
(* Arithmetic with values that may not be numbers. *)

LEMMA NumberTypes ==
  /\ \A x \in Maybe(Int) : Number(x) \in Int
  /\ \A x \in Maybe(Nat) : Number(x) \in Nat
  /\ \A x \in Int : Number(x) = x /\ x # NaN /\ x # Null
  /\ Number(NaN) = 0 /\ Number(Null) = 0
  BY NaNAssumption DEF Number, Maybe

LEMMA PlusTypes ==
  ASSUME NEW x \in Maybe(Int), NEW y \in Maybe(Int)
  PROVE  /\ Plus(x, y) \in Int \cup {NaN}
         /\ Minus(x, y) \in Int \cup {NaN}
         /\ x # NaN /\ y # NaN => /\ Plus(x, y) = Number(x) + Number(y)
                                  /\ Minus(x, y) = Number(x) - Number(y)
         /\ x = NaN \/ y = NaN => Plus(x, y) = NaN /\ Minus(x, y) = NaN
<1>1. Number(x) \in Int /\ Number(y) \in Int
  BY NumberTypes
<1> QED BY <1>1 DEF Plus, Minus

\* Storing a value keeps its type and what it counts for.
LEMMA KeptTypes ==
  ASSUME NEW restarted \in BOOLEAN
  PROVE  /\ \A S : \A x \in Maybe(S) : Kept(x, restarted) \in Maybe(S)
         /\ \A x : Number(Kept(x, restarted)) = Number(x)
         /\ \A x \in Int : Kept(x, restarted) = x
         /\ \A x : x \in {NaN, Null} <=> Kept(x, restarted) \in {NaN, Null}
  BY NaNAssumption DEF Kept, Stored, Number, Maybe

\* A whole record that was stored.
LEMMA KeptRecordTypes ==
  ASSUME NEW restarted \in BOOLEAN, NEW record \in ValidatorRecords
  PROVE  LET after == KeptRecord(record, restarted)
         IN  /\ after \in ValidatorRecords
             /\ after.status = record.status
             /\ after.commissionRate = Kept(record.commissionRate, restarted)
             /\ after.selfStake = Kept(record.selfStake, restarted)
             /\ after.delegatedStake = Kept(record.delegatedStake, restarted)
             /\ after.totalStake = Kept(record.totalStake, restarted)
<1>1. /\ record.commissionRate \in Maybe(0 .. 20)
      /\ record.selfStake \in Maybe(Int)
      /\ record.delegatedStake \in Maybe(Int)
      /\ record.totalStake \in Maybe(Int)
      /\ record.status \in Statuses
  BY DEF ValidatorRecords
<1>2. PICK c, s, d, t :
        /\ c \in Maybe(0 .. 20) /\ c = Kept(record.commissionRate, restarted)
        /\ s \in Maybe(Int) /\ s = Kept(record.selfStake, restarted)
        /\ d \in Maybe(Int) /\ d = Kept(record.delegatedStake, restarted)
        /\ t \in Maybe(Int) /\ t = Kept(record.totalStake, restarted)
  BY <1>1, KeptTypes
<1>3. KeptRecord(record, restarted)
        = [record EXCEPT !.commissionRate = c, !.selfStake = s,
                         !.delegatedStake = d, !.totalStake = t]
  BY <1>2 DEF KeptRecord
<1> QED BY <1>2, <1>3 DEF ValidatorRecords

-----------------------------------------------------------------------------
(* Types, and the records that agree with the books. *)

\* The quantities of a block's rewards are natural numbers, the pool is what
\* the treasury and the fees put in, and the commission is at most the pool.
\* Only the commission, shares and what is computed from them may be NaN, and
\* then the sum of what is assigned is NaN.
LEMMA RewardTypes ==
  ASSUME TypeOK
  PROVE  /\ \A a \in Accounts : Released(a) \in Nat
         /\ BaseReward \in Nat
         /\ BaseReward <= balances[Treasury] + Released(Treasury)
         /\ Burn \in Nat
         /\ RelayerSubsidy \in Nat
         /\ RewardPool = BaseReward + blockFees - Burn - RelayerSubsidy
         /\ RewardPool \in Nat
         /\ Commission \in Nat \cup {NaN}
         /\ \A d \in Accounts : Share(d) \in Nat \cup {NaN}
         /\ Assigned \in Int \cup {NaN}
         /\ Assigned # NaN => /\ Commission \in Nat
                              /\ \A d \in Accounts : Share(d) \in Nat
                              /\ Assigned = Commission
                                   + SumTo([d \in Accounts |-> Share(d)], NumAccounts)
         /\ \A a \in Accounts : Earned(a) \in Int \cup {NaN}
         /\ \A a \in Accounts : Rewarded(a) \in Maybe(Int)
<1> USE AccountsAssumption, ParamsAssumption
<1>1. \A a \in Accounts : Released(a) \in Nat
  <2> TAKE a \in Accounts
  <2> DEFINE w == [u \in UnlockHeights |-> IF Matured(u) THEN pendingWithdrawals[a][u] ELSE 0]
  <2>1. MaxHeight + UnbondingPeriod \in Nat
    OBVIOUS
  <2>2. \A u \in UnlockHeights : w[u] \in Nat
    BY DEF TypeOK
  <2> HIDE DEF w
  <2>3. SumTo(w, MaxHeight + UnbondingPeriod) \in Nat
    BY <2>1, <2>2, SumNat DEF UnlockHeights
  <2> QED BY <2>3 DEF Released, w
<1>2. /\ BaseReward \in Nat
      /\ BaseReward <= balances[Treasury] + Released(Treasury)
  BY <1>1 DEF BaseReward, Lesser, TypeOK
<1>3. /\ Burn \in Nat /\ 2 * Burn <= blockFees
      /\ RelayerSubsidy \in Nat /\ 2 * RelayerSubsidy <= blockFees
  <2>1. blockFees \in Nat /\ FeeBurnPercent \in 0 .. 49 /\ MobileRelayerPercent \in 0 .. 49
    BY DEF TypeOK
  <2> QED BY <2>1, RoundBelowHalf DEF Burn, RelayerSubsidy
<1>4. RewardPool = BaseReward + blockFees - Burn - RelayerSubsidy /\ RewardPool \in Nat
  BY <1>2, <1>3 DEF RewardPool, Greater, TypeOK
<1>5. proposer \in Accounts /\ validators[proposer] \in ValidatorRecords
  BY DEF TypeOK
<1>6. Commission \in Nat \cup {NaN} /\ (Commission # NaN => 2 * Commission <= RewardPool)
  <2> DEFINE rate == validators[proposer].commissionRate
  <2>1. rate \in Maybe(0 .. 20)
    BY <1>5 DEF ValidatorRecords
  <2> HIDE DEF rate
  <2>2. rate # NaN => Number(rate) \in 0 .. 49
    BY <2>1, NaNAssumption DEF Number, Maybe
  <2>3. CASE rate = NaN
    BY <2>3 DEF Commission, rate
  <2>4. CASE rate # NaN
    <3>1. /\ Round(RewardPool * Number(rate), 100) \in Nat
          /\ 2 * Round(RewardPool * Number(rate), 100) <= RewardPool
      BY <1>4, <2>2, <2>4, RoundBelowHalf
    <3> QED BY <2>4, <3>1 DEF Commission, rate
  <2> QED BY <2>3, <2>4
<1>7. ASSUME NEW d \in Accounts PROVE Share(d) \in Nat \cup {NaN}
  <2> DEFINE entry == delegations[proposer][d]
             total == validators[proposer].totalStake
  <2>1. entry \in Maybe(Nat) /\ total \in Maybe(Int)
    BY <1>5 DEF TypeOK, ValidatorRecords
  <2>2. Share(d) = CASE entry = 0 -> 0
                     [] entry # 0 /\ NaN \in {Commission, entry, total} -> NaN
                     [] OTHER -> Round((RewardPool - Commission) * Number(entry),
                                       Greater(Number(total), 1))
    BY DEF Share
  <2>3. Number(entry) \in Nat /\ Greater(Number(total), 1) \in Nat \ {0}
    <3>1. Number(entry) \in Nat /\ Number(total) \in Int
      BY <2>1, NumberTypes
    <3> QED BY <3>1 DEF Greater
  <2> HIDE DEF entry, total
  <2>4. CASE NaN \in {Commission, entry, total} \/ entry = 0
    BY <2>2, <2>4
  <2>5. CASE ~ (NaN \in {Commission, entry, total} \/ entry = 0)
    <3>1. Commission \in Nat /\ 2 * Commission <= RewardPool
      BY <1>6, <2>5
    <3>2. RewardPool - Commission \in Nat
      BY <1>4, <3>1
    <3>3. (RewardPool - Commission) * Number(entry) \in Nat
      BY <2>3, <3>2
    <3>4. Round((RewardPool - Commission) * Number(entry), Greater(Number(total), 1)) \in Nat
      BY <2>3, <3>3, RoundNat
    <3> QED BY <2>2, <2>5, <3>4
  <2> QED BY <2>4, <2>5
<1>8. /\ Assigned \in Int \cup {NaN}
      /\ Assigned # NaN => /\ Commission \in Nat
                           /\ \A d \in Accounts : Share(d) \in Nat
                           /\ Assigned = Commission
                                + SumTo([d \in Accounts |-> Share(d)], NumAccounts)
  <2>1. CASE NaN \in {Commission} \cup {Share(d) : d \in Accounts}
    BY <2>1 DEF Assigned
  <2>2. CASE ~ (NaN \in {Commission} \cup {Share(d) : d \in Accounts})
    <3> DEFINE w == [d \in Accounts |-> Share(d)]
    <3>1. Commission \in Nat /\ \A d \in Accounts : Share(d) \in Nat
      BY <1>6, <1>7, <2>2
    <3>2. \A d \in 1 .. NumAccounts : w[d] \in Int
      BY <3>1 DEF Accounts
    <3>3. Assigned = Commission + SumTo(w, NumAccounts)
      BY <2>2 DEF Assigned
    <3> HIDE DEF w
    <3>4. SumTo(w, NumAccounts) \in Int
      BY <3>2, SumInt
    <3>5. Assigned \in Int
      BY <3>1, <3>3, <3>4
    <3> QED BY <3>1, <3>3, <3>5 DEF w
  <2> QED BY <2>1, <2>2
<1>9. \A a \in Accounts : Earned(a) \in Int \cup {NaN}
  <2> TAKE a \in Accounts
  <2>1. /\ Share(a) \in Maybe(Int) /\ Commission \in Maybe(Int)
        /\ RewardPool \in Maybe(Int) /\ Assigned \in Maybe(Int)
    BY <1>4, <1>6, <1>7, <1>8 DEF Maybe
  <2>2. Minus(RewardPool, Assigned) \in Maybe(Int)
    BY <2>1, PlusTypes DEF Maybe
  <2>3. Plus(Commission, Minus(RewardPool, Assigned)) \in Maybe(Int)
    BY <2>1, <2>2, PlusTypes DEF Maybe
  <2> DEFINE more == IF a = proposer THEN Plus(Commission, Minus(RewardPool, Assigned)) ELSE 0
  <2>4. more \in Maybe(Int)
    <3>1. 0 \in Maybe(Int)
      BY DEF Maybe
    <3> QED BY <2>3, <3>1
  <2>5. Earned(a) = Plus(Share(a), more)
    BY DEF Earned
  <2> HIDE DEF more
  <2> QED BY <2>1, <2>4, <2>5, PlusTypes
<1>10. \A a \in Accounts : Rewarded(a) \in Maybe(Int)
  <2> TAKE a \in Accounts
  <2>1. rewardAccounts[a] \in Maybe(Int)
    BY DEF TypeOK
  <2>2. Number(rewardAccounts[a]) \in Maybe(Int) /\ Earned(a) \in Maybe(Int)
    BY <1>9, <2>1, NumberTypes DEF Maybe
  <2>3. Plus(Number(rewardAccounts[a]), Earned(a)) \in Maybe(Int)
    BY <2>2, PlusTypes DEF Maybe
  <2> QED BY <2>1, <2>3 DEF Rewarded
<1> QED BY <1>1, <1>2, <1>3, <1>4, <1>6, <1>7, <1>8, <1>9, <1>10

\* Whoever selectProposer picks is an account.
LEMMA ProposersAreAccounts == \A vs : ProposersFrom(vs) \subseteq Accounts
  BY AccountsAssumption DEF ProposersFrom

\* A transaction moves nonces and fees the same way whatever its type.
LEMMA CommitTypes ==
  ASSUME TypeOK, NEW s \in Signers, NEW fee \in Fees, NEW amount, Number(amount) \in Nat,
         CanSpend(s, fee, amount), Commit(s, fee)
  PROVE  /\ s \in Accounts /\ fee \in Nat
         /\ balances[s] - fee - Number(amount) \in Nat
         /\ UnlockHeight \in UnlockHeights
         /\ nonces' \in [Accounts -> Nat]
         /\ blockFees' \in Nat
         /\ burned' \in Nat
         /\ height' \in 1 .. (MaxHeight + 1)
         /\ proposer' \in Accounts
<1> USE AccountsAssumption, ParamsAssumption
<1>1. s \in Accounts /\ fee \in Nat /\ balances[s] \in Nat
  BY DEF TypeOK
<1>2. balances[s] - fee - Number(amount) \in Nat
  <2>1. balances[s] >= fee + Number(amount)
    BY DEF CanSpend
  <2> QED BY <1>1, <2>1
<1>3. UnlockHeight \in UnlockHeights
  <2>1. height \in Nat /\ height >= 1 /\ height <= LastTxHeight
    BY DEF TypeOK, CanSpend
  <2>2. {LastTxHeight, MaxHeight, UnbondingPeriod} \subseteq Nat /\ LastTxHeight <= MaxHeight
    OBVIOUS
  <2> HIDE AccountsAssumption, ParamsAssumption
  <2> QED BY <2>1, <2>2 DEF UnlockHeight, UnlockHeights
<1>4. nonces' \in [Accounts -> Nat]
  BY <1>1 DEF TypeOK, Commit
<1>5. blockFees' \in Nat
  BY <1>1 DEF TypeOK, Commit
<1>6. burned' \in Nat /\ height' \in 1 .. (MaxHeight + 1) /\ proposer' \in Accounts
  BY DEF TypeOK, Commit
<1> QED BY <1>1, <1>2, <1>3, <1>4, <1>5, <1>6

\* Amounts as the guards leave them.
LEMMA AmountTypes ==
  ASSUME NEW amount \in Amounts
  PROVE  /\ amount \in Int \cup {NaN}
         /\ amount \in Maybe(Int)
         /\ (amount # NaN => amount > 0) => Number(amount) \in Nat
         /\ (amount # NaN => amount >= MinValidatorStake) => Number(amount) \in Nat
         /\ amount # NaN => amount \in Int /\ Number(amount) = amount
         /\ Number(0) = 0 /\ 0 \in Maybe(Int)
<1>1. amount \in Int \cup {NaN} /\ MinValidatorStake \in Nat
  BY ParamsAssumption
<1>2. CASE amount = NaN
  BY <1>1, <1>2, NumberTypes DEF Maybe
<1>3. CASE amount # NaN
  BY <1>1, <1>3, NumberTypes DEF Maybe
<1> QED BY <1>2, <1>3

RecordTypes(record) ==
  /\ record.selfStake \in Maybe(Int)
  /\ record.delegatedStake \in Maybe(Int)
  /\ record.totalStake \in Maybe(Int)

LEMMA RecordTypesOf ==
  ASSUME NEW record \in ValidatorRecords
  PROVE  RecordTypes(record)
  BY DEF ValidatorRecords, RecordTypes

\* What Restaked and AfterUndelegation do to each field of a record.
RestakedFields(record, own, delta, after) ==
  /\ after.status = record.status
  /\ after.selfStake = IF own THEN Plus(record.selfStake, delta) ELSE record.selfStake
  /\ after.delegatedStake
       = IF own THEN record.delegatedStake ELSE Plus(record.delegatedStake, delta)
  /\ after.totalStake = Plus(record.totalStake, delta)

UndelegatedFields(record, own, amount, after) ==
  /\ after.status = "active" <=> Number(after.selfStake) >= MinValidatorStake
  /\ after.status # "unregistered"
  /\ after.selfStake = IF own THEN Plus(record.selfStake, Minus(0, amount))
                              ELSE record.selfStake
  /\ after.delegatedStake
       = IF own THEN record.delegatedStake
                ELSE Plus(record.delegatedStake, Minus(0, amount))
  /\ after.totalStake = Plus(record.totalStake, Minus(0, amount))

LEMMA RestakedType ==
  ASSUME NEW record \in ValidatorRecords, NEW own \in BOOLEAN, NEW delta \in Maybe(Int)
  PROVE  /\ Restaked(record, own, delta) \in ValidatorRecords
         /\ RestakedFields(record, own, delta, Restaked(record, own, delta))
<1> DEFINE self == IF own THEN Plus(record.selfStake, delta) ELSE record.selfStake
           deleg == IF own THEN record.delegatedStake ELSE Plus(record.delegatedStake, delta)
           total == Plus(record.totalStake, delta)
<1>1. self \in Maybe(Int) /\ deleg \in Maybe(Int) /\ total \in Maybe(Int)
  <2>1. RecordTypes(record)
    BY RecordTypesOf
  <2>2. /\ Plus(record.selfStake, delta) \in Maybe(Int)
        /\ Plus(record.delegatedStake, delta) \in Maybe(Int)
        /\ Plus(record.totalStake, delta) \in Maybe(Int)
    BY <2>1, PlusTypes DEF RecordTypes, Maybe
  <2> QED BY <2>1, <2>2 DEF RecordTypes
<1>2. Restaked(record, own, delta)
        = [record EXCEPT !.selfStake = self, !.delegatedStake = deleg, !.totalStake = total]
  BY DEF Restaked
<1>3. PICK ss \in Maybe(Int), ds \in Maybe(Int), ts \in Maybe(Int) :
        ss = self /\ ds = deleg /\ ts = total
  BY <1>1
<1>4. Restaked(record, own, delta)
        = [record EXCEPT !.selfStake = ss, !.delegatedStake = ds, !.totalStake = ts]
  BY <1>2, <1>3
<1>5. Restaked(record, own, delta) \in ValidatorRecords
  BY <1>4 DEF ValidatorRecords
<1>6. LET after == Restaked(record, own, delta) IN
        /\ after.status = record.status
        /\ after.selfStake = ss
        /\ after.delegatedStake = ds
        /\ after.totalStake = ts
  BY <1>4 DEF ValidatorRecords
<1> QED BY <1>3, <1>5, <1>6 DEF RestakedFields

LEMMA AfterUndelegationType ==
  ASSUME NEW record \in ValidatorRecords, NEW own \in BOOLEAN, NEW amount \in Maybe(Int)
  PROVE  /\ AfterUndelegation(record, own, amount) \in ValidatorRecords
         /\ UndelegatedFields(record, own, amount, AfterUndelegation(record, own, amount))
<1> DEFINE rest == Restaked(record, own, Minus(0, amount))
           status == IF Number(rest.selfStake) >= MinValidatorStake
                       THEN "active" ELSE "inactive"
<1>0. Minus(0, amount) \in Maybe(Int)
  <2>1. 0 \in Maybe(Int)
    BY DEF Maybe
  <2> QED BY <2>1, PlusTypes DEF Maybe
<1>1. rest \in ValidatorRecords
  BY <1>0, RestakedType
<1>2. AfterUndelegation(record, own, amount) = [rest EXCEPT !.status = status]
  BY DEF AfterUndelegation
<1>3. RestakedFields(record, own, Minus(0, amount), rest)
  BY <1>0, RestakedType
<1>4. status \in Statuses /\ status # "unregistered"
      /\ (status = "active" <=> Number(rest.selfStake) >= MinValidatorStake)
  BY DEF Statuses
<1> HIDE DEF rest, status
<1>5. [rest EXCEPT !.status = status] \in ValidatorRecords
  BY <1>1, <1>4 DEF ValidatorRecords
<1>6. LET after == [rest EXCEPT !.status = status] IN
        /\ after.status = status
        /\ after.selfStake = rest.selfStake
        /\ after.delegatedStake = rest.delegatedStake
        /\ after.totalStake = rest.totalStake
  BY <1>1 DEF ValidatorRecords
<1> QED BY <1>2, <1>3, <1>4, <1>5, <1>6 DEF UndelegatedFields, RestakedFields

LEMMA FreshValidatorType ==
  ASSUME NEW stake \in Maybe(Int), NEW rate \in Maybe(0 .. 20)
  PROVE  FreshValidator(stake, rate) \in ValidatorRecords
<1>1. 0 \in Maybe(Int)
  BY DEF Maybe
<1> QED BY <1>1 DEF FreshValidator, ValidatorRecords, Statuses

IndInv == TypeOK /\ RecordsAgreeWithBooks

LEMMA InitIndInv == Init => IndInv
<1> SUFFICES ASSUME Init PROVE IndInv
  OBVIOUS
<1> USE AccountsAssumption, ParamsAssumption
<1>0. /\ GenesisStake \in Int /\ GenesisStake \in Maybe(Int) /\ GenesisStake \in Maybe(Nat)
      /\ 6 \in Maybe(0 .. 20) /\ 0 \in Maybe(Int) /\ 0 \in Maybe(Nat) /\ 0 \in Maybe(0 .. 20)
  BY DEF Maybe
<1>1. TypeOK
  <2>1. validators \in [Accounts -> ValidatorRecords]
    <3>1. FreshValidator(GenesisStake, 6) \in ValidatorRecords
      BY <1>0, FreshValidatorType
    <3>2. Unregistered \in ValidatorRecords
      BY <1>0 DEF Unregistered, ValidatorRecords, Statuses
    <3> QED BY <3>1, <3>2 DEF Init
  <2>2. proposer \in Accounts
    BY ProposersAreAccounts DEF Init
  <2>3. pendingWithdrawals \in [Accounts -> [UnlockHeights -> Nat]]
    BY DEF Init
  <2>4. delegations \in [Accounts -> [Accounts -> Maybe(Nat)]]
    BY <1>0 DEF Init
  <2>5. /\ nonces \in [Accounts -> Nat]
        /\ rewardAccounts \in [Accounts -> Maybe(Int)]
        /\ burned \in Nat /\ blockFees \in Nat
        /\ height \in 1 .. (MaxHeight + 1)
        /\ balances \in [Accounts -> Nat]
        /\ spoilt \subseteq Accounts
    BY <1>0 DEF Init
  <2> QED BY <2>1, <2>2, <2>3, <2>4, <2>5 DEF TypeOK
<1>2. RecordsAgreeWithBooks
  <2> SUFFICES ASSUME NEW v \in Accounts
               PROVE  /\ RecordAgrees(v)
                      /\ validators[v].status = "unregistered"
                           => \A d \in Accounts : delegations[v][d] = 0
    BY DEF RecordsAgreeWithBooks
  <2>1. CASE v \in GenesisValidators
    BY <1>0, <2>1 DEF Init, FreshValidator, RecordAgrees
  <2>2. CASE v \notin GenesisValidators
    BY <2>2 DEF Init, Unregistered, RecordAgrees
  <2> QED BY <2>1, <2>2
<1> QED BY <1>1, <1>2 DEF IndInv

\* Records that do not change agree as they did, if their book does not
\* change where a record is compared with it, and nobody is pardoned.
LEMMA RecordsKept ==
  ASSUME RecordsAgreeWithBooks, NEW v \in Accounts,
         validators'[v] = validators[v], delegations'[v] = delegations[v],
         v \notin spoilt' => v \notin spoilt
  PROVE  /\ v \notin spoilt' => RecordAgrees(v)'
         /\ validators'[v].status = "unregistered"
              => \A d \in Accounts : delegations'[v][d] = 0
  BY DEF RecordsAgreeWithBooks, RecordAgrees

LEMMA RegisterIndInv ==
  ASSUME TypeOK, RecordsAgreeWithBooks,
         NEW s \in Signers, NEW fee \in Fees, NEW amount \in Amounts,
         NEW rate \in CommissionRates, RegisterValidator(s, amount, rate, fee)
  PROVE  TypeOK' /\ RecordsAgreeWithBooks'
<1> USE AccountsAssumption, ParamsAssumption
<1>1. /\ Number(amount) \in Nat /\ CanSpend(s, fee, amount) /\ Commit(s, fee)
      /\ amount \in Maybe(Int) /\ amount \in Maybe(Nat)
  <2>1. /\ CanSpend(s, fee, amount) /\ Commit(s, fee)
        /\ amount # NaN => amount >= MinValidatorStake
    BY DEF RegisterValidator
  <2>2. Number(amount) \in Nat /\ amount \in Maybe(Int)
    BY <2>1, AmountTypes
  <2>3. amount \in Maybe(Nat)
    BY <2>2, AmountTypes DEF Maybe
  <2> QED BY <2>1, <2>2, <2>3
<1>2. s \in Accounts
  OBVIOUS
<1>3. balances' \in [Accounts -> Nat]
  BY <1>1, <1>2, CommitTypes DEF RegisterValidator, TypeOK
<1>4. delegations' \in [Accounts -> [Accounts -> Maybe(Nat)]]
  BY <1>1, <1>2 DEF RegisterValidator, TypeOK
<1>5. FreshValidator(amount, rate) \in ValidatorRecords
  <2>1. rate \in Maybe(0 .. 20)
    BY DEF Maybe
  <2> QED BY <1>1, <2>1, FreshValidatorType
<1>6. validators' \in [Accounts -> ValidatorRecords]
  BY <1>5 DEF RegisterValidator, TypeOK
<1>7. spoilt' \subseteq Accounts /\ (s \notin spoilt' => amount # NaN)
  BY <1>2 DEF RegisterValidator, StakesAfresh, TypeOK
<1>8. TypeOK'
  <2>1. rewardAccounts' = rewardAccounts /\ pendingWithdrawals' = pendingWithdrawals
    BY DEF RegisterValidator
  <2> QED BY <1>1, <1>3, <1>4, <1>6, <1>7, <2>1, CommitTypes DEF TypeOK
<1>9. RecordsAgreeWithBooks'
  <2> SUFFICES ASSUME NEW v \in Accounts
               PROVE  /\ v \notin spoilt' => RecordAgrees(v)'
                      /\ validators'[v].status = "unregistered"
                           => \A d \in Accounts : delegations'[v][d] = 0
    BY DEF RecordsAgreeWithBooks
  <2>1. CASE v # s
    <3>1. /\ validators'[v] = validators[v] /\ delegations'[v] = delegations[v]
          /\ v \notin spoilt' => v \notin spoilt
      BY <2>1 DEF RegisterValidator, StakesAfresh, TypeOK
    <3> QED BY <3>1, RecordsKept
  <2>2. CASE v = s
    <3>1. validators'[s] = FreshValidator(amount, rate) /\ delegations'[s][s] = amount
      BY <1>2 DEF RegisterValidator, TypeOK
    <3>2. ASSUME s \notin spoilt' PROVE RecordAgrees(s)'
      <4>1. amount \in Int /\ amount >= MinValidatorStake
        BY <1>7, <3>2, AmountTypes DEF RegisterValidator
      <4> QED BY <3>1, <4>1 DEF RecordAgrees, FreshValidator
    <3>3. validators'[s].status # "unregistered"
      BY <3>1 DEF FreshValidator
    <3> QED BY <2>2, <3>2, <3>3
  <2> QED BY <2>1, <2>2
<1> QED BY <1>8, <1>9

LEMMA DelegateIndInv ==
  ASSUME TypeOK, RecordsAgreeWithBooks,
         NEW s \in Signers, NEW fee \in Fees, NEW amount \in Amounts,
         NEW v \in Accounts, Delegate(s, v, amount, fee)
  PROVE  TypeOK' /\ RecordsAgreeWithBooks'
<1> USE AccountsAssumption, ParamsAssumption
<1>1. /\ Number(amount) \in Nat /\ CanSpend(s, fee, amount) /\ Commit(s, fee)
      /\ amount \in Maybe(Int) /\ amount \in Nat \cup {NaN}
  <2>1. /\ CanSpend(s, fee, amount) /\ Commit(s, fee)
        /\ amount # NaN => amount > 0
    BY DEF Delegate
  <2>2. Number(amount) \in Nat /\ amount \in Maybe(Int)
    BY <2>1, AmountTypes
  <2>3. amount \in Nat \cup {NaN}
    BY <2>2, AmountTypes
  <2> QED BY <2>1, <2>2, <2>3
<1>2. s \in Accounts
  OBVIOUS
<1>3. balances' \in [Accounts -> Nat]
  BY <1>1, <1>2, CommitTypes DEF Delegate, TypeOK
<1>4. delegations' \in [Accounts -> [Accounts -> Maybe(Nat)]]
  <2>1. delegations[v][s] \in Maybe(Nat)
    BY <1>2 DEF TypeOK
  <2>2. Number(delegations[v][s]) \in Nat
    BY <2>1, NumberTypes
  <2>3. Plus(Number(delegations[v][s]), amount) \in Maybe(Nat)
    BY <1>1, <2>2, NumberTypes DEF Plus, Maybe
  <2> QED BY <1>2, <2>3 DEF Delegate, TypeOK
<1>5. validators[v] \in ValidatorRecords /\ validators[v].status = "active"
  BY DEF Delegate, TypeOK
<1>6. /\ Restaked(validators[v], s = v, amount) \in ValidatorRecords
      /\ RestakedFields(validators[v], s = v, amount, Restaked(validators[v], s = v, amount))
  <2>1. (s = v) \in BOOLEAN
    OBVIOUS
  <2> QED BY <1>1, <1>5, <2>1, RestakedType
<1>7. validators' \in [Accounts -> ValidatorRecords]
  BY <1>6 DEF Delegate, TypeOK
<1>8. spoilt' \subseteq Accounts /\ (v \notin spoilt' => amount # NaN)
      /\ \A x \in Accounts : x \notin spoilt' => x \notin spoilt
  BY DEF Delegate, Stakes, TypeOK
<1>9. TypeOK'
  <2>1. rewardAccounts' = rewardAccounts /\ pendingWithdrawals' = pendingWithdrawals
    BY DEF Delegate
  <2> QED BY <1>1, <1>3, <1>4, <1>7, <1>8, <2>1, CommitTypes DEF TypeOK
<1>10. RecordsAgreeWithBooks'
  <2> SUFFICES ASSUME NEW x \in Accounts
               PROVE  /\ x \notin spoilt' => RecordAgrees(x)'
                      /\ validators'[x].status = "unregistered"
                           => \A d \in Accounts : delegations'[x][d] = 0
    BY DEF RecordsAgreeWithBooks
  <2>1. CASE x # v
    <3>1. validators'[x] = validators[x] /\ delegations'[x] = delegations[x]
      BY <2>1 DEF Delegate, TypeOK
    <3> QED BY <1>8, <3>1, RecordsKept
  <2>2. CASE x = v
    <3>1. validators'[v] = Restaked(validators[v], s = v, amount)
      BY DEF Delegate, TypeOK
    <3>2. RestakedFields(validators[v], s = v, amount, validators'[v])
      BY <1>6, <3>1
    <3>3. validators'[v].status = "active"
      BY <1>5, <3>2 DEF RestakedFields
    <3>4. ASSUME v \notin spoilt' PROVE RecordAgrees(v)'
      <4>1. amount \in Nat /\ RecordAgrees(v)
        BY <1>1, <1>8, <3>4 DEF RecordsAgreeWithBooks
      <4>2. /\ validators[v].selfStake \in Int /\ validators[v].delegatedStake \in Int
            /\ validators[v].totalStake \in Int
            /\ validators[v].selfStake = delegations[v][v]
            /\ validators[v].totalStake
                 = validators[v].selfStake + validators[v].delegatedStake
            /\ validators[v].selfStake >= MinValidatorStake
        BY <1>5, <4>1 DEF RecordAgrees
      <4>3. \A y \in Int : Plus(y, amount) = y + amount /\ Plus(Number(y), amount) = y + amount
        BY <4>1, NumberTypes DEF Plus
      <4>4. delegations'[v][v]
              = IF s = v THEN delegations[v][v] + amount ELSE delegations[v][v]
        BY <4>2, <4>3 DEF Delegate, TypeOK
      <4>5. /\ validators'[v].selfStake = IF s = v THEN validators[v].selfStake + amount
                                                   ELSE validators[v].selfStake
            /\ validators'[v].delegatedStake = IF s = v THEN validators[v].delegatedStake
                                               ELSE validators[v].delegatedStake + amount
            /\ validators'[v].totalStake = validators[v].totalStake + amount
        BY <3>2, <4>2, <4>3 DEF RestakedFields
      <4> QED BY <3>3, <4>1, <4>2, <4>4, <4>5 DEF RecordAgrees
    <3> QED BY <2>2, <3>3, <3>4
  <2> QED BY <2>1, <2>2
<1> QED BY <1>9, <1>10

LEMMA UndelegateIndInv ==
  ASSUME TypeOK, RecordsAgreeWithBooks,
         NEW s \in Signers, NEW fee \in Fees, NEW amount \in Amounts,
         NEW v \in Accounts, Undelegate(s, v, amount, fee)
  PROVE  TypeOK' /\ RecordsAgreeWithBooks'
<1> USE AccountsAssumption, ParamsAssumption
<1>1. /\ Number(0) \in Nat /\ CanSpend(s, fee, 0) /\ Commit(s, fee)
      /\ amount \in Maybe(Int) /\ amount \in Nat \cup {NaN}
      /\ amount # NaN => Number(delegations[v][s]) >= amount
      /\ Number(amount) \in Nat
  <2>1. /\ CanSpend(s, fee, 0) /\ Commit(s, fee)
        /\ amount # NaN => amount > 0 /\ Number(delegations[v][s]) >= amount
    BY DEF Undelegate
  <2>2. amount \in Maybe(Int) /\ Number(0) \in Nat
    BY AmountTypes
  <2>3. amount \in Nat \cup {NaN} /\ Number(amount) \in Nat
    BY <2>1, AmountTypes
  <2> QED BY <2>1, <2>2, <2>3
<1>2. s \in Accounts /\ UnlockHeight \in UnlockHeights
  BY <1>1, CommitTypes
<1>3. balances' \in [Accounts -> Nat]
  <2>1. balances[s] - fee - Number(0) \in Nat /\ fee \in Nat /\ balances[s] \in Nat
    BY <1>1, <1>2, CommitTypes DEF TypeOK
  <2>2. balances[s] - fee \in Nat
    BY <2>1, NumberTypes
  <2> QED BY <1>2, <2>2 DEF Undelegate, TypeOK
<1>4. delegations' \in [Accounts -> [Accounts -> Maybe(Nat)]]
  <2>1. delegations[v][s] \in Maybe(Nat)
    BY <1>2 DEF TypeOK
  <2>2. Number(delegations[v][s]) \in Nat
    BY <2>1, NumberTypes
  <2>3. Minus(Number(delegations[v][s]), amount) \in Maybe(Nat)
    BY <1>1, <2>2, NumberTypes DEF Minus, Maybe
  <2> QED BY <1>2, <2>3 DEF Undelegate, TypeOK
<1>5. pendingWithdrawals' \in [Accounts -> [UnlockHeights -> Nat]]
  BY <1>1, <1>2 DEF Undelegate, TypeOK
<1>6. validators[v] \in ValidatorRecords /\ validators[v].status # "unregistered"
  BY DEF Undelegate, TypeOK
<1>7. /\ AfterUndelegation(validators[v], s = v, amount) \in ValidatorRecords
      /\ UndelegatedFields(validators[v], s = v, amount,
                           AfterUndelegation(validators[v], s = v, amount))
  <2>1. (s = v) \in BOOLEAN
    OBVIOUS
  <2> QED BY <1>1, <1>6, <2>1, AfterUndelegationType
<1>8. validators' \in [Accounts -> ValidatorRecords]
  BY <1>7 DEF Undelegate, TypeOK
<1>9. spoilt' \subseteq Accounts /\ (v \notin spoilt' => amount # NaN)
      /\ \A x \in Accounts : x \notin spoilt' => x \notin spoilt
  BY DEF Undelegate, Stakes, TypeOK
<1>10. TypeOK'
  <2>1. rewardAccounts' = rewardAccounts
    BY DEF Undelegate
  <2> QED BY <1>1, <1>3, <1>4, <1>5, <1>8, <1>9, <2>1, CommitTypes DEF TypeOK
<1>11. RecordsAgreeWithBooks'
  <2> SUFFICES ASSUME NEW x \in Accounts
               PROVE  /\ x \notin spoilt' => RecordAgrees(x)'
                      /\ validators'[x].status = "unregistered"
                           => \A d \in Accounts : delegations'[x][d] = 0
    BY DEF RecordsAgreeWithBooks
  <2>1. CASE x # v
    <3>1. validators'[x] = validators[x] /\ delegations'[x] = delegations[x]
      BY <2>1 DEF Undelegate, TypeOK
    <3> QED BY <1>9, <3>1, RecordsKept
  <2>2. CASE x = v
    <3>1. validators'[v] = AfterUndelegation(validators[v], s = v, amount)
      BY DEF Undelegate, TypeOK
    <3>2. UndelegatedFields(validators[v], s = v, amount, validators'[v])
      BY <1>7, <3>1
    <3>3. validators'[v].status # "unregistered"
      BY <3>2 DEF UndelegatedFields
    <3>4. ASSUME v \notin spoilt' PROVE RecordAgrees(v)'
      <4>1. amount \in Nat /\ RecordAgrees(v)
        BY <1>1, <1>9, <3>4 DEF RecordsAgreeWithBooks
      <4>2. /\ validators[v].selfStake \in Int /\ validators[v].delegatedStake \in Int
            /\ validators[v].totalStake \in Int
            /\ validators[v].selfStake = delegations[v][v]
            /\ validators[v].totalStake
                 = validators[v].selfStake + validators[v].delegatedStake
        BY <4>1 DEF RecordAgrees
      <4>3. \A y \in Int : /\ Plus(y, Minus(0, amount)) = y - amount
                           /\ Minus(Number(y), amount) = y - amount
        BY <4>1, NumberTypes DEF Plus, Minus
      <4>4. delegations'[v][v]
              = IF s = v THEN delegations[v][v] - amount ELSE delegations[v][v]
        BY <4>2, <4>3 DEF Undelegate, TypeOK
      <4>5. /\ validators'[v].selfStake = IF s = v THEN validators[v].selfStake - amount
                                                   ELSE validators[v].selfStake
            /\ validators'[v].delegatedStake = IF s = v THEN validators[v].delegatedStake
                                               ELSE validators[v].delegatedStake - amount
            /\ validators'[v].totalStake = validators[v].totalStake - amount
        BY <3>2, <4>2, <4>3 DEF UndelegatedFields
      <4>6. validators'[v].selfStake \in Int
            /\ Number(validators'[v].selfStake) = validators'[v].selfStake
        BY <4>1, <4>2, <4>5, NumberTypes
      <4>7. validators'[v].status = "active" <=> validators'[v].selfStake >= MinValidatorStake
        BY <3>2, <4>6 DEF UndelegatedFields
      <4> QED BY <4>1, <4>2, <4>4, <4>5, <4>7 DEF RecordAgrees
    <3> QED BY <2>2, <3>3, <3>4
  <2> QED BY <2>1, <2>2
<1> QED BY <1>10, <1>11

LEMMA CloseBlockIndInv ==
  ASSUME TypeOK, RecordsAgreeWithBooks, NEW restarted \in BOOLEAN, CloseBlock(restarted)
  PROVE  TypeOK' /\ RecordsAgreeWithBooks'
<1> USE AccountsAssumption, ParamsAssumption
<1>1. balances' \in [Accounts -> Nat]
  BY RewardTypes DEF CloseBlock, TypeOK
<1>2. pendingWithdrawals' \in [Accounts -> [UnlockHeights -> Nat]]
  BY DEF CloseBlock, TypeOK
<1>3. rewardAccounts' \in [Accounts -> Maybe(Int)]
  <2>1. \A a \in Accounts : Kept(Rewarded(a), restarted) \in Maybe(Int)
    BY RewardTypes, KeptTypes
  <2> QED BY <2>1 DEF CloseBlock
<1>4. burned' \in Nat /\ height' \in 1 .. (MaxHeight + 1) /\ blockFees' \in Nat
  BY RewardTypes DEF CloseBlock, TypeOK
<1>5. proposer' \in Accounts
  BY ProposersAreAccounts DEF CloseBlock
<1>6. delegations' \in [Accounts -> [Accounts -> Maybe(Nat)]]
  <2>1. \A v, d \in Accounts : Kept(delegations[v][d], restarted) \in Maybe(Nat)
    BY KeptTypes DEF TypeOK
  <2> QED BY <2>1 DEF CloseBlock
<1>7. /\ validators' \in [Accounts -> ValidatorRecords]
      /\ \A v \in Accounts :
           /\ validators'[v].status = validators[v].status
           /\ validators'[v].selfStake = Kept(validators[v].selfStake, restarted)
           /\ validators'[v].delegatedStake = Kept(validators[v].delegatedStake, restarted)
           /\ validators'[v].totalStake = Kept(validators[v].totalStake, restarted)
  <2>1. \A v \in Accounts : validators[v] \in ValidatorRecords
    BY DEF TypeOK
  <2>2. validators' = [v \in Accounts |-> KeptRecord(validators[v], restarted)]
    BY DEF CloseBlock
  <2>3. ASSUME NEW v \in Accounts
        PROVE  /\ KeptRecord(validators[v], restarted) \in ValidatorRecords
               /\ KeptRecord(validators[v], restarted).status = validators[v].status
               /\ KeptRecord(validators[v], restarted).selfStake
                    = Kept(validators[v].selfStake, restarted)
               /\ KeptRecord(validators[v], restarted).delegatedStake
                    = Kept(validators[v].delegatedStake, restarted)
               /\ KeptRecord(validators[v], restarted).totalStake
                    = Kept(validators[v].totalStake, restarted)
    BY <2>1, KeptRecordTypes
  <2> QED BY <2>2, <2>3
<1>8. TypeOK'
  BY <1>1, <1>2, <1>3, <1>4, <1>5, <1>6, <1>7 DEF CloseBlock, TypeOK
<1>9. RecordsAgreeWithBooks'
  <2> SUFFICES ASSUME NEW v \in Accounts
               PROVE  /\ v \notin spoilt' => RecordAgrees(v)'
                      /\ validators'[v].status = "unregistered"
                           => \A d \in Accounts : delegations'[v][d] = 0
    BY DEF RecordsAgreeWithBooks
  <2>1. \A d \in Accounts : delegations'[v][d] = Kept(delegations[v][d], restarted)
    BY DEF CloseBlock
  <2>2. ASSUME v \notin spoilt' PROVE RecordAgrees(v)'
    <3>1. RecordAgrees(v)
      BY <2>2 DEF CloseBlock, RecordsAgreeWithBooks
    <3>2. /\ validators'[v].selfStake = validators[v].selfStake
          /\ validators'[v].delegatedStake = validators[v].delegatedStake
          /\ validators'[v].totalStake = validators[v].totalStake
          /\ delegations'[v][v] = delegations[v][v]
      BY <1>7, <2>1, <3>1, KeptTypes DEF RecordAgrees
    <3> QED BY <1>7, <3>1, <3>2 DEF RecordAgrees
  <2>3. ASSUME validators'[v].status = "unregistered", NEW d \in Accounts
        PROVE  delegations'[v][d] = 0
    <3>1. delegations[v][d] = 0 /\ 0 \in Int
      BY <1>7, <2>3 DEF RecordsAgreeWithBooks
    <3> QED BY <2>1, <3>1, KeptTypes
  <2> QED BY <2>2, <2>3
<1> QED BY <1>8, <1>9

LEMMA StepIndInv == IndInv /\ [Next]_vars => IndInv'
<1> SUFFICES ASSUME TypeOK, RecordsAgreeWithBooks, [Next]_vars
             PROVE  TypeOK' /\ RecordsAgreeWithBooks'
  BY DEF IndInv
<1> USE AccountsAssumption, ParamsAssumption
<1>0. ASSUME UNCHANGED <<delegations, validators, spoilt>> PROVE RecordsAgreeWithBooks'
  BY <1>0, RecordsKept DEF RecordsAgreeWithBooks
<1>1. ASSUME NEW s \in Signers, NEW fee \in Fees, NEW amount \in Amounts,
             NEW to \in Payees, Pay(s, to, amount, fee)
      PROVE  TypeOK' /\ RecordsAgreeWithBooks'
  <2>1. amount \in Nat /\ Number(amount) = amount /\ Number(amount) \in Nat
    BY <1>1, AmountTypes, NumberTypes DEF Pay
  <2>2. to \in Accounts /\ CanSpend(s, fee, amount) /\ Commit(s, fee)
    BY <1>1 DEF Pay
  <2>3. balances' \in [Accounts -> Nat]
    <3> DEFINE paid == [balances EXCEPT ![s] = @ - fee - amount]
    <3>1. paid \in [Accounts -> Nat]
      BY <2>1, <2>2, CommitTypes DEF TypeOK
    <3>2. balances' = [paid EXCEPT ![to] = @ + amount]
      BY <1>1 DEF Pay
    <3> HIDE DEF paid
    <3> QED BY <2>1, <2>2, <3>1, <3>2
  <2>4. UNCHANGED <<delegations, validators, rewardAccounts, pendingWithdrawals, spoilt>>
    BY <1>1 DEF Pay
  <2> QED BY <1>0, <2>1, <2>2, <2>3, <2>4, CommitTypes DEF TypeOK
<1>2. ASSUME NEW s \in Signers, NEW fee \in Fees, NEW amount \in Amounts,
             NEW rate \in CommissionRates, RegisterValidator(s, amount, rate, fee)
      PROVE  TypeOK' /\ RecordsAgreeWithBooks'
  BY <1>2, RegisterIndInv
<1>3. ASSUME NEW s \in Signers, NEW fee \in Fees, NEW amount \in Amounts,
             NEW v \in Accounts, Delegate(s, v, amount, fee)
      PROVE  TypeOK' /\ RecordsAgreeWithBooks'
  BY <1>3, DelegateIndInv
<1>4. ASSUME NEW s \in Signers, NEW fee \in Fees, NEW amount \in Amounts,
             NEW v \in Accounts, Undelegate(s, v, amount, fee)
      PROVE  TypeOK' /\ RecordsAgreeWithBooks'
  BY <1>4, UndelegateIndInv
<1>5. ASSUME NEW s \in Signers, NEW fee \in Fees, ClaimRewards(s, fee)
      PROVE  TypeOK' /\ RecordsAgreeWithBooks'
  <2>1. Number(0) \in Nat /\ Number(0) = 0 /\ CanSpend(s, fee, 0) /\ Commit(s, fee)
    BY <1>5, NumberTypes DEF ClaimRewards
  <2>2. Number(rewardAccounts[s]) \in Nat
    <3>1. rewardAccounts[s] \in Maybe(Int) /\ Number(rewardAccounts[s]) > 0
      BY <1>5 DEF TypeOK, ClaimRewards
    <3> QED BY <3>1, NumberTypes
  <2>3. balances[s] - fee \in Nat /\ balances[s] \in Nat /\ fee \in Nat
    BY <2>1, CommitTypes DEF TypeOK
  <2>4. balances' \in [Accounts -> Nat] /\ rewardAccounts' \in [Accounts -> Maybe(Int)]
    <3>1. 0 \in Maybe(Int)
      BY DEF Maybe
    <3> QED BY <1>5, <2>2, <2>3, <3>1 DEF ClaimRewards, TypeOK
  <2>5. UNCHANGED <<delegations, validators, pendingWithdrawals, spoilt>>
    BY <1>5 DEF ClaimRewards
  <2> QED BY <1>0, <2>1, <2>4, <2>5, CommitTypes DEF TypeOK
<1>6. ASSUME NEW restarted \in BOOLEAN, CloseBlock(restarted)
      PROVE  TypeOK' /\ RecordsAgreeWithBooks'
  BY <1>6, CloseBlockIndInv
<1>7. CASE UNCHANGED vars
  BY <1>0, <1>7 DEF vars, TypeOK
<1> QED BY <1>1, <1>2, <1>3, <1>4, <1>5, <1>6, <1>7 DEF Next, SomeTransaction

(***************************************************************************)
(* The state keeps its types: balances and withdrawals are natural numbers *)
(* whatever amounts and commission rates transactions name, for any number *)
(* of accounts and any order of transactions and restarts.                 *)
(***************************************************************************)
THEOREM StakingTypeCorrect == Spec => []TypeOK
<1>1. Spec => []IndInv
  BY InitIndInv, StepIndInv, PTL DEF Spec
<1> QED BY <1>1, PTL DEF IndInv

(***************************************************************************)
(* The cached stake of every validator record agrees with the delegation   *)
(* books, unless its stake took an amount that is no number since it       *)
(* registered.                                                             *)
(***************************************************************************)
THEOREM StakingRecordsAgree == Spec => []RecordsAgreeWithBooks
<1>1. Spec => []IndInv
  BY InitIndInv, StepIndInv, PTL DEF Spec
<1> QED BY <1>1, PTL DEF IndInv

-----------------------------------------------------------------------------
(* Conservation: how each transaction and the end of a block move the sums   *)
(* over balances, books, rewards and unbonding withdrawals, and what that    *)
(* says about the supply and about each account's holdings.                  *)

\* One account's liquid balance moves by x.
BalanceMoved(a, x) ==
  \A b \in Accounts : balances'[b] = IF b = a THEN balances[b] + x ELSE balances[b]

\* What the entries of the books, and the reward accounts, count for.
Books == [v \in Accounts |-> [d \in Accounts |-> Number(delegations[v][d])]]
Rewards == [a \in Accounts |-> Number(rewardAccounts[a])]

\* One entry of the delegation books moves by x.
BookMoved(v, d, x) ==
  \A k, l \in Accounts :
    Books'[k][l] = IF k = v /\ l = d THEN Books[k][l] + x ELSE Books[k][l]

\* One entry of the queue moves by x.
QueueMoved(a, u, x) ==
  \A k \in Accounts, l \in UnlockHeights :
    pendingWithdrawals'[k][l] =
      IF k = a /\ l = u THEN pendingWithdrawals[k][l] + x ELSE pendingWithdrawals[k][l]

SumTypes ==
  /\ SumTo(balances, NumAccounts) \in Int
  /\ Unclaimed \in Int
  /\ Staked \in Int /\ Unbonding \in Int
  /\ burned \in Int /\ blockFees \in Int
  /\ \A a \in Accounts : balances[a] \in Int /\ PendingTotal(a) \in Nat
                          /\ StakeOf(a) \in Nat /\ BookTotal(a) \in Nat
  /\ Supply \in Int
  /\ \A a \in Accounts : Holdings(a) \in Int

LEMMA BooksTypes ==
  TypeOK => /\ \A v, d \in Accounts : /\ Books[v][d] \in Nat
                                       /\ Books[v][d] = Number(delegations[v][d])
            /\ \A a \in Accounts : Rewards[a] \in Int /\ Rewards[a] = Number(rewardAccounts[a])
<1> SUFFICES ASSUME TypeOK
             PROVE  /\ \A v, d \in Accounts : Number(delegations[v][d]) \in Nat
                    /\ \A a \in Accounts : Number(rewardAccounts[a]) \in Int
  BY DEF Books, Rewards
<1>1. \A v, d \in Accounts : delegations[v][d] \in Maybe(Nat)
  BY DEF TypeOK
<1>2. \A a \in Accounts : rewardAccounts[a] \in Maybe(Int)
  BY DEF TypeOK
<1> QED BY <1>1, <1>2, NumberTypes

LEMMA BookTotals ==
  ASSUME NEW v \in Accounts
  PROVE  BookTotal(v) = SumTo(Books[v], NumAccounts)
  BY DEF BookTotal, Books

LEMMA SumsAreInts == TypeOK => SumTypes
<1> SUFFICES ASSUME TypeOK PROVE SumTypes
  OBVIOUS
<1> USE AccountsAssumption, ParamsAssumption DEF Accounts
<1>1. NumAccounts \in Nat /\ MaxHeight + UnbondingPeriod \in Nat
  OBVIOUS
<1>2. SumTo(balances, NumAccounts) \in Int
  <2>1. \A k \in 1 .. NumAccounts : balances[k] \in Int
    BY DEF TypeOK
  <2> QED BY <1>1, <2>1, SumInt
<1>3. Unclaimed \in Int
  <2> DEFINE w == Rewards
  <2>1. \A k \in 1 .. NumAccounts : w[k] \in Int
    BY BooksTypes
  <2> HIDE DEF w
  <2>2. SumTo(w, NumAccounts) \in Int
    BY <1>1, <2>1, SumInt
  <2> QED BY <2>2 DEF Unclaimed, Rewards, w
<1>4. ASSUME NEW a \in Accounts PROVE BookTotal(a) \in Nat
  <2> DEFINE w == Books[a]
  <2>1. \A k \in 1 .. NumAccounts : w[k] \in Nat
    <3> HIDE AccountsAssumption, ParamsAssumption
    <3> QED BY BooksTypes
  <2> HIDE DEF w
  <2>2. SumTo(w, NumAccounts) \in Nat
    BY <1>1, <2>1, SumNat
  <2> QED BY <2>2, BookTotals DEF w
<1>5. ASSUME NEW a \in Accounts PROVE PendingTotal(a) \in Nat
  <2> DEFINE w == pendingWithdrawals[a]
             n == MaxHeight + UnbondingPeriod
  <2>1. w \in [1 .. n -> Nat]
    BY DEF TypeOK, UnlockHeights
  <2>2. n \in Nat
    BY <1>1
  <2> HIDE DEF w, n
  <2>3. \A k \in 1 .. n : w[k] \in Nat
    BY <2>1
  <2>4. SumTo(w, n) \in Nat
    BY <2>2, <2>3, SumNat
  <2> QED BY <2>4 DEF PendingTotal, w, n
<1>6. ASSUME NEW a \in Accounts PROVE StakeOf(a) \in Nat
  <2> DEFINE w == [v \in Accounts |-> Number(delegations[v][a])]
  <2>1. \A k \in 1 .. NumAccounts : w[k] \in Nat
    <3> HIDE AccountsAssumption, ParamsAssumption
    <3> QED BY BooksTypes
  <2> HIDE DEF w
  <2>2. SumTo(w, NumAccounts) \in Nat
    BY <1>1, <2>1, SumNat
  <2> QED BY <2>2 DEF StakeOf, w
<1>7. Staked \in Int
  <2> DEFINE w == [v \in Accounts |-> BookTotal(v)]
  <2>1. \A k \in 1 .. NumAccounts : w[k] \in Int
    BY <1>4
  <2> HIDE DEF w
  <2>2. SumTo(w, NumAccounts) \in Int
    BY <1>1, <2>1, SumInt
  <2> QED BY <2>2 DEF Staked, w
<1>8. Unbonding \in Int
  <2> DEFINE w == [a \in Accounts |-> PendingTotal(a)]
  <2>1. \A k \in 1 .. NumAccounts : w[k] \in Int
    BY <1>5
  <2> HIDE DEF w
  <2>2. SumTo(w, NumAccounts) \in Int
    BY <1>1, <2>1, SumInt
  <2> QED BY <2>2 DEF Unbonding, w
<1>9. burned \in Int /\ blockFees \in Int /\ \A a \in Accounts : balances[a] \in Int
  BY DEF TypeOK
<1>10. Supply \in Int
  <2> HIDE AccountsAssumption, ParamsAssumption
  <2> QED BY <1>2, <1>3, <1>7, <1>8, <1>9 DEF Supply
<1>11. ASSUME NEW a \in Accounts PROVE Holdings(a) \in Int
  <2> HIDE AccountsAssumption, ParamsAssumption
  <2>1. balances[a] \in Int
    BY <1>9
  <2>2. PendingTotal(a) \in Nat
    BY <1>5
  <2>3. StakeOf(a) \in Nat
    BY <1>6
  <2> QED BY <2>1, <2>2, <2>3 DEF Holdings
<1> QED BY <1>2, <1>3, <1>4, <1>5, <1>6, <1>7, <1>8, <1>9, <1>10, <1>11 DEF SumTypes

LEMMA SumsAreIntsNext == TypeOK' => SumTypes'
  BY SumsAreInts, PTL

LEMMA BalanceSum ==
  ASSUME TypeOK, NEW a \in Accounts, NEW x \in Int, BalanceMoved(a, x)
  PROVE  SumTo(balances', NumAccounts) = SumTo(balances, NumAccounts) + x
<1> DEFINE v == balances
           w == balances'
<1>1. NumAccounts \in Nat /\ Accounts = 1 .. NumAccounts
  BY AccountsAssumption DEF Accounts
<1>2. \A k \in Accounts : v[k] \in Int
  BY DEF TypeOK
<1>3. \A k \in Accounts : w[k] = IF k = a THEN v[k] + x ELSE v[k]
  BY DEF BalanceMoved
<1> HIDE DEF v, w
<1>4. SumTo(w, NumAccounts) = SumTo(v, NumAccounts) + x
  BY <1>1, <1>2, <1>3, SumShift
<1> QED BY <1>4 DEF v, w

LEMMA BookSums ==
  ASSUME TypeOK, NEW v \in Accounts, NEW d \in Accounts, NEW x \in Int, BookMoved(v, d, x)
  PROVE  /\ BookTotal(v)' = BookTotal(v) + x
         /\ \A o \in Accounts : o # v => BookTotal(o)' = BookTotal(o)
         /\ Staked' = Staked + x
<1> DEFINE n == NumAccounts
           A == Books
           B == Books'
<1>0. n \in Nat /\ v \in 1 .. n /\ d \in 1 .. n
  BY AccountsAssumption DEF Accounts
<1>1. EntryShifted(A, B, n, n, v, d, x)
  <2> SUFFICES ASSUME NEW k \in Accounts, NEW l \in Accounts
               PROVE  /\ A[k][l] \in Int
                      /\ B[k][l] = IF k = v /\ l = d THEN A[k][l] + x ELSE A[k][l]
    BY DEF Accounts, EntryShifted
  <2>1. A[k][l] \in Nat
    BY BooksTypes
  <2>2. B[k][l] = IF k = v /\ l = d THEN A[k][l] + x ELSE A[k][l]
    BY DEF BookMoved
  <2> QED BY <2>1, <2>2
<1> HIDE DEF n, A, B
<1>2. /\ SumTo(B[v], n) = SumTo(A[v], n) + x
      /\ \A k \in 1 .. n : k # v => SumTo(B[k], n) = SumTo(A[k], n)
      /\ GrandTotal(B, n, n) = GrandTotal(A, n, n) + x
  BY <1>0, <1>1, SumRows
<1>3. \A o \in Accounts : /\ BookTotal(o) = SumTo(A[o], n)
                         /\ BookTotal(o)' = SumTo(B[o], n)
  BY DEF BookTotal, Books, n, A, B
<1>4. Staked = GrandTotal(A, n, n) /\ Staked' = GrandTotal(B, n, n)
  <2>1. Staked = SumTo([o \in Accounts |-> BookTotal(o)], NumAccounts)
    BY DEF Staked
  <2>2. Staked' = SumTo([o \in Accounts |-> BookTotal(o)'], NumAccounts)
    BY DEF Staked
  <2>3. /\ [o \in Accounts |-> BookTotal(o)] = [o \in 1 .. n |-> SumTo(A[o], n)]
        /\ [o \in Accounts |-> BookTotal(o)'] = [o \in 1 .. n |-> SumTo(B[o], n)]
    BY <1>3 DEF Accounts, n
  <2> QED BY <2>1, <2>2, <2>3 DEF GrandTotal, n
<1>5. v \in 1 .. n /\ Accounts = 1 .. n
  BY <1>0 DEF Accounts, n
<1> QED BY <1>2, <1>3, <1>4, <1>5

LEMMA QueueSums ==
  ASSUME TypeOK, NEW a \in Accounts, NEW u \in UnlockHeights, NEW x \in Int,
         QueueMoved(a, u, x)
  PROVE  /\ PendingTotal(a)' = PendingTotal(a) + x
         /\ \A o \in Accounts : o # a => PendingTotal(o)' = PendingTotal(o)
         /\ Unbonding' = Unbonding + x
<1> DEFINE n == NumAccounts
           m == MaxHeight + UnbondingPeriod
           A == pendingWithdrawals
           B == pendingWithdrawals'
<1>1. n \in Nat /\ m \in Nat /\ a \in 1 .. n /\ u \in 1 .. m
  <2>1. NumAccounts \in Nat
    BY AccountsAssumption
  <2>2. MaxHeight \in Nat /\ UnbondingPeriod \in Nat
    BY ParamsAssumption
  <2> QED BY <2>1, <2>2 DEF Accounts, UnlockHeights
<1>2. EntryShifted(A, B, n, m, a, u, x)
  <2> SUFFICES ASSUME NEW k \in Accounts, NEW l \in UnlockHeights
               PROVE  /\ A[k][l] \in Int
                      /\ B[k][l] = IF k = a /\ l = u THEN A[k][l] + x ELSE A[k][l]
    BY DEF Accounts, UnlockHeights, EntryShifted
  <2>1. A[k][l] \in Nat
    BY DEF TypeOK
  <2>2. B[k][l] = IF k = a /\ l = u THEN A[k][l] + x ELSE A[k][l]
    BY DEF QueueMoved
  <2> QED BY <2>1, <2>2
<1> HIDE DEF n, m, A, B
<1>3. /\ SumTo(B[a], m) = SumTo(A[a], m) + x
      /\ \A k \in 1 .. n : k # a => SumTo(B[k], m) = SumTo(A[k], m)
      /\ GrandTotal(B, n, m) = GrandTotal(A, n, m) + x
  BY <1>1, <1>2, SumRows
<1>4. PendingTotal(a)' = PendingTotal(a) + x
  BY <1>3 DEF PendingTotal, m, A, B
<1>5. \A o \in Accounts : o # a => PendingTotal(o)' = PendingTotal(o)
  BY <1>3 DEF PendingTotal, n, m, A, B, Accounts
<1>6. Unbonding' = Unbonding + x
  BY <1>3 DEF PendingTotal, Unbonding, GrandTotal, n, m, A, B, Accounts
<1> QED BY <1>4, <1>5, <1>6

-----------------------------------------------------------------------------
\* What the end of a block releases to an account leaves its queue.
LEMMA CloseBlockQueue ==
  ASSUME TypeOK, NEW restarted \in BOOLEAN, CloseBlock(restarted), NEW a \in Accounts
  PROVE  PendingTotal(a) = PendingTotal(a)' + Released(a)
<1> DEFINE n == MaxHeight + UnbondingPeriod
           w == pendingWithdrawals[a]
           u == pendingWithdrawals'[a]
           r == [k \in UnlockHeights |-> IF Matured(k) THEN pendingWithdrawals[a][k] ELSE 0]
<1>1. n \in Nat /\ UnlockHeights = 1 .. n
  BY ParamsAssumption DEF UnlockHeights
<1>2. \A k \in 1 .. n : u[k] \in Int /\ r[k] \in Int /\ w[k] = u[k] + r[k]
  <2> SUFFICES ASSUME NEW k \in UnlockHeights
               PROVE  u[k] \in Int /\ r[k] \in Int /\ w[k] = u[k] + r[k]
    BY <1>1
  <2>1. w[k] \in Nat
    BY DEF TypeOK
  <2>2. u[k] = IF Matured(k) THEN 0 ELSE w[k]
    BY DEF CloseBlock
  <2>3. r[k] = IF Matured(k) THEN w[k] ELSE 0
    OBVIOUS
  <2> QED BY <2>1, <2>2, <2>3
<1> HIDE DEF n, w, u, r
<1>3. SumTo(w, n) = SumTo(u, n) + SumTo(r, n)
  BY <1>1, <1>2, SumAdd
<1> QED BY <1>3 DEF PendingTotal, Released, n, w, u, r

\* Summed over the accounts.
ReleasedTotal == SumTo([a \in Accounts |-> Released(a)], NumAccounts)

LEMMA CloseBlockUnbonding ==
  ASSUME TypeOK, TypeOK', NEW restarted \in BOOLEAN, CloseBlock(restarted)
  PROVE  ReleasedTotal \in Int /\ Unbonding = Unbonding' + ReleasedTotal
<1> DEFINE w == [a \in Accounts |-> PendingTotal(a)]
           u == [a \in Accounts |-> PendingTotal(a)']
           r == [a \in Accounts |-> Released(a)]
<1>1. \A k \in Accounts : u[k] \in Int /\ r[k] \in Int /\ w[k] = u[k] + r[k]
  <2> TAKE k \in Accounts
  <2>1. PendingTotal(k)' \in Nat
    BY SumsAreIntsNext DEF SumTypes
  <2>2. Released(k) \in Int
    BY RewardTypes
  <2> QED BY <2>1, <2>2, CloseBlockQueue
<1>2. NumAccounts \in Nat /\ Accounts = 1 .. NumAccounts
  BY AccountsAssumption DEF Accounts
<1> HIDE DEF w, u, r
<1>3. SumTo(w, NumAccounts) = SumTo(u, NumAccounts) + SumTo(r, NumAccounts)
  BY <1>1, <1>2, SumAdd
<1>4. SumTo(r, NumAccounts) \in Int
  BY <1>1, <1>2, SumInt
<1> QED BY <1>3, <1>4 DEF Unbonding, ReleasedTotal, w, u, r

\* The liquid balances take in what is released and the relayers' subsidy,
\* and the treasury gives the base reward.
LEMMA CloseBlockBalances ==
  ASSUME TypeOK, NEW restarted \in BOOLEAN, CloseBlock(restarted)
  PROVE  SumTo(balances', NumAccounts)
           = SumTo(balances, NumAccounts) + ReleasedTotal - BaseReward + RelayerSubsidy
<1> DEFINE r == [a \in Accounts |-> Released(a)]
           u0 == [a \in Accounts |-> balances[a] + Released(a)]
           u1 == [a \in Accounts |-> IF a = Treasury THEN u0[a] + (0 - BaseReward) ELSE u0[a]]
           u2 == [a \in Accounts |-> IF a = RelayerPool THEN u1[a] + RelayerSubsidy ELSE u1[a]]
           n == NumAccounts
<1>1. n \in Nat /\ Accounts = 1 .. n /\ Treasury \in 1 .. n /\ RelayerPool \in 1 .. n
  BY AccountsAssumption DEF Accounts
<1>2. PICK base, subsidy : base \in Nat /\ subsidy \in Nat
                           /\ base = BaseReward /\ subsidy = RelayerSubsidy
  BY RewardTypes
<1>3. \A k \in Accounts : balances[k] \in Int /\ r[k] \in Int /\ u0[k] = balances[k] + r[k]
  <2> TAKE k \in Accounts
  <2>1. Released(k) \in Int
    BY RewardTypes
  <2>2. balances[k] \in Int
    BY DEF TypeOK
  <2> QED BY <2>1, <2>2
<1>4. \A k \in Accounts : u0[k] \in Int
  BY <1>3
<1>5. \A k \in Accounts : u1[k] = IF k = Treasury THEN u0[k] + (0 - base) ELSE u0[k]
  BY <1>2
<1>6. \A k \in Accounts : u1[k] \in Int
  BY <1>2, <1>4, <1>5
<1>7. \A k \in Accounts : u2[k] = IF k = RelayerPool THEN u1[k] + subsidy ELSE u1[k]
  BY <1>2
<1>8. balances' = u2
  <2>1. ASSUME NEW k \in Accounts PROVE balances'[k] = u2[k]
    <3>1. balances'[k] = balances[k] + Released(k)
                    - (IF k = Treasury THEN BaseReward ELSE 0)
                    + (IF k = RelayerPool THEN RelayerSubsidy ELSE 0)
      BY DEF CloseBlock
    <3>2. u0[k] = balances[k] + Released(k) /\ u0[k] \in Int
      BY <1>4
    <3>3. balances[k] \in Int /\ Released(k) \in Int /\ u1[k] \in Int
      BY <1>6, RewardTypes DEF TypeOK
    <3> HIDE DEF u0, u1, u2
    <3> QED BY <1>2, <1>5, <1>7, <3>1, <3>2, <3>3
  <2>2. balances' = [k \in Accounts |-> balances'[k]]
    BY DEF CloseBlock
  <2> QED BY <2>1, <2>2
<1> HIDE DEF r, u0, u1, u2, n
<1>9. SumTo(u0, n) = SumTo(balances, n) + SumTo(r, n)
  BY <1>1, <1>3, SumAdd
<1>10. SumTo(u1, n) = SumTo(u0, n) + (0 - base)
  <2>1. 0 - base \in Int
    BY <1>2
  <2> QED BY <1>1, <1>4, <1>5, <2>1, SumShift, ZenonT(60)
<1>11. SumTo(u2, n) = SumTo(u1, n) + subsidy
  <2>1. subsidy \in Int
    BY <1>2
  <2> QED BY <1>1, <1>6, <1>7, <2>1, SumShift, ZenonT(60)
<1>12. SumTo(balances, n) \in Int /\ SumTo(r, n) \in Int /\ SumTo(r, n) = ReleasedTotal
  <2>1. SumTo(balances, n) \in Int
    BY SumsAreInts DEF SumTypes, n
  <2>2. SumTo(r, n) \in Int
    BY <1>1, <1>3, SumInt
  <2> QED BY <2>1, <2>2 DEF ReleasedTotal, r, n
<1> QED BY <1>2, <1>8, <1>9, <1>10, <1>11, <1>12 DEF n

\* What an account's rewards count for after the end of a block.
LEMMA RewardsAfter ==
  ASSUME TypeOK, NEW restarted \in BOOLEAN, CloseBlock(restarted), Assigned # NaN,
         NEW a \in Accounts
  PROVE  Number(rewardAccounts'[a])
           = Number(rewardAccounts[a])
             + (Share(a) + (IF a = proposer THEN Commission + (RewardPool - Assigned) ELSE 0))
<1>1. rewardAccounts'[a] = Kept(Rewarded(a), restarted)
  BY DEF CloseBlock
<1>2. Number(rewardAccounts'[a]) = Number(Rewarded(a))
  BY <1>1, KeptTypes
<1>3. /\ Commission \in Nat /\ Share(a) \in Nat /\ Assigned \in Int /\ RewardPool \in Int
      /\ Number(rewardAccounts[a]) \in Int
  BY RewardTypes, BooksTypes
<1>4. /\ Minus(RewardPool, Assigned) = RewardPool - Assigned
      /\ Plus(Commission, RewardPool - Assigned) = Commission + (RewardPool - Assigned)
      /\ Commission + (RewardPool - Assigned) \in Int
  BY <1>3, NumberTypes DEF Plus, Minus
<1>5. \A x, y \in Int : Plus(x, y) = x + y /\ Number(x) = x
  BY NumberTypes DEF Plus
<1> DEFINE more == IF a = proposer THEN Commission + (RewardPool - Assigned) ELSE 0
<1>6. more \in Int /\ Earned(a) = Plus(Share(a), more)
  BY <1>4 DEF Earned
<1> HIDE DEF more
<1>7. Earned(a) = Share(a) + more /\ Share(a) + more \in Int
  <2>1. Share(a) \in Int /\ more \in Int
    BY <1>3, <1>6
  <2>2. Plus(Share(a), more) = Share(a) + more
    BY <1>5, <2>1
  <2> QED BY <1>6, <2>1, <2>2
<1>8. CASE a # proposer /\ delegations[proposer][a] = 0
  <2>1. Share(a) = 0 /\ more = 0
    BY <1>8 DEF Share, more
  <2>2. Rewarded(a) = rewardAccounts[a]
    BY <1>8 DEF Rewarded
  <2> QED BY <1>2, <1>3, <2>1, <2>2 DEF more
<1>9. CASE ~ (a # proposer /\ delegations[proposer][a] = 0)
  <2>1. Rewarded(a) = Plus(Number(rewardAccounts[a]), Earned(a))
    BY <1>9 DEF Rewarded
  <2>2. Rewarded(a) = Number(rewardAccounts[a]) + (Share(a) + more)
    BY <1>3, <1>5, <1>7, <2>1
  <2>3. Number(rewardAccounts[a]) + (Share(a) + more) \in Int
    BY <1>3, <1>7
  <2>4. Number(Rewarded(a)) = Number(rewardAccounts[a]) + (Share(a) + more)
    BY <1>5, <2>2, <2>3
  <2> QED BY <1>2, <2>4 DEF more
<1> QED BY <1>8, <1>9

\* The accounts earn exactly the pool, whatever rounding does to the shares.
LEMMA CloseBlockRewards ==
  ASSUME TypeOK, NEW restarted \in BOOLEAN, CloseBlock(restarted), Assigned # NaN
  PROVE  Unclaimed' = Unclaimed + RewardPool
<1> DEFINE n == NumAccounts
           s == [d \in Accounts |-> Share(d)]
           e == [a \in Accounts |->
                  Share(a) + (IF a = proposer THEN Commission + (RewardPool - Assigned) ELSE 0)]
           r == Rewards
           q == [a \in Accounts |-> Number(rewardAccounts'[a])]
<1>1. n \in Nat /\ Accounts = 1 .. n
  BY AccountsAssumption DEF Accounts
<1>2. PICK x : x \in Int /\ x = Commission + (RewardPool - Assigned)
  BY RewardTypes
<1>3. \A k \in Accounts : s[k] \in Int
  BY RewardTypes
<1>4. \A k \in Accounts : e[k] = IF k = proposer THEN s[k] + x ELSE s[k]
  BY <1>2, <1>3
<1>5. \A k \in Accounts : e[k] \in Int
  BY <1>2, <1>3, <1>4
<1>6. \A k \in Accounts : r[k] \in Int /\ e[k] \in Int /\ q[k] = r[k] + e[k]
  <2> TAKE k \in Accounts
  <2>1. r[k] \in Int /\ r[k] = Number(rewardAccounts[k])
    BY BooksTypes
  <2>2. Number(rewardAccounts'[k])
          = Number(rewardAccounts[k])
            + (Share(k) + (IF k = proposer THEN Commission + (RewardPool - Assigned) ELSE 0))
    BY RewardsAfter
  <2> QED BY <1>5, <2>1, <2>2
<1>7. proposer \in 1 .. n
  BY <1>1 DEF TypeOK
<1>8. SumTo(s, n) = Assigned - Commission
  <2>1. SumTo(s, n) \in Int
    <3> HIDE DEF s, n
    <3> QED BY <1>1, <1>3, SumInt
  <2>2. Commission \in Int /\ Assigned = Commission + SumTo(s, n)
    BY RewardTypes
  <2> HIDE DEF s, n
  <2> QED BY <2>1, <2>2
<1>9. Unclaimed' = SumTo(q, n) /\ Unclaimed = SumTo(r, n)
  BY DEF Unclaimed, Rewards
<1> HIDE DEF n, s, e, r, q
<1>10. SumTo(e, n) = SumTo(s, n) + x
  BY <1>1, <1>2, <1>3, <1>4, <1>7, SumShift
<1>11. SumTo(q, n) = SumTo(r, n) + SumTo(e, n)
  BY <1>1, <1>6, SumAdd
<1>12. /\ Commission \in Int /\ Assigned \in Int /\ RewardPool \in Int /\ Unclaimed \in Int
  BY RewardTypes, SumsAreInts DEF SumTypes
<1> QED BY <1>2, <1>8, <1>9, <1>10, <1>11, <1>12

\* Otherwise the proposer's own account is no number.
LEMMA CloseBlockRewardsLost ==
  ASSUME TypeOK, NEW restarted \in BOOLEAN, CloseBlock(restarted), Assigned = NaN
  PROVE  rewardAccounts'[proposer] \in {NaN, Null}
<1>1. proposer \in Accounts
  BY DEF TypeOK
<1>2. /\ Commission \in Maybe(Int) /\ Share(proposer) \in Maybe(Int)
      /\ RewardPool \in Maybe(Int) /\ NaN \in Maybe(Int)
      /\ Number(rewardAccounts[proposer]) \in Maybe(Int)
  BY <1>1, RewardTypes, BooksTypes DEF Maybe
<1>3. Minus(RewardPool, Assigned) = NaN
  BY <1>2, PlusTypes
<1>4. Plus(Commission, NaN) = NaN /\ Plus(Share(proposer), NaN) = NaN
  BY <1>2, PlusTypes
<1>5. Earned(proposer) = NaN
  BY <1>3, <1>4 DEF Earned
<1>6. Rewarded(proposer) = Plus(Number(rewardAccounts[proposer]), NaN)
  BY <1>5 DEF Rewarded
<1>7. Rewarded(proposer) = NaN
  BY <1>2, <1>6, PlusTypes
<1>8. rewardAccounts'[proposer] = Kept(NaN, restarted)
  BY <1>1, <1>7 DEF CloseBlock
<1> QED BY <1>8, KeptTypes

LEMMA CloseBlockSupply ==
  ASSUME TypeOK, TypeOK', NEW restarted \in BOOLEAN, CloseBlock(restarted)
  PROVE  Supply' = Supply \/ RewardsLost
<1>1. Staked' = Staked
  <2>1. Books' = Books
    <3>1. \A v, d \in Accounts : delegations'[v][d] = Kept(delegations[v][d], restarted)
      BY DEF CloseBlock
    <3>2. \A v, d \in Accounts : Number(delegations'[v][d]) = Number(delegations[v][d])
      BY <3>1, KeptTypes
    <3> QED BY <3>2 DEF Books
  <2>2. \A v \in Accounts : BookTotal(v) = SumTo(Books[v], NumAccounts)
    BY BookTotals
  <2>3. \A v \in Accounts : BookTotal(v)' = SumTo(Books'[v], NumAccounts)
    BY DEF BookTotal, Books
  <2> QED BY <2>1, <2>2, <2>3 DEF Staked
<1>2. burned' = burned + Burn /\ blockFees' = 0 /\ height' = height + 1
  BY DEF CloseBlock
<1>3. /\ BaseReward \in Int /\ Burn \in Int /\ RelayerSubsidy \in Int
      /\ RewardPool = BaseReward + blockFees - Burn - RelayerSubsidy
  BY RewardTypes
<1>4. /\ SumTo(balances, NumAccounts) \in Int /\ Unclaimed \in Int /\ Unclaimed' \in Int
      /\ Staked \in Int /\ Unbonding \in Int /\ Unbonding' \in Int
      /\ burned \in Int /\ blockFees \in Int
  BY SumsAreInts, SumsAreIntsNext DEF SumTypes
<1>5. ReleasedTotal \in Int /\ Unbonding = Unbonding' + ReleasedTotal
  BY CloseBlockUnbonding
<1>6. SumTo(balances', NumAccounts)
        = SumTo(balances, NumAccounts) + ReleasedTotal - BaseReward + RelayerSubsidy
  BY CloseBlockBalances
<1>7. Supply' = SumTo(balances', NumAccounts) + Unclaimed'
                 + Staked' + Unbonding' + burned' + blockFees'
  BY DEF Supply
<1>8. Supply' - Unclaimed' = Supply - Unclaimed - RewardPool
  BY <1>1, <1>2, <1>3, <1>4, <1>5, <1>6, <1>7 DEF Supply
<1>9. CASE Assigned # NaN
  <2>1. Unclaimed' = Unclaimed + RewardPool
    BY <1>9, CloseBlockRewards
  <2>2. Supply' \in Int /\ Supply \in Int /\ RewardPool \in Int
    BY SumsAreInts, SumsAreIntsNext, RewardTypes DEF SumTypes
  <2>3. Unclaimed \in Int /\ Unclaimed' \in Int
    BY <1>4
  <2>4. PICK s \in Int, t \in Int, u \in Int, x \in Int, p \in Int :
          /\ s = Supply /\ t = Supply' /\ u = Unclaimed /\ x = Unclaimed'
          /\ p = RewardPool
    BY <2>2, <2>3
  <2>5. x = u + p
    BY <2>1, <2>4
  <2>6. t - x = s - u - p
    BY <1>8, <2>4
  <2>7. t = s
    BY <2>5, <2>6
  <2> QED BY <2>4, <2>7
<1>10. CASE Assigned = NaN
  <2>1. rewardAccounts'[proposer] \in {NaN, Null}
    BY <1>10, CloseBlockRewardsLost
  <2>2. height' # height
    BY <1>2 DEF TypeOK
  <2> QED BY <1>8, <1>10, <2>1, <2>2 DEF RewardsLost
<1> QED BY <1>9, <1>10

-----------------------------------------------------------------------------
\* The supply after a transaction, from how far each part of it moved.
LEMMA TransactionSupply ==
  ASSUME NEW x, NEW r, NEW y, NEW z, NEW fee,
         TypeOK, x \in Int, r \in Int, y \in Int, z \in Int, fee \in Int,
         SumTo(balances', NumAccounts) = SumTo(balances, NumAccounts) + x,
         Unclaimed' = Unclaimed + r,
         Staked' = Staked + y, Unbonding' = Unbonding + z,
         blockFees' = blockFees + fee, burned' = burned
  PROVE  Supply' = Supply + x + r + y + z + fee
<1>1. /\ SumTo(balances, NumAccounts) \in Int
      /\ Unclaimed \in Int
      /\ Staked \in Int /\ Unbonding \in Int
      /\ burned \in Int /\ blockFees \in Int
  BY SumsAreInts DEF SumTypes
<1> QED BY <1>1 DEF Supply

LEMMA PaySupply ==
  ASSUME TypeOK, TypeOK', NEW s \in Signers, NEW fee \in Fees, NEW amount \in Amounts,
         NEW to \in Payees, Pay(s, to, amount, fee)
  PROVE  /\ Supply' = Supply
         /\ nonces'[s] = nonces[s] + 1
         /\ \A a \in Accounts : a # s => Holdings(a)' >= Holdings(a)
         /\ \A a \in Accounts : PendingTotal(a)' = PendingTotal(a)
<1> DEFINE paid == [b \in Accounts |-> IF b = s THEN balances[b] + (0 - (fee + amount))
                                                ELSE balances[b]]
           n == NumAccounts
<1>1. /\ s \in Accounts /\ to \in Accounts /\ fee \in Int /\ amount \in Int
      /\ amount >= 0 /\ n \in Nat /\ Accounts = 1 .. n
  <2>1. amount \in Int /\ amount >= 0
    BY AmountTypes, NumberTypes DEF Pay
  <2> QED BY <2>1, AccountsAssumption, ParamsAssumption DEF Accounts
<1>2. PICK x, m : x \in Int /\ m \in Int /\ x = 0 - (fee + amount) /\ m = amount
  BY <1>1
<1>3. \A k \in Accounts : balances[k] \in Int
  BY DEF TypeOK
<1>4. \A k \in Accounts : paid[k] = IF k = s THEN balances[k] + x ELSE balances[k]
  BY <1>2
<1>5. \A k \in Accounts : paid[k] \in Int
  BY <1>2, <1>3, <1>4
<1>6. \A k \in Accounts : balances'[k] = IF k = to THEN paid[k] + m ELSE paid[k]
  <2> DEFINE spent == [balances EXCEPT ![s] = @ - fee - amount]
  <2>1. \A k \in Accounts : spent[k] = paid[k]
    <3> TAKE k \in Accounts
    <3>1. spent[k] = IF k = s THEN balances[k] - fee - amount ELSE balances[k]
      BY DEF TypeOK
    <3> HIDE DEF paid, spent
    <3> QED BY <1>1, <1>2, <1>3, <1>4, <3>1
  <2>2. \A k \in Accounts : balances'[k] = IF k = to THEN spent[k] + amount ELSE spent[k]
    BY DEF Pay, TypeOK
  <2> HIDE DEF paid, spent
  <2> QED BY <1>2, <2>1, <2>2
<1> DEFINE after == balances'
<1>17. \A k \in Accounts : after[k] = IF k = to THEN paid[k] + m ELSE paid[k]
  BY <1>6
<1> HIDE DEF paid, n, after
<1>7. SumTo(paid, n) = SumTo(balances, n) + x
  BY <1>1, <1>2, <1>3, <1>4, SumShift
<1>8. SumTo(after, n) = SumTo(paid, n) + m
  <2>1. n \in Nat /\ to \in 1 .. n /\ m \in Int
    BY <1>1, <1>2
  <2>2. /\ \A k \in 1 .. n : paid[k] \in Int
        /\ \A k \in 1 .. n : after[k] = IF k = to THEN paid[k] + m ELSE paid[k]
    BY <1>1, <1>5, <1>17
  <2> QED BY <2>1, <2>2, SumShift
<1>9. SumTo(balances', NumAccounts) = SumTo(balances, NumAccounts) + (0 - fee)
  <2>1. SumTo(balances, n) \in Int
    BY SumsAreInts DEF SumTypes, n
  <2> QED BY <1>1, <1>2, <1>7, <1>8, <2>1 DEF n, after
<1>10. /\ delegations' = delegations /\ pendingWithdrawals' = pendingWithdrawals
       /\ rewardAccounts' = rewardAccounts /\ burned' = burned
       /\ blockFees' = blockFees + fee /\ nonces' = [nonces EXCEPT ![s] = @ + 1]
  BY DEF Pay, Commit
<1>11. /\ Staked' = Staked /\ Unbonding' = Unbonding
       /\ \A a \in Accounts : PendingTotal(a)' = PendingTotal(a) /\ StakeOf(a)' = StakeOf(a)
  BY <1>10 DEF Staked, Unbonding, BookTotal, PendingTotal, StakeOf
<1>12. Supply' = Supply
  <2>1. /\ Unclaimed \in Int /\ Unclaimed' = Unclaimed
        /\ Staked \in Int /\ Unbonding \in Int /\ Supply \in Int
    BY <1>10, SumsAreInts DEF SumTypes, Unclaimed
  <2>2. /\ 0 - fee \in Int /\ 0 \in Int /\ fee \in Int
        /\ Unclaimed' = Unclaimed + 0
        /\ Staked' = Staked + 0 /\ Unbonding' = Unbonding + 0
    BY <1>1, <1>10, <1>11, <2>1
  <2>3. Supply' = Supply + (0 - fee) + 0 + 0 + 0 + fee
    BY <1>9, <1>10, <2>2, TransactionSupply
  <2> QED BY <1>1, <2>1, <2>3
<1>13. ASSUME NEW a \in Accounts, a # s PROVE Holdings(a)' >= Holdings(a)
  <2>1. balances'[a] >= balances[a] /\ balances[a] \in Int /\ balances'[a] \in Int
    BY <1>1, <1>2, <1>3, <1>4, <1>6, <1>13
  <2>2. PendingTotal(a) \in Int /\ StakeOf(a) \in Int
    BY SumsAreInts DEF SumTypes
  <2> QED BY <1>11, <2>1, <2>2 DEF Holdings
<1>14. nonces'[s] = nonces[s] + 1
  BY <1>1, <1>10 DEF TypeOK
<1> QED BY <1>11, <1>12, <1>13, <1>14

\* An account whose balance, queue and book entries stay keeps its holdings.
LEMMA HoldingsKept ==
  ASSUME TypeOK, NEW a \in Accounts,
         balances'[a] = balances[a], PendingTotal(a)' = PendingTotal(a),
         \A v \in Accounts : Books'[v][a] = Books[v][a]
  PROVE  Holdings(a)' >= Holdings(a)
<1>1. StakeOf(a)' = StakeOf(a)
  <2>1. \A v \in Accounts : Number(delegations'[v][a]) = Number(delegations[v][a])
    BY DEF Books
  <2>2. [v \in Accounts |-> Number(delegations'[v][a])]
          = [v \in Accounts |-> Number(delegations[v][a])]
    BY <2>1
  <2> QED BY <2>2 DEF StakeOf
<1>2. Holdings(a) \in Int /\ Holdings(a)' = Holdings(a)
  BY <1>1, SumsAreInts DEF Holdings, SumTypes
<1> QED BY <1>2

Effect(s) ==
  /\ nonces'[s] = nonces[s] + 1
  /\ \A a \in Accounts : a # s => Holdings(a)' >= Holdings(a)
  /\ \A a \in Accounts : PendingTotal(a)' >= PendingTotal(a)

LEMMA RegisterSupply ==
  ASSUME TypeOK, RecordsAgreeWithBooks, NEW s \in Signers, NEW fee \in Fees,
         NEW amount \in Amounts, NEW rate \in CommissionRates,
         RegisterValidator(s, amount, rate, fee)
  PROVE  /\ Supply' = Supply - Number(delegations[s][s])
         /\ Number(delegations[s][s]) # 0 => EntryLost(s, s)
         /\ Effect(s)
<1>1. /\ s \in Accounts /\ fee \in Int /\ Number(amount) \in Int
      /\ Number(delegations[s][s]) \in Nat /\ Books[s][s] = Number(delegations[s][s])
  BY AccountsAssumption, ParamsAssumption, AmountTypes, NumberTypes, BooksTypes
<1>2. PICK x, y : /\ x \in Int /\ x = 0 - fee - Number(amount)
                  /\ y \in Int /\ y = Number(amount) - Books[s][s]
  BY <1>1
<1>3. BalanceMoved(s, x)
  BY <1>1, <1>2 DEF RegisterValidator, BalanceMoved, TypeOK
<1>4. BookMoved(s, s, y)
  <2> SUFFICES ASSUME NEW k \in Accounts, NEW l \in Accounts
               PROVE  Books'[k][l] = IF k = s /\ l = s THEN Books[k][l] + y ELSE Books[k][l]
    BY DEF BookMoved
  <2>1. delegations'[k][l] = IF k = s /\ l = s THEN amount ELSE delegations[k][l]
    BY <1>1 DEF RegisterValidator, TypeOK
  <2>2. Books'[k][l] = Number(delegations'[k][l]) /\ Books[k][l] = Number(delegations[k][l])
    BY DEF Books
  <2>3. CASE k = s /\ l = s
    BY <1>1, <1>2, <2>1, <2>2, <2>3
  <2>4. CASE ~ (k = s /\ l = s)
    BY <2>1, <2>2, <2>4
  <2> QED BY <2>3, <2>4
<1>5. /\ pendingWithdrawals' = pendingWithdrawals /\ rewardAccounts' = rewardAccounts
      /\ blockFees' = blockFees + fee /\ burned' = burned
      /\ nonces' = [nonces EXCEPT ![s] = @ + 1]
  BY DEF RegisterValidator, Commit
<1>6. \A a \in Accounts : PendingTotal(a)' = PendingTotal(a) /\ PendingTotal(a) \in Nat
  BY <1>5, SumsAreInts DEF PendingTotal, SumTypes
<1>7. Supply' = Supply - Number(delegations[s][s])
  <2>1. SumTo(balances', NumAccounts) = SumTo(balances, NumAccounts) + x
    BY <1>1, <1>2, <1>3, BalanceSum
  <2>2. Staked' = Staked + y
    BY <1>1, <1>2, <1>4, BookSums
  <2>3. Supply \in Int /\ Unbonding \in Int /\ Unclaimed \in Int
    BY SumsAreInts DEF SumTypes
  <2>4. Unbonding' = Unbonding + 0
    BY <1>5, <2>3 DEF Unbonding, PendingTotal
  <2>5. Unclaimed' = Unclaimed + 0
    BY <1>5, <2>3 DEF Unclaimed
  <2>6. 0 \in Int
    OBVIOUS
  <2>7. Supply' = Supply + x + 0 + y + 0 + fee
    BY <1>1, <1>2, <1>5, <2>1, <2>2, <2>4, <2>5, <2>6, TransactionSupply
  <2> QED BY <1>1, <1>2, <2>3, <2>7
<1>8. Number(delegations[s][s]) # 0 => EntryLost(s, s)
  <2> SUFFICES ASSUME Number(delegations[s][s]) # 0 PROVE EntryLost(s, s)
    OBVIOUS
  <2>1. validators[s] \in ValidatorRecords /\ validators[s].status # "active"
    BY <1>1 DEF RegisterValidator, TypeOK
  <2>2. validators[s].status \in Statuses
    BY <2>1 DEF ValidatorRecords
  <2>3. validators[s].status # "unregistered"
    BY <1>1, NumberTypes DEF RecordsAgreeWithBooks
  <2>4. validators'[s] = FreshValidator(amount, rate)
    BY <1>1 DEF RegisterValidator, TypeOK
  <2> QED BY <2>1, <2>2, <2>3, <2>4 DEF EntryLost, Statuses, FreshValidator
<1>9. ASSUME NEW a \in Accounts, a # s PROVE Holdings(a)' >= Holdings(a)
  <2>1. balances'[a] = balances[a] /\ \A v \in Accounts : Books'[v][a] = Books[v][a]
    BY <1>3, <1>4, <1>9 DEF BalanceMoved, BookMoved
  <2> QED BY <1>6, <2>1, HoldingsKept
<1> QED BY <1>1, <1>5, <1>6, <1>7, <1>8, <1>9 DEF Effect, TypeOK

\* An entry that an amount is added to, or taken from: what it counts for
\* moves by the amount, or is lost altogether.
LEMMA EntryMoves ==
  ASSUME NEW entry \in Maybe(Nat), NEW amount \in Int \cup {NaN}
  PROVE  /\ Number(entry) \in Nat /\ Number(amount) \in Int
         /\ Number(Plus(Number(entry), amount))
              = IF amount = NaN THEN 0 ELSE Number(entry) + Number(amount)
         /\ Number(Minus(Number(entry), amount))
              = IF amount = NaN THEN 0 ELSE Number(entry) - Number(amount)
         /\ amount = NaN => /\ Plus(Number(entry), amount) = NaN
                            /\ Minus(Number(entry), amount) = NaN
<1>1. /\ Number(entry) \in Nat /\ Number(amount) \in Int
      /\ Number(entry) \in Maybe(Int) /\ amount \in Maybe(Int)
  BY NumberTypes DEF Maybe
<1>2. CASE amount = NaN
  BY <1>1, <1>2, PlusTypes, NumberTypes
<1>3. CASE amount # NaN
  <2>1. /\ Plus(Number(entry), amount) = Number(Number(entry)) + Number(amount)
        /\ Minus(Number(entry), amount) = Number(Number(entry)) - Number(amount)
    BY <1>1, <1>3, PlusTypes, NumberTypes
  <2>2. Number(Number(entry)) = Number(entry)
    BY <1>1, NumberTypes
  <2>3. /\ Number(entry) + Number(amount) \in Int
        /\ Number(entry) - Number(amount) \in Int
    BY <1>1
  <2> QED BY <1>1, <1>3, <2>1, <2>2, <2>3, NumberTypes
<1> QED BY <1>2, <1>3

\* How far delegating, or undelegating, moves the entry.
LEMMA DelegateMoves ==
  ASSUME TypeOK, NEW s \in Signers, NEW fee \in Fees,
         NEW amount \in Amounts, NEW v \in Accounts, Delegate(s, v, amount, fee)
  PROVE  /\ Number(amount) \in Int /\ Number(delegations[v][s]) \in Nat
         /\ \A y : y = (IF amount = NaN THEN 0 - Number(delegations[v][s]) ELSE Number(amount))
              => y \in Int /\ BookMoved(v, s, y)
         /\ amount = NaN => EntryLost(v, s)
<1>1. s \in Accounts /\ amount \in Int \cup {NaN} /\ delegations[v][s] \in Maybe(Nat)
  BY AccountsAssumption, ParamsAssumption DEF TypeOK
<1>2. /\ Number(amount) \in Int /\ Number(delegations[v][s]) \in Nat
      /\ Number(Plus(Number(delegations[v][s]), amount))
           = IF amount = NaN THEN 0 ELSE Number(delegations[v][s]) + Number(amount)
      /\ amount = NaN => Plus(Number(delegations[v][s]), amount) = NaN
  BY <1>1, EntryMoves
<1>3. \A k, l \in Accounts :
        delegations'[k][l] = IF k = v /\ l = s THEN Plus(Number(delegations[v][s]), amount)
                                               ELSE delegations[k][l]
  BY <1>1 DEF Delegate, TypeOK
<1>4. \A k, l \in Accounts : /\ Books'[k][l] = Number(delegations'[k][l])
                             /\ Books[k][l] = Number(delegations[k][l])
  BY DEF Books
<1>5. ASSUME NEW y, y = (IF amount = NaN THEN 0 - Number(delegations[v][s]) ELSE Number(amount))
      PROVE  y \in Int /\ BookMoved(v, s, y)
  <2>1. y \in Int
    BY <1>2, <1>5
  <2>2. Number(delegations[v][s]) + y
          = IF amount = NaN THEN 0 ELSE Number(delegations[v][s]) + Number(amount)
    BY <1>2, <1>5
  <2>3. Number(delegations'[v][s]) = Number(delegations[v][s]) + y
    BY <1>1, <1>2, <1>3, <2>2
  <2> QED BY <1>1, <1>3, <1>4, <2>1, <2>3 DEF BookMoved
<1> QED BY <1>1, <1>2, <1>3, <1>5 DEF EntryLost

LEMMA UndelegateMoves ==
  ASSUME TypeOK, NEW s \in Signers, NEW fee \in Fees,
         NEW amount \in Amounts, NEW v \in Accounts, Undelegate(s, v, amount, fee)
  PROVE  /\ Number(amount) \in Nat /\ Number(delegations[v][s]) \in Nat
         /\ \A y : y = (IF amount = NaN THEN 0 - Number(delegations[v][s])
                                        ELSE 0 - Number(amount))
              => y \in Int /\ BookMoved(v, s, y)
         /\ amount = NaN => EntryLost(v, s)
<1>1. s \in Accounts /\ amount \in Int \cup {NaN} /\ delegations[v][s] \in Maybe(Nat)
  BY AccountsAssumption, ParamsAssumption DEF TypeOK
<1>2. /\ Number(amount) \in Int /\ Number(delegations[v][s]) \in Nat
      /\ Number(Minus(Number(delegations[v][s]), amount))
           = IF amount = NaN THEN 0 ELSE Number(delegations[v][s]) - Number(amount)
      /\ amount = NaN => Minus(Number(delegations[v][s]), amount) = NaN
  BY <1>1, EntryMoves
<1>3. \A k, l \in Accounts :
        delegations'[k][l] = IF k = v /\ l = s THEN Minus(Number(delegations[v][s]), amount)
                                               ELSE delegations[k][l]
  BY <1>1 DEF Undelegate, TypeOK
<1>4. \A k, l \in Accounts : /\ Books'[k][l] = Number(delegations'[k][l])
                             /\ Books[k][l] = Number(delegations[k][l])
  BY DEF Books
<1>5. ASSUME NEW y, y = (IF amount = NaN THEN 0 - Number(delegations[v][s])
                                         ELSE 0 - Number(amount))
      PROVE  y \in Int /\ BookMoved(v, s, y)
  <2>1. y \in Int
    BY <1>2, <1>5
  <2>2. Number(delegations[v][s]) + y
          = IF amount = NaN THEN 0 ELSE Number(delegations[v][s]) - Number(amount)
    BY <1>2, <1>5
  <2>3. Number(delegations'[v][s]) = Number(delegations[v][s]) + y
    BY <1>1, <1>2, <1>3, <2>2
  <2> QED BY <1>1, <1>3, <1>4, <2>1, <2>3 DEF BookMoved
<1>6. Number(amount) \in Nat
  BY AmountTypes DEF Undelegate
<1> QED BY <1>1, <1>2, <1>3, <1>5, <1>6 DEF EntryLost

\* Either nothing is lost, or exactly one entry.
SupplyKept(v, d) ==
  \/ Supply' = Supply
  \/ EntryLost(v, d) /\ Supply' = Supply - Number(delegations[v][d])

LEMMA DelegateSupply ==
  ASSUME TypeOK, NEW s \in Signers, NEW fee \in Fees,
         NEW amount \in Amounts, NEW v \in Accounts, Delegate(s, v, amount, fee)
  PROVE  SupplyKept(v, s) /\ Effect(s)
<1>1. /\ s \in Accounts /\ fee \in Int /\ Number(amount) \in Int
      /\ Number(delegations[v][s]) \in Nat
  BY AccountsAssumption, ParamsAssumption, DelegateMoves
<1>2. PICK x, y : /\ x \in Int /\ x = 0 - fee - Number(amount)
                  /\ y = (IF amount = NaN THEN 0 - Number(delegations[v][s]) ELSE Number(amount))
  BY <1>1
<1>3. BalanceMoved(s, x)
  BY <1>1, <1>2 DEF Delegate, BalanceMoved, TypeOK
<1>4. y \in Int /\ BookMoved(v, s, y)
  BY <1>2, DelegateMoves
<1>5. /\ pendingWithdrawals' = pendingWithdrawals /\ rewardAccounts' = rewardAccounts
      /\ blockFees' = blockFees + fee /\ burned' = burned
      /\ nonces' = [nonces EXCEPT ![s] = @ + 1]
  BY DEF Delegate, Commit
<1>6. \A a \in Accounts : PendingTotal(a)' = PendingTotal(a) /\ PendingTotal(a) \in Nat
  BY <1>5, SumsAreInts DEF PendingTotal, SumTypes
<1>7. SupplyKept(v, s)
  <2>1. SumTo(balances', NumAccounts) = SumTo(balances, NumAccounts) + x
    BY <1>1, <1>2, <1>3, BalanceSum
  <2>2. Staked' = Staked + y
    BY <1>1, <1>4, BookSums
  <2>3. Supply \in Int /\ Unbonding \in Int /\ Unclaimed \in Int
    BY SumsAreInts DEF SumTypes
  <2>4. Unbonding' = Unbonding + 0
    BY <1>5, <2>3 DEF Unbonding, PendingTotal
  <2>5. Unclaimed' = Unclaimed + 0
    BY <1>5, <2>3 DEF Unclaimed
  <2>6. 0 \in Int
    OBVIOUS
  <2>7. Supply' = Supply + x + 0 + y + 0 + fee
    BY <1>1, <1>2, <1>4, <1>5, <2>1, <2>2, <2>4, <2>5, <2>6, TransactionSupply
  <2>8. CASE amount # NaN
    <3>1. Supply' = Supply
      BY <1>1, <1>2, <2>3, <2>7, <2>8
    <3> QED BY <3>1 DEF SupplyKept
  <2>9. CASE amount = NaN
    <3>1. Number(amount) = 0 /\ EntryLost(v, s)
      BY <2>9, NumberTypes, DelegateMoves
    <3>2. Supply' = Supply - Number(delegations[v][s])
      BY <1>1, <1>2, <2>3, <2>7, <2>9, <3>1
    <3> QED BY <3>1, <3>2 DEF SupplyKept
  <2> QED BY <2>8, <2>9
<1>8. ASSUME NEW a \in Accounts, a # s PROVE Holdings(a)' >= Holdings(a)
  <2>1. balances'[a] = balances[a] /\ \A w \in Accounts : Books'[w][a] = Books[w][a]
    BY <1>3, <1>4, <1>8 DEF BalanceMoved, BookMoved
  <2> QED BY <1>6, <2>1, HoldingsKept
<1> QED BY <1>1, <1>5, <1>6, <1>7, <1>8 DEF Effect, TypeOK

LEMMA UndelegateSupply ==
  ASSUME TypeOK, NEW s \in Signers, NEW fee \in Fees,
         NEW amount \in Amounts, NEW v \in Accounts, Undelegate(s, v, amount, fee)
  PROVE  SupplyKept(v, s) /\ Effect(s)
<1>1. /\ s \in Accounts /\ fee \in Int /\ Number(amount) \in Nat
      /\ Number(delegations[v][s]) \in Nat /\ UnlockHeight \in UnlockHeights
  <2>1. Number(0) \in Nat /\ CanSpend(s, fee, 0) /\ Commit(s, fee)
    BY NumberTypes DEF Undelegate
  <2>2. UnlockHeight \in UnlockHeights
    BY <2>1, CommitTypes
  <2> QED BY <2>2, AccountsAssumption, ParamsAssumption, UndelegateMoves
<1>2. PICK x, y, z : /\ x \in Int /\ x = 0 - fee
                     /\ y = (IF amount = NaN THEN 0 - Number(delegations[v][s])
                                             ELSE 0 - Number(amount))
                     /\ z \in Int /\ z = Number(amount)
  BY <1>1
<1>3. BalanceMoved(s, x)
  BY <1>1, <1>2 DEF Undelegate, BalanceMoved, TypeOK
<1>4. y \in Int /\ BookMoved(v, s, y)
  BY <1>2, UndelegateMoves
<1>5. QueueMoved(s, UnlockHeight, z)
  BY <1>1, <1>2 DEF Undelegate, QueueMoved, TypeOK
<1>6. /\ rewardAccounts' = rewardAccounts
      /\ blockFees' = blockFees + fee /\ burned' = burned
      /\ nonces' = [nonces EXCEPT ![s] = @ + 1]
  BY DEF Undelegate, Commit
<1>7. /\ PendingTotal(s)' = PendingTotal(s) + z
      /\ \A a \in Accounts : a # s => PendingTotal(a)' = PendingTotal(a)
      /\ Unbonding' = Unbonding + z
  BY <1>1, <1>2, <1>5, QueueSums
<1>8. SupplyKept(v, s)
  <2>1. SumTo(balances', NumAccounts) = SumTo(balances, NumAccounts) + x
    BY <1>1, <1>2, <1>3, BalanceSum
  <2>2. Staked' = Staked + y
    BY <1>1, <1>4, BookSums
  <2>3. Supply \in Int /\ Unclaimed \in Int
    BY SumsAreInts DEF SumTypes
  <2>4. Unclaimed' = Unclaimed + 0
    BY <1>6, <2>3 DEF Unclaimed
  <2>5. 0 \in Int
    OBVIOUS
  <2>6. Supply' = Supply + x + 0 + y + z + fee
    BY <1>1, <1>2, <1>4, <1>6, <1>7, <2>1, <2>2, <2>4, <2>5, TransactionSupply
  <2>7. CASE amount # NaN
    <3>1. Supply' = Supply
      BY <1>1, <1>2, <2>3, <2>6, <2>7
    <3> QED BY <3>1 DEF SupplyKept
  <2>8. CASE amount = NaN
    <3>1. Number(amount) = 0 /\ EntryLost(v, s)
      BY <2>8, NumberTypes, UndelegateMoves
    <3>2. Supply' = Supply - Number(delegations[v][s])
      BY <1>1, <1>2, <2>3, <2>6, <2>8, <3>1
    <3> QED BY <3>1, <3>2 DEF SupplyKept
  <2> QED BY <2>7, <2>8
<1>9. ASSUME NEW a \in Accounts, a # s PROVE Holdings(a)' >= Holdings(a)
  <2>1. balances'[a] = balances[a] /\ \A w \in Accounts : Books'[w][a] = Books[w][a]
    BY <1>3, <1>4, <1>9 DEF BalanceMoved, BookMoved
  <2> QED BY <1>7, <1>9, <2>1, HoldingsKept
<1>10. \A a \in Accounts : PendingTotal(a)' >= PendingTotal(a)
  <2>1. \A a \in Accounts : PendingTotal(a) \in Nat
    BY SumsAreInts DEF SumTypes
  <2> QED BY <1>1, <1>2, <1>7, <2>1
<1> QED BY <1>1, <1>6, <1>8, <1>9, <1>10 DEF Effect, TypeOK

LEMMA ClaimSupply ==
  ASSUME TypeOK, NEW s \in Signers, NEW fee \in Fees, ClaimRewards(s, fee)
  PROVE  Supply' = Supply /\ Effect(s)
<1>1. /\ s \in Accounts /\ fee \in Int
      /\ Number(rewardAccounts[s]) \in Int /\ Rewards[s] = Number(rewardAccounts[s])
  BY AccountsAssumption, ParamsAssumption, BooksTypes
<1>2. PICK x, y : /\ x \in Int /\ x = Number(rewardAccounts[s]) - fee
                  /\ y \in Int /\ y = 0 - Number(rewardAccounts[s])
  BY <1>1
<1>3. BalanceMoved(s, x)
  BY <1>1, <1>2 DEF ClaimRewards, BalanceMoved, TypeOK
<1>4. Unclaimed' = Unclaimed + y
  <2> DEFINE v == Rewards
             w == Rewards'
             n == NumAccounts
  <2>1. n \in Nat /\ s \in 1 .. n /\ Accounts = 1 .. n
    BY <1>1, AccountsAssumption DEF Accounts
  <2>2. \A k \in Accounts : v[k] \in Int
    BY BooksTypes
  <2>3. \A k \in Accounts : w[k] = IF k = s THEN v[k] + y ELSE v[k]
    <3> TAKE k \in Accounts
    <3>1. rewardAccounts'[k] = IF k = s THEN 0 ELSE rewardAccounts[k]
      BY <1>1 DEF ClaimRewards, TypeOK
    <3>2. w[k] = Number(rewardAccounts'[k]) /\ v[k] = Number(rewardAccounts[k])
      BY DEF Rewards
    <3> HIDE DEF v, w
    <3> QED BY <1>1, <1>2, <3>1, <3>2, NumberTypes
  <2>4. Unclaimed = SumTo(v, n) /\ Unclaimed' = SumTo(w, n)
    BY DEF Unclaimed, Rewards
  <2> HIDE DEF v, w, n
  <2>5. SumTo(w, n) = SumTo(v, n) + y
    BY <1>2, <2>1, <2>2, <2>3, SumShift
  <2> QED BY <2>4, <2>5
<1>5. /\ pendingWithdrawals' = pendingWithdrawals /\ delegations' = delegations
      /\ blockFees' = blockFees + fee /\ burned' = burned
      /\ nonces' = [nonces EXCEPT ![s] = @ + 1]
  BY DEF ClaimRewards, Commit
<1>6. \A a \in Accounts : PendingTotal(a)' = PendingTotal(a) /\ PendingTotal(a) \in Nat
  BY <1>5, SumsAreInts DEF PendingTotal, SumTypes
<1>7. Supply' = Supply
  <2>1. SumTo(balances', NumAccounts) = SumTo(balances, NumAccounts) + x
    BY <1>1, <1>2, <1>3, BalanceSum
  <2>2. Supply \in Int /\ Staked \in Int /\ Unbonding \in Int
    BY SumsAreInts DEF SumTypes
  <2>3. Staked' = Staked + 0 /\ Unbonding' = Unbonding + 0
    BY <1>5, <2>2 DEF Staked, BookTotal, Unbonding, PendingTotal
  <2>4. 0 \in Int
    OBVIOUS
  <2>5. Supply' = Supply + x + y + 0 + 0 + fee
    BY <1>1, <1>2, <1>4, <1>5, <2>1, <2>3, <2>4, TransactionSupply
  <2> QED BY <1>1, <1>2, <2>2, <2>5
<1>8. ASSUME NEW a \in Accounts, a # s PROVE Holdings(a)' >= Holdings(a)
  <2>1. balances'[a] = balances[a] /\ \A v \in Accounts : Books'[v][a] = Books[v][a]
    BY <1>3, <1>5, <1>8 DEF BalanceMoved, Books
  <2> QED BY <1>6, <2>1, HoldingsKept
<1> QED BY <1>1, <1>5, <1>6, <1>7, <1>8 DEF Effect, TypeOK

-----------------------------------------------------------------------------
\* What the end of a block does to one account.
LEMMA CloseBlockAccount ==
  ASSUME TypeOK, TypeOK', NEW restarted \in BOOLEAN, CloseBlock(restarted),
         NEW a \in Accounts, a # Treasury
  PROVE  /\ Holdings(a)' >= Holdings(a)
         /\ a # RelayerPool =>
              balances'[a] - balances[a] = PendingTotal(a) - PendingTotal(a)'
         /\ \A u \in UnlockHeights :
              pendingWithdrawals'[a][u] < pendingWithdrawals[a][u] => u <= height
<1>1. /\ balances[a] \in Int /\ PendingTotal(a) \in Nat /\ PendingTotal(a)' \in Nat
      /\ StakeOf(a) \in Nat
  BY SumsAreInts, SumsAreIntsNext DEF SumTypes
<1>2. Released(a) \in Int /\ RelayerSubsidy \in Nat
  BY RewardTypes
<1>3. PendingTotal(a) = PendingTotal(a)' + Released(a)
  BY CloseBlockQueue
<1>4. balances'[a] = balances[a] + Released(a) + (IF a = RelayerPool THEN RelayerSubsidy ELSE 0)
  <2>1. balances'[a] = balances[a] + Released(a)
                  - (IF a = Treasury THEN BaseReward ELSE 0)
                  + (IF a = RelayerPool THEN RelayerSubsidy ELSE 0)
    BY DEF CloseBlock
  <2> QED BY <1>1, <1>2, <2>1
<1>5. StakeOf(a)' = StakeOf(a)
  <2>1. \A v \in Accounts : delegations'[v][a] = Kept(delegations[v][a], restarted)
    BY DEF CloseBlock
  <2>2. \A v \in Accounts : Number(delegations'[v][a]) = Number(delegations[v][a])
    BY <2>1, KeptTypes
  <2>3. [v \in Accounts |-> Number(delegations'[v][a])]
          = [v \in Accounts |-> Number(delegations[v][a])]
    BY <2>2
  <2> QED BY <2>3 DEF StakeOf
<1>6. Holdings(a)' >= Holdings(a)
  <2>1. CASE a = RelayerPool
    BY <1>1, <1>2, <1>3, <1>4, <1>5, <2>1 DEF Holdings
  <2>2. CASE a # RelayerPool
    BY <1>1, <1>2, <1>3, <1>4, <1>5, <2>2 DEF Holdings
  <2> QED BY <2>1, <2>2
<1>7. a # RelayerPool => balances'[a] - balances[a] = PendingTotal(a) - PendingTotal(a)'
  BY <1>1, <1>2, <1>3, <1>4
<1>8. ASSUME NEW u \in UnlockHeights, pendingWithdrawals'[a][u] < pendingWithdrawals[a][u]
      PROVE  u <= height
  <2>1. pendingWithdrawals'[a][u] = IF Matured(u) THEN 0 ELSE pendingWithdrawals[a][u]
    BY DEF CloseBlock
  <2>2. pendingWithdrawals[a][u] \in Nat
    BY DEF TypeOK
  <2> QED BY <1>8, <2>1, <2>2 DEF Matured
<1> QED BY <1>6, <1>7, <1>8

\* Any transaction, by cases on its type.
LEMMA TransactionEffect ==
  ASSUME TypeOK, TypeOK', RecordsAgreeWithBooks, SomeTransaction
  PROVE  /\ \E v, d \in Accounts : SupplyKept(v, d)
         /\ \E s \in Signers : Effect(s)
<1>0. /\ \A a \in Accounts : PendingTotal(a) \in Nat
      /\ Supply \in Int
      /\ \A s \in Signers : s \in Accounts
  BY SumsAreInts, AccountsAssumption DEF SumTypes
<1>1. ASSUME NEW s \in Signers, NEW fee \in Fees, NEW amount \in Amounts,
             NEW to \in Payees, Pay(s, to, amount, fee)
      PROVE  SupplyKept(s, s) /\ Effect(s)
  BY <1>0, <1>1, PaySupply DEF Effect, SupplyKept
<1>2. ASSUME NEW s \in Signers, NEW fee \in Fees, NEW amount \in Amounts,
             NEW rate \in CommissionRates, RegisterValidator(s, amount, rate, fee)
      PROVE  SupplyKept(s, s) /\ Effect(s)
  <2>1. /\ Supply' = Supply - Number(delegations[s][s])
        /\ Number(delegations[s][s]) # 0 => EntryLost(s, s)
        /\ Effect(s)
    BY <1>2, RegisterSupply
  <2>2. CASE Number(delegations[s][s]) = 0
    BY <1>0, <2>1, <2>2 DEF SupplyKept
  <2>3. CASE Number(delegations[s][s]) # 0
    BY <2>1, <2>3 DEF SupplyKept
  <2> QED BY <2>2, <2>3
<1>3. ASSUME NEW s \in Signers, NEW fee \in Fees, NEW amount \in Amounts,
             NEW v \in Accounts, Delegate(s, v, amount, fee)
      PROVE  SupplyKept(v, s) /\ Effect(s)
  BY <1>3, DelegateSupply
<1>4. ASSUME NEW s \in Signers, NEW fee \in Fees, NEW amount \in Amounts,
             NEW v \in Accounts, Undelegate(s, v, amount, fee)
      PROVE  SupplyKept(v, s) /\ Effect(s)
  BY <1>4, UndelegateSupply
<1>5. ASSUME NEW s \in Signers, NEW fee \in Fees, ClaimRewards(s, fee)
      PROVE  SupplyKept(s, s) /\ Effect(s)
  BY <1>5, ClaimSupply DEF SupplyKept
<1> QED BY <1>0, <1>1, <1>2, <1>3, <1>4, <1>5 DEF SomeTransaction

(***************************************************************************)
(* No transaction and no block changes the supply, but for the stake that  *)
(* a validator had in its own book when it registers again, the one entry  *)
(* that a transaction with an amount that is no number turns into NaN, and *)
(* the rewards of a block that are no numbers.                             *)
(***************************************************************************)
THEOREM StakingSupplyAccounted == Spec => SupplyAccounted
<1> DEFINE Accounted ==
      \/ Supply' = Supply
      \/ \E v, d \in Accounts :
           EntryLost(v, d) /\ Supply' = Supply - Number(delegations[v][d])
      \/ RewardsLost
<1>1. ASSUME TypeOK, TypeOK', RecordsAgreeWithBooks, Next
      PROVE  Accounted
  <2>1. CASE SomeTransaction
    <3>1. PICK v \in Accounts, d \in Accounts : SupplyKept(v, d)
      BY <1>1, <2>1, TransactionEffect
    <3> QED BY <3>1 DEF SupplyKept
  <2>2. ASSUME NEW restarted \in BOOLEAN, CloseBlock(restarted)
        PROVE  Accounted
    BY <1>1, <2>2, CloseBlockSupply
  <2> QED BY <1>1, <2>1, <2>2 DEF Next
<1> HIDE DEF Accounted
<1>2. /\ TypeOK /\ RecordsAgreeWithBooks /\ TypeOK' /\ [Next]_vars => [Accounted]_vars
  BY <1>1
<1>3. Spec => [][Accounted]_vars
  BY <1>2, StakingTypeCorrect, StakingRecordsAgree, PTL DEF Spec
<1> QED BY <1>3 DEF Accounted, SupplyAccounted

(***************************************************************************)
(* Nobody's balance, stake and unbonding withdrawals together shrink but   *)
(* in a transaction of their own; the treasury pays the block rewards.     *)
(***************************************************************************)
THEOREM StakingOnlyOwnTransactionsSpend == Spec => OnlyOwnTransactionsSpend
<1>1. ASSUME TypeOK, TypeOK', RecordsAgreeWithBooks, Next
      PROVE  \A a \in Accounts \ {Treasury} :
               Holdings(a)' < Holdings(a) => nonces'[a] = nonces[a] + 1
  <2> SUFFICES ASSUME NEW a \in Accounts, a # Treasury, Holdings(a)' < Holdings(a)
               PROVE  nonces'[a] = nonces[a] + 1
    OBVIOUS
  <2>1. Holdings(a) \in Int /\ Holdings(a)' \in Int
    BY <1>1, SumsAreInts, SumsAreIntsNext DEF SumTypes
  <2>2. ASSUME NEW restarted \in BOOLEAN, CloseBlock(restarted)
        PROVE  nonces'[a] = nonces[a] + 1
    <3>1. Holdings(a)' >= Holdings(a)
      BY <1>1, <2>2, CloseBlockAccount
    <3> QED BY <2>1, <3>1
  <2>3. CASE SomeTransaction
    <3>1. PICK s \in Signers : Effect(s)
      BY <1>1, <2>3, TransactionEffect
    <3>2. CASE a = s
      BY <3>1, <3>2 DEF Effect
    <3>3. CASE a # s
      <4>1. Holdings(a)' >= Holdings(a)
        BY <3>1, <3>3 DEF Effect
      <4> QED BY <2>1, <4>1
    <3> QED BY <3>2, <3>3
  <2> QED BY <1>1, <2>2, <2>3 DEF Next
<1>2. TypeOK /\ RecordsAgreeWithBooks /\ TypeOK' /\ [Next]_vars
      => [\A a \in Accounts \ {Treasury} :
            Holdings(a)' < Holdings(a) => nonces'[a] = nonces[a] + 1]_vars
  BY <1>1
<1> QED BY <1>2, StakingTypeCorrect, StakingRecordsAgree, PTL DEF Spec, OnlyOwnTransactionsSpend

(***************************************************************************)
(* What leaves an account's withdrawal queue was due, and arrives in its   *)
(* liquid balance in the same step.                                        *)
(***************************************************************************)
THEOREM StakingWithdrawalsPaidInFull == Spec => WithdrawalsPaidInFull
<1> DEFINE Paid ==
      \A a \in Accounts \ {Treasury, RelayerPool} :
        PendingTotal(a)' < PendingTotal(a) =>
          /\ balances'[a] - balances[a] = PendingTotal(a) - PendingTotal(a)'
          /\ \A u \in UnlockHeights :
               pendingWithdrawals'[a][u] < pendingWithdrawals[a][u] => u <= height
<1>1. ASSUME TypeOK, TypeOK', RecordsAgreeWithBooks, Next
      PROVE  Paid
  <2> SUFFICES ASSUME NEW a \in Accounts, a # Treasury, a # RelayerPool,
                      PendingTotal(a)' < PendingTotal(a)
               PROVE  /\ balances'[a] - balances[a] = PendingTotal(a) - PendingTotal(a)'
                      /\ \A u \in UnlockHeights :
                           pendingWithdrawals'[a][u] < pendingWithdrawals[a][u] => u <= height
    OBVIOUS
  <2>1. PendingTotal(a) \in Nat /\ PendingTotal(a)' \in Nat
    BY <1>1, SumsAreInts, SumsAreIntsNext DEF SumTypes
  <2>2. ASSUME NEW restarted \in BOOLEAN, CloseBlock(restarted)
        PROVE  /\ balances'[a] - balances[a] = PendingTotal(a) - PendingTotal(a)'
               /\ \A u \in UnlockHeights :
                    pendingWithdrawals'[a][u] < pendingWithdrawals[a][u] => u <= height
    BY <1>1, <2>2, CloseBlockAccount
  <2>3. CASE SomeTransaction
    <3>1. PendingTotal(a)' >= PendingTotal(a)
      BY <1>1, <2>3, TransactionEffect DEF Effect
    <3> QED BY <2>1, <3>1
  <2> QED BY <1>1, <2>2, <2>3 DEF Next
<1> HIDE DEF Paid
<1>2. TypeOK /\ RecordsAgreeWithBooks /\ TypeOK' /\ [Next]_vars => [Paid]_vars
  BY <1>1
<1>3. Spec => [][Paid]_vars
  BY <1>2, StakingTypeCorrect, StakingRecordsAgree, PTL DEF Spec
<1> QED BY <1>3 DEF Paid, WithdrawalsPaidInFull

-----------------------------------------------------------------------------
\* What a sum counts for: nothing once a NaN is in it.
LEMMA PlusCounts ==
  ASSUME NEW x \in Maybe(Int), NEW y \in Maybe(Int)
  PROVE  /\ y = NaN => Number(Plus(x, y)) = 0
         /\ Number(Plus(x, y)) = 0 \/ Number(Plus(x, y)) = Number(x) + Number(y)
<1>1. Number(x) + Number(y) \in Int
  <2>1. Number(x) \in Int /\ Number(y) \in Int
    BY NumberTypes
  <2> QED BY <2>1
<1>2. CASE x = NaN \/ y = NaN
  BY <1>2, PlusTypes, NumberTypes
<1>3. CASE x # NaN /\ y # NaN
  <2>1. Plus(x, y) = Number(x) + Number(y)
    BY <1>3, PlusTypes
  <2> QED BY <1>1, <1>3, <2>1, NumberTypes
<1> QED BY <1>2, <1>3

\* A transaction that moves one book entry: the total of that record counts for
\* nothing any more, or moves alike.
LEMMA WeightMoves ==
  ASSUME TypeOK, TypeOK', WeightIsBacked, NEW v \in Accounts, NEW d \in Accounts, NEW y \in Int,
         BookMoved(v, d, y),
         \/ Number(validators'[v].totalStake) = 0
         \/ Number(validators'[v].totalStake) = Number(validators[v].totalStake) + y,
         \A o \in Accounts : o # v => validators'[o] = validators[o]
  PROVE  WeightIsBacked'
<1> SUFFICES ASSUME NEW o \in Accounts
             PROVE  Number(validators'[o].totalStake) <= BookTotal(o)'
  BY DEF WeightIsBacked
<1>1. /\ BookTotal(v)' = BookTotal(v) + y
      /\ o # v => BookTotal(o)' = BookTotal(o)
  BY BookSums
<1>2. BookTotal(o) \in Int /\ BookTotal(v) \in Int /\ BookTotal(v)' \in Nat
  BY SumsAreInts, SumsAreIntsNext DEF SumTypes
<1>3. Number(validators[v].totalStake) \in Int
  <2>1. validators[v] \in ValidatorRecords
    BY DEF TypeOK
  <2> QED BY <2>1, RecordTypesOf, NumberTypes DEF RecordTypes
<1>4. /\ Number(validators[v].totalStake) <= BookTotal(v)
      /\ Number(validators[o].totalStake) <= BookTotal(o)
  BY DEF WeightIsBacked
<1>5. Number(validators'[v].totalStake) \in Int
  <2>1. Number(validators[v].totalStake) + y \in Int
    BY <1>3
  <2> QED BY <2>1
<1>6. CASE o # v
  BY <1>1, <1>4, <1>6
<1>7. CASE o = v
  <2>1. PICK b \in Int, c \in Int, t \in Int, u \in Int :
          /\ b = BookTotal(v) /\ c = BookTotal(v)' /\ t = Number(validators[v].totalStake)
          /\ u = Number(validators'[v].totalStake)
    BY <1>2, <1>3, <1>5
  <2>2. c = b + y /\ c >= 0 /\ t <= b /\ (u = 0 \/ u = t + y)
    BY <1>1, <1>2, <1>4, <2>1
  <2>3. u <= c
    BY <2>1, <2>2
  <2> QED BY <1>7, <2>1, <2>3
<1> QED BY <1>6, <1>7

LEMMA RegisterWeight ==
  ASSUME TypeOK, TypeOK', WeightIsBacked, NEW s \in Signers, NEW fee \in Fees,
         NEW amount \in Amounts, NEW rate \in CommissionRates,
         RegisterValidator(s, amount, rate, fee)
  PROVE  WeightIsBacked'
<1>1. /\ s \in Accounts
      /\ \A k \in Accounts : Books'[s][k] \in Nat
  <2>1. \A k \in Accounts : delegations'[s][k] \in Maybe(Nat)
    BY AccountsAssumption DEF TypeOK
  <2> QED BY <2>1, AccountsAssumption, NumberTypes DEF Books
<1>2. Number(validators'[s].totalStake) = Books'[s][s]
  <2>1. validators'[s].totalStake = amount /\ delegations'[s][s] = amount
    BY <1>1 DEF RegisterValidator, FreshValidator, TypeOK
  <2> QED BY <1>1, <2>1 DEF Books
<1>3. Books'[s][s] <= BookTotal(s)'
  <2> DEFINE w == Books'[s]
  <2>1. NumAccounts \in Nat /\ Accounts = 1 .. NumAccounts
    BY AccountsAssumption DEF Accounts
  <2>2. \A k \in Accounts : w[k] \in Nat
    BY <1>1
  <2>3. BookTotal(s)' = SumTo(w, NumAccounts)
    BY <1>1 DEF BookTotal, Books
  <2> HIDE DEF w
  <2>4. w[s] <= SumTo(w, NumAccounts)
    BY <1>1, <2>1, <2>2, SumEntry
  <2> QED BY <2>3, <2>4 DEF w
<1>4. ASSUME NEW o \in Accounts, o # s
      PROVE  validators'[o] = validators[o] /\ BookTotal(o)' = BookTotal(o)
  <2>1. validators'[o] = validators[o] /\ delegations'[o] = delegations[o]
    BY <1>4 DEF RegisterValidator, TypeOK
  <2> QED BY <2>1 DEF BookTotal
<1>5. ASSUME NEW o \in Accounts PROVE Number(validators'[o].totalStake) <= BookTotal(o)'
  <2>1. CASE o = s
    BY <1>2, <1>3, <2>1
  <2>2. CASE o # s
    <3>1. Number(validators[o].totalStake) <= BookTotal(o)
      BY DEF WeightIsBacked
    <3> QED BY <1>4, <2>2, <3>1
  <2> QED BY <2>1, <2>2
<1> QED BY <1>5 DEF WeightIsBacked

\* The end of a block, and a restart, leave books and records what they count for.
LEMMA CloseBlockWeight ==
  ASSUME TypeOK, WeightIsBacked, NEW restarted \in BOOLEAN, CloseBlock(restarted)
  PROVE  WeightIsBacked'
<1> SUFFICES ASSUME NEW o \in Accounts
             PROVE  Number(validators'[o].totalStake) <= BookTotal(o)'
  BY DEF WeightIsBacked
<1>1. Number(validators'[o].totalStake) = Number(validators[o].totalStake)
  <2>1. validators[o] \in ValidatorRecords /\ validators'[o] = KeptRecord(validators[o], restarted)
    BY DEF CloseBlock, TypeOK
  <2>2. validators'[o].totalStake = Kept(validators[o].totalStake, restarted)
    BY <2>1, KeptRecordTypes
  <2> QED BY <2>2, KeptTypes
<1>2. BookTotal(o)' = BookTotal(o)
  <2>1. \A d \in Accounts : delegations'[o][d] = Kept(delegations[o][d], restarted)
    BY DEF CloseBlock
  <2>2. \A d \in Accounts : Number(delegations'[o][d]) = Number(delegations[o][d])
    BY <2>1, KeptTypes
  <2>3. [d \in Accounts |-> Number(delegations'[o][d])]
          = [d \in Accounts |-> Number(delegations[o][d])]
    BY <2>2
  <2> QED BY <2>3 DEF BookTotal
<1>3. Number(validators[o].totalStake) <= BookTotal(o)
  BY DEF WeightIsBacked
<1> QED BY <1>1, <1>2, <1>3

LEMMA StepWeight == TypeOK /\ TypeOK' /\ WeightIsBacked /\ [Next]_vars => WeightIsBacked'
<1> SUFFICES ASSUME TypeOK, TypeOK', WeightIsBacked, [Next]_vars PROVE WeightIsBacked'
  OBVIOUS
<1>1. ASSUME UNCHANGED <<delegations, validators>> PROVE WeightIsBacked'
  BY <1>1 DEF WeightIsBacked, BookTotal
<1>2. ASSUME NEW s \in Signers, NEW fee \in Fees, NEW amount \in Amounts,
             NEW rate \in CommissionRates, RegisterValidator(s, amount, rate, fee)
      PROVE  WeightIsBacked'
  BY <1>2, RegisterWeight
<1>3. ASSUME NEW s \in Signers, NEW fee \in Fees, NEW amount \in Amounts,
             NEW v \in Accounts, Delegate(s, v, amount, fee)
      PROVE  WeightIsBacked'
  <2>1. s \in Accounts /\ amount \in Maybe(Int) /\ Number(amount) \in Int
    BY <1>3, AccountsAssumption, AmountTypes, DelegateMoves
  <2>2. PICK y : y = (IF amount = NaN THEN 0 - Number(delegations[v][s]) ELSE Number(amount))
    OBVIOUS
  <2>3. y \in Int /\ BookMoved(v, s, y)
    BY <1>3, <2>2, DelegateMoves
  <2>4. validators[v] \in ValidatorRecords /\ validators[v].totalStake \in Maybe(Int)
    <3>1. validators[v] \in ValidatorRecords
      BY DEF TypeOK
    <3> QED BY <3>1, RecordTypesOf DEF RecordTypes
  <2>5. validators'[v].totalStake = Plus(validators[v].totalStake, amount)
    <3>1. validators'[v] = Restaked(validators[v], s = v, amount)
      BY <1>3 DEF Delegate, TypeOK
    <3>2. Restaked(validators[v], s = v, amount).totalStake
            = Plus(validators[v].totalStake, amount)
      BY <2>1, <2>4, RestakedType DEF RestakedFields
    <3> QED BY <3>1, <3>2
  <2>6. \/ Number(validators'[v].totalStake) = 0
        \/ Number(validators'[v].totalStake) = Number(validators[v].totalStake) + y
    BY <2>1, <2>2, <2>4, <2>5, PlusCounts
  <2>7. \A o \in Accounts : o # v => validators'[o] = validators[o]
    BY <1>3 DEF Delegate, TypeOK
  <2> QED BY <2>1, <2>3, <2>6, <2>7, WeightMoves
<1>4. ASSUME NEW s \in Signers, NEW fee \in Fees, NEW amount \in Amounts,
             NEW v \in Accounts, Undelegate(s, v, amount, fee)
      PROVE  WeightIsBacked'
  <2>1. s \in Accounts /\ amount \in Maybe(Int) /\ Number(amount) \in Int
    BY <1>4, AccountsAssumption, AmountTypes, UndelegateMoves
  <2>2. PICK y : y = (IF amount = NaN THEN 0 - Number(delegations[v][s]) ELSE 0 - Number(amount))
    OBVIOUS
  <2>3. y \in Int /\ BookMoved(v, s, y)
    BY <1>4, <2>2, UndelegateMoves
  <2>4. validators[v] \in ValidatorRecords /\ validators[v].totalStake \in Maybe(Int)
    <3>1. validators[v] \in ValidatorRecords
      BY DEF TypeOK
    <3> QED BY <3>1, RecordTypesOf DEF RecordTypes
  <2>5. validators'[v].totalStake = Plus(validators[v].totalStake, Minus(0, amount))
    <3>1. validators'[v] = AfterUndelegation(validators[v], s = v, amount)
      BY <1>4 DEF Undelegate, TypeOK
    <3>2. AfterUndelegation(validators[v], s = v, amount).totalStake
            = Plus(validators[v].totalStake, Minus(0, amount))
      BY <2>1, <2>4, AfterUndelegationType DEF UndelegatedFields
    <3> QED BY <3>1, <3>2
  <2>6. /\ Minus(0, amount) \in Maybe(Int)
        /\ amount # NaN => Minus(0, amount) = 0 - Number(amount)
        /\ amount = NaN => Minus(0, amount) = NaN
    <3>1. 0 \in Maybe(Int) /\ Number(0) = 0 /\ 0 # NaN
      BY NumberTypes DEF Maybe
    <3> QED BY <2>1, <3>1, PlusTypes DEF Maybe
  <2>7. \/ Number(validators'[v].totalStake) = 0
        \/ Number(validators'[v].totalStake) = Number(validators[v].totalStake) + y
    <3>1. CASE amount = NaN
      BY <2>4, <2>5, <2>6, <3>1, PlusCounts
    <3>2. CASE amount # NaN
      <4>1. Minus(0, amount) = y /\ Number(y) = y /\ y # NaN
        BY <2>2, <2>3, <2>6, <3>2, NumberTypes
      <4> QED BY <2>4, <2>5, <2>6, <4>1, PlusCounts
    <3> QED BY <3>1, <3>2
  <2>8. \A o \in Accounts : o # v => validators'[o] = validators[o]
    BY <1>4 DEF Undelegate, TypeOK
  <2> QED BY <2>1, <2>3, <2>7, <2>8, WeightMoves
<1>5. ASSUME NEW s \in Signers, NEW fee \in Fees, NEW amount \in Amounts,
             NEW to \in Payees, Pay(s, to, amount, fee)
      PROVE  WeightIsBacked'
  BY <1>1, <1>5 DEF Pay
<1>6. ASSUME NEW s \in Signers, NEW fee \in Fees, ClaimRewards(s, fee)
      PROVE  WeightIsBacked'
  BY <1>1, <1>6 DEF ClaimRewards
<1>7. ASSUME NEW restarted \in BOOLEAN, CloseBlock(restarted)
      PROVE  WeightIsBacked'
  BY <1>7, CloseBlockWeight
<1>8. CASE UNCHANGED vars
  BY <1>1, <1>8 DEF vars
<1> QED BY <1>2, <1>3, <1>4, <1>5, <1>6, <1>7, <1>8 DEF Next, SomeTransaction

(***************************************************************************)
(* No validator weighs more in the selection of proposers than its book    *)
(* holds, also after amounts that are no numbers.                          *)
(***************************************************************************)
THEOREM StakingWeightIsBacked == Spec => []WeightIsBacked
<1>1. Init => WeightIsBacked
  <2> SUFFICES ASSUME Init, NEW v \in Accounts
               PROVE  Number(validators[v].totalStake) <= BookTotal(v)
    BY DEF WeightIsBacked
  <2> DEFINE w == Books[v]
  <2>1. NumAccounts \in Nat /\ Accounts = 1 .. NumAccounts /\ GenesisStake \in Nat
    BY AccountsAssumption, ParamsAssumption DEF Accounts
  <2>2. TypeOK
    BY InitIndInv DEF IndInv
  <2>3. \A k \in Accounts : w[k] \in Nat
    BY <2>2, BooksTypes
  <2>4. Number(validators[v].totalStake) = w[v]
    <3>1. validators[v].totalStake = delegations[v][v]
      BY DEF Init, FreshValidator, Unregistered
    <3> QED BY <3>1 DEF Books
  <2> HIDE DEF w
  <2>5. w[v] <= SumTo(w, NumAccounts)
    BY <2>1, <2>3, SumEntry
  <2> QED BY <2>4, <2>5, BookTotals DEF w
<1> QED BY <1>1, StepWeight, StakingTypeCorrect, PTL DEF Spec

(***************************************************************************)
(* No withdrawal is overdue, and none unlocks later than one unbonding     *)
(* period from now.                                                        *)
(***************************************************************************)
THEOREM StakingWithdrawalsAreDue == Spec => []WithdrawalsAreDue
<1>1. Init => WithdrawalsAreDue
  BY DEF Init, WithdrawalsAreDue
<1>2. TypeOK /\ TypeOK' /\ WithdrawalsAreDue /\ [Next]_vars => WithdrawalsAreDue'
  <2> SUFFICES ASSUME TypeOK, TypeOK', WithdrawalsAreDue, [Next]_vars,
                      NEW a \in Accounts, NEW u \in UnlockHeights,
                      pendingWithdrawals'[a][u] > 0
               PROVE  u \in height' .. (height' + UnbondingPeriod)
    BY DEF WithdrawalsAreDue
  <2>1. /\ height \in Int /\ pendingWithdrawals[a][u] \in Nat
        /\ u \in Int /\ UnbondingPeriod \in Nat
    <3>1. UnbondingPeriod \in Nat
      BY ParamsAssumption
    <3>2. u \in Int
      BY DEF UnlockHeights
    <3>3. height \in Int /\ pendingWithdrawals[a][u] \in Nat
      BY DEF TypeOK
    <3> QED BY <3>1, <3>2, <3>3
  <2>2. pendingWithdrawals[a][u] > 0 => u \in height .. (height + UnbondingPeriod)
    BY DEF WithdrawalsAreDue
  <2>3. ASSUME UNCHANGED <<pendingWithdrawals, height>>
        PROVE  u \in height' .. (height' + UnbondingPeriod)
    BY <2>2, <2>3
  <2>4. ASSUME NEW s \in Signers, NEW fee \in Fees, NEW amount \in Amounts,
               NEW v \in Accounts, Undelegate(s, v, amount, fee)
        PROVE  u \in height' .. (height' + UnbondingPeriod)
    <3>1. height' = height
      BY <2>4 DEF Undelegate, Commit
    <3>2. CASE a = s /\ u = UnlockHeight
      BY <2>1, <3>1, <3>2 DEF UnlockHeight
    <3>3. CASE ~ (a = s /\ u = UnlockHeight)
      <4>1. pendingWithdrawals'[a][u] = pendingWithdrawals[a][u]
        BY <2>4, <3>3 DEF Undelegate, TypeOK
      <4> QED BY <2>2, <3>1, <4>1
    <3> QED BY <3>2, <3>3
  <2>5. ASSUME NEW restarted \in BOOLEAN, CloseBlock(restarted)
        PROVE  u \in height' .. (height' + UnbondingPeriod)
    <3>1. /\ pendingWithdrawals'[a][u] = IF Matured(u) THEN 0 ELSE pendingWithdrawals[a][u]
          /\ height' = height + 1
      BY <2>5 DEF CloseBlock
    <3>2. pendingWithdrawals[a][u] > 0 /\ u > height
      BY <2>1, <3>1 DEF Matured
    <3> QED BY <2>1, <2>2, <3>1, <3>2
  <2>6. ASSUME NEW s \in Signers, NEW fee \in Fees, NEW amount \in Amounts,
               NEW to \in Payees, Pay(s, to, amount, fee)
        PROVE  UNCHANGED <<pendingWithdrawals, height>>
    BY <2>6 DEF Pay, Commit
  <2>7. ASSUME NEW s \in Signers, NEW fee \in Fees, NEW amount \in Amounts,
               NEW rate \in CommissionRates, RegisterValidator(s, amount, rate, fee)
        PROVE  UNCHANGED <<pendingWithdrawals, height>>
    BY <2>7 DEF RegisterValidator, Commit
  <2>8. ASSUME NEW s \in Signers, NEW fee \in Fees, NEW amount \in Amounts,
               NEW v \in Accounts, Delegate(s, v, amount, fee)
        PROVE  UNCHANGED <<pendingWithdrawals, height>>
    BY <2>8 DEF Delegate, Commit
  <2>9. ASSUME NEW s \in Signers, NEW fee \in Fees, ClaimRewards(s, fee)
        PROVE  UNCHANGED <<pendingWithdrawals, height>>
    BY <2>9 DEF ClaimRewards, Commit
  <2>10. CASE UNCHANGED vars
    BY <2>3, <2>10 DEF vars
  <2> QED BY <2>3, <2>4, <2>5, <2>6, <2>7, <2>8, <2>9, <2>10 DEF Next, SomeTransaction
<1> QED BY <1>1, <1>2, StakingTypeCorrect, PTL DEF Spec
=============================================================================
