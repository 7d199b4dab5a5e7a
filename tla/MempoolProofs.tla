--------------------------- MODULE MempoolProofs ---------------------------
(***************************************************************************)
(* Proofs about the transactions of a node, for any accounts, payments,    *)
(* fees, clocks and block sizes.                                           *)
(***************************************************************************)
EXTENDS Mempool, FiniteSetTheorems, TLAPS

(***************************************************************************)
(* What is known of a state's log: senders' nonces count it, every sender  *)
(* is there in nonce order, and the faucet's log has the latest request.   *)
(***************************************************************************)
States ==
  [balances : [Accounts -> Nat], nonces : [Accounts -> Nat], requestLog : [Accounts -> Nat],
   baseFee : Nat, transactions : Seq(Transactions)]

\* Nobody signs for the faucet: what bears its address as sender is the
\* system's disbursement, which is free.
Legal ==
  {tx \in Transactions : tx.sender = Faucet => tx.type = "faucet" /\ tx.fee = 0}

SentBy(a, txs) == {j \in DOMAIN txs : txs[j].sender = a}

\* The log's promise, with the operators of this module.
InOrder(txs) ==
  \A i \in DOMAIN txs : txs[i].nonce = Cardinality({j \in 1 .. i : txs[j].sender = txs[i].sender})

NoncesCount(st) ==
  /\ \A a \in Accounts : st.nonces[a] = Cardinality(SentBy(a, st.transactions))
  /\ \A i \in DOMAIN st.transactions : st.transactions[i].nonce <= st.nonces[st.transactions[i].sender]
  /\ InOrder(st.transactions)

\* Where a disbursement is since transaction i, to the same recipient, and
\* whether the system signed all of those up to j.
Since(txs, i, j) == {k \in i + 1 .. j : txs[k].type = "faucet" /\ txs[k].to = txs[i].to}
SystemOnly(txs, i, j) == \A k \in Since(txs, i, j) : BySystem(txs[k])

Spaced(txs) ==
  \A i, j \in DOMAIN txs :
    txs[i].type = "faucet" /\ j \in Since(txs, i, j) /\ SystemOnly(txs, i, j)
      => txs[i].at = 0 \/ txs[j].at - txs[i].at >= Cooldown

Logged(txs, log) ==
  \A i \in DOMAIN txs :
    txs[i].type = "faucet" /\ SystemOnly(txs, i, Len(txs))
      => txs[i].at = 0 \/ txs[i].at <= log[txs[i].to]

RequestsLogged(st) == Logged(st.transactions, st.requestLog) /\ Spaced(st.transactions)

SoundStates == {st \in States : NoncesCount(st) /\ RequestsLogged(st)}

\* Each sender's transactions have rising nonces above those of a state.
Rising(nonces, txs) ==
  /\ \A i \in DOMAIN txs : nonces[txs[i].sender] < txs[i].nonce
  /\ \A i, j \in DOMAIN txs : i < j /\ txs[i].sender = txs[j].sender => txs[i].nonce < txs[j].nonce

Distinct(txs) == \A i, j \in DOMAIN txs : txs[i] = txs[j] => i = j

-----------------------------------------------------------------------------
(* Induction along 0 .. n, with the induction hypothesis as a set: intervals *)
(* are well-founded under strict inclusion.                                  *)

LEMMA IntervalInduction ==
  ASSUME NEW n \in Nat, NEW T, 0 \in T,
         \A m \in 0 .. (n - 1) : m \in T => m + 1 \in T
  PROVE  n \in T
<1> DEFINE Out == {m \in 0 .. n : m \notin T}
           W == {1 .. m : m \in Out}
<1> SUFFICES ASSUME n \notin T PROVE FALSE
  OBVIOUS
<1>1. n \in Out /\ W # {}
  OBVIOUS
<1>2. W \subseteq FiniteSubsetsOf(1 .. n)
  <2> SUFFICES ASSUME NEW m \in Out PROVE 1 .. m \in FiniteSubsetsOf(1 .. n)
    OBVIOUS
  <2>1. IsFiniteSet(1 .. m)
    <3>1. 1 \in Int /\ m \in Int
      OBVIOUS
    <3> QED BY <3>1, FS_Interval
  <2>2. 1 .. m \subseteq 1 .. n
    OBVIOUS
  <2> QED BY <2>1, <2>2 DEF FiniteSubsetsOf
<1>3. IsWellFoundedOn(StrictSubsetOrdering(1 .. n), FiniteSubsetsOf(1 .. n))
  BY FS_StrictSubsetOrderingWellFounded
<1> HIDE DEF W
<1>4. PICK I \in W : \A J \in W : ~ (<<J, I>> \in StrictSubsetOrdering(1 .. n))
  BY <1>1, <1>2, <1>3, WFMin
<1>5. PICK m \in Out : I = 1 .. m
  BY <1>4 DEF W
<1>6. m \in 0 .. n /\ m \notin T /\ m # 0 /\ m - 1 \in 0 .. (n - 1)
  OBVIOUS
<1>7. ASSUME m - 1 \in Out PROVE FALSE
  <2>1. 1 .. (m - 1) \in W
    BY <1>7 DEF W
  <2>2. 1 .. (m - 1) \subseteq 1 .. m /\ m \in 1 .. m /\ m \notin 1 .. (m - 1) /\ 1 .. m \subseteq 1 .. n
    BY <1>6
  <2>3. <<1 .. (m - 1), 1 .. m>> \in StrictSubsetOrdering(1 .. n)
    BY <2>2 DEF StrictSubsetOrdering
  <2> QED BY <1>4, <1>5, <2>1, <2>3
<1>8. m - 1 \in T
  BY <1>6, <1>7
<1>9. (m - 1) + 1 \in T
  BY <1>6, <1>8
<1> QED BY <1>6, <1>9

-----------------------------------------------------------------------------
(* A queue is tried transaction by transaction.                              *)

IsTable(st, txs, n, g) ==
  g = [k \in 0 .. n |-> IF k = 0 THEN Untried(st) ELSE Tried(g[k - 1], txs[k])]

LEMMA TableExists ==
  ASSUME NEW st, NEW txs, NEW n \in Nat
  PROVE  \E g : IsTable(st, txs, n, g)
<1> DEFINE T == {m \in 0 .. n : \E g : IsTable(st, txs, m, g)}
<1>1. 0 \in T
  <2> DEFINE g == [k \in 0 .. 0 |-> Untried(st)]
  <2>1. IsTable(st, txs, 0, g)
    BY DEF IsTable
  <2> QED BY <2>1
<1>2. ASSUME NEW m \in 0 .. (n - 1), m \in T PROVE m + 1 \in T
  <2>1. PICK h : IsTable(st, txs, m, h)
    BY <1>2
  <2> DEFINE g == [k \in 0 .. (m + 1) |-> IF k = m + 1 THEN Tried(h[m], txs[m + 1]) ELSE h[k]]
  <2>2. \A k \in 0 .. (m + 1) : g[k] = IF k = 0 THEN Untried(st) ELSE Tried(g[k - 1], txs[k])
    BY <2>1 DEF IsTable
  <2>3. IsTable(st, txs, m + 1, g)
    BY <2>2 DEF IsTable
  <2> QED BY <2>3
<1> HIDE DEF T
<1>3. n \in T
  BY <1>1, <1>2, IntervalInduction
<1> QED BY <1>3 DEF T

\* T holds pairs of a number of transactions and what trying them gives.
LEMMA ProjectionInduction ==
  ASSUME NEW st, NEW txs, Len(txs) \in Nat, NEW T,
         <<0, Untried(st)>> \in T,
         \A k \in 0 .. (Len(txs) - 1) : \A p : <<k, p>> \in T => <<k + 1, Tried(p, txs[k + 1])>> \in T
  PROVE  <<Len(txs), Projection(st, txs)>> \in T
<1> DEFINE n == Len(txs)
           g == CHOOSE after : after = [k \in 0 .. n |-> IF k = 0 THEN Untried(st) ELSE Tried(after[k - 1], txs[k])]
           Done == {k \in 0 .. n : <<k, g[k]>> \in T}
<1>1. Projection(st, txs) = g[n]
  BY DEF Projection
<1>2. g = [k \in 0 .. n |-> IF k = 0 THEN Untried(st) ELSE Tried(g[k - 1], txs[k])]
  <2>1. PICK h : IsTable(st, txs, n, h)
    BY TableExists
  <2> QED BY <2>1 DEF IsTable
<1> HIDE DEF g
<1>3. 0 \in Done
  BY <1>2
<1>4. ASSUME NEW k \in 0 .. (n - 1), k \in Done PROVE k + 1 \in Done
  <2>1. k + 1 \in 0 .. n /\ k + 1 # 0 /\ (k + 1) - 1 = k
    OBVIOUS
  <2>2. g[k + 1] = Tried(g[k], txs[k + 1])
    BY <1>2, <2>1
  <2> QED BY <1>4, <2>1, <2>2
<1> HIDE DEF Done
<1>5. n \in Done
  BY <1>3, <1>4, IntervalInduction
<1> QED BY <1>1, <1>5 DEF Done

-----------------------------------------------------------------------------
(* Sequences. *)

LEMMA AppendFacts ==
  ASSUME NEW S, NEW s \in Seq(S), NEW e \in S
  PROVE  /\ Append(s, e) \in Seq(S)
         /\ Len(s) \in Nat /\ DOMAIN s = 1 .. Len(s)
         /\ Len(Append(s, e)) = Len(s) + 1
         /\ DOMAIN Append(s, e) = 1 .. Len(s) + 1
         /\ \A i \in 1 .. Len(s) : Append(s, e)[i] = s[i]
         /\ Append(s, e)[Len(s) + 1] = e
         /\ ToSet(Append(s, e)) = ToSet(s) \cup {e}
<1>1. /\ Append(s, e) \in Seq(S)
      /\ Len(s) \in Nat /\ DOMAIN s = 1 .. Len(s)
      /\ Len(Append(s, e)) = Len(s) + 1
      /\ DOMAIN Append(s, e) = 1 .. Len(s) + 1
      /\ \A i \in 1 .. Len(s) : Append(s, e)[i] = s[i]
      /\ Append(s, e)[Len(s) + 1] = e
  OBVIOUS
<1>2. ToSet(Append(s, e)) = ToSet(s) \cup {e}
  BY <1>1 DEF ToSet
<1> QED BY <1>1, <1>2

LEMMA ToSetOfSeq ==
  ASSUME NEW S, NEW s \in Seq(S)
  PROVE  /\ ToSet(s) \subseteq S
         /\ Len(s) \in Nat /\ DOMAIN s = 1 .. Len(s)
         /\ ToSet(s) = {s[i] : i \in 1 .. Len(s)}
         /\ \A x \in ToSet(s) : \E i \in 1 .. Len(s) : x = s[i]
         /\ \A i \in 1 .. Len(s) : s[i] \in ToSet(s)
  BY DEF ToSet

LEMMA UpToFinite ==
  ASSUME NEW n \in Nat
  PROVE  IsFiniteSet(1 .. n)
<1>1. 1 \in Int /\ n \in Int
  OBVIOUS
<1> QED BY <1>1, FS_Interval

LEMMA SentByAppend ==
  ASSUME NEW txs \in Seq(Transactions), NEW tx \in Transactions, NEW a
  PROVE  /\ IsFiniteSet(SentBy(a, txs)) /\ Cardinality(SentBy(a, txs)) \in Nat
         /\ Cardinality(SentBy(a, Append(txs, tx)))
              = Cardinality(SentBy(a, txs)) + IF tx.sender = a THEN 1 ELSE 0
<1>1. /\ Len(txs) \in Nat /\ DOMAIN txs = 1 .. Len(txs)
      /\ DOMAIN Append(txs, tx) = 1 .. Len(txs) + 1
      /\ \A i \in 1 .. Len(txs) : Append(txs, tx)[i] = txs[i]
      /\ Append(txs, tx)[Len(txs) + 1] = tx
  BY AppendFacts
<1>2. IsFiniteSet(SentBy(a, txs)) /\ Cardinality(SentBy(a, txs)) \in Nat
  <2>1. IsFiniteSet(1 .. Len(txs))
    <3>1. Len(txs) \in Nat
      BY <1>1
    <3> QED BY <3>1, UpToFinite
  <2>2. SentBy(a, txs) \subseteq 1 .. Len(txs)
    BY <1>1 DEF SentBy
  <2> QED BY <2>1, <2>2, FS_Subset, FS_CardinalityType
<1>3. CASE tx.sender = a
  <2>1. SentBy(a, Append(txs, tx)) = SentBy(a, txs) \cup {Len(txs) + 1}
    BY <1>1, <1>3 DEF SentBy
  <2>2. Len(txs) + 1 \notin SentBy(a, txs)
    BY <1>1 DEF SentBy
  <2> QED BY <1>2, <1>3, <2>1, <2>2, FS_AddElement
<1>4. CASE tx.sender # a
  <2>1. SentBy(a, Append(txs, tx)) = SentBy(a, txs)
    BY <1>1, <1>4 DEF SentBy
  <2> QED BY <1>2, <1>4, <2>1
<1> QED BY <1>2, <1>3, <1>4

-----------------------------------------------------------------------------
(* One transaction. *)

\* An amount for one account only.
Only(a, b, amount) == IF a = b THEN amount ELSE 0

LEMMA MovedAt ==
  ASSUME NEW balances \in [Accounts -> Int], NEW from \in Accounts, NEW to \in Accounts,
         NEW amount \in Int
  PROVE  /\ Moved(balances, from, to, amount) \in [Accounts -> Int]
         /\ \A a \in Accounts :
              Moved(balances, from, to, amount)[a]
                = balances[a] - Only(a, from, amount) + Only(a, to, amount)
<1> DEFINE debited == [balances EXCEPT ![from] = balances[from] - amount]
           credited == [debited EXCEPT ![to] = debited[to] + amount]
<1>1. debited \in [Accounts -> Int]
      /\ \A a \in Accounts : debited[a] = balances[a] - Only(a, from, amount)
  BY DEF Only
<1> HIDE DEF debited
<1>2. credited \in [Accounts -> Int]
      /\ \A a \in Accounts : credited[a] = debited[a] + Only(a, to, amount)
  BY <1>1 DEF Only
<1>3. Moved(balances, from, to, amount) = credited
  BY DEF Moved, debited
<1> HIDE DEF credited
<1>4. ASSUME NEW a \in Accounts
      PROVE  credited[a] = balances[a] - Only(a, from, amount) + Only(a, to, amount)
  <2>1. credited[a] = debited[a] + Only(a, to, amount)
    BY <1>2
  <2>2. debited[a] = balances[a] - Only(a, from, amount)
    BY <1>1
  <2> QED BY <2>1, <2>2
<1> QED BY <1>2, <1>3, <1>4

LEMMA MovedTyped ==
  ASSUME NEW balances \in [Accounts -> Nat], NEW from \in Accounts, NEW to \in Accounts,
         NEW amount \in Nat, amount <= balances[from]
  PROVE  Moved(balances, from, to, amount) \in [Accounts -> Nat]
<1> DEFINE debited == [balances EXCEPT ![from] = balances[from] - amount]
<1>1. debited \in [Accounts -> Nat]
  OBVIOUS
<1> HIDE DEF debited
<1>2. [debited EXCEPT ![to] = debited[to] + amount] \in [Accounts -> Nat]
  BY <1>1
<1> QED BY <1>2 DEF Moved, debited

Payer(tx) == IF tx.type = "faucet" THEN Faucet ELSE tx.sender

LEMMA PaidAt ==
  ASSUME NEW balances \in [Accounts -> Int], NEW tx \in Transactions
  PROVE  /\ Paid(balances, tx) \in [Accounts -> Int]
         /\ \A a \in Accounts :
              Paid(balances, tx)[a]
                = balances[a] - Only(a, tx.sender, tx.fee)
                    - Only(a, Payer(tx), tx.amount) + Only(a, tx.to, tx.amount)
<1>1. tx.sender \in Accounts /\ tx.to \in Accounts /\ Faucet \in Accounts /\ tx.fee \in Int /\ tx.amount \in Int
  BY DEF Transactions, Accounts
<1>2. Payer(tx) \in Accounts
  BY <1>1 DEF Payer
<1> DEFINE less == [balances EXCEPT ![tx.sender] = balances[tx.sender] - tx.fee]
           from == Payer(tx)
           to == tx.to
           amount == tx.amount
           paid == Moved(less, from, to, amount)
<1>3. /\ less \in [Accounts -> Int]
      /\ \A a \in Accounts : less[a] = balances[a] - Only(a, tx.sender, tx.fee)
  BY <1>1 DEF Only
<1> HIDE DEF less, from, to, amount
<1>4. /\ paid \in [Accounts -> Int]
      /\ \A a \in Accounts : paid[a] = less[a] - Only(a, from, amount) + Only(a, to, amount)
  <2>1. from \in Accounts /\ to \in Accounts /\ amount \in Int
    BY <1>1, <1>2 DEF from, to, amount
  <2> QED BY <1>3, <2>1, MovedAt
<1>5. Paid(balances, tx) = paid
  BY DEF Paid, Payer, less, from, to, amount
<1> HIDE DEF paid
<1> QED BY <1>1, <1>3, <1>4, <1>5 DEF from, to, amount

LEMMA PaidTyped ==
  ASSUME NEW st \in States, NEW tx \in Legal, Funded(st, tx)
  PROVE  Paid(st.balances, tx) \in [Accounts -> Nat]
<1> DEFINE b == st.balances
           c == Paid(b, tx)
<1>0. tx \in Transactions /\ (tx.sender = Faucet => tx.fee = 0)
  BY DEF Legal
<1>1. b \in [Accounts -> Nat] /\ b \in [Accounts -> Int]
  BY DEF States
<1>2. /\ tx.sender \in Accounts /\ Faucet \in Accounts /\ tx.fee \in Nat /\ tx.amount \in Nat
  BY <1>0 DEF Transactions, Accounts
<1>3. /\ Owed(tx) <= b[tx.sender]
      /\ tx.type = "faucet" => tx.amount <= b[Faucet]
  BY DEF Funded
<1> HIDE DEF b
<1>4. /\ c \in [Accounts -> Int]
      /\ \A a \in Accounts :
           c[a] = b[a] - Only(a, tx.sender, tx.fee)
                    - Only(a, Payer(tx), tx.amount) + Only(a, tx.to, tx.amount)
  BY <1>0, <1>1, PaidAt
<1> HIDE DEF c
<1>5. ASSUME NEW a \in Accounts PROVE c[a] >= 0
  <2>1. b[a] \in Nat /\ c[a] \in Int
    BY <1>1, <1>4
  <2>2. c[a] = b[a] - Only(a, tx.sender, tx.fee)
                 - Only(a, Payer(tx), tx.amount) + Only(a, tx.to, tx.amount)
    BY <1>4
  <2>3. CASE tx.type = "faucet"
    <3>1. CASE tx.sender = Faucet
      <4>1. tx.fee + tx.amount <= b[Faucet]
        BY <1>0, <1>2, <1>3, <2>3, <3>1
      <4> QED BY <1>2, <2>1, <2>2, <2>3, <3>1, <4>1 DEF Only, Payer
    <3>2. CASE tx.sender # Faucet
      BY <1>2, <1>3, <2>1, <2>2, <2>3, <3>2 DEF Only, Payer, Owed
    <3> QED BY <3>1, <3>2
  <2>4. CASE tx.type # "faucet"
    BY <1>2, <1>3, <2>1, <2>2, <2>4 DEF Only, Payer, Owed
  <2> QED BY <2>3, <2>4
<1>6. c \in [Accounts -> Nat]
  BY <1>4, <1>5
<1> QED BY <1>6 DEF c, b

LEMMA ExecutedTyped ==
  ASSUME NEW st \in States, NEW tx \in Legal, Executable(st, tx)
  PROVE  /\ Executed(st, tx) \in States
         /\ tx.nonce = st.nonces[tx.sender] + 1
         /\ Executed(st, tx).nonces = [st.nonces EXCEPT ![tx.sender] = tx.nonce]
         /\ Executed(st, tx).requestLog
              = [st.requestLog EXCEPT ![tx.to] = IF tx.type = "faucet" THEN tx.at ELSE @]
         /\ Executed(st, tx).transactions = Append(st.transactions, tx)
<1> DEFINE balances == Paid(st.balances, tx)
           nonces == [st.nonces EXCEPT ![tx.sender] = tx.nonce]
           requestLog == [st.requestLog EXCEPT ![tx.to] = IF tx.type = "faucet" THEN tx.at ELSE @]
<1>1. /\ tx \in Transactions /\ tx.sender \in Accounts /\ tx.to \in Accounts
      /\ tx.amount \in Nat /\ tx.fee \in Nat /\ tx.nonce \in Nat /\ tx.at \in Nat
  BY DEF Legal, Transactions
<1>2. /\ st.balances \in [Accounts -> Nat] /\ st.nonces \in [Accounts -> Nat]
      /\ st.requestLog \in [Accounts -> Nat] /\ st.transactions \in Seq(Transactions) /\ st.baseFee \in Nat
  BY DEF States
<1>3. Funded(st, tx) /\ tx.nonce = st.nonces[tx.sender] + 1
  BY DEF Executable
<1>6. balances \in [Accounts -> Nat]
  BY <1>3, PaidTyped
<1>7. nonces \in [Accounts -> Nat] /\ requestLog \in [Accounts -> Nat]
  BY <1>1, <1>2
<1>8. Append(st.transactions, tx) \in Seq(Transactions)
  BY <1>1, <1>2
<1> HIDE DEF balances
<1>9. Executed(st, tx) = [balances |-> balances, nonces |-> nonces, requestLog |-> requestLog,
                           baseFee |-> st.baseFee, transactions |-> Append(st.transactions, tx)]
  BY DEF Executed, balances
<1> QED BY <1>2, <1>3, <1>6, <1>7, <1>8, <1>9 DEF States

LEMMA InOrderAppend ==
  ASSUME NEW txs \in Seq(Transactions), NEW tx \in Transactions,
         InOrder(txs), tx.nonce = Cardinality(SentBy(tx.sender, Append(txs, tx)))
  PROVE  InOrder(Append(txs, tx))
<1>1. /\ Len(txs) \in Nat /\ DOMAIN txs = 1 .. Len(txs)
      /\ DOMAIN Append(txs, tx) = 1 .. Len(txs) + 1
      /\ \A i \in 1 .. Len(txs) : Append(txs, tx)[i] = txs[i]
      /\ Append(txs, tx)[Len(txs) + 1] = tx
  BY AppendFacts
<1> SUFFICES ASSUME NEW i \in DOMAIN Append(txs, tx)
             PROVE  Append(txs, tx)[i].nonce
                      = Cardinality({j \in 1 .. i : Append(txs, tx)[j].sender = Append(txs, tx)[i].sender})
  BY DEF InOrder
<1>2. CASE i = Len(txs) + 1
  <2>1. {j \in 1 .. i : Append(txs, tx)[j].sender = Append(txs, tx)[i].sender}
          = SentBy(tx.sender, Append(txs, tx))
    BY <1>1, <1>2 DEF SentBy
  <2> QED BY <1>1, <1>2, <2>1
<1>3. CASE i \in 1 .. Len(txs)
  <2> DEFINE after == {j \in 1 .. i : Append(txs, tx)[j].sender = Append(txs, tx)[i].sender}
             before == {j \in 1 .. i : txs[j].sender = txs[i].sender}
  <2>1. \A j \in 1 .. i : j \in 1 .. Len(txs)
    BY <1>1, <1>3
  <2>2. after = before
    BY <1>1, <1>3, <2>1
  <2>3. i \in DOMAIN txs
    BY <1>1, <1>3
  <2>4. txs[i].nonce = Cardinality(before)
    BY <2>3, Zenon DEF InOrder
  <2>5. Append(txs, tx)[i].nonce = txs[i].nonce
    BY <1>1, <1>3
  <2> HIDE DEF after, before
  <2>6. Append(txs, tx)[i].nonce = Cardinality(after)
    BY <2>2, <2>4, <2>5
  <2> QED BY <2>6, Zenon DEF after
<1>4. i = Len(txs) + 1 \/ i \in 1 .. Len(txs)
  BY <1>1
<1> QED BY <1>2, <1>3, <1>4, Zenon

LEMMA NoncesCounted ==
  ASSUME NEW st \in States, NEW tx \in Legal, Executable(st, tx), NoncesCount(st)
  PROVE  NoncesCount(Executed(st, tx))
<1> DEFINE next == Executed(st, tx)
           txs == st.transactions
<1>1. /\ next \in States
      /\ tx.nonce = st.nonces[tx.sender] + 1
      /\ next.nonces = [st.nonces EXCEPT ![tx.sender] = tx.nonce]
      /\ next.transactions = Append(txs, tx)
  BY ExecutedTyped
<1>2. /\ txs \in Seq(Transactions) /\ st.nonces \in [Accounts -> Nat]
      /\ tx \in Transactions /\ tx.sender \in Accounts /\ tx.nonce \in Nat
  BY DEF States, Legal, Transactions
<1>3. /\ Len(txs) \in Nat /\ DOMAIN txs = 1 .. Len(txs)
      /\ DOMAIN Append(txs, tx) = 1 .. Len(txs) + 1
      /\ \A i \in 1 .. Len(txs) : Append(txs, tx)[i] = txs[i] /\ txs[i] \in Transactions
      /\ Append(txs, tx)[Len(txs) + 1] = tx
  BY <1>2, AppendFacts
<1> HIDE DEF next, txs
<1>4. \A a \in Accounts : next.nonces[a] = Cardinality(SentBy(a, next.transactions))
  <2> TAKE a \in Accounts
  <2>1. st.nonces[a] = Cardinality(SentBy(a, txs))
    BY DEF NoncesCount, txs
  <2>2. Cardinality(SentBy(a, Append(txs, tx))) = Cardinality(SentBy(a, txs)) + IF tx.sender = a THEN 1 ELSE 0
    BY <1>2, SentByAppend
  <2>3. next.nonces[a] = IF tx.sender = a THEN st.nonces[a] + 1 ELSE st.nonces[a]
    BY <1>1, <1>2
  <2>4. st.nonces[a] \in Nat
    BY <1>2
  <2> QED BY <1>1, <2>1, <2>2, <2>3, <2>4
<1>5. \A i \in DOMAIN next.transactions :
        next.transactions[i].nonce <= next.nonces[next.transactions[i].sender]
  <2> SUFFICES ASSUME NEW i \in 1 .. Len(txs) + 1
               PROVE  Append(txs, tx)[i].nonce <= next.nonces[Append(txs, tx)[i].sender]
    BY <1>1, <1>3
  <2>1. CASE i = Len(txs) + 1
    BY <1>1, <1>2, <1>3, <2>1
  <2>2. CASE i \in 1 .. Len(txs)
    <3>1. txs[i].nonce <= st.nonces[txs[i].sender] /\ txs[i].sender \in Accounts /\ txs[i].nonce \in Nat
      BY <1>3, <2>2 DEF NoncesCount, txs, Transactions
    <3>2. st.nonces[txs[i].sender] <= next.nonces[txs[i].sender]
      BY <1>1, <1>2, <3>1
    <3>3. st.nonces[txs[i].sender] \in Nat /\ next.nonces[txs[i].sender] \in Nat
      BY <1>1, <1>2, <3>1
    <3> QED BY <1>3, <2>2, <3>1, <3>2, <3>3
  <2> QED BY <1>3, <2>1, <2>2
<1>6. InOrder(next.transactions)
  <2>1. InOrder(txs)
    BY DEF NoncesCount, txs
  <2>2. tx.nonce = Cardinality(SentBy(tx.sender, Append(txs, tx)))
    BY <1>1, <1>2, <1>4
  <2> QED BY <1>1, <1>2, <2>1, <2>2, InOrderAppend
<1> QED BY <1>4, <1>5, <1>6 DEF NoncesCount, next

LEMMA RequestsLoggedOn ==
  ASSUME NEW st \in States, NEW tx \in Legal, Executable(st, tx), RequestsLogged(st)
  PROVE  RequestsLogged(Executed(st, tx))
<1> DEFINE next == Executed(st, tx)
           txs == st.transactions
<1>0. tx \in Transactions
  BY DEF Legal
<1>1. /\ next \in States
      /\ next.requestLog = [st.requestLog EXCEPT ![tx.to] = IF tx.type = "faucet" THEN tx.at ELSE @]
      /\ next.transactions = Append(txs, tx)
  BY <1>0, ExecutedTyped
<1>2. /\ txs \in Seq(Transactions) /\ st.requestLog \in [Accounts -> Nat]
      /\ tx.to \in Accounts /\ tx.at \in Nat /\ Cooldown \in Nat
  BY <1>0, MempoolAssumption DEF States, Transactions
<1>3. /\ Len(txs) \in Nat /\ DOMAIN txs = 1 .. Len(txs)
      /\ DOMAIN Append(txs, tx) = 1 .. Len(txs) + 1
      /\ \A i \in 1 .. Len(txs) : Append(txs, tx)[i] = txs[i] /\ txs[i] \in Transactions
      /\ Append(txs, tx)[Len(txs) + 1] = tx
  BY <1>0, <1>2, AppendFacts
<1>4. BySystem(tx) => st.requestLog[tx.to] = 0 \/ tx.at - st.requestLog[tx.to] >= Cooldown
  BY DEF Executable, ValidFaucet
<1>5. Logged(txs, st.requestLog) /\ Spaced(txs)
  BY DEF RequestsLogged, txs
<1>6. \A i \in 1 .. Len(txs) : txs[i].to \in Accounts /\ txs[i].at \in Nat
  BY <1>3 DEF Transactions
<1> DEFINE n == Len(txs)
           longer == Append(txs, tx)
<1> HIDE DEF next, txs
<1>7. /\ n \in Nat /\ DOMAIN txs = 1 .. n /\ DOMAIN longer = 1 .. n + 1 /\ Len(longer) = n + 1
      /\ \A i \in 1 .. n : longer[i] = txs[i]
      /\ longer[n + 1] = tx
  BY <1>0, <1>2, <1>3, AppendFacts
<1> HIDE DEF n, longer
\* A transaction that was there: those since it are the ones since it before,
\* and tx if it is a disbursement to the same recipient.
<1>8. ASSUME NEW i \in 1 .. n, NEW j \in 1 .. n
      PROVE  Since(longer, i, j) = Since(txs, i, j) /\ (SystemOnly(longer, i, j) <=> SystemOnly(txs, i, j))
  <2>1. \A k \in i + 1 .. j : k \in 1 .. n
    BY <1>7
  <2>2. Since(longer, i, j) = Since(txs, i, j)
    BY <1>7, <2>1 DEF Since
  <2>3. \A k \in Since(txs, i, j) : longer[k] = txs[k]
    BY <1>7, <2>1 DEF Since
  <2> QED BY <2>2, <2>3 DEF SystemOnly
<1>9. ASSUME NEW i \in 1 .. n, SystemOnly(longer, i, n + 1)
      PROVE  /\ SystemOnly(txs, i, n)
             /\ tx.type = "faucet" /\ tx.to = txs[i].to => BySystem(tx)
  <2>1. Since(longer, i, n) \subseteq Since(longer, i, n + 1)
    BY <1>7 DEF Since
  <2>2. SystemOnly(longer, i, n)
    BY <1>9, <2>1 DEF SystemOnly
  <2>3. n \in 1 .. n
    BY <1>7
  <2>4. SystemOnly(txs, i, n)
    BY <1>8, <2>2, <2>3
  <2>5. ASSUME tx.type = "faucet", tx.to = txs[i].to PROVE BySystem(tx)
    <3>1. n + 1 \in Since(longer, i, n + 1)
      BY <1>7, <2>5 DEF Since
    <3> QED BY <1>7, <1>9, <3>1 DEF SystemOnly
  <2> QED BY <2>4, <2>5
\* So the log has not fallen behind its date.
<1>10. ASSUME NEW i \in 1 .. n, txs[i].type = "faucet", SystemOnly(longer, i, n + 1)
       PROVE  /\ txs[i].at = 0 \/ txs[i].at <= next.requestLog[txs[i].to]
              /\ tx.type = "faucet" /\ tx.to = txs[i].to => txs[i].at = 0 \/ tx.at - txs[i].at >= Cooldown
  <2> DEFINE to == txs[i].to
             first == txs[i].at
             log == st.requestLog[to]
  <2>1. first = 0 \/ first <= log
    BY <1>5, <1>7, <1>9, <1>10 DEF Logged
  <2>2. to \in Accounts /\ first \in Nat /\ log \in Nat
    BY <1>2, <1>3, <1>6, <1>7
  <2>3. next.requestLog[to] = IF tx.to = to /\ tx.type = "faucet" THEN tx.at ELSE log
    BY <1>1, <1>2, <2>2
  <2> HIDE DEF to, first, log
  <2>4. CASE tx.type = "faucet" /\ tx.to = to
    <3>1. BySystem(tx)
      BY <1>9, <1>10, <2>4 DEF to
    <3>2. log = 0 \/ tx.at - log >= Cooldown
      BY <1>4, <2>4, <3>1 DEF log
    <3> QED BY <1>2, <2>1, <2>2, <2>3, <2>4, <3>2 DEF to, first
  <2>5. CASE ~ (tx.type = "faucet" /\ tx.to = to)
    BY <2>1, <2>3, <2>5 DEF to, first
  <2> QED BY <2>4, <2>5
<1>11. Logged(longer, next.requestLog)
  <2> SUFFICES ASSUME NEW i \in 1 .. n + 1, longer[i].type = "faucet", SystemOnly(longer, i, n + 1)
               PROVE  longer[i].at = 0 \/ longer[i].at <= next.requestLog[longer[i].to]
    BY <1>7 DEF Logged
  <2>1. CASE i = n + 1
    <3>1. next.requestLog[tx.to] = tx.at
      BY <1>1, <1>2, <1>7, <2>1
    <3> QED BY <1>2, <1>7, <2>1, <3>1
  <2>2. CASE i \in 1 .. n
    BY <1>7, <1>10, <2>2
  <2> QED BY <1>7, <2>1, <2>2
<1>12. Spaced(longer)
  <2> SUFFICES ASSUME NEW i \in 1 .. n + 1, NEW j \in 1 .. n + 1, longer[i].type = "faucet",
                      j \in Since(longer, i, j), SystemOnly(longer, i, j)
               PROVE  longer[i].at = 0 \/ longer[j].at - longer[i].at >= Cooldown
    BY <1>7 DEF Spaced
  <2>1. i < j /\ i \in 1 .. n /\ longer[j].type = "faucet" /\ longer[j].to = longer[i].to
    BY <1>7 DEF Since
  <2>2. CASE j = n + 1
    <3>1. txs[i].type = "faucet" /\ SystemOnly(longer, i, n + 1)
      BY <1>7, <2>1, <2>2
    <3> QED BY <1>7, <1>10, <2>1, <2>2, <3>1
  <2>3. CASE j \in 1 .. n
    <3>1. j \in Since(txs, i, j) /\ SystemOnly(txs, i, j) /\ longer[i] = txs[i] /\ longer[j] = txs[j]
      BY <1>7, <1>8, <2>1, <2>3
    <3> QED BY <1>5, <1>7, <2>1, <2>3, <3>1 DEF Spaced
  <2> QED BY <1>7, <2>2, <2>3
<1> QED BY <1>1, <1>11, <1>12 DEF RequestsLogged, next, longer

LEMMA ExecutedSound ==
  ASSUME NEW st \in SoundStates, NEW tx \in Legal, Executable(st, tx)
  PROVE  Executed(st, tx) \in SoundStates
<1>1. st \in States /\ tx \in Transactions
  BY DEF SoundStates, Legal
<1> QED BY <1>1, ExecutedTyped, NoncesCounted, RequestsLoggedOn DEF SoundStates

-----------------------------------------------------------------------------
(***************************************************************************)
(* A run executes a queue from a state to the end.  A loose run need not   *)
(* offer the base fee, nor find the funds that the faucet pays out.        *)
(***************************************************************************)
IsRun(st, txs, w) ==
  /\ w[0] = st
  /\ \A k \in 1 .. Len(txs) : Executable(w[k - 1], txs[k]) /\ w[k] = Executed(w[k - 1], txs[k])

Runs(st, txs, end) == \E w : IsRun(st, txs, w) /\ w[Len(txs)] = end

LooselyExecutable(st, tx) ==
  /\ BySystem(tx) => ValidFaucet(st, tx)
  /\ tx.nonce = st.nonces[tx.sender] + 1
  /\ tx.amount > 0
  /\ tx.sender # Faucet => Owed(tx) <= st.balances[tx.sender]

IsLooseRun(st, txs, w) ==
  /\ w[0] = st
  /\ \A k \in 1 .. Len(txs) : LooselyExecutable(w[k - 1], txs[k]) /\ w[k] = Executed(w[k - 1], txs[k])

RunsLoosely(st, txs) == \E w : IsLooseRun(st, txs, w)

LEMMA RunStarts ==
  ASSUME NEW st
  PROVE  Runs(st, <<>>, st)
<1> DEFINE w == [k \in 0 .. 0 |-> st]
<1>1. IsRun(st, <<>>, w) /\ Len(<<>>) = 0 /\ w[0] = st
  BY DEF IsRun
<1> HIDE DEF w
<1> QED BY <1>1 DEF Runs

LEMMA RunGrows ==
  ASSUME NEW st, NEW txs \in Seq(Legal), NEW mid, NEW tx \in Legal,
         Runs(st, txs, mid), Executable(mid, tx)
  PROVE  Runs(st, Append(txs, tx), Executed(mid, tx))
<1>1. PICK w : IsRun(st, txs, w) /\ w[Len(txs)] = mid
  BY DEF Runs
<1> DEFINE n == Len(txs)
           longer == Append(txs, tx)
           v == [k \in 0 .. (n + 1) |-> IF k = n + 1 THEN Executed(mid, tx) ELSE w[k]]
<1>2. n \in Nat /\ Len(longer) = n + 1 /\ longer[n + 1] = tx /\ \A k \in 1 .. n : longer[k] = txs[k]
  BY AppendFacts
<1> HIDE DEF longer, n
<1>3. v[0] = st /\ v[n + 1] = Executed(mid, tx)
  BY <1>1, <1>2 DEF IsRun
<1>4. ASSUME NEW k \in 1 .. (n + 1)
      PROVE  Executable(v[k - 1], longer[k]) /\ v[k] = Executed(v[k - 1], longer[k])
  <2>1. CASE k = n + 1
    <3>1. v[k - 1] = mid /\ longer[k] = tx /\ v[k] = Executed(mid, tx)
      BY <1>1, <1>2, <2>1 DEF n
    <3> QED BY <3>1
  <2>2. CASE k \in 1 .. n
    <3>1. v[k - 1] = w[k - 1] /\ v[k] = w[k] /\ longer[k] = txs[k]
      BY <1>2, <2>2
    <3>2. Executable(w[k - 1], txs[k]) /\ w[k] = Executed(w[k - 1], txs[k])
      BY <1>1, <2>2 DEF IsRun, n
    <3> QED BY <3>1, <3>2
  <2> QED BY <1>2, <2>1, <2>2
<1> HIDE DEF v
<1>5. IsRun(st, longer, v) /\ v[Len(longer)] = Executed(mid, tx)
  BY <1>2, <1>3, <1>4 DEF IsRun
<1> QED BY <1>5 DEF Runs, longer

\* What runs is rejected in no part.
LEMMA RunReplays ==
  ASSUME NEW st, NEW txs \in Seq(Legal), NEW w, IsRun(st, txs, w)
  PROVE  Projection(st, txs).rejected = <<>> /\ Projection(st, txs).state = w[Len(txs)]
<1> DEFINE n == Len(txs)
           At(k) == [state : {w[k]}, retained : Seq(Legal), rejected : {<<>>}]
           T == UNION {{k} \X At(k) : k \in 0 .. n}
<1>1. n \in Nat /\ \A k \in 1 .. n : txs[k] \in Legal
  OBVIOUS
<1>2. \A k, p : <<k, p>> \in T <=> k \in 0 .. n /\ p \in At(k)
  OBVIOUS
<1> HIDE DEF T
<1>3. <<0, Untried(st)>> \in T
  <2>1. Untried(st) \in At(0)
    BY DEF Untried, IsRun
  <2>2. 0 \in 0 .. n
    BY <1>1
  <2> QED BY <1>2, <2>1, <2>2
<1>4. ASSUME NEW k \in 0 .. (n - 1), NEW p, <<k, p>> \in T
      PROVE  <<k + 1, Tried(p, txs[k + 1])>> \in T
  <2> DEFINE tx == txs[k + 1]
  <2>1. p \in At(k)
    BY <1>2, <1>4
  <2>2. k + 1 \in 1 .. n /\ k + 1 \in 0 .. n /\ (k + 1) - 1 = k /\ tx \in Legal
    BY <1>1
  <2>3. Executable(w[k], tx) /\ w[k + 1] = Executed(w[k], tx)
    BY <2>2 DEF IsRun
  <2> HIDE DEF tx
  <2>4. p.state = w[k] /\ p.retained \in Seq(Legal) /\ p.rejected = <<>>
    BY <2>1
  <2>5. Tried(p, tx) = [p EXCEPT !.state = Executed(@, tx), !.retained = Append(@, tx)]
    BY <2>3, <2>4, Zenon DEF Tried
  <2>6. Append(p.retained, tx) \in Seq(Legal)
    BY <2>2, <2>4, AppendFacts
  <2>7. Tried(p, tx) \in At(k + 1)
    BY <2>1, <2>3, <2>4, <2>5, <2>6
  <2> QED BY <1>2, <2>2, <2>7 DEF tx
<1>5. <<n, Projection(st, txs)>> \in T
  BY <1>1, <1>3, <1>4, ProjectionInduction
<1>6. Projection(st, txs) \in At(n)
  BY <1>2, <1>5
<1> QED BY <1>6

LEMMA RunSound ==
  ASSUME NEW st \in SoundStates, NEW txs \in Seq(Legal), NEW w, IsRun(st, txs, w), NEW n \in 0 .. Len(txs)
  PROVE  w[n] \in SoundStates
<1> DEFINE T == {m \in 0 .. n : w[m] \in SoundStates}
<1>1. 0 \in T
  BY DEF IsRun
<1>2. ASSUME NEW m \in 0 .. (n - 1), m \in T PROVE m + 1 \in T
  <2>1. m + 1 \in 1 .. Len(txs) /\ m + 1 \in 0 .. n /\ (m + 1) - 1 = m /\ txs[m + 1] \in Legal
    OBVIOUS
  <2>2. Executable(w[m], txs[m + 1]) /\ w[m + 1] = Executed(w[m], txs[m + 1])
    BY <2>1 DEF IsRun
  <2>3. w[m + 1] \in SoundStates
    BY <1>2, <2>1, <2>2, ExecutedSound
  <2> QED BY <2>1, <2>3
<1> HIDE DEF T
<1>3. n \in Nat
  OBVIOUS
<1>4. n \in T
  BY <1>1, <1>2, <1>3, IntervalInduction
<1> QED BY <1>4 DEF T

-----------------------------------------------------------------------------
(***************************************************************************)
(* What holds of a queue whose first k transactions were tried.            *)
(***************************************************************************)
Tries == [state : SoundStates, retained : Seq(Legal), rejected : Seq(Legal)]

First(txs, k) == {txs[i] : i \in 1 .. k}

Extends(short, long) ==
  Len(short) <= Len(long) /\ \A i \in 1 .. Len(short) : long[i] = short[i]

Sorted(txs, k, p) ==
  /\ ToSet(p.retained) \cup ToSet(p.rejected) = First(txs, k)
  /\ Distinct(txs) => ToSet(p.retained) \cap ToSet(p.rejected) = {}

Grown(st, p) ==
  /\ ToSet(p.state.transactions) = ToSet(st.transactions) \cup ToSet(p.retained)
  /\ Extends(st.transactions, p.state.transactions)

LastNonce(st, p, a) ==
  \/ p.state.nonces[a] = st.nonces[a]
  \/ \E i \in DOMAIN p.retained : p.retained[i].sender = a /\ p.retained[i].nonce = p.state.nonces[a]

Advanced(st, p) ==
  /\ Rising(st.nonces, p.retained)
  /\ \A a \in Accounts : st.nonces[a] <= p.state.nonces[a]
  /\ \A i \in DOMAIN p.retained : p.retained[i].nonce <= p.state.nonces[p.retained[i].sender]
  /\ \A a \in Accounts : LastNonce(st, p, a)

Progress(st, txs, k, p) ==
  /\ p \in Tries /\ Sorted(txs, k, p) /\ Grown(st, p) /\ Advanced(st, p)
  /\ Runs(st, p.retained, p.state)

LEMMA ProgressStarts ==
  ASSUME NEW st \in SoundStates, NEW txs
  PROVE  Progress(st, txs, 0, Untried(st))
<1>1. /\ <<>> \in Seq(Legal) /\ ToSet(<<>>) = {} /\ DOMAIN <<>> = {} /\ First(txs, 0) = {}
  BY DEF ToSet, First
<1>2. st \in States /\ \A a \in Accounts : st.nonces[a] \in Nat
  BY DEF SoundStates, States
<1>3. Len(st.transactions) \in Nat
  BY <1>2 DEF States
<1>4. Untried(st) = [state |-> st, retained |-> <<>>, rejected |-> <<>>]
  BY DEF Untried
<1>5. Untried(st) \in Tries
  BY <1>1, <1>4 DEF Tries
<1>6. Sorted(txs, 0, Untried(st))
  BY <1>1, <1>4 DEF Sorted
<1>7. Grown(st, Untried(st))
  BY <1>1, <1>3, <1>4 DEF Grown, Extends
<1>8. Advanced(st, Untried(st))
  BY <1>1, <1>2, <1>4 DEF Advanced, LastNonce, Rising
<1>9. Runs(st, Untried(st).retained, Untried(st).state)
  BY <1>4, RunStarts
<1> QED BY <1>5, <1>6, <1>7, <1>8, <1>9 DEF Progress

LEMMA FirstGrows ==
  ASSUME NEW txs \in Seq(Legal), NEW k \in 0 .. (Len(txs) - 1)
  PROVE  /\ First(txs, k + 1) = First(txs, k) \cup {txs[k + 1]}
         /\ txs[k + 1] \in Legal
         /\ Distinct(txs) => txs[k + 1] \notin First(txs, k)
<1>1. /\ Len(txs) \in Nat /\ DOMAIN txs = 1 .. Len(txs) /\ k \in Nat /\ k + 1 \in 1 .. Len(txs)
      /\ 1 .. (k + 1) = 1 .. k \cup {k + 1}
      /\ \A i \in 1 .. k : i \in 1 .. Len(txs) /\ i # k + 1
  OBVIOUS
<1>2. First(txs, k + 1) = First(txs, k) \cup {txs[k + 1]}
  BY <1>1 DEF First
<1>3. Distinct(txs) => txs[k + 1] \notin First(txs, k)
  BY <1>1 DEF Distinct, First
<1> QED BY <1>1, <1>2, <1>3

LEMMA ProgressRetains ==
  ASSUME NEW st \in SoundStates, NEW txs \in Seq(Legal), NEW k \in 0 .. (Len(txs) - 1), NEW p,
         Progress(st, txs, k, p), Executable(p.state, txs[k + 1])
  PROVE  Progress(st, txs, k + 1, Tried(p, txs[k + 1]))
<1> DEFINE tx == txs[k + 1]
           q == Tried(p, tx)
<1>1. /\ First(txs, k + 1) = First(txs, k) \cup {tx}
      /\ tx \in Legal /\ tx \in Transactions
      /\ Distinct(txs) => tx \notin First(txs, k)
  BY FirstGrows DEF Legal
<1>2. p \in Tries /\ p.state \in SoundStates /\ p.retained \in Seq(Legal) /\ p.rejected \in Seq(Legal)
  BY DEF Progress, Tries
<1>3. q = [state |-> Executed(p.state, tx), retained |-> Append(p.retained, tx), rejected |-> p.rejected]
  <2>1. q = [p EXCEPT !.state = Executed(@, tx), !.retained = Append(@, tx)]
    BY Zenon DEF Tried
  <2> HIDE DEF q, tx
  <2> QED BY <1>2, <2>1 DEF Tries
<1>0. Executable(p.state, tx)
  OBVIOUS
<1> HIDE DEF q, tx
<1>4. q.state = Executed(p.state, tx) /\ q.retained = Append(p.retained, tx) /\ q.rejected = p.rejected
  BY <1>3
<1>5. q.state \in SoundStates
  BY <1>0, <1>1, <1>2, <1>4, ExecutedSound
<1>6. /\ Append(p.retained, tx) \in Seq(Legal)
      /\ Len(p.retained) \in Nat /\ DOMAIN p.retained = 1 .. Len(p.retained)
      /\ DOMAIN Append(p.retained, tx) = 1 .. Len(p.retained) + 1
      /\ \A i \in 1 .. Len(p.retained) : Append(p.retained, tx)[i] = p.retained[i]
      /\ Append(p.retained, tx)[Len(p.retained) + 1] = tx
      /\ ToSet(Append(p.retained, tx)) = ToSet(p.retained) \cup {tx}
  BY <1>1, <1>2, AppendFacts
<1>7. q \in Tries
  BY <1>2, <1>3, <1>4, <1>5, <1>6 DEF Tries
<1>8. Sorted(txs, k + 1, q)
  BY <1>1, <1>4, <1>6, Zenon DEF Progress, Sorted
<1>9. /\ st \in States /\ p.state \in States /\ q.state \in States
      /\ tx.nonce = p.state.nonces[tx.sender] + 1
      /\ q.state.nonces = [p.state.nonces EXCEPT ![tx.sender] = tx.nonce]
      /\ q.state.transactions = Append(p.state.transactions, tx)
  <2>1. st \in States /\ p.state \in States /\ q.state \in States
    BY <1>2, <1>5 DEF SoundStates
  <2>2. /\ tx.nonce = p.state.nonces[tx.sender] + 1
        /\ Executed(p.state, tx).nonces = [p.state.nonces EXCEPT ![tx.sender] = tx.nonce]
        /\ Executed(p.state, tx).transactions = Append(p.state.transactions, tx)
    BY <1>0, <1>1, <2>1, ExecutedTyped
  <2> QED BY <1>4, <2>1, <2>2
<1>10. Grown(st, q)
  <2>1. st.transactions \in Seq(Transactions) /\ p.state.transactions \in Seq(Transactions)
    BY <1>9 DEF States
  <2>2. Len(st.transactions) \in Nat
    BY <2>1
  <2>3. /\ Len(p.state.transactions) \in Nat
        /\ Len(Append(p.state.transactions, tx)) = Len(p.state.transactions) + 1
        /\ \A i \in 1 .. Len(p.state.transactions) :
             Append(p.state.transactions, tx)[i] = p.state.transactions[i]
        /\ ToSet(Append(p.state.transactions, tx)) = ToSet(p.state.transactions) \cup {tx}
    BY <1>1, <2>1, AppendFacts
  <2>4. ToSet(q.state.transactions) = ToSet(st.transactions) \cup ToSet(q.retained)
    BY <1>4, <1>6, <1>9, <2>3, Zenon DEF Progress, Grown
  <2>5. Extends(st.transactions, p.state.transactions)
    BY DEF Progress, Grown
  <2>6. Extends(st.transactions, q.state.transactions)
    BY <1>9, <2>2, <2>3, <2>5 DEF Extends
  <2> QED BY <2>4, <2>6 DEF Grown
<1>11. /\ tx.sender \in Accounts /\ tx.nonce \in Nat
       /\ \A a \in Accounts : st.nonces[a] \in Nat /\ p.state.nonces[a] \in Nat /\ q.state.nonces[a] \in Nat
       /\ \A i \in 1 .. Len(p.retained) : p.retained[i].sender \in Accounts /\ p.retained[i].nonce \in Nat
  <2>1. tx.sender \in Accounts /\ tx.nonce \in Nat
    BY <1>1 DEF Transactions
  <2>2. \A a \in Accounts : st.nonces[a] \in Nat /\ p.state.nonces[a] \in Nat /\ q.state.nonces[a] \in Nat
    BY <1>9 DEF States
  <2>3. \A i \in 1 .. Len(p.retained) : p.retained[i] \in Transactions
    BY <1>2, <1>6 DEF Legal
  <2>4. \A i \in 1 .. Len(p.retained) : p.retained[i].sender \in Accounts /\ p.retained[i].nonce \in Nat
    BY <2>3 DEF Transactions
  <2> QED BY <2>1, <2>2, <2>4
<1>12. /\ Rising(st.nonces, p.retained)
       /\ \A a \in Accounts : st.nonces[a] <= p.state.nonces[a]
       /\ \A i \in 1 .. Len(p.retained) : p.retained[i].nonce <= p.state.nonces[p.retained[i].sender]
       /\ \A a \in Accounts : LastNonce(st, p, a)
  BY <1>6 DEF Progress, Advanced
<1>13. \A a \in Accounts : p.state.nonces[a] <= q.state.nonces[a]
  BY <1>9, <1>11
<1>14. q.state.nonces[tx.sender] = tx.nonce
  BY <1>9, <1>11 DEF States
<1>15. Advanced(st, q)
  <2>1. Rising(st.nonces, q.retained)
    <3>1. \A i \in 1 .. Len(p.retained) + 1 :
            st.nonces[Append(p.retained, tx)[i].sender] < Append(p.retained, tx)[i].nonce
      <4> SUFFICES ASSUME NEW i \in 1 .. Len(p.retained) + 1
                   PROVE  st.nonces[Append(p.retained, tx)[i].sender] < Append(p.retained, tx)[i].nonce
        OBVIOUS
      <4>1. CASE i = Len(p.retained) + 1
        <5>1. st.nonces[tx.sender] <= p.state.nonces[tx.sender]
          BY <1>11, <1>12
        <5>2. tx.nonce = p.state.nonces[tx.sender] + 1
          BY <1>9
        <5>3. st.nonces[tx.sender] < tx.nonce
          BY <1>11, <5>1, <5>2
        <5>4. Append(p.retained, tx)[i] = tx
          BY <1>6, <4>1
        <5> QED BY <5>3, <5>4
      <4>2. CASE i \in 1 .. Len(p.retained)
        BY <1>6, <1>12, <4>2 DEF Rising
      <4> QED BY <1>6, <4>1, <4>2
    <3>2. \A i, j \in 1 .. Len(p.retained) + 1 :
            i < j /\ Append(p.retained, tx)[i].sender = Append(p.retained, tx)[j].sender
              => Append(p.retained, tx)[i].nonce < Append(p.retained, tx)[j].nonce
      <4> SUFFICES ASSUME NEW i \in 1 .. Len(p.retained) + 1, NEW j \in 1 .. Len(p.retained) + 1, i < j,
                          Append(p.retained, tx)[i].sender = Append(p.retained, tx)[j].sender
                   PROVE  Append(p.retained, tx)[i].nonce < Append(p.retained, tx)[j].nonce
        OBVIOUS
      <4>1. i \in 1 .. Len(p.retained) /\ Append(p.retained, tx)[i] = p.retained[i]
        BY <1>6
      <4>2. CASE j \in 1 .. Len(p.retained)
        BY <1>6, <1>12, <4>1, <4>2 DEF Rising
      <4>3. CASE j = Len(p.retained) + 1
        <5>1. p.retained[i].sender = tx.sender /\ Append(p.retained, tx)[j] = tx
          BY <1>6, <4>1, <4>3
        <5>2. p.retained[i].nonce <= p.state.nonces[tx.sender]
          BY <1>12, <4>1, <5>1
        <5>3. p.retained[i].nonce \in Nat /\ tx.nonce \in Nat /\ p.state.nonces[tx.sender] \in Nat
          BY <1>11, <4>1
        <5>4. tx.nonce = p.state.nonces[tx.sender] + 1
          BY <1>9
        <5>5. p.retained[i].nonce < tx.nonce
          BY <5>2, <5>3, <5>4
        <5> QED BY <4>1, <5>1, <5>5
      <4> QED BY <1>6, <4>2, <4>3
    <3> QED BY <1>4, <1>6, <3>1, <3>2 DEF Rising
  <2>2. \A a \in Accounts : st.nonces[a] <= q.state.nonces[a]
    <3> TAKE a \in Accounts
    <3>1. st.nonces[a] <= p.state.nonces[a] /\ p.state.nonces[a] <= q.state.nonces[a]
      BY <1>12, <1>13
    <3> QED BY <1>11, <3>1
  <2>3. \A i \in DOMAIN q.retained : q.retained[i].nonce <= q.state.nonces[q.retained[i].sender]
    <3> SUFFICES ASSUME NEW i \in 1 .. Len(p.retained) + 1
                 PROVE  Append(p.retained, tx)[i].nonce <= q.state.nonces[Append(p.retained, tx)[i].sender]
      BY <1>4, <1>6
    <3>1. CASE i = Len(p.retained) + 1
      BY <1>6, <1>11, <1>14, <3>1
    <3>2. CASE i \in 1 .. Len(p.retained)
      <4>1. p.retained[i].sender \in Accounts /\ p.retained[i].nonce \in Nat
        BY <1>11, <3>2
      <4>2. /\ p.retained[i].nonce <= p.state.nonces[p.retained[i].sender]
            /\ p.state.nonces[p.retained[i].sender] <= q.state.nonces[p.retained[i].sender]
        BY <1>12, <1>13, <3>2, <4>1
      <4>3. /\ p.state.nonces[p.retained[i].sender] \in Nat
            /\ q.state.nonces[p.retained[i].sender] \in Nat
        BY <1>11, <4>1
      <4>4. p.retained[i].nonce <= q.state.nonces[p.retained[i].sender]
        BY <4>1, <4>2, <4>3
      <4>5. Append(p.retained, tx)[i] = p.retained[i]
        BY <1>6, <3>2
      <4> QED BY <4>4, <4>5
    <3> QED BY <1>6, <3>1, <3>2
  <2>4. \A a \in Accounts : LastNonce(st, q, a)
    <3> TAKE a \in Accounts
    <3>1. CASE a = tx.sender
      <4> DEFINE n == Len(p.retained) + 1
      <4>1. n \in DOMAIN q.retained /\ q.retained[n] = tx
        BY <1>4, <1>6
      <4>2. q.retained[n].sender = a /\ q.retained[n].nonce = q.state.nonces[a]
        BY <1>14, <3>1, <4>1
      <4> HIDE DEF n
      <4> QED BY <4>1, <4>2 DEF LastNonce
    <3>2. CASE a # tx.sender
      <4>1. q.state.nonces[a] = p.state.nonces[a]
        BY <1>9, <3>2 DEF States
      <4>2. CASE p.state.nonces[a] = st.nonces[a]
        BY <4>1, <4>2 DEF LastNonce
      <4>3. CASE \E i \in DOMAIN p.retained : p.retained[i].sender = a /\ p.retained[i].nonce = p.state.nonces[a]
        <5>1. PICK i \in DOMAIN p.retained : p.retained[i].sender = a /\ p.retained[i].nonce = p.state.nonces[a]
          BY <4>3
        <5>2. i \in DOMAIN q.retained /\ q.retained[i] = p.retained[i]
          BY <1>4, <1>6
        <5> QED BY <4>1, <5>1, <5>2 DEF LastNonce
      <4> QED BY <1>12, <4>2, <4>3 DEF LastNonce
    <3> QED BY <3>1, <3>2
  <2> QED BY <2>1, <2>2, <2>3, <2>4 DEF Advanced
<1>16. Runs(st, q.retained, q.state)
  <2>1. Runs(st, p.retained, p.state)
    BY DEF Progress
  <2> QED BY <1>0, <1>1, <1>2, <1>4, <2>1, RunGrows
<1> QED BY <1>7, <1>8, <1>10, <1>15, <1>16 DEF Progress, q, tx

LEMMA ProgressRejects ==
  ASSUME NEW st \in SoundStates, NEW txs \in Seq(Legal), NEW k \in 0 .. (Len(txs) - 1), NEW p,
         Progress(st, txs, k, p), ~ Executable(p.state, txs[k + 1])
  PROVE  Progress(st, txs, k + 1, Tried(p, txs[k + 1]))
<1> DEFINE tx == txs[k + 1]
           q == Tried(p, tx)
<1>1. /\ First(txs, k + 1) = First(txs, k) \cup {tx}
      /\ tx \in Legal
      /\ Distinct(txs) => tx \notin First(txs, k)
  BY FirstGrows
<1>2. p \in Tries /\ p.state \in SoundStates /\ p.retained \in Seq(Legal) /\ p.rejected \in Seq(Legal)
  BY DEF Progress, Tries
<1>3. q = [state |-> p.state, retained |-> p.retained, rejected |-> Append(p.rejected, tx)]
  <2>1. q = [p EXCEPT !.rejected = Append(@, tx)]
    BY Zenon DEF Tried
  <2> HIDE DEF q, tx
  <2> QED BY <1>2, <2>1 DEF Tries
<1> HIDE DEF q, tx
<1>4. q.state = p.state /\ q.retained = p.retained /\ q.rejected = Append(p.rejected, tx)
  BY <1>3
<1>5. Append(p.rejected, tx) \in Seq(Legal) /\ ToSet(Append(p.rejected, tx)) = ToSet(p.rejected) \cup {tx}
  BY <1>1, <1>2, AppendFacts
<1>6. q \in Tries
  BY <1>2, <1>3, <1>5 DEF Tries
<1>7. Sorted(txs, k + 1, q)
  BY <1>1, <1>4, <1>5, Zenon DEF Progress, Sorted
<1>8. Grown(st, q) /\ Advanced(st, q)
  <2>1. Grown(st, q)
    BY <1>4, Zenon DEF Progress, Grown
  <2>2. Advanced(st, q)
    <3>1. Advanced(st, p) /\ q.state = p.state /\ q.retained = p.retained
      BY <1>4 DEF Progress
    <3>2. \A a \in Accounts : LastNonce(st, p, a) => LastNonce(st, q, a)
      BY <3>1 DEF LastNonce
    <3> QED BY <3>1, <3>2, Zenon DEF Advanced
  <2> QED BY <2>1, <2>2
<1>9. Runs(st, q.retained, q.state)
  BY <1>4 DEF Progress
<1> QED BY <1>6, <1>7, <1>8, <1>9 DEF Progress, q, tx

\* What projectPendingTransactions does to any queue.
LEMMA ProjectionFacts ==
  ASSUME NEW st \in SoundStates, NEW txs \in Seq(Legal)
  PROVE  Progress(st, txs, Len(txs), Projection(st, txs))
<1> DEFINE Pairs == [n : 0 .. Len(txs), p : Tries]
           T == {<<r.n, r.p>> : r \in {s \in Pairs : Progress(st, txs, s.n, s.p)}}
<1>1. Len(txs) \in Nat
  OBVIOUS
<1>2. \A k \in 0 .. Len(txs) : \A p : Progress(st, txs, k, p) => <<k, p>> \in T
  <2> SUFFICES ASSUME NEW k \in 0 .. Len(txs), NEW p, Progress(st, txs, k, p) PROVE <<k, p>> \in T
    OBVIOUS
  <2>1. p \in Tries
    BY DEF Progress
  <2> DEFINE r == [n |-> k, p |-> p]
  <2>2. r \in Pairs /\ r.n = k /\ r.p = p
    BY <2>1
  <2> QED BY <2>2
<1>3. \A k, p : <<k, p>> \in T => Progress(st, txs, k, p)
  OBVIOUS
<1> HIDE DEF T
<1>4. <<0, Untried(st)>> \in T
  BY <1>1, <1>2, ProgressStarts
<1>5. ASSUME NEW k \in 0 .. (Len(txs) - 1), NEW p, <<k, p>> \in T
      PROVE  <<k + 1, Tried(p, txs[k + 1])>> \in T
  <2>1. Progress(st, txs, k, p)
    BY <1>3, <1>5
  <2>2. Progress(st, txs, k + 1, Tried(p, txs[k + 1]))
    BY <2>1, ProgressRetains, ProgressRejects
  <2>3. k + 1 \in 0 .. Len(txs)
    BY <1>1
  <2> QED BY <1>2, <2>2, <2>3
<1>6. <<Len(txs), Projection(st, txs)>> \in T
  BY <1>1, <1>4, <1>5, ProjectionInduction
<1> QED BY <1>3, <1>6

-----------------------------------------------------------------------------
\* The queue without a set is filled transaction by transaction.
KeptWith(kept, tx, S) == IF tx \in S THEN kept ELSE Append(kept, tx)

IsKeptTable(queue, S, n, g) ==
  g = [k \in 0 .. n |-> IF k = 0 THEN <<>> ELSE KeptWith(g[k - 1], queue[k], S)]

LEMMA KeptTableExists ==
  ASSUME NEW queue, NEW S, NEW n \in Nat
  PROVE  \E g : IsKeptTable(queue, S, n, g)
<1> DEFINE T == {m \in 0 .. n : \E g : IsKeptTable(queue, S, m, g)}
<1>1. 0 \in T
  <2> DEFINE g == [k \in 0 .. 0 |-> <<>>]
  <2>1. IsKeptTable(queue, S, 0, g)
    BY DEF IsKeptTable
  <2> QED BY <2>1
<1>2. ASSUME NEW m \in 0 .. (n - 1), m \in T PROVE m + 1 \in T
  <2>1. PICK h : IsKeptTable(queue, S, m, h)
    BY <1>2
  <2> DEFINE g == [k \in 0 .. (m + 1) |-> IF k = m + 1 THEN KeptWith(h[m], queue[m + 1], S) ELSE h[k]]
  <2>2. \A k \in 0 .. (m + 1) : g[k] = IF k = 0 THEN <<>> ELSE KeptWith(g[k - 1], queue[k], S)
    BY <2>1 DEF IsKeptTable
  <2>3. IsKeptTable(queue, S, m + 1, g)
    BY <2>2 DEF IsKeptTable
  <2> QED BY <2>3
<1> HIDE DEF T
<1>3. n \in T
  BY <1>1, <1>2, IntervalInduction
<1> QED BY <1>3 DEF T

LEMMA WithoutFacts ==
  ASSUME NEW queue \in Seq(Legal), NEW txs
  PROVE  /\ Without(queue, txs) \in Seq(Legal)
         /\ ToSet(Without(queue, txs)) = ToSet(queue) \ ToSet(txs)
<1> DEFINE n == Len(queue)
           S == ToSet(txs)
           kept == CHOOSE g : g = [k \in 0 .. n |-> IF k = 0 THEN <<>> ELSE KeptWith(g[k - 1], queue[k], S)]
           Good(k) == kept[k] \in Seq(Legal) /\ ToSet(kept[k]) = First(queue, k) \ S
           T == {k \in 0 .. n : Good(k)}
<1>1. n \in Nat /\ ToSet(queue) = First(queue, n)
  BY ToSetOfSeq DEF First
<1>2. Without(queue, txs) = kept[n]
  BY DEF Without, KeptWith
<1> HIDE DEF S
<1>3. kept = [k \in 0 .. n |-> IF k = 0 THEN <<>> ELSE KeptWith(kept[k - 1], queue[k], S)]
  <2>1. PICK g : IsKeptTable(queue, S, n, g)
    BY <1>1, KeptTableExists
  <2> QED BY <2>1 DEF IsKeptTable
<1> HIDE DEF kept
<1>4. 0 \in T
  BY <1>1, <1>3 DEF ToSet, First
<1>5. ASSUME NEW k \in 0 .. (n - 1), k \in T PROVE k + 1 \in T
  <2>1. First(queue, k + 1) = First(queue, k) \cup {queue[k + 1]} /\ queue[k + 1] \in Legal
    BY FirstGrows
  <2>2. k + 1 \in 0 .. n /\ k + 1 # 0 /\ (k + 1) - 1 = k
    BY <1>1
  <2>3. kept[k] \in Seq(Legal) /\ ToSet(kept[k]) = First(queue, k) \ S
    BY <1>5
  <2>4. kept[k + 1] = IF queue[k + 1] \in S THEN kept[k] ELSE Append(kept[k], queue[k + 1])
    BY <1>3, <2>2 DEF KeptWith
  <2>5. CASE queue[k + 1] \in S
    BY <2>1, <2>2, <2>3, <2>4, <2>5
  <2>6. CASE queue[k + 1] \notin S
    <3>1. Append(kept[k], queue[k + 1]) \in Seq(Legal)
          /\ ToSet(Append(kept[k], queue[k + 1])) = ToSet(kept[k]) \cup {queue[k + 1]}
      BY <2>1, <2>3, AppendFacts
    <3> QED BY <2>1, <2>2, <2>3, <2>4, <2>6, <3>1
  <2> QED BY <2>5, <2>6
<1> HIDE DEF T
<1>6. n \in T
  BY <1>1, <1>4, <1>5, IntervalInduction
<1> QED BY <1>1, <1>2, <1>6 DEF T, S

-----------------------------------------------------------------------------
LEMMA BlockEndsSound ==
  ASSUME NEW st \in SoundStates, NEW next \in BlockEnds(st)
  PROVE  /\ next \in SoundStates
         /\ next.nonces = st.nonces /\ next.transactions = st.transactions
<1>1. PICK amount \in Grants, fee \in BaseFees :
        amount <= st.balances[Faucet] /\ next = [Granted(st, amount) EXCEPT !.baseFee = fee]
  BY DEF BlockEnds
<1>2. /\ amount \in Nat /\ fee \in Nat
      /\ Faucet \in Accounts /\ GrantRecipient \in Accounts /\ GrantRecipient # Faucet
  BY MempoolAssumption DEF Accounts
<1>3. st \in States
  BY DEF SoundStates
<1> DEFINE balances == Moved(st.balances, Faucet, GrantRecipient, amount)
<1>4. balances \in [Accounts -> Nat]
  BY <1>1, <1>2, <1>3, MovedTyped DEF States
<1> HIDE DEF balances
<1>5. next = [st EXCEPT !.balances = balances, !.baseFee = fee]
  BY <1>1 DEF Granted, balances
<1>6. /\ next \in States
      /\ next.nonces = st.nonces /\ next.transactions = st.transactions /\ next.requestLog = st.requestLog
  BY <1>2, <1>3, <1>4, <1>5 DEF States
<1>7. NoncesCount(next) /\ RequestsLogged(next)
  BY <1>6, Zenon DEF SoundStates, NoncesCount, RequestsLogged
<1> QED BY <1>6, <1>7 DEF SoundStates

\* Pending transactions are in no log that their nonces rise above.
LEMMA RisingFresh ==
  ASSUME NEW st \in SoundStates, NEW queue \in Seq(Legal), Rising(st.nonces, queue)
  PROVE  Distinct(queue) /\ ToSet(queue) \cap ToSet(st.transactions) = {}
<1>1. /\ Len(queue) \in Nat /\ DOMAIN queue = 1 .. Len(queue)
      /\ \A i \in 1 .. Len(queue) : queue[i] \in Transactions
  BY DEF Legal
<1>2. \A i \in 1 .. Len(queue) : queue[i].nonce \in Nat /\ queue[i].sender \in Accounts
  BY <1>1 DEF Transactions
<1>3. st.nonces \in [Accounts -> Nat] /\ st.transactions \in Seq(Transactions)
  BY DEF SoundStates, States
<1>4. Distinct(queue)
  <2> SUFFICES ASSUME NEW i \in 1 .. Len(queue), NEW j \in 1 .. Len(queue), queue[i] = queue[j], i # j
               PROVE  FALSE
    BY <1>1 DEF Distinct
  <2>1. queue[i].nonce = queue[j].nonce /\ queue[i].sender = queue[j].sender
    OBVIOUS
  <2>2. i < j \/ j < i
    BY <1>1
  <2> QED BY <1>1, <1>2, <2>1, <2>2 DEF Rising
<1>5. ASSUME NEW tx \in ToSet(queue), tx \in ToSet(st.transactions) PROVE FALSE
  <2>1. PICK i \in 1 .. Len(queue) : tx = queue[i]
    BY <1>1, <1>5 DEF ToSet
  <2>2. PICK j \in DOMAIN st.transactions : tx = st.transactions[j]
    BY <1>5 DEF ToSet
  <2>3. tx.nonce <= st.nonces[tx.sender]
    BY <2>2 DEF SoundStates, NoncesCount
  <2>4. st.nonces[tx.sender] < tx.nonce
    BY <1>1, <2>1 DEF Rising
  <2>5. tx.nonce \in Nat /\ st.nonces[tx.sender] \in Nat
    BY <1>2, <1>3, <2>1
  <2> QED BY <2>3, <2>4, <2>5
<1> QED BY <1>4, <1>5

LEMMA SplitFacts ==
  ASSUME NEW queue \in Seq(Legal)
  PROVE  /\ Len(queue) \in Nat /\ DOMAIN queue = 1 .. Len(queue)
         /\ Fitting(queue) \in 0 .. Len(queue)
         /\ Candidates(queue) \in Seq(Legal) /\ DOMAIN Candidates(queue) = 1 .. Fitting(queue)
         /\ \A i \in 1 .. Fitting(queue) : Candidates(queue)[i] = queue[i]
         /\ Overflow(queue) \in Seq(Legal) /\ DOMAIN Overflow(queue) = 1 .. (Len(queue) - Fitting(queue))
         /\ \A i \in 1 .. (Len(queue) - Fitting(queue)) : Overflow(queue)[i] = queue[Fitting(queue) + i]
         /\ ToSet(queue) = ToSet(Candidates(queue)) \cup ToSet(Overflow(queue))
<1> DEFINE f == Fitting(queue)
           c == Candidates(queue)
           o == Overflow(queue)
<1>1. Len(queue) \in Nat /\ DOMAIN queue = 1 .. Len(queue) /\ f \in 0 .. Len(queue)
  BY MempoolAssumption DEF Fitting, Lesser
<1>2. c = SubSeq(queue, 1, f) /\ o = SubSeq(queue, f + 1, Len(queue))
  BY DEF Candidates, Overflow
<1> HIDE DEF f, c, o
<1>3. c \in Seq(Legal) /\ DOMAIN c = 1 .. f /\ \A i \in 1 .. f : c[i] = queue[i]
  BY <1>1, <1>2
<1>4. o \in Seq(Legal) /\ DOMAIN o = 1 .. (Len(queue) - f)
      /\ \A i \in 1 .. (Len(queue) - f) : o[i] = queue[f + i]
  BY <1>1, <1>2
<1>5. ToSet(queue) = ToSet(c) \cup ToSet(o)
  <2>1. ToSet(c) \cup ToSet(o) \subseteq ToSet(queue)
    <3>1. \A i \in 1 .. f : i \in 1 .. Len(queue)
      BY <1>1
    <3>2. \A i \in 1 .. (Len(queue) - f) : f + i \in 1 .. Len(queue)
      BY <1>1
    <3>3. ASSUME NEW tx \in ToSet(c) PROVE tx \in ToSet(queue)
      <4>1. PICK i \in 1 .. f : tx = c[i]
        BY <1>3, <3>3 DEF ToSet
      <4>2. tx = queue[i] /\ i \in DOMAIN queue
        BY <1>1, <1>3, <3>1, <4>1
      <4> QED BY <4>2 DEF ToSet
    <3>4. ASSUME NEW tx \in ToSet(o) PROVE tx \in ToSet(queue)
      <4>1. PICK i \in 1 .. (Len(queue) - f) : tx = o[i]
        BY <1>4, <3>4 DEF ToSet
      <4>2. tx = queue[f + i] /\ f + i \in DOMAIN queue
        BY <1>1, <1>4, <3>2, <4>1
      <4> QED BY <4>2 DEF ToSet
    <3> QED BY <3>3, <3>4
  <2>2. ASSUME NEW i \in 1 .. Len(queue) PROVE queue[i] \in ToSet(c) \cup ToSet(o)
    <3>1. CASE i \in 1 .. f
      BY <1>3, <3>1 DEF ToSet
    <3>2. CASE i \notin 1 .. f
      <4>1. i - f \in 1 .. (Len(queue) - f) /\ f + (i - f) = i
        BY <1>1, <3>2
      <4>2. o[i - f] = queue[i]
        BY <1>4, <4>1
      <4> QED BY <1>4, <4>1, <4>2 DEF ToSet
    <3> QED BY <3>1, <3>2
  <2> QED BY <1>1, <2>1, <2>2 DEF ToSet
<1> QED BY <1>1, <1>3, <1>4, <1>5 DEF f, c, o

-----------------------------------------------------------------------------
(***************************************************************************)
(* What the end of a block changes lets a queue still run loosely: it      *)
(* takes funds of the faucet only, and gives them to somebody.             *)
(***************************************************************************)
LEMMA RunsAreLoose ==
  ASSUME NEW st, NEW txs, NEW end, Runs(st, txs, end)
  PROVE  RunsLoosely(st, txs)
<1>1. PICK w : IsRun(st, txs, w)
  BY DEF Runs
<1>2. \A x, tx : Executable(x, tx) => LooselyExecutable(x, tx)
  BY DEF Executable, LooselyExecutable, Funded
<1>3. IsLooseRun(st, txs, w)
  BY <1>1, <1>2, Zenon DEF IsRun, IsLooseRun
<1> QED BY <1>3 DEF RunsLoosely

Shifted(st, amount, fee) == [Granted(st, amount) EXCEPT !.baseFee = fee]

LEMMA ShiftedFacts ==
  ASSUME NEW st \in SoundStates, NEW amount \in Nat, NEW fee \in Nat
  PROVE  Shifted(st, amount, fee)
           = [balances |-> Moved(st.balances, Faucet, GrantRecipient, amount),
              nonces |-> st.nonces, requestLog |-> st.requestLog, baseFee |-> fee,
              transactions |-> st.transactions]
<1>1. st \in States
  BY DEF SoundStates
<1> DEFINE balances == Moved(st.balances, Faucet, GrantRecipient, amount)
<1> HIDE DEF balances
<1>2. Shifted(st, amount, fee) = [[st EXCEPT !.balances = balances] EXCEPT !.baseFee = fee]
  BY DEF Shifted, Granted, balances
<1>3. Shifted(st, amount, fee)
        = [balances |-> balances, nonces |-> st.nonces, requestLog |-> st.requestLog,
           baseFee |-> fee, transactions |-> st.transactions]
  BY <1>1, <1>2 DEF States
<1> QED BY <1>3 DEF balances

LEMMA GrantAndPay ==
  ASSUME NEW balances \in [Accounts -> Int], NEW tx \in Transactions, NEW amount \in Int
  PROVE  /\ \A a \in Accounts :
              Moved(balances, Faucet, GrantRecipient, amount)[a]
                = balances[a] - Only(a, Faucet, amount) + Only(a, GrantRecipient, amount)
         /\ Paid(Moved(balances, Faucet, GrantRecipient, amount), tx)
              = Moved(Paid(balances, tx), Faucet, GrantRecipient, amount)
<1> DEFINE granted == Moved(balances, Faucet, GrantRecipient, amount)
           paid == Paid(balances, tx)
           left == Paid(granted, tx)
           right == Moved(paid, Faucet, GrantRecipient, amount)
<1>1. Faucet \in Accounts /\ GrantRecipient \in Accounts /\ tx.fee \in Int /\ tx.amount \in Int
  BY MempoolAssumption DEF Accounts, Transactions
<1>2. /\ granted \in [Accounts -> Int]
      /\ \A a \in Accounts :
           granted[a] = balances[a] - Only(a, Faucet, amount) + Only(a, GrantRecipient, amount)
  BY <1>1, MovedAt
<1>3. paid \in [Accounts -> Int] /\ \A a \in Accounts : paid[a] = balances[a] - Only(a, tx.sender, tx.fee)
                                - Only(a, Payer(tx), tx.amount) + Only(a, tx.to, tx.amount)
  BY PaidAt
<1> HIDE DEF granted, paid
<1>4. left \in [Accounts -> Int] /\ \A a \in Accounts : left[a] = granted[a] - Only(a, tx.sender, tx.fee)
                               - Only(a, Payer(tx), tx.amount) + Only(a, tx.to, tx.amount)
  BY <1>2, PaidAt
<1>5. /\ right \in [Accounts -> Int]
      /\ \A a \in Accounts :
           right[a] = paid[a] - Only(a, Faucet, amount) + Only(a, GrantRecipient, amount)
  BY <1>1, <1>3, MovedAt
<1> HIDE DEF left, right
<1>6. ASSUME NEW a \in Accounts PROVE left[a] = right[a]
  <2>1. /\ Only(a, Faucet, amount) \in Int /\ Only(a, GrantRecipient, amount) \in Int
        /\ Only(a, tx.sender, tx.fee) \in Int /\ Only(a, Payer(tx), tx.amount) \in Int
        /\ Only(a, tx.to, tx.amount) \in Int /\ balances[a] \in Int
    BY <1>1 DEF Only
  <2>2. /\ left[a] = granted[a] - Only(a, tx.sender, tx.fee)
                               - Only(a, Payer(tx), tx.amount) + Only(a, tx.to, tx.amount)
        /\ granted[a] = balances[a] - Only(a, Faucet, amount) + Only(a, GrantRecipient, amount)
        /\ right[a] = paid[a] - Only(a, Faucet, amount) + Only(a, GrantRecipient, amount)
        /\ paid[a] = balances[a] - Only(a, tx.sender, tx.fee)
                                - Only(a, Payer(tx), tx.amount) + Only(a, tx.to, tx.amount)
    BY <1>2, <1>3, <1>4, <1>5
  <2> QED BY <2>1, <2>2
<1>7. left = right
  BY <1>4, <1>5, <1>6
<1> QED BY <1>2, <1>7 DEF left, right, granted, paid

LEMMA ShiftedExecutes ==
  ASSUME NEW st \in SoundStates, NEW tx \in Legal, Executable(st, tx), NEW amount \in Nat, NEW fee \in Nat
  PROVE  /\ LooselyExecutable(Shifted(st, amount, fee), tx)
         /\ Executed(Shifted(st, amount, fee), tx) = Shifted(Executed(st, tx), amount, fee)
<1> DEFINE granted == Moved(st.balances, Faucet, GrantRecipient, amount)
           sh == Shifted(st, amount, fee)
           after == Paid(st.balances, tx)
<1>1. /\ tx \in Transactions
      /\ tx.sender \in Accounts /\ tx.to \in Accounts
      /\ tx.amount \in Nat /\ tx.fee \in Nat /\ Owed(tx) \in Int
      /\ Faucet \in Accounts /\ GrantRecipient \in Accounts
  BY MempoolAssumption DEF Legal, Transactions, Accounts, Owed
<1>2. st.balances \in [Accounts -> Int]
  BY DEF SoundStates, States
<1>3. sh = [balances |-> granted, nonces |-> st.nonces, requestLog |-> st.requestLog,
            baseFee |-> fee, transactions |-> st.transactions]
  BY ShiftedFacts
<1>4. \A a \in Accounts :
        granted[a] = st.balances[a] - Only(a, Faucet, amount) + Only(a, GrantRecipient, amount)
  <2>1. amount \in Int
    OBVIOUS
  <2> QED BY <1>1, <1>2, <2>1, GrantAndPay
<1>5. Paid(granted, tx) = Moved(after, Faucet, GrantRecipient, amount)
  <2>1. amount \in Int
    OBVIOUS
  <2> QED BY <1>1, <1>2, <2>1, GrantAndPay
<1> HIDE DEF sh, granted, after
<1>6. LooselyExecutable(sh, tx)
  <2>1. /\ BySystem(tx) => ValidFaucet(st, tx)
        /\ tx.nonce = st.nonces[tx.sender] + 1
        /\ tx.amount > 0
        /\ Owed(tx) <= st.balances[tx.sender]
    BY DEF Executable, Funded
  <2>2. sh.nonces = st.nonces /\ sh.requestLog = st.requestLog /\ sh.balances = granted
    BY <1>3
  <2>3. BySystem(tx) => ValidFaucet(sh, tx)
    BY <2>1, <2>2 DEF ValidFaucet
  <2>4. tx.sender # Faucet => Owed(tx) <= sh.balances[tx.sender]
    <3> SUFFICES ASSUME tx.sender # Faucet PROVE Owed(tx) <= granted[tx.sender]
      BY <2>2
    <3>1. granted[tx.sender] = st.balances[tx.sender] + Only(tx.sender, GrantRecipient, amount)
      BY <1>1, <1>2, <1>4 DEF Only
    <3> QED BY <1>1, <1>2, <2>1, <3>1 DEF Only
  <2> QED BY <2>1, <2>2, <2>3, <2>4 DEF LooselyExecutable
<1>7. Executed(st, tx) \in SoundStates
  BY ExecutedSound
<1>8. Executed(sh, tx) = Shifted(Executed(st, tx), amount, fee)
  <2> DEFINE nonces == [st.nonces EXCEPT ![tx.sender] = tx.nonce]
             requestLog == [st.requestLog EXCEPT ![tx.to] = IF tx.type = "faucet" THEN tx.at ELSE @]
             txs == Append(st.transactions, tx)
  <2> HIDE DEF nonces, requestLog, txs
  <2>1. Executed(st, tx) = [balances |-> after, nonces |-> nonces, requestLog |-> requestLog,
                            baseFee |-> st.baseFee, transactions |-> txs]
    BY Zenon DEF Executed, after, nonces, requestLog, txs
  <2>2. Executed(sh, tx)
          = [balances |-> Paid(sh.balances, tx),
             nonces |-> [sh.nonces EXCEPT ![tx.sender] = tx.nonce],
             requestLog |-> [sh.requestLog EXCEPT ![tx.to] = IF tx.type = "faucet" THEN tx.at ELSE @],
             baseFee |-> sh.baseFee,
             transactions |-> Append(sh.transactions, tx)]
    BY Zenon DEF Executed
  <2>3. /\ sh.balances = granted /\ sh.nonces = st.nonces /\ sh.requestLog = st.requestLog
        /\ sh.baseFee = fee /\ sh.transactions = st.transactions
    BY <1>3
  <2>4. Executed(sh, tx)
          = [balances |-> Moved(after, Faucet, GrantRecipient, amount),
             nonces |-> nonces, requestLog |-> requestLog, baseFee |-> fee, transactions |-> txs]
    BY <1>5, <2>2, <2>3 DEF nonces, requestLog, txs
  <2>5. Shifted(Executed(st, tx), amount, fee)
          = [balances |-> Moved(Executed(st, tx).balances, Faucet, GrantRecipient, amount),
             nonces |-> Executed(st, tx).nonces, requestLog |-> Executed(st, tx).requestLog, baseFee |-> fee,
             transactions |-> Executed(st, tx).transactions]
    BY <1>7, ShiftedFacts
  <2> QED BY <2>1, <2>4, <2>5
<1> QED BY <1>6, <1>8 DEF sh

\* What overflows a block runs loosely after it, whatever the block's end does.
LEMMA OverflowRuns ==
  ASSUME NEW st \in SoundStates, NEW queue \in Seq(Legal), NEW end, Runs(st, queue, end),
         NEW block, block = Projection(st, Candidates(queue)), NEW next \in BlockEnds(block.state)
  PROVE  RunsLoosely(next, Overflow(queue))
<1> DEFINE f == Fitting(queue)
           c == Candidates(queue)
           o == Overflow(queue)
<1>1. /\ Len(queue) \in Nat /\ f \in 0 .. Len(queue)
      /\ c \in Seq(Legal) /\ Len(c) = f /\ \A i \in 1 .. f : c[i] = queue[i]
      /\ o \in Seq(Legal) /\ Len(o) = Len(queue) - f
      /\ \A i \in 1 .. (Len(queue) - f) : o[i] = queue[f + i]
  <2>1. /\ Len(queue) \in Nat /\ f \in 0 .. Len(queue)
        /\ c \in Seq(Legal) /\ DOMAIN c = 1 .. f /\ \A i \in 1 .. f : c[i] = queue[i]
        /\ o \in Seq(Legal) /\ DOMAIN o = 1 .. (Len(queue) - f)
        /\ \A i \in 1 .. (Len(queue) - f) : o[i] = queue[f + i]
    BY SplitFacts
  <2> HIDE DEF f, c, o
  <2>2. Len(c) = f /\ Len(o) = Len(queue) - f
    BY <2>1
  <2> QED BY <2>1, <2>2
<1>2. PICK w : IsRun(st, queue, w)
  BY DEF Runs
<1> HIDE DEF f, c, o
<1>3. IsRun(st, c, w)
  <2>1. \A k \in 1 .. f : k \in 1 .. Len(queue)
    BY <1>1
  <2> QED BY <1>1, <1>2, <2>1 DEF IsRun
<1>4. block.state = w[f]
  BY <1>1, <1>3, RunReplays DEF c
<1>5. PICK amount \in Grants, fee \in BaseFees : next = Shifted(w[f], amount, fee)
  BY <1>4 DEF BlockEnds, Shifted
<1>6. amount \in Nat /\ fee \in Nat
  BY MempoolAssumption
<1> DEFINE v == [k \in 0 .. Len(o) |-> Shifted(w[f + k], amount, fee)]
<1>7. v[0] = next
  BY <1>1, <1>5
<1>8. ASSUME NEW k \in 1 .. Len(o)
      PROVE  LooselyExecutable(v[k - 1], o[k]) /\ v[k] = Executed(v[k - 1], o[k])
  <2>1. /\ f + k \in 1 .. Len(queue) /\ (f + k) - 1 = f + (k - 1) /\ f + (k - 1) \in 0 .. Len(queue)
        /\ o[k] = queue[f + k] /\ o[k] \in Legal /\ k - 1 \in 0 .. Len(o) /\ k \in 0 .. Len(o)
    BY <1>1
  <2>2. Executable(w[f + (k - 1)], o[k]) /\ w[f + k] = Executed(w[f + (k - 1)], o[k])
    BY <1>2, <2>1 DEF IsRun
  <2>3. w[f + (k - 1)] \in SoundStates
    BY <1>2, <2>1, RunSound
  <2>4. v[k - 1] = Shifted(w[f + (k - 1)], amount, fee) /\ v[k] = Shifted(w[f + k], amount, fee)
    BY <2>1
  <2> HIDE DEF v
  <2> QED BY <1>6, <2>1, <2>2, <2>3, <2>4, ShiftedExecutes
<1> HIDE DEF v
<1>9. IsLooseRun(next, o, v)
  BY <1>7, <1>8 DEF IsLooseRun
<1> QED BY <1>9 DEF RunsLoosely, o

-----------------------------------------------------------------------------
(***************************************************************************)
(* Rejections.                                                             *)
(***************************************************************************)
Stages == {"admission", "pre-faucet", "pre-block", "block", "post-block"}
Records == [tx : Transactions, stage : Stages]
Recorded(records) == {records[i].tx : i \in DOMAIN records}

LEMMA RejectionsFacts ==
  ASSUME NEW txs \in Seq(Legal), NEW stage \in Stages
  PROVE  Rejections(txs, stage) \in Seq(Records) /\ Recorded(Rejections(txs, stage)) = ToSet(txs)
<1>1. Len(txs) \in Nat /\ DOMAIN txs = 1 .. Len(txs) /\ \A i \in 1 .. Len(txs) : txs[i] \in Transactions
  BY DEF Legal
<1>2. Rejections(txs, stage) = [i \in 1 .. Len(txs) |-> [tx |-> txs[i], stage |-> stage]]
  BY <1>1 DEF Rejections
<1>3. \A i \in 1 .. Len(txs) : [tx |-> txs[i], stage |-> stage] \in Records
  BY <1>1 DEF Records
<1>4. Rejections(txs, stage) \in Seq(Records)
  BY <1>1, <1>2, <1>3
<1>5. \A i \in 1 .. Len(txs) : Rejections(txs, stage)[i].tx = txs[i]
  BY <1>2
<1>6. Recorded(Rejections(txs, stage)) = ToSet(txs)
  BY <1>1, <1>2, <1>5 DEF Recorded, ToSet
<1> QED BY <1>4, <1>6

LEMMA RecordedTwice ==
  ASSUME NEW r \in Seq(Records), NEW s \in Seq(Records)
  PROVE  r \o s \in Seq(Records) /\ Recorded(r \o s) = Recorded(r) \cup Recorded(s)
<1>1. /\ r \o s \in Seq(Records)
      /\ Len(r) \in Nat /\ Len(s) \in Nat /\ DOMAIN r = 1 .. Len(r) /\ DOMAIN s = 1 .. Len(s)
      /\ DOMAIN (r \o s) = 1 .. (Len(r) + Len(s))
      /\ \A i \in 1 .. Len(r) : (r \o s)[i] = r[i]
      /\ \A i \in 1 .. Len(s) : (r \o s)[Len(r) + i] = s[i]
  OBVIOUS
<1>2. ASSUME NEW tx \in Recorded(r) PROVE tx \in Recorded(r \o s)
  <2>1. PICK i \in 1 .. Len(r) : tx = r[i].tx
    BY <1>1, <1>2 DEF Recorded
  <2>2. i \in DOMAIN (r \o s) /\ (r \o s)[i] = r[i]
    BY <1>1
  <2> QED BY <2>1, <2>2 DEF Recorded
<1>3. ASSUME NEW tx \in Recorded(s) PROVE tx \in Recorded(r \o s)
  <2>1. PICK i \in 1 .. Len(s) : tx = s[i].tx
    BY <1>1, <1>3 DEF Recorded
  <2>2. Len(r) + i \in DOMAIN (r \o s) /\ (r \o s)[Len(r) + i] = s[i]
    BY <1>1
  <2> QED BY <2>1, <2>2 DEF Recorded
<1>4. ASSUME NEW tx \in Recorded(r \o s) PROVE tx \in Recorded(r) \cup Recorded(s)
  <2>1. PICK i \in 1 .. (Len(r) + Len(s)) : tx = (r \o s)[i].tx
    BY <1>1, <1>4 DEF Recorded
  <2>2. CASE i \in 1 .. Len(r)
    BY <1>1, <2>1, <2>2 DEF Recorded
  <2>3. CASE i \notin 1 .. Len(r)
    <3>1. i - Len(r) \in 1 .. Len(s) /\ Len(r) + (i - Len(r)) = i
      BY <1>1, <2>3
    <3>2. tx = s[i - Len(r)].tx /\ i - Len(r) \in DOMAIN s
      BY <1>1, <2>1, <3>1
    <3> QED BY <3>2 DEF Recorded
  <2> QED BY <2>2, <2>3
<1> QED BY <1>1, <1>2, <1>3, <1>4

-----------------------------------------------------------------------------
(***************************************************************************)
(* Steps of the abstract log and pool.                                     *)
(***************************************************************************)
Pool == ToSet(mempool)
PromiseStep == Promise!Next \/ UNCHANGED <<state.transactions, ToSet(mempool)>>

LEMMA PromiseOperators ==
  /\ \A S : Promise!Cardinality(S) = Cardinality(S)
  /\ \A s : Promise!ToSet(s) = ToSet(s)
  /\ \A s, t : Promise!IsPrefix(s, t) <=> IsPrefix(s, t)
<1>1. ASSUME NEW S PROVE Promise!Cardinality(S) = Cardinality(S)
  BY DEF Promise!Cardinality, Cardinality
<1>2. ASSUME NEW s PROVE Promise!ToSet(s) = ToSet(s)
  BY DEF Promise!ToSet, ToSet
<1>3. ASSUME NEW s, NEW t PROVE Promise!IsPrefix(s, t) <=> IsPrefix(s, t)
  BY Zenon DEF Promise!IsPrefix, IsPrefix
<1> QED BY <1>1, <1>2, <1>3

LEMMA PromisedOrder ==
  ASSUME NEW txs, InOrder(txs)
  PROVE  Promise!InNonceOrder(txs)
  BY PromiseOperators DEF InOrder, Promise!InNonceOrder

LEMMA PrefixOf ==
  ASSUME NEW S, NEW s \in Seq(S), NEW t \in Seq(S), Extends(s, t)
  PROVE  IsPrefix(s, t)
<1>1. Len(s) \in Nat /\ Len(t) \in Nat /\ Len(s) <= Len(t) /\ \A i \in 1 .. Len(s) : t[i] = s[i]
  BY DEF Extends
<1>2. /\ SubSeq(s, 1, Len(s)) \in Seq(S) /\ Len(SubSeq(s, 1, Len(s))) = Len(s)
      /\ \A i \in 1 .. Len(s) : SubSeq(s, 1, Len(s))[i] = s[i]
  BY <1>1
<1>3. /\ SubSeq(t, 1, Len(s)) \in Seq(S) /\ Len(SubSeq(t, 1, Len(s))) = Len(s)
      /\ \A i \in 1 .. Len(s) : SubSeq(t, 1, Len(s))[i] = t[i]
  BY <1>1
<1>4. SubSeq(s, 1, Len(s)) = SubSeq(t, 1, Len(s))
  BY <1>1, <1>2, <1>3
<1> QED BY <1>1, <1>4 DEF IsPrefix

LEMMA PoolChanges ==
  ASSUME state' = state,
         NEW tx, tx \notin ToSet(state.transactions), ToSet(mempool') \subseteq ToSet(mempool) \cup {tx}
  PROVE  PromiseStep
<1>1. CASE tx \in ToSet(mempool') \ ToSet(mempool)
  <2>1. Promise!Admit
    BY <1>1, PromiseOperators, Zenon DEF Promise!Admit
  <2> QED BY <2>1 DEF PromiseStep, Promise!Next
<1>2. CASE tx \notin ToSet(mempool') \ ToSet(mempool)
  <2>1. ToSet(mempool') \subseteq ToSet(mempool)
    BY <1>2
  <2>2. Promise!Drop
    BY <2>1, Zenon DEF Promise!Drop
  <2> QED BY <2>2 DEF PromiseStep, Promise!Next
<1> QED BY <1>1, <1>2

LEMMA LogGrows ==
  ASSUME state \in SoundStates, state' \in SoundStates,
         Extends(state.transactions, state'.transactions),
         ToSet(mempool') \subseteq ToSet(mempool) \ ToSet(state'.transactions)
  PROVE  PromiseStep
<1>1. state.transactions \in Seq(Transactions) /\ state'.transactions \in Seq(Transactions)
  BY DEF SoundStates, States
<1>2. IsPrefix(state.transactions, state'.transactions)
  BY <1>1, PrefixOf
<1>3. Promise!InNonceOrder(state'.transactions)
  BY PromisedOrder DEF SoundStates, NoncesCount
<1>4. Promise!Confirm
  BY <1>2, <1>3, PromiseOperators, Zenon DEF Promise!Confirm
<1> QED BY <1>4 DEF PromiseStep, Promise!Next

-----------------------------------------------------------------------------
(***************************************************************************)
(* The inductive invariant.  The queue's nonces rise above the committed   *)
(* ones: so it holds nothing twice, and nothing that the log has.  It runs *)
(* but for the base fee and the faucet's funds, which blocks change.       *)
(***************************************************************************)
Core ==
  /\ state \in SoundStates
  /\ mempool \in Seq(Legal)
  /\ Rising(state.nonces, mempool)
  /\ RunsLoosely(state, mempool)

Others ==
  /\ recorded \in Seq(Records)
  /\ faucetCalls \subseteq Transactions
  /\ requests \in 0 .. MaxRequests
  /\ selected \in BOOLEAN
  /\ clock \in 1 .. MaxClock
  /\ isValidator \in BOOLEAN

Inv == Core /\ Others

\* A step accounts for what leaves the queue.
Accounted ==
  \A tx \in ToSet(mempool) \ ToSet(mempool') : tx \in ToSet(state'.transactions) <=> tx \notin Recorded(recorded')

Kept == Core' /\ recorded' \in Seq(Records) /\ Accounted /\ PromiseStep

LEMMA InputsLegal ==
  ASSUME Inv
  PROVE  /\ SignedTransactions \subseteq Legal
         /\ \A to \in FaucetRecipients, amount \in FaucetAmounts, nonce \in Nat, at \in 1 .. MaxClock :
              FaucetTransaction(to, amount, nonce, at) \in Legal
         /\ PeerTransactions \subseteq Legal
<1>1. SignedTransactions \subseteq Legal
  BY MempoolAssumption DEF Legal
<1>2. ASSUME NEW to \in FaucetRecipients, NEW amount \in FaucetAmounts, NEW nonce \in Nat, NEW at \in 1 .. MaxClock
      PROVE  FaucetTransaction(to, amount, nonce, at) \in Legal
  <2>1. to \in Accounts /\ Faucet \in Accounts /\ amount \in Nat /\ at \in Nat /\ at > 0
    BY MempoolAssumption DEF Accounts
  <2>2. FaucetTransaction(to, amount, nonce, at) \in Transactions
    BY <2>1 DEF FaucetTransaction, Transactions
  <2> QED BY <2>1, <2>2 DEF Legal, FaucetTransaction
<1>3. \A k \in 1 .. MaxPeerBlock : state.nonces[Faucet] + k \in Nat
  <2>1. state.nonces[Faucet] \in Nat
    BY DEF Inv, Core, SoundStates, States, Accounts
  <2>2. MaxPeerBlock \in Nat
    BY MempoolAssumption
  <2> QED BY <2>1, <2>2
<1>4. PeerTransactions \subseteq Legal
  <2> SUFFICES ASSUME NEW tx \in PeerTransactions, tx \notin SignedTransactions PROVE tx \in Legal
    BY <1>1
  <2>1. PICK to \in FaucetRecipients, amount \in FaucetAmounts, k \in 1 .. MaxPeerBlock, at \in 1 .. MaxClock :
          tx = FaucetTransaction(to, amount, state.nonces[Faucet] + k, at)
    BY DEF PeerTransactions
  <2> QED BY <1>2, <1>3, <2>1
<1> QED BY <1>1, <1>2, <1>4

\* What a reconciliation leaves of a queue, and what it records.
LEMMA ReconcileFacts ==
  ASSUME NEW st \in SoundStates, NEW queue \in Seq(Legal), NEW p, p = Projection(st, queue)
  PROVE  /\ p \in Tries
         /\ p.state \in SoundStates /\ p.retained \in Seq(Legal) /\ p.rejected \in Seq(Legal)
         /\ ToSet(p.retained) \cup ToSet(p.rejected) = ToSet(queue)
         /\ Distinct(queue) => ToSet(p.retained) \cap ToSet(p.rejected) = {}
         /\ Rising(st.nonces, p.retained)
         /\ Grown(st, p) /\ Advanced(st, p)
         /\ Runs(st, p.retained, p.state)
<1>1. Progress(st, queue, Len(queue), p)
  BY ProjectionFacts
<1>2. ToSet(queue) = First(queue, Len(queue))
  BY ToSetOfSeq DEF First
<1> QED BY <1>1, <1>2 DEF Progress, Tries, Sorted, Advanced

-----------------------------------------------------------------------------
(* One lemma for each handler.                                               *)

LEMMA SubmitKept ==
  ASSUME Inv, NEW tx \in SignedTransactions, SubmitTransaction(tx)
  PROVE  Kept
<1>1. /\ tx \in Legal
      /\ state' = state /\ state \in SoundStates /\ mempool \in Seq(Legal) /\ Rising(state.nonces, mempool)
      /\ ToSet(mempool) \cap ToSet(state.transactions) = {}
      /\ tx \notin ToSet(state.transactions)
  BY InputsLegal, RisingFresh DEF Inv, Core, SubmitTransaction, HasTransaction
<1>2. Append(mempool, tx) \in Seq(Legal) /\ ToSet(Append(mempool, tx)) = ToSet(mempool) \cup {tx}
  BY <1>1, AppendFacts
<1> DEFINE p == Projection(state, Append(mempool, tx))
<1>3. CASE Refused(mempool, tx)
  <2>1. recorded' = Rejections(<<tx>>, "admission") /\ mempool' = mempool
    BY <1>3 DEF SubmitTransaction
  <2>2. <<tx>> \in Seq(Legal)
    BY <1>1
  <2>3. recorded' \in Seq(Records)
    BY <2>1, <2>2, RejectionsFacts DEF Stages
  <2>4. Core'
    BY <1>1, <2>1 DEF Core, Inv
  <2>5. Accounted
    BY <2>1 DEF Accounted
  <2>6. PromiseStep
    BY <1>1, <2>1, PoolChanges
  <2> QED BY <2>3, <2>4, <2>5, <2>6 DEF Kept
<1>4. CASE ~ Refused(mempool, tx)
  <2>1. recorded' = Rejections(p.rejected, "admission") /\ mempool' = p.retained
    BY <1>4 DEF SubmitTransaction, Admitted, Outdated
  <2>2. tx \notin ToSet(p.rejected)
    BY <1>4 DEF Refused
  <2> HIDE DEF p
  <2>3. /\ p.retained \in Seq(Legal) /\ p.rejected \in Seq(Legal)
        /\ ToSet(p.retained) \cup ToSet(p.rejected) = ToSet(mempool) \cup {tx}
        /\ Rising(state.nonces, p.retained) /\ RunsLoosely(state, p.retained)
    BY <1>1, <1>2, ReconcileFacts, RunsAreLoose DEF p
  <2>4. recorded' \in Seq(Records) /\ Recorded(recorded') = ToSet(p.rejected)
    BY <2>1, <2>3, RejectionsFacts DEF Stages
  <2>5. Core'
    BY <1>1, <2>1, <2>3 DEF Core
  <2>6. Accounted
    BY <1>1, <2>1, <2>3, <2>4 DEF Accounted
  <2>7. PromiseStep
    BY <1>1, <2>1, <2>3, PoolChanges
  <2> QED BY <2>4, <2>5, <2>6, <2>7 DEF Kept
<1> QED BY <1>3, <1>4

LEMMA RequestKept ==
  ASSUME Inv, NEW to \in FaucetRecipients, NEW amount \in FaucetAmounts, RequestFaucet(to, amount)
  PROVE  Kept /\ faucetCalls' \subseteq Transactions /\ requests' \in 0 .. MaxRequests
<1> DEFINE r == Projection(state, mempool)
           queue == r.retained
           tx == FaucetTransaction(to, amount, NextNonce(Faucet, queue), clock)
           stale == Rejections(r.rejected, "pre-faucet")
           p == Projection(state, Append(queue, tx))
<1>1. /\ state' = state /\ state \in SoundStates /\ mempool \in Seq(Legal) /\ Rising(state.nonces, mempool)
      /\ ToSet(mempool) \cap ToSet(state.transactions) = {}
  BY RisingFresh DEF Inv, Core, RequestFaucet
<1>2. /\ queue \in Seq(Legal) /\ r.rejected \in Seq(Legal)
      /\ ToSet(queue) \cup ToSet(r.rejected) = ToSet(mempool)
      /\ Rising(state.nonces, queue) /\ RunsLoosely(state, queue)
  BY <1>1, ReconcileFacts, RunsAreLoose
<1>3. \/ /\ mempool' = queue /\ recorded' = stale /\ faucetCalls' = faucetCalls
      \/ /\ mempool' = queue /\ recorded' = stale \o Rejections(<<tx>>, "admission")
         /\ faucetCalls' = faucetCalls
      \/ /\ tx \notin ToSet(p.rejected)
         /\ mempool' = p.retained /\ recorded' = stale \o Rejections(p.rejected, "admission")
         /\ faucetCalls' = faucetCalls \cup {tx}
  BY Zenon DEF RequestFaucet, Refused, Admitted, Outdated
<1>4. tx \in Legal
  <2>1. IsFiniteSet({i \in DOMAIN queue : queue[i].sender = Faucet})
    <3>1. Len(queue) \in Nat /\ DOMAIN queue = 1 .. Len(queue)
      BY <1>2
    <3> HIDE DEF queue
    <3>2. IsFiniteSet(DOMAIN queue) /\ {i \in DOMAIN queue : queue[i].sender = Faucet} \subseteq DOMAIN queue
      BY <3>1, UpToFinite
    <3> QED BY <3>2, FS_Subset
  <2>2. state.nonces[Faucet] \in Nat
    BY <1>1 DEF SoundStates, States, Accounts
  <2>3. NextNonce(Faucet, queue) \in Nat
    BY <2>1, <2>2, FS_CardinalityType DEF NextNonce
  <2>4. clock \in 1 .. MaxClock
    BY DEF Inv, Others
  <2> QED BY <2>3, <2>4, InputsLegal
<1>5. requests' \in 0 .. MaxRequests
  BY MempoolAssumption DEF RequestFaucet, Inv, Others
<1> HIDE DEF r, queue, tx, stale, p
<1>6. stale \in Seq(Records) /\ Recorded(stale) = ToSet(r.rejected)
  BY <1>2, RejectionsFacts DEF Stages, stale
<1>7. faucetCalls \subseteq Transactions
  BY DEF Inv, Others
<1>8. ASSUME NEW extra \in Seq(Records), mempool' = queue, recorded' = stale \o extra \/ recorded' = stale
      PROVE  Kept
  <2>1. recorded' \in Seq(Records) /\ Recorded(stale) \subseteq Recorded(recorded')
    BY <1>6, <1>8, RecordedTwice
  <2>2. Core'
    BY <1>1, <1>2, <1>8 DEF Core
  <2>3. ASSUME NEW t \in ToSet(mempool) \ ToSet(mempool')
        PROVE  t \notin ToSet(state'.transactions) /\ t \in Recorded(recorded')
    BY <1>1, <1>2, <1>6, <1>8, <2>1
  <2>4. Accounted
    BY <2>3 DEF Accounted
  <2>5. PromiseStep
    <3>1. ToSet(mempool') \subseteq ToSet(mempool)
      BY <1>2, <1>8
    <3>2. PICK none : none \notin ToSet(state.transactions)
      BY NoSetContainsEverything
    <3> QED BY <1>1, <3>1, <3>2, PoolChanges
  <2> QED BY <2>1, <2>2, <2>4, <2>5 DEF Kept
<1>9. CASE mempool' = queue /\ recorded' = stale /\ faucetCalls' = faucetCalls
  <2>1. <<>> \in Seq(Records)
    OBVIOUS
  <2>2. Kept
    BY <1>8, <1>9, <2>1
  <2> QED BY <1>5, <1>7, <1>9, <2>2
<1>10. CASE /\ mempool' = queue /\ recorded' = stale \o Rejections(<<tx>>, "admission")
            /\ faucetCalls' = faucetCalls
  <2>1. <<tx>> \in Seq(Legal)
    BY <1>4
  <2>2. Rejections(<<tx>>, "admission") \in Seq(Records)
    BY <2>1, RejectionsFacts DEF Stages
  <2> QED BY <1>5, <1>7, <1>8, <1>10, <2>2
<1>11. CASE /\ tx \notin ToSet(p.rejected)
            /\ mempool' = p.retained /\ recorded' = stale \o Rejections(p.rejected, "admission")
            /\ faucetCalls' = faucetCalls \cup {tx}
  <2>1. Append(queue, tx) \in Seq(Legal) /\ ToSet(Append(queue, tx)) = ToSet(queue) \cup {tx}
    BY <1>2, <1>4, AppendFacts
  <2>2. /\ p.retained \in Seq(Legal) /\ p.rejected \in Seq(Legal)
        /\ ToSet(p.retained) \cup ToSet(p.rejected) = ToSet(queue) \cup {tx}
        /\ Rising(state.nonces, p.retained) /\ RunsLoosely(state, p.retained)
    <3>1. p = Projection(state, Append(queue, tx))
      BY DEF p
    <3>2. /\ p.retained \in Seq(Legal) /\ p.rejected \in Seq(Legal)
          /\ ToSet(p.retained) \cup ToSet(p.rejected) = ToSet(Append(queue, tx))
          /\ Rising(state.nonces, p.retained) /\ Runs(state, p.retained, p.state)
      BY <1>1, <2>1, <3>1, ReconcileFacts
    <3> QED BY <2>1, <3>2, RunsAreLoose
  <2>3. Rejections(p.rejected, "admission") \in Seq(Records)
        /\ Recorded(Rejections(p.rejected, "admission")) = ToSet(p.rejected)
    BY <2>2, RejectionsFacts DEF Stages
  <2>4. recorded' \in Seq(Records) /\ Recorded(recorded') = ToSet(r.rejected) \cup ToSet(p.rejected)
    BY <1>6, <1>11, <2>3, RecordedTwice
  <2>5. Core'
    BY <1>1, <1>11, <2>2 DEF Core
  <2>6. ASSUME NEW t \in ToSet(mempool) \ ToSet(mempool')
        PROVE  t \notin ToSet(state'.transactions) /\ t \in Recorded(recorded')
    BY <1>1, <1>2, <1>11, <2>2, <2>4
  <2>7. Accounted
    BY <2>6 DEF Accounted
  <2>8. tx \notin ToSet(state.transactions)
    <3>1. tx \in ToSet(p.retained)
      BY <1>11, <2>2
    <3> QED BY <1>1, <2>2, <3>1, RisingFresh
  <2>9. PromiseStep
    BY <1>1, <1>2, <1>11, <2>2, <2>8, PoolChanges
  <2>10. faucetCalls' \subseteq Transactions
    BY <1>4, <1>7, <1>11 DEF Legal
  <2> QED BY <1>5, <2>4, <2>5, <2>7, <2>9, <2>10 DEF Kept
<1> QED BY <1>3, <1>9, <1>10, <1>11

\* What overflows a block still rises above the nonces it leaves.
LEMMA OverflowRises ==
  ASSUME NEW st \in SoundStates, NEW queue \in Seq(Legal), Rising(st.nonces, queue),
         NEW block, block = Projection(st, Candidates(queue))
  PROVE  Rising(block.state.nonces, Overflow(queue))
<1> DEFINE f == Fitting(queue)
           c == Candidates(queue)
           o == Overflow(queue)
<1>1. /\ f \in 0 .. Len(queue) /\ Len(queue) \in Nat /\ DOMAIN queue = 1 .. Len(queue)
      /\ c \in Seq(Legal) /\ DOMAIN c = 1 .. f /\ \A i \in 1 .. f : c[i] = queue[i]
      /\ DOMAIN o = 1 .. (Len(queue) - f)
      /\ \A i \in 1 .. (Len(queue) - f) : o[i] = queue[f + i]
  BY SplitFacts
<1> HIDE DEF f, o
<1>2. /\ block.state \in SoundStates /\ block.retained \in Seq(Legal)
      /\ ToSet(block.retained) \subseteq ToSet(c)
      /\ \A a \in Accounts : LastNonce(st, block, a)
  BY <1>1, ReconcileFacts DEF Advanced
<1> HIDE DEF c
<1>3. \A i \in 1 .. Len(queue) : queue[i].sender \in Accounts /\ queue[i].nonce \in Nat
  BY <1>1 DEF Legal, Transactions
<1>4. \A i \in 1 .. (Len(queue) - f) : f + i \in 1 .. Len(queue)
  BY <1>1
<1>5. ASSUME NEW i \in 1 .. (Len(queue) - f) PROVE block.state.nonces[o[i].sender] < o[i].nonce
  <2> DEFINE a == o[i].sender
  <2>1. o[i] = queue[f + i] /\ f + i \in 1 .. Len(queue) /\ a \in Accounts
    BY <1>1, <1>3, <1>4
  <2>2. CASE block.state.nonces[a] = st.nonces[a]
    BY <1>1, <2>1, <2>2 DEF Rising
  <2>3. CASE \E k \in DOMAIN block.retained :
               block.retained[k].sender = a /\ block.retained[k].nonce = block.state.nonces[a]
    <3>1. PICK k \in DOMAIN block.retained :
               block.retained[k].sender = a /\ block.retained[k].nonce = block.state.nonces[a]
      BY <2>3
    <3>2. block.retained[k] \in ToSet(c)
      BY <1>2 DEF ToSet
    <3>3. PICK j \in 1 .. f : block.retained[k] = c[j]
      BY <1>1, <3>2 DEF ToSet
    <3>4. j \in 1 .. Len(queue) /\ j < f + i /\ c[j] = queue[j]
      BY <1>1
    <3>5. queue[j].nonce < queue[f + i].nonce
      BY <1>1, <2>1, <3>1, <3>3, <3>4 DEF Rising
    <3> QED BY <2>1, <3>1, <3>3, <3>4, <3>5
  <2>4. LastNonce(st, block, a)
    BY <1>2, <2>1
  <2> QED BY <2>2, <2>3, <2>4 DEF LastNonce
<1>6. ASSUME NEW i \in 1 .. (Len(queue) - f), NEW j \in 1 .. (Len(queue) - f), i < j, o[i].sender = o[j].sender
      PROVE  o[i].nonce < o[j].nonce
  <2>1. f + i \in 1 .. Len(queue) /\ f + j \in 1 .. Len(queue) /\ f + i < f + j
    BY <1>1, <1>4, <1>6
  <2>2. o[i] = queue[f + i] /\ o[j] = queue[f + j]
    BY <1>1
  <2> QED BY <1>1, <1>6, <2>1, <2>2 DEF Rising
<1>7. Rising(block.state.nonces, o)
  BY <1>1, <1>5, <1>6 DEF Rising
<1> QED BY <1>7 DEF o

LEMMA MineKept ==
  ASSUME Inv, MineBlock
  PROVE  Kept /\ selected' \in BOOLEAN
<1>1. PICK ready \in {Ready} : \E block \in {Projection(state, Candidates(ready.retained))} :
        /\ mempool' = Overflow(ready.retained)
        /\ recorded' = Rejections(ready.rejected, "pre-block") \o Rejections(block.rejected, "block")
        /\ state' \in BlockEnds(block.state)
        /\ selected' \in Selections(isValidator)
  BY DEF MineBlock
<1> DEFINE queue == ready.retained
           c == Candidates(queue)
<1>2. PICK block : /\ block = Projection(state, c)
                   /\ mempool' = Overflow(queue)
                   /\ recorded' = Rejections(ready.rejected, "pre-block") \o Rejections(block.rejected, "block")
                   /\ state' \in BlockEnds(block.state)
                   /\ selected' \in Selections(isValidator)
  BY <1>1
<1>3. /\ state \in SoundStates /\ mempool \in Seq(Legal) /\ Rising(state.nonces, mempool)
      /\ Distinct(mempool)
      /\ ToSet(mempool) \cap ToSet(state.transactions) = {}
  BY RisingFresh DEF Inv, Core
<1>4. /\ queue \in Seq(Legal) /\ ready.rejected \in Seq(Legal)
      /\ ToSet(queue) \cup ToSet(ready.rejected) = ToSet(mempool)
      /\ ToSet(queue) \cap ToSet(ready.rejected) = {}
      /\ Rising(state.nonces, queue)
      /\ Runs(state, queue, ready.state)
  <2>1. ready = Projection(state, mempool)
    BY <1>1 DEF Ready
  <2> QED BY <1>3, <2>1, ReconcileFacts
<1>5. /\ c \in Seq(Legal) /\ Overflow(queue) \in Seq(Legal)
      /\ ToSet(queue) = ToSet(c) \cup ToSet(Overflow(queue))
  BY <1>4, SplitFacts
<1>6. Rising(block.state.nonces, Overflow(queue)) /\ RunsLoosely(state', Overflow(queue))
  BY <1>2, <1>3, <1>4, OverflowRises, OverflowRuns
<1>7. Distinct(c)
  <2>1. Distinct(queue)
    BY <1>3, <1>4, RisingFresh
  <2>2. /\ Fitting(queue) \in 0 .. Len(queue) /\ DOMAIN queue = 1 .. Len(queue) /\ Len(queue) \in Nat
        /\ DOMAIN c = 1 .. Fitting(queue) /\ \A i \in 1 .. Fitting(queue) : c[i] = queue[i]
    BY <1>4, SplitFacts
  <2> HIDE DEF queue, c
  <2>3. \A i \in 1 .. Fitting(queue) : i \in DOMAIN queue
    BY <2>2
  <2> QED BY <2>1, <2>2, <2>3 DEF Distinct
<1> HIDE DEF queue, c
<1>8. /\ block.state \in SoundStates /\ block.retained \in Seq(Legal) /\ block.rejected \in Seq(Legal)
      /\ ToSet(block.retained) \cup ToSet(block.rejected) = ToSet(c)
      /\ ToSet(block.retained) \cap ToSet(block.rejected) = {}
      /\ ToSet(block.state.transactions) = ToSet(state.transactions) \cup ToSet(block.retained)
      /\ Extends(state.transactions, block.state.transactions)
  BY <1>2, <1>3, <1>5, <1>7, ReconcileFacts DEF Grown
<1>9. /\ state' \in SoundStates
      /\ state'.nonces = block.state.nonces /\ state'.transactions = block.state.transactions
  BY <1>2, <1>8, BlockEndsSound
<1>10. recorded' \in Seq(Records) /\ Recorded(recorded') = ToSet(ready.rejected) \cup ToSet(block.rejected)
  <2>1. /\ Rejections(ready.rejected, "pre-block") \in Seq(Records)
        /\ Recorded(Rejections(ready.rejected, "pre-block")) = ToSet(ready.rejected)
    BY <1>4, RejectionsFacts DEF Stages
  <2>2. /\ Rejections(block.rejected, "block") \in Seq(Records)
        /\ Recorded(Rejections(block.rejected, "block")) = ToSet(block.rejected)
    BY <1>8, RejectionsFacts DEF Stages
  <2> QED BY <1>2, <2>1, <2>2, RecordedTwice
<1>11. Core'
  BY <1>2, <1>5, <1>6, <1>9 DEF Core
<1>12. ASSUME NEW t \in ToSet(mempool) \ ToSet(mempool')
       PROVE  t \in ToSet(state'.transactions) <=> t \notin Recorded(recorded')
  <2>1. t \notin ToSet(state.transactions) /\ t \notin ToSet(Overflow(queue))
    BY <1>2, <1>3, <1>12
  <2>2. t \in ToSet(state'.transactions) <=> t \in ToSet(block.retained)
    BY <1>8, <1>9, <2>1
  <2>3. CASE t \in ToSet(ready.rejected)
    BY <1>4, <1>5, <1>8, <1>10, <2>2, <2>3
  <2>4. CASE t \notin ToSet(ready.rejected)
    BY <1>4, <1>5, <1>8, <1>10, <1>12, <2>1, <2>2, <2>4
  <2> QED BY <2>3, <2>4
<1>13. Accounted
  BY <1>12 DEF Accounted
<1>14. ToSet(mempool') \subseteq ToSet(mempool) \ ToSet(state'.transactions)
  <2>1. ToSet(mempool') \cap ToSet(state'.transactions) = {}
    BY <1>11, RisingFresh DEF Core
  <2>2. ToSet(mempool') \subseteq ToSet(mempool)
    BY <1>2, <1>4, <1>5
  <2> QED BY <2>1, <2>2
<1>15. PromiseStep
  BY <1>3, <1>8, <1>9, <1>14, LogGrows
<1>16. selected' \in BOOLEAN
  BY <1>2 DEF Selections
<1> QED BY <1>10, <1>11, <1>13, <1>15, <1>16 DEF Kept

LEMMA AcceptKept ==
  ASSUME Inv, NEW txs \in PeerBlocks, AcceptBlock(txs)
  PROVE  Kept /\ selected' \in BOOLEAN
<1> DEFINE p == Projection(state, txs)
           rest == Without(mempool, txs)
           r == Projection(state', rest)
<1>1. /\ p.rejected = <<>>
      /\ state' \in BlockEnds(p.state)
      /\ mempool' = r.retained /\ recorded' = Rejections(r.rejected, "post-block")
      /\ selected' \in Selections(isValidator)
  BY DEF AcceptBlock, AfterBlock
<1>2. /\ state \in SoundStates /\ mempool \in Seq(Legal) /\ Rising(state.nonces, mempool)
      /\ ToSet(mempool) \cap ToSet(state.transactions) = {}
  BY RisingFresh DEF Inv, Core
<1>3. txs \in Seq(Legal)
  <2>1. CASE txs = <<>>
    BY <2>1
  <2>2. CASE txs # <<>>
    <3>1. PICK n \in 0 .. MaxPeerBlock :
            txs \in [1 .. n -> {tx \in PeerTransactions : tx \notin ToSet(state.transactions)}]
      BY <2>2 DEF PeerBlocks
    <3>2. n \in Nat
      BY MempoolAssumption
    <3>3. PeerTransactions \subseteq Legal
      BY InputsLegal
    <3>4. txs \in [1 .. n -> Legal]
      BY <3>1, <3>3
    <3> QED BY <3>2, <3>4
  <2> QED BY <2>1, <2>2
<1> HIDE DEF p, r, rest
<1>4. /\ p.state \in SoundStates
      /\ ToSet(p.state.transactions) = ToSet(state.transactions) \cup ToSet(txs)
      /\ Extends(state.transactions, p.state.transactions)
  <2>1. /\ p.state \in SoundStates /\ Grown(state, p)
        /\ ToSet(p.retained) \cup ToSet(p.rejected) = ToSet(txs)
    BY <1>2, <1>3, ReconcileFacts DEF p
  <2>2. ToSet(p.rejected) = {}
    BY <1>1 DEF ToSet
  <2> QED BY <2>1, <2>2 DEF Grown
<1>5. state' \in SoundStates /\ state'.transactions = p.state.transactions
  BY <1>1, <1>4, BlockEndsSound
<1>6. rest \in Seq(Legal) /\ ToSet(rest) = ToSet(mempool) \ ToSet(txs)
  BY <1>2, WithoutFacts DEF rest
<1>7. /\ r.retained \in Seq(Legal) /\ r.rejected \in Seq(Legal)
      /\ ToSet(r.retained) \cup ToSet(r.rejected) = ToSet(rest)
      /\ Rising(state'.nonces, r.retained) /\ RunsLoosely(state', r.retained)
  BY <1>5, <1>6, ReconcileFacts, RunsAreLoose DEF r
<1>8. recorded' \in Seq(Records) /\ Recorded(recorded') = ToSet(r.rejected)
  BY <1>1, <1>7, RejectionsFacts DEF Stages
<1>9. Core'
  BY <1>1, <1>5, <1>7 DEF Core
<1>10. Accounted
  BY <1>1, <1>2, <1>4, <1>5, <1>6, <1>7, <1>8 DEF Accounted
<1>11. ToSet(mempool') \subseteq ToSet(mempool) \ ToSet(state'.transactions)
  BY <1>1, <1>2, <1>4, <1>5, <1>6, <1>7
<1>12. PromiseStep
  BY <1>2, <1>4, <1>5, <1>11, LogGrows
<1>13. selected' \in BOOLEAN
  BY <1>1 DEF Selections
<1> QED BY <1>8, <1>9, <1>10, <1>12, <1>13 DEF Kept

LEMMA IdleKept ==
  ASSUME Inv, state' = state, mempool' = mempool, recorded' = recorded
  PROVE  Kept
<1>1. Core' /\ recorded' \in Seq(Records)
  BY DEF Inv, Core, Others
<1>2. Accounted /\ PromiseStep
  BY DEF Accounted, PromiseStep
<1> QED BY <1>1, <1>2 DEF Kept

-----------------------------------------------------------------------------
LEMMA InitInv ==
  ASSUME Init
  PROVE  Inv /\ Promise!Init
<1>1. /\ InitialBalance \in [Accounts -> Nat] /\ BaseFees \subseteq Nat /\ MaxClock \in Nat \ {0}
      /\ MaxRequests \in Nat /\ Roles \subseteq BOOLEAN
  BY MempoolAssumption
<1>2. PICK fee \in BaseFees :
        state = [balances |-> InitialBalance, nonces |-> [a \in Accounts |-> 0],
                 requestLog |-> [a \in Accounts |-> 0], baseFee |-> fee, transactions |-> <<>>]
  BY DEF Init
<1>3. state \in States /\ state.transactions = <<>> /\ state.nonces = [a \in Accounts |-> 0]
  BY <1>1, <1>2 DEF States
<1>4. NoncesCount(state)
  <2>1. \A a : SentBy(a, <<>>) = {}
    BY DEF SentBy
  <2>2. Cardinality({}) = 0
    BY FS_EmptySet
  <2>3. \A a \in Accounts : state.nonces[a] = Cardinality(SentBy(a, state.transactions))
    BY <1>3, <2>1, <2>2
  <2>4. InOrder(<<>>) /\ DOMAIN <<>> = {}
    BY DEF InOrder
  <2> QED BY <1>3, <2>3, <2>4 DEF NoncesCount
<1>5. RequestsLogged(state)
  BY <1>3 DEF RequestsLogged, Logged, Spaced
<1>6. mempool = <<>> /\ <<>> \in Seq(Legal) /\ Rising(state.nonces, <<>>) /\ RunsLoosely(state, <<>>)
  BY RunStarts, RunsAreLoose DEF Init, Rising
<1>7. Others
  <2>1. recorded = <<>> /\ <<>> \in Seq(Records)
    BY DEF Init
  <2>2. selected \in BOOLEAN /\ isValidator \in BOOLEAN
    BY <1>1 DEF Init, Selections
  <2>3. faucetCalls \subseteq Transactions /\ requests \in 0 .. MaxRequests /\ clock \in 1 .. MaxClock
    BY <1>1 DEF Init
  <2> QED BY <2>1, <2>2, <2>3 DEF Others
<1>8. Promise!Init
  <2>1. ToSet(<<>>) = {}
    BY DEF ToSet
  <2> QED BY <1>3, <1>6, <2>1 DEF Promise!Init
<1> QED BY <1>3, <1>4, <1>5, <1>6, <1>7, <1>8 DEF Inv, Core, SoundStates

LEMMA NextKept ==
  ASSUME Inv, [Next]_vars
  PROVE  Inv' /\ (Accounted \/ UNCHANGED vars) /\ PromiseStep
<1>1. Others
  BY DEF Inv
<1>2. ASSUME NEW tx \in SignedTransactions, SubmitTransaction(tx) PROVE Inv' /\ Accounted /\ PromiseStep
  <2>1. Kept
    BY <1>2, SubmitKept
  <2> QED BY <1>1, <1>2, <2>1 DEF Kept, Inv, Others, SubmitTransaction
<1>3. ASSUME NEW to \in FaucetRecipients, NEW amount \in FaucetAmounts, RequestFaucet(to, amount)
      PROVE  Inv' /\ Accounted /\ PromiseStep
  <2>1. Kept /\ faucetCalls' \subseteq Transactions /\ requests' \in 0 .. MaxRequests
    BY <1>3, RequestKept
  <2>2. UNCHANGED <<selected, clock, isValidator>>
    BY <1>3 DEF RequestFaucet
  <2> QED BY <1>1, <2>1, <2>2 DEF Kept, Inv, Others
<1>4. ASSUME NEW tx \in faucetCalls, FinishFaucet(tx) PROVE Inv' /\ Accounted /\ PromiseStep
  <2>1. UNCHANGED <<requests, clock, isValidator>> /\ faucetCalls' \subseteq Transactions
    BY <1>1, <1>4 DEF FinishFaucet, Others
  <2>2. CASE MineBlock
    BY <1>1, <2>1, <2>2, MineKept DEF Kept, Inv, Others
  <2>3. CASE UNCHANGED <<state, mempool, recorded, selected>>
    BY <1>1, <2>1, <2>3, IdleKept DEF Kept, Inv, Others
  <2> QED BY <1>4, <2>2, <2>3 DEF FinishFaucet
<1>5. ASSUME ProduceBlock PROVE Inv' /\ Accounted /\ PromiseStep
  <2>1. Kept /\ selected' \in BOOLEAN
    BY <1>5, MineKept DEF ProduceBlock
  <2> QED BY <1>1, <1>5, <2>1 DEF Kept, Inv, Others, ProduceBlock
<1>6. ASSUME NEW txs \in PeerBlocks, AcceptBlock(txs) PROVE Inv' /\ Accounted /\ PromiseStep
  <2>1. Kept /\ selected' \in BOOLEAN
    BY <1>6, AcceptKept
  <2>2. UNCHANGED <<faucetCalls, requests, clock, isValidator>>
    BY <1>6 DEF AcceptBlock
  <2> QED BY <1>1, <2>1, <2>2 DEF Kept, Inv, Others
<1>7. ASSUME Tick PROVE Inv' /\ Accounted /\ PromiseStep
  <2>1. Kept
    BY <1>7, IdleKept DEF Tick
  <2>2. clock' \in 1 .. MaxClock
    BY <1>1, <1>7, MempoolAssumption DEF Others, Tick
  <2> QED BY <1>1, <1>7, <2>1, <2>2 DEF Kept, Inv, Others, Tick
<1>8. ASSUME UNCHANGED vars PROVE Inv' /\ PromiseStep
  <2>1. Kept
    BY <1>8, IdleKept DEF vars
  <2> QED BY <1>1, <1>8, <2>1 DEF Kept, Inv, Others, vars
<1> QED BY <1>2, <1>3, <1>4, <1>5, <1>6, <1>7, <1>8 DEF Next

-----------------------------------------------------------------------------
\* Every variable keeps its type: what the handlers of node.js leave in the
\* state, the mempool and its rejections.
THEOREM MempoolTypeCorrect == Spec => []TypeOK
<1>1. Init => Inv
  BY InitInv
<1>2. Inv /\ [Next]_vars => Inv'
  BY NextKept
<1>3. Inv => TypeOK
  <2> SUFFICES ASSUME Inv PROVE TypeOK
    OBVIOUS
  <2>1. state \in States
    BY DEF Inv, Core, SoundStates
  <2>2. mempool \in Seq(Transactions)
    BY DEF Inv, Core, Legal
  <2> QED BY <2>1, <2>2 DEF Inv, Others, TypeOK, States, Records, Stages
<1> QED BY <1>1, <1>2, <1>3, PTL DEF Spec

\* A disbursement that the system signed comes a cooldown after the earlier
\* ones to its recipient, back to the last one that a wallet signed, whatever
\* queues they waited in and whoever dated them: validateFaucetTransaction
\* compares with a request log that is not behind any of these dates.
THEOREM CooldownAlwaysKept == Spec => []CooldownKept
<1>1. Init => Inv
  BY InitInv
<1>2. Inv /\ [Next]_vars => Inv'
  BY NextKept
<1>3. Inv => CooldownKept
  <2> SUFFICES ASSUME Inv PROVE CooldownKept
    OBVIOUS
  <2>1. Spaced(state.transactions)
    BY DEF Inv, Core, SoundStates, RequestsLogged
  <2> QED BY <2>1 DEF Spaced, Since, SystemOnly, CooldownKept
<1> QED BY <1>1, <1>2, <1>3, PTL DEF Spec

\* A transaction that leaves the mempool is confirmed, or recorded among the
\* rejections by the handler that drops it, and never both.
THEOREM LeavesAlwaysAccounted == Spec => LeavesAccounted
<1>1. Init => Inv
  BY InitInv
<1>2. Inv /\ [Next]_vars => Inv'
  BY NextKept
<1>3. Inv /\ [Next]_vars =>
        [\A tx \in ToSet(mempool) \ ToSet(mempool') :
           tx \in ToSet(state'.transactions) <=> \A i \in DOMAIN recorded' : recorded'[i].tx # tx]_vars
  <2> SUFFICES ASSUME Inv, [Next]_vars
               PROVE  \/ \A tx \in ToSet(mempool) \ ToSet(mempool') :
                           tx \in ToSet(state'.transactions)
                             <=> \A i \in DOMAIN recorded' : recorded'[i].tx # tx
                      \/ UNCHANGED vars
    OBVIOUS
  <2>1. \A tx : tx \notin Recorded(recorded') <=> \A i \in DOMAIN recorded' : recorded'[i].tx # tx
    BY DEF Recorded
  <2>2. CASE Accounted
    BY <2>1, <2>2 DEF Accounted
  <2> QED BY <2>2, NextKept
<1> QED BY <1>1, <1>2, <1>3, PTL DEF Spec, LeavesAccounted

\* The node's log and pool implement TxLog: the log only grows, in the order
\* of every sender's nonces, and the pool holds nothing that is confirmed.
THEOREM NodeImplementsTxLog == Spec => ImplementsTxLog
<1>1. Init => Inv /\ Promise!Init
  BY InitInv
<1>2. Inv /\ [Next]_vars => Inv'
  BY NextKept
<1>3. Inv /\ [Next]_vars => [Promise!Next]_(Promise!vars)
  BY NextKept DEF PromiseStep, Promise!vars
<1> QED BY <1>1, <1>2, <1>3, PTL DEF Spec, ImplementsTxLog, Promise!Spec

-----------------------------------------------------------------------------
(***************************************************************************)
(* A loose run with fees and funds enough is a run.                        *)
(***************************************************************************)
IsSums(f, n, g) ==
  g \in [0 .. n -> Int] /\ g = [k \in 0 .. n |-> IF k = 0 THEN 0 ELSE g[k - 1] + f[k]]

LEMMA SumsExist ==
  ASSUME NEW n \in Nat, NEW f, \A k \in 1 .. n : f[k] \in Nat
  PROVE  \E g : IsSums(f, n, g)
<1> DEFINE T == {m \in 0 .. n : \E g : IsSums(f, m, g)}
<1>1. 0 \in T
  <2> DEFINE g == [k \in 0 .. 0 |-> 0]
  <2>1. IsSums(f, 0, g)
    BY DEF IsSums
  <2> QED BY <2>1
<1>2. ASSUME NEW m \in 0 .. (n - 1), m \in T PROVE m + 1 \in T
  <2>1. PICK h : IsSums(f, m, h)
    BY <1>2
  <2> DEFINE g == [k \in 0 .. (m + 1) |-> IF k = m + 1 THEN h[m] + f[m + 1] ELSE h[k]]
  <2>2. g \in [0 .. (m + 1) -> Int]
    BY <2>1 DEF IsSums
  <2>3. \A k \in 0 .. (m + 1) : g[k] = IF k = 0 THEN 0 ELSE g[k - 1] + f[k]
    BY <2>1 DEF IsSums
  <2>4. IsSums(f, m + 1, g)
    BY <2>2, <2>3 DEF IsSums
  <2> QED BY <2>4
<1> HIDE DEF T
<1>3. n \in T
  BY <1>1, <1>2, IntervalInduction
<1> QED BY <1>3 DEF T

\* The partial sums that SumTo computes rise to it.
LEMMA SumsRise ==
  ASSUME NEW n \in Nat, NEW f, \A k \in 1 .. n : f[k] \in Nat
  PROVE  \E g \in [0 .. n -> Int] :
           /\ g[0] = 0 /\ \A k \in 1 .. n : g[k] = g[k - 1] + f[k]
           /\ \A k \in 0 .. n : g[k] <= SumTo(f, n)
           /\ SumTo(f, n) \in Int
<1> DEFINE g == CHOOSE acc : acc = [k \in 0 .. n |-> IF k = 0 THEN 0 ELSE acc[k - 1] + f[k]]
<1>1. SumTo(f, n) = g[n]
  BY DEF SumTo
<1>2. g = [k \in 0 .. n |-> IF k = 0 THEN 0 ELSE g[k - 1] + f[k]]
  <2>1. PICK h : IsSums(f, n, h)
    BY SumsExist
  <2> QED BY <2>1 DEF IsSums
<1> HIDE DEF g
<1>3. g[0] = 0
  BY <1>2
<1>4. ASSUME NEW k \in 1 .. n PROVE g[k] = g[k - 1] + f[k]
  <2>1. k \in 0 .. n /\ k # 0
    OBVIOUS
  <2> QED BY <1>2, <2>1
<1>5. ASSUME NEW k \in 0 .. n PROVE g[k] \in Int
  <2> DEFINE T == {m \in 0 .. k : g[m] \in Int}
  <2>1. 0 \in T
    BY <1>3
  <2>2. ASSUME NEW m \in 0 .. (k - 1), m \in T PROVE m + 1 \in T
    <3>1. m + 1 \in 1 .. n /\ m + 1 \in 0 .. k /\ (m + 1) - 1 = m
      OBVIOUS
    <3>2. g[m + 1] = g[m] + f[m + 1]
      BY <1>4, <3>1
    <3> QED BY <2>2, <3>1, <3>2
  <2> HIDE DEF T
  <2>3. k \in Nat
    OBVIOUS
  <2>4. k \in T
    BY <2>1, <2>2, <2>3, IntervalInduction
  <2> QED BY <2>4 DEF T
<1>6. ASSUME NEW k \in 0 .. n PROVE g[k] <= g[n]
  <2> DEFINE T == {m \in 0 .. (n - k) : g[k] <= g[k + m]}
  <2>1. 0 \in T
    BY <1>5
  <2>2. ASSUME NEW m \in 0 .. ((n - k) - 1), m \in T PROVE m + 1 \in T
    <3>1. /\ k + (m + 1) \in 1 .. n /\ m + 1 \in 0 .. (n - k) /\ (k + (m + 1)) - 1 = k + m
          /\ k + m \in 0 .. n /\ k + (m + 1) \in 0 .. n
      OBVIOUS
    <3>2. g[k + (m + 1)] = g[k + m] + f[k + (m + 1)]
      BY <1>4, <3>1
    <3>3. g[k] \in Int /\ g[k + m] \in Int /\ f[k + (m + 1)] \in Nat /\ g[k] <= g[k + m]
      BY <1>5, <2>2, <3>1
    <3>4. g[k] <= g[k + (m + 1)]
      BY <3>2, <3>3
    <3> QED BY <3>1, <3>4
  <2> HIDE DEF T
  <2>3. n - k \in Nat
    OBVIOUS
  <2>4. n - k \in T
    BY <2>1, <2>2, <2>3, IntervalInduction
  <2>5. k + (n - k) = n
    OBVIOUS
  <2> QED BY <2>4, <2>5 DEF T
<1>7. g \in [0 .. n -> Int]
  BY <1>2, <1>5
<1>8. SumTo(f, n) \in Int
  BY <1>1, <1>5
<1> QED BY <1>1, <1>3, <1>4, <1>6, <1>7, <1>8

Spent(txs) == [i \in DOMAIN txs |-> IF txs[i].type = "faucet" THEN txs[i].amount ELSE 0]

\* What a transaction leaves the faucet with.
LEMMA FaucetPays ==
  ASSUME NEW b \in [Accounts -> Int], NEW tx \in Legal
  PROVE  /\ Paid(b, tx) \in [Accounts -> Int]
         /\ Paid(b, tx)[Faucet] >= b[Faucet] - (IF tx.type = "faucet" THEN tx.amount ELSE 0)
<1> DEFINE c == Paid(b, tx)
<1>1. tx \in Transactions /\ (tx.sender = Faucet => tx.type = "faucet" /\ tx.fee = 0)
  BY DEF Legal
<1>2. Faucet \in Accounts /\ tx.amount \in Nat /\ tx.fee \in Nat
  BY <1>1 DEF Transactions, Accounts
<1>3. /\ c \in [Accounts -> Int]
      /\ \A a \in Accounts :
           c[a] = b[a] - Only(a, tx.sender, tx.fee)
                    - Only(a, Payer(tx), tx.amount) + Only(a, tx.to, tx.amount)
  BY <1>1, PaidAt
<1> HIDE DEF c
<1>4. c[Faucet] = b[Faucet] - Only(Faucet, tx.sender, tx.fee)
                    - Only(Faucet, Payer(tx), tx.amount) + Only(Faucet, tx.to, tx.amount)
  BY <1>2, <1>3
<1>5. b[Faucet] \in Int /\ c[Faucet] \in Int
  BY <1>2, <1>3
<1>6. Faucet = Payer(tx) <=> tx.type = "faucet"
  BY <1>1 DEF Payer
<1>7. c[Faucet] >= b[Faucet] - (IF tx.type = "faucet" THEN tx.amount ELSE 0)
  BY <1>1, <1>2, <1>4, <1>5, <1>6 DEF Only
<1> QED BY <1>3, <1>7 DEF c

\* Along a loose run the base fee stays, and the faucet has what it started
\* with but for what it paid.
LEMMA LooseRunFunds ==
  ASSUME NEW st \in States, NEW txs \in Seq(Legal), NEW w, IsLooseRun(st, txs, w),
         NEW g \in [0 .. Len(txs) -> Int], g[0] = 0,
         \A k \in 1 .. Len(txs) : g[k] = g[k - 1] + Spent(txs)[k],
         NEW n \in 0 .. Len(txs)
  PROVE  /\ w[n].baseFee = st.baseFee
         /\ w[n].balances \in [Accounts -> Int]
         /\ w[n].balances[Faucet] >= st.balances[Faucet] - g[n]
<1> DEFINE Good(m) == /\ w[m].baseFee = st.baseFee
                      /\ w[m].balances \in [Accounts -> Int]
                      /\ w[m].balances[Faucet] >= st.balances[Faucet] - g[m]
           T == {m \in 0 .. n : Good(m)}
<1>1. st.balances \in [Accounts -> Int] /\ Faucet \in Accounts
  BY DEF States, Accounts
<1>2. 0 \in T
  BY <1>1 DEF IsLooseRun
<1>3. ASSUME NEW m \in 0 .. (n - 1), m \in T PROVE m + 1 \in T
  <2> DEFINE tx == txs[m + 1]
  <2>1. /\ m + 1 \in 1 .. Len(txs) /\ m + 1 \in 0 .. n /\ (m + 1) - 1 = m /\ tx \in Legal
        /\ m \in 0 .. Len(txs) /\ m + 1 \in DOMAIN txs
    OBVIOUS
  <2>2. Good(m)
    BY <1>3
  <2>3. w[m + 1] = Executed(w[m], tx) /\ g[m + 1] = g[m] + Spent(txs)[m + 1]
    BY <2>1 DEF IsLooseRun
  <2>4. Spent(txs)[m + 1] = IF tx.type = "faucet" THEN tx.amount ELSE 0
    BY <2>1 DEF Spent
  <2>5. tx \in Legal
    BY <2>1
  <2> HIDE DEF tx
  <2>6. /\ w[m + 1].baseFee = w[m].baseFee
        /\ w[m + 1].balances = Paid(w[m].balances, tx)
    BY <2>3 DEF Executed
  <2> DEFINE b == w[m].balances
             c == w[m + 1].balances
  <2>7. b \in [Accounts -> Int]
    BY <2>2
  <2>8. c = Paid(b, tx)
    BY <2>6
  <2> HIDE DEF b, c
  <2>9. c \in [Accounts -> Int]
        /\ c[Faucet] >= b[Faucet] - (IF tx.type = "faucet" THEN tx.amount ELSE 0)
    BY <2>5, <2>7, <2>8, FaucetPays
  <2>10. tx.amount \in Int
    <3>1. tx \in Transactions
      BY <2>5 DEF Legal
    <3> QED BY <3>1 DEF Transactions
  <2>12. b[Faucet] >= st.balances[Faucet] - g[m] /\ g[m] \in Int /\ st.balances[Faucet] \in Int /\ b[Faucet] \in Int
    BY <1>1, <2>1, <2>2, <2>7 DEF b
  <2>13. c[Faucet] \in Int
    BY <1>1, <2>9
  <2>14. c[Faucet] >= st.balances[Faucet] - g[m + 1]
    <3>1. CASE tx.type = "faucet"
      <4>1. g[m + 1] = g[m] + tx.amount /\ c[Faucet] >= b[Faucet] - tx.amount
        BY <2>3, <2>4, <2>9, <3>1
      <4> QED BY <2>10, <2>12, <2>13, <4>1
    <3>2. CASE tx.type # "faucet"
      <4>1. g[m + 1] = g[m] + 0 /\ c[Faucet] >= b[Faucet] - 0
        BY <2>3, <2>4, <2>9, <3>2
      <4> QED BY <2>12, <2>13, <4>1
    <3> QED BY <3>1, <3>2
  <2>15. Good(m + 1)
    BY <2>2, <2>6, <2>9, <2>14 DEF c
  <2> QED BY <2>1, <2>15
<1> HIDE DEF T
<1>4. n \in Nat
  OBVIOUS
<1>5. n \in T
  BY <1>2, <1>3, <1>4, IntervalInduction
<1> QED BY <1>5 DEF T

LEMMA LooseRunIsRun ==
  ASSUME NEW st \in States, NEW txs \in Seq(Legal), NEW w, IsLooseRun(st, txs, w),
         \A i \in DOMAIN txs : txs[i].type = "payment" => txs[i].fee >= st.baseFee,
         SumTo(Spent(txs), Len(txs)) <= st.balances[Faucet]
  PROVE  IsRun(st, txs, w)
<1>1. Len(txs) \in Nat /\ DOMAIN txs = 1 .. Len(txs) /\ \A k \in 1 .. Len(txs) : txs[k] \in Legal
  OBVIOUS
<1>2. \A k \in 1 .. Len(txs) : Spent(txs)[k] \in Nat
  BY <1>1 DEF Spent, Legal, Transactions
<1>3. PICK g \in [0 .. Len(txs) -> Int] :
        /\ g[0] = 0 /\ \A k \in 1 .. Len(txs) : g[k] = g[k - 1] + Spent(txs)[k]
        /\ \A k \in 0 .. Len(txs) : g[k] <= SumTo(Spent(txs), Len(txs))
        /\ SumTo(Spent(txs), Len(txs)) \in Int
  BY <1>1, <1>2, SumsRise
<1>4. ASSUME NEW k \in 1 .. Len(txs) PROVE Executable(w[k - 1], txs[k])
  <2> DEFINE tx == txs[k]
             x == w[k - 1]
  <2>1. k - 1 \in 0 .. Len(txs) /\ k \in 0 .. Len(txs) /\ tx \in Legal
    BY <1>1
  <2>2. LooselyExecutable(x, tx)
    BY DEF IsLooseRun
  <2>3. /\ x.baseFee = st.baseFee
        /\ x.balances \in [Accounts -> Int]
        /\ x.balances[Faucet] >= st.balances[Faucet] - g[k - 1]
    BY <1>3, <2>1, LooseRunFunds
  <2>4. tx.type = "payment" => tx.fee >= st.baseFee
    BY <1>1
  <2>5. Spent(txs)[k] = IF tx.type = "faucet" THEN tx.amount ELSE 0
    BY <1>1 DEF Spent
  <2>6. g[k] = g[k - 1] + Spent(txs)[k] /\ g[k] <= SumTo(Spent(txs), Len(txs)) /\ g[k] \in Int /\ g[k - 1] \in Int
    BY <1>3, <2>1
  <2> HIDE DEF tx, x
  <2>7. /\ tx.amount \in Nat /\ tx.fee \in Nat
        /\ tx.sender = Faucet => tx.type = "faucet" /\ tx.fee = 0
    BY <2>1 DEF Legal, Transactions
  <2>8. SumTo(Spent(txs), Len(txs)) \in Int /\ st.balances[Faucet] \in Int /\ x.balances[Faucet] \in Int
    <3>1. Faucet \in Accounts
      BY DEF Accounts
    <3> QED BY <1>3, <2>3, <3>1 DEF States
  <2>9. Funded(x, tx)
    <3>1. tx.type = "faucet" => tx.amount <= x.balances[Faucet]
      <4> SUFFICES ASSUME tx.type = "faucet" PROVE tx.amount <= x.balances[Faucet]
        OBVIOUS
      <4>1. tx.amount <= st.balances[Faucet] - g[k - 1]
        BY <2>5, <2>6, <2>7, <2>8
      <4> QED BY <2>3, <2>6, <2>7, <2>8, <4>1
    <3>2. CASE tx.sender = Faucet
      BY <2>7, <2>8, <3>1, <3>2 DEF Funded, Owed
    <3>3. CASE tx.sender # Faucet
      BY <2>2, <3>1, <3>3 DEF Funded, LooselyExecutable
    <3> QED BY <3>2, <3>3
  <2>10. Executable(x, tx)
    BY <2>2, <2>3, <2>4, <2>9 DEF LooselyExecutable, Executable
  <2> QED BY <2>10 DEF tx, x
<1>5. \A k \in 1 .. Len(txs) : w[k] = Executed(w[k - 1], txs[k])
  BY DEF IsLooseRun
<1>6. w[0] = st
  BY DEF IsLooseRun
<1> QED BY <1>4, <1>5, <1>6 DEF IsRun

\* The mempool holds only what executes, but for fees and faucet funds that
\* the end of a block changed: projectPendingTransactions would keep it all.
THEOREM PendingAlwaysExecutes == Spec => []PendingWillExecute
<1>1. Init => Inv
  BY InitInv
<1>2. Inv /\ [Next]_vars => Inv'
  BY NextKept
<1>3. Inv => PendingWillExecute
  <2> SUFFICES ASSUME Inv, FeesSuffice, FaucetSuffices PROVE Projection(state, mempool).rejected = <<>>
    BY DEF PendingWillExecute
  <2>1. state \in States /\ mempool \in Seq(Legal)
    BY DEF Inv, Core, SoundStates
  <2>2. PICK w : IsLooseRun(state, mempool, w)
    BY DEF Inv, Core, RunsLoosely
  <2>3. IsRun(state, mempool, w)
    <3>1. \A i \in DOMAIN mempool : mempool[i].type = "payment" => mempool[i].fee >= state.baseFee
      BY DEF FeesSuffice
    <3>2. SumTo(Spent(mempool), Len(mempool)) <= state.balances[Faucet]
      BY DEF FaucetSuffices, Spent
    <3> QED BY <2>1, <2>2, <3>1, <3>2, LooseRunIsRun
  <2> QED BY <2>1, <2>3, RunReplays
<1> QED BY <1>1, <1>2, <1>3, PTL DEF Spec

=============================================================================
