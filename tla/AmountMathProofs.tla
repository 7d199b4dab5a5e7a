-------------------------- MODULE AmountMathProofs --------------------------
(***************************************************************************)
(* Facts about AmountMath that the proofs about Staking and Governance     *)
(* rest on: sums of any number of amounts, and rounded quotients.          *)
(*                                                                         *)
(* SumTo is recursive, so that its facts need induction over its length.   *)
(* It is carried out in first-order steps: the set of lengths for which a  *)
(* fact holds contains 0 and is closed under successor, hence contains     *)
(* every length (IntervalInduction), because a least length outside it     *)
(* cannot exist (LeastNatural, from the well-foundedness of strict         *)
(* inclusion between finite intervals).                                    *)
(***************************************************************************)
EXTENDS AmountMath, FiniteSetTheorems, TLAPS

\* A nonempty set of natural numbers has a least element.
LEMMA LeastNatural ==
  ASSUME NEW T, T \subseteq Nat, T # {}
  PROVE  \E x \in T : \A y \in T : x <= y
<1>0. PICK t \in T : TRUE
  OBVIOUS
<1> DEFINE Low == {x \in T : x <= t}
           W == {1 .. x : x \in Low}
<1>1. W \subseteq FiniteSubsetsOf(1 .. t)
  <2> SUFFICES ASSUME NEW x \in Low PROVE 1 .. x \in FiniteSubsetsOf(1 .. t)
    OBVIOUS
  <2>1. x \in Nat /\ t \in Nat /\ x <= t
    OBVIOUS
  <2>2. IsFiniteSet(1 .. x)
    BY <2>1, FS_Interval
  <2>3. 1 .. x \subseteq 1 .. t
    BY <2>1
  <2> QED BY <2>2, <2>3 DEF FiniteSubsetsOf
<1>2. W # {}
  BY <1>0
<1>3. IsWellFoundedOn(StrictSubsetOrdering(1 .. t), FiniteSubsetsOf(1 .. t))
  BY FS_StrictSubsetOrderingWellFounded
<1> HIDE DEF W
<1>4. PICK I \in W : \A J \in W : ~ (<<J, I>> \in StrictSubsetOrdering(1 .. t))
  BY <1>1, <1>2, <1>3, WFMin
<1>5. PICK x \in Low : I = 1 .. x
  BY <1>4 DEF W
<1>6. \A y \in Low : x <= y
  <2> SUFFICES ASSUME NEW y \in Low, ~ (x <= y) PROVE FALSE
    OBVIOUS
  <2>1. x \in Nat /\ y \in Nat /\ t \in Nat /\ y < x /\ x <= t
    OBVIOUS
  <2>2. 1 .. y \in W
    BY DEF W
  <2>3. 1 .. y \in SUBSET (1 .. t) /\ 1 .. x \in SUBSET (1 .. t) /\ 1 .. y \subseteq 1 .. x
    BY <2>1
  <2>4. x \in 1 .. x /\ x \notin 1 .. y
    BY <2>1
  <2>5. <<1 .. y, 1 .. x>> \in StrictSubsetOrdering(1 .. t)
    BY <2>3, <2>4 DEF StrictSubsetOrdering
  <2> QED BY <2>2, <2>5, <1>4, <1>5
<1>7. \A y \in T : x <= y
  <2> TAKE y \in T
  <2>1. CASE y \in Low
    BY <2>1, <1>6
  <2>2. CASE y \notin Low
    BY <2>2
  <2> QED BY <2>1, <2>2
<1> QED BY <1>7

\* Induction along 0 .. n, with the induction hypothesis as a set.
LEMMA IntervalInduction ==
  ASSUME NEW n \in Nat, NEW T,
         0 \in T,
         \A m \in 0 .. (n - 1) : m \in T => m + 1 \in T
  PROVE  \A m \in 0 .. n : m \in T
<1> DEFINE Out == {m \in 0 .. n : m \notin T}
<1> SUFFICES ASSUME Out # {} PROVE FALSE
  OBVIOUS
<1>1. PICK m \in Out : \A k \in Out : m <= k
  <2>1. Out \subseteq Nat
    OBVIOUS
  <2> QED BY <2>1, LeastNatural
<1>2. m # 0 /\ m - 1 \in 0 .. (n - 1) /\ m - 1 \notin Out
  BY <1>1
<1>3. m - 1 \in T
  BY <1>2
<1>4. (m - 1) + 1 \in T
  BY <1>2, <1>3
<1> QED BY <1>1, <1>4

-----------------------------------------------------------------------------
\* g is the table of the partial sums of w up to n.
SumTable(w, n, g) == g = [k \in 0 .. n |-> IF k = 0 THEN 0 ELSE g[k - 1] + w[k]]

\* The recursive definition inside SumTo has a solution.
LEMMA SumTableExists ==
  ASSUME NEW w, NEW n \in Nat, \A k \in 1 .. n : w[k] \in Int
  PROVE  \E g \in [0 .. n -> Int] : SumTable(w, n, g)
<1> DEFINE T == {m \in 0 .. n : \E g \in [0 .. m -> Int] : SumTable(w, m, g)}
<1>1. 0 \in T
  <2> DEFINE g == [k \in 0 .. 0 |-> 0]
  <2>1. g \in [0 .. 0 -> Int] /\ SumTable(w, 0, g)
    BY DEF SumTable
  <2> QED BY <2>1
<1>2. ASSUME NEW m \in 0 .. (n - 1), m \in T PROVE m + 1 \in T
  <2>1. PICK h \in [0 .. m -> Int] : SumTable(w, m, h)
    BY <1>2
  <2> DEFINE g == [k \in 0 .. (m + 1) |-> IF k = m + 1 THEN h[m] + w[m + 1] ELSE h[k]]
  <2>2. g \in [0 .. (m + 1) -> Int]
    BY <2>1
  <2>3. \A k \in 0 .. (m + 1) : g[k] = IF k = 0 THEN 0 ELSE g[k - 1] + w[k]
    BY <2>1 DEF SumTable
  <2>4. SumTable(w, m + 1, g)
    BY <2>2, <2>3 DEF SumTable
  <2> QED BY <2>2, <2>4
<1> HIDE DEF T
<1>3. \A m \in 0 .. n : m \in T
  BY <1>1, <1>2, IntervalInduction
<1> QED BY <1>3 DEF T

\* Two solutions agree as far as both reach.
LEMMA SumTableUnique ==
  ASSUME NEW w, NEW n \in Nat, NEW m \in 0 .. n, NEW g, NEW h,
         SumTable(w, n, g), SumTable(w, m, h),
         \A k \in 1 .. n : w[k] \in Int
  PROVE  \A k \in 0 .. m : g[k] = h[k]
<1> DEFINE T == {k \in 0 .. m : g[k] = h[k]}
<1>1. \A k \in 0 .. m : /\ g[k] = (IF k = 0 THEN 0 ELSE g[k - 1] + w[k])
                        /\ h[k] = (IF k = 0 THEN 0 ELSE h[k - 1] + w[k])
  BY DEF SumTable
<1>2. 0 \in T
  BY <1>1
<1>3. ASSUME NEW k \in 0 .. (m - 1), k \in T PROVE k + 1 \in T
  <2>1. k + 1 \in 0 .. m /\ k + 1 # 0 /\ (k + 1) - 1 = k
    OBVIOUS
  <2>2. g[k + 1] = g[k] + w[k + 1] /\ h[k + 1] = h[k] + w[k + 1]
    BY <1>1, <2>1
  <2> QED BY <1>3, <2>1, <2>2
<1> HIDE DEF T
<1>4. \A k \in 0 .. m : k \in T
  BY <1>2, <1>3, IntervalInduction
<1> QED BY <1>4 DEF T

LEMMA SumIsTable ==
  ASSUME NEW w, NEW n \in Nat, \A k \in 1 .. n : w[k] \in Int
  PROVE  \E g \in [0 .. n -> Int] : SumTable(w, n, g) /\ SumTo(w, n) = g[n]
<1> DEFINE c == CHOOSE acc : acc = [k \in 0 .. n |-> IF k = 0 THEN 0 ELSE acc[k - 1] + w[k]]
<1>1. PICK g \in [0 .. n -> Int] : SumTable(w, n, g)
  BY SumTableExists
<1>2. c = [k \in 0 .. n |-> IF k = 0 THEN 0 ELSE c[k - 1] + w[k]]
  BY <1>1 DEF SumTable
<1>3. SumTo(w, n) = c[n]
  BY DEF SumTo
<1>4. SumTable(w, n, c)
  BY <1>2 DEF SumTable
<1> HIDE DEF c
<1>5. n \in 0 .. n
  OBVIOUS
<1>6. \A k \in 0 .. n : c[k] = g[k]
  BY <1>1, <1>4, <1>5, SumTableUnique
<1> QED BY <1>1, <1>3, <1>5, <1>6

-----------------------------------------------------------------------------
\* The sum over an initial part of an integer-valued w, one entry at a time.
THEOREM SumUnfold ==
  ASSUME NEW w, NEW n \in Nat, \A k \in 1 .. n : w[k] \in Int
  PROVE  /\ SumTo(w, 0) = 0
         /\ \A m \in 0 .. n : SumTo(w, m) \in Int
         /\ \A m \in 0 .. (n - 1) : SumTo(w, m + 1) = SumTo(w, m) + w[m + 1]
<1>1. PICK g : g \in [0 .. n -> Int] /\ SumTable(w, n, g)
  BY SumTableExists
<1>2. \A m \in 0 .. n : SumTo(w, m) = g[m]
  <2> TAKE m \in 0 .. n
  <2>1. m \in Nat /\ \A k \in 1 .. m : w[k] \in Int
    OBVIOUS
  <2>2. PICK h : SumTable(w, m, h) /\ SumTo(w, m) = h[m]
    BY <2>1, SumIsTable
  <2>3. SumTable(w, n, g) /\ SumTable(w, m, h)
    BY <1>1, <2>2
  <2>4. \A k \in 0 .. m : g[k] = h[k]
    BY <2>3, SumTableUnique
  <2>5. m \in 0 .. m
    BY <2>1
  <2> QED BY <2>2, <2>4, <2>5
<1>3. \A m \in 0 .. n : g[m] = (IF m = 0 THEN 0 ELSE g[m - 1] + w[m])
  BY <1>1 DEF SumTable
<1>4. SumTo(w, 0) = 0
  BY <1>2, <1>3
<1>5. ASSUME NEW m \in 0 .. (n - 1) PROVE SumTo(w, m + 1) = SumTo(w, m) + w[m + 1]
  <2>1. m \in 0 .. n /\ m + 1 \in 0 .. n /\ m + 1 # 0 /\ (m + 1) - 1 = m
    OBVIOUS
  <2> QED BY <1>2, <1>3, <2>1
<1> QED BY <1>1, <1>2, <1>4, <1>5

\* Entry by entry, the sum of two amounts is the amount of the sums.
LEMMA SumAdd ==
  ASSUME NEW n \in Nat, NEW u, NEW v, NEW w,
         \A k \in 1 .. n : u[k] \in Int /\ v[k] \in Int /\ w[k] = u[k] + v[k]
  PROVE  SumTo(w, n) = SumTo(u, n) + SumTo(v, n)
<1> DEFINE T == {m \in 0 .. n : SumTo(w, m) = SumTo(u, m) + SumTo(v, m)}
<1>1. \A k \in 1 .. n : u[k] \in Int
  OBVIOUS
<1>2. \A k \in 1 .. n : v[k] \in Int
  OBVIOUS
<1>3. \A k \in 1 .. n : w[k] \in Int
  OBVIOUS
<1>4. /\ SumTo(u, 0) = 0
      /\ \A m \in 0 .. n : SumTo(u, m) \in Int
      /\ \A m \in 0 .. (n - 1) : SumTo(u, m + 1) = SumTo(u, m) + u[m + 1]
  BY <1>1, SumUnfold
<1>5. /\ SumTo(v, 0) = 0
      /\ \A m \in 0 .. n : SumTo(v, m) \in Int
      /\ \A m \in 0 .. (n - 1) : SumTo(v, m + 1) = SumTo(v, m) + v[m + 1]
  BY <1>2, SumUnfold
<1>6. /\ SumTo(w, 0) = 0
      /\ \A m \in 0 .. n : SumTo(w, m) \in Int
      /\ \A m \in 0 .. (n - 1) : SumTo(w, m + 1) = SumTo(w, m) + w[m + 1]
  BY <1>3, SumUnfold
<1>7. 0 \in T
  BY <1>4, <1>5, <1>6
<1>8. ASSUME NEW m \in 0 .. (n - 1), m \in T PROVE m + 1 \in T
  <2>1. m \in 0 .. n /\ m + 1 \in 0 .. n /\ m + 1 \in 1 .. n
    OBVIOUS
  <2>2. w[m + 1] = u[m + 1] + v[m + 1] /\ u[m + 1] \in Int /\ v[m + 1] \in Int
    BY <2>1
  <2>3. SumTo(w, m) = SumTo(u, m) + SumTo(v, m)
    BY <1>8
  <2>4. SumTo(w, m + 1) = SumTo(u, m + 1) + SumTo(v, m + 1)
    BY <1>4, <1>5, <1>6, <2>1, <2>2, <2>3
  <2> QED BY <2>1, <2>4
<1> HIDE DEF T
<1>9. \A m \in 0 .. n : m \in T
  BY <1>7, <1>8, IntervalInduction
<1> QED BY <1>9 DEF T

\* A sum of natural numbers is one.
LEMMA SumNat ==
  ASSUME NEW n \in Nat, NEW w, \A k \in 1 .. n : w[k] \in Nat
  PROVE  SumTo(w, n) \in Nat
<1> DEFINE T == {m \in 0 .. n : SumTo(w, m) \in Nat}
<1>1. \A k \in 1 .. n : w[k] \in Int
  OBVIOUS
<1>2. /\ SumTo(w, 0) = 0
      /\ \A m \in 0 .. (n - 1) : SumTo(w, m + 1) = SumTo(w, m) + w[m + 1]
  BY <1>1, SumUnfold
<1>3. 0 \in T
  BY <1>2
<1>4. ASSUME NEW m \in 0 .. (n - 1), m \in T PROVE m + 1 \in T
  BY <1>2, <1>4
<1> HIDE DEF T
<1>5. \A m \in 0 .. n : m \in T
  BY <1>3, <1>4, IntervalInduction
<1> QED BY <1>5 DEF T

LEMMA SumInt ==
  ASSUME NEW n \in Nat, NEW w, \A k \in 1 .. n : w[k] \in Int
  PROVE  SumTo(w, n) \in Int
<1>1. n \in 0 .. n
  OBVIOUS
<1> QED BY <1>1, SumUnfold

\* Equal entries, equal sums.
LEMMA SumSame ==
  ASSUME NEW n \in Nat, NEW v, NEW w,
         \A k \in 1 .. n : v[k] \in Int /\ v[k] = w[k]
  PROVE  SumTo(v, n) = SumTo(w, n)
<1> DEFINE T == {m \in 0 .. n : SumTo(v, m) = SumTo(w, m)}
<1>1. \A k \in 1 .. n : v[k] \in Int
  OBVIOUS
<1>2. \A k \in 1 .. n : w[k] \in Int
  OBVIOUS
<1>3. /\ SumTo(v, 0) = 0
      /\ \A m \in 0 .. (n - 1) : SumTo(v, m + 1) = SumTo(v, m) + v[m + 1]
  BY <1>1, SumUnfold
<1>4. /\ SumTo(w, 0) = 0
      /\ \A m \in 0 .. (n - 1) : SumTo(w, m + 1) = SumTo(w, m) + w[m + 1]
  BY <1>2, SumUnfold
<1>5. 0 \in T
  BY <1>3, <1>4
<1>6. ASSUME NEW m \in 0 .. (n - 1), m \in T PROVE m + 1 \in T
  <2>1. m + 1 \in 1 .. n /\ m + 1 \in 0 .. n /\ SumTo(v, m) = SumTo(w, m)
    BY <1>6
  <2>2. v[m + 1] = w[m + 1]
    BY <2>1
  <2> QED BY <1>3, <1>4, <2>1, <2>2
<1> HIDE DEF T
<1>7. \A m \in 0 .. n : m \in T
  BY <1>5, <1>6, IntervalInduction
<1> QED BY <1>7 DEF T

\* Changing the one entry at i by x changes the sum by x.
LEMMA SumShift ==
  ASSUME NEW n \in Nat, NEW v, NEW w, NEW i \in 1 .. n, NEW x \in Int,
         \A k \in 1 .. n : v[k] \in Int,
         \A k \in 1 .. n : w[k] = IF k = i THEN v[k] + x ELSE v[k]
  PROVE  SumTo(w, n) = SumTo(v, n) + x
<1> DEFINE T == {m \in 0 .. n : SumTo(w, m) = SumTo(v, m) + (IF i <= m THEN x ELSE 0)}
<1>1. \A k \in 1 .. n : w[k] \in Int
  OBVIOUS
<1>2. /\ SumTo(v, 0) = 0
      /\ \A m \in 0 .. n : SumTo(v, m) \in Int
      /\ \A m \in 0 .. (n - 1) : SumTo(v, m + 1) = SumTo(v, m) + v[m + 1]
  BY SumUnfold
<1>3. /\ SumTo(w, 0) = 0
      /\ \A m \in 0 .. n : SumTo(w, m) \in Int
      /\ \A m \in 0 .. (n - 1) : SumTo(w, m + 1) = SumTo(w, m) + w[m + 1]
  BY <1>1, SumUnfold
<1>4. 0 \in T
  BY <1>2, <1>3
<1>5. ASSUME NEW m \in 0 .. (n - 1), m \in T PROVE m + 1 \in T
  <2>1. /\ m \in 0 .. n /\ m + 1 \in 1 .. n /\ m + 1 \in 0 .. n
        /\ SumTo(w, m) = SumTo(v, m) + (IF i <= m THEN x ELSE 0)
    BY <1>5
  <2>2. w[m + 1] = (IF m + 1 = i THEN v[m + 1] + x ELSE v[m + 1]) /\ v[m + 1] \in Int
    BY <2>1
  <2>3. SumTo(w, m + 1) = SumTo(v, m + 1) + (IF i <= m + 1 THEN x ELSE 0)
    BY <1>2, <1>3, <2>1, <2>2
  <2> QED BY <2>1, <2>3
<1> HIDE DEF T
<1>6. \A m \in 0 .. n : m \in T
  BY <1>4, <1>5, IntervalInduction
<1> QED BY <1>6 DEF T

\* All entries zero but the one at i.
LEMMA SumPoint ==
  ASSUME NEW n \in Nat, NEW w, NEW i \in 1 .. n, NEW x \in Int,
         \A k \in 1 .. n : w[k] = IF k = i THEN x ELSE 0
  PROVE  SumTo(w, n) = x
<1> DEFINE T == {m \in 0 .. n : SumTo(w, m) = IF i <= m THEN x ELSE 0}
<1>1. \A k \in 1 .. n : w[k] \in Int
  OBVIOUS
<1>2. /\ SumTo(w, 0) = 0
      /\ \A m \in 0 .. (n - 1) : SumTo(w, m + 1) = SumTo(w, m) + w[m + 1]
  BY <1>1, SumUnfold
<1>3. 0 \in T
  BY <1>2
<1>4. ASSUME NEW m \in 0 .. (n - 1), m \in T PROVE m + 1 \in T
  <2>1. /\ m + 1 \in 1 .. n /\ m + 1 \in 0 .. n
        /\ SumTo(w, m) = IF i <= m THEN x ELSE 0
    BY <1>4
  <2>2. w[m + 1] = IF m + 1 = i THEN x ELSE 0
    BY <2>1
  <2>3. SumTo(w, m + 1) = IF i <= m + 1 THEN x ELSE 0
    BY <1>2, <2>1, <2>2
  <2> QED BY <2>1, <2>3
<1> HIDE DEF T
<1>5. \A m \in 0 .. n : m \in T
  BY <1>3, <1>4, IntervalInduction
<1> QED BY <1>5 DEF T

\* An entry of natural numbers is at most their sum.
LEMMA SumEntry ==
  ASSUME NEW n \in Nat, NEW w, NEW i \in 1 .. n, \A k \in 1 .. n : w[k] \in Nat
  PROVE  w[i] <= SumTo(w, n)
<1> DEFINE v == [k \in 1 .. n |-> IF k = i THEN 0 ELSE w[k]]
<1>1. PICK x : x \in Nat /\ x = w[i]
  OBVIOUS
<1>2. /\ \A k \in 1 .. n : v[k] \in Nat
      /\ \A k \in 1 .. n : w[k] = IF k = i THEN v[k] + x ELSE v[k]
  BY <1>1
<1> HIDE DEF v
<1>3. SumTo(v, n) \in Nat
  BY <1>2, SumNat
<1>4. SumTo(w, n) = SumTo(v, n) + x
  <2>1. x \in Int /\ \A k \in 1 .. n : v[k] \in Int
    BY <1>1, <1>2
  <2> QED BY <1>2, <2>1, SumShift
<1> QED BY <1>1, <1>3, <1>4

\* A sum of natural numbers grows with its length.
LEMMA SumMonotone ==
  ASSUME NEW n \in Nat, NEW w, NEW m \in 0 .. n, \A k \in 1 .. n : w[k] \in Nat
  PROVE  SumTo(w, m) \in Nat /\ SumTo(w, n) \in Nat /\ SumTo(w, m) <= SumTo(w, n)
<1> DEFINE T == {k \in 0 .. (n - m) : SumTo(w, m) <= SumTo(w, m + k)}
<1>1. \A k \in 1 .. n : w[k] \in Int
  OBVIOUS
<1>2. \A k \in 0 .. (n - 1) : SumTo(w, k + 1) = SumTo(w, k) + w[k + 1]
  BY <1>1, SumUnfold
<1>3. \A k \in 0 .. n : SumTo(w, k) \in Nat
  BY SumNat
<1>4. 0 \in T
  BY <1>3
<1>5. ASSUME NEW k \in 0 .. (n - m - 1), k \in T PROVE k + 1 \in T
  <2>1. m + k \in 0 .. (n - 1) /\ (m + k) + 1 = m + (k + 1) /\ (m + k) + 1 \in 1 .. n
    OBVIOUS
  <2>2. SumTo(w, m + (k + 1)) = SumTo(w, m + k) + w[m + (k + 1)]
    BY <1>2, <2>1
  <2>3. w[m + (k + 1)] \in Nat /\ SumTo(w, m + k) \in Nat /\ SumTo(w, m) \in Nat
    BY <1>3, <2>1
  <2> QED BY <1>5, <2>2, <2>3
<1>6. n - m \in Nat
  OBVIOUS
<1> HIDE DEF T
<1>7. \A k \in 0 .. (n - m) : k \in T
  BY <1>4, <1>5, <1>6, IntervalInduction
<1>8. n - m \in T
  BY <1>6, <1>7
<1>9. SumTo(w, m) <= SumTo(w, m + (n - m)) /\ m + (n - m) = n
  BY <1>8 DEF T
<1> QED BY <1>3, <1>9

\* One more entry.
LEMMA SumExtend ==
  ASSUME NEW n \in Nat, NEW v, NEW w, \A k \in 1 .. n : v[k] \in Int /\ w[k] = v[k],
         w[n + 1] \in Int
  PROVE  SumTo(w, n + 1) = SumTo(v, n) + w[n + 1]
<1>1. \A k \in 1 .. (n + 1) : w[k] \in Int
  OBVIOUS
<1>2. n + 1 \in Nat /\ n \in 0 .. ((n + 1) - 1)
  OBVIOUS
<1>3. SumTo(w, n + 1) = SumTo(w, n) + w[n + 1]
  BY <1>1, <1>2, SumUnfold
<1>4. SumTo(v, n) = SumTo(w, n)
  BY SumSame
<1> QED BY <1>3, <1>4

\* In a table of n rows of m entries, changing the one entry at (i, j) by x
\* changes the sum of row i by x, no other row's sum, and the total by x.
EntryShifted(A, B, n, m, i, j, x) ==
  \A k \in 1 .. n : \A l \in 1 .. m :
    /\ A[k][l] \in Int
    /\ B[k][l] = IF k = i /\ l = j THEN A[k][l] + x ELSE A[k][l]

GrandTotal(A, n, m) == SumTo([k \in 1 .. n |-> SumTo(A[k], m)], n)

LEMMA SumRows ==
  ASSUME NEW n \in Nat, NEW m \in Nat, NEW A, NEW B,
         NEW i \in 1 .. n, NEW j \in 1 .. m, NEW x \in Int,
         EntryShifted(A, B, n, m, i, j, x)
  PROVE  /\ SumTo(B[i], m) = SumTo(A[i], m) + x
         /\ \A k \in 1 .. n : k # i => SumTo(B[k], m) = SumTo(A[k], m)
         /\ \A k \in 1 .. n : SumTo(A[k], m) \in Int
         /\ GrandTotal(B, n, m) = GrandTotal(A, n, m) + x
<1>1. SumTo(B[i], m) = SumTo(A[i], m) + x
  <2> DEFINE v == A[i]
             w == B[i]
  <2>1. /\ \A l \in 1 .. m : v[l] \in Int
        /\ \A l \in 1 .. m : w[l] = IF l = j THEN v[l] + x ELSE v[l]
    BY DEF EntryShifted
  <2> HIDE DEF v, w
  <2>2. SumTo(w, m) = SumTo(v, m) + x
    BY <2>1, SumShift, ZenonT(60)
  <2> QED BY <2>2 DEF v, w
<1>2. ASSUME NEW k \in 1 .. n, k # i PROVE SumTo(B[k], m) = SumTo(A[k], m)
  <2> DEFINE v == B[k]
             w == A[k]
  <2>1. \A l \in 1 .. m : v[l] \in Int /\ v[l] = w[l]
    BY <1>2 DEF EntryShifted
  <2> HIDE DEF v, w
  <2>2. SumTo(v, m) = SumTo(w, m)
    BY <2>1, SumSame
  <2> QED BY <2>2 DEF v, w
<1>3. ASSUME NEW k \in 1 .. n PROVE SumTo(A[k], m) \in Int
  <2> DEFINE v == A[k]
  <2>1. \A l \in 1 .. m : v[l] \in Int
    BY DEF EntryShifted
  <2> HIDE DEF v
  <2>2. SumTo(v, m) \in Int
    BY <2>1, SumInt
  <2> QED BY <2>2 DEF v
<1>4. GrandTotal(B, n, m) = GrandTotal(A, n, m) + x
  <2> DEFINE v == [k \in 1 .. n |-> SumTo(A[k], m)]
             w == [k \in 1 .. n |-> SumTo(B[k], m)]
  <2>1. \A k \in 1 .. n : v[k] \in Int
    BY <1>3
  <2>2. \A k \in 1 .. n : w[k] = IF k = i THEN v[k] + x ELSE v[k]
    BY <1>1, <1>2
  <2> HIDE DEF v, w
  <2>3. SumTo(w, n) = SumTo(v, n) + x
    BY <2>1, <2>2, SumShift
  <2> QED BY <2>3 DEF v, w, GrandTotal
<1> QED BY <1>1, <1>2, <1>3, <1>4

-----------------------------------------------------------------------------
\* Math.round of a quotient of natural numbers is a natural number.
LEMMA RoundNat ==
  ASSUME NEW num \in Nat, NEW den \in Nat \ {0}
  PROVE  Round(num, den) \in Nat
<1>1. 2 * num + den \in Nat /\ 2 * den \in Nat /\ 2 * den > 0
  OBVIOUS
<1>2. \A p, q \in Nat : q > 0 => p \div q \in Nat
  OBVIOUS
<1> QED BY <1>1, <1>2 DEF Round

\* Less than half of an amount rounds to at most half of it.
LEMMA RoundBelowHalf ==
  ASSUME NEW x \in Nat, NEW p \in 0 .. 49
  PROVE  Round(x * p, 100) \in Nat /\ 2 * Round(x * p, 100) <= x
<1>1. x * p \in Nat /\ x * p <= 49 * x
  OBVIOUS
<1>2. \A y \in Nat : y <= 49 * x => 2 * ((2 * y + 100) \div 200) <= x
  OBVIOUS
<1> QED BY <1>1, <1>2, RoundNat DEF Round
=============================================================================
