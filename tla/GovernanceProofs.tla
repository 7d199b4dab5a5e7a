-------------------------- MODULE GovernanceProofs --------------------------
(***************************************************************************)
(* Proofs about Governance for every set of accounts, payloads, parameters *)
(* and bounds.                                                             *)
(***************************************************************************)
EXTENDS Governance, AmountMathProofs, SequenceTheorems

LEMMA AccountFacts ==
  /\ NumAccounts \in Nat /\ BlockReward \in Nat
  /\ Escrow \in Accounts /\ Treasury \in Accounts \ {Escrow}
  /\ Sources \subseteq Accounts \ {Escrow}
  /\ Wallets \subseteq Accounts \ {Escrow}
  /\ Stakes \subseteq Nat
BY GovernanceAssumption

-----------------------------------------------------------------------------
(***************************************************************************)
(* Balances.                                                               *)
(***************************************************************************)
Money(b) == SumTo(b, NumAccounts)

LEMMA CreditedMoney ==
  ASSUME NEW b \in [Accounts -> Int], NEW a \in Accounts, NEW x \in Int
  PROVE  /\ [b EXCEPT ![a] = @ + x] \in [Accounts -> Int]
         /\ Money([b EXCEPT ![a] = @ + x]) = Money(b) + x
         /\ Money(b) \in Int
<1> DEFINE c == [b EXCEPT ![a] = @ + x]
<1>1. /\ NumAccounts \in Nat /\ a \in 1 .. NumAccounts
      /\ \A k \in 1 .. NumAccounts : b[k] \in Int
      /\ \A k \in 1 .. NumAccounts : c[k] = IF k = a THEN b[k] + x ELSE b[k]
      /\ c \in [Accounts -> Int]
  BY AccountFacts DEF Accounts
<1> HIDE DEF c
<1>2. SumTo(c, NumAccounts) = SumTo(b, NumAccounts) + x
  BY <1>1, SumShift
<1>3. SumTo(b, NumAccounts) \in Int
  BY <1>1, SumInt
<1> QED BY <1>1, <1>2, <1>3 DEF Money, c

LEMMA MovedMoney ==
  ASSUME NEW b \in [Accounts -> Nat], NEW from \in Accounts, NEW to \in Accounts,
         NEW x \in Nat, x <= b[from]
  PROVE  /\ Moved(b, from, to, x) \in [Accounts -> Nat]
         /\ Money(Moved(b, from, to, x)) = Money(b)
         /\ \A a \in Accounts \ {from} : Moved(b, from, to, x)[a] >= b[a]
         /\ Moved(b, from, to, x)[from] + x >= b[from]
         /\ to # from => Moved(b, from, to, x)[to] = b[to] + x
<1> DEFINE c == [b EXCEPT ![from] = @ - x]
           d == [c EXCEPT ![to] = @ + x]
<1>0. PICK y \in Int : y = - x
  OBVIOUS
<1>1. b \in [Accounts -> Int] /\ c \in [Accounts -> Nat] /\ c = [b EXCEPT ![from] = @ + y]
  <2>1. b[from] \in Nat
    OBVIOUS
  <2>2. b[from] - x = b[from] + y /\ b[from] - x \in Nat
    BY <1>0, <2>1
  <2>3. c = [b EXCEPT ![from] = @ + y]
    BY <2>2
  <2>4. c \in [Accounts -> Nat] /\ b \in [Accounts -> Int]
    BY <2>2
  <2> QED BY <2>3, <2>4
<1>2. Money(c) = Money(b) - x /\ Money(b) \in Int
  <2> HIDE DEF c
  <2>1. Money(c) = Money(b) + y /\ Money(b) \in Int
    BY <1>1, CreditedMoney
  <2> QED BY <1>0, <2>1
<1>3. \A a \in Accounts : c[a] = b[a] - (IF a = from THEN x ELSE 0)
  OBVIOUS
<1>4. Moved(b, from, to, x) = d
  BY DEF Moved
<1> HIDE DEF c
<1>5. c \in [Accounts -> Int] /\ Money(d) = Money(c) + x
  <2>1. c \in [Accounts -> Int] /\ x \in Int
    BY <1>1
  <2> QED BY <2>1, CreditedMoney
<1>6. d \in [Accounts -> Nat]
      /\ \A a \in Accounts : d[a] = c[a] + (IF a = to THEN x ELSE 0)
  BY <1>1
<1>7. \A a \in Accounts : b[a] \in Nat /\ c[a] \in Nat
  BY <1>1
<1> HIDE DEF d
<1> QED BY <1>2, <1>3, <1>4, <1>5, <1>6, <1>7

-----------------------------------------------------------------------------
(***************************************************************************)
(* Sums over the proposals and over the schedules.                         *)
(***************************************************************************)
HeldFor(p) == IF p.status = "active" THEN p.deposit ELSE 0

HeldIn(ps) == SumTo([i \in DOMAIN ps |-> HeldFor(ps[i])], Len(ps))

ApprovedIn(ps) == SumTo([i \in DOMAIN ps |-> Approved(ps[i])], Len(ps))

Remaining(s) == s.amount - s.released

RemainingIn(ss) == SumTo([k \in DOMAIN ss |-> Remaining(ss[k])], Len(ss))

GrantedAmount(grants) == SumTo([k \in DOMAIN grants |-> grants[k].amount], Len(grants))

LEMMA GrantSums ==
  ASSUME NEW grants \in Seq(Grants)
  PROVE  GrantedAmount(grants) \in Nat
<1> DEFINE w == [k \in DOMAIN grants |-> grants[k].amount]
<1>0. \A g \in Grants : g.amount \in Nat
  BY DEF Grants
<1>1. Len(grants) \in Nat /\ \A k \in 1 .. Len(grants) : w[k] \in Nat
  BY <1>0
<1> HIDE DEF w
<1>2. SumTo(w, Len(grants)) \in Nat
  BY <1>1, SumNat
<1> QED BY <1>2 DEF GrantedAmount, w

LEMMA ProposalFields ==
  ASSUME NEW p \in Proposals
  PROVE  /\ p.proposer \in Wallets /\ p.startHeight \in Nat /\ p.endHeight \in Nat
         /\ p.deposit \in Nat
         /\ p.grants \in Seq(Grants) /\ DOMAIN p.changes \subseteq ParamNames
         /\ p.status \in {"active", "passed", "rejected", "execution_failed"}
         /\ HeldFor(p) \in Nat /\ Approved(p) \in Nat
         /\ p.status = "passed" => Approved(p) = GrantedAmount(p.grants)
         /\ p.status # "passed" => Approved(p) = 0
<1>1. /\ p.proposer \in Wallets /\ p.startHeight \in Nat /\ p.endHeight \in Nat
      /\ p.deposit \in Nat
      /\ p.status \in {"active", "passed", "rejected", "execution_failed"}
      /\ \E payload \in Payloads : p.grants = payload.grants
      /\ \E payload \in Payloads : p.changes = payload.changes
  BY DEF Proposals
<1>2. p.grants \in Seq(Grants) /\ DOMAIN p.changes \subseteq ParamNames
  BY <1>1, GovernanceAssumption
<1>3. GrantedAmount(p.grants) \in Nat
  BY <1>2, GrantSums
<1> QED BY <1>1, <1>2, <1>3 DEF HeldFor, Approved, GrantedAmount

LEMMA ProposalSums ==
  ASSUME NEW ps \in Seq(Proposals)
  PROVE  HeldIn(ps) \in Nat /\ ApprovedIn(ps) \in Nat
<1> DEFINE u == [i \in DOMAIN ps |-> HeldFor(ps[i])]
           v == [i \in DOMAIN ps |-> Approved(ps[i])]
<1>1. Len(ps) \in Nat /\ \A i \in 1 .. Len(ps) : ps[i] \in Proposals /\ i \in DOMAIN ps
  OBVIOUS
<1>2. \A i \in 1 .. Len(ps) : u[i] \in Nat /\ v[i] \in Nat
  BY <1>1, ProposalFields
<1> HIDE DEF u, v
<1>3. SumTo(u, Len(ps)) \in Nat /\ SumTo(v, Len(ps)) \in Nat
  BY <1>1, <1>2, SumNat
<1> QED BY <1>3 DEF HeldIn, ApprovedIn, u, v

LEMMA AppendedProposal ==
  ASSUME NEW ps \in Seq(Proposals), NEW p \in Proposals
  PROVE  /\ Append(ps, p) \in Seq(Proposals)
         /\ HeldIn(Append(ps, p)) = HeldIn(ps) + HeldFor(p)
         /\ ApprovedIn(Append(ps, p)) = ApprovedIn(ps) + Approved(p)
<1> DEFINE qs == Append(ps, p)
           n == Len(ps)
<1>1. /\ qs \in Seq(Proposals) /\ n \in Nat /\ Len(qs) = n + 1
      /\ \A i \in 1 .. n : qs[i] = ps[i]
      /\ qs[n + 1] = p
  BY AppendProperties
<1> HIDE DEF qs
<1>2. DOMAIN ps = 1 .. n /\ DOMAIN qs = 1 .. (n + 1)
  BY <1>1
<1>3. \A i \in 1 .. n : ps[i] \in Proposals
  OBVIOUS
<1>4. HeldIn(qs) = HeldIn(ps) + HeldFor(p)
  <2> DEFINE v == [i \in DOMAIN ps |-> HeldFor(ps[i])]
             w == [i \in DOMAIN qs |-> HeldFor(qs[i])]
  <2>1. \A i \in 1 .. n : v[i] \in Int /\ w[i] = v[i]
    BY <1>1, <1>2, <1>3, ProposalFields
  <2>2. w[n + 1] = HeldFor(p) /\ w[n + 1] \in Int
    BY <1>1, <1>2, ProposalFields
  <2> HIDE DEF v, w, n
  <2>3. SumTo(w, n + 1) = SumTo(v, n) + w[n + 1]
    BY <1>1, <2>1, <2>2, SumExtend
  <2> QED BY <1>1, <2>2, <2>3 DEF HeldIn, v, w, n
<1>5. ApprovedIn(qs) = ApprovedIn(ps) + Approved(p)
  <2> DEFINE v == [i \in DOMAIN ps |-> Approved(ps[i])]
             w == [i \in DOMAIN qs |-> Approved(qs[i])]
  <2>1. \A i \in 1 .. n : v[i] \in Int /\ w[i] = v[i]
    BY <1>1, <1>2, <1>3, ProposalFields
  <2>2. w[n + 1] = Approved(p) /\ w[n + 1] \in Int
    BY <1>1, <1>2, ProposalFields
  <2> HIDE DEF v, w, n
  <2>3. SumTo(w, n + 1) = SumTo(v, n) + w[n + 1]
    BY <1>1, <2>1, <2>2, SumExtend
  <2> QED BY <1>1, <2>2, <2>3 DEF ApprovedIn, v, w, n
<1> QED BY <1>1, <1>4, <1>5 DEF qs

LEMMA ReplacedProposal ==
  ASSUME NEW ps \in Seq(Proposals), NEW i \in DOMAIN ps, NEW p \in Proposals
  PROVE  /\ [ps EXCEPT ![i] = p] \in Seq(Proposals)
         /\ Len([ps EXCEPT ![i] = p]) = Len(ps)
         /\ DOMAIN [ps EXCEPT ![i] = p] = DOMAIN ps
         /\ \A k \in DOMAIN ps : [ps EXCEPT ![i] = p][k] = IF k = i THEN p ELSE ps[k]
         /\ ps[i] \in Proposals
         /\ HeldIn([ps EXCEPT ![i] = p]) = HeldIn(ps) + (HeldFor(p) - HeldFor(ps[i]))
         /\ ApprovedIn([ps EXCEPT ![i] = p]) = ApprovedIn(ps) + (Approved(p) - Approved(ps[i]))
<1> DEFINE qs == [ps EXCEPT ![i] = p]
           n == Len(ps)
<1>1. /\ n \in Nat /\ DOMAIN ps = 1 .. n /\ i \in 1 .. n
      /\ \A k \in 1 .. n : ps[k] \in Proposals
  OBVIOUS
<1>2. /\ qs \in Seq(Proposals) /\ Len(qs) = n
      /\ \A k \in 1 .. n : qs[k] = IF k = i THEN p ELSE ps[k]
  BY <1>1, ExceptSeq
<1> HIDE DEF qs
<1>3. DOMAIN qs = 1 .. n
  BY <1>2
<1>4. HeldIn(qs) = HeldIn(ps) + (HeldFor(p) - HeldFor(ps[i]))
  <2> DEFINE v == [k \in DOMAIN ps |-> HeldFor(ps[k])]
             w == [k \in DOMAIN qs |-> HeldFor(qs[k])]
  <2>1. PICK x \in Int : x = HeldFor(p) - HeldFor(ps[i])
    BY <1>1, ProposalFields
  <2>2. \A k \in 1 .. n : v[k] \in Int
    BY <1>1, ProposalFields
  <2>3. \A k \in 1 .. n : w[k] = IF k = i THEN v[k] + x ELSE v[k]
    <3> TAKE k \in 1 .. n
    <3>1. HeldFor(p) \in Int /\ HeldFor(ps[k]) \in Int
      BY <1>1, ProposalFields
    <3>2. w[k] = HeldFor(IF k = i THEN p ELSE ps[k]) /\ v[k] = HeldFor(ps[k])
      BY <1>1, <1>2, <1>3
    <3> QED BY <2>1, <3>1, <3>2
  <2> HIDE DEF v, w, n
  <2>4. SumTo(w, n) = SumTo(v, n) + x
    BY <1>1, <2>2, <2>3, SumShift
  <2> QED BY <1>2, <2>1, <2>4 DEF HeldIn, v, w, n
<1>5. ApprovedIn(qs) = ApprovedIn(ps) + (Approved(p) - Approved(ps[i]))
  <2> DEFINE v == [k \in DOMAIN ps |-> Approved(ps[k])]
             w == [k \in DOMAIN qs |-> Approved(qs[k])]
  <2>1. PICK x \in Int : x = Approved(p) - Approved(ps[i])
    BY <1>1, ProposalFields
  <2>2. \A k \in 1 .. n : v[k] \in Int
    BY <1>1, ProposalFields
  <2>3. \A k \in 1 .. n : w[k] = IF k = i THEN v[k] + x ELSE v[k]
    <3> TAKE k \in 1 .. n
    <3>1. Approved(p) \in Int /\ Approved(ps[k]) \in Int
      BY <1>1, ProposalFields
    <3>2. w[k] = Approved(IF k = i THEN p ELSE ps[k]) /\ v[k] = Approved(ps[k])
      BY <1>1, <1>2, <1>3
    <3> QED BY <2>1, <3>1, <3>2
  <2> HIDE DEF v, w, n
  <2>4. SumTo(w, n) = SumTo(v, n) + x
    BY <1>1, <2>2, <2>3, SumShift
  <2> QED BY <1>2, <2>1, <2>4 DEF ApprovedIn, v, w, n
<1> QED BY <1>1, <1>2, <1>3, <1>4, <1>5 DEF qs

LEMMA ScheduleSums ==
  ASSUME NEW ss \in Seq(Schedules)
  PROVE  RemainingIn(ss) \in Int
<1> DEFINE w == [k \in DOMAIN ss |-> Remaining(ss[k])]
<1>0. \A s \in Schedules : Remaining(s) \in Int
  BY DEF Schedules, Remaining
<1>1. Len(ss) \in Nat /\ \A k \in 1 .. Len(ss) : w[k] \in Int
  BY <1>0
<1> HIDE DEF w
<1>2. SumTo(w, Len(ss)) \in Int
  BY <1>1, SumInt
<1> QED BY <1>2 DEF RemainingIn, w

LEMMA AppendedSchedule ==
  ASSUME NEW ss \in Seq(Schedules), NEW s \in Schedules
  PROVE  /\ Append(ss, s) \in Seq(Schedules)
         /\ RemainingIn(Append(ss, s)) = RemainingIn(ss) + Remaining(s)
         /\ \A k \in DOMAIN Append(ss, s) :
              Append(ss, s)[k] = s \/ (k \in DOMAIN ss /\ Append(ss, s)[k] = ss[k])
<1> DEFINE rs == Append(ss, s)
           n == Len(ss)
<1>1. /\ rs \in Seq(Schedules) /\ n \in Nat /\ Len(rs) = n + 1
      /\ \A i \in 1 .. n : rs[i] = ss[i]
      /\ rs[n + 1] = s
  BY AppendProperties
<1> HIDE DEF rs
<1>2. DOMAIN ss = 1 .. n /\ DOMAIN rs = 1 .. (n + 1)
  BY <1>1
<1>3. \A i \in 1 .. n : ss[i] \in Schedules
  OBVIOUS
<1>4. RemainingIn(rs) = RemainingIn(ss) + Remaining(s)
  <2> DEFINE v == [i \in DOMAIN ss |-> Remaining(ss[i])]
             w == [i \in DOMAIN rs |-> Remaining(rs[i])]
  <2>0. \A r \in Schedules : Remaining(r) \in Int
    BY DEF Schedules, Remaining
  <2>1. \A i \in 1 .. n : v[i] \in Int /\ w[i] = v[i]
    BY <1>1, <1>2, <1>3, <2>0
  <2>2. w[n + 1] = Remaining(s) /\ w[n + 1] \in Int
    BY <1>1, <1>2, <2>0
  <2> HIDE DEF v, w, n
  <2>3. SumTo(w, n + 1) = SumTo(v, n) + w[n + 1]
    BY <1>1, <2>1, <2>2, SumExtend
  <2> QED BY <1>1, <2>2, <2>3 DEF RemainingIn, v, w, n
<1>5. \A k \in DOMAIN rs : rs[k] = s \/ (k \in DOMAIN ss /\ rs[k] = ss[k])
  BY <1>1, <1>2
<1> QED BY <1>1, <1>4, <1>5 DEF rs

-----------------------------------------------------------------------------
(***************************************************************************)
(* One schedule: what it has released by the end of block h is the floor   *)
(* of its share of the amount.                                             *)
(***************************************************************************)
Vesting(s, h) == Greater(0, s.vestingBlocks - (s.endHeight - h))

Share(s, h) == (s.amount * Vesting(s, h)) \div s.vestingBlocks

OnLine(s, h) ==
  /\ s.endHeight = s.startHeight + s.vestingBlocks - 1
  /\ h < s.endHeight
  /\ s.released = Share(s, h)

LEMMA Floor ==
  ASSUME NEW a \in Nat, NEW v \in Nat \ {0}
  PROVE  /\ a \div v \in Nat
         /\ (a \div v) * v <= a
         /\ a < ((a \div v) + 1) * v
OBVIOUS

LEMMA FloorMonotone ==
  ASSUME NEW a \in Nat, NEW v \in Nat \ {0}, NEW x \in Nat, NEW y \in Nat, x <= y
  PROVE  /\ a * x \in Nat
         /\ (a * x) \div v <= (a * y) \div v
<1>1. a * x \in Nat /\ a * y \in Nat /\ a * x <= a * y
  OBVIOUS
<1>2. ASSUME NEW b \in Nat, NEW c \in Nat, b <= c PROVE b \div v <= c \div v
  BY <1>2
<1> QED BY <1>1, <1>2

LEMMA FloorWhole ==
  ASSUME NEW a \in Nat, NEW v \in Nat \ {0}
  PROVE  (a * v) \div v = a /\ (a * 0) \div v = 0
OBVIOUS

LEMMA ShareBounds ==
  ASSUME NEW s \in Schedules, NEW h \in Int, h <= s.endHeight
  PROVE  /\ Vesting(s, h) \in 0 .. s.vestingBlocks
         /\ Share(s, h) \in Nat /\ Share(s, h) <= s.amount
         /\ h = s.endHeight => Share(s, h) = s.amount
         /\ Share(s, h) * s.vestingBlocks <= s.amount * Vesting(s, h)
         /\ s.amount * Vesting(s, h) < (Share(s, h) + 1) * s.vestingBlocks
         /\ Vesting(s, h - 1) \in Nat /\ Share(s, h - 1) <= Share(s, h)
<1> DEFINE v == s.vestingBlocks
           x == Vesting(s, h)
           y == Vesting(s, h - 1)
<1>1. s.amount \in Nat /\ v \in Nat \ {0} /\ s.endHeight \in Nat
  BY DEF Schedules
<1>2. x \in 0 .. v /\ y \in Nat /\ y <= x /\ (h = s.endHeight => x = v)
  BY <1>1 DEF Vesting, Greater
<1>3. Share(s, h) = (s.amount * x) \div v /\ Share(s, h - 1) = (s.amount * y) \div v
  BY DEF Share
<1> HIDE DEF v, x, y
<1>4. /\ s.amount * x \in Nat
      /\ (s.amount * x) \div v <= (s.amount * v) \div v
      /\ (s.amount * y) \div v <= (s.amount * x) \div v
  <2>1. PICK a \in Nat : a = s.amount
    BY <1>1
  <2>2. v \in Nat \ {0} /\ v \in Nat /\ x \in Nat /\ y \in Nat /\ x <= v /\ y <= x
    BY <1>1, <1>2
  <2>3. a * x \in Nat /\ (a * x) \div v <= (a * v) \div v
    BY <2>2, FloorMonotone
  <2>4. (a * y) \div v <= (a * x) \div v
    BY <2>2, FloorMonotone
  <2> QED BY <2>1, <2>3, <2>4
<1>5. (s.amount * v) \div v = s.amount
  BY <1>1, FloorWhole
<1>6. /\ (s.amount * x) \div v \in Nat
      /\ ((s.amount * x) \div v) * v <= s.amount * x
      /\ s.amount * x < (((s.amount * x) \div v) + 1) * v
  BY <1>1, <1>4, Floor
<1> QED BY <1>2, <1>3, <1>4, <1>5, <1>6 DEF v, x, y

\* What a block unlocks of a schedule that is on its line.
LEMMA OnLineSchedule ==
  ASSUME NEW s \in Schedules, height \in Nat, OnLine(s, height - 1)
  PROVE  /\ Releasable(s) \in Nat
         /\ s.released + Releasable(s) \in 0 .. s.amount
         /\ s.released + Releasable(s) < s.amount =>
              /\ [s EXCEPT !.released = @ + Releasable(s)] \in Schedules
              /\ OnLine([s EXCEPT !.released = @ + Releasable(s)], height)
         /\ Remaining(s) \in Nat
<1>1. /\ s.amount \in Nat /\ s.vestingBlocks \in Nat \ {0}
      /\ s.startHeight \in Nat /\ s.endHeight \in Nat /\ s.released \in Nat
  BY DEF Schedules
<1>2. /\ s.endHeight = s.startHeight + s.vestingBlocks - 1
      /\ height <= s.endHeight
      /\ s.released = Share(s, height - 1)
  BY <1>1 DEF OnLine
<1>3. /\ Vesting(s, height) \in 0 .. s.vestingBlocks
      /\ Share(s, height) \in Nat /\ Share(s, height) <= s.amount
      /\ height = s.endHeight => Share(s, height) = s.amount
      /\ s.released <= Share(s, height)
  BY <1>2, ShareBounds
<1>4. Unlocked(s) = Share(s, height)
  <2>1. CASE height < s.startHeight
    <3>1. Vesting(s, height) = 0
      BY <1>1, <1>2, <2>1 DEF Vesting, Greater
    <3>2. Share(s, height) = 0
      BY <1>1, <3>1, FloorWhole DEF Share
    <3> QED BY <2>1, <3>2 DEF Unlocked
  <2>2. CASE ~ (height < s.startHeight)
    <3>1. Lesser(s.vestingBlocks, height - s.startHeight + 1) = Vesting(s, height)
      BY <1>1, <1>2, <2>2 DEF Vesting, Greater, Lesser
    <3> QED BY <2>2, <3>1 DEF Unlocked, Share
  <2> QED BY <2>1, <2>2
<1>5. /\ Releasable(s) \in Nat
      /\ s.released + Releasable(s) = Share(s, height)
  BY <1>1, <1>3, <1>4 DEF Releasable, Greater
<1>6. ASSUME s.released + Releasable(s) < s.amount
      PROVE  /\ [s EXCEPT !.released = @ + Releasable(s)] \in Schedules
             /\ OnLine([s EXCEPT !.released = @ + Releasable(s)], height)
  <2>0. PICK x \in Nat : x = s.released + Releasable(s)
    BY <1>1, <1>5
  <2> DEFINE t == [s EXCEPT !.released = x]
  <2>1. t \in Schedules
    BY DEF Schedules
  <2>2. /\ t.released = x /\ t.amount = s.amount /\ t.vestingBlocks = s.vestingBlocks
        /\ t.startHeight = s.startHeight /\ t.endHeight = s.endHeight
    BY DEF Schedules
  <2>3. t = [s EXCEPT !.released = @ + Releasable(s)]
    BY <2>0
  <2>4. height < s.endHeight
    BY <1>1, <1>2, <1>3, <1>5, <1>6
  <2> HIDE DEF t
  <2>5. Share(t, height) = Share(s, height)
    BY <2>2 DEF Share, Vesting
  <2>6. OnLine(t, height)
    BY <1>2, <1>5, <2>0, <2>2, <2>4, <2>5 DEF OnLine
  <2> QED BY <2>1, <2>3, <2>6
<1> QED BY <1>1, <1>3, <1>5, <1>6 DEF Remaining

-----------------------------------------------------------------------------
(***************************************************************************)
(* Ledgers, and the execution of grants.                                   *)
(***************************************************************************)
Ledgers ==
  [balances : [Accounts -> Nat], params : Params, proposals : Seq(Proposals),
   schedules : Seq(Schedules), volume : Nat, failed : BOOLEAN]

AllOnLine(ss, h) == \A k \in DOMAIN ss : OnLine(ss[k], h)

\* From l to m, some grants of this amount together are paid or scheduled.
Pays(l, m, amount) ==
  /\ m \in Ledgers /\ ~ m.failed
  /\ m.params = l.params /\ m.proposals = l.proposals
  /\ Money(m.balances) = Money(l.balances)
  /\ m.volume + RemainingIn(m.schedules) = l.volume + RemainingIn(l.schedules) + amount
  /\ m.balances[Escrow] - RemainingIn(m.schedules) >= l.balances[Escrow] - RemainingIn(l.schedules)
  /\ AllOnLine(m.schedules, height - 1)

LEMMA LedgerFields ==
  ASSUME NEW l \in Ledgers
  PROVE  /\ l.balances \in [Accounts -> Nat] /\ l.params \in Params
         /\ l.proposals \in Seq(Proposals) /\ l.schedules \in Seq(Schedules)
         /\ l.volume \in Nat /\ l.failed \in BOOLEAN
BY DEF Ledgers

LEMMA GrantFields ==
  ASSUME NEW g \in Grants
  PROVE  /\ g.source \in Accounts /\ g.recipient \in Accounts /\ g.amount \in Nat
         /\ g.cliffBlocks \in Nat /\ g.vestingBlocks \in Nat
BY DEF Grants

LEMMA NewSchedule ==
  ASSUME NEW g \in Grants, g.vestingBlocks > 0, height \in Nat
  PROVE  /\ Schedule(g) \in Schedules
         /\ OnLine(Schedule(g), height - 1)
         /\ Remaining(Schedule(g)) = g.amount
<1> DEFINE s == Schedule(g)
<1>1. /\ g.recipient \in Accounts /\ g.amount \in Nat
      /\ g.cliffBlocks \in Nat /\ g.vestingBlocks \in Nat \ {0}
  BY GrantFields
<1>2. s \in Schedules
  BY <1>1 DEF Schedule, Schedules
<1>3. /\ s.amount = g.amount /\ s.vestingBlocks = g.vestingBlocks /\ s.released = 0
      /\ s.startHeight = height + g.cliffBlocks + 1
      /\ s.endHeight = height + g.cliffBlocks + g.vestingBlocks
  BY DEF Schedule
<1> HIDE DEF s
<1>4. Vesting(s, height - 1) = 0
  BY <1>1, <1>3 DEF Vesting, Greater
<1>5. Share(s, height - 1) = 0
  BY <1>1, <1>3, <1>4, FloorWhole DEF Share
<1>6. OnLine(s, height - 1)
  BY <1>1, <1>3, <1>5 DEF OnLine
<1> QED BY <1>1, <1>2, <1>3, <1>6 DEF Remaining, s

LEMMA GrantPays ==
  ASSUME NEW m \in Ledgers, ~ m.failed, AllOnLine(m.schedules, height - 1), height \in Nat,
         NEW g \in Grants, g.source \in Sources, g.amount <= m.balances[g.source]
  PROVE  /\ Pays(m, Granted(m, g), g.amount)
         /\ \A s \in Sources :
              Granted(m, g).balances[s] + (IF s = g.source THEN g.amount ELSE 0) >= m.balances[s]
<1>1. /\ g.source \in Accounts \ {Escrow} /\ g.recipient \in Accounts /\ g.amount \in Nat
      /\ g.vestingBlocks \in Nat /\ Escrow \in Accounts /\ Sources \subseteq Accounts
  BY AccountFacts, GrantFields
<1>2. /\ m.balances \in [Accounts -> Nat] /\ m.balances \in [Accounts -> Int]
      /\ m.schedules \in Seq(Schedules) /\ m.volume \in Nat /\ m.failed \in BOOLEAN
  BY LedgerFields
<1>3. RemainingIn(m.schedules) \in Int
  BY <1>2, ScheduleSums
<1>4. ASSUME NEW to \in Accounts, NEW b, b = Moved(m.balances, g.source, to, g.amount)
      PROVE  /\ b \in [Accounts -> Nat] /\ Money(b) = Money(m.balances)
             /\ b[Escrow] >= m.balances[Escrow]
             /\ to = Escrow => b[Escrow] = m.balances[Escrow] + g.amount
             /\ \A s \in Sources : b[s] + (IF s = g.source THEN g.amount ELSE 0) >= m.balances[s]
  <2>1. /\ b \in [Accounts -> Nat] /\ Money(b) = Money(m.balances)
        /\ \A a \in Accounts \ {g.source} : b[a] >= m.balances[a]
        /\ b[g.source] + g.amount >= m.balances[g.source]
        /\ to # g.source => b[to] = m.balances[to] + g.amount
    <3>1. PICK d \in [Accounts -> Nat], from \in Accounts, x \in Nat :
            d = m.balances /\ from = g.source /\ x = g.amount
      BY <1>1, <1>2
    <3>2. x <= d[from] /\ b = Moved(d, from, to, x)
      BY <1>4, <3>1
    <3>3. /\ Moved(d, from, to, x) \in [Accounts -> Nat]
          /\ Money(Moved(d, from, to, x)) = Money(d)
          /\ \A a \in Accounts \ {from} : Moved(d, from, to, x)[a] >= d[a]
          /\ Moved(d, from, to, x)[from] + x >= d[from]
          /\ to # from => Moved(d, from, to, x)[to] = d[to] + x
      BY <3>2, MovedMoney
    <3> QED BY <3>1, <3>2, <3>3
  <2>2. \A a \in Accounts : b[a] \in Nat
    BY <2>1
  <2> QED BY <1>1, <2>1, <2>2
<1>5. CASE g.vestingBlocks = 0
  <2>1. PICK b : b = Moved(m.balances, g.source, g.recipient, g.amount)
    OBVIOUS
  <2>2. Granted(m, g) = [m EXCEPT !.balances = b, !.volume = @ + g.amount]
    BY <1>1, <1>2, <1>5, <2>1 DEF Granted
  <2>3. /\ b \in [Accounts -> Nat] /\ Money(b) = Money(m.balances)
        /\ b[Escrow] >= m.balances[Escrow]
        /\ \A s \in Sources : b[s] + (IF s = g.source THEN g.amount ELSE 0) >= m.balances[s]
    BY <1>1, <1>4, <2>1
  <2> DEFINE r == [m EXCEPT !.balances = b, !.volume = @ + g.amount]
  <2>4. /\ r \in Ledgers /\ r.balances = b /\ r.volume = m.volume + g.amount
        /\ r.failed = m.failed /\ r.params = m.params /\ r.proposals = m.proposals
        /\ r.schedules = m.schedules
    <3>1. m.volume + g.amount \in Nat
      BY <1>1, <1>2
    <3> QED BY <2>3, <3>1 DEF Ledgers
  <2> HIDE DEF r
  <2>5. Pays(m, r, g.amount)
    BY <1>1, <1>2, <1>3, <2>3, <2>4 DEF Pays
  <2> QED BY <2>2, <2>3, <2>4, <2>5 DEF r
<1>6. CASE g.vestingBlocks > 0
  <2>1. PICK b : b = Moved(m.balances, g.source, Escrow, g.amount)
    OBVIOUS
  <2>2. Granted(m, g) = [m EXCEPT !.balances = b, !.schedules = Append(@, Schedule(g))]
    BY <1>1, <1>2, <1>6, <2>1 DEF Granted
  <2>3. /\ b \in [Accounts -> Nat] /\ Money(b) = Money(m.balances)
        /\ b[Escrow] = m.balances[Escrow] + g.amount
        /\ \A s \in Sources : b[s] + (IF s = g.source THEN g.amount ELSE 0) >= m.balances[s]
    BY <1>1, <1>4, <2>1
  <2>4. Schedule(g) \in Schedules /\ OnLine(Schedule(g), height - 1)
        /\ Remaining(Schedule(g)) = g.amount
    BY <1>6, NewSchedule
  <2>5. PICK ss : ss = Append(m.schedules, Schedule(g))
    OBVIOUS
  <2>6. /\ ss \in Seq(Schedules)
        /\ RemainingIn(ss) = RemainingIn(m.schedules) + g.amount
        /\ AllOnLine(ss, height - 1)
    <3>1. /\ ss \in Seq(Schedules)
          /\ RemainingIn(ss) = RemainingIn(m.schedules) + Remaining(Schedule(g))
          /\ \A k \in DOMAIN ss :
               ss[k] = Schedule(g) \/ (k \in DOMAIN m.schedules /\ ss[k] = m.schedules[k])
      BY <1>2, <2>4, <2>5, AppendedSchedule
    <3> QED BY <2>4, <3>1 DEF AllOnLine
  <2> DEFINE r == [m EXCEPT !.balances = b, !.schedules = ss]
  <2>7. /\ r \in Ledgers /\ r.balances = b /\ r.schedules = ss
        /\ r.failed = m.failed /\ r.params = m.params /\ r.proposals = m.proposals
        /\ r.volume = m.volume
    BY <2>3, <2>6 DEF Ledgers
  <2>8. Granted(m, g) = r
    BY <2>2, <2>5
  <2> HIDE DEF r
  <2>9. Pays(m, r, g.amount)
    BY <1>1, <1>2, <1>3, <2>3, <2>6, <2>7 DEF Pays
  <2> QED BY <2>3, <2>7, <2>8, <2>9
<1> QED BY <1>1, <1>5, <1>6

-----------------------------------------------------------------------------
(***************************************************************************)
(* Grants one by one: what the recursive definition computes is a table,   *)
(* along which a fact about ledgers is carried by induction.               *)
(***************************************************************************)
NextGrant(m, grants, vests, k) ==
  IF m.failed \/ (grants[k].vestingBlocks > 0) # vests THEN m ELSE Granted(m, grants[k])

GrantTable(l, grants, vests, n, c) ==
  c = [k \in 0 .. n |-> IF k = 0 THEN l ELSE NextGrant(c[k - 1], grants, vests, k)]

LEMMA GrantTableExists ==
  ASSUME NEW l, NEW grants, NEW vests, NEW n \in Nat
  PROVE  \E c : GrantTable(l, grants, vests, n, c)
<1> DEFINE T == {m \in 0 .. n : \E c : GrantTable(l, grants, vests, m, c)}
<1>1. 0 \in T
  <2> DEFINE c == [k \in 0 .. 0 |-> l]
  <2>1. GrantTable(l, grants, vests, 0, c)
    BY DEF GrantTable
  <2> QED BY <2>1
<1>2. ASSUME NEW m \in 0 .. (n - 1), m \in T PROVE m + 1 \in T
  <2>1. PICK c : GrantTable(l, grants, vests, m, c)
    BY <1>2
  <2> DEFINE d == [k \in 0 .. (m + 1) |->
                     IF k = m + 1 THEN NextGrant(c[m], grants, vests, m + 1) ELSE c[k]]
  <2>2. \A k \in 0 .. m : c[k] = IF k = 0 THEN l ELSE NextGrant(c[k - 1], grants, vests, k)
    BY <2>1 DEF GrantTable
  <2>3. \A k \in 0 .. (m + 1) :
          d[k] = IF k = 0 THEN l ELSE NextGrant(d[k - 1], grants, vests, k)
    BY <2>2
  <2>4. GrantTable(l, grants, vests, m + 1, d)
    BY <2>3 DEF GrantTable
  <2> QED BY <2>4
<1> HIDE DEF T
<1>3. \A m \in 0 .. n : m \in T
  BY <1>1, <1>2, IntervalInduction
<1> QED BY <1>3 DEF T

LEMMA GrantedIsTable ==
  ASSUME NEW l, NEW grants, NEW vests, Len(grants) \in Nat
  PROVE  \E c : /\ c[0] = l
                /\ \A k \in 1 .. Len(grants) : c[k] = NextGrant(c[k - 1], grants, vests, k)
                /\ GrantedWhere(l, grants, vests) = c[Len(grants)]
<1> DEFINE n == Len(grants)
           c == CHOOSE after : after = [k \in 0 .. n |->
                  IF k = 0 THEN l
                  ELSE IF after[k - 1].failed \/ (grants[k].vestingBlocks > 0) # vests
                    THEN after[k - 1]
                  ELSE Granted(after[k - 1], grants[k])]
<1>1. \E d : GrantTable(l, grants, vests, n, d)
  BY GrantTableExists
<1>2. c = [k \in 0 .. n |->
             IF k = 0 THEN l
             ELSE IF c[k - 1].failed \/ (grants[k].vestingBlocks > 0) # vests THEN c[k - 1]
             ELSE Granted(c[k - 1], grants[k])]
  BY <1>1 DEF GrantTable, NextGrant
<1>3. GrantedWhere(l, grants, vests) = c[n]
  BY DEF GrantedWhere
<1> HIDE DEF c
<1>4. c[0] = l
  BY <1>2
<1>5. ASSUME NEW k \in 1 .. n PROVE c[k] = NextGrant(c[k - 1], grants, vests, k)
  BY <1>2 DEF NextGrant
<1> QED BY <1>3, <1>4, <1>5

\* The amounts of the grants that vest, or do not, together and by source.
AmountsOf(grants, vests) ==
  [k \in DOMAIN grants |->
     IF (grants[k].vestingBlocks > 0) = vests THEN grants[k].amount ELSE 0]

AmountsFrom(grants, vests, s) ==
  [k \in DOMAIN grants |->
     IF (grants[k].vestingBlocks > 0) = vests /\ grants[k].source = s
       THEN grants[k].amount ELSE 0]

LEMMA AmountTypes ==
  ASSUME NEW grants \in Seq(Grants), NEW vests, NEW s
  PROVE  /\ Len(grants) \in Nat /\ DOMAIN grants = 1 .. Len(grants)
         /\ \A k \in 1 .. Len(grants) : AmountsOf(grants, vests)[k] \in Nat
         /\ \A k \in 1 .. Len(grants) : AmountsFrom(grants, vests, s)[k] \in Nat
<1>1. Len(grants) \in Nat /\ DOMAIN grants = 1 .. Len(grants)
  OBVIOUS
<1>2. \A k \in 1 .. Len(grants) : grants[k].amount \in Nat
  BY GrantFields
<1> QED BY <1>1, <1>2 DEF AmountsOf, AmountsFrom

LEMMA PaysTrans ==
  ASSUME NEW l, NEW m, NEW r, NEW x \in Int, NEW y \in Int,
         l \in Ledgers, Pays(l, m, x), Pays(m, r, y)
  PROVE  Pays(l, r, x + y)
<1>1. /\ l.volume \in Int /\ m.volume \in Int /\ r.volume \in Int
      /\ RemainingIn(l.schedules) \in Int /\ RemainingIn(m.schedules) \in Int
      /\ RemainingIn(r.schedules) \in Int
      /\ l.balances[Escrow] \in Int /\ m.balances[Escrow] \in Int /\ r.balances[Escrow] \in Int
  <2>1. m \in Ledgers /\ r \in Ledgers
    BY DEF Pays
  <2>2. \A q \in Ledgers : q.volume \in Int /\ RemainingIn(q.schedules) \in Int
                             /\ q.balances[Escrow] \in Int
    BY LedgerFields, ScheduleSums, AccountFacts
  <2> QED BY <2>1, <2>2
<1> QED BY <1>1 DEF Pays

\* All the grants that vest, or do not, are given, if every source covers its
\* part of them.
LEMMA GrantedWherePays ==
  ASSUME NEW l \in Ledgers, ~ l.failed, AllOnLine(l.schedules, height - 1), height \in Nat,
         NEW grants \in Seq(Grants), TreasuryFunded(grants), NEW vests \in BOOLEAN,
         \A s \in Sources : SumTo(AmountsFrom(grants, vests, s), Len(grants)) <= l.balances[s]
  PROVE  /\ Pays(l, GrantedWhere(l, grants, vests), SumTo(AmountsOf(grants, vests), Len(grants)))
         /\ \A s \in Sources :
              GrantedWhere(l, grants, vests).balances[s]
                + SumTo(AmountsFrom(grants, vests, s), Len(grants)) >= l.balances[s]
<1> DEFINE n == Len(grants)
           W == AmountsOf(grants, vests)
           F(s) == AmountsFrom(grants, vests, s)
<1>1. PICK c : /\ c[0] = l
               /\ \A k \in 1 .. n : c[k] = NextGrant(c[k - 1], grants, vests, k)
               /\ GrantedWhere(l, grants, vests) = c[n]
  <2>1. n \in Nat
    OBVIOUS
  <2> QED BY <2>1, GrantedIsTable
<1> DEFINE Covers(k) == \A s \in Sources : c[k].balances[s] + SumTo(F(s), k) >= l.balances[s]
           T == {k \in 0 .. n : Pays(l, c[k], SumTo(W, k)) /\ Covers(k)}
<1>2. n \in Nat /\ DOMAIN grants = 1 .. n /\ \A k \in 1 .. n : W[k] \in Nat
  BY AmountTypes
<1>3. \A s \in Sources : \A k \in 1 .. n : F(s)[k] \in Nat
  BY AmountTypes
<1>4. /\ SumTo(W, 0) = 0
      /\ \A k \in 0 .. n : SumTo(W, k) \in Int
      /\ \A k \in 0 .. (n - 1) : SumTo(W, k + 1) = SumTo(W, k) + W[k + 1]
  <2> HIDE DEF n, W
  <2>1. \A k \in 1 .. n : W[k] \in Int
    BY <1>2
  <2> QED BY <1>2, <2>1, SumUnfold
<1>5. ASSUME NEW s \in Sources
      PROVE  /\ SumTo(F(s), 0) = 0
             /\ \A k \in 0 .. n : SumTo(F(s), k) \in Int
             /\ \A k \in 0 .. (n - 1) : SumTo(F(s), k + 1) = SumTo(F(s), k) + F(s)[k + 1]
             /\ \A k \in 0 .. n : SumTo(F(s), k) <= SumTo(F(s), n)
  <2> DEFINE f == F(s)
  <2>1. \A k \in 1 .. n : f[k] \in Nat
    BY <1>3
  <2>2. \A k \in 1 .. n : f[k] \in Int
    BY <2>1
  <2> HIDE DEF n, f
  <2>3. /\ SumTo(f, 0) = 0
        /\ \A k \in 0 .. n : SumTo(f, k) \in Int
        /\ \A k \in 0 .. (n - 1) : SumTo(f, k + 1) = SumTo(f, k) + f[k + 1]
    BY <1>2, <2>2, SumUnfold
  <2>4. \A k \in 0 .. n : SumTo(f, k) <= SumTo(f, n)
    BY <1>2, <2>1, SumMonotone
  <2> QED BY <2>3, <2>4 DEF f
<1>6. \A s \in Sources : s \in Accounts
  BY AccountFacts
<1>7. \A m \in Ledgers : /\ RemainingIn(m.schedules) \in Int /\ m.volume \in Int
                         /\ \A s \in Accounts : m.balances[s] \in Nat
  BY LedgerFields, ScheduleSums
<1>8. 0 \in T
  <2>1. Pays(l, l, 0)
    BY <1>7, AccountFacts DEF Pays
  <2>2. Covers(0)
    BY <1>1, <1>5, <1>6, <1>7
  <2> QED BY <1>1, <1>2, <1>4, <2>1, <2>2
<1>9. ASSUME NEW k \in 0 .. (n - 1), k \in T PROVE k + 1 \in T
  <2>1. /\ k + 1 \in 1 .. n /\ (k + 1) - 1 = k /\ k \in 0 .. n /\ k + 1 \in 0 .. n
        /\ grants[k + 1] \in Grants
    BY <1>2
  <2>2. c[k + 1] = NextGrant(c[k], grants, vests, k + 1)
    BY <1>1, <2>1
  <2>3. Pays(l, c[k], SumTo(W, k)) /\ Covers(k)
    BY <1>9
  <2>4. PICK m \in Ledgers : m = c[k]
    BY <2>3 DEF Pays
  <2>5. PICK g \in Grants : g = grants[k + 1]
    BY <2>1
  <2>6. ~ m.failed /\ AllOnLine(m.schedules, height - 1)
    BY <2>3, <2>4 DEF Pays
  <2>7. g.source \in Sources /\ g.amount \in Nat
    BY <1>2, <2>1, <2>5, GrantFields DEF TreasuryFunded
  <2>8. /\ W[k + 1] = IF (g.vestingBlocks > 0) = vests THEN g.amount ELSE 0
        /\ \A s \in Sources : F(s)[k + 1] =
             IF (g.vestingBlocks > 0) = vests /\ g.source = s THEN g.amount ELSE 0
    BY <1>2, <2>1, <2>5 DEF AmountsOf, AmountsFrom
  <2>9. SumTo(W, k + 1) = SumTo(W, k) + W[k + 1] /\ SumTo(W, k) \in Int
    BY <1>4, <2>1
  <2>10. \A s \in Sources :
           /\ SumTo(F(s), k + 1) = SumTo(F(s), k) + F(s)[k + 1]
           /\ SumTo(F(s), k + 1) <= SumTo(F(s), n)
           /\ SumTo(F(s), k) \in Int /\ SumTo(F(s), k + 1) \in Int /\ SumTo(F(s), n) \in Int
    BY <1>2, <1>5, <2>1
  <2> HIDE DEF n, W, F
  <2>11. \A s \in Sources : m.balances[s] + SumTo(F(s), k) >= l.balances[s]
                             /\ m.balances[s] \in Nat /\ l.balances[s] \in Nat
    BY <1>6, <1>7, <2>3, <2>4
  <2>12. CASE (g.vestingBlocks > 0) # vests
    <3>1. c[k + 1] = c[k]
      BY <2>2, <2>5, <2>12 DEF NextGrant
    <3>2. W[k + 1] = 0 /\ \A s \in Sources : F(s)[k + 1] = 0
      BY <2>8, <2>12
    <3>3. SumTo(W, k + 1) = SumTo(W, k)
      BY <2>9, <3>2
    <3>4. \A s \in Sources : SumTo(F(s), k + 1) = SumTo(F(s), k)
      BY <2>10, <3>2
    <3> QED BY <2>1, <2>3, <3>1, <3>3, <3>4
  <2>13. CASE (g.vestingBlocks > 0) = vests
    <3>1. c[k + 1] = Granted(m, g)
      BY <2>2, <2>4, <2>5, <2>6, <2>13 DEF NextGrant
    <3>2. /\ W[k + 1] = g.amount
          /\ \A s \in Sources : F(s)[k + 1] = IF g.source = s THEN g.amount ELSE 0
      BY <2>8, <2>13
    <3>3. g.amount <= m.balances[g.source]
      <4>1. F(g.source)[k + 1] = g.amount
        BY <2>7, <3>2
      <4>2. SumTo(F(g.source), n) <= l.balances[g.source]
        BY <2>7 DEF F, n
      <4> QED BY <2>7, <2>10, <2>11, <4>1, <4>2
    <3>4. /\ Pays(m, Granted(m, g), g.amount)
          /\ \A s \in Sources :
               Granted(m, g).balances[s] + (IF s = g.source THEN g.amount ELSE 0)
                 >= m.balances[s]
      BY <2>6, <2>7, <3>3, GrantPays
    <3>5. Pays(l, c[k + 1], SumTo(W, k + 1))
      <4>1. Pays(l, m, SumTo(W, k))
        BY <2>3, <2>4
      <4>2. PICK x \in Int, y \in Int : x = SumTo(W, k) /\ y = g.amount
        BY <2>7, <2>9
      <4>3. Pays(l, Granted(m, g), x + y)
        BY <3>4, <4>1, <4>2, PaysTrans
      <4> QED BY <2>9, <3>1, <3>2, <4>2, <4>3
    <3>6. ASSUME NEW s \in Sources
          PROVE  c[k + 1].balances[s] + SumTo(F(s), k + 1) >= l.balances[s]
      <4>1. /\ Granted(m, g).balances[s] \in Nat
            /\ Granted(m, g).balances[s] + (IF s = g.source THEN g.amount ELSE 0)
                 >= m.balances[s]
        BY <1>6, <1>7, <3>4 DEF Pays
      <4>2. SumTo(F(s), k + 1) = SumTo(F(s), k) + (IF s = g.source THEN g.amount ELSE 0)
        BY <2>10, <3>2
      <4>3. m.balances[s] + SumTo(F(s), k) >= l.balances[s]
            /\ m.balances[s] \in Nat /\ l.balances[s] \in Nat /\ SumTo(F(s), k) \in Int
        BY <2>10, <2>11
      <4>4. c[k + 1].balances[s] = Granted(m, g).balances[s]
        BY <3>1
      <4>5. PICK x \in Nat, y \in Nat, z \in Nat, p \in Int, q \in Int :
              /\ x = Granted(m, g).balances[s] /\ y = m.balances[s] /\ z = l.balances[s]
              /\ p = SumTo(F(s), k) /\ q = SumTo(F(s), k + 1)
        BY <2>10, <4>1, <4>3
      <4>6. PICK d \in Nat : d = IF s = g.source THEN g.amount ELSE 0
        BY <2>7
      <4>7. x + d >= y /\ q = p + d /\ y + p >= z
        BY <4>1, <4>2, <4>3, <4>5, <4>6
      <4>8. x + q >= z
        BY <4>7
      <4> QED BY <4>4, <4>5, <4>8
    <3> QED BY <2>1, <3>5, <3>6
  <2> QED BY <2>12, <2>13
<1> HIDE DEF T
<1>10. n \in T
  <2>1. \A k \in 0 .. n : k \in T
    BY <1>2, <1>8, <1>9, IntervalInduction
  <2> QED BY <1>2, <2>1
<1> QED BY <1>1, <1>10 DEF T

LEMMA SplitAmounts ==
  ASSUME NEW grants \in Seq(Grants)
  PROVE  /\ GrantedAmount(grants) =
              SumTo(AmountsOf(grants, FALSE), Len(grants))
                + SumTo(AmountsOf(grants, TRUE), Len(grants))
         /\ \A s : SumTo([k \in DOMAIN grants |->
                            IF grants[k].source = s THEN grants[k].amount ELSE 0], Len(grants)) =
              SumTo(AmountsFrom(grants, FALSE, s), Len(grants))
                + SumTo(AmountsFrom(grants, TRUE, s), Len(grants))
         /\ \A vests \in BOOLEAN : SumTo(AmountsOf(grants, vests), Len(grants)) \in Nat
         /\ \A s : \A vests \in BOOLEAN :
              SumTo(AmountsFrom(grants, vests, s), Len(grants)) \in Nat
<1> DEFINE n == Len(grants)
<1>1. n \in Nat /\ DOMAIN grants = 1 .. n /\ \A k \in 1 .. n : grants[k].amount \in Nat
  BY GrantFields
<1>2. GrantedAmount(grants) =
        SumTo(AmountsOf(grants, FALSE), n) + SumTo(AmountsOf(grants, TRUE), n)
  <2> DEFINE w == [k \in DOMAIN grants |-> grants[k].amount]
             u == AmountsOf(grants, FALSE)
             v == AmountsOf(grants, TRUE)
  <2>1. \A k \in 1 .. n : u[k] \in Int /\ v[k] \in Int /\ w[k] = u[k] + v[k]
    BY <1>1 DEF AmountsOf
  <2> HIDE DEF n, u, v, w
  <2>2. SumTo(w, n) = SumTo(u, n) + SumTo(v, n)
    BY <1>1, <2>1, SumAdd
  <2> QED BY <2>2 DEF GrantedAmount, n, u, v, w
<1>3. ASSUME NEW s
      PROVE  SumTo([k \in DOMAIN grants |->
                      IF grants[k].source = s THEN grants[k].amount ELSE 0], n) =
               SumTo(AmountsFrom(grants, FALSE, s), n) + SumTo(AmountsFrom(grants, TRUE, s), n)
  <2> DEFINE w == [k \in DOMAIN grants |-> IF grants[k].source = s THEN grants[k].amount ELSE 0]
             u == AmountsFrom(grants, FALSE, s)
             v == AmountsFrom(grants, TRUE, s)
  <2>1. \A k \in 1 .. n : u[k] \in Int /\ v[k] \in Int /\ w[k] = u[k] + v[k]
    BY <1>1 DEF AmountsFrom
  <2> HIDE DEF n, u, v, w
  <2>2. SumTo(w, n) = SumTo(u, n) + SumTo(v, n)
    BY <1>1, <2>1, SumAdd
  <2> QED BY <2>2 DEF u, v, w
<1>4. \A vests \in BOOLEAN : SumTo(AmountsOf(grants, vests), n) \in Nat
  <2> TAKE vests \in BOOLEAN
  <2> DEFINE w == AmountsOf(grants, vests)
  <2>1. \A k \in 1 .. n : w[k] \in Nat
    BY AmountTypes
  <2> HIDE DEF n, w
  <2>2. SumTo(w, n) \in Nat
    BY <1>1, <2>1, SumNat
  <2> QED BY <2>2 DEF w
<1>5. ASSUME NEW s, NEW vests \in BOOLEAN
      PROVE  SumTo(AmountsFrom(grants, vests, s), n) \in Nat
  <2> DEFINE w == AmountsFrom(grants, vests, s)
  <2>1. \A k \in 1 .. n : w[k] \in Nat
    BY AmountTypes
  <2> HIDE DEF n, w
  <2>2. SumTo(w, n) \in Nat
    BY <1>1, <2>1, SumNat
  <2> QED BY <2>2 DEF w
<1> QED BY <1>2, <1>3, <1>4, <1>5

\* A plan that the sources cover is executed to its end.
LEMMA CoveredPays ==
  ASSUME NEW l \in Ledgers, ~ l.failed, AllOnLine(l.schedules, height - 1), height \in Nat,
         NEW grants \in Seq(Grants), Covered(l, grants)
  PROVE  Pays(l, AllGranted(l, grants), GrantedAmount(grants))
<1> DEFINE n == Len(grants)
           direct == SumTo(AmountsOf(grants, FALSE), n)
           later == SumTo(AmountsOf(grants, TRUE), n)
<1>1. /\ TreasuryFunded(grants)
      /\ \A s \in Sources :
           SumTo([k \in DOMAIN grants |->
                    IF grants[k].source = s THEN grants[k].amount ELSE 0], n) <= l.balances[s]
  BY DEF Covered
<1>2. \A s \in Sources :
        /\ SumTo(AmountsFrom(grants, FALSE, s), n) \in Nat
        /\ SumTo(AmountsFrom(grants, TRUE, s), n) \in Nat
        /\ SumTo(AmountsFrom(grants, FALSE, s), n) + SumTo(AmountsFrom(grants, TRUE, s), n)
             <= l.balances[s]
  BY <1>1, SplitAmounts
<1>3. \A m \in Ledgers : \A s \in Sources : m.balances[s] \in Nat
  BY LedgerFields, AccountFacts
<1>4. direct \in Nat /\ later \in Nat /\ GrantedAmount(grants) = direct + later
  BY SplitAmounts
<1>5. PICK m : m = GrantedWhere(l, grants, FALSE)
  OBVIOUS
<1> HIDE DEF n
<1>6. ASSUME NEW s \in Sources PROVE SumTo(AmountsFrom(grants, FALSE, s), n) <= l.balances[s]
  <2>1. PICK x \in Nat, y \in Nat, z \in Nat :
          /\ x = SumTo(AmountsFrom(grants, FALSE, s), n)
          /\ y = SumTo(AmountsFrom(grants, TRUE, s), n) /\ z = l.balances[s]
    BY <1>2, <1>3
  <2>2. x + y <= z
    BY <1>2, <2>1
  <2>3. x <= z
    BY <2>2
  <2> QED BY <2>1, <2>3
<1>7. /\ Pays(l, m, direct)
      /\ \A s \in Sources :
           m.balances[s] + SumTo(AmountsFrom(grants, FALSE, s), n) >= l.balances[s]
  <2> HIDE DEF direct
  <2> QED BY <1>1, <1>5, <1>6, GrantedWherePays DEF n, direct
<1>8. m \in Ledgers /\ ~ m.failed /\ AllOnLine(m.schedules, height - 1)
  BY <1>7 DEF Pays
<1>9. ASSUME NEW s \in Sources PROVE SumTo(AmountsFrom(grants, TRUE, s), n) <= m.balances[s]
  <2>1. PICK x \in Nat, y \in Nat, z \in Nat, b \in Nat :
          /\ x = SumTo(AmountsFrom(grants, FALSE, s), n)
          /\ y = SumTo(AmountsFrom(grants, TRUE, s), n)
          /\ z = l.balances[s] /\ b = m.balances[s]
    BY <1>2, <1>3, <1>8
  <2>2. x + y <= z /\ b + x >= z
    BY <1>2, <1>7, <2>1
  <2>3. y <= b
    BY <2>2
  <2> QED BY <2>1, <2>3
<1>10. Pays(m, GrantedWhere(m, grants, TRUE), later)
  BY <1>1, <1>8, <1>9, GrantedWherePays DEF n
<1> HIDE DEF direct, later
<1>11. Pays(l, GrantedWhere(m, grants, TRUE), direct + later)
  <2>1. PICK x \in Int, y \in Int : x = direct /\ y = later
    BY <1>4
  <2>2. Pays(l, m, x) /\ Pays(m, GrantedWhere(m, grants, TRUE), y)
    BY <1>7, <1>10, <2>1
  <2>3. Pays(l, GrantedWhere(m, grants, TRUE), x + y)
    BY <2>2, PaysTrans
  <2> QED BY <2>1, <2>3
<1> QED BY <1>4, <1>5, <1>11 DEF AllGranted

-----------------------------------------------------------------------------
(***************************************************************************)
(* Proposals in order, and sound ledgers: what is true of the accounts     *)
(* between any two steps of a block's end, when h blocks are closed.       *)
(***************************************************************************)
Proper(p, h) ==
  /\ WithinSchema(p.changes) /\ TreasuryFunded(p.grants)
  /\ p.startHeight <= p.endHeight
  /\ p.status # "active" => p.endHeight <= h

Approves(p, name, value) ==
  p.status = "passed" /\ name \in DOMAIN p.changes /\ p.changes[name] = value

ParamsApproved(ps, props) ==
  \A name \in ParamNames :
    ps[name] = InitialParams[name] \/ \E i \in DOMAIN props : Approves(props[i], name, ps[name])

Sound(l, h) ==
  /\ l \in Ledgers /\ ~ l.failed
  /\ \A i \in DOMAIN l.proposals : Proper(l.proposals[i], h)
  /\ l.volume + RemainingIn(l.schedules) = ApprovedIn(l.proposals)
  /\ ParamsApproved(l.params, l.proposals)
  /\ RemainingIn(l.schedules) <= l.balances[Escrow]
  /\ AllOnLine(l.schedules, h)

Total(l) == Money(l.balances) + HeldIn(l.proposals)

LEMMA ChangedParams ==
  ASSUME NEW ps \in Params, NEW changes, WithinSchema(changes)
  PROVE  Changed(ps, changes) \in Params
<1> DEFINE new == Changed(ps, changes)
<1>1. new \in [ParamNames -> {new[name] : name \in ParamNames}]
  BY DEF Changed
<1>2. /\ ps["proposalDeposit"] \in Nat /\ ps["governanceVotingWindow"] \in Nat \ {0}
      /\ ps["quorumPercent"] \in 0 .. 100
  BY DEF Params
<1>3. new["proposalDeposit"] \in Nat
  BY <1>2 DEF WithinSchema, Changed, ParamNames
<1>4. new["governanceVotingWindow"] \in Nat \ {0}
  BY <1>2 DEF WithinSchema, Changed, ParamNames
<1>5. new["quorumPercent"] \in 0 .. 100
  BY <1>2 DEF WithinSchema, Changed, ParamNames
<1> HIDE DEF new
<1>6. new = [proposalDeposit |-> new["proposalDeposit"],
             governanceVotingWindow |-> new["governanceVotingWindow"],
             quorumPercent |-> new["quorumPercent"]]
  BY <1>1 DEF ParamNames
<1>7. new \in Params
  BY <1>3, <1>4, <1>5, <1>6 DEF Params
<1> QED BY <1>7 DEF new

\* The execution of a proposal: it fails and does nothing, or is complete.
Outcome(l, e, p, status) ==
  /\ e \in Ledgers /\ e.proposals = l.proposals
  /\ Money(e.balances) = Money(l.balances)
  /\ e.volume + RemainingIn(e.schedules) =
       l.volume + RemainingIn(l.schedules)
         + (IF status = "passed" THEN GrantedAmount(p.grants) ELSE 0)
  /\ e.params = IF status = "passed" THEN Changed(l.params, p.changes) ELSE l.params
  /\ e.balances[Escrow] - RemainingIn(e.schedules) >= l.balances[Escrow] - RemainingIn(l.schedules)
  /\ AllOnLine(e.schedules, height - 1)

LEMMA SoundFields ==
  ASSUME NEW l, NEW h, Sound(l, h)
  PROVE  /\ l \in Ledgers /\ l.balances \in [Accounts -> Nat] /\ l.balances[Escrow] \in Nat
         /\ l.balances \in [Accounts -> Int] /\ Money(l.balances) \in Int
         /\ l.params \in Params /\ l.proposals \in Seq(Proposals)
         /\ l.schedules \in Seq(Schedules) /\ l.volume \in Nat
         /\ RemainingIn(l.schedules) \in Int
         /\ HeldIn(l.proposals) \in Nat /\ ApprovedIn(l.proposals) \in Nat
<1>1. /\ l \in Ledgers /\ l.balances \in [Accounts -> Nat] /\ l.params \in Params
      /\ l.proposals \in Seq(Proposals) /\ l.schedules \in Seq(Schedules) /\ l.volume \in Nat
  BY LedgerFields DEF Sound
<1>2. l.balances[Escrow] \in Nat /\ l.balances \in [Accounts -> Int] /\ 0 \in Int
  BY <1>1, AccountFacts
<1>3. Money(l.balances) \in Int
  BY <1>2, AccountFacts, CreditedMoney
<1> QED BY <1>1, <1>2, <1>3, ScheduleSums, ProposalSums

LEMMA ExecutedOutcome ==
  ASSUME NEW l, Sound(l, height - 1), height \in Nat, NEW i \in DOMAIN l.proposals,
         NEW p, p = l.proposals[i]
  PROVE  IF Executed(l, p).failed THEN Outcome(l, Executed(l, p), p, "execution_failed")
                                  ELSE Outcome(l, Executed(l, p), p, "passed")
<1>1. /\ l \in Ledgers /\ ~ l.failed /\ AllOnLine(l.schedules, height - 1)
      /\ l.params \in Params /\ l.balances[Escrow] \in Nat /\ RemainingIn(l.schedules) \in Int
      /\ l.volume \in Nat
  BY SoundFields DEF Sound
<1>2. p \in Proposals /\ p.grants \in Seq(Grants) /\ WithinSchema(p.changes)
  <2>1. l.proposals[i] \in Proposals
    BY SoundFields
  <2> QED BY <2>1, ProposalFields DEF Sound, Proper
<1>3. CASE ~ Covered(l, p.grants)
  <2> DEFINE e == [l EXCEPT !.failed = TRUE]
  <2>1. /\ e \in Ledgers /\ e.failed /\ e.balances = l.balances /\ e.params = l.params
        /\ e.proposals = l.proposals /\ e.schedules = l.schedules /\ e.volume = l.volume
    BY <1>1 DEF Ledgers
  <2>2. Executed(l, p) = e
    BY <1>3 DEF Executed
  <2> HIDE DEF e
  <2>3. Outcome(l, e, p, "execution_failed")
    BY <1>1, <2>1 DEF Outcome
  <2> QED BY <2>1, <2>2, <2>3
<1>4. CASE Covered(l, p.grants)
  <2>1. PICK ps \in Params : ps = Changed(l.params, p.changes)
    BY <1>1, <1>2, ChangedParams
  <2> DEFINE m == [l EXCEPT !.params = ps]
             e == AllGranted(m, p.grants)
  <2>2. /\ m \in Ledgers /\ m.failed = l.failed /\ m.balances = l.balances /\ m.params = ps
        /\ m.proposals = l.proposals /\ m.schedules = l.schedules /\ m.volume = l.volume
    BY <1>1 DEF Ledgers
  <2>3. Executed(l, p) = e
    BY <1>4, <2>1 DEF Executed
  <2> HIDE DEF m
  <2>4. Covered(m, p.grants)
    BY <1>4, <2>2 DEF Covered
  <2>5. Pays(m, e, GrantedAmount(p.grants))
    BY <1>1, <1>2, <2>2, <2>4, CoveredPays
  <2> HIDE DEF e
  <2>6. ~ e.failed
    BY <2>5 DEF Pays
  <2>7. Outcome(l, e, p, "passed")
    BY <2>1, <2>2, <2>5 DEF Pays, Outcome
  <2> QED BY <2>3, <2>6, <2>7
<1> QED BY <1>3, <1>4

Credit(b, a, x) == [b EXCEPT ![a] = @ + x]

LEMMA Credited ==
  ASSUME NEW b \in [Accounts -> Nat], NEW a \in Accounts, NEW x \in Nat,
         NEW c, c = Credit(b, a, x)
  PROVE  /\ c \in [Accounts -> Nat] /\ Money(c) = Money(b) + x /\ Money(b) \in Int
         /\ \A k \in Accounts : c[k] >= b[k] /\ c[k] \in Nat /\ b[k] \in Nat
<1>1. b \in [Accounts -> Int] /\ x \in Int
  OBVIOUS
<1>2. c \in [Accounts -> Nat]
  BY DEF Credit
<1>3. \A k \in Accounts : c[k] = (IF k = a THEN b[k] + x ELSE b[k]) /\ b[k] \in Nat
  BY DEF Credit
<1>4. Money([b EXCEPT ![a] = @ + x]) = Money(b) + x /\ Money(b) \in Int
  BY <1>1, CreditedMoney
<1>5. Money(c) = Money(b) + x
  BY <1>4 DEF Credit
<1>6. \A k \in Accounts : c[k] >= b[k] /\ c[k] \in Nat
  BY <1>2, <1>3
<1> QED BY <1>2, <1>3, <1>4, <1>5, <1>6

LEMMA SettledProposal ==
  ASSUME NEW p \in Proposals, p.status = "active",
         NEW status \in {"passed", "rejected", "execution_failed"},
         NEW q, q = [p EXCEPT !.status = status]
  PROVE  /\ q \in Proposals /\ q.status = status /\ q.changes = p.changes /\ q.grants = p.grants
         /\ q.startHeight = p.startHeight /\ q.endHeight = p.endHeight
         /\ HeldFor(p) = p.deposit /\ HeldFor(q) = 0 /\ Approved(p) = 0
         /\ Approved(q) = IF status = "passed" THEN GrantedAmount(p.grants) ELSE 0
<1>1. /\ q \in Proposals /\ q.status = status /\ q.changes = p.changes /\ q.grants = p.grants
      /\ q.startHeight = p.startHeight /\ q.endHeight = p.endHeight
  BY DEF Proposals
<1>2. HeldFor(p) = p.deposit /\ HeldFor(q) = 0
  BY <1>1 DEF HeldFor
<1>3. Approved(p) = 0 /\ Approved(q) = IF status = "passed" THEN GrantedAmount(p.grants) ELSE 0
  <2>1. PICK r \in Proposals : r = q
    BY <1>1
  <2>2. /\ r.status = "passed" => Approved(r) = GrantedAmount(r.grants)
        /\ r.status # "passed" => Approved(r) = 0
        /\ p.status # "passed" => Approved(p) = 0
    BY ProposalFields
  <2> QED BY <1>1, <2>1, <2>2
<1> QED BY <1>1, <1>2, <1>3

LEMMA SettledParams ==
  ASSUME NEW l, Sound(l, height - 1), NEW i \in DOMAIN l.proposals,
         NEW p, p = l.proposals[i], p.status = "active",
         NEW status \in {"passed", "rejected", "execution_failed"},
         NEW e, Outcome(l, e, p, status),
         NEW ps, DOMAIN ps = DOMAIN l.proposals, NEW q, q = [p EXCEPT !.status = status],
         \A k \in DOMAIN ps : ps[k] = IF k = i THEN q ELSE l.proposals[k]
  PROVE  ParamsApproved(e.params, ps)
<1>1. p \in Proposals /\ l.params \in Params
  BY SoundFields
<1>2. SUFFICES ASSUME NEW name \in ParamNames
               PROVE  \/ e.params[name] = InitialParams[name]
                      \/ \E k \in DOMAIN ps : Approves(ps[k], name, e.params[name])
  BY DEF ParamsApproved
<1>3. CASE status = "passed" /\ name \in DOMAIN p.changes
  <2>1. e.params[name] = p.changes[name]
    BY <1>3 DEF Outcome, Changed
  <2>2. ps[i] = q /\ i \in DOMAIN ps
    OBVIOUS
  <2>3. Approves(ps[i], name, e.params[name])
    <3>1. q.status = status /\ q.changes = p.changes
      BY <1>1, SettledProposal
    <3> QED BY <1>3, <2>1, <2>2, <3>1 DEF Approves
  <2> QED BY <2>2, <2>3
<1>4. CASE ~ (status = "passed" /\ name \in DOMAIN p.changes)
  <2>1. e.params[name] = l.params[name]
    BY <1>4 DEF Outcome, Changed
  <2>2. CASE l.params[name] = InitialParams[name]
    BY <2>1, <2>2
  <2>3. CASE \E k \in DOMAIN l.proposals : Approves(l.proposals[k], name, l.params[name])
    <3>1. PICK k \in DOMAIN l.proposals : Approves(l.proposals[k], name, l.params[name])
      BY <2>3
    <3>2. k # i
      BY <3>1 DEF Approves
    <3> QED BY <2>1, <3>1, <3>2
  <2> QED BY <2>2, <2>3 DEF Sound, ParamsApproved
<1> QED BY <1>3, <1>4

LEMMA SettledSound ==
  ASSUME NEW l, Sound(l, height - 1), height \in Nat, NEW i \in DOMAIN l.proposals,
         NEW p, p = l.proposals[i], Due(p),
         NEW status \in {"passed", "rejected", "execution_failed"},
         NEW e, Outcome(l, e, p, status), NEW who \in Accounts
  PROVE  /\ Sound(Settled(e, i, status, who), height - 1)
         /\ Total(Settled(e, i, status, who)) = Total(l)
         /\ Len(Settled(e, i, status, who).proposals) = Len(l.proposals)
<1>0. PICK q : q = [p EXCEPT !.status = status]
  OBVIOUS
<1>1. /\ p \in Proposals /\ p.status = "active" /\ p.endHeight <= height - 1
      /\ p.deposit \in Nat /\ p.endHeight \in Nat
  <2>1. p \in Proposals
    BY SoundFields
  <2> QED BY <2>1, ProposalFields DEF Due
<1>2. /\ e \in Ledgers /\ e.proposals = l.proposals /\ e.balances \in [Accounts -> Nat]
      /\ e.schedules \in Seq(Schedules) /\ e.volume \in Nat /\ e.params \in Params
      /\ RemainingIn(e.schedules) \in Int
  BY LedgerFields, ScheduleSums DEF Outcome
<1>3. /\ q \in Proposals /\ q.status = status /\ q.changes = p.changes /\ q.grants = p.grants
      /\ q.startHeight = p.startHeight /\ q.endHeight = p.endHeight
      /\ HeldFor(p) = p.deposit /\ HeldFor(q) = 0 /\ Approved(p) = 0
      /\ Approved(q) = IF status = "passed" THEN GrantedAmount(p.grants) ELSE 0
  BY <1>0, <1>1, SettledProposal
<1>4. PICK ps : ps = [l.proposals EXCEPT ![i] = q]
  OBVIOUS
<1>5. /\ ps \in Seq(Proposals) /\ Len(ps) = Len(l.proposals) /\ DOMAIN ps = DOMAIN l.proposals
      /\ \A k \in DOMAIN ps : ps[k] = IF k = i THEN q ELSE l.proposals[k]
      /\ HeldIn(ps) = HeldIn(l.proposals) + (HeldFor(q) - HeldFor(p))
      /\ ApprovedIn(ps) = ApprovedIn(l.proposals) + (Approved(q) - Approved(p))
  <2>1. PICK ls \in Seq(Proposals) : ls = l.proposals
    BY SoundFields
  <2>2. i \in DOMAIN ls /\ ls[i] = p /\ ps = [ls EXCEPT ![i] = q]
    BY <1>4, <2>1
  <2> QED BY <1>3, <2>1, <2>2, ReplacedProposal
<1>6. PICK b : b = [e.balances EXCEPT ![who] = @ + p.deposit]
  OBVIOUS
<1>7. /\ b \in [Accounts -> Nat] /\ Money(b) = Money(e.balances) + p.deposit
      /\ b[Escrow] \in Nat /\ b[Escrow] >= e.balances[Escrow]
  <2>1. PICK c \in [Accounts -> Nat], d \in Nat : c = e.balances /\ d = p.deposit
    BY <1>1, <1>2
  <2>2. b = Credit(c, who, d)
    BY <1>6, <2>1 DEF Credit
  <2>3. /\ b \in [Accounts -> Nat] /\ Money(b) = Money(c) + d
        /\ \A k \in Accounts : b[k] >= c[k] /\ b[k] \in Nat
    BY <2>2, Credited
  <2>4. b[Escrow] >= c[Escrow] /\ b[Escrow] \in Nat
    BY <2>3, AccountFacts
  <2> QED BY <2>1, <2>3, <2>4
<1> DEFINE r == [e EXCEPT !.failed = FALSE, !.proposals = ps, !.balances = b]
<1>8. Settled(e, i, status, who) = r
  <2>1. e.proposals[i] = p /\ q = [e.proposals[i] EXCEPT !.status = status]
    BY <1>0, <1>2
  <2> QED BY <1>2, <1>4, <1>6, <2>1 DEF Settled
<1>9. /\ r \in Ledgers /\ ~ r.failed /\ r.proposals = ps /\ r.balances = b
      /\ r.params = e.params /\ r.schedules = e.schedules /\ r.volume = e.volume
  BY <1>2, <1>5, <1>7 DEF Ledgers
<1> HIDE DEF r
<1>10. ASSUME NEW k \in DOMAIN r.proposals PROVE Proper(r.proposals[k], height - 1)
  <2>1. k \in DOMAIN ps /\ r.proposals[k] = ps[k] /\ k \in DOMAIN l.proposals
    BY <1>5, <1>9
  <2>2. Proper(p, height - 1) /\ Proper(l.proposals[k], height - 1)
    BY <2>1 DEF Sound
  <2>3. Proper(q, height - 1)
    BY <1>1, <1>3, <2>2 DEF Proper
  <2> QED BY <1>5, <2>1, <2>2, <2>3
<1>11. r.volume + RemainingIn(r.schedules) = ApprovedIn(r.proposals)
  <2>1. /\ e.volume + RemainingIn(e.schedules) =
             l.volume + RemainingIn(l.schedules) + Approved(q)
        /\ l.volume + RemainingIn(l.schedules) = ApprovedIn(l.proposals)
    BY <1>3 DEF Outcome, Sound
  <2>2. l.volume \in Int /\ RemainingIn(l.schedules) \in Int /\ ApprovedIn(l.proposals) \in Int
        /\ Approved(q) \in Int
    BY <1>3, SoundFields, ProposalFields
  <2> QED BY <1>3, <1>5, <1>9, <2>1, <2>2
<1>12. ParamsApproved(r.params, r.proposals)
  BY <1>0, <1>1, <1>5, <1>9, SettledParams
<1>13. RemainingIn(r.schedules) <= r.balances[Escrow]
  <2>1. /\ RemainingIn(l.schedules) <= l.balances[Escrow]
        /\ RemainingIn(l.schedules) \in Int /\ l.balances[Escrow] \in Int
    <3>1. RemainingIn(l.schedules) <= l.balances[Escrow]
      BY DEF Sound
    <3>2. RemainingIn(l.schedules) \in Int /\ l.balances[Escrow] \in Nat
      BY SoundFields
    <3> QED BY <3>1, <3>2
  <2>2. e.balances[Escrow] - RemainingIn(e.schedules)
          >= l.balances[Escrow] - RemainingIn(l.schedules)
    BY DEF Outcome
  <2>3. e.balances[Escrow] \in Int
    BY <1>2, AccountFacts
  <2>4. PICK x \in Int, y \in Int, z \in Int, u \in Int, v \in Int :
          /\ x = RemainingIn(l.schedules) /\ y = l.balances[Escrow]
          /\ z = RemainingIn(e.schedules) /\ u = e.balances[Escrow] /\ v = b[Escrow]
    BY <1>2, <1>7, <2>1, <2>3
  <2>5. x <= y /\ u - z >= y - x /\ v >= u
    BY <1>7, <2>1, <2>2, <2>4
  <2>6. z <= v
    BY <2>5
  <2> QED BY <1>9, <2>4, <2>6
<1>14. AllOnLine(r.schedules, height - 1)
  BY <1>9 DEF Outcome
<1>15. Total(r) = Total(l)
  <2>1. Money(e.balances) = Money(l.balances) /\ Money(l.balances) \in Int
        /\ HeldIn(l.proposals) \in Int
    BY SoundFields DEF Outcome
  <2> QED BY <1>1, <1>3, <1>5, <1>7, <1>9, <2>1 DEF Total
<1>16. Sound(r, height - 1)
  BY <1>9, <1>10, <1>11, <1>12, <1>13, <1>14 DEF Sound
<1> QED BY <1>5, <1>8, <1>9, <1>15, <1>16

LEMMA DecidedSound ==
  ASSUME NEW l, Sound(l, height - 1), height \in Nat, NEW i \in DOMAIN l.proposals,
         NEW activeStake
  PROVE  /\ Sound(Decided(l, i, activeStake), height - 1)
         /\ Total(Decided(l, i, activeStake)) = Total(l)
         /\ Len(Decided(l, i, activeStake).proposals) = Len(l.proposals)
<1>1. PICK p : p = l.proposals[i]
  OBVIOUS
<1>2. p \in Proposals /\ p.proposer \in Accounts /\ Treasury \in Accounts
  <2>1. l.proposals[i] \in Proposals
    BY SoundFields
  <2> QED BY <1>1, <2>1, ProposalFields, AccountFacts
<1>3. CASE ~ Due(p)
  BY <1>1, <1>3 DEF Decided
<1>4. CASE Due(p) /\ ~ Passes(l, p, activeStake)
  <2>1. Decided(l, i, activeStake) = Settled(l, i, "rejected", Treasury)
    BY <1>1, <1>4 DEF Decided
  <2>2. Outcome(l, l, p, "rejected")
    <3>1. /\ l \in Ledgers /\ l.volume \in Int /\ RemainingIn(l.schedules) \in Int
          /\ l.balances[Escrow] \in Int /\ AllOnLine(l.schedules, height - 1)
      <4>1. AllOnLine(l.schedules, height - 1)
        BY DEF Sound
      <4>2. /\ l \in Ledgers /\ l.volume \in Nat /\ RemainingIn(l.schedules) \in Int
            /\ l.balances[Escrow] \in Nat
        BY SoundFields
      <4> QED BY <4>1, <4>2
    <3>2. PICK x \in Int, y \in Int, z \in Int :
            x = l.volume /\ y = RemainingIn(l.schedules) /\ z = l.balances[Escrow]
      BY <3>1
    <3>3. x + y = x + y + 0 /\ z - y >= z - y
      OBVIOUS
    <3> QED BY <3>1, <3>2, <3>3 DEF Outcome
  <2> QED BY <1>1, <1>2, <1>4, <2>1, <2>2, SettledSound
<1>5. CASE Due(p) /\ Passes(l, p, activeStake)
  <2>1. PICK e : e = Executed(l, p)
    OBVIOUS
  <2>2. CASE e.failed
    <3>1. Decided(l, i, activeStake) = Settled(e, i, "execution_failed", Treasury)
      BY <1>1, <1>5, <2>1, <2>2 DEF Decided
    <3>2. Outcome(l, e, p, "execution_failed")
      BY <1>1, <2>1, <2>2, ExecutedOutcome
    <3> QED BY <1>1, <1>2, <1>5, <3>1, <3>2, SettledSound
  <2>3. CASE ~ e.failed
    <3>1. Decided(l, i, activeStake) = Settled(e, i, "passed", p.proposer)
      BY <1>1, <1>5, <2>1, <2>3 DEF Decided
    <3>2. Outcome(l, e, p, "passed")
      BY <1>1, <2>1, <2>3, ExecutedOutcome
    <3> QED BY <1>1, <1>2, <1>5, <3>1, <3>2, SettledSound
  <2> QED BY <2>2, <2>3
<1> QED BY <1>3, <1>4, <1>5

-----------------------------------------------------------------------------
(***************************************************************************)
(* The end of a block: a table of ledgers again, first along the proposals *)
(* and then along the schedules.                                           *)
(***************************************************************************)

DecidedTable(activeStake, n, c) ==
  c = [i \in 0 .. n |-> IF i = 0 THEN Ledger ELSE Decided(c[i - 1], i, activeStake)]

LEMMA DecidedTableExists ==
  ASSUME NEW activeStake, NEW n \in Nat
  PROVE  \E c : DecidedTable(activeStake, n, c)
<1> DEFINE T == {m \in 0 .. n : \E c : DecidedTable(activeStake, m, c)}
<1>1. 0 \in T
  <2> DEFINE c == [i \in 0 .. 0 |-> Ledger]
  <2>1. DecidedTable(activeStake, 0, c)
    BY DEF DecidedTable
  <2> QED BY <2>1
<1>2. ASSUME NEW m \in 0 .. (n - 1), m \in T PROVE m + 1 \in T
  <2>1. PICK c : DecidedTable(activeStake, m, c)
    BY <1>2
  <2> DEFINE d == [i \in 0 .. (m + 1) |->
                     IF i = m + 1 THEN Decided(c[m], m + 1, activeStake) ELSE c[i]]
  <2>2. \A i \in 0 .. m : c[i] = IF i = 0 THEN Ledger ELSE Decided(c[i - 1], i, activeStake)
    BY <2>1 DEF DecidedTable
  <2>3. \A i \in 0 .. (m + 1) :
          d[i] = IF i = 0 THEN Ledger ELSE Decided(d[i - 1], i, activeStake)
    BY <2>2
  <2>4. DecidedTable(activeStake, m + 1, d)
    BY <2>3 DEF DecidedTable
  <2> QED BY <2>4
<1> HIDE DEF T
<1>3. \A m \in 0 .. n : m \in T
  BY <1>1, <1>2, IntervalInduction
<1> QED BY <1>3 DEF T

LEMMA FinalizedIsTable ==
  ASSUME NEW activeStake, Len(proposals) \in Nat
  PROVE  \E c : /\ c[0] = Ledger
                /\ \A i \in 1 .. Len(proposals) : c[i] = Decided(c[i - 1], i, activeStake)
                /\ Finalized(activeStake) = c[Len(proposals)]
<1> DEFINE n == Len(proposals)
           c == CHOOSE after : after = [i \in 0 .. n |->
                  IF i = 0 THEN Ledger ELSE Decided(after[i - 1], i, activeStake)]
<1>1. \E d : DecidedTable(activeStake, n, d)
  BY DecidedTableExists
<1>2. c = [i \in 0 .. n |-> IF i = 0 THEN Ledger ELSE Decided(c[i - 1], i, activeStake)]
  BY <1>1 DEF DecidedTable
<1>3. Finalized(activeStake) = c[n]
  BY DEF Finalized
<1> HIDE DEF c
<1>4. c[0] = Ledger
  BY <1>2
<1>5. ASSUME NEW i \in 1 .. n PROVE c[i] = Decided(c[i - 1], i, activeStake)
  BY <1>2
<1> QED BY <1>3, <1>4, <1>5

LEMMA FinalizedSound ==
  ASSUME Sound(Ledger, height - 1), height \in Nat, NEW activeStake
  PROVE  /\ Sound(Finalized(activeStake), height - 1)
         /\ Total(Finalized(activeStake)) = Total(Ledger)
<1> DEFINE n == Len(proposals)
<1>1. n \in Nat /\ Ledger.proposals = proposals
  <2>1. Ledger.proposals = proposals
    BY DEF Ledger
  <2>2. Ledger.proposals \in Seq(Proposals)
    BY SoundFields
  <2> QED BY <2>1, <2>2
<1>2. PICK c : /\ c[0] = Ledger
               /\ \A i \in 1 .. n : c[i] = Decided(c[i - 1], i, activeStake)
               /\ Finalized(activeStake) = c[n]
  BY <1>1, FinalizedIsTable
<1> DEFINE T == {k \in 0 .. n : /\ Sound(c[k], height - 1) /\ Total(c[k]) = Total(Ledger)
                                /\ Len(c[k].proposals) = n}
<1>3. 0 \in T
  BY <1>1, <1>2
<1>4. ASSUME NEW k \in 0 .. (n - 1), k \in T PROVE k + 1 \in T
  <2>1. k + 1 \in 1 .. n /\ (k + 1) - 1 = k /\ k + 1 \in 0 .. n
    BY <1>1
  <2>2. c[k + 1] = Decided(c[k], k + 1, activeStake)
    BY <1>2, <2>1
  <2>3. PICK l : l = c[k]
    OBVIOUS
  <2>4. Sound(l, height - 1) /\ Total(l) = Total(Ledger) /\ Len(l.proposals) = n
    BY <1>4, <2>3
  <2> HIDE DEF n
  <2>5. k + 1 \in DOMAIN l.proposals
    <3>1. l.proposals \in Seq(Proposals)
      BY <2>4, SoundFields
    <3> QED BY <2>1, <2>4, <3>1
  <2>6. PICK i : i = k + 1
    OBVIOUS
  <2>7. /\ Sound(Decided(l, i, activeStake), height - 1)
        /\ Total(Decided(l, i, activeStake)) = Total(l)
        /\ Len(Decided(l, i, activeStake).proposals) = Len(l.proposals)
    BY <2>4, <2>5, <2>6, DecidedSound
  <2> QED BY <2>1, <2>2, <2>3, <2>4, <2>6, <2>7
<1> HIDE DEF T
<1>5. n \in T
  <2>1. \A k \in 0 .. n : k \in T
    BY <1>1, <1>3, <1>4, IntervalInduction
  <2> QED BY <1>1, <2>1
<1> QED BY <1>2, <1>5 DEF T

\* What the release of one schedule does to a ledger.
LEMMA ReleasedStep ==
  ASSUME NEW m \in Ledgers, NEW s \in Schedules, height \in Nat,
         OnLine(s, height - 1), AllOnLine(m.schedules, height),
         0 <= RemainingIn(m.schedules), Remaining(s) <= m.balances[Escrow],
         NEW r, r = Released(m, s)
  PROVE  /\ r \in Ledgers /\ r.failed = m.failed /\ r.params = m.params
         /\ r.proposals = m.proposals /\ Money(r.balances) = Money(m.balances)
         /\ r.volume + RemainingIn(r.schedules) =
              m.volume + RemainingIn(m.schedules) + Remaining(s)
         /\ r.balances[Escrow] - RemainingIn(r.schedules)
              >= m.balances[Escrow] - RemainingIn(m.schedules) - Remaining(s)
         /\ AllOnLine(r.schedules, height) /\ 0 <= RemainingIn(r.schedules)
<1>1. /\ m.balances \in [Accounts -> Nat] /\ m.schedules \in Seq(Schedules) /\ m.volume \in Nat
      /\ RemainingIn(m.schedules) \in Int /\ m.balances[Escrow] \in Nat
  BY LedgerFields, ScheduleSums, AccountFacts
<1>2. /\ s.recipient \in Accounts /\ s.amount \in Nat /\ s.released \in Nat
      /\ Escrow \in Accounts
  BY AccountFacts DEF Schedules
<1>3. /\ Releasable(s) \in Nat
      /\ s.released + Releasable(s) \in 0 .. s.amount
      /\ s.released + Releasable(s) < s.amount =>
           /\ [s EXCEPT !.released = @ + Releasable(s)] \in Schedules
           /\ OnLine([s EXCEPT !.released = @ + Releasable(s)], height)
      /\ Remaining(s) \in Nat
  BY OnLineSchedule
<1>4. PICK x \in Nat : x = Releasable(s)
  BY <1>3
<1>5. /\ x <= Remaining(s) /\ Remaining(s) = s.amount - s.released
  BY <1>2, <1>3, <1>4 DEF Remaining
<1>6. PICK b : b = Moved(m.balances, Escrow, s.recipient, x)
  OBVIOUS
<1>7. /\ b \in [Accounts -> Nat] /\ Money(b) = Money(m.balances)
      /\ b[Escrow] + x >= m.balances[Escrow] /\ b[Escrow] \in Nat
  <2>1. PICK d \in [Accounts -> Nat], to \in Accounts, from \in Accounts :
          d = m.balances /\ to = s.recipient /\ from = Escrow
    BY <1>1, <1>2
  <2>2. x <= d[from] /\ b = Moved(d, from, to, x)
    BY <1>1, <1>3, <1>5, <1>6, <2>1
  <2>3. /\ Moved(d, from, to, x) \in [Accounts -> Nat]
        /\ Money(Moved(d, from, to, x)) = Money(d)
        /\ Moved(d, from, to, x)[from] + x >= d[from]
    BY <2>2, MovedMoney
  <2> QED BY <2>1, <2>2, <2>3
<1>8. PICK ss : ss = IF s.released + x < s.amount
                       THEN Append(m.schedules, [s EXCEPT !.released = @ + x])
                       ELSE m.schedules
  OBVIOUS
<1>9. /\ ss \in Seq(Schedules) /\ AllOnLine(ss, height)
      /\ RemainingIn(ss) = RemainingIn(m.schedules) + (Remaining(s) - x)
  <2>1. CASE s.released + x < s.amount
    <3>1. PICK t : t = [s EXCEPT !.released = @ + x]
      OBVIOUS
    <3>2. t \in Schedules /\ OnLine(t, height) /\ ss = Append(m.schedules, t)
      BY <1>3, <1>4, <1>8, <2>1, <3>1
    <3>3. Remaining(t) = Remaining(s) - x
      <4>1. t.amount = s.amount /\ t.released = s.released + x
        BY <1>2, <1>4, <3>1 DEF Schedules
      <4> QED BY <1>2, <1>4, <4>1 DEF Remaining
    <3>4. /\ Append(m.schedules, t) \in Seq(Schedules)
          /\ RemainingIn(Append(m.schedules, t)) = RemainingIn(m.schedules) + Remaining(t)
          /\ \A k \in DOMAIN Append(m.schedules, t) :
               Append(m.schedules, t)[k] = t
                 \/ (k \in DOMAIN m.schedules /\ Append(m.schedules, t)[k] = m.schedules[k])
      BY <1>1, <3>2, AppendedSchedule
    <3>5. AllOnLine(ss, height)
      BY <3>2, <3>4 DEF AllOnLine
    <3> QED BY <3>2, <3>3, <3>4, <3>5
  <2>2. CASE ~ (s.released + x < s.amount)
    <3>1. Remaining(s) - x = 0
      BY <1>2, <1>3, <1>4, <1>5, <2>2
    <3> QED BY <1>1, <1>8, <2>2, <3>1
  <2> QED BY <2>1, <2>2
<1>10. RemainingIn(ss) \in Int /\ m.volume + x \in Nat
  BY <1>1, <1>9, ScheduleSums
<1>11. r = [m EXCEPT !.balances = b, !.volume = @ + x, !.schedules = ss]
  BY <1>4, <1>6, <1>8 DEF Released
<1>12. /\ r \in Ledgers /\ r.failed = m.failed /\ r.params = m.params
       /\ r.proposals = m.proposals /\ r.balances = b /\ r.volume = m.volume + x
       /\ r.schedules = ss
  BY <1>7, <1>9, <1>10, <1>11 DEF Ledgers
<1>13. PICK y \in Int, z \in Int, w \in Int, v \in Nat, e \in Nat, d \in Nat :
         /\ y = RemainingIn(m.schedules) /\ z = RemainingIn(ss) /\ w = Remaining(s)
         /\ v = m.volume /\ e = m.balances[Escrow] /\ d = b[Escrow]
  BY <1>1, <1>3, <1>7, <1>10
<1>14. z = y + (w - x) /\ d + x >= e /\ x <= w /\ 0 <= y
  BY <1>5, <1>7, <1>9, <1>13
<1>15. (v + x) + z = v + y + w /\ d - z >= e - y - w /\ 0 <= z
  BY <1>14
<1> QED BY <1>7, <1>9, <1>12, <1>13, <1>15

ReleasedTable(l, n, c) ==
  c = [k \in 0 .. n |-> IF k = 0 THEN [l EXCEPT !.schedules = <<>>]
                                 ELSE Released(c[k - 1], l.schedules[k])]

LEMMA ReleasedTableExists ==
  ASSUME NEW l, NEW n \in Nat
  PROVE  \E c : ReleasedTable(l, n, c)
<1> DEFINE T == {m \in 0 .. n : \E c : ReleasedTable(l, m, c)}
           first == [l EXCEPT !.schedules = <<>>]
<1>1. 0 \in T
  <2> DEFINE c == [k \in 0 .. 0 |-> first]
  <2>1. ReleasedTable(l, 0, c)
    BY DEF ReleasedTable
  <2> QED BY <2>1
<1>2. ASSUME NEW m \in 0 .. (n - 1), m \in T PROVE m + 1 \in T
  <2>1. PICK c : ReleasedTable(l, m, c)
    BY <1>2
  <2> DEFINE d == [k \in 0 .. (m + 1) |->
                     IF k = m + 1 THEN Released(c[m], l.schedules[m + 1]) ELSE c[k]]
  <2>2. c = [k \in 0 .. m |-> IF k = 0 THEN first ELSE Released(c[k - 1], l.schedules[k])]
    BY <2>1 DEF ReleasedTable
  <2> HIDE DEF first
  <2>3. \A k \in 0 .. m : c[k] = IF k = 0 THEN first ELSE Released(c[k - 1], l.schedules[k])
    BY <2>2
  <2>4. \A k \in 0 .. (m + 1) :
          d[k] = IF k = 0 THEN first ELSE Released(d[k - 1], l.schedules[k])
    BY <2>3
  <2>5. d = [k \in 0 .. (m + 1) |->
               IF k = 0 THEN first ELSE Released(d[k - 1], l.schedules[k])]
    BY <2>4
  <2>6. ReleasedTable(l, m + 1, d)
    BY <2>5 DEF ReleasedTable, first
  <2> QED BY <2>6
<1> HIDE DEF T
<1>3. \A m \in 0 .. n : m \in T
  BY <1>1, <1>2, IntervalInduction
<1> QED BY <1>3 DEF T

LEMMA VestedIsTable ==
  ASSUME NEW l, Len(l.schedules) \in Nat
  PROVE  \E c : /\ c[0] = [l EXCEPT !.schedules = <<>>]
                /\ \A k \in 1 .. Len(l.schedules) : c[k] = Released(c[k - 1], l.schedules[k])
                /\ Vested(l) = c[Len(l.schedules)]
<1> DEFINE n == Len(l.schedules)
           first == [l EXCEPT !.schedules = <<>>]
           c == CHOOSE after : after = [k \in 0 .. n |->
                  IF k = 0 THEN [l EXCEPT !.schedules = <<>>]
                  ELSE Released(after[k - 1], l.schedules[k])]
<1>1. \E d : ReleasedTable(l, n, d)
  BY ReleasedTableExists
<1>2. c = [k \in 0 .. n |-> IF k = 0 THEN first ELSE Released(c[k - 1], l.schedules[k])]
  BY <1>1 DEF ReleasedTable
<1>3. Vested(l) = c[n]
  BY DEF Vested
<1> HIDE DEF c, first
<1>4. c[0] = first
  BY <1>2
<1>5. ASSUME NEW k \in 1 .. n PROVE c[k] = Released(c[k - 1], l.schedules[k])
  BY <1>2
<1> QED BY <1>3, <1>4, <1>5 DEF first

\* A ledger whose first k schedules are worked off.
VestedSoFar(l, m, due) ==
  /\ m \in Ledgers /\ ~ m.failed
  /\ m.params = l.params /\ m.proposals = l.proposals
  /\ Money(m.balances) = Money(l.balances)
  /\ m.volume + RemainingIn(m.schedules) = l.volume + due
  /\ m.balances[Escrow] - RemainingIn(m.schedules) >= l.balances[Escrow] - due
  /\ AllOnLine(m.schedules, height) /\ 0 <= RemainingIn(m.schedules)

LEMMA EmptySchedules ==
  RemainingIn(<<>>) = 0
<1> DEFINE w == [k \in DOMAIN <<>> |-> Remaining(<<>>[k])]
<1>1. 0 \in Nat /\ \A k \in 1 .. 0 : w[k] \in Int
  OBVIOUS
<1> HIDE DEF w
<1>2. SumTo(w, 0) = 0
  BY <1>1, SumUnfold
<1> QED BY <1>2 DEF RemainingIn, w

LEMMA VestedSound ==
  ASSUME NEW l, Sound(l, height - 1), height \in Nat
  PROVE  /\ Sound(Vested(l), height)
         /\ Total(Vested(l)) = Total(l)
<1> DEFINE n == Len(l.schedules)
           R == [k \in DOMAIN l.schedules |-> Remaining(l.schedules[k])]
<1>1. /\ l \in Ledgers /\ ~ l.failed /\ AllOnLine(l.schedules, height - 1)
      /\ RemainingIn(l.schedules) <= l.balances[Escrow]
      /\ l.volume + RemainingIn(l.schedules) = ApprovedIn(l.proposals)
      /\ ParamsApproved(l.params, l.proposals)
      /\ \A i \in DOMAIN l.proposals : Proper(l.proposals[i], height - 1)
  BY DEF Sound
<1>2. /\ l.schedules \in Seq(Schedules) /\ l.volume \in Nat /\ l.balances[Escrow] \in Nat
      /\ RemainingIn(l.schedules) \in Int /\ l.proposals \in Seq(Proposals)
      /\ l.balances \in [Accounts -> Nat] /\ l.params \in Params
  BY SoundFields
<1>3. /\ n \in Nat /\ DOMAIN l.schedules = 1 .. n
      /\ \A k \in 1 .. n : l.schedules[k] \in Schedules
  BY <1>2
<1>4. \A k \in 1 .. n : R[k] = Remaining(l.schedules[k]) /\ R[k] \in Nat
  <2> TAKE k \in 1 .. n
  <2>1. PICK s \in Schedules : s = l.schedules[k]
    BY <1>3
  <2>2. OnLine(s, height - 1)
    BY <1>1, <1>3, <2>1 DEF AllOnLine
  <2>3. Remaining(s) \in Nat
    BY <2>2, OnLineSchedule
  <2> QED BY <1>3, <2>1, <2>3
<1>5. /\ SumTo(R, 0) = 0 /\ SumTo(R, n) = RemainingIn(l.schedules)
      /\ \A k \in 0 .. n : SumTo(R, k) \in Nat /\ SumTo(R, k) <= SumTo(R, n)
      /\ \A k \in 0 .. (n - 1) : SumTo(R, k + 1) = SumTo(R, k) + R[k + 1]
  <2>1. SumTo(R, n) = RemainingIn(l.schedules)
    BY DEF RemainingIn
  <2> HIDE DEF n, R
  <2>2. (\A k \in 1 .. n : R[k] \in Int) /\ (\A k \in 1 .. n : R[k] \in Nat)
    BY <1>4
  <2>3. /\ SumTo(R, 0) = 0
        /\ \A k \in 0 .. (n - 1) : SumTo(R, k + 1) = SumTo(R, k) + R[k + 1]
    BY <1>3, <2>2, SumUnfold
  <2>4. \A k \in 0 .. n : SumTo(R, k) \in Nat /\ SumTo(R, k) <= SumTo(R, n)
    BY <1>3, <2>2, SumMonotone
  <2> QED BY <2>1, <2>3, <2>4
<1>6. PICK c : /\ c[0] = [l EXCEPT !.schedules = <<>>]
               /\ \A k \in 1 .. n : c[k] = Released(c[k - 1], l.schedules[k])
               /\ Vested(l) = c[n]
  BY <1>3, VestedIsTable
<1> DEFINE T == {k \in 0 .. n : VestedSoFar(l, c[k], SumTo(R, k))}
<1>7. 0 \in T
  <2>1. PICK m : m = [l EXCEPT !.schedules = <<>>]
    OBVIOUS
  <2>2. <<>> \in Seq(Schedules)
    OBVIOUS
  <2>3. /\ m \in Ledgers /\ m.failed = l.failed /\ m.params = l.params
        /\ m.proposals = l.proposals /\ m.balances = l.balances /\ m.volume = l.volume
        /\ m.schedules = <<>>
    BY <1>1, <2>1, <2>2 DEF Ledgers
  <2>4. AllOnLine(<<>>, height)
    BY DEF AllOnLine
  <2>5. VestedSoFar(l, m, 0)
    BY <1>1, <1>2, <2>3, <2>4, EmptySchedules DEF VestedSoFar
  <2> QED BY <1>3, <1>5, <1>6, <2>1, <2>5
<1>8. ASSUME NEW k \in 0 .. (n - 1), k \in T PROVE k + 1 \in T
  <2>1. k + 1 \in 1 .. n /\ (k + 1) - 1 = k /\ k + 1 \in 0 .. n /\ k \in 0 .. n
    BY <1>3
  <2>2. PICK s \in Schedules : s = l.schedules[k + 1]
    BY <1>3, <2>1
  <2>3. PICK m : m = c[k]
    OBVIOUS
  <2>4. PICK r : r = Released(m, s)
    OBVIOUS
  <2>5. c[k + 1] = r
    BY <1>6, <2>1, <2>2, <2>3, <2>4
  <2>6. VestedSoFar(l, m, SumTo(R, k))
    BY <1>8, <2>3
  <2>7. m \in Ledgers /\ AllOnLine(m.schedules, height) /\ 0 <= RemainingIn(m.schedules)
    BY <2>6 DEF VestedSoFar
  <2>8. m.volume \in Nat /\ m.balances[Escrow] \in Nat /\ RemainingIn(m.schedules) \in Int
    BY <2>7, LedgerFields, ScheduleSums, AccountFacts
  <2>9. R[k + 1] = Remaining(s) /\ Remaining(s) \in Nat
    BY <1>4, <2>1, <2>2
  <2> HIDE DEF n, R
  <2>10. PICK x \in Nat, y \in Nat, w \in Nat, z \in Nat :
          /\ x = SumTo(R, k) /\ y = SumTo(R, k + 1) /\ w = Remaining(s) /\ z = SumTo(R, n)
    <3>1. n \in 0 .. n
      BY <1>3
    <3> QED BY <1>5, <2>1, <2>9, <3>1
  <2>11. y = x + w /\ y <= z
    BY <1>5, <2>1, <2>9, <2>10
  <2>12. PICK e \in Nat, d \in Nat, u \in Int, v \in Nat, t \in Nat :
           /\ e = l.balances[Escrow] /\ d = m.balances[Escrow]
           /\ u = RemainingIn(m.schedules) /\ v = m.volume /\ t = l.volume
    BY <1>2, <2>8
  <2>13. z <= e /\ 0 <= u /\ v + u = t + x /\ d - u >= e - x
    BY <1>1, <1>5, <2>6, <2>10, <2>12 DEF VestedSoFar
  <2>14. w <= d
    BY <2>11, <2>13
  <2>15. OnLine(s, height - 1)
    BY <1>1, <1>3, <2>1, <2>2 DEF AllOnLine
  <2>16. /\ r \in Ledgers /\ r.failed = m.failed /\ r.params = m.params
         /\ r.proposals = m.proposals /\ Money(r.balances) = Money(m.balances)
         /\ r.volume + RemainingIn(r.schedules) =
              m.volume + RemainingIn(m.schedules) + Remaining(s)
         /\ r.balances[Escrow] - RemainingIn(r.schedules)
              >= m.balances[Escrow] - RemainingIn(m.schedules) - Remaining(s)
         /\ AllOnLine(r.schedules, height) /\ 0 <= RemainingIn(r.schedules)
    BY <2>4, <2>7, <2>10, <2>12, <2>14, <2>15, ReleasedStep
  <2>17. r.volume \in Nat /\ r.balances[Escrow] \in Nat /\ RemainingIn(r.schedules) \in Int
    BY <2>16, LedgerFields, ScheduleSums, AccountFacts
  <2>18. PICK f \in Nat, g \in Nat, h \in Int :
           f = r.volume /\ g = r.balances[Escrow] /\ h = RemainingIn(r.schedules)
    BY <2>17
  <2>19. f + h = v + u + w /\ g - h >= d - u - w
    BY <2>10, <2>12, <2>16, <2>18
  <2>20. f + h = t + y /\ g - h >= e - y
    BY <2>11, <2>13, <2>19
  <2>21. VestedSoFar(l, r, SumTo(R, k + 1))
    BY <2>6, <2>10, <2>12, <2>16, <2>18, <2>20 DEF VestedSoFar
  <2> QED BY <2>1, <2>5, <2>21
<1> HIDE DEF T
<1>9. n \in T
  <2>1. \A k \in 0 .. n : k \in T
    BY <1>3, <1>7, <1>8, IntervalInduction
  <2> QED BY <1>3, <2>1
<1>10. PICK m : m = Vested(l)
  OBVIOUS
<1>11. VestedSoFar(l, m, RemainingIn(l.schedules))
  BY <1>5, <1>6, <1>9, <1>10 DEF T
<1>12. RemainingIn(m.schedules) <= m.balances[Escrow]
  <2>1. m.balances[Escrow] \in Nat /\ RemainingIn(m.schedules) \in Int
    BY <1>11, LedgerFields, ScheduleSums, AccountFacts DEF VestedSoFar
  <2>2. PICK x \in Int, y \in Nat, z \in Int, w \in Nat :
          /\ x = RemainingIn(m.schedules) /\ y = m.balances[Escrow]
          /\ z = RemainingIn(l.schedules) /\ w = l.balances[Escrow]
    BY <1>2, <2>1
  <2>3. z <= w /\ y - x >= w - z
    BY <1>1, <1>11, <2>2 DEF VestedSoFar
  <2>4. x <= y
    BY <2>3
  <2> QED BY <2>2, <2>4
<1>13. ASSUME NEW i \in DOMAIN m.proposals PROVE Proper(m.proposals[i], height)
  <2>1. i \in DOMAIN l.proposals /\ m.proposals[i] = l.proposals[i]
    BY <1>11 DEF VestedSoFar
  <2>2. Proper(l.proposals[i], height - 1) /\ l.proposals[i] \in Proposals
    BY <1>1, <1>2, <2>1
  <2>3. l.proposals[i].endHeight \in Nat
    BY <2>2, ProposalFields
  <2> QED BY <2>1, <2>2, <2>3 DEF Proper
<1>14. Sound(m, height)
  BY <1>1, <1>11, <1>12, <1>13 DEF Sound, VestedSoFar
<1>15. Total(m) = Total(l)
  BY <1>11 DEF VestedSoFar, Total
<1> QED BY <1>10, <1>14, <1>15

-----------------------------------------------------------------------------
(***************************************************************************)
(* The inductive invariant: between blocks the ledger is sound, and every  *)
(* token is accounted for.                                                 *)
(***************************************************************************)
Accounted == Total(Ledger) + overwritten + rewards = Money(InitialBalance)

IndInv ==
  /\ Sound(Ledger, height - 1)
  /\ stake \in [Wallets -> Nat]
  /\ height \in Nat \ {0}
  /\ rewards \in Nat /\ overwritten \in Nat /\ transactions \in Nat
  /\ Accounted

\* What remains sound when neither parameters nor schedules are touched.
LEMMA StaysSound ==
  ASSUME NEW l, NEW h, Sound(l, h), NEW r \in Ledgers, ~ r.failed,
         r.params = l.params, r.schedules = l.schedules, r.volume = l.volume,
         r.balances[Escrow] >= l.balances[Escrow],
         ApprovedIn(r.proposals) = ApprovedIn(l.proposals),
         \A i \in DOMAIN r.proposals : Proper(r.proposals[i], h),
         \A j \in DOMAIN l.proposals : l.proposals[j].status = "passed" =>
           \E k \in DOMAIN r.proposals : /\ r.proposals[k].status = "passed"
                                         /\ r.proposals[k].changes = l.proposals[j].changes
  PROVE  Sound(r, h)
<1>1. /\ l.volume + RemainingIn(l.schedules) = ApprovedIn(l.proposals)
      /\ ParamsApproved(l.params, l.proposals)
      /\ RemainingIn(l.schedules) <= l.balances[Escrow]
      /\ AllOnLine(l.schedules, h)
  BY DEF Sound
<1>2. ParamsApproved(r.params, r.proposals)
  <2> SUFFICES ASSUME NEW name \in ParamNames
               PROVE  \/ l.params[name] = InitialParams[name]
                      \/ \E k \in DOMAIN r.proposals :
                           Approves(r.proposals[k], name, l.params[name])
    BY DEF ParamsApproved
  <2>1. CASE l.params[name] = InitialParams[name]
    BY <2>1
  <2>2. CASE \E j \in DOMAIN l.proposals : Approves(l.proposals[j], name, l.params[name])
    <3>1. PICK j \in DOMAIN l.proposals : Approves(l.proposals[j], name, l.params[name])
      BY <2>2
    <3>2. PICK k \in DOMAIN r.proposals : /\ r.proposals[k].status = "passed"
                                          /\ r.proposals[k].changes = l.proposals[j].changes
      BY <3>1 DEF Approves
    <3>3. Approves(r.proposals[k], name, l.params[name])
      BY <3>1, <3>2 DEF Approves
    <3> QED BY <3>3
  <2> QED BY <1>1, <2>1, <2>2 DEF ParamsApproved
<1>3. RemainingIn(r.schedules) <= r.balances[Escrow]
  <2>1. r.balances[Escrow] \in Nat
    BY LedgerFields, AccountFacts
  <2>2. RemainingIn(l.schedules) \in Int /\ l.balances[Escrow] \in Nat
    BY SoundFields
  <2>3. PICK x \in Int, y \in Nat, z \in Nat :
          x = RemainingIn(l.schedules) /\ y = l.balances[Escrow] /\ z = r.balances[Escrow]
    BY <2>1, <2>2
  <2>4. x <= y /\ y <= z
    BY <1>1, <2>3
  <2>5. x <= z
    BY <2>4
  <2> QED BY <2>3, <2>5
<1> QED BY <1>1, <1>2, <1>3 DEF Sound

LEMMA EmptyProposals ==
  HeldIn(<<>>) = 0 /\ ApprovedIn(<<>>) = 0
<1> DEFINE v == [k \in DOMAIN <<>> |-> HeldFor(<<>>[k])]
           w == [k \in DOMAIN <<>> |-> Approved(<<>>[k])]
<1>1. /\ 0 \in Nat /\ \A k \in 1 .. 0 : v[k] \in Int
      /\ \A k \in 1 .. 0 : w[k] \in Int
  OBVIOUS
<1> HIDE DEF v, w
<1>2. SumTo(v, 0) = 0 /\ SumTo(w, 0) = 0
  BY <1>1, SumUnfold
<1> QED BY <1>2 DEF HeldIn, ApprovedIn, v, w

LEMMA Initially ==
  Init => IndInv
<1> SUFFICES ASSUME Init PROVE IndInv
  OBVIOUS
<1>1. PICK l : l = Ledger
  OBVIOUS
<1>2. /\ InitialBalance \in [Accounts -> Nat] /\ InitialParams \in Params
      /\ InitialBalance[Escrow] = 0
      /\ stake \in [Wallets -> Nat]
  BY GovernanceAssumption DEF Init
<1>3. /\ l \in Ledgers /\ ~ l.failed /\ l.balances = InitialBalance /\ l.params = InitialParams
      /\ l.proposals = <<>> /\ l.schedules = <<>> /\ l.volume = 0
  <2>1. <<>> \in Seq(Proposals) /\ <<>> \in Seq(Schedules)
    OBVIOUS
  <2> QED BY <1>1, <1>2, <2>1 DEF Init, Ledger, Ledgers
<1>4. height = 1 /\ rewards = 0 /\ overwritten = 0 /\ transactions = 0
  BY DEF Init
<1>5. Sound(l, 0)
  <2>1. DOMAIN <<>> = {}
    OBVIOUS
  <2> QED BY <1>2, <1>3, <2>1, EmptySchedules, EmptyProposals
          DEF Sound, AllOnLine, ParamsApproved
<1>6. Total(l) = Money(InitialBalance) /\ Money(InitialBalance) \in Int
  <2>1. Money(l.balances) \in Int
    BY <1>5, SoundFields
  <2> QED BY <1>3, <2>1, EmptyProposals DEF Total
<1>7. Accounted
  BY <1>1, <1>4, <1>6 DEF Accounted
<1>8. Sound(Ledger, height - 1)
  BY <1>1, <1>4, <1>5
<1> QED BY <1>2, <1>4, <1>7, <1>8 DEF IndInv

LEMMA LedgerIs ==
  ASSUME Sound(Ledger, height - 1)
  PROVE  /\ balances \in [Accounts -> Nat] /\ balances[Escrow] \in Nat
         /\ params \in Params /\ proposals \in Seq(Proposals)
         /\ schedules \in Seq(Schedules) /\ volume \in Nat
         /\ Ledger.balances = balances /\ Ledger.params = params
         /\ Ledger.proposals = proposals /\ Ledger.schedules = schedules
         /\ Ledger.volume = volume
         /\ Ledger \in Ledgers /\ ~ Ledger.failed
         /\ Money(balances) \in Int /\ HeldIn(proposals) \in Nat /\ ApprovedIn(proposals) \in Nat
         /\ \A i \in DOMAIN proposals : Proper(proposals[i], height - 1)
<1>1. /\ Ledger.balances = balances /\ Ledger.params = params
      /\ Ledger.proposals = proposals /\ Ledger.schedules = schedules
      /\ Ledger.volume = volume
  BY DEF Ledger
<1>2. /\ Ledger \in Ledgers /\ ~ Ledger.failed
      /\ \A i \in DOMAIN Ledger.proposals : Proper(Ledger.proposals[i], height - 1)
  BY DEF Sound
<1> HIDE DEF Ledger
<1>3. /\ Ledger.balances \in [Accounts -> Nat] /\ Ledger.balances[Escrow] \in Nat
      /\ Ledger.params \in Params /\ Ledger.proposals \in Seq(Proposals)
      /\ Ledger.schedules \in Seq(Schedules) /\ Ledger.volume \in Nat
      /\ Money(Ledger.balances) \in Int /\ HeldIn(Ledger.proposals) \in Nat
      /\ ApprovedIn(Ledger.proposals) \in Nat
  BY SoundFields
<1> QED BY <1>1, <1>2, <1>3

LEMMA StepCloseBlock ==
  ASSUME IndInv, CloseBlock
  PROVE  IndInv'
<1>1. Sound(Ledger, height - 1) /\ height \in Nat \ {0} /\ height \in Nat
  BY DEF IndInv
<1>2. PICK activeStake \in ActiveStakes :
        LET l == Vested(Finalized(activeStake))
            reward == Lesser(l.balances[Treasury], BlockReward)
        IN  /\ balances' = [l.balances EXCEPT ![Treasury] = @ - reward]
            /\ rewards' = rewards + reward
            /\ params' = l.params
            /\ proposals' = l.proposals
            /\ schedules' = l.schedules
            /\ volume' = l.volume
  BY DEF CloseBlock
<1>3. PICK l : l = Vested(Finalized(activeStake))
  OBVIOUS
<1>4. Sound(l, height) /\ Total(l) = Total(Ledger)
  <2>1. PICK f : f = Finalized(activeStake)
    OBVIOUS
  <2>2. Sound(f, height - 1) /\ Total(f) = Total(Ledger)
    BY <1>1, <2>1, FinalizedSound
  <2> QED BY <1>1, <1>3, <2>1, <2>2, VestedSound
<1>5. /\ l \in Ledgers /\ l.balances \in [Accounts -> Nat] /\ l.params \in Params
      /\ l.proposals \in Seq(Proposals) /\ l.schedules \in Seq(Schedules) /\ l.volume \in Nat
      /\ Money(l.balances) \in Int /\ HeldIn(l.proposals) \in Nat /\ l.balances[Escrow] \in Nat
  BY <1>4, SoundFields
<1>6. PICK x \in Nat : x = Lesser(l.balances[Treasury], BlockReward) /\ x <= l.balances[Treasury]
  <2>1. l.balances[Treasury] \in Nat
    BY <1>5, AccountFacts
  <2> QED BY <2>1, AccountFacts DEF Lesser
<1>7. /\ balances' = [l.balances EXCEPT ![Treasury] = @ - x] /\ rewards' = rewards + x
      /\ params' = l.params /\ proposals' = l.proposals /\ schedules' = l.schedules
      /\ volume' = l.volume
  BY <1>2, <1>3, <1>6
<1>8. /\ balances' \in [Accounts -> Nat] /\ Money(balances') = Money(l.balances) - x
      /\ balances'[Escrow] = l.balances[Escrow]
  <2>1. PICK c \in [Accounts -> Nat], b \in {balances'} : c = l.balances
    BY <1>5
  <2>2. PICK y \in Int, t \in Accounts : y = - x /\ t = Treasury /\ t # Escrow
    BY AccountFacts
  <2>3. c[t] \in Nat /\ x <= c[t] /\ b = [c EXCEPT ![t] = @ - x]
    BY <1>6, <1>7, <2>1, <2>2
  <2>4. c[t] - x = c[t] + y /\ c[t] - x \in Nat
    <3>1. PICK z \in Nat : z = c[t]
      BY <2>3
    <3>2. x <= z
      BY <2>3, <3>1
    <3>3. z - x = z + y /\ z - x \in Nat
      BY <2>2, <3>2
    <3> QED BY <3>1, <3>3
  <2>5. b = [c EXCEPT ![t] = @ + y] /\ c \in [Accounts -> Int]
    <3>1. b = [c EXCEPT ![t] = @ + y]
      BY <2>3, <2>4
    <3>2. c \in [Accounts -> Int]
      BY <2>1
    <3> QED BY <3>1, <3>2
  <2>6. b \in [Accounts -> Nat] /\ b[Escrow] = c[Escrow]
    BY <2>2, <2>3, <2>4, AccountFacts
  <2>7. Money([c EXCEPT ![t] = @ + y]) = Money(c) + y
    BY <2>5, CreditedMoney
  <2> QED BY <1>5, <2>1, <2>2, <2>5, <2>6, <2>7
<1>9. PICK r : r = Ledger'
  OBVIOUS
<1>10. /\ r \in Ledgers /\ ~ r.failed /\ r.params = l.params /\ r.schedules = l.schedules
       /\ r.volume = l.volume /\ r.proposals = l.proposals /\ r.balances = balances'
  <2>1. r = [balances |-> balances', params |-> params', proposals |-> proposals',
             schedules |-> schedules', volume |-> volume', failed |-> FALSE]
    BY <1>9 DEF Ledger
  <2> QED BY <1>5, <1>7, <1>8, <2>1 DEF Ledgers
<1>11. Sound(r, height)
  <2>1. r.balances[Escrow] >= l.balances[Escrow]
    BY <1>5, <1>8, <1>10
  <2>2. \A i \in DOMAIN r.proposals : Proper(r.proposals[i], height)
    BY <1>4, <1>10 DEF Sound
  <2>3. ApprovedIn(r.proposals) = ApprovedIn(l.proposals)
    BY <1>10
  <2>4. \A j \in DOMAIN l.proposals : l.proposals[j].status = "passed" =>
           \E k \in DOMAIN r.proposals : /\ r.proposals[k].status = "passed"
                                         /\ r.proposals[k].changes = l.proposals[j].changes
    BY <1>10
  <2> QED BY <1>4, <1>10, <2>1, <2>2, <2>3, <2>4, StaysSound
<1>12. Total(r) = Total(Ledger) - x /\ Total(Ledger) \in Int
  BY <1>4, <1>5, <1>8, <1>10 DEF Total
<1>13. /\ height' = height + 1 /\ stake' = stake /\ overwritten' = overwritten
       /\ transactions' = transactions /\ height' - 1 = height
  BY <1>1 DEF CloseBlock
<1>14. Accounted'
  <2>1. overwritten \in Nat /\ rewards \in Nat /\ Accounted
    BY DEF IndInv
  <2>2. Total(r) + overwritten' + rewards' = Money(InitialBalance)
    BY <1>7, <1>12, <1>13, <2>1 DEF Accounted
  <2> QED BY <1>9, <2>2 DEF Accounted
<1>15. Sound(Ledger', height' - 1)
  BY <1>9, <1>11, <1>13
<1>16. rewards' \in Nat
  BY <1>7 DEF IndInv
<1> QED BY <1>1, <1>13, <1>14, <1>15, <1>16 DEF IndInv

\* A transaction leaves parameters, schedules and volume alone.
LEMMA TransactionStep ==
  ASSUME IndInv, UNCHANGED <<params, schedules, volume, rewards, height>>,
         stake' \in [Wallets -> Nat], transactions' \in Nat, overwritten' \in Nat,
         balances' \in [Accounts -> Nat], proposals' \in Seq(Proposals),
         balances'[Escrow] >= balances[Escrow],
         ApprovedIn(proposals') = ApprovedIn(proposals),
         Money(balances') + HeldIn(proposals') + overwritten' =
           Money(balances) + HeldIn(proposals) + overwritten,
         \A i \in DOMAIN proposals' : Proper(proposals'[i], height - 1),
         \A j \in DOMAIN proposals : proposals[j].status = "passed" =>
           \E k \in DOMAIN proposals' : /\ proposals'[k].status = "passed"
                                        /\ proposals'[k].changes = proposals[j].changes
  PROVE  IndInv'
<1>1. Sound(Ledger, height - 1) /\ Accounted /\ height \in Nat \ {0}
      /\ rewards \in Nat /\ overwritten \in Nat
  BY DEF IndInv
<1>2. /\ params \in Params /\ schedules \in Seq(Schedules) /\ volume \in Nat
      /\ Money(balances) \in Int /\ HeldIn(proposals) \in Nat
      /\ Ledger.balances = balances /\ Ledger.params = params
      /\ Ledger.proposals = proposals /\ Ledger.schedules = schedules
      /\ Ledger.volume = volume
  BY <1>1, LedgerIs
<1>3. PICK l, r : l = Ledger /\ r = Ledger'
  OBVIOUS
<1>4. /\ r \in Ledgers /\ ~ r.failed /\ r.params = l.params /\ r.schedules = l.schedules
      /\ r.volume = l.volume /\ r.proposals = proposals' /\ r.balances = balances'
  <2>1. r = [balances |-> balances', params |-> params, proposals |-> proposals',
             schedules |-> schedules, volume |-> volume, failed |-> FALSE]
    BY <1>3 DEF Ledger
  <2> QED BY <1>2, <1>3, <2>1 DEF Ledgers
<1>5. l.proposals = proposals /\ l.balances = balances
  BY <1>2, <1>3
<1>6. Sound(r, height - 1)
  <2>1. Sound(l, height - 1) /\ r.balances[Escrow] >= l.balances[Escrow]
    BY <1>1, <1>3, <1>4, <1>5
  <2>2. ApprovedIn(r.proposals) = ApprovedIn(l.proposals)
    BY <1>4, <1>5
  <2>3. \A i \in DOMAIN r.proposals : Proper(r.proposals[i], height - 1)
    BY <1>4
  <2>4. \A j \in DOMAIN l.proposals : l.proposals[j].status = "passed" =>
           \E k \in DOMAIN r.proposals : /\ r.proposals[k].status = "passed"
                                         /\ r.proposals[k].changes = l.proposals[j].changes
    BY <1>4, <1>5
  <2> QED BY <1>4, <2>1, <2>2, <2>3, <2>4, StaysSound
<1>7. Accounted'
  <2>1. Money(balances) + HeldIn(proposals) + overwritten + rewards = Money(InitialBalance)
    BY <1>1, <1>3, <1>5 DEF Accounted, Total
  <2>2. Money(balances') \in Int
    <3>1. PICK b \in [Accounts -> Nat] : b = balances'
      OBVIOUS
    <3>2. b \in [Accounts -> Int] /\ 0 \in Int
      OBVIOUS
    <3>3. Money(b) \in Int
      BY <3>2, AccountFacts, CreditedMoney
    <3> QED BY <3>1, <3>3
  <2>3. HeldIn(proposals') \in Nat
    <3>1. PICK ps \in Seq(Proposals) : ps = proposals'
      OBVIOUS
    <3>2. HeldIn(ps) \in Nat
      BY ProposalSums
    <3> QED BY <3>1, <3>2
  <2>4. Money(balances') + HeldIn(proposals') + overwritten' + rewards = Money(InitialBalance)
    BY <1>1, <1>2, <2>1, <2>2, <2>3
  <2>5. Total(r) + overwritten' + rewards' = Money(InitialBalance)
    BY <1>4, <2>4 DEF Total
  <2> QED BY <1>3, <2>5 DEF Accounted
<1>8. Sound(Ledger', height' - 1)
  BY <1>3, <1>6
<1>9. height' \in Nat \ {0} /\ rewards' \in Nat
  BY <1>1
<1> QED BY <1>7, <1>8, <1>9 DEF IndInv

LEMMA StepVote ==
  ASSUME IndInv, NEW sender \in Wallets, NEW i \in DOMAIN proposals, NEW choice \in Choices,
         Vote(sender, i, choice), UNCHANGED height, transactions' \in Nat
  PROVE  IndInv'
<1>1. /\ Sound(Ledger, height - 1) /\ stake \in [Wallets -> Nat] /\ overwritten \in Nat
  BY DEF IndInv
<1>2. /\ balances \in [Accounts -> Nat] /\ balances[Escrow] \in Nat
      /\ proposals \in Seq(Proposals)
      /\ Money(balances) \in Int /\ HeldIn(proposals) \in Nat /\ ApprovedIn(proposals) \in Nat
      /\ \A k \in DOMAIN proposals : Proper(proposals[k], height - 1)
  BY <1>1, LedgerIs
<1>3. PICK p \in Proposals : p = proposals[i]
  BY <1>2
<1>4. PICK q : q = [p EXCEPT !.ballots[sender] = [choice |-> choice, weight |-> stake[sender]],
                             !.votes[choice] = @ + stake[sender]]
  OBVIOUS
<1>5. /\ q \in Proposals /\ q.status = p.status /\ q.deposit = p.deposit
      /\ q.changes = p.changes /\ q.grants = p.grants
      /\ q.startHeight = p.startHeight /\ q.endHeight = p.endHeight
  <2>1. PICK x \in Nat : x = stake[sender]
    BY <1>1
  <2>2. PICK b : b = [p.ballots EXCEPT ![sender] = [choice |-> choice, weight |-> x]]
    OBVIOUS
  <2>3. PICK v : v = [p.votes EXCEPT ![choice] = @ + x]
    OBVIOUS
  <2>4. /\ p.ballots \in [Wallets -> [choice : Choices \cup {"none"}, weight : Nat]]
        /\ p.votes \in [Choices -> Nat]
    BY DEF Proposals
  <2>5. b \in [Wallets -> [choice : Choices \cup {"none"}, weight : Nat]]
    BY <2>2, <2>4
  <2>6. v \in [Choices -> Nat]
    BY <2>3, <2>4
  <2>7. q = [p EXCEPT !.ballots = b, !.votes = v]
    BY <1>4, <2>1, <2>2, <2>3
  <2> QED BY <2>5, <2>6, <2>7 DEF Proposals
<1>6. HeldFor(q) = HeldFor(p) /\ Approved(q) = Approved(p)
  BY <1>5 DEF HeldFor, Approved
<1>7. PICK ps : ps = [proposals EXCEPT ![i] = q]
  OBVIOUS
<1>8. proposals' = ps
  BY <1>3, <1>4, <1>7 DEF Vote
<1>9. /\ ps \in Seq(Proposals) /\ DOMAIN ps = DOMAIN proposals
      /\ \A k \in DOMAIN ps : ps[k] = IF k = i THEN q ELSE proposals[k]
      /\ HeldIn(ps) = HeldIn(proposals) + (HeldFor(q) - HeldFor(p))
      /\ ApprovedIn(ps) = ApprovedIn(proposals) + (Approved(q) - Approved(p))
  BY <1>2, <1>3, <1>5, <1>7, ReplacedProposal
<1>10. HeldIn(ps) = HeldIn(proposals) /\ ApprovedIn(ps) = ApprovedIn(proposals)
  <2>1. HeldFor(q) - HeldFor(p) = 0 /\ Approved(q) - Approved(p) = 0
    BY <1>5, <1>6, ProposalFields
  <2> QED BY <1>2, <1>9, <2>1
<1>11. \A k \in DOMAIN ps : Proper(ps[k], height - 1)
  <2> TAKE k \in DOMAIN ps
  <2>1. Proper(p, height - 1) /\ Proper(proposals[k], height - 1)
    BY <1>2, <1>3, <1>9
  <2>2. Proper(q, height - 1)
    BY <1>5, <2>1 DEF Proper
  <2> QED BY <1>9, <2>1, <2>2
<1>12. ASSUME NEW j \in DOMAIN proposals, proposals[j].status = "passed"
       PROVE  /\ ps[j].status = "passed" /\ ps[j].changes = proposals[j].changes
              /\ j \in DOMAIN ps
  BY <1>3, <1>5, <1>9, <1>12
<1>13. UNCHANGED <<params, schedules, volume, rewards, height, stake, balances, overwritten>>
  BY DEF Vote
<1> QED BY <1>1, <1>2, <1>8, <1>9, <1>10, <1>11, <1>12, <1>13, TransactionStep

LEMMA StepPay ==
  ASSUME IndInv, NEW sender \in Wallets, NEW recipient \in Accounts, NEW amount \in Amounts,
         Pay(sender, recipient, amount), UNCHANGED height, transactions' \in Nat
  PROVE  IndInv'
<1>1. /\ Sound(Ledger, height - 1) /\ stake \in [Wallets -> Nat] /\ overwritten \in Nat
  BY DEF IndInv
<1>2. /\ balances \in [Accounts -> Nat] /\ balances[Escrow] \in Nat
      /\ proposals \in Seq(Proposals)
      /\ \A k \in DOMAIN proposals : Proper(proposals[k], height - 1)
  BY <1>1, LedgerIs
<1>3. /\ sender \in Accounts \ {Escrow} /\ Escrow \in Accounts /\ amount \in Nat
      /\ amount <= balances[sender] /\ balances[sender] \in Nat
  BY <1>2, AccountFacts, GovernanceAssumption DEF Pay
<1>4. /\ balances' = Moved(balances, sender, recipient, amount)
      /\ UNCHANGED <<params, schedules, volume, rewards, height, stake, proposals, overwritten>>
  BY DEF Pay
<1>5. PICK b : b = Moved(balances, sender, recipient, amount)
  OBVIOUS
<1>6. /\ b \in [Accounts -> Nat] /\ Money(b) = Money(balances)
      /\ \A a \in Accounts \ {sender} : b[a] >= balances[a]
  <2>1. PICK d \in [Accounts -> Nat], from \in Accounts, x \in Nat :
          d = balances /\ from = sender /\ x = amount
    BY <1>2, <1>3
  <2>2. x <= d[from] /\ b = Moved(d, from, recipient, x)
    BY <1>3, <1>5, <2>1
  <2>3. /\ Moved(d, from, recipient, x) \in [Accounts -> Nat]
        /\ Money(Moved(d, from, recipient, x)) = Money(d)
        /\ \A a \in Accounts \ {from} : Moved(d, from, recipient, x)[a] >= d[a]
    BY <2>2, MovedMoney
  <2> QED BY <2>1, <2>2, <2>3
<1>7. b[Escrow] >= balances[Escrow]
  BY <1>3, <1>6
<1> QED BY <1>1, <1>2, <1>4, <1>5, <1>6, <1>7, TransactionStep

LEMMA StepMoveStake ==
  ASSUME IndInv, NEW a \in Wallets, MoveStake(a), UNCHANGED height, transactions' \in Nat
  PROVE  IndInv'
<1>1. /\ Sound(Ledger, height - 1) /\ stake \in [Wallets -> Nat] /\ overwritten \in Nat
  BY DEF IndInv
<1>2. /\ balances \in [Accounts -> Nat] /\ balances[Escrow] \in Nat
      /\ proposals \in Seq(Proposals)
      /\ \A k \in DOMAIN proposals : Proper(proposals[k], height - 1)
  BY <1>1, LedgerIs
<1>3. UNCHANGED <<params, schedules, volume, rewards, height, balances, proposals, overwritten>>
  BY DEF MoveStake
<1>4. stake' \in [Wallets -> Nat]
  BY <1>1, AccountFacts DEF MoveStake
<1>5. balances[Escrow] >= balances[Escrow]
  BY <1>2
<1> QED BY <1>1, <1>2, <1>3, <1>4, <1>5, TransactionStep

LEMMA Created ==
  ASSUME height \in Nat \ {0}, params \in Params, NEW sender \in Wallets,
         NEW payload \in Payloads,
         WithinSchema(payload.changes), TreasuryFunded(payload.grants),
         NEW p, p = NewProposal(sender, payload)
  PROVE  /\ p \in Proposals /\ p.status = "active" /\ p.startHeight = height + 1
         /\ Proper(p, height - 1)
         /\ HeldFor(p) = params.proposalDeposit /\ Approved(p) = 0
         /\ params.proposalDeposit \in Nat
<1>1. params.proposalDeposit \in Nat /\ params.governanceVotingWindow \in Nat \ {0}
  BY DEF Params
<1>2. [w \in Wallets |-> NoBallot] \in [Wallets -> [choice : Choices \cup {"none"}, weight : Nat]]
  BY DEF NoBallot
<1>3. [c \in Choices |-> 0] \in [Choices -> Nat]
  OBVIOUS
<1>4. PICK b, v : b = [w \in Wallets |-> NoBallot] /\ v = [c \in Choices |-> 0]
  OBVIOUS
<1>5. PICK d \in Nat, x \in Nat : /\ d = params.proposalDeposit
                                  /\ x = height + params.governanceVotingWindow
                                  /\ height + 1 <= x
  BY <1>1
<1>6. p = [proposer |-> sender, title |-> payload.title, startHeight |-> height + 1,
           endHeight |-> x, deposit |-> d, changes |-> payload.changes,
           grants |-> payload.grants, ballots |-> b, votes |-> v, status |-> "active"]
  BY <1>4, <1>5 DEF NewProposal
<1>7. height + 1 \in Nat
  OBVIOUS
<1>8. p \in Proposals
  BY <1>2, <1>3, <1>4, <1>6, <1>7 DEF Proposals
<1>9. /\ p.status = "active" /\ p.startHeight = height + 1 /\ p.endHeight = x
      /\ p.deposit = d /\ p.changes = payload.changes /\ p.grants = payload.grants
  BY <1>6
<1>10. HeldFor(p) = d /\ Approved(p) = 0
  BY <1>9 DEF HeldFor, Approved
<1>11. Proper(p, height - 1)
  BY <1>5, <1>9 DEF Proper
<1> QED BY <1>5, <1>8, <1>9, <1>10, <1>11

Debit(b, a, x) == [b EXCEPT ![a] = @ - x]

LEMMA Debited ==
  ASSUME NEW b \in [Accounts -> Nat], NEW a \in Accounts \ {Escrow}, NEW x \in Nat, x <= b[a],
         NEW c, c = Debit(b, a, x)
  PROVE  /\ c \in [Accounts -> Nat] /\ Money(c) = Money(b) - x /\ Money(b) \in Int
         /\ c[Escrow] = b[Escrow]
<1>1. PICK y \in Int : y = - x
  OBVIOUS
<1>2. PICK z \in Nat : z = b[a]
  OBVIOUS
<1>3. z - x = z + y /\ z - x \in Nat
  BY <1>1, <1>2
<1>4. c = [b EXCEPT ![a] = z - x]
  BY <1>2 DEF Debit
<1>5. c \in [Accounts -> Nat] /\ c[Escrow] = b[Escrow]
  BY <1>3, <1>4, AccountFacts
<1>6. c = [b EXCEPT ![a] = @ + y]
  BY <1>2, <1>3, <1>4
<1>7. b \in [Accounts -> Int]
  OBVIOUS
<1>8. Money([b EXCEPT ![a] = @ + y]) = Money(b) + y /\ Money(b) \in Int
  BY <1>7, CreditedMoney
<1> QED BY <1>1, <1>5, <1>6, <1>8

LEMMA StepCreateProposal ==
  ASSUME IndInv, NEW sender \in Wallets, NEW payload \in Payloads,
         CreateProposal(sender, payload), UNCHANGED height, transactions' \in Nat
  PROVE  IndInv'
<1>1. /\ Sound(Ledger, height - 1) /\ stake \in [Wallets -> Nat] /\ overwritten \in Nat
      /\ height \in Nat \ {0}
  BY DEF IndInv
<1>2. /\ balances \in [Accounts -> Nat] /\ balances[Escrow] \in Nat
      /\ proposals \in Seq(Proposals) /\ params \in Params
      /\ Money(balances) \in Int /\ HeldIn(proposals) \in Nat /\ ApprovedIn(proposals) \in Nat
      /\ \A k \in DOMAIN proposals : Proper(proposals[k], height - 1)
  BY <1>1, LedgerIs
<1>3. PICK p : p = NewProposal(sender, payload)
  OBVIOUS
<1>4. /\ p \in Proposals /\ p.status = "active" /\ p.startHeight = height + 1
      /\ Proper(p, height - 1)
      /\ HeldFor(p) = params.proposalDeposit /\ Approved(p) = 0
      /\ params.proposalDeposit \in Nat
  <2>1. WithinSchema(payload.changes) /\ TreasuryFunded(payload.grants)
    BY DEF CreateProposal
  <2> QED BY <1>1, <1>2, <1>3, <2>1, Created
<1>5. PICK x \in Nat : x = params.proposalDeposit
  BY <1>4
<1>6. /\ x <= balances[sender] /\ balances' = [balances EXCEPT ![sender] = @ - x]
      /\ UNCHANGED <<stake, params, schedules, volume, rewards, height>>
  <2>1. balances[sender] >= x
    BY <1>5 DEF CreateProposal
  <2>2. balances[sender] \in Nat
    BY <1>2, AccountFacts
  <2> QED BY <1>5, <2>1, <2>2 DEF CreateProposal
<1>7. /\ balances' \in [Accounts -> Nat] /\ Money(balances') = Money(balances) - x
      /\ balances'[Escrow] >= balances[Escrow]
  <2>1. PICK b \in [Accounts -> Nat], a \in Accounts \ {Escrow} : b = balances /\ a = sender
    BY <1>2, AccountFacts
  <2>0. PICK c : c = balances'
    OBVIOUS
  <2>2. x <= b[a] /\ c = Debit(b, a, x)
    BY <1>6, <2>1, <2>0 DEF Debit
  <2>3. c \in [Accounts -> Nat] /\ Money(c) = Money(b) - x /\ c[Escrow] = b[Escrow]
    BY <2>2, Debited
  <2>4. balances'[Escrow] = balances[Escrow]
    BY <2>0, <2>1, <2>3
  <2>5. balances'[Escrow] >= balances[Escrow]
    BY <1>2, <2>4
  <2> QED BY <2>0, <2>1, <2>3, <2>5
<1>8. CASE proposals' = Append(proposals, p) /\ UNCHANGED overwritten
  <2>1. PICK ps, n : ps = Append(proposals, p) /\ n = Len(proposals)
    OBVIOUS
  <2>2. /\ ps \in Seq(Proposals) /\ HeldIn(ps) = HeldIn(proposals) + x
        /\ ApprovedIn(ps) = ApprovedIn(proposals) + 0
    BY <1>2, <1>4, <1>5, <2>1, AppendedProposal
  <2>3. ApprovedIn(ps) = ApprovedIn(proposals)
    BY <1>2, <2>2
  <2>4. /\ n \in Nat /\ DOMAIN ps = 1 .. (n + 1) /\ DOMAIN proposals = 1 .. n
        /\ \A k \in 1 .. n : ps[k] = proposals[k]
        /\ ps[n + 1] = p
    BY <1>2, <1>4, <2>1, AppendProperties
  <2>5. \A k \in DOMAIN ps : Proper(ps[k], height - 1)
    BY <1>2, <1>4, <2>4
  <2>6. \A j \in DOMAIN proposals : j \in DOMAIN ps /\ ps[j] = proposals[j]
    BY <2>4
  <2>7. Money(balances') + HeldIn(ps) + overwritten = Money(balances) + HeldIn(proposals) + overwritten
    BY <1>1, <1>2, <1>7, <2>2
  <2> QED BY <1>1, <1>6, <1>7, <1>8, <2>1, <2>2, <2>3, <2>5, <2>6, <2>7, TransactionStep
<1>9. CASE \E i \in DOMAIN proposals :
             /\ SameId(proposals[i], p)
             /\ proposals' = [proposals EXCEPT ![i] = p]
             /\ overwritten' = overwritten + proposals[i].deposit
  <2>1. PICK i \in DOMAIN proposals :
             /\ SameId(proposals[i], p)
             /\ proposals' = [proposals EXCEPT ![i] = p]
             /\ overwritten' = overwritten + proposals[i].deposit
    BY <1>9
  <2>2. PICK q \in Proposals : q = proposals[i]
    BY <1>2
  <2>3. PICK ps : ps = [proposals EXCEPT ![i] = p]
    OBVIOUS
  <2>4. /\ ps \in Seq(Proposals) /\ DOMAIN ps = DOMAIN proposals
        /\ \A k \in DOMAIN ps : ps[k] = IF k = i THEN p ELSE proposals[k]
        /\ HeldIn(ps) = HeldIn(proposals) + (HeldFor(p) - HeldFor(q))
        /\ ApprovedIn(ps) = ApprovedIn(proposals) + (Approved(p) - Approved(q))
    BY <1>2, <1>4, <2>2, <2>3, ReplacedProposal
  <2>5. q.startHeight \in Nat /\ q.endHeight \in Nat /\ q.deposit \in Nat
    BY <2>2, ProposalFields
  <2>6. q.status = "active"
    <3>1. q.startHeight = height + 1
      BY <1>4, <2>1, <2>2 DEF SameId
    <3>2. q.startHeight <= q.endHeight /\ (q.status # "active" => q.endHeight <= height - 1)
      BY <1>2, <2>2 DEF Proper
    <3> QED BY <1>1, <2>5, <3>1, <3>2
  <2>7. HeldFor(q) = q.deposit /\ Approved(q) = 0
    BY <2>6 DEF HeldFor, Approved
  <2>8. ApprovedIn(ps) = ApprovedIn(proposals)
    BY <1>2, <1>4, <2>4, <2>7
  <2>9. /\ overwritten' \in Nat
        /\ Money(balances') + HeldIn(ps) + overwritten' =
             Money(balances) + HeldIn(proposals) + overwritten
    <3>1. PICK d \in Nat : d = q.deposit
      BY <2>5
    <3>2. overwritten' = overwritten + d /\ HeldIn(ps) = HeldIn(proposals) + (x - d)
      BY <1>4, <1>5, <2>1, <2>2, <2>4, <2>7, <3>1
    <3> QED BY <1>1, <1>2, <1>7, <3>2
  <2>10. \A k \in DOMAIN ps : Proper(ps[k], height - 1)
    BY <1>2, <1>4, <2>4
  <2>11. ASSUME NEW j \in DOMAIN proposals, proposals[j].status = "passed"
         PROVE  j \in DOMAIN ps /\ ps[j] = proposals[j]
    BY <2>2, <2>4, <2>6, <2>11
  <2> QED BY <1>1, <1>6, <1>7, <2>1, <2>3, <2>4, <2>8, <2>9, <2>10, <2>11, TransactionStep
<1> QED BY <1>3, <1>8, <1>9 DEF CreateProposal

LEMMA NextStep ==
  ASSUME IndInv, [Next]_vars
  PROVE  IndInv'
<1>1. CASE Transaction
  <2>1. transactions' = transactions + 1 /\ UNCHANGED height
    BY <1>1 DEF Transaction
  <2>2. transactions' \in Nat
    BY <2>1 DEF IndInv
  <2>3. ASSUME NEW sender \in Wallets, NEW payload \in Payloads, CreateProposal(sender, payload)
        PROVE  IndInv'
    BY <2>1, <2>2, <2>3, StepCreateProposal
  <2>4. ASSUME NEW sender \in Wallets, NEW i \in DOMAIN proposals, NEW choice \in Choices,
               Vote(sender, i, choice)
        PROVE  IndInv'
    BY <2>1, <2>2, <2>4, StepVote
  <2>5. ASSUME NEW sender \in Wallets, NEW recipient \in Accounts, NEW amount \in Amounts,
               Pay(sender, recipient, amount)
        PROVE  IndInv'
    BY <2>1, <2>2, <2>5, StepPay
  <2>6. ASSUME NEW sender \in Wallets, MoveStake(sender)
        PROVE  IndInv'
    BY <2>1, <2>2, <2>6, StepMoveStake
  <2> QED BY <1>1, <2>3, <2>4, <2>5, <2>6 DEF Transaction
<1>2. CASE CloseBlock
  BY <1>2, StepCloseBlock
<1>3. CASE UNCHANGED vars
  BY <1>3 DEF vars, IndInv, Accounted, Ledger
<1> QED BY <1>1, <1>2, <1>3 DEF Next

THEOREM GovernanceInvariant == Spec => []IndInv
<1>1. Init => IndInv
  BY Initially
<1>2. IndInv /\ [Next]_vars => IndInv'
  BY NextStep
<1> QED BY <1>1, <1>2, PTL DEF Spec

-----------------------------------------------------------------------------
LEMMA SumsNamed ==
  /\ Held = HeldIn(proposals) /\ Outstanding = RemainingIn(schedules)
<1>1. Held = HeldIn(proposals)
  BY DEF Held, HeldIn, HeldFor
<1>2. Outstanding = RemainingIn(schedules)
  BY DEF Outstanding, RemainingIn, Remaining
<1> QED BY <1>1, <1>2

\* Every debit of an end of block is covered, and the state keeps its types.
THEOREM GovernanceTypes == Spec => []TypeOK
<1>1. IndInv => TypeOK
  <2> SUFFICES ASSUME IndInv PROVE TypeOK
    OBVIOUS
  <2>1. Sound(Ledger, height - 1)
    BY DEF IndInv
  <2>2. /\ balances \in [Accounts -> Nat] /\ params \in Params /\ proposals \in Seq(Proposals)
        /\ schedules \in Seq(Schedules) /\ volume \in Nat
    BY <2>1, LedgerIs
  <2> QED BY <2>2 DEF IndInv, TypeOK
<1> QED BY <1>1, GovernanceInvariant, PTL

\* Every token is on an account, held for an active proposal, overwritten or
\* paid as a reward.
THEOREM GovernanceSupply == Spec => []SupplyAccounted
<1>1. IndInv => SupplyAccounted
  <2> SUFFICES ASSUME IndInv PROVE SupplyAccounted
    OBVIOUS
  <2>1. Sound(Ledger, height - 1) /\ Accounted
    BY DEF IndInv
  <2>2. Ledger.balances = balances /\ Ledger.proposals = proposals
    BY DEF Ledger
  <2>3. Money(balances) + HeldIn(proposals) + overwritten + rewards = Money(InitialBalance)
    BY <2>1, <2>2 DEF Accounted, Total
  <2> QED BY <2>3, SumsNamed DEF SupplyAccounted, Money
<1> QED BY <1>1, GovernanceInvariant, PTL

\* Only passed proposals take effect, and each of them in full.
THEOREM GovernanceApproval == Spec => []OnlyApprovedTakesEffect
<1>1. IndInv => OnlyApprovedTakesEffect
  <2> SUFFICES ASSUME IndInv PROVE OnlyApprovedTakesEffect
    OBVIOUS
  <2>1. Sound(Ledger, height - 1)
    BY DEF IndInv
  <2>2. /\ Ledger.params = params /\ Ledger.proposals = proposals
        /\ Ledger.schedules = schedules /\ Ledger.volume = volume
    BY DEF Ledger
  <2>3. volume + RemainingIn(schedules) = ApprovedIn(proposals) /\ ParamsApproved(params, proposals)
    BY <2>1, <2>2 DEF Sound
  <2>4. volume + Outstanding =
          SumTo([i \in DOMAIN proposals |-> Approved(proposals[i])], Len(proposals))
    BY <2>3, SumsNamed DEF ApprovedIn
  <2> QED BY <2>3, <2>4 DEF OnlyApprovedTakesEffect, ParamsApproved, Approves
<1> QED BY <1>1, GovernanceInvariant, PTL

\* Grants vest along their line, and the escrow covers what is left of them.
THEOREM GovernanceVesting == Spec => []VestsOnSchedule
<1>1. IndInv => VestsOnSchedule
  <2> SUFFICES ASSUME IndInv PROVE VestsOnSchedule
    OBVIOUS
  <2>1. Sound(Ledger, height - 1) /\ height \in Nat \ {0}
    BY DEF IndInv
  <2>2. /\ Ledger.balances = balances /\ Ledger.schedules = schedules
    BY DEF Ledger
  <2>3. RemainingIn(schedules) <= balances[Escrow] /\ AllOnLine(schedules, height - 1)
    BY <2>1, <2>2 DEF Sound
  <2>4. /\ schedules \in Seq(Schedules) /\ balances[Escrow] \in Nat
        /\ RemainingIn(schedules) \in Int
    <3>1. schedules \in Seq(Schedules) /\ balances[Escrow] \in Nat
      BY <2>1, LedgerIs
    <3> QED BY <3>1, ScheduleSums
  <2>5. ASSUME NEW k \in DOMAIN schedules, NEW s, s = schedules[k]
        PROVE  /\ height - 1 < s.endHeight
               /\ s.released * s.vestingBlocks <= s.amount * Vesting(s, height - 1)
               /\ s.amount * Vesting(s, height - 1) < (s.released + 1) * s.vestingBlocks
    <3>1. s \in Schedules /\ s.endHeight \in Nat
      <4>1. schedules[k] \in Schedules
        BY <2>4
      <4> QED BY <2>5, <4>1 DEF Schedules
    <3>2. OnLine(s, height - 1)
      BY <2>3, <2>5 DEF AllOnLine
    <3>3. height - 1 < s.endHeight /\ s.released = Share(s, height - 1)
      BY <3>2 DEF OnLine
    <3>4. PICK h \in Int : h = height - 1 /\ h <= s.endHeight
      BY <2>1, <3>1, <3>3
    <3>5. /\ Share(s, h) * s.vestingBlocks <= s.amount * Vesting(s, h)
          /\ s.amount * Vesting(s, h) < (Share(s, h) + 1) * s.vestingBlocks
      BY <3>1, <3>4, ShareBounds
    <3> QED BY <3>3, <3>4, <3>5
  <2>6. balances[Escrow] >= Outstanding
    BY <2>3, <2>4, SumsNamed
  <2> QED BY <2>5, <2>6 DEF VestsOnSchedule, Vesting
<1> QED BY <1>1, GovernanceInvariant, PTL
=============================================================================
