----------------------------- MODULE Governance -----------------------------
(***************************************************************************)
(* Proposals, votes and the treasury: deposits held while a proposal is    *)
(* active, ballots that weigh the voter's stake, and at the end of a block *)
(* the finalization of proposals, one after the other over the same        *)
(* accounts, and the release of vesting grants.                            *)
(*                                                                         *)
(* A transaction that throws leaves the state alone, hence an action is    *)
(* one that succeeds.  Finalization has no draft: what it did before an    *)
(* error stays done.  Stakes are moved by Staking's transactions, here in  *)
(* any way at all; fees are Staking's matter.  A proposal's id is a hash   *)
(* of proposer, title and height, here these three.                        *)
(***************************************************************************)
EXTENDS AmountMath, Sequences

CONSTANTS
  NumAccounts,      \* accounts are 1 .. NumAccounts
  Treasury,         \* state.treasury
  Escrow,           \* state.treasuryVestingEscrow
  Sources,          \* accounts of TREASURY_SOURCE_TYPES
  Wallets,          \* accounts that own a key
  InitialBalance,   \* account -> balance at genesis
  InitialStake,     \* wallet -> stake at first
  Stakes,           \* stakes that a wallet may have
  ActiveStakes,     \* what getTotalActiveStake may be at the end of a block
  InitialParams,    \* the parameters at genesis
  BlockReward,
  Payloads,         \* what proposals carry: [title, changes, grants]
  Amounts,          \* amounts of payments
  MaxTransactions,  \* bound: transactions
  LastTxHeight,     \* bound: last block with transactions
  MaxHeight         \* bound: last block

Accounts == 1 .. NumAccounts

\* The parameters that governance itself depends on, quorumRate in percent.
Params == [proposalDeposit : Nat, governanceVotingWindow : Nat \ {0}, quorumPercent : 0 .. 100]
ParamNames == {"proposalDeposit", "governanceVotingWindow", "quorumPercent"}

Grants == [source : Accounts, recipient : Accounts, amount : Nat \ {0},
           cliffBlocks : Nat, vestingBlocks : Nat]

ASSUME GovernanceAssumption ==
  /\ NumAccounts \in Nat
  /\ Escrow \in Accounts /\ Treasury \in Accounts \ {Escrow}
  /\ Sources \subseteq Accounts \ {Escrow}
  /\ Wallets \subseteq Accounts \ (Sources \cup {Escrow, Treasury})
  /\ InitialBalance \in [Accounts -> Nat]
  /\ InitialBalance[Escrow] = 0
  /\ InitialStake \in [Wallets -> Stakes]
  /\ Stakes \cup ActiveStakes \subseteq Nat
  /\ InitialParams \in Params
  /\ Amounts \subseteq Nat \ {0}
  /\ {BlockReward, MaxTransactions, LastTxHeight, MaxHeight} \subseteq Nat
  /\ \A payload \in Payloads :
       /\ payload.grants \in Seq(Grants)
       /\ DOMAIN payload.changes \subseteq ParamNames

VARIABLES
  balances,      \* account -> balance
  stake,         \* wallet -> getAccountStakedAmount
  params,        \* state.params
  proposals,     \* state.proposals, in the order of insertion
  schedules,     \* state.pendingTreasuryGrants
  volume,        \* metrics.treasuryGrantVolume: paid out of grants so far
  rewards,       \* paid out of the treasury as block rewards
  overwritten,   \* history: deposits of proposals that another one replaced
  height,        \* the block under construction
  transactions   \* transactions so far

vars == <<balances, stake, params, proposals, schedules, volume, rewards,
          overwritten, height, transactions>>

Choices == {"for", "against", "abstain"}
NoBallot == [choice |-> "none", weight |-> 0]

Init ==
  /\ balances = InitialBalance
  /\ stake = InitialStake
  /\ params = InitialParams
  /\ proposals = <<>>
  /\ schedules = <<>>
  /\ volume = 0
  /\ rewards = 0
  /\ overwritten = 0
  /\ height = 1
  /\ transactions = 0

-----------------------------------------------------------------------------
(***************************************************************************)
(* Transactions.                                                           *)
(***************************************************************************)
\* Mutant of WithinSchema: the names are checked only.
WithinAnySchema(changes) == DOMAIN changes \subseteq ParamNames

\* normalizeProtocolParameterChange, for every change.
WithinSchema(changes) ==
  \A name \in DOMAIN changes :
    changes[name] \in CASE name = "proposalDeposit" -> Nat
                        [] name = "governanceVotingWindow" -> Nat \ {0}
                        [] name = "quorumPercent" -> 0 .. 100

\* normalizeGrant, for every grant.
TreasuryFunded(grants) ==
  \A k \in DOMAIN grants :
    /\ grants[k].source \in Sources
    /\ grants[k].vestingBlocks = 0 => grants[k].cliffBlocks = 0

NewProposal(proposer, payload) ==
  [proposer |-> proposer, title |-> payload.title,
   startHeight |-> height + 1, endHeight |-> height + params.governanceVotingWindow,
   deposit |-> params.proposalDeposit, changes |-> payload.changes, grants |-> payload.grants,
   ballots |-> [w \in Wallets |-> NoBallot], votes |-> [c \in Choices |-> 0],
   status |-> "active"]

SameId(p, q) ==
  p.proposer = q.proposer /\ p.title = q.title /\ p.startHeight = q.startHeight

\* createProposal.  An informational proposal may carry anything, so that the
\* category restricts nothing.  A second proposal with the id of another takes
\* its place.
CreateProposal(sender, payload) ==
  LET proposal == NewProposal(sender, payload)
      replaced == {i \in DOMAIN proposals : SameId(proposals[i], proposal)}
  IN  /\ stake[sender] > 0
      /\ balances[sender] >= params.proposalDeposit
      /\ WithinSchema(payload.changes) /\ TreasuryFunded(payload.grants)
      /\ balances' = [balances EXCEPT ![sender] = @ - params.proposalDeposit]
      /\ IF replaced = {}
           THEN proposals' = Append(proposals, proposal) /\ UNCHANGED overwritten
           ELSE \E i \in replaced :
                  /\ proposals' = [proposals EXCEPT ![i] = proposal]
                  /\ overwritten' = overwritten + proposals[i].deposit
      /\ UNCHANGED <<stake, params, schedules, volume, rewards>>

Votable(p, sender) ==
  /\ p.status = "active"
  /\ height \in p.startHeight .. p.endHeight
  /\ p.ballots[sender] = NoBallot
  /\ stake[sender] > 0

\* voteOnProposal.
Vote(sender, i, choice) ==
  /\ Votable(proposals[i], sender)
  /\ proposals' = [proposals EXCEPT
       ![i].ballots[sender] = [choice |-> choice, weight |-> stake[sender]],
       ![i].votes[choice] = @ + stake[sender]]
  /\ UNCHANGED <<balances, stake, params, schedules, volume, rewards, overwritten>>

Moved(b, from, to, amount) == [[b EXCEPT ![from] = @ - amount] EXCEPT ![to] = @ + amount]

\* transferInState, to a treasury account or the escrow too.
Pay(sender, recipient, amount) ==
  /\ balances[sender] >= amount
  /\ balances' = Moved(balances, sender, recipient, amount)
  /\ UNCHANGED <<stake, params, proposals, schedules, volume, rewards, overwritten>>

\* Staking transactions, as far as they show here.
MoveStake(a) ==
  /\ stake' \in {[stake EXCEPT ![a] = s] : s \in Stakes}
  /\ UNCHANGED <<balances, params, proposals, schedules, volume, rewards, overwritten>>

Transaction ==
  /\ transactions < MaxTransactions /\ height <= LastTxHeight
  /\ \E sender \in Wallets :
       \/ \E payload \in Payloads : CreateProposal(sender, payload)
       \/ \E i \in DOMAIN proposals, choice \in Choices : Vote(sender, i, choice)
       \/ \E recipient \in Accounts, amount \in Amounts : Pay(sender, recipient, amount)
       \/ MoveStake(sender)
  /\ transactions' = transactions + 1
  /\ UNCHANGED height

-----------------------------------------------------------------------------
(***************************************************************************)
(* The end of a block: l is the ledger while it is being worked on, with a *)
(* flag for the error that ends a proposal's execution.                    *)
(***************************************************************************)
Ledger == [balances |-> balances, params |-> params, proposals |-> proposals,
           schedules |-> schedules, volume |-> volume, failed |-> FALSE]

\* The schedule of a vesting grant.
Schedule(g) ==
  [recipient |-> g.recipient, amount |-> g.amount, vestingBlocks |-> g.vestingBlocks,
   released |-> 0,
   startHeight |-> height + g.cliffBlocks + 1,
   endHeight |-> height + g.cliffBlocks + g.vestingBlocks]

\* One grant, whose debit may throw.
Granted(l, g) ==
  IF l.balances[g.source] < g.amount THEN [l EXCEPT !.failed = TRUE]
  ELSE IF g.vestingBlocks = 0
    THEN [l EXCEPT !.balances = Moved(@, g.source, g.recipient, g.amount),
                   !.volume = @ + g.amount]
    ELSE [l EXCEPT !.balances = Moved(@, g.source, Escrow, g.amount),
                   !.schedules = Append(@, Schedule(g))]

\* The grants that vest, or those that do not, one by one up to an error.
GrantedWhere(l, grants, vests) ==
  LET after[k \in 0 .. Len(grants)] ==
        IF k = 0 THEN l
        ELSE IF after[k - 1].failed \/ (grants[k].vestingBlocks > 0) # vests THEN after[k - 1]
        ELSE Granted(after[k - 1], grants[k])
  IN  after[Len(grants)]

\* applyTreasuryGrants, then scheduleTreasuryGrantVesting.
AllGranted(l, grants) == GrantedWhere(GrantedWhere(l, grants, FALSE), grants, TRUE)

\* Mutant of Covered: each grant by itself.
CoveredEach(l, grants) ==
  TreasuryFunded(grants) /\ \A k \in DOMAIN grants : grants[k].amount <= l.balances[grants[k].source]

\* buildProposalExecutionPlan: each source covers all its grants together.
Covered(l, grants) ==
  /\ TreasuryFunded(grants)
  /\ \A s \in Sources :
       SumTo([k \in DOMAIN grants |-> IF grants[k].source = s THEN grants[k].amount ELSE 0],
             Len(grants)) <= l.balances[s]

\* applyProposalChanges.
Changed(ps, changes) ==
  [name \in ParamNames |-> IF name \in DOMAIN changes THEN changes[name] ELSE ps[name]]

Executed(l, p) ==
  IF ~ Covered(l, p.grants) THEN [l EXCEPT !.failed = TRUE]
  ELSE AllGranted([l EXCEPT !.params = Changed(@, p.changes)], p.grants)

Passes(l, p, activeStake) ==
  /\ SumTo(<<p.votes["for"], p.votes["against"], p.votes["abstain"]>>, 3)
       >= Round(activeStake * l.params.quorumPercent, 100)
  /\ p.votes["for"] > p.votes["against"]

\* Mutant of Settled: the deposit is what it would be now.
SettledAtCurrentDeposit(l, i, status, beneficiary) ==
  [l EXCEPT !.failed = FALSE, !.proposals[i].status = status,
            !.balances[beneficiary] = @ + l.params.proposalDeposit]

\* The proposal's status, and its deposit's way.
Settled(l, i, status, beneficiary) ==
  [l EXCEPT !.failed = FALSE, !.proposals[i].status = status,
            !.balances[beneficiary] = @ + l.proposals[i].deposit]

Due(p) == p.status = "active" /\ height > p.endHeight

\* finalizeProposals, for one proposal.
Decided(l, i, activeStake) ==
  LET p == l.proposals[i]
      execution == Executed(l, p)
  IN  IF ~ Due(p) THEN l
      ELSE IF ~ Passes(l, p, activeStake) THEN Settled(l, i, "rejected", Treasury)
      ELSE IF execution.failed THEN Settled(execution, i, "execution_failed", Treasury)
      ELSE Settled(execution, i, "passed", p.proposer)

\* finalizeProposals.
Finalized(activeStake) ==
  LET after[i \in 0 .. Len(proposals)] ==
        IF i = 0 THEN Ledger ELSE Decided(after[i - 1], i, activeStake)
  IN  after[Len(proposals)]

\* Mutant of Unlocked: vesting begins a block late.
UnlockedLate(s) ==
  IF height <= s.startHeight THEN 0
  ELSE (s.amount * Lesser(s.vestingBlocks, height - s.startHeight)) \div s.vestingBlocks

\* What a schedule has unlocked by the end of this block.
Unlocked(s) ==
  IF height < s.startHeight THEN 0
  ELSE (s.amount * Lesser(s.vestingBlocks, height - s.startHeight + 1)) \div s.vestingBlocks

Releasable(s) == Greater(0, Unlocked(s) - s.released)

\* One schedule, which stays on the list until all of it is released.
Released(l, s) ==
  [l EXCEPT !.balances = Moved(@, Escrow, s.recipient, Releasable(s)),
            !.volume = @ + Releasable(s),
            !.schedules = IF s.released + Releasable(s) < s.amount
                            THEN Append(@, [s EXCEPT !.released = @ + Releasable(s)]) ELSE @]

\* processTreasuryGrantVesting.
Vested(l) ==
  LET after[k \in 0 .. Len(l.schedules)] ==
        IF k = 0 THEN [l EXCEPT !.schedules = <<>>]
        ELSE Released(after[k - 1], l.schedules[k])
  IN  after[Len(l.schedules)]

\* Withdrawals are Staking's; then proposals, vesting, and the base reward.
CloseBlock ==
  /\ height <= MaxHeight
  /\ \E activeStake \in ActiveStakes :
       LET l == Vested(Finalized(activeStake))
           reward == Lesser(l.balances[Treasury], BlockReward)
       IN  /\ balances' = [l.balances EXCEPT ![Treasury] = @ - reward]
           /\ rewards' = rewards + reward
           /\ params' = l.params
           /\ proposals' = l.proposals
           /\ schedules' = l.schedules
           /\ volume' = l.volume
  /\ height' = height + 1
  /\ UNCHANGED <<stake, overwritten, transactions>>

Next == Transaction \/ CloseBlock

Spec == Init /\ [][Next]_vars

-----------------------------------------------------------------------------
(***************************************************************************)
(* Type invariant.  Balances are natural: no debit of the escrow throws,   *)
(* which would end the production of the block halfway.                    *)
(***************************************************************************)
Proposals ==
  [proposer : Wallets, title : {payload.title : payload \in Payloads},
   startHeight : Nat, endHeight : Nat, deposit : Nat,
   changes : {payload.changes : payload \in Payloads},
   grants : {payload.grants : payload \in Payloads},
   ballots : [Wallets -> [choice : Choices \cup {"none"}, weight : Nat]],
   votes : [Choices -> Nat],
   status : {"active", "passed", "rejected", "execution_failed"}]

Schedules == [recipient : Accounts, amount : Nat, vestingBlocks : Nat \ {0}, released : Nat,
              startHeight : Nat, endHeight : Nat]

TypeOK ==
  /\ balances \in [Accounts -> Nat]
  /\ stake \in [Wallets -> Nat]
  /\ params \in Params
  /\ proposals \in Seq(Proposals)
  /\ schedules \in Seq(Schedules)
  /\ {volume, rewards, overwritten, height, transactions} \subseteq Nat

(***************************************************************************)
(* Every token is on an account, held as the deposit of an active proposal *)
(* (or of one that was replaced), or paid as a block reward: a deposit     *)
(* comes back as it was charged, once, whatever the parameter is by then.  *)
(***************************************************************************)
Held == SumTo([i \in DOMAIN proposals |->
                 IF proposals[i].status = "active" THEN proposals[i].deposit ELSE 0],
              Len(proposals))

SupplyAccounted ==
  SumTo(balances, NumAccounts) + Held + overwritten + rewards
    = SumTo(InitialBalance, NumAccounts)

\* What every schedule has yet to release.
Outstanding ==
  SumTo([k \in DOMAIN schedules |-> schedules[k].amount - schedules[k].released], Len(schedules))

(***************************************************************************)
(* Grants are paid or scheduled for passed proposals only, each of them in *)
(* full; a parameter differs from genesis only as a passed proposal set    *)
(* it: one whose execution failed has done nothing, however many proposals *)
(* compete for the same account in one block.                              *)
(***************************************************************************)
Approved(p) ==
  IF p.status = "passed"
    THEN SumTo([k \in DOMAIN p.grants |-> p.grants[k].amount], Len(p.grants)) ELSE 0

OnlyApprovedTakesEffect ==
  /\ volume + Outstanding =
       SumTo([i \in DOMAIN proposals |-> Approved(proposals[i])], Len(proposals))
  /\ \A name \in ParamNames :
       \/ params[name] = InitialParams[name]
       \/ \E i \in DOMAIN proposals :
            /\ proposals[i].status = "passed" /\ name \in DOMAIN proposals[i].changes
            /\ proposals[i].changes[name] = params[name]

(***************************************************************************)
(* Grants vest block by block from the end of their cliff to their end     *)
(* height: what is released is never ahead of the line between the two, a  *)
(* token behind it at most, and at the end height nothing is left.  The    *)
(* escrow holds what is yet to be released, although any approved proposal *)
(* may spend from treasury accounts.                                       *)
(***************************************************************************)
VestsOnSchedule ==
  /\ balances[Escrow] >= Outstanding
  /\ \A k \in DOMAIN schedules :
       LET s == schedules[k]
           vested == Greater(0, s.vestingBlocks - (s.endHeight - (height - 1)))
       IN  /\ height - 1 < s.endHeight
           /\ s.released * s.vestingBlocks <= s.amount * vested
           /\ s.amount * vested < (s.released + 1) * s.vestingBlocks
=============================================================================
