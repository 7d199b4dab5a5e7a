---------------------------- MODULE MCGovernance ----------------------------
(***************************************************************************)
(* A small instance of Governance: account 1 is the treasury, 2 another    *)
(* fund, 3 the vesting escrow, 4 and 5 two wallets that hold stake.        *)
(***************************************************************************)
EXTENDS Governance

Grant(source, recipient, amount, cliff, vesting) ==
  [source |-> source, recipient |-> recipient, amount |-> amount,
   cliffBlocks |-> cliff, vestingBlocks |-> vesting]

MCInitialBalance == <<3, 6, 0, 4, 1>>
MCInitialStake == [w \in Wallets |-> w - 3]
MCParams == [proposalDeposit |-> 1, governanceVotingWindow |-> 2, quorumPercent |-> 50]

\* Two grants that the fund covers once; one that vests over two blocks; new
\* parameters; a grant out of the escrow, and a window of length zero.
MCPayloads ==
  {[title |-> "grants", changes |-> <<>>, grants |-> <<Grant(2, 5, 2, 0, 0), Grant(2, 4, 2, 0, 2)>>],
   [title |-> "vesting", changes |-> <<>>, grants |-> <<Grant(2, 5, 3, 1, 2)>>],
   [title |-> "grants", changes |-> [proposalDeposit |-> 2, quorumPercent |-> 100], grants |-> <<>>],
   [title |-> "escrow", changes |-> <<>>, grants |-> <<Grant(3, 5, 1, 0, 0)>>],
   [title |-> "window", changes |-> [governanceVotingWindow |-> 0], grants |-> <<>>]}
=============================================================================
