----------------------------- MODULE MCMempool -----------------------------
(***************************************************************************)
(* Small instances of Mempool: two wallets, of which "b" starts with       *)
(* nothing, so that its payments depend on pending payments to it or on    *)
(* the faucet.                                                             *)
(***************************************************************************)
EXTENDS Mempool

MCWallets == {"a", "b"}
MCInitialBalance == [a |-> 6, b |-> 0, faucet |-> 4]

Payment(sender, to, amount, fee, nonce) ==
  [type |-> "payment", sender |-> sender, to |-> to, amount |-> amount,
   fee |-> fee, nonce |-> nonce, at |-> 0]

\* A transaction of type faucet that a wallet signed.
Disbursement(sender, to, amount, fee, nonce, at) ==
  [type |-> "faucet", sender |-> sender, to |-> to, amount |-> amount,
   fee |-> fee, nonce |-> nonce, at |-> at]

\* Two payments of which one waits for the other, one that spends what its
\* sender has yet to receive, and a disbursement above the cap that its
\* recipient signed, which competes with that payment for one nonce.
MCSigned ==
  {Payment("a", "b", 2, 1, 1), Payment("a", "b", 1, 2, 2), Payment("b", "a", 2, 1, 1),
   Disbursement("b", "b", 3, 0, 1, 1)}

MCRecipients == {"b"}
=============================================================================
