------------------------------ MODULE MCStaking ------------------------------
(***************************************************************************)
(* A small instance of Staking: account 1 is the treasury, 2 the relayer   *)
(* pool, 3 a bootstrap validator without a key, 4 and up the wallets.      *)
(***************************************************************************)
EXTENDS Staking

MCInitialBalance == <<5, 0, 0, 9, 3>>

=============================================================================
