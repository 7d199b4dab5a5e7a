---------------------------- MODULE MCContracts ----------------------------
(***************************************************************************)
(* A small instance of Contracts: two founders of a circle and a wallet    *)
(* that joins; one of them buys from another through an escrow.            *)
(***************************************************************************)
EXTENDS Contracts

CONSTANTS ama, kofi, zola

MCInitialBalance == [w \in Wallets |-> IF w = zola THEN 1 ELSE 4]
MCCircles == {[contributionAmount |-> 1, members |-> <<ama, kofi>>]}
MCEscrows == {[amount |-> 2, buyer |-> ama, merchant |-> zola]}
=============================================================================
