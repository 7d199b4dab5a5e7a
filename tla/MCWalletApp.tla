---------------------------- MODULE MCWalletApp ----------------------------
(* A small instance of WalletApp: one sound file, one that names a wallet  *)
(* other than the one it holds, and one that names none.                   *)
EXTENDS WalletApp

CONSTANTS k1, k2, k3, p1

MCFiles == {[address |-> address, holds |-> k2, pass |-> p1] : address \in {k1, k2, None}}
=============================================================================
