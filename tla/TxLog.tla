------------------------------- MODULE TxLog -------------------------------
(***************************************************************************)
(* What a node promises about transactions, without saying how it keeps    *)
(* the promise: a log of confirmed transactions that only grows and takes  *)
(* every sender's transactions in the order of their nonces, and a pool of *)
(* pending ones that a transaction leaves when it is confirmed, or because *)
(* the node gives it up.                                                   *)
(***************************************************************************)
EXTENDS Integers, Sequences, SequencesExt

VARIABLES
  log,   \* confirmed transactions, oldest first
  pool   \* pending transactions

vars == <<log, pool>>

Init == log = <<>> /\ pool = {}

\* The nonce is the number of the sender's transactions up to this one.
InNonceOrder(txs) ==
  \A i \in DOMAIN txs :
    txs[i].nonce = Cardinality({j \in 1 .. i : txs[j].sender = txs[i].sender})

\* One new transaction becomes pending, in place of others perhaps.
Admit ==
  /\ UNCHANGED log
  /\ \E tx \in pool' \ pool : tx \notin ToSet(log) /\ pool' \subseteq pool \cup {tx}

Drop ==
  /\ UNCHANGED log
  /\ pool' \subseteq pool

\* A block confirms pending transactions, and others the node never saw.
Confirm ==
  /\ IsPrefix(log, log')
  /\ InNonceOrder(log')
  /\ pool' \subseteq pool \ ToSet(log')

Next == Admit \/ Drop \/ Confirm

Spec == Init /\ [][Next]_vars
=============================================================================
