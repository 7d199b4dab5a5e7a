---------------------------- MODULE DurableNode ----------------------------
(***************************************************************************)
(* What a node that keeps everything it answered for promises: a chain of  *)
(* blocks and a pool of pending transactions that change by its operations *)
(* only.  Crashes and restarts do not show, except that the pool may have  *)
(* back what it dropped since the node last saved.                         *)
(***************************************************************************)
EXTENDS Sequences

CONSTANTS
  Transactions,
  Foreign        \* what operators import: set of [chain, mempool]

VARIABLES
  chain,   \* blocks after genesis; a block is the set of its transactions
  pool,    \* pending transactions
  dropped  \* what left the pool since the node last saved

vars == <<chain, pool, dropped>>

Init == chain = <<>> /\ pool = {} /\ dropped = {}

Confirmed == UNION {chain[i] : i \in DOMAIN chain}

Admit ==
  /\ UNCHANGED chain
  /\ \E t \in Transactions \ (Confirmed \cup pool) : t \in pool' /\ pool' \subseteq pool \cup {t}
  /\ dropped' = {}

Extend ==
  /\ \E block \in SUBSET (Transactions \ Confirmed) :
       /\ chain' = Append(chain, block)
       /\ pool' \subseteq pool \ block
  /\ dropped' = {}

Adopt == \E s \in Foreign : chain' = s.chain /\ pool' = s.mempool /\ dropped' = {}

Keep == UNCHANGED <<chain, pool>> /\ dropped' = {}

Drop ==
  /\ UNCHANGED chain
  /\ pool' \subseteq pool
  /\ dropped' = dropped \cup (pool \ pool')

\* A crash.
TakeBack ==
  /\ UNCHANGED chain
  /\ pool' = pool \cup dropped
  /\ dropped' = {}

Next == Admit \/ Extend \/ Adopt \/ Keep \/ Drop \/ TakeBack

Spec == Init /\ [][Next]_vars
=============================================================================
