---------------------------- MODULE MCNodeCommit ----------------------------
(***************************************************************************)
(* Small instances of NodeCommit: two transactions, two concurrent saves,  *)
(* and another node's snapshot that an operator may import.                *)
(***************************************************************************)
EXTENDS NodeCommit, TLC

CONSTANTS t1, t2, h1, h2

MCForeign == {[chain |-> <<{t1}>>, mempool |-> {}, rejections |-> {}, pushedOut |-> {}]}
MCNoForeign == {}
Symmetric == Permutations({h1, h2})
=============================================================================
