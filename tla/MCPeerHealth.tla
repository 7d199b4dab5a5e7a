---------------------------- MODULE MCPeerHealth ----------------------------
(* A small instance of PeerHealth: scores between -20 and 0. *)
EXTENDS PeerHealth

MCLowestScore == -20
=============================================================================
