------------------------- MODULE MCSocketTransport -------------------------
(* Two nodes that dial each other, of one network or of two. *)
EXTENDS SocketTransport

CONSTANTS a, b, ua, ub

MCOwner == [url \in Urls |-> IF url = ua THEN a ELSE b]
MCAdvertised == [n \in Hosts |-> IF n = a THEN ua ELSE ub]
MCNetworks == {[n \in Hosts |-> 1], [n \in Hosts |-> IF n = a THEN 1 ELSE 2]}
=============================================================================
