----------------------------- MODULE MCNetwork -----------------------------
EXTENDS Network

CONSTANTS a, b, c

\* a relays to b and b to c, which syncs from b.
MCOneWay == [n \in Nodes |-> CASE n = a -> {b} [] n = b -> {c} [] n = c -> {b}]
=============================================================================
