--------------------------- MODULE MCMobileWallet ---------------------------
EXTENDS MobileWallet, TLC

CONSTANTS k1, k2, k3, p1, p2, s1, s2

MCFiles == {[key |-> k1, pass |-> p1], [key |-> k2, pass |-> p2]}
MCDevices == {[store |-> TRUE, biometric |-> TRUE], [store |-> TRUE, biometric |-> FALSE],
              [store |-> FALSE, biometric |-> TRUE]}
MCSymmetry == Permutations({s1, s2})
=============================================================================
