---------------------------- MODULE MCPairedPeers ----------------------------
(* An instance of PairedPeers for TLC.  The probes are interchangeable.     *)
EXTENDS PairedPeers, TLC

CONSTANTS a, l1, l2, l3, s1, s2, q1, q2, g1

AnyProbe == Permutations({q1, q2})
=============================================================================
