---------------------------- MODULE MCRelayServer ----------------------------
(* Instances of RelayServer for TLC.                                       *)
EXTENDS RelayServer

CONSTANTS s1, p1, q1, q2, h1, h2, j1, j2
=============================================================================
