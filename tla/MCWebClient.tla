---------------------------- MODULE MCWebClient ----------------------------
(* An instance of WebClient for TLC.                                       *)
EXTENDS WebClient

CONSTANTS home, away, q1, q2
=============================================================================
