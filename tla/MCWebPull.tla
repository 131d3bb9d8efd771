----------------------------- MODULE MCWebPull -----------------------------
(* Instances of WebPull for TLC.                                           *)
EXTENDS WebPull, TLC

CONSTANTS s1, s2, yes1, yes2, no1, g1
=============================================================================
