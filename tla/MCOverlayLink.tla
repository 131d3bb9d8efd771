---------------------------- MODULE MCOverlayLink ----------------------------
(* Instances of OverlayLink for TLC.                                       *)
EXTENDS OverlayLink

CONSTANTS c1
=============================================================================
