------------------------------ MODULE MCSender ------------------------------
(* Instances of Sender for TLC.                                            *)
EXTENDS Sender, TLC

CONSTANTS s1, s2

\* A file of two chunks and a small one, before a send of an empty file.
AllSizes == (s1 :> <<3, 1>>) @@ (s2 :> <<0>>)
=============================================================================
