---------------------------- MODULE MCInviteHost ----------------------------
(* Instances of InviteHost for TLC.                                        *)
EXTENDS InviteHost

CONSTANTS i1, i2, p1, l1

\* The first invite is joined, the second is not.
FirstJoined == {<<i1, p1>>}
=============================================================================
