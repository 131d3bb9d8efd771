----------------------------- MODULE MCReceiver -----------------------------
(* Instances of Receiver for TLC.                                          *)
EXTENDS Receiver, TLC

CONSTANTS
    a, b,       \* two offers
    u1, u2      \* two UI calls

OneUnit  == 1 :> 1
TwoFiles == (1 :> 2) @@ (2 :> 1)
NoBytes  == 1 :> 0
TooLarge == 1 :> 9

\* An offer of one unit and one of an empty file; two files beside an offer over
\* the limits.
SlotSizes == (a :> OneUnit) @@ (b :> NoBytes)
DataSizes == (a :> TwoFiles) @@ (b :> TooLarge)

\* The calls are interchangeable.
AnyCall == Permutations({u1, u2})
=============================================================================
