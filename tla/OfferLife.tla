----------------------------- MODULE OfferLife -----------------------------
(***************************************************************************)
(* What the receiving side of Swoop promises about incoming offers, seen    *)
(* from outside the transfer manager (core/transfer):                       *)
(*                                                                          *)
(*   - an offer is taken up only while nothing else is being received;      *)
(*   - it is either turned away or answered, and only an accepted offer     *)
(*     starts receiving;                                                    *)
(*   - it ends exactly once, and "completed" means that every byte of it    *)
(*     is saved.                                                            *)
(*                                                                          *)
(* Receiver.tla refines this specification.                                 *)
(***************************************************************************)
CONSTANT Offers      \* prepare-upload requests that reach this device

VARIABLES phase,     \* phase[o]: where offer o stands
          saved      \* saved[o]: the destination files hold every byte of o

vars == <<phase, saved>>

Phases == {"new", "refused", "offered", "receiving",
           "declined", "failed", "canceled", "completed"}

TypeOK == /\ phase \in [Offers -> Phases]
          /\ saved \in [Offers -> BOOLEAN]

Init == /\ phase = [o \in Offers |-> "new"]
        /\ saved = [o \in Offers |-> FALSE]

Busy == \E o \in Offers : phase[o] \in {"offered", "receiving"}

MoveTo(o, p) == phase' = [phase EXCEPT ![o] = p]

Offer(o) == /\ phase[o] = "new"
            /\ ~Busy
            /\ MoveTo(o, "offered")
            /\ UNCHANGED saved

Refuse(o) == /\ phase[o] = "new"
             /\ MoveTo(o, "refused")
             /\ UNCHANGED saved

Accept(o) == /\ phase[o] = "offered"
             /\ MoveTo(o, "receiving")
             /\ UNCHANGED saved

TurnDown(o) == /\ phase[o] = "offered"
               /\ \E p \in {"declined", "failed", "canceled"} : MoveTo(o, p)
               /\ UNCHANGED saved

\* The last byte may reach the disk after the transfer was reported failed.
Save(o) == /\ phase[o] \in {"receiving", "failed"}
           /\ ~saved[o]
           /\ saved' = [saved EXCEPT ![o] = TRUE]
           /\ UNCHANGED phase

Complete(o) == /\ phase[o] = "receiving"
               /\ saved[o]
               /\ MoveTo(o, "completed")
               /\ UNCHANGED saved

\* A failed transfer keeps what arrived, a canceled one is deleted.
Fail(o) == /\ phase[o] = "receiving"
           /\ MoveTo(o, "failed")
           /\ UNCHANGED saved

Discard(o) == /\ phase[o] = "receiving"
              /\ MoveTo(o, "canceled")
              /\ saved' = [saved EXCEPT ![o] = FALSE]

Next == \E o \in Offers :
           \/ Offer(o) \/ Refuse(o) \/ Accept(o) \/ TurnDown(o)
           \/ Save(o) \/ Complete(o)
           \/ Fail(o) \/ Discard(o)

Spec == Init /\ [][Next]_vars
=============================================================================
