---------------------------- MODULE MessageDelivery -------------------------
(***************************************************************************)
(* What a conversation promises to who writes in it, whatever fails and    *)
(* whoever else is writing, reading or blocking.                           *)
(*                                                                         *)
(* A draft is stored, its recipient notified, and only then is the sender  *)
(* told.  It is stored a second time only for a sender who was told of a   *)
(* failure, and never once the sender knows that it is sent.               *)
(***************************************************************************)
EXTENDS Naturals

CONSTANT Drafts   \* what the users want to say

VARIABLES
    copies,    \* copies[d]: messages that say d
    noticed,   \* drafts whose recipient has a notification
    acked,     \* drafts whose sender knows that they are sent
    failed     \* drafts that are stored and reported as failed

deliveryVars == <<copies, noticed, acked, failed>>

DeliveryInit ==
    /\ copies = [d \in Drafts |-> 0]
    /\ noticed = {}
    /\ acked = {}
    /\ failed = {}

Store(d) ==
    /\ d \notin acked
    /\ copies[d] > 0 => d \in failed
    /\ copies' = [copies EXCEPT ![d] = @ + 1]
    /\ UNCHANGED <<noticed, acked, failed>>

Notice(d) ==
    /\ copies[d] > 0
    /\ d \notin acked
    /\ noticed' = noticed \cup {d}
    /\ UNCHANGED <<copies, acked, failed>>

Acknowledge(d) ==
    /\ d \in noticed
    /\ acked' = acked \cup {d}
    /\ UNCHANGED <<copies, noticed, failed>>

Fail(d) ==
    /\ copies[d] > 0
    /\ d \notin acked
    /\ failed' = failed \cup {d}
    /\ UNCHANGED <<copies, noticed, acked>>

DeliveryNext == \E d \in Drafts : \/ Store(d)
                                  \/ Notice(d)
                                  \/ Acknowledge(d)
                                  \/ Fail(d)

DeliverySpec == DeliveryInit /\ [][DeliveryNext]_deliveryVars
=============================================================================
