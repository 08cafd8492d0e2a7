--------------------------- MODULE WebhookDelivery ----------------------------
(***************************************************************************)
(* What agent-event-fanout promises of one delivery: it is created once,   *)
(* reaches its subscriber at least once before it counts as delivered, and *)
(* once delivered or cancelled it is settled for good.  Only a dead        *)
(* delivery may be opened again or cancelled.                              *)
(***************************************************************************)
CONSTANTS Ids

VARIABLES phase, received

DeliveryVars == <<phase, received>>

DeliveryInit ==
    /\ phase = [d \in Ids |-> "none"]
    /\ received = {}

Moves(d, from, to) ==
    /\ phase[d] = from
    /\ phase' = [phase EXCEPT ![d] = to]
    /\ UNCHANGED received

\* A POST reaches the subscriber; a second one does no harm, it is idempotent.
Arrives(d) ==
    /\ phase[d] = "open"
    /\ received' = received \cup {d}
    /\ UNCHANGED phase

Delivered(d) == d \in received /\ Moves(d, "open", "delivered")

DeliveryNext ==
    \E d \in Ids :
       \/ Moves(d, "none", "open")
       \/ Arrives(d)
       \/ Delivered(d)
       \/ Moves(d, "open", "dead")
       \/ Moves(d, "dead", "open")
       \/ Moves(d, "dead", "cancelled")

DeliverySpec == DeliveryInit /\ [][DeliveryNext]_DeliveryVars

===============================================================================
