------------------------- MODULE MCPublisherChannel -------------------------
(* Two listeners of one event each, both events published through the queue.  *)
(* A handler has failed, and nobody subscribed to the fault of its event, so  *)
(* that exchange is never declared.  The fault is sent with PublishAsync in   *)
(* the first instance and through the queue in the second.                    *)
EXTENDS PublisherChannel, TLC

CONSTANTS placed, paid, placedFault,   \* messages
          Placed, Paid, PlacedFault    \* exchanges

MCExchangeOf ==
    [m \in Sent |-> CASE m = placed -> Placed [] m = paid -> Paid [] m = placedFault -> PlacedFault]
MCStartup == <<[group |-> "Shop", exchange |-> Placed], [group |-> "Audit", exchange |-> Paid]>>
=============================================================================
