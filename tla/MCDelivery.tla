----------------------------- MODULE MCDelivery -----------------------------
(* Two listener groups of one process, which agree on the type of the one     *)
(* event name they share.                                                     *)
EXTENDS Delivery, TLC

CONSTANTS g1, g2, order, refund, Order, Refund,
          placed,   \* published here, for both groups
          garbled,  \* published here, but g2 cannot read the payload as its type
          foreign,  \* from elsewhere, with no event-id
          numbered  \* from elsewhere, with a header that is a number

MCNameOf == [m \in Messages |-> IF m \in {garbled, foreign} THEN refund ELSE order]
MCBound == [m \in Messages |-> IF m = placed THEN {g1, g2} ELSE {g2}]

\* for the liveness run: g1 gets a message it can handle and one whose header is a number
LiveBound == [m \in Messages |-> IF m = garbled THEN {g2} ELSE {g1}]

AgreeingGroups == g1 :> (order :> Order) @@ g2 :> (order :> Order @@ refund :> Refund)
AgreeingReadable == {<<placed, Order>>, <<foreign, Refund>>, <<numbered, Order>>} \cap (Messages \X Types)
=============================================================================
