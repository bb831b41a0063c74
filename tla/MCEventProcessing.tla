------------------------- MODULE MCEventProcessing --------------------------
(* The groups of the sample application and its tests in small: one that      *)
(* handles the event twice, one that only resolves faults, and one that does  *)
(* both for the same event.                                                   *)
EXTENDS EventProcessing

CONSTANTS Payments, Shop, Reporting, Order

On == [type |-> Order, fault |-> FALSE]
OnFault == [type |-> Order, fault |-> TRUE]

MCProcessorsOf == [g \in Groups |->
    CASE g = Payments -> <<On, On>> [] g = Shop -> <<OnFault>> [] g = Reporting -> <<On, OnFault>>]
=============================================================================
