---------------------------- MODULE AtLeastOnce -----------------------------
(* What a listener promises for the deliveries it is owed, a delivery being   *)
(* one message for one group: the broker may forget a delivery only after the *)
(* group's event handling was given it, unless the message cannot be read at  *)
(* all.  A delivery may be given more than once.                              *)
CONSTANTS Deliveries, Unreadable

VARIABLES owed,    \* deliveries the broker keeps
          given,   \* deliveries the event handling was given
          closed   \* deliveries the broker was told to forget

vars == <<owed, given, closed>>

Init == owed = {} /\ given = {} /\ closed = {}

Offer(ds) ==
    /\ ds \cap (owed \cup closed) = {}
    /\ owed' = owed \cup ds
    /\ UNCHANGED <<given, closed>>

Give(d) ==
    /\ d \in owed \cup closed
    /\ given' = given \cup {d}
    /\ UNCHANGED <<owed, closed>>

Close(d) ==
    /\ d \in owed
    /\ d \in given \cup Unreadable
    /\ owed' = owed \ {d}
    /\ closed' = closed \cup {d}
    /\ UNCHANGED given

Next ==
    \/ \E ds \in SUBSET Deliveries : Offer(ds)
    \/ \E d \in Deliveries : Give(d) \/ Close(d)

Spec == Init /\ [][Next]_vars
=============================================================================
