----------------------------- MODULE Dispatcher -----------------------------
(* What IQueueBasedDispatcher<T> promises to a caller of Enqueue, without     *)
(* saying how many worker tasks serve the queue: an item waits in the order   *)
(* it was accepted, is taken by one worker, and the handler sees it once,     *)
(* either returning (handed) or throwing (refused).  Items in different       *)
(* workers' hands may reach the handler in any order.                         *)
EXTENDS Naturals, Sequences

CONSTANT Messages

VARIABLES waiting,  \* items accepted and not yet taken, oldest first
          taken,    \* items in the hands of a worker
          handed,   \* items for which the handler returned
          refused   \* items for which the handler threw

vars == <<waiting, taken, handed, refused>>

Waiting == {waiting[i] : i \in 1 .. Len(waiting)}

Init == waiting = <<>> /\ taken = {} /\ handed = {} /\ refused = {}

Accept(m) ==
    /\ m \notin Waiting \cup taken \cup handed \cup refused
    /\ waiting' = Append(waiting, m)
    /\ UNCHANGED <<taken, handed, refused>>

Take ==
    /\ waiting # <<>>
    /\ taken' = taken \cup {Head(waiting)}
    /\ waiting' = Tail(waiting)
    /\ UNCHANGED <<handed, refused>>

HandOver(m) ==
    /\ m \in taken
    /\ taken' = taken \ {m}
    /\ handed' = handed \cup {m}
    /\ UNCHANGED <<waiting, refused>>

Refuse(m) ==
    /\ m \in taken
    /\ taken' = taken \ {m}
    /\ refused' = refused \cup {m}
    /\ UNCHANGED <<waiting, handed>>

Next ==
    \/ Take
    \/ \E m \in Messages : Accept(m) \/ HandOver(m) \/ Refuse(m)

Spec == Init /\ [][Next]_vars
=============================================================================
