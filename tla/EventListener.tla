--------------------------- MODULE EventListener ----------------------------
(* The life of one EventListener and of its entry in the EventConsumer all    *)
(* listeners share: starting, the restart that a closed channel or a          *)
(* cancelled consumer calls for, stopping, and EventConsumer.Dispose.  These  *)
(* run on whatever thread calls them: the host's, the connection's reader or  *)
(* the pool.  Each call is an activity, and one step of it reads or writes    *)
(* one thing the others can see.                                              *)
(*                                                                            *)
(* Connection, channels and their recovery are RabbitMQ.Client's: external.   *)
EXTENDS Integers, FiniteSets

CONSTANTS
    MaxActivities,   \* bound: calls that can be under way at once
    Channels,        \* bound: channels that can exist at once
    NoChannel,
    MaxChannelLoss,  \* bound: channels closed by the broker
    MaxCancels,      \* bound: consumers cancelled by the broker
    MaxOutages,      \* bound: connection losses
    MaxStops,        \* bound: calls of StopListening
    MaxTroubles,     \* bound: all of these and Dispose together
    MayDispose,      \* may the service provider dispose of the EventConsumer?
    Spaced           \* does trouble wait until the listener is over the last?

\* There is at least the call that starts the listener.
ASSUME ListenerAssumption ==
    /\ IsFiniteSet(Channels) /\ NoChannel \notin Channels
    /\ MaxActivities # 0
    /\ {MaxActivities, MaxChannelLoss, MaxCancels, MaxOutages, MaxStops, MaxTroubles} \subseteq Nat
    /\ MayDispose \in BOOLEAN /\ Spaced \in BOOLEAN

Activities == 1 .. MaxActivities

VARIABLES
    connection,     \* _connection: "closed" is for good, "down" until it is recovered
    channel,        \* state of each channel, and whether a consumer is on it
    subscription,   \* _consumerSubscription: the channel of its consumer
    registered,     \* _consumers[listenerId]: likewise
    at,             \* where an activity is
    mine,           \* the channel it opened or is disposing of
    task,           \* what it is for, where that decides what follows
    notices,        \* ConsumerCancelled events raised and not yet handled
    disposal,       \* what became of EventConsumer.Dispose
    added,          \* has _consumers.Add run since Dispose began to enumerate?
    lost, cancelled, outages, stops

shared == <<subscription, registered>>
disposing == <<disposal, added>>
counters == <<lost, cancelled, outages, stops>>
others == <<disposing, counters>>
vars == <<connection, channel, shared, at, mine, task, notices, disposing, counters>>

\* "down": closed with its connection, to be recovered with it
ChannelStates == {"none", "open", "consuming", "closed", "down", "downConsuming"}
Closed == {"closed", "down", "downConsuming"}   \* IModel.IsClosed

Places == {"idle", "checking", "opening", "consuming", "adding", "assigning", "catching",
           "checkingStarted", "stopping", "reading", "disposing", "removing", "clearing",
           "enumerating", "removingAgain", "movingOn", "closing"}

Init ==
    /\ connection = "open"
    /\ channel = [c \in Channels |-> "none"]
    /\ subscription = NoChannel
    /\ registered = NoChannel
    \* EventListenersInitializer.StartAsync has called StartListeningAsync
    /\ at = [a \in Activities |-> IF a = 1 THEN "checking" ELSE "idle"]
    /\ mine = [a \in Activities |-> NoChannel]
    /\ task = [a \in Activities |-> "none"]
    /\ notices = 0
    /\ disposal = "none" /\ added = FALSE
    /\ lost = 0 /\ cancelled = 0 /\ outages = 0 /\ stops = 0

\* nothing under way, nothing to come
Settled == connection # "down" /\ notices = 0 /\ \A a \in Activities : at[a] = "idle"
Disposals == IF disposal = "none" THEN 0 ELSE 1
Trouble == /\ Spaced => Settled
           /\ lost + cancelled + outages + stops + Disposals < MaxTroubles

Consuming == {c \in Channels : channel[c] = "consuming"}

\* an activity is a name for a call under way: a new call takes the first that is free
Unused(a) == at[a] = "idle" /\ \A b \in Activities : b < a => at[b] # "idle"
Goto(a, place) == at' = [at EXCEPT ![a] = place]
End(a) ==
    /\ Goto(a, "idle")
    /\ mine' = [mine EXCEPT ![a] = NoChannel]
    /\ task' = [task EXCEPT ![a] = "none"]
-----------------------------------------------------------------------------
(* StartListeningAsync and SubscribeAsync *)

\* if (_consumerSubscription != null) return true
CheckSubscription(a) ==
    /\ at[a] = "checking"
    /\ \/ subscription # NoChannel /\ End(a)
       \/ subscription = NoChannel /\ Goto(a, "opening") /\ UNCHANGED <<mine, task>>
    /\ UNCHANGED <<connection, channel, shared, notices, others>>

\* a closed channel nothing points to any more is as good as one never opened
Free == {c \in Channels : /\ channel[c] \in {"none", "closed"}
                          /\ c \notin {subscription, registered}
                          /\ \A a \in Activities : mine[a] # c}

\* OpenChannel throws while the connection is down, and when Dispose has closed it
OpenChannel(a) ==
    /\ at[a] = "opening"
    /\ \/ /\ connection = "open"
          /\ Free # {}
          /\ LET c == CHOOSE f \in Free : TRUE IN
                /\ channel' = [channel EXCEPT ![c] = "open"]
                /\ mine' = [mine EXCEPT ![a] = c]
          /\ Goto(a, "consuming")
       \/ connection # "open" /\ Goto(a, "catching") /\ UNCHANGED <<channel, mine>>
    /\ UNCHANGED <<connection, shared, task, notices, others>>

\* the callbacks are attached, then BasicConsume, which throws on a closed channel
BasicConsume(a) ==
    /\ at[a] = "consuming"
    /\ \/ /\ channel[mine[a]] = "open"
          /\ channel' = [channel EXCEPT ![mine[a]] = "consuming"]
          /\ Goto(a, "adding")
       \/ channel[mine[a]] # "open" /\ Goto(a, "catching") /\ UNCHANGED channel
    /\ UNCHANGED <<connection, shared, mine, task, notices, others>>

\* _consumers.Add(listenerId, subscription), which throws if the key is there
AddConsumer(a) ==
    /\ at[a] = "adding"
    /\ \/ /\ registered = NoChannel
          /\ registered' = mine[a]
          /\ added' = (disposal = "running")
          /\ Goto(a, "assigning")
       \/ registered # NoChannel /\ UNCHANGED <<registered, added>> /\ Goto(a, "catching")
    /\ UNCHANGED <<connection, channel, subscription, mine, task, notices, disposal, counters>>

AssignSubscription(a) ==
    /\ at[a] = "assigning"
    /\ subscription' = mine[a]
    /\ End(a)
    /\ UNCHANGED <<connection, channel, registered, notices, others>>

\* catch: if (_consumerSubscription != null) Unsubscribe it, whoever subscribed it
Catch(a) ==
    /\ at[a] = "catching"
    /\ \/ subscription = NoChannel /\ End(a)
       \/ /\ subscription # NoChannel
          /\ Goto(a, "reading")
          /\ task' = [task EXCEPT ![a] = "none"]
          /\ UNCHANGED mine
    /\ UNCHANGED <<connection, channel, shared, notices, others>>
-----------------------------------------------------------------------------
(* StopListening, and Unsubscribe of whatever subscription it reads *)

CheckStopping(a) ==
    /\ at[a] = "stopping"
    /\ \/ subscription # NoChannel /\ Goto(a, "reading") /\ UNCHANGED <<mine, task>>
       \/ subscription = NoChannel /\ task[a] = "restart" /\ Goto(a, "checking") /\ UNCHANGED <<mine, task>>
       \/ subscription = NoChannel /\ task[a] # "restart" /\ End(a)
    /\ UNCHANGED <<connection, channel, shared, notices, others>>

\* mutant: the field's second read is not checked
ReadSubscriptionUnchecked(a) ==
    /\ at[a] = "reading"
    /\ mine' = [mine EXCEPT ![a] = subscription]
    /\ Goto(a, "disposing")
    /\ UNCHANGED <<connection, channel, shared, task, notices, others>>

\* the field is read again: null by now ends the activity with an exception
ReadSubscription(a) ==
    /\ at[a] = "reading"
    /\ \/ /\ subscription # NoChannel
          /\ mine' = [mine EXCEPT ![a] = subscription]
          /\ Goto(a, "disposing")
          /\ UNCHANGED task
       \/ subscription = NoChannel /\ End(a)
    /\ UNCHANGED <<connection, channel, shared, notices, others>>

\* mutant: Dispose raises ConsumerCancelled itself
DisposeNotifies(a) ==
    /\ at[a] = "disposing"
    /\ channel' = [channel EXCEPT ![mine[a]] = IF @ \in Closed THEN @ ELSE "closed"]
    /\ notices' = notices + 1
    /\ Goto(a, "removing")
    /\ UNCHANGED <<connection, shared, mine, task, others>>

\* RmqMessageConsumer.Dispose.  The callbacks are still attached, since -= of a new
\* lambda removes nothing: aborting a channel with a consumer raises ConsumerCancelled.
Dispose(a) ==
    /\ at[a] = "disposing"
    /\ LET c == mine[a] IN
          /\ channel' = [channel EXCEPT ![c] = IF @ \in Closed THEN @ ELSE "closed"]
          /\ notices' = IF channel[c] = "consuming" THEN notices + 1 ELSE notices
    /\ Goto(a, "removing")
    /\ UNCHANGED <<connection, shared, mine, task, others>>

\* the end of Unsubscribe: back to StopListening or to Dispose
AfterUnsubscribe(a) == IF task[a] = "dispose" THEN "removingAgain" ELSE "clearing"

\* mutant: Unsubscribe leaves the dictionary alone
KeepConsumer(a) ==
    /\ at[a] = "removing"
    /\ Goto(a, AfterUnsubscribe(a))
    /\ UNCHANGED <<connection, channel, shared, mine, task, notices, others>>

\* _consumers.Remove(listenerId), whichever subscription is under the key
RemoveConsumer(a) ==
    /\ at[a] = "removing"
    /\ registered' = NoChannel
    /\ Goto(a, AfterUnsubscribe(a))
    /\ UNCHANGED <<connection, channel, subscription, mine, task, notices, others>>

\* mutant: _consumerSubscription is not set to null
KeepSubscription(a) ==
    /\ at[a] = "clearing"
    /\ \/ task[a] = "restart" /\ Goto(a, "checking") /\ mine' = [mine EXCEPT ![a] = NoChannel]
                        /\ UNCHANGED task
       \/ task[a] # "restart" /\ End(a)
    /\ UNCHANGED <<connection, channel, shared, notices, others>>

\* _consumerSubscription = null
ClearSubscription(a) ==
    /\ at[a] = "clearing"
    /\ subscription' = NoChannel
    /\ \/ task[a] = "restart" /\ Goto(a, "checking") /\ mine' = [mine EXCEPT ![a] = NoChannel]
                        /\ UNCHANGED task
       \/ task[a] # "restart" /\ End(a)
    /\ UNCHANGED <<connection, channel, registered, notices, others>>
-----------------------------------------------------------------------------
(* EventConsumer.Dispose, on the thread that disposes of the service provider *)

BeginDispose(a) ==
    /\ Trouble
    /\ MayDispose
    /\ disposal = "none"
    /\ disposal' = "running"
    /\ added' = FALSE
    /\ Unused(a)
    /\ Goto(a, "enumerating")
    /\ task' = [task EXCEPT ![a] = "dispose"]
    /\ UNCHANGED <<connection, channel, shared, mine, notices, counters>>

\* foreach (var consumer in _consumers): the listener's entry, if it has one
Enumerate(a) ==
    /\ at[a] = "enumerating"
    /\ \/ /\ registered # NoChannel
          /\ mine' = [mine EXCEPT ![a] = registered]
          /\ Goto(a, "disposing")
       \/ registered = NoChannel /\ Goto(a, "closing") /\ UNCHANGED mine
    /\ UNCHANGED <<connection, channel, shared, task, notices, others>>

\* _consumers.Remove(consumer.Key), once more after Unsubscribe
RemoveAgain(a) ==
    /\ at[a] = "removingAgain"
    /\ registered' = NoChannel
    /\ Goto(a, "movingOn")
    /\ UNCHANGED <<connection, channel, subscription, mine, task, notices, others>>

\* MoveNext throws if an entry was added since; entries removed do not disturb it
MoveOn(a) ==
    /\ at[a] = "movingOn"
    /\ \/ added /\ disposal' = "failed" /\ End(a)
       \/ ~added /\ Goto(a, "closing") /\ UNCHANGED <<disposal, mine, task>>
    /\ UNCHANGED <<connection, channel, shared, notices, added, counters>>

\* mutant: the connection is left to whoever opened it
LeaveConnection(a) ==
    /\ at[a] = "closing"
    /\ disposal' = "done"
    /\ End(a)
    /\ UNCHANGED <<connection, channel, shared, notices, added, counters>>

\* if (_connection.IsOpen): Close, which shuts down every channel.  A connection that is
\* down is left to its recovery.
CloseConnection(a) ==
    /\ at[a] = "closing"
    /\ disposal' = "done"
    /\ \/ /\ connection = "open"
          /\ connection' = "closed"
          /\ channel' = [c \in Channels |-> IF channel[c] \in {"open", "consuming"} THEN "closed" ELSE channel[c]]
          /\ notices' = notices + Cardinality(Consuming)
       \/ connection # "open" /\ UNCHANGED <<connection, channel, notices>>
    /\ End(a)
    /\ UNCHANGED <<shared, added, counters>>
-----------------------------------------------------------------------------
(* ReconnectAsync, called for a ConsumerCancelled event *)

Notify(a) ==
    /\ Unused(a)
    /\ notices > 0
    /\ notices' = notices - 1
    /\ Goto(a, "checkingStarted")
    /\ task' = [task EXCEPT ![a] = "restart"]
    /\ UNCHANGED <<connection, channel, shared, mine, others>>

\* mutant: a started listener is taken to need no restart
TrustStarted(a) ==
    /\ at[a] = "checkingStarted"
    /\ \/ subscription # NoChannel /\ End(a)
       \/ subscription = NoChannel /\ Goto(a, "checking") /\ UNCHANGED <<mine, task>>
    /\ UNCHANGED <<connection, channel, shared, notices, others>>

\* if (IsStarted) StopListening(); then StartListeningAsync on the pool
CheckStarted(a) ==
    /\ at[a] = "checkingStarted"
    /\ Goto(a, IF subscription # NoChannel THEN "stopping" ELSE "checking")
    /\ UNCHANGED <<connection, channel, shared, mine, task, notices, others>>

\* a caller's own StopListening
Stop(a) ==
    /\ Trouble
    /\ stops < MaxStops
    /\ stops' = stops + 1
    /\ Unused(a)
    /\ Goto(a, "stopping")
    /\ UNCHANGED <<connection, channel, shared, mine, task, notices, disposing, lost, cancelled, outages>>

ActivityStep(a) ==
    \/ CheckSubscription(a) \/ OpenChannel(a) \/ BasicConsume(a) \/ AddConsumer(a)
    \/ AssignSubscription(a) \/ Catch(a)
    \/ CheckStopping(a) \/ ReadSubscription(a) \/ Dispose(a) \/ RemoveConsumer(a)
    \/ ClearSubscription(a) \/ CheckStarted(a)
    \/ Enumerate(a) \/ RemoveAgain(a) \/ MoveOn(a) \/ CloseConnection(a)
-----------------------------------------------------------------------------
(* The broker and RabbitMQ.Client *)

Notice(c) == IF channel[c] = "consuming" THEN 1 ELSE 0

\* the broker closes a channel: HandleModelShutdown
LoseChannel(c) ==
    /\ Trouble
    /\ lost < MaxChannelLoss
    /\ lost' = lost + 1
    /\ channel[c] \in {"open", "consuming"}
    /\ channel' = [channel EXCEPT ![c] = "closed"]
    /\ notices' = notices + Notice(c)
    /\ UNCHANGED <<connection, shared, at, mine, task, disposing, cancelled, outages, stops>>

\* the queue was deleted: HandleBasicCancel, and the channel stays open without consumer
CancelConsumer(c) ==
    /\ Trouble
    /\ cancelled < MaxCancels
    /\ cancelled' = cancelled + 1
    /\ channel[c] = "consuming"
    /\ channel' = [channel EXCEPT ![c] = "open"]
    /\ notices' = notices + 1
    /\ UNCHANGED <<connection, shared, at, mine, task, disposing, lost, outages, stops>>

Outage ==
    /\ Trouble
    /\ outages < MaxOutages
    /\ outages' = outages + 1
    /\ connection = "open"
    /\ connection' = "down"
    /\ channel' = [c \in Channels |-> CASE channel[c] = "open" -> "down"
                                        [] channel[c] = "consuming" -> "downConsuming"
                                        [] OTHER -> channel[c]]
    /\ notices' = notices + Cardinality(Consuming)
    /\ UNCHANGED <<shared, at, mine, task, disposing, lost, cancelled, stops>>

\* automatic recovery reopens every channel nobody aborted, with its consumer
Recover ==
    /\ connection = "down"
    /\ connection' = "open"
    /\ channel' = [c \in Channels |-> CASE channel[c] = "down" -> "open"
                                        [] channel[c] = "downConsuming" -> "consuming"
                                        [] OTHER -> channel[c]]
    /\ UNCHANGED <<shared, at, mine, task, notices, others>>

Next ==
    \/ \E a \in Activities : ActivityStep(a) \/ Notify(a) \/ Stop(a) \/ BeginDispose(a)
    \/ \E c \in Channels : LoseChannel(c) \/ CancelConsumer(c)
    \/ Outage \/ Recover

SafetySpec == Init /\ [][Next]_vars

\* Every call once made runs on, an event raised is handled, and the connection comes
\* back; nothing makes the broker or a caller do anything.
Fairness ==
    /\ \A a \in Activities : WF_vars(ActivityStep(a))
    /\ WF_vars(\E a \in Activities : Notify(a))
    /\ WF_vars(Recover)

Spec == SafetySpec /\ Fairness
-----------------------------------------------------------------------------
\* Types, and that whoever works on a channel has one in hand: no activity disposes of
\* a subscription another set to null between its two reads (EventListener.cs:160-162).
TypeOK ==
    /\ connection \in {"open", "down", "closed"}
    /\ channel \in [Channels -> ChannelStates]
    /\ subscription \in Channels \cup {NoChannel}
    /\ registered \in Channels \cup {NoChannel}
    /\ at \in [Activities -> Places]
    /\ mine \in [Activities -> Channels \cup {NoChannel}]
    /\ task \in [Activities -> {"none", "restart", "dispose"}]
    /\ disposal \in {"none", "running", "failed", "done"} /\ added \in BOOLEAN
    /\ notices \in Nat
    /\ lost \in 0 .. MaxChannelLoss /\ cancelled \in 0 .. MaxCancels
    /\ outages \in 0 .. MaxOutages /\ stops \in 0 .. MaxStops
    /\ \A a \in Activities :
          at[a] \in {"consuming", "adding", "assigning", "disposing"} => mine[a] # NoChannel

\* When trouble comes one at a time, the listener that lost its channel or its consumer
\* ends up with one consumer again, the one both it and the EventConsumer know of
\* (EventListener.cs:75-97, EventConsumer.cs:79-91).
Undisturbed == outages = 0 /\ stops = 0 /\ disposal = "none"
RestoredExactly ==
    Settled /\ Undisturbed => /\ subscription # NoChannel
                              /\ registered = subscription
                              /\ Consuming = {subscription}

\* ... and it ends up there: one restart does not set off the next, although the old
\* subscription's callbacks are never detached (EventConsumer.cs:81-85), and neither do
\* a stop or the consumer's Dispose.
Settles == []<>(Settled \/ outages > 0)

\* With connection losses the restart races automatic recovery, which revives the
\* channel the restart gave up: whoever wins, once all is calm somebody consumes.
NotDeaf == Settled /\ stops = 0 /\ disposal = "none" => Consuming # {}

\* IsStarted (EventListener.cs:20) does not lie about a listener at rest, unless its
\* connection was closed for good.
StartedMeansConsuming ==
    Settled /\ connection = "open" /\ subscription # NoChannel => channel[subscription] = "consuming"

\* EventConsumer.Dispose (EventConsumer.cs:94-108) races the restart that its own
\* Unsubscribe sets off.  However that ends there is nothing in between: either it came
\* to its end, and the listener does not consume and cannot any more, or it failed in
\* the enumeration, and the listener consumes on one channel that StopListening knows.
DisposeSilences == outages = 0 /\ disposal = "done" => Consuming = {}
DisposedOrAlive ==
    /\ DisposeSilences
    /\ Settled /\ outages = 0 /\ stops = 0 /\ disposal = "failed" =>
           subscription # NoChannel /\ Consuming = {subscription}

\* "this command will also close channel" (EventConsumer.cs:84): a listener that was
\* stopped does not consume any more.
StopCloses == Settled /\ stops > 0 => Consuming = {}
=============================================================================
