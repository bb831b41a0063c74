-------------------------- MODULE PublisherChannel --------------------------
(* The one channel of an EventPublisher.  Its queue's handler is              *)
(* SendMessageAsync on that channel, which PublishAsync uses as well, while   *)
(* EventListenersInitializer starts the listeners one after the other and     *)
(* each declares and binds the exchanges of its events, over a connection of  *)
(* the EventConsumer's that is not the publisher's (ConnectToBus, twice).     *)
(*                                                                            *)
(* External: the broker takes the channel's frames in order and closes the    *)
(* channel at the first that names an exchange it does not have; nothing in   *)
(* the code opens another.  Recovery after a lost connection is               *)
(* RabbitMQ.Client's.  Exchanges and bindings are durable.                    *)
EXTENDS QueueManager

CONSTANTS
    Direct,      \* messages sent by PublishAsync; Messages go through the queue
    Exchanges,
    ExchangeOf,  \* of a message: its event's name, or its event's fault name
    Startup,     \* what the listeners, one after the other, declare and bind
    MaxOutages   \* bound: lost connections

Connections == {"consumer", "publisher"}

Sent == Messages \cup Direct

ASSUME ChannelAssumption ==
    /\ Direct \cap Messages = {}
    /\ ExchangeOf \in [Sent -> Exchanges]
    /\ Startup \in Seq([group : STRING, exchange : Exchanges])
    /\ MaxOutages \in Nat
    /\ HandlerMayThrow

VARIABLES
    channel,     \* _channel: "refused" is closed by the broker and not by the client yet
    up,          \* the connections that are open
    wire,        \* published on the channel, not yet seen by the broker
    declared,    \* exchanges the broker has
    bound,       \* exchanges that lead to a listener's queue
    todo,        \* what is left of Startup
    half,        \* is the exchange of its head declared, and not yet bound?
    listening,   \* history: exchanges that OpenChannel has dealt with
    direct,      \* what became of PublishAsync(m)
    arrived,     \* history: messages that reached a listener's queue
    refused,     \* history: messages for which the broker had no exchange
    outages      \* how often each connection was lost

startupVars == <<declared, bound, todo, half, listening>>
brokerVars == <<channel, up, wire, arrived, refused, outages>>
channelVars == <<startupVars, brokerVars, direct>>
allVars == <<vars, channelVars>>

\* An earlier run of the application may have declared some exchanges.
ChannelInit ==
    /\ Init
    /\ channel = "open" /\ up = Connections
    /\ wire = <<>>
    /\ \E k \in 0 .. Len(Startup) :
          declared = {Startup[i].exchange : i \in 1 .. k} /\ bound = declared
    /\ todo = Startup /\ half = FALSE /\ listening = {}
    /\ direct = [m \in Direct |-> "none"]
    /\ arrived = {} /\ refused = {}
    /\ outages = [c \in Connections |-> 0]
-----------------------------------------------------------------------------
(* The listeners start: RmqResourceManager.OpenChannel for each *)

Upcoming == Head(todo).exchange

\* mutant: the binding is made before the exchange is declared
BindFirst ==
    /\ "consumer" \in up /\ todo # <<>> /\ ~half
    /\ bound' = bound \cup {Upcoming}
    /\ half' = TRUE
    /\ UNCHANGED <<declared, todo, listening, vars, brokerVars, direct>>

\* channel.ExchangeDeclare(exchangeName, ...), on the listener's own channel
ExchangeDeclare ==
    /\ "consumer" \in up /\ todo # <<>> /\ ~half
    /\ declared' = declared \cup {Upcoming}
    /\ half' = TRUE
    /\ UNCHANGED <<bound, todo, listening, vars, brokerVars, direct>>

\* mutant: bindToExchange is left null
NoExchangeBind ==
    /\ "consumer" \in up /\ half
    /\ listening' = listening \cup {Upcoming}
    /\ half' = FALSE /\ todo' = Tail(todo)
    /\ UNCHANGED <<declared, bound, vars, brokerVars, direct>>

\* channel.ExchangeBind(bindToExchange, exchangeName, "")
ExchangeBind ==
    /\ "consumer" \in up /\ half
    /\ bound' = bound \cup {Upcoming}
    /\ listening' = listening \cup {Upcoming}
    /\ half' = FALSE /\ todo' = Tail(todo)
    /\ UNCHANGED <<declared, vars, brokerVars, direct>>

\* OpenChannel throws, StartListeningAsync returns false, the next listener's turn comes
StartFails ==
    /\ "consumer" \notin up /\ todo # <<>>
    /\ half' = FALSE
    /\ \E k \in 1 .. Len(todo) :
          /\ \A i \in 1 .. k : todo[i].group = Head(todo).group
          /\ k < Len(todo) => todo[k + 1].group # Head(todo).group
          /\ todo' = SubSeq(todo, k + 1, Len(todo))
    /\ UNCHANGED <<declared, bound, listening, vars, brokerVars, direct>>
-----------------------------------------------------------------------------
(* BasicPublish on _channel *)

Usable == channel \in {"open", "refused"}
BasicPublish(m) == Usable /\ wire' = Append(wire, m)

Send(w) ==
    /\ HandlerReturns(w)
    /\ BasicPublish(item[w])
    /\ UNCHANGED <<startupVars, channel, up, arrived, refused, outages, direct>>

\* AlreadyClosedException, in the worker
SendThrows(w) ==
    /\ HandlerThrows(w)
    /\ ~Usable
    /\ UNCHANGED channelVars

\* mutant: PublishAsync disposes of the channel it used
PublishAndDispose(m) ==
    /\ direct[m] = "none"
    /\ Usable
    /\ BasicPublish(m)
    /\ channel' = "closed"
    /\ direct' = [direct EXCEPT ![m] = "sent"]
    /\ UNCHANGED <<vars, startupVars, up, arrived, refused, outages>>

\* PublishAsync does not queue: the caller's own thread sends, and gets the exception.
PublishAsync(m) ==
    /\ direct[m] = "none"
    /\ \/ BasicPublish(m) /\ direct' = [direct EXCEPT ![m] = "sent"]
       \/ ~Usable /\ direct' = [direct EXCEPT ![m] = "threw"] /\ UNCHANGED wire
    /\ UNCHANGED <<vars, startupVars, channel, up, arrived, refused, outages>>

\* Publish: the steps of Enqueue ...
Publish(m) == ReadRunning(m) /\ UNCHANGED channelVars
PublishStep(m) == EnqueueStep(m) /\ UNCHANGED channelVars

\* ... and of the worker, whose handler sends
SendingStep(w) ==
    \/ Send(w) \/ SendThrows(w)
    \/ /\ DequeueItem(w) \/ FindEmpty(w) \/ WorkerReadRunning(w) \/ WorkerExchange(w) \/ CountDown(w)
       /\ UNCHANGED channelVars
-----------------------------------------------------------------------------
(* The broker and the network *)

Route ==
    LET m == Head(wire) IN
    /\ wire # <<>>
    /\ wire' = Tail(wire)
    /\ \/ /\ channel = "open" /\ ExchangeOf[m] \in declared
          /\ arrived' = IF ExchangeOf[m] \in bound THEN arrived \cup {m} ELSE arrived
          /\ UNCHANGED <<channel, refused>>
       \/ /\ channel = "open" /\ ExchangeOf[m] \notin declared
          /\ channel' = "refused"
          /\ refused' = refused \cup {m}
          /\ UNCHANGED arrived
       \/ channel # "open" /\ UNCHANGED <<channel, refused, arrived>>
    /\ UNCHANGED <<vars, startupVars, direct, up, outages>>

\* the client learns that its channel is closed
NoticeClose ==
    /\ channel = "refused"
    /\ channel' = "closed"
    /\ UNCHANGED <<vars, startupVars, direct, up, wire, arrived, refused, outages>>

Outage(c) ==
    /\ outages["consumer"] + outages["publisher"] < MaxOutages
    /\ c \in up
    /\ outages' = [outages EXCEPT ![c] = @ + 1]
    /\ up' = up \ {c}
    /\ \/ /\ c = "publisher"
          /\ channel' = IF channel = "open" THEN "down" ELSE "closed"
          /\ wire' = <<>>
       \/ c = "consumer" /\ UNCHANGED <<channel, wire>>
    /\ UNCHANGED <<vars, startupVars, direct, arrived, refused>>

\* a channel that was open comes back; one that the broker had closed may
Recover(c) ==
    /\ c \notin up
    /\ up' = up \cup {c}
    /\ channel' \in CASE c = "consumer" -> {channel}
                      [] channel = "down" -> {"open"}
                      [] OTHER -> {"open", "closed"}
    /\ UNCHANGED <<vars, startupVars, direct, wire, arrived, refused, outages>>
-----------------------------------------------------------------------------
StartupStep == ExchangeDeclare \/ ExchangeBind \/ StartFails

ChannelNext ==
    \/ \E m \in Messages : Publish(m) \/ PublishStep(m) \/ SendingStep(m)
    \/ \E m \in Direct : PublishAsync(m)
    \/ StartupStep
    \/ Route \/ NoticeClose
    \/ \E c \in Connections : Outage(c) \/ Recover(c)

\* The listeners are started, the broker works, a closed connection is recovered and
\* the pool runs the workers; nobody has to publish.
ChannelFairness ==
    /\ \A m \in Messages : WF_allVars(PublishStep(m)) /\ WF_allVars(SendingStep(m))
    /\ WF_allVars(StartupStep)
    /\ WF_allVars(Route) /\ WF_allVars(NoticeClose)
    /\ \A c \in Connections : WF_allVars(Recover(c))

ChannelSafetySpec == ChannelInit /\ [][ChannelNext]_allVars
ChannelSpec == ChannelSafetySpec /\ ChannelFairness
-----------------------------------------------------------------------------
\* Types, and that an exchange is bound only once it is declared, which would close the
\* listener's channel too (ChannelExtensions.cs:13-22).
ChannelTypeOK ==
    /\ channel \in {"open", "refused", "closed", "down"}
    /\ up \subseteq Connections
    /\ wire \in Seq(Sent)
    /\ declared \subseteq Exchanges
    /\ bound \subseteq declared
    /\ todo \in Seq([group : STRING, exchange : Exchanges])
    /\ half \in BOOLEAN /\ (half => todo # <<>>)
    /\ listening \subseteq Exchanges
    /\ direct \in [Direct -> {"none", "sent", "threw"}]
    /\ arrived \subseteq Sent /\ refused \subseteq Sent
    /\ outages \in [Connections -> 0 .. MaxOutages]

\* No worker of the queue dies in its handler and no PublishAsync throws but for a loss of
\* the publisher's own connection or for an earlier message to an exchange that nobody had declared, be it
\* of another caller and of another event type (EventPublisher.cs:41-44).
TroubleHasCause ==
    outages["publisher"] = 0 /\ refused = {}
        => thrown = {} /\ \A m \in Direct : direct[m] # "threw"

\* A message sent after the listeners have started and bound its exchange gets into
\* their queues, unless the publisher's channel or connection is lost (RmqResourceManager.cs:35-42).
OnWire == {wire[i] : i \in 1 .. Len(wire)}
ReachesListeners ==
    \A m \in Sent :
        (m \in OnWire /\ ExchangeOf[m] \in listening) ~>
            (m \in arrived \/ refused # {} \/ outages["publisher"] > 0)

\* "After transport registration you are able to use IEventPublisher within your
\* services to publish specific event to bus" (README.md:135): the publication of an
\* event whose exchange exists does not fail while the broker is there.
AbleToPublish == \A m \in thrown : ExchangeOf[m] \notin declared
=============================================================================
