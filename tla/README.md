# RabbiteR in TLA+

RabbiteR is a .NET library that publishes and handles events over RabbitMQ. This directory
models its core (`src/Rabbiter.Core`), checks the models with TLC and proves theorems about
every model but the abstract ones with TLAPS. Paths below are relative to the repository's
root; file names without a path are found under `src/Rabbiter.Core`.

## 1. Inventory

| Component | State | Operations | Models |
|---|---|---|---|
| Dispatcher queue, `QueueManager.cs` | `_queue`, `_running`, `_dispatcherCount` | `Enqueue`, `StartProcessor` | `QueueManager`, `Dispatcher` |
| Publisher, `EventPublisher.cs` | one `_channel`, one queue | `Publish*`, `PublishAsync`, `PublishFault*`, `PublishRange` | `PublisherChannel`; confirmations in `Delivery`, headers in `EventProcessing` |
| Sender and confirmations, `MessageSender.cs`, `MessageConfirmationDispatcher.cs`, `MessageConfirmation.cs` | dictionary id → confirmation | `SendMessageAsync`, `Approve`, `Reject`, `Unsubscribe` | `Delivery` |
| Broker-side consumer, `RmqMessageConsumer.cs` | its channel | `HandleBasicDeliver`, `OnSuccess`, `OnFailed`; cancel, shutdown, `Dispose` | `Delivery`; `EventListener` |
| Handler chain, `EventTypeBasedHandler` over `ErrorBoundaryHandler` over `MessageToEventTransformHandler` | cache event name → handler, shared by all listeners | `GetMessageHandlerAsync` and the delegates it makes | `Delivery` |
| Pipeline builder and steps, `Pipelines/` | static `_builderInstance` | `StartWith`, `AddStep`, `EndWithAndBuild`, `InvokeAsync` | `PipelineBuilder`; what the steps decide in `Delivery` |
| Reflection cache, `TypeExtensions.cs:82-152` | static `Dictionary` type → constructor | `CreateInstanceOf` | `InstanceCache` |
| Listener and consumer registry, `EventListener.cs`, `EventConsumer.cs` | `_consumerSubscription`; `_consumers` | `StartListeningAsync`, `StopListening`, `ReconnectAsync`; `SubscribeAsync`, unsubscribe, `Dispose` | `EventListener` |
| Event processing, `EventListener.ProcessIncomingEventAsync`, `EventProcessor*.cs`, `EventProcessingFaultResolver.cs` | a scope and tasks per event | resolve, run in parallel, publish the fault | `EventProcessing` |
| Topology, `RmqResourceManager.cs`, `ChannelExtensions.cs`, `EventListenersInitializer.cs` | exchanges, queues, bindings at the broker | `OpenChannel`, `StartAsync` | `PublisherChannel`; the resulting bindings in `EventProcessing` |
| Registration, `RabbiterServiceCollectionExtensions.cs` | service collection, singletons, connections | `RegisterRmqTransport`, `RegisterEventPublisher`, `RegisterEventListener`; the host's start | `Registration` |
| Configuration, event names | none | | not modelled (section 7) |

How they interact. `Publish` puts a message in the queue, whose worker task calls
`SendMessageAsync` on the publisher's channel; `PublishAsync` calls it directly. The broker
copies the message to the queue of each bound group. Each listener's channel hands messages
one at a time to `HandleBasicDeliver`, which runs the handler chain; success raises
`MessageProcessed` (the listener starts the event's processing) and acknowledges, a fault
refuses, and both outcomes are also told to the publisher's confirmation if it waits in this
process. A handler that throws (and is not merely cancelled) makes the listener publish the event on its fault exchange
through the same publisher. A channel that closes raises `ConsumerCancelled`, which restarts
the listener.

What is hard: `QueueManager` is lock-free code with several callers and workers;
`EventListener` checks a field and acts on it later on several threads while RabbitMQ.Client
recovers connections on its own; handlers, confirmations, the static pipeline builder and the
static reflection cache are shared by all groups without a lock; the container builds services
from factories that connect to the broker and may throw half-way; all publishing shares one channel that is never opened again; tasks
end in three ways (completed, faulted, cancelled) and callbacks look at two of them; messages
and channels are lost at any time. `PROJECT.json` lists the hazards line by line with the
properties that watch them.

What makes the components correct: the queue hands each accepted item to the handler once, in
order of acceptance, and does not forget one; a message is not acknowledged before its event
was handed over, nor answered twice, nor left unanswered; a publisher who waits is answered;
a listener in trouble ends up with exactly one consumer, a stopped one with none; an event's
exception leads to one fault, which reaches every group that asked for it and no other handler.

## 2. Modules

- `QueueManager` — every read, exchange and queue operation of `Enqueue` and
  `StartProcessor` is one action. A call is named by its item, and so is the task that it may
  start. `caller`/`worker` are program counters, `callerTmp`/`workerTmp` the two `runningTmp`
  locals. `handled` and `thrown` are histories.
  `Dispatcher` is what it promises: accept, take in order, hand over or refuse.
- `PublisherChannel` — extends `QueueManager`: its handler call is now `BasicPublish` on the
  publisher's channel (`Send`, `SendThrows`), which `PublishAsync` uses too. The publisher's
  connection and the listeners' are two (`ConnectToBus` runs in either factory,
  `RabbiterServiceCollectionExtensions.cs:46-56,102-113`), each lost and recovered by itself
  (`up`, `outages`). `channel` and `wire`
  are that channel and what is on its way, `declared`/`bound` the broker's exchanges, `todo` and
  `half` how far the start of the listeners has come, a listener whose connection is down being
  given up as the code does.
- `Delivery` — from `SendMessageAsync` to the acknowledgement, for several groups.
  `sender` is `PublishAsync` and the message up to the broker, `waiting`/`outcome` the
  confirmations, `broker` and `open` what the broker has, `stage` the attempt's place in
  `HandleBasicDeliver` and the handler chain, `handlerOf` the cache, `using` the dictionary
  the attempt's handler captured, stage `uncast` an attempt that ended at a header that is not
  text (`RmqMessageConsumer.cs:106`). What groups share without a lock is here by its effect: an
  attempt that finds another one building a pipeline (`Building`) may meet a null scope; one that builds at the
  same time as another leaves a handler (`raced`) whose pipeline may go round for ever, for this and
  every later message under the name, until the stack overflows and the process ends
  (`Overflow`); and of attempts in `GetInstance` at the same time (`Creating`, `CreateStarts`), one
  that stores while others store or read may cost itself or another `KeyNotFoundException`, or undo a store
  (`Create`, `CreateThrows`; `cached` is what the static dictionary holds). `torn` are the attempts that failed
  for such a reason. `AtLeastOnce` is what it promises about each delivery.
- `PipelineBuilder` — what hides behind these effects: each access of the static
  `_builderInstance`, of a builder's scope and of its `LinkedList` is a step of the call that
  builds (`at`, `hand`), and each step of a pipeline one of its invocation (`pos`, `ran`). A
  `LinkedList` is its ring of nodes, so that two unsynchronised `AddLast` may lose one. The
  final step fetches the constructor of the event's container from `InstanceCache`, which this
  module extends: `cached` is the static dictionary, `fetch` a call's place in
  `CreateInstanceOf`, `clashed` the calls that store a new key at the same time. A `Dictionary`
  is of use to one writer at a time; what it does otherwise is a choice.
- `EventListener` — one listener's life. Each call of `StartListeningAsync`,
  `StopListening`, `ReconnectAsync` or `EventConsumer.Dispose` is an activity with its own place
  (`at`), its own channel in hand (`mine`), what it is for (`task`), and one visible read or
  write per step. Channels and connection follow RabbitMQ.Client: a connection is `down` until
  it is recovered with the channels nobody aborted, and `closed` for good.
- `EventProcessing` — resolution, parallel processing and faults over all groups of an
  application; `messages` also records what caused each, so that faults can be counted. A processor
  ends well, with an exception (with or without a text) or cancelled, and what `Task.WhenAll` makes
  of them decides between `Finish`, `ResolveFault` and `Abandon`.
- `Registration` — what an application's calls leave in the service collection (`services`,
  `config`, `listeners`) and what the container makes of it (`making` is the chain of services
  being made, `created` and `connections` what is left of it after an exception). `Recipe` lists what
  each factory does in its order, the steps that may throw by themselves included: `ConnectToBus`,
  `CreateModel` at the end of the publisher's constructor and the application's
  `eventProcessorBuilder`.
- `MC*` modules — constants and symmetry for TLC. `*Proofs` — theorems.

Operators commented `mutant:` are plausible mistakes in the definition that follows them.
They are part of no specification; each shows that some property would notice.

The broker, the network, the thread pool and RabbitMQ.Client's recovery are external and
modelled from how the code uses them: per-channel serial delivery, requeueing of
unacknowledged messages when a channel goes, recovery of every channel that was not aborted,
with its consumer.

## 3. Runs

`tlc -config <cfg> <module>` in this directory.

| Run | Bounds | Shows |
|---|---|---|
| `queue_dispatch` | 3 items, handlers may throw; 9 343 states | `ItemsInOnePlace`, `DispatcherCountExact`, `WorkerBehindFlag`, `WorkersBounded`, `DeathIsFinal`; implements `Dispatcher`; `BusyWorkerDrains`, `NextCallRescues` |
| `queue_stranded` | 2 items | `NothingStranded` **fails** |
| `delivery_safety` | 2 groups, 2 messages under 2 names, 1 loss; 744 181 states, about 2 minutes | `KeptUntilGiven`, `GoodIsNeverTurnedAway`, `ConfirmationReachable`, `NoPoisonLoop` |
| `delivery_live` | 2 groups, 3 messages, one with a number for a header, 1 loss; 52 897 states, about 2 minutes | `GoodIsProcessed`, `PublishIsAnswered` |
| `delivery_rejected` | 2 groups, 3 messages, no losses | `RejectedIsSettled` **fails** |
| `listener_life` | 3 activities, 4 channels, 3 troubles one after the other out of lost channels, cancelled consumers, outages, a stop and `Dispose`; 1 399 468 states, about 2 minutes | `RestoredExactly`, `NotDeaf`, `StartedMeansConsuming`, `DisposedOrAlive`, `Settles` |
| `listener_stop` | 1 stop | `StopCloses` **fails** |
| `processing_faults` | 3 groups, 1 event, 2 failing handlers; 9 773 states, about 1 minute | `OneFaultPerFailure`, `ScopeOutlivesHandlers`, `KindsKeptApart`, `FaultIsHandled` |
| `pipeline_building` | 2 calls, 2 event types, 6 steps of an invocation; 505 972 states | `NullScopeHasBuilder`, `AloneIsWhole`, `RoundOnlyAfterRace`, `MissingOnlyIfDisturbed`, `AloneEnds` |
| `publisher_channel` | 2 queued messages, 1 direct, 2 listeners, 1 outage of either connection; 407 397 states, about 2 minutes | `TroubleHasCause`, `ReachesListeners` |
| `publisher_able` | 3 queued messages, no outage | `AbleToPublish` **fails** |
| `registration` | 4 calls, 2 configurations, 2 failures of the bus or of the application, 2 services asked for; 9 811 states | `EveryListenerStarts`, `ConnectionsAreOwned`, `TransportIsComplete`, `OneBus` |

Why the bounds are enough. A stale `runningTmp` needs one call to read, a second to change the
flag and a third to act on it, and three items suffice for an extra worker next to a dead one; the
safety properties are proved for any number. Two groups show every effect of sharing a handler, a
confirmation or a static, with one message routed to both and one under another name, whose
handler is built and run at the same time; the live run has a message that fails and one that
cannot even be looked at. One loss already interleaves with every step of an attempt and of its
redelivery, and the tag of the second attempt differs from the first; `MaxLosses` also bounds
attempts. In the safety run of `Delivery` one message is published by the process itself and the
other, from elsewhere, has no event-id and is refused; the event of the first is constructed by
both groups at once. In the live run two are published, one group has a message it can handle
behind one whose header cannot be cast, and the other group the message that is rejected. In
`EventListener` three activities let a restart, a stop or `Dispose` and a further notice overlap,
and four channels are more than are ever alive at once; three troubles are enough for an outage to
leave a second consumer, for its loss to start another restart, and for a stop or `Dispose` to
follow. Two throws let both handlers of a group fail, or a handler and then a fault handler, and
each failure may be of either kind. Every race of `PipelineBuilder` is between two calls: one that
replaces the instance and one that has it in hand or looks at it; six steps are one more than a
list of all nodes and the final step, so that a longer run is going round; of the reflection cache
two types let one call's store lose the other's entry. In `Registration` four calls are a repeated
transport with two configurations, a listener before it and one after it; two failures let a
publisher's channel fail twice or let a request follow one. In `PublisherChannel` one message to a
missing exchange and one outage already end the channel, before, between and after the other
messages.

`Spaced` makes trouble (a lost channel, a cancelled consumer, an outage, a stop, `Dispose`) wait until
the listener is at rest. This is a real restriction of these runs, not of the code: without it
the check-then-act sequences of `EventListener.cs:44,160-162` meet each other and the
listener may be left deaf or with two consumers, since a failed restart is not retried
(`EventListener.cs:69`); a `Dispose` that meets a start may leave an entry in `_consumers` for a
listener that consumes no more. After an outage, too, automatic recovery and the restart may leave
two consumers, and closing the healthy one starts the next restart; so `RestoredExactly`
and `Settles` are claimed without outages and only `NotDeaf` and `StartedMeansConsuming`
with them. `Dispose` during an outage closes nothing, since it asks `_connection.IsOpen`
(`EventConsumer.cs:102`), and the recovery brings the connection of a disposed consumer back;
so `DisposedOrAlive` is claimed without outages as well. Its first part, `DisposeSilences`,
needs no spacing, as section 5 says.

### What fails

- `NothingStranded` (`QueueManager.cs:57-63`): the worker sees the queue empty; a call
  queues its item and finds `_running` still 1; the worker lowers the flag and ends. The item
  stays until some later `Enqueue` (`NextCallRescues`). The load test
  (`tests/Rabbiter.IntegrationTests/PerformanseTests.cs:40`) expects all to be processed.
- `RejectedIsSettled` (`ErrorBoundaryHandler.cs:45`): awaiting a continuation that was
  cancelled because the pipeline failed ends the handler's task as cancelled, which neither of
  `RmqMessageConsumer`'s continuations is for. The publisher hears of the rejection, the
  broker does not.
- `StopCloses` (`EventConsumer.cs:81-85`): removing a new lambda from an event removes
  nothing; aborting the channel raises `ConsumerCancelled`, and the listener restarts.
- `AbleToPublish` (`EventPublisher.cs:41-44`): the broker closes a channel on which something is
  published to an exchange it does not have. An event that nobody listens to yet is enough, and so
  is a handler that throws when no group has an `OnFault` for its event
  (`EventProcessingFaultResolver.cs:38`). The publisher never opens another channel: from then on
  `PublishAsync` throws and a worker of the queue that sends dies, and if it dies with the flag up
  (`DeathIsFinal`), `Publish` goes on returning and nothing is sent. `TroubleHasCause` says that
  besides a lost connection nothing else does this.

Two divergences of the documentation have no run of their own. The repository's README (line 143)
says that if an exception occurs within an event handler, Rabbiter tries to redirect it to the
fault exchange. If those handlers of the group that failed all ended cancelled (an
`OperationCanceledException`, such as the timeout of an `HttpClient`), `Task.WhenAll` is cancelled and has
no `Exception`: nothing is published and the event is only logged (`EventListener.cs:132,141`;
`Abandon`). Hence `OneFaultPerFailure` and `FaultIsHandled` speak of failures with an exception. And
lines 96-110 say that a service that only publishes calls `RegisterEventPublisher` alone. That call
registers neither `IEventNameResolvingStrategy` nor `MessageConfirmationDispatcher`, which
only `RegisterRmqTransport` adds, so that resolving `IEventPublisher` throws
(`RabbiterServiceCollectionExtensions.cs:88-113`): hence the precondition of
`TransportIsComplete`.

Five limits are visible in passing properties rather than in failing ones.

- `GoodIsNeverTurnedAway` is checked for groups that agree on the class of an event name: the one
  cached handler per name (`EventTypeBasedHandler.cs:33-39`) holds the first group's dictionary, and
  a group with a class of its own would be given the first one's.
- `GoodIsNeverTurnedAway` and `GoodIsProcessed` except `torn` attempts, that is good messages that fail,
  are reported as rejected and stay unacknowledged because another group's thread was building a
  pipeline (`BasePipelineBuilder.cs:23-28`) or storing a constructor
  (`TypeExtensions.cs:98,105,151`) at that moment. A handler left with a ring by a raced build does worse:
  it ends the process whenever it is used. `MaxLosses` bounds how often that happens, so that
  `GoodIsProcessed` holds of messages that survive it.
- `ConnectionsAreOwned` excepts one place: `CreateModel` at the end of the publisher's constructor
  (`EventPublisher.cs:41`) throws with the connection open, which then nobody owns, and the next
  request for the publisher opens another one (`refused` counts them).
- `KindsKeptApart` excepts exceptions without a text, whose fault is taken for an ordinary event
  (`EventPublisher.cs:129`).
- `RoundOnlyAfterRace` says when a pipeline goes round for ever: its builder's list had two nodes
  added as the first (`BasePipelineBuilder.cs:68`), and the walk of `BuildChain` started at the loser.

## 4. Fairness

- `QueueManager`: weak fairness of each call once begun and of each task. `Enqueue` has no
  lock and no wait, and the thread pool runs what it was given. No fairness makes anybody
  call `Enqueue`, and none is assumed of the individual branch.
- `PublisherChannel`: the same of calls and workers; the listeners are started, the broker takes
  what is on the wire, a closed channel is noticed, a lost connection recovered.
- `PipelineBuilder`: a channel thread that has begun handling a message goes on, through the
  reflection cache as well.
- `Delivery`: weak fairness of the broker's routing and delivery, of reopening a lost
  channel, and of each attempt's next step (the channel's thread, the pool). Publishing,
  losing and crashing are never forced. Reopening stands for a restart that succeeds.
- `EventListener`: each activity goes on, a raised event is handled, the connection returns.
  Nothing makes a channel close or anybody call `StopListening` or `Dispose`.
- `Registration` has safety properties only.
- `EventProcessing`: delivered events are taken up and handlers end, by returning,
  throwing or being cancelled.

Deadlock is not checked: in every model the system rests once what was offered is done.

## 5. Proofs

`QueueManagerProofs`, for every finite set of items and either value of
`HandlerMayThrow` (assumptions `MessagesAssumption`, `HandlerAssumption`).

1. `TypedInvariant`: `Typed`, that is `TypeOK` with `HandsFull` (a task that calls the
   handler holds an item) and `StartedOnce` (a task exists only once its call returned), is
   inductive. `TypeCorrect` follows. `HandsFull` keeps `handled` a set of items; `StartedOnce`
   lets a step that starts a task know that it overwrites none.
2. `FlagHasWorker`: `WorkerBehindFlag` is inductive relative to `Typed`. `TypeOK` alone would
   not do: the flag goes down only by the exchange of a task that saw it up, hence the
   conjunct `Committed`. A call that starts a task stands behind the flag itself; a task that
   exchanges either lowers the flag or was not committed.
3. `CountIsExact`: every step moves one item between "being added", "queued" and "in a
   hand", or changes the counter with it; by the cardinality theorems.
4. `NoRevival`: in a dead state only callers move, and none of their steps changes the flag.
5. `OnePlace`: `ItemsInOnePlace` is inductive relative to `Typed`; lemmas `AppendAdds` and
   `TailRemoves` turn the sequence into the set of its elements.
6. `Implements`: each step is a step of `Dispatcher` or a stutter. It needs `Fresh` for
   accepting and `HeldOnce` for handing over: without them a second worker with the same
   item would make the mapped `taken` wrong.
7. `WorkersAreFew`: `WorkersBounded` counts tasks. Each exchange that starts a task either raised
   the flag or was made on a stale reading, and a task that ends either lowers the flag or was one
   too many; cardinalities of `Unended` and `StartedStale` move together.

`DeliveryProofs`, for all groups, messages, routings, subscriptions and losses
(`DeliveryAssumption`).

1. `Sound`: `TypeOK` with `Named` (a handler is built for a message that has a name) and
   `Counted`, is inductive. `TypeOK` needs `Counted`: an attempt is within its bound because a
   ready message was delivered at most as often as something was lost. `TypeCorrect` and
   `OnlyLossesRepeat` (`NoPoisonLoop`) follow.
2. `Fresh`: an attempt with a number not reached yet is nowhere, so that a new delivery
   overwrites the stage of none (`DeliverTakesNew`). With it `PublisherIsReachable`
   (`ConfirmationReachable`): the attempt that answered is never forgotten.
3. `Implements`: with `Truthful` (who is about to acknowledge has handed over, who is about to
   refuse met a missing header) each step is a step of `AtLeastOnce` or a stutter. Handing over
   what the broker holds or has closed rests on `Fresh` and `Counted`: an attempt exists only
   after a delivery, and what was delivered is no longer absent.
4. `SharingIsHarmless` assumes `Agreement`: groups take a name for one class, and queues are
   bound only to names that their group handles. Then each captured dictionary knows the name it
   is used for (`Shared`), so that an attempt can fail only at a moment at which another one was building or
   storing, and then it is `torn`: `GoodIsNeverTurnedAway`. Without `Agreement` it is false:
   one handler per event name serves all groups. That a constructor is looked for only with a type
   the dictionary gives is `Named`; lemmas `Joining`, `LookingUp` and `Transforming` say whom a
   step over a shared static may disturb: only attempts that are at it too.

`EventProcessingProofs`, for all groups, processors, events and throws
(`ProcessingAssumption`). `IInv` is `TypeOK` with `Published` (deliveries are of messages that
exist), `ScopeKept` (before processing nobody has a result, after it nobody runs, whoever has
one was resolved, and a delivery is faulted if and only if one of them failed with an exception) and `Caused` (a message is an event from outside or the one fault of a delivery
that failed, marked as an error if the first failure has a text). `OneFault`,
`ScopeLivesLongEnough` and `KindsAreApart` are read off it. A fault published for one delivery must
not disturb another's state: that is `Distributed`, which needs `Published`.

`EventListenerProofs`, for any number of activities, channels and troubles
(`ListenerAssumption`; there is at least the call that starts the listener).

1. `TypeCorrect`, whose last conjunct says that whoever works on a channel has one in hand, and
   `DisposeIsFinal`, for either value of `Spaced`: without an outage nothing consumes once
   `Dispose` came to its end, however restarts interleave with it, since a connection closed for
   good opens no channel (`Silenced`).
2. The other four assume `Spaced`, as the run does; without it they are false (section 3).
   `Restored` (`RestoredExactly`) and `DisposeOrLive` (`DisposedOrAlive`) rest on `InHand`: until an
   outage, a stop or the end of `Dispose` there is at most one start or restart, `WorkAt` says of each
   of its places which channels are alive and what field and dictionary hold, and if there is
   none the listener consumes or one notice is on its way (`AtRest`). One notice at a time is the
   point: the restart disposes of a channel that has no consumer any more, so that its own
   `Dispose` raises no second one. `EventConsumer.Dispose` is followed to its `MoveNext`
   (`DisposeAt`), and `Owned` keeps its places from everybody else.
3. `StartedConsumes` (`StartedMeansConsuming`) holds through outages, stops and `Dispose`.
   `Tended`: a channel that an activity has opened is known to nobody else until it is handed over
   (`AllFresh`), so that what is assigned to the field consumes; and if the channel in the
   field has no consumer, somebody is about to set the field to null or a notice is still to be
   handled (`CaredFor`). An outage may set off many restarts at once; the invariant counts none.
4. `SomebodyConsumes` (`NotDeaf`) adds `Heard`: either a channel with a consumer is out of
   everybody's reach (`Orphan`; nothing takes it away but the broker), or whoever gives a
   subscription up will start again (`RestartsOnly`), somebody is about to start while there
   is none (`Started`), and while the connection is down the only restart has a channel left that
   recovery will revive (`OneRestart`). The two ways in which a start fails keep it: while the connection
   is down the restart that cannot open a channel has made the old one an orphan, and one that
   finds the entry taken makes its own new channel one.

`PublisherChannelProofs`, for all messages, exchanges and listeners (`ChannelAssumption`).

1. `TroubleIsCaused`: as long as nothing was refused and the publisher's connection was not lost,
   the channel is open, so neither branch that throws is enabled (`Calm`, inductive).
2. `UsesTheQueue`: each step is a step of `QueueManager` or leaves its variables alone, so that a
   publisher implements the queue's `SafetySpec`. `PublishedInOrder` reads the queue's theorems
   off it: order, counting, the number of workers and `DeathIsFinal` hold with a channel
   that is refused or lost at any time.
3. `ChannelTypeCorrect` (`ChannelTypeOK`) needs the queue too: that only items of callers get on the
   channel is `ItemsInOnePlace`, and that nothing undeclared is bound `DeclaredFirst`.

`PipelineBuilderProofs`, for any finite number of calls (`PipelineAssumption`).

1. `ScopeIsOnItsWay`: the invariant `CreatorOwes` adds to `NullScopeHasBuilder` that the creator of
   the current instance, once it has read the target of its assignment, has this very instance
   in hand; without it a later call could replace what it will assign to.
2. `UndisturbedGetTheirConstructor` (`MissingOnlyIfDisturbed`) takes the steps of the cache from
   `InstanceCacheProofs`, whose invariant `Kept` says that a call nobody disturbed finds its key,
   since a key can be lost only to a store at the same time.
3. `TypeCorrect`: `Typed` adds that who adds steps has an instance in hand.
4. `WholeIfAlone` (`AloneIsWhole`): for a call that no other overlapped, nobody else has its
   instance in hand or will read it from the static field (`Apart`), no other list holds or links to its
   nodes (`Separate`), and its list is, by its place, empty, the ring of one node or of two
   (`Grown`). A later call cannot come by the instance, so the ring stays; `Walked` then says how far
   an invocation has come along it.
5. `RoundOnlyIfRaced` (`RoundOnlyAfterRace`): as long as no list had two nodes added as the first,
   the nodes have an order, the one in which they looked for the head (`Orderly`: there is a
   numbering `f` with `Ranked`). No `next` leads back in it but to the head, where `Follow` stops, although
   a lost `AddLast` may skip nodes. The steps an invocation has run are therefore at most the nodes
   up to its place (`Paced`), and their number is bounded by cardinality. The order is not a
   variable of the model: each step proves that there still is one.

`RegistrationProofs`, for any number of calls, configurations, questions and failures.

1. `OneBusForAll`, and `NothingIsMissing` (`TransportIsComplete`), whose invariant relates the chain of
   services being made to what is registered.
2. `AllListenersStart` (`EveryListenerStarts`): the list the host starts is the one calls filled,
   counted along (`Started`).
3. `NoConnectionIsLeft` (`ConnectionsAreOwned`): along the chain of factories levels descend, so that
   no service is made inside itself (`Nested`); what is registered or made has what it takes
   (`Provided`); so a factory that has connected, which has one connection beside those left before,
   lacks nothing any more (`Owned`), and only its own `CreateModel` can fail, which leaves that one
   connection. The publisher's needs the detail that its sender is made before it connects.

Every invariant that a passing run checks is thus proved for all values of the constants, and so are the
action properties and refinements; `RestoredExactly`, `NotDeaf`, `StartedMeansConsuming` and
`DisposedOrAlive` under `Spaced`. Only model-checked is liveness (`BusyWorkerDrains`,
`NextCallRescues`, `GoodIsProcessed`, `PublishIsAnswered`, `Settles`, `FaultIsHandled`, `AloneEnds`,
`ReachesListeners`), which rests on fairness and `ENABLED`.

## 6. Plan

Done, in this order of importance: the queue, delivery, the listener's life, processing and
faults, the publisher's channel, the pipeline builder with the reflection cache, registration.

What could follow: two listeners over one `_consumers` dictionary (`EventConsumer.cs:24`), and
what is left of `EventListener`'s promises when troubles are not spaced.

## 7. Not modelled

- Connection strings, hosts and configuration (`Config/`): regular expressions and
  assignments without state. `AutomaticRecoveryEnabled` is taken to be on, the client's default.
- Event names (`EventNameResolver.cs`): a regular expression; the models use distinct names
  for an event and its fault.
- JSON payloads and the message and event classes: data; what matters of them (headers
  present and text, payload readable as a type) is a constant of `Delivery`.
- The rest of `TypeExtensions.cs`: reflection and compiled expressions without state. A read
  of the unsynchronised `Dictionary` that never returns is left out of `InstanceCache`.
- Several listeners that change the one `_consumers` dictionary at once (`EventConsumer.cs:24`):
  `EventListener` has one listener; the hazard is listed.
- Message ids given by the caller twice (`Publish(event, group, id)`): the models take ids to
  be distinct.
- The declarations' arguments (durable, fanout) and the scoped steps in the container.
- The `WebClient` sample and the tests. The sample's scripts
  (`src/WebClient/wwwroot/lib/jquery-validation-unobtrusive/jquery.validate.unobtrusive.js`, vendored,
  and the comment-only `src/WebClient/wwwroot/js/site.js`) are the only JavaScript of the repository
  outside minified libraries. They belong to the page of a demonstration and to no part of
  RabbiteR, which is C#; a line count that sees JavaScript only finds nothing of them modelled.
