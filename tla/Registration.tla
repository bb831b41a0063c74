---------------------------- MODULE Registration ----------------------------
(* RabbiterServiceCollectionExtensions: what an application's calls leave in  *)
(* the service collection, and what its container makes of that when the host *)
(* starts the listeners and the application asks for services.                *)
(*                                                                            *)
(* Service collection, container, host and broker are external.  TryAdd keeps *)
(* the first registration; a singleton is made when it is first asked for,    *)
(* after what its constructor or factory takes, and an exception on the way   *)
(* keeps the singletons made so far.  Left out: the scoped steps of the       *)
(* pipeline, which nothing here takes, and that each call that gets so far    *)
(* decorates IHandler once more, which still takes the same one service.      *)
EXTENDS Naturals, Sequences, SequencesExt

CONSTANTS Configurations, None,
          MaxCalls,    \* bound: calls of the Register methods
          MaxAsks,     \* bound: times the application asks for a service
          MaxFailures  \* bound: times something else than a lack of services throws

ASSUME RegistrationAssumption ==
    None \notin Configurations /\ {MaxCalls, MaxAsks, MaxFailures} \subseteq Nat

VARIABLES
    services,     \* the services registered, but for the listeners
    config,       \* the configuration that the factory of a service captured
    listeners,    \* how many EventListener factories are registered
    host,         \* where the application's host is
    making,       \* services being made: each is taken by the one before it
    created,      \* the singletons made ...
    made,         \* ... and how many of the EventListeners
    connections,  \* how many connections the factory of a service has opened
    started,      \* how many listeners StartAsync has started
    transported,  \* history: calls of RegisterRmqTransport that began, and that returned
    groups,       \* history: calls of RegisterEventListener
    refused,      \* history: times CreateModel threw in the publisher's constructor
    published,    \* history: whether the application called RegisterEventPublisher itself
    missed,       \* history: services that were needed and not registered
    calls, asks, failures

collection == <<services, config, listeners, transported, groups, published, calls>>
container == <<making, created, made, connections, missed, refused, failures>>
vars == <<collection, container, host, started, asks>>

Connected == {"IEventConsumer", "IEventPublisher"}
All == "IEnumerable<EventListener>"
Names == "IEventNameResolvingStrategy"
Payload == "IPayloadTransformStrategy"
Steps == {"connect", "CreateModel", "eventProcessorBuilder"}
Dispatcher == "MessageConfirmationDispatcher"
Faults == "IEventProcessingFaultResolvingStrategy"

Init ==
    /\ services = {}
    /\ config = [s \in Connected |-> None]
    /\ listeners = 0
    /\ host = "configuring"
    /\ making = <<>> /\ created = {} /\ made = 0
    /\ connections = [s \in Connected |-> 0]
    /\ started = 0
    /\ transported = [begun |-> 0, returned |-> 0]
    /\ groups = 0 /\ published = FALSE /\ missed = {} /\ refused = 0
    /\ calls = 0 /\ asks = 0 /\ failures = 0
-----------------------------------------------------------------------------
(* The Register methods *)

Call == host = "configuring" /\ calls < MaxCalls /\ calls' = calls + 1
            /\ UNCHANGED <<container, host, started, asks>>

\* mutant: AddSingleton for the publisher, of which the last one counts
ReplacePublisher(S, c) ==
    config' = [s \in Connected |->
                  IF s \in S /\ (config[s] = None \/ s = "IEventPublisher") THEN c ELSE config[s]]

\* TryAddSingleton with a factory that closes over the configuration
Capture(S, c) ==
    config' = [s \in Connected |-> IF s \in S /\ config[s] = None THEN c ELSE config[s]]

\* mutant: the dispatcher is left to RegisterMessageHandlers
WithoutDispatcher == {"IRmqResourceManager", Names}

\* what RegisterRmqTransport registers before anything can throw
Common == {"IRmqResourceManager", Names, Dispatcher}

Return == transported' = [begun |-> transported.begun + 1, returned |-> transported.returned + 1]
Throw == transported' = [transported EXCEPT !.begun = @ + 1]

\* Another format than JSON throws, and so may the application's configBuilder.
RegisterRmqTransport(c) ==
    /\ Call
    /\ UNCHANGED <<listeners, groups, published>>
    /\ \/ services' = services \cup Common /\ Throw /\ UNCHANGED config
       \/ services' = services \cup Common \cup {Payload, "IHandler"} /\ Throw /\ UNCHANGED config
       \/ /\ services' = services \cup Common \cup Connected
                             \cup {Payload, "IHandler", "IHostedService", "IMessageSender"}
          /\ Capture(Connected, c)
          /\ Return

\* configBuilder throws at once, another format once the sender is registered.
RegisterEventPublisher(c) ==
    /\ Call
    /\ published' = TRUE
    /\ UNCHANGED <<listeners, groups, transported>>
    /\ \/ UNCHANGED <<services, config>>
       \/ services' = services \cup {"IMessageSender"} /\ UNCHANGED config
       \/ /\ services' = services \cup {"IMessageSender", Payload, "IEventPublisher"}
          /\ Capture({"IEventPublisher"}, c)

\* mutant: TryAddSingleton for the listener, as for the other services
RegisterFirstListener ==
    /\ Call
    /\ services' = services \cup {Faults}
    /\ listeners' = 1
    /\ groups' = groups + 1
    /\ UNCHANGED <<config, transported, published>>

RegisterEventListener ==
    /\ Call
    /\ services' = services \cup {Faults}
    /\ listeners' = listeners + 1
    /\ groups' = groups + 1
    /\ UNCHANGED <<config, transported, published>>
-----------------------------------------------------------------------------
(* The container *)

\* mutant: the publisher's factory connects before it takes the sender
ConnectFirst(s) ==
    CASE s = "IEventPublisher" -> <<"connect", "IMessageSender", Names, Payload, "CreateModel">>
      [] s = "IEventConsumer"  -> <<"connect", "IRmqResourceManager", "IHandler">>
      [] s = "EventListener"   -> <<"IEventConsumer", Names, "eventProcessorBuilder", Faults>>
      [] s = All               -> [i \in 1 .. listeners |-> "EventListener"]
      [] s = Faults            -> <<"IEventPublisher">>
      [] s \in {"IMessageSender", "IHandler"} -> <<Dispatcher>>
      [] OTHER                 -> <<>>

\* what the factory or the constructor of a service takes and does, in its order
Recipe(s) ==
    CASE s = "IEventPublisher" -> <<"IMessageSender", "connect", Names, Payload, "CreateModel">>
      [] s = "IEventConsumer"  -> <<"connect", "IRmqResourceManager", "IHandler">>
      [] s = "EventListener"   -> <<"IEventConsumer", Names, "eventProcessorBuilder", Faults>>
      [] s = All               -> [i \in 1 .. listeners |-> "EventListener"]
      [] s = Faults            -> <<"IEventPublisher">>
      [] s \in {"IMessageSender", "IHandler"} -> <<Dispatcher>>
      [] OTHER                 -> <<>>

Registered(s) == s \in services \cup {All, "EventListener"}
Current == Last(making)
Complete == Current.at > Len(Recipe(Current.service))
Item == Recipe(Current.service)[Current.at]
There == IF Current.service = All THEN Current.at <= made ELSE Item \in created

Make(s) == [service |-> s, at |-> 1]
Advance == making' = [making EXCEPT ![Len(making)].at = @ + 1]
Fail == making' = <<>> /\ host' = IF host = "starting" THEN "failed" ELSE host

TakeItem ==
    /\ making # <<>> /\ ~Complete /\ Item \notin Steps
    /\ \/ There /\ Advance /\ UNCHANGED <<missed, host>>
       \/ ~There /\ Registered(Item) /\ making' = Append(making, Make(Item))
          /\ UNCHANGED <<missed, host>>
       \/ ~There /\ ~Registered(Item) /\ Fail /\ missed' = missed \cup {Item}
    /\ UNCHANGED <<collection, created, made, connections, started, refused, failures, asks>>

\* ConnectToBus, which throws if the broker cannot be reached
ConnectToBus ==
    /\ making # <<>> /\ ~Complete /\ Item = "connect"
    /\ \/ /\ Advance
          /\ connections' = [connections EXCEPT ![Current.service] = @ + 1]
          /\ UNCHANGED <<failures, host>>
       \/ /\ failures < MaxFailures /\ failures' = failures + 1
          /\ Fail
          /\ UNCHANGED connections
    /\ UNCHANGED <<collection, created, made, started, missed, refused, asks>>

\* the end of the publisher's constructor: the connection may be lost or out of channels
CreateModel ==
    /\ making # <<>> /\ ~Complete /\ Item = "CreateModel"
    /\ \/ Advance /\ UNCHANGED <<refused, failures, host>>
       \/ /\ failures < MaxFailures /\ failures' = failures + 1
          /\ refused' = refused + 1
          /\ Fail
    /\ UNCHANGED <<collection, created, made, connections, started, missed, asks>>

\* the application's function of RegisterEventListener, which may throw
BuildProcessors ==
    /\ making # <<>> /\ ~Complete /\ Item = "eventProcessorBuilder"
    /\ \/ Advance /\ UNCHANGED <<failures, host>>
       \/ failures < MaxFailures /\ failures' = failures + 1 /\ Fail
    /\ UNCHANGED <<collection, created, made, connections, started, missed, refused, asks>>

Finish ==
    /\ making # <<>> /\ Complete
    /\ IF Current.service = "EventListener"
       THEN made' = made + 1 /\ UNCHANGED created
       ELSE created' = created \cup {Current.service} /\ UNCHANGED made
    /\ making' = Front(making)
    /\ UNCHANGED <<collection, connections, missed, refused, failures, host, started, asks>>

\* The application asks for IEventPublisher or, as the tests do, for all listeners.
Ask(s) ==
    /\ host = "running" /\ making = <<>> /\ asks < MaxAsks
    /\ asks' = asks + 1
    /\ IF Registered(s)
       THEN /\ making' = IF s \in created THEN <<>> ELSE <<Make(s)>>
            /\ UNCHANGED missed
       ELSE making' = <<>> /\ missed' = missed \cup {s}
    /\ UNCHANGED <<collection, created, made, connections, refused, failures, host, started>>
-----------------------------------------------------------------------------
(* The host *)

\* The hosted service takes all listeners; without it there is nothing to start.
StartHost ==
    /\ host = "configuring"
    /\ IF "IHostedService" \in services
       THEN host' = "starting" /\ making' = <<Make(All)>>
       ELSE host' = "running" /\ UNCHANGED making
    /\ UNCHANGED <<collection, created, made, connections, missed, refused, failures, started, asks>>

\* StartAsync: foreach (var listener in _listeners), whether StartListeningAsync succeeds or not
StartAsync ==
    /\ host = "starting" /\ making = <<>>
    /\ IF started < listeners
       THEN started' = started + 1 /\ UNCHANGED host
       ELSE host' = "running" /\ UNCHANGED started
    /\ UNCHANGED <<collection, container, asks>>

Next ==
    \/ RegisterEventListener
    \/ \E c \in Configurations : RegisterRmqTransport(c) \/ RegisterEventPublisher(c)
    \/ StartHost \/ StartAsync
    \/ TakeItem \/ ConnectToBus \/ CreateModel \/ BuildProcessors \/ Finish
    \/ \E s \in {"IEventPublisher", All} : Ask(s)

Spec == Init /\ [][Next]_vars
-----------------------------------------------------------------------------
\* Every group whose listener the application registered has it started once the host
\* runs, in whatever order it was registered with the transport and however often that
\* was (RabbiterServiceCollectionExtensions.cs:58,72; EventListenersInitializer.cs:25-35).
EveryListenerStarts ==
    host = "running" /\ transported.returned > 0 => started = groups

\* connections that were open when CreateModel threw: nobody has them any more
Left(s) == IF s = "IEventPublisher" THEN refused ELSE 0

\* No registration makes a factory throw for the lack of a service after it has connected,
\* and no failure elsewhere in the chain takes an open connection from its service, so that
\* there is at most one for each, which belongs to the singleton or to the factory at work.
\* Only the publisher's constructor leaves a connection that nobody can close, and each
\* attempt another one, when its CreateModel throws (EventPublisher.cs:41,
\* RabbiterServiceCollectionExtensions.cs:46-56,102-113).
ConnectionsAreOwned ==
    \A s \in Connected :
        /\ connections[s] \in {Left(s), Left(s) + 1}
        /\ connections[s] > Left(s) =>
              s \in created \/ \E i \in 1 .. Len(making) : making[i].service = s

\* A service that is asked for lacks nothing it needs after a call of RegisterRmqTransport
\* returned; and what IEventPublisher needs is there even if the only such call threw
\* (RabbiterServiceCollectionExtensions.cs:37-61).
TransportIsComplete ==
    /\ transported.returned > 0 => missed = {}
    /\ transported.begun > 0 => missed \cap {Names, Dispatcher, Payload} = {}

\* An application that leaves the publisher to RegisterRmqTransport publishes, its faults
\* included, to the bus it consumes from, though several such calls give different
\* configurations and some throw (RabbiterServiceCollectionExtensions.cs:44-60).
OneBus == ~published => config["IEventConsumer"] = config["IEventPublisher"]
=============================================================================
