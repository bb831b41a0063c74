------------------------- MODULE RegistrationProofs -------------------------
(* What holds of Registration for any number of calls, configurations and     *)
(* failures.                                                                  *)
EXTENDS Registration, SequenceTheorems, TLAPS

OneBusTyped == config \in [Connected -> Configurations \cup {None}] /\ OneBus

\* RegisterRmqTransport captures for both services or for none, and only the application's
\* own call captures for the publisher alone (RabbiterServiceCollectionExtensions.cs:44-66).
THEOREM OneBusForAll == Spec => []OneBus
<1>1. Init => OneBusTyped
  BY DEF Init, OneBusTyped, OneBus, Connected
<1>2. OneBusTyped /\ [Next]_vars => OneBusTyped'
  <2> SUFFICES ASSUME OneBusTyped, [Next]_vars PROVE OneBusTyped'
    OBVIOUS
  <2> USE DEF OneBusTyped, OneBus, Connected
  <2>1. ASSUME NEW c \in Configurations, RegisterRmqTransport(c) PROVE OneBusTyped'
    BY <2>1 DEF RegisterRmqTransport, Capture
  <2>2. ASSUME NEW c \in Configurations, RegisterEventPublisher(c) PROVE OneBusTyped'
    BY <2>2 DEF RegisterEventPublisher, Capture
  <2>3. CASE UNCHANGED <<config, published>>
    BY <2>3
  <2>4. RegisterEventListener \/ StartHost \/ StartAsync
            \/ TakeItem \/ ConnectToBus \/ CreateModel \/ BuildProcessors \/ Finish
            \/ (\E s \in {"IEventPublisher", All} : Ask(s)) \/ UNCHANGED vars
        => UNCHANGED <<config, published>>
    BY DEF RegisterEventListener, StartHost, StartAsync, TakeItem, ConnectToBus, CreateModel,
        BuildProcessors, Finish, Ask, collection, vars
  <2>5. QED
    BY <2>1, <2>2, <2>3, <2>4 DEF Next
<1>3. OneBusTyped => OneBus
  BY DEF OneBusTyped
<1>4. QED
  BY <1>1, <1>2, <1>3, PTL DEF Spec
-----------------------------------------------------------------------------
(* Nothing is missing once RegisterRmqTransport was called *)

Stock == Common \cup Connected \cup {Payload, "IHandler", "IHostedService", "IMessageSender"}
Known == Stock \cup {Faults, All, "EventListener"}

\* what the calls so far have left
Stocked ==
    /\ listeners \in Nat
    /\ transported.begun \in Nat /\ transported.returned \in Nat
    /\ transported = [begun |-> transported.begun, returned |-> transported.returned]
    /\ transported.returned > 0 => transported.begun > 0 /\ Stock \subseteq services
    /\ transported.begun > 0 => Common \subseteq services
    /\ "IEventPublisher" \in services => Payload \in services
    /\ listeners > 0 => Faults \in services
    /\ services \subseteq Known

\* what is being made was registered, and listeners only if there are some
Frames == [service : Known, at : Nat \ {0}]
Stacked ==
    /\ making \in Seq(Frames)
    /\ \A i \in 1 .. Len(making) :
          /\ Registered(making[i].service)
          /\ making[i].service = "EventListener" => listeners > 0
    /\ host = "configuring" => making = <<>> /\ missed = {}

Complement == Stocked /\ Stacked /\ TransportIsComplete

\* what a service takes
Taken(s) ==
    CASE s = "IEventPublisher" -> {"IMessageSender", "connect", Names, Payload, "CreateModel"}
      [] s = "IEventConsumer"  -> {"connect", "IRmqResourceManager", "IHandler"}
      [] s = "EventListener"   -> {"IEventConsumer", Names, "eventProcessorBuilder", Faults}
      [] s = All               -> IF listeners > 0 THEN {"EventListener"} ELSE {}
      [] s = Faults            -> {"IEventPublisher"}
      [] s \in {"IMessageSender", "IHandler"} -> {Dispatcher}
      [] OTHER                 -> {}

LEMMA Ingredients ==
    ASSUME NEW s \in Known, NEW i \in Nat \ {0}, listeners \in Nat, ~(i > Len(Recipe(s)))
    PROVE  Recipe(s)[i] \in Taken(s)
<1> USE DEF Recipe, Taken, All, Names, Faults, Payload, Dispatcher
<1>1. CASE s = "IEventPublisher"
  BY <1>1
<1>2. CASE s = "IEventConsumer"
  BY <1>2
<1>3. CASE s = "EventListener"
  BY <1>3
<1>4. CASE s = All
  <2>1. Recipe(s) = [j \in 1 .. listeners |-> "EventListener"]
    BY <1>4
  <2>2. i \in 1 .. listeners
    BY <2>1
  <2>3. QED
    BY <1>4, <2>1, <2>2
<1>5. CASE s = Faults
  BY <1>5
<1>6. CASE s \in {"IMessageSender", "IHandler"}
  BY <1>6
<1>7. CASE s \notin {"IEventPublisher", "IEventConsumer", "EventListener", All, Faults,
                     "IMessageSender", "IHandler"}
  BY <1>7
<1>8. QED
  BY <1>1, <1>2, <1>3, <1>4, <1>5, <1>6, <1>7

\* The service on top of the stack takes something known, which is registered if the
\* calls made that certain.
LEMMA ItemIsKnown ==
    ASSUME Stocked, Stacked, making # <<>>, ~Complete
    PROVE  /\ Current \in Frames
           /\ Registered(Current.service)
           /\ Item \notin Steps => Item \in Known
           /\ Item = "EventListener" => listeners > 0
           /\ transported.returned > 0 /\ Item \notin Steps => Registered(Item)
           /\ transported.begun > 0 /\ Item \in {Names, Dispatcher, Payload} => Registered(Item)
<1>1. making \in Seq(Frames) /\ Len(making) \in 1 .. Len(making) /\ Current = making[Len(making)]
  BY DEF Stacked, Current, Last
<1>2. Current \in Frames /\ Registered(Current.service)
      /\ (Current.service = "EventListener" => listeners > 0)
  <2>1. Current \in Frames
    BY <1>1
  <2>2. Registered(making[Len(making)].service)
        /\ (making[Len(making)].service = "EventListener" => listeners > 0)
    BY <1>1 DEF Stacked
  <2>3. QED
    BY <1>1, <2>1, <2>2
<1>3. Item \in Taken(Current.service)
  BY <1>2, Ingredients DEF Stocked, Complete, Item, Frames
<1> USE DEF Stocked, Stock, Known, Common, Connected, Names, Payload, Dispatcher, Faults, All,
    Registered, Taken, Steps
<1>4. Item \notin Steps => Item \in Known
  BY <1>2, <1>3
<1>5. Item = "EventListener" => listeners > 0
  BY <1>2, <1>3
<1>6. transported.returned > 0 /\ Item \notin Steps => Registered(Item)
  BY <1>2, <1>3
<1>7. transported.begun > 0 /\ Item \in {Names, Dispatcher, Payload} => Registered(Item)
  BY <1>2, <1>3
<1>8. QED
  BY <1>2, <1>4, <1>5, <1>6, <1>7

LEMMA AdvanceKeeps ==
    ASSUME making \in Seq(Frames), making # <<>>, Advance
    PROVE  /\ making' \in Seq(Frames) /\ Len(making') = Len(making)
           /\ \A i \in 1 .. Len(making) : making'[i].service = making[i].service
<1> DEFINE n == Len(making)
           f == [making[n] EXCEPT !.at = making[n].at + 1]
<1>1. n \in 1 .. n
  OBVIOUS
<1>2. making[n] \in Frames
  BY <1>1
<1>3. f \in Frames /\ f.service = making[n].service
  BY <1>2 DEF Frames
<1>4. making' = [making EXCEPT ![n] = f]
  BY DEF Advance
<1>5. QED
  BY <1>1, <1>3, <1>4

LEMMA FirstFrame ==
    ASSUME NEW s \in Known
    PROVE  /\ <<Make(s)>> \in Seq(Frames) /\ Len(<<Make(s)>>) = 1
           /\ \A i \in 1 .. Len(<<Make(s)>>) : <<Make(s)>>[i].service = s
<1>1. Make(s) \in Frames /\ Make(s).service = s
  BY DEF Make, Frames
<1>2. QED
  BY <1>1

LEMMA Shorter ==
    ASSUME NEW S, NEW q \in Seq(S), NEW n \in Nat, n + 1 = Len(q)
    PROVE  Len(SubSeq(q, 1, n)) = n
  OBVIOUS

LEMMA FrontKeeps ==
    ASSUME making \in Seq(Frames), making # <<>>
    PROVE  /\ Front(making) \in Seq(Frames) /\ Len(Front(making)) = Len(making) - 1
           /\ \A i \in 1 .. Len(making) - 1 : Front(making)[i] = making[i]
<1> DEFINE n == Len(making) - 1
<1>1. n \in Nat /\ n + 1 = Len(making) /\ Front(making) = SubSeq(making, 1, n)
  BY DEF Front
<1>2. \A i \in 1 .. n : making[i] \in Frames
  BY <1>1
<1> HIDE DEF n
<1>3. SubSeq(making, 1, n) \in Seq(Frames)
  BY <1>1, <1>2, SubSeqProperties
<1>4. Len(SubSeq(making, 1, n)) = n
  BY <1>1, Shorter
<1>5. \A i \in 1 .. n : SubSeq(making, 1, n)[i] = making[i]
  BY <1>1, <1>2, SubSeqProperties
<1>6. QED
  BY <1>1, <1>3, <1>4, <1>5 DEF n

\* The Register methods only add to the stock, and nothing is made meanwhile.
LEMMA CallsStock ==
    ASSUME Complement,
           RegisterEventListener
             \/ \E c \in Configurations : RegisterRmqTransport(c) \/ RegisterEventPublisher(c)
    PROVE  Complement'
<1> USE DEF Complement, Call, container
<1>1. making = <<>> /\ making' = <<>> /\ missed' = {} /\ host' = host
  BY DEF RegisterEventListener, RegisterRmqTransport, RegisterEventPublisher, Stacked
<1>2. Stocked'
  <2> USE DEF Stocked, Stock, Known, Common, Connected, Names, Payload, Dispatcher, Faults, All
  <2>1. CASE RegisterEventListener
    BY <2>1 DEF RegisterEventListener
  <2>2. ASSUME NEW c \in Configurations, RegisterRmqTransport(c) PROVE Stocked'
    BY <2>2 DEF RegisterRmqTransport, Return, Throw
  <2>3. ASSUME NEW c \in Configurations, RegisterEventPublisher(c) PROVE Stocked'
    BY <2>3 DEF RegisterEventPublisher
  <2>4. QED
    BY <2>1, <2>2, <2>3
<1>3. Stacked'
  BY <1>1 DEF Stacked
<1>4. TransportIsComplete'
  BY <1>1 DEF TransportIsComplete
<1>5. QED
  BY <1>2, <1>3, <1>4

LEMMA Complemented == Spec => []Complement
<1>1. Init => Complement
  BY DEF Init, Complement, Stocked, Stacked, TransportIsComplete, Stock, Known
<1>2. Complement /\ [Next]_vars => Complement'
  <2> SUFFICES ASSUME Complement, [Next]_vars PROVE Complement'
    OBVIOUS
  <2>1. ASSUME UNCHANGED collection PROVE Stocked'
    BY <2>1 DEF Complement, Stocked, collection
  <2>2. ASSUME UNCHANGED <<collection, making, missed>>, host = "configuring" \/ host' # "configuring"
        PROVE  Complement'
    BY <2>1, <2>2 DEF Complement, Stacked, TransportIsComplete, collection, Registered
  <2>3. CASE StartHost
    <3>1. making' = <<>> \/ making' = <<Make(All)>>
      BY <2>3 DEF StartHost, Complement, Stacked
    <3>2. Stacked'
      <4>1. All \in Known /\ All # "EventListener" /\ Registered(All)' /\ host' # "configuring"
        BY <2>3 DEF Known, Registered, All, StartHost
      <4>2. CASE making' = <<>>
        BY <4>1, <4>2 DEF Stacked
      <4>3. CASE making' = <<Make(All)>>
        BY <4>1, <4>3, FirstFrame DEF Stacked, Registered
      <4>4. QED
        BY <3>1, <4>2, <4>3
    <3>3. QED
      BY <2>1, <2>3, <3>2 DEF StartHost, Complement, TransportIsComplete, collection
  <2>4. CASE StartAsync
    BY <2>2, <2>4 DEF StartAsync, container
  <2>5. CASE TakeItem
    <3> USE DEF TakeItem, Complement
    <3>1. Stocked' /\ UNCHANGED <<listeners, services, transported>>
      BY <2>1, <2>5 DEF collection
    <3>2. host # "configuring" /\ host' # "configuring"
      BY <2>5 DEF Stacked, Fail
    <3>3. CASE Advance /\ UNCHANGED <<missed, host>>
      <4>1. Stacked'
        BY <2>5, <3>1, <3>2, <3>3, AdvanceKeeps DEF Stacked, Registered
      <4>2. QED
        BY <3>1, <3>3, <4>1 DEF TransportIsComplete
    <3>4. CASE Registered(Item) /\ making' = Append(making, Make(Item)) /\ UNCHANGED <<missed, host>>
      <4>1. Make(Item) \in Frames
            /\ (Make(Item).service = "EventListener" => listeners > 0)
            /\ Make(Item).service = Item
        BY <2>5, ItemIsKnown DEF Make, Frames
      <4>2. QED
        BY <3>1, <3>2, <3>4, <4>1 DEF Stacked, TransportIsComplete, Registered
    <3>5. CASE ~Registered(Item) /\ Fail /\ missed' = missed \cup {Item}
      <4>1. Stacked'
        BY <3>2, <3>5 DEF Fail, Stacked
      <4>2. TransportIsComplete'
        BY <2>5, <3>1, <3>5, ItemIsKnown DEF TransportIsComplete
      <4>3. QED
        BY <3>1, <4>1, <4>2
    <3>6. QED
      BY <2>5, <3>3, <3>4, <3>5
  <2>6. CASE ConnectToBus \/ CreateModel \/ BuildProcessors
    <3> USE DEF ConnectToBus, CreateModel, BuildProcessors, Complement
    <3>1. Stocked' /\ UNCHANGED <<listeners, services, transported, missed>>
      BY <2>1, <2>6 DEF collection
    <3>2. host # "configuring" /\ host' # "configuring"
      BY <2>6 DEF Stacked, Fail
    <3>3. CASE Advance
      BY <2>6, <3>1, <3>2, <3>3, AdvanceKeeps DEF Stacked, Registered, TransportIsComplete
    <3>4. CASE Fail
      BY <3>1, <3>2, <3>4 DEF Fail, Stacked, TransportIsComplete
    <3>5. QED
      BY <2>6, <3>3, <3>4
  <2>7. CASE Finish
    <3> USE DEF Finish, Complement
    <3>1. Stocked' /\ UNCHANGED <<listeners, services, transported, missed, host>>
      BY <2>1, <2>7 DEF collection
    <3>2. host # "configuring"
      BY <2>7 DEF Stacked
    <3>3. making' \in Seq(Frames) /\ Len(making') = Len(making) - 1
          /\ \A i \in 1 .. Len(making') : making'[i] = making[i]
      BY <2>7, FrontKeeps DEF Stacked
    <3>4. QED
      BY <3>1, <3>2, <3>3 DEF Stacked, TransportIsComplete, Registered
  <2>8. ASSUME NEW s \in {"IEventPublisher", All}, Ask(s) PROVE Complement'
    <3> USE DEF Ask, Complement
    <3>1. Stocked' /\ UNCHANGED <<listeners, services, transported, host>>
      BY <2>1, <2>8 DEF collection
    <3>2. s \in Known /\ s # "EventListener" /\ s \notin {Names, Dispatcher, Payload}
      BY DEF Known, Stock, Connected, All, Names, Dispatcher, Payload
    <3>3. Stacked'
      <4>1. CASE making' = <<>>
        BY <2>8, <3>1, <4>1 DEF Stacked
      <4>2. CASE making' = <<Make(s)>> /\ Registered(s)
        BY <2>8, <3>1, <3>2, <4>2, FirstFrame DEF Stacked, Registered
      <4>3. QED
        BY <2>8, <4>1, <4>2
    <3>4. transported.returned > 0 => Registered(s)
      BY DEF Stocked, Stock, Connected, Registered
    <3>5. QED
      BY <2>8, <3>1, <3>2, <3>3, <3>4 DEF TransportIsComplete
  <2>9. CASE UNCHANGED vars
    BY <2>1, <2>9 DEF vars, container, Complement, Stacked, TransportIsComplete, collection, Registered
  <2>10. QED
    BY <2>3, <2>4, <2>5, <2>6, <2>7, <2>8, <2>9, CallsStock DEF Next
<1>3. QED
  BY <1>1, <1>2, PTL DEF Spec

\* RabbiterServiceCollectionExtensions.cs:37-61 registers all that the services which can
\* be asked for take, directly or not, before anything that takes it.
THEOREM NothingIsMissing == Spec => []TransportIsComplete
  BY Complemented, PTL DEF Complement
-----------------------------------------------------------------------------
(* Every listener is started *)

\* EventListeners are counted one by one, and while the host starts them all of them are
\* still registered; a host that started none had no hosted service to do it.
Started ==
    /\ started \in Nat /\ listeners \in Nat /\ listeners = groups
    /\ started <= listeners
    /\ host = "configuring" => started = 0
    /\ host = "running" => started = listeners \/ transported.returned = 0

LEMMA StartedStep == Stocked /\ Started /\ [Next]_vars => Started'
<1> SUFFICES ASSUME Stocked, Started, [Next]_vars PROVE Started'
  OBVIOUS
<1> USE DEF Started, collection, container
<1>1. CASE RegisterEventListener
  BY <1>1 DEF RegisterEventListener, Call
<1>2. ASSUME NEW c \in Configurations, RegisterRmqTransport(c) \/ RegisterEventPublisher(c)
      PROVE  Started'
  BY <1>2 DEF RegisterRmqTransport, RegisterEventPublisher, Call
<1>3. CASE StartHost
  <2>1. transported.returned > 0 => "IHostedService" \in services
    BY DEF Stocked, Stock
  <2>2. transported.returned \in Nat
    BY DEF Stocked
  <2>3. QED
    BY <1>3, <2>1, <2>2 DEF StartHost
<1>4. CASE StartAsync
  BY <1>4 DEF StartAsync
<1>5. CASE TakeItem \/ ConnectToBus \/ CreateModel \/ BuildProcessors \/ Finish
             \/ (\E s \in {"IEventPublisher", All} : Ask(s))
  <2>1. /\ UNCHANGED <<started, listeners, groups, transported>>
        /\ host' # host => host' = "failed"
    BY <1>5 DEF TakeItem, ConnectToBus, CreateModel, BuildProcessors, Finish, Ask, Fail
  <2>2. QED
    BY <2>1
<1>6. CASE UNCHANGED vars
  BY <1>6 DEF vars
<1>7. QED
  BY <1>1, <1>2, <1>3, <1>4, <1>5, <1>6 DEF Next

\* Every RegisterEventListener counts, whether it comes before or after the transport, and
\* a start that came to its end started as many listeners as there were calls
\* (RabbiterServiceCollectionExtensions.cs:58,72; EventListenersInitializer.cs:25-35).
THEOREM AllListenersStart == Spec => []EveryListenerStarts
<1>1. Init => Started
  BY DEF Init, Started
<1>2. Started /\ Stocked => EveryListenerStarts
  BY DEF Started, Stocked, EveryListenerStarts
<1>3. Spec => []Stocked
  BY Complemented, PTL DEF Complement
<1>4. QED
  BY <1>1, <1>2, <1>3, StartedStep, PTL DEF Spec
-----------------------------------------------------------------------------
(* Connections are owned *)

\* A service takes only services of a lower level: no factory asks for itself.
Level(s) ==
    CASE s = All -> 6
      [] s = "EventListener" -> 5
      [] s = Faults -> 4
      [] s \in Connected -> 3
      [] s \in {"IMessageSender", "IHandler"} -> 2
      [] OTHER -> 1

\* has the factory at work in this frame connected?
Past(f) ==
    \/ f.service = "IEventConsumer" /\ f.at > 1
    \/ f.service = "IEventPublisher" /\ f.at > 2

Nested ==
    \A i, j \in 1 .. Len(making) :
        i < j => Level(making[j].service) < Level(making[i].service)

\* What is made was registered, and some of it only together with other services.
Provided ==
    /\ "IEventConsumer" \in services => Stock \subseteq services
    /\ Dispatcher \in services => Common \subseteq services
    /\ \A s \in created : s \in Known /\ Registered(s) /\ s # "EventListener"
    /\ "IMessageSender" \in created => Common \subseteq services
    /\ host = "configuring" => created = {}

\* A singleton is not made twice; a factory that has connected has one connection beside
\* those that are left, and, in the sender that it took before or in the transport's
\* registration, a proof that it lacks no service.
Owned ==
    /\ refused \in Nat /\ connections \in [Connected -> Nat]
    /\ \A s \in Connected : connections[s] \in {Left(s), Left(s) + 1}
    /\ \A i \in 1 .. Len(making) :
          /\ making[i].service \notin created
          /\ making[i].service = "IEventPublisher" /\ making[i].at > 1
                => "IMessageSender" \in created
          /\ making[i].service = "IMessageSender" /\ making[i].at > 1
                => Common \subseteq services
    /\ \A i \in 1 .. Len(making) : Past(making[i]) =>
          connections[making[i].service] = Left(making[i].service) + 1
    /\ \A s \in Connected : connections[s] > Left(s) =>
          \/ s \in created
          \/ \E i \in 1 .. Len(making) : making[i].service = s /\ Past(making[i])

Ownership == Nested /\ Provided /\ Owned

\* what the recipes say of the item a service is about to take
LEMMA ItemOf ==
    ASSUME Current \in Frames, listeners \in Nat, ~Complete
    PROVE  /\ Current.service = "IEventPublisher" =>
                 /\ Current.at = 1 => Item = "IMessageSender"
                 /\ Current.at = 2 => Item = "connect"
                 /\ Current.at > 2 => Item \in {Names, Payload, "CreateModel"}
           /\ Current.service = "IEventConsumer" =>
                 /\ Current.at = 1 => Item = "connect"
                 /\ Current.at > 1 => Item \in {"IRmqResourceManager", "IHandler"}
           /\ Level(Current.service) < 3 => Item = Dispatcher
           /\ Item = "connect" =>
                 /\ Current.service \in Connected
                 /\ Current.at = IF Current.service = "IEventPublisher" THEN 2 ELSE 1
           /\ Item = "CreateModel" => Current.service = "IEventPublisher" /\ Current.at > 2
           /\ Item = "eventProcessorBuilder" => Current.service = "EventListener"
           /\ Item \notin Steps => Item \in Known /\ Level(Item) < Level(Current.service)
           /\ Current.service = All => Item = "EventListener"
<1> DEFINE s == Current.service  k == Current.at
<1>1. s \in Known /\ k \in Nat \ {0} /\ Item = Recipe(s)[k] /\ ~(k > Len(Recipe(s)))
  BY DEF Frames, Complete, Item
<1> HIDE DEF s, k
<1> USE <1>1 DEF Level, All, Names, Faults, Payload, Dispatcher, Connected, Known, Stock, Common, Steps
<1>2. CASE s = "IEventPublisher"
  <2>1. Item = <<"IMessageSender", "connect", Names, Payload, "CreateModel">>[k] /\ k \in 1 .. 5
    BY <1>2 DEF Recipe
  <2>2. QED
    BY <1>2, <2>1 DEF s, k
<1>3. CASE s = "IEventConsumer"
  <2>1. Item = <<"connect", "IRmqResourceManager", "IHandler">>[k] /\ k \in 1 .. 3
    BY <1>3 DEF Recipe
  <2>2. QED
    BY <1>3, <2>1 DEF s, k
<1>4. CASE s = "EventListener"
  <2>1. Item = <<"IEventConsumer", Names, "eventProcessorBuilder", Faults>>[k] /\ k \in 1 .. 4
    BY <1>4 DEF Recipe
  <2>2. QED
    BY <1>4, <2>1 DEF s, k
<1>5. CASE s = All
  <2>1. Item = "EventListener"
    BY <1>5, Ingredients DEF Taken
  <2>2. QED
    BY <1>5, <2>1 DEF s, k
<1>6. CASE s = Faults
  <2>1. Item = "IEventPublisher"
    BY <1>6 DEF Recipe
  <2>2. QED
    BY <1>6, <2>1 DEF s, k
<1>7. CASE s \in {"IMessageSender", "IHandler"}
  <2>1. Item = Dispatcher
    BY <1>7 DEF Recipe
  <2>2. QED
    BY <1>7, <2>1 DEF s, k
<1>8. CASE s \notin {"IEventPublisher", "IEventConsumer", "EventListener", All, Faults,
                     "IMessageSender", "IHandler"}
  <2>1. Recipe(s) = <<>>
    BY <1>8 DEF Recipe
  <2>2. QED
    BY <2>1
<1>9. QED
  BY <1>2, <1>3, <1>4, <1>5, <1>6, <1>7, <1>8

LEMMA TopFrame ==
    ASSUME Stacked, making # <<>>
    PROVE  /\ Len(making) \in 1 .. Len(making) /\ Len(making) \in Nat
           /\ Current = making[Len(making)] /\ Current \in Frames
           /\ Registered(Current.service)
<1>1. making \in Seq(Frames) /\ Len(making) \in 1 .. Len(making) /\ Current = making[Len(making)]
  BY DEF Stacked, Current, Last
<1>2. QED
  BY <1>1 DEF Stacked

LEMMA AdvancedFrame ==
    ASSUME making \in Seq(Frames), making # <<>>, Advance
    PROVE  /\ making' \in Seq(Frames) /\ Len(making') = Len(making)
           /\ \A i \in 1 .. Len(making) :
                 /\ making'[i].service = making[i].service
                 /\ i # Len(making) => making'[i] = making[i]
           /\ making'[Len(making)].at = making[Len(making)].at + 1
<1> DEFINE n == Len(making)
           f == [making[n] EXCEPT !.at = making[n].at + 1]
<1>1. n \in 1 .. n
  OBVIOUS
<1>2. making[n] \in Frames
  BY <1>1
<1>3. f \in Frames /\ f.service = making[n].service /\ f.at = making[n].at + 1
  BY <1>2 DEF Frames
<1>4. making' = [making EXCEPT ![n] = f]
  BY DEF Advance
<1>5. QED
  BY <1>1, <1>3, <1>4

\* A factory that has connected is not interrupted by a service that is missing, nor by what
\* another factory does.
LEMMA NothingConnectedFails ==
    ASSUME Complement, Ownership, making # <<>>, ~Complete,
           \/ Item \notin Steps /\ ~Registered(Item)
           \/ Item \in {"connect", "eventProcessorBuilder"}
    PROVE  \A i \in 1 .. Len(making) : ~Past(making[i])
<1> SUFFICES ASSUME NEW i \in 1 .. Len(making), Past(making[i]) PROVE FALSE
  OBVIOUS
<1> DEFINE n == Len(making)
<1>1. n \in Nat /\ n \in 1 .. n /\ Current = making[n] /\ Current \in Frames
  BY TopFrame DEF Complement
<1>2. listeners \in Nat /\ making[i].service \in Connected /\ Registered(making[i].service)
  BY DEF Complement, Stocked, Stacked, Past, Connected
<1>3. Common \subseteq services
  <2>1. CASE making[i].service = "IEventConsumer"
    BY <1>2, <2>1 DEF Ownership, Provided, Registered, Stock, All
  <2>2. CASE making[i].service = "IEventPublisher"
    <3>1. making[i].at > 1
      <4>1. making[i] \in Frames
        BY DEF Complement, Stacked
      <4>2. QED
        BY <2>2, <4>1 DEF Past, Frames
    <3>2. QED
      BY <2>2, <3>1 DEF Ownership, Owned, Provided
  <2>3. QED
    BY <2>1, <2>2 DEF Past
<1>4. CASE i = n
  <2>1. Item \in {Names, Payload, "IRmqResourceManager", "IHandler", "CreateModel"}
    BY <1>1, <1>2, <1>4, ItemOf DEF Past
  <2>2. Item \notin Steps /\ ~Registered(Item)
    BY <2>1 DEF Names, Payload, Steps
  <2>3. Current.service = "IEventPublisher" => Item \in {Names, Payload}
    BY <1>1, <1>2, <1>4, <2>2, ItemOf DEF Past, Steps
  <2>4. CASE Current.service = "IEventPublisher"
    <3>1. "IEventPublisher" \in services
      BY <1>1, <1>2, <1>4, <2>4 DEF Registered, All
    <3>2. Payload \in services /\ Names \in services
      BY <1>3, <3>1 DEF Complement, Stocked, Common
    <3>3. QED
      BY <2>2, <2>3, <2>4, <3>2 DEF Registered
  <2>5. CASE Current.service = "IEventConsumer"
    <3>1. Stock \subseteq services
      BY <1>1, <1>2, <1>4, <2>5 DEF Registered, All, Ownership, Provided
    <3>2. Item \in Stock
      BY <2>1, <2>2 DEF Stock, Common, Steps
    <3>3. QED
      BY <2>2, <3>1, <3>2 DEF Registered
  <2>6. QED
    BY <1>1, <1>2, <1>4, <2>4, <2>5 DEF Connected
<1>5. CASE i # n
  <2>1. Level(Current.service) < Level(making[i].service)
    BY <1>1, <1>5 DEF Ownership, Nested
  <2>2. Level(making[i].service) = 3
    BY <1>2 DEF Level, Connected, All, Faults
  <2>3. Item = Dispatcher
    BY <1>1, <1>2, <2>1, <2>2, ItemOf
  <2>4. QED
    BY <1>3, <2>3 DEF Registered, Common, Dispatcher, Steps
<1>6. QED
  BY <1>4, <1>5

\* The Register methods: nothing was made yet.
LEMMA CallsOwn ==
    ASSUME Complement, Ownership,
           RegisterEventListener
             \/ \E c \in Configurations : RegisterRmqTransport(c) \/ RegisterEventPublisher(c)
    PROVE  Ownership'
<1>1. making = <<>> /\ UNCHANGED <<making, created, connections, refused, host>>
  BY DEF RegisterEventListener, RegisterRmqTransport, RegisterEventPublisher, Call, container,
         Complement, Stacked
<1>2. services \subseteq services'
  BY DEF RegisterEventListener, RegisterRmqTransport, RegisterEventPublisher
<1>3. Nested' /\ Owned'
  BY <1>1 DEF Ownership, Nested, Owned, Left
<1>4. Provided'
  <2> USE DEF Ownership, Provided, Registered
  <2>1. ("IEventConsumer" \in services => Stock \subseteq services)'
    <3>1. CASE services' \subseteq services \cup Common \cup {Faults, Payload, "IHandler", "IMessageSender", "IEventPublisher"}
      BY <1>2, <3>1 DEF Common, Names, Dispatcher, Faults, Payload
    <3>2. CASE Stock \subseteq services'
      BY <3>2
    <3>3. QED
      BY <3>1, <3>2 DEF RegisterEventListener, RegisterRmqTransport, RegisterEventPublisher, Stock
  <2>2. (Dispatcher \in services => Common \subseteq services)'
    <3>1. CASE services' \subseteq services \cup {Faults, Payload, "IMessageSender", "IEventPublisher"}
      BY <1>2, <3>1 DEF Dispatcher, Faults, Payload
    <3>2. CASE Common \subseteq services'
      BY <3>2
    <3>3. QED
      BY <3>1, <3>2 DEF RegisterEventListener, RegisterRmqTransport, RegisterEventPublisher
  <2>3. QED
    BY <1>1, <1>2, <2>1, <2>2 DEF All
<1>5. QED
  BY <1>3, <1>4 DEF Ownership

\* A factory goes on to its next step, which it does not do over a service it lacks.
LEMMA AdvancingOwns ==
    ASSUME Complement, Ownership, Provided', UNCHANGED <<created, connections, refused>>,
           services' = services, making # <<>>, ~Complete, Item # "connect",
           There \/ Item \in Steps, Advance
    PROVE  Ownership'
<1> DEFINE n == Len(making)
<1>1. making \in Seq(Frames) /\ n \in Nat /\ n \in 1 .. n /\ Current = making[n]
      /\ Current \in Frames /\ listeners \in Nat
  BY TopFrame DEF Complement, Stacked, Stocked
<1>2. /\ Len(making') = n
      /\ \A i \in 1 .. n : /\ making'[i].service = making[i].service
                           /\ i # n => making'[i] = making[i]
      /\ making'[n].at = making[n].at + 1
  BY <1>1, AdvancedFrame
<1>3. Current.service = "IEventPublisher" => "IMessageSender" \in created
  <2> SUFFICES ASSUME Current.service = "IEventPublisher" PROVE "IMessageSender" \in created
    OBVIOUS
  <2>1. CASE Current.at = 1
    <3>1. Item = "IMessageSender"
      BY <1>1, <2>1, ItemOf
    <3>2. QED
      BY <3>1 DEF There, All, Steps
  <2>2. CASE Current.at > 1
    BY <1>1, <2>2 DEF Ownership, Owned
  <2>3. QED
    BY <1>1, <2>1, <2>2 DEF Frames
<1>4. Current.service = "IMessageSender" => Common \subseteq services
  <2> SUFFICES ASSUME Current.service = "IMessageSender" PROVE Common \subseteq services
    OBVIOUS
  <2>1. Item = Dispatcher
    BY <1>1, ItemOf DEF Level, All, Faults, Connected
  <2>2. Dispatcher \in created
    BY <2>1 DEF There, All, Steps, Dispatcher
  <2>3. Registered(Dispatcher)
    BY <2>2 DEF Ownership, Provided
  <2>4. QED
    BY <2>3 DEF Ownership, Provided, Registered, Dispatcher, All
<1>5. \A i \in 1 .. n : Past(making[i]) <=> Past(making'[i])
  <2>1. making[n].at \in Nat \ {0}
    BY <1>1 DEF Frames
  <2>2. /\ Current.service = "IEventConsumer" => Current.at # 1
        /\ Current.service = "IEventPublisher" => Current.at # 2
    BY <1>1, ItemOf
  <2>3. Past(making[n]) <=> Past(making'[n])
    BY <1>1, <1>2, <2>1, <2>2 DEF Past
  <2>4. QED
    BY <1>2, <2>3 DEF Past
<1>6. Nested'
  BY <1>2 DEF Ownership, Nested
<1>7. Owned'
  BY <1>1, <1>2, <1>3, <1>4, <1>5 DEF Ownership, Owned, Left
<1>8. QED
  BY <1>6, <1>7 DEF Ownership

LEMMA TakingOwns ==
    ASSUME Complement, Ownership, TakeItem
    PROVE  Ownership'
<1> DEFINE n == Len(making)
<1>1. making \in Seq(Frames) /\ n \in Nat /\ n \in 1 .. n /\ Current = making[n]
      /\ Current \in Frames /\ listeners \in Nat /\ Registered(Current.service)
  BY TopFrame DEF TakeItem, Complement, Stacked, Stocked
<1>2. Provided' /\ UNCHANGED <<services, created, connections, refused>>
  BY DEF TakeItem, Fail, collection, Ownership, Provided, Registered
<1>3. CASE There /\ Advance
  BY <1>2, <1>3, AdvancingOwns DEF TakeItem, Steps
<1>4. CASE ~There /\ making' = Append(making, Make(Item))
  <2>1. Item \in Known /\ Level(Item) < Level(Current.service)
    BY <1>1, ItemOf DEF TakeItem
  <2>2. Item \notin created
    BY <1>1, <1>4, ItemOf DEF TakeItem, There, Ownership, Provided
  <2>3. Make(Item).service = Item /\ Make(Item).at = 1
    BY DEF Make
  <2>4. Len(making') = n + 1 /\ making'[n + 1] = Make(Item) /\ \A i \in 1 .. n : making'[i] = making[i]
    BY <1>1, <1>4
  <2>5. Nested'
    <3> SUFFICES ASSUME NEW i \in 1 .. n + 1, NEW j \in 1 .. n + 1, i < j
                 PROVE  Level(making'[j].service) < Level(making'[i].service)
      <4>1. Len(making') = n + 1
        BY <2>4
      <4>2. QED
        BY <4>1 DEF Nested
    <3>1. i \in 1 .. n
      BY <1>1
    <3>2. CASE j = n + 1
      <4>1. \A s \in Known : Level(s) \in Nat
        BY DEF Level
      <4>2. making[i].service \in Known /\ Current.service \in Known
        <5>1. making[i] \in Frames
          BY <1>1, <3>1
        <5>2. QED
          BY <1>1, <5>1 DEF Frames
      <4>3. i # n => Level(Current.service) < Level(making[i].service)
        BY <1>1, <3>1 DEF Ownership, Nested
      <4>4. QED
        BY <1>1, <2>1, <2>3, <2>4, <3>1, <3>2, <4>1, <4>2, <4>3
    <3>3. CASE j # n + 1
      BY <1>1, <2>4, <3>1, <3>3 DEF Ownership, Nested
    <3>4. QED
      BY <3>2, <3>3
  <2>6. Owned'
    <3>1. ~Past(making'[n + 1]) /\ n + 1 \in Nat
      BY <1>1, <2>3, <2>4 DEF Past
    <3>2. \A i \in 1 .. n + 1 : Past(making'[i]) =>
             connections[making'[i].service] = Left(making'[i].service) + 1
      BY <1>1, <2>4, <3>1 DEF Ownership, Owned
    <3>3. QED
      BY <1>1, <1>2, <2>2, <2>3, <2>4, <3>2 DEF Ownership, Owned, Left
  <2>7. QED
    BY <1>2, <2>5, <2>6 DEF Ownership
<1>5. CASE ~There /\ ~Registered(Item) /\ Fail
  <2>1. \A i \in 1 .. n : ~Past(making[i])
    BY <1>5, NothingConnectedFails DEF TakeItem
  <2>2. making' = <<>>
    BY <1>5 DEF Fail
  <2>3. Nested' /\ Owned'
    BY <1>2, <2>1, <2>2 DEF Ownership, Nested, Owned, Left
  <2>4. QED
    BY <1>2, <2>3 DEF Ownership
<1>6. QED
  BY <1>3, <1>4, <1>5 DEF TakeItem

LEMMA ConnectingOwns ==
    ASSUME Complement, Ownership, ConnectToBus
    PROVE  Ownership'
<1> DEFINE n == Len(making)
<1>1. making \in Seq(Frames) /\ n \in Nat /\ n \in 1 .. n /\ Current = making[n]
      /\ Current \in Frames /\ listeners \in Nat
  BY TopFrame DEF ConnectToBus, Complement, Stacked, Stocked
<1>2. Provided' /\ UNCHANGED <<services, created, refused>>
  BY DEF ConnectToBus, Fail, collection, Ownership, Provided, Registered
<1>3. \A i \in 1 .. n : ~Past(making[i])
  BY NothingConnectedFails DEF ConnectToBus
<1>4. Current.service \in Connected
      /\ Current.at = (IF Current.service = "IEventPublisher" THEN 2 ELSE 1)
  BY <1>1, ItemOf DEF ConnectToBus
<1>5. CASE Advance /\ connections' = [connections EXCEPT ![Current.service] = @ + 1]
  <2>1. /\ Len(making') = n
        /\ \A i \in 1 .. n : /\ making'[i].service = making[i].service
                             /\ i # n => making'[i] = making[i]
        /\ making'[n].at = making[n].at + 1
    BY <1>1, <1>5, AdvancedFrame DEF ConnectToBus
  <2>2. connections[Current.service] = Left(Current.service) /\ Left(Current.service) \in Nat
    BY <1>1, <1>3, <1>4 DEF Ownership, Owned, Left
  <2>3. connections' \in [Connected -> Nat]
        /\ \A s \in Connected : connections'[s] \in {Left(s)', Left(s)' + 1}
    BY <1>2, <1>4, <1>5, <2>2 DEF Ownership, Owned, Left
  <2>4. Past(making'[n])
    BY <1>1, <1>4, <2>1 DEF Past, Connected
  <2>5. \A s \in Connected : connections'[s] > Left(s)' => s \in created \/ s = Current.service
    BY <1>2, <1>3, <1>5 DEF Ownership, Owned, Left
  <2>6. Nested'
    BY <2>1 DEF Ownership, Nested
  <2>7. Owned'
    <3>1. \A i \in 1 .. n : making'[i].service = "IMessageSender" => i # n
      BY <1>1, <1>4, <2>1 DEF Connected
    <3>2. making'[n].service = "IEventPublisher" => making[n].service = "IEventPublisher" /\ making[n].at > 1
      BY <1>1, <1>4, <2>1
    <3>3. \A i \in 1 .. n : Past(making'[i]) =>
             connections'[making'[i].service] = Left(making'[i].service) + 1
      <4>1. \A i \in 1 .. n : Past(making'[i]) => i = n
        BY <1>3, <2>1
      <4>2. connections'[Current.service] = Left(Current.service) + 1
        BY <1>2, <1>4, <1>5, <2>2 DEF Ownership, Owned, Left
      <4>3. QED
        BY <1>1, <2>1, <4>1, <4>2
    <3>4. ASSUME NEW i \in 1 .. n
          PROVE  /\ making'[i].service \notin created'
                 /\ making'[i].service = "IEventPublisher" /\ making'[i].at > 1
                       => "IMessageSender" \in created'
                 /\ making'[i].service = "IMessageSender" /\ making'[i].at > 1
                       => Common \subseteq services'
      BY <1>1, <1>2, <2>1, <3>1, <3>2 DEF Ownership, Owned
    <3>5. \A s \in Connected : connections'[s] > Left(s)' =>
             s \in created' \/ \E i \in 1 .. n : making'[i].service = s /\ Past(making'[i])
      BY <1>1, <1>2, <2>1, <2>4, <2>5
    <3>6. QED
      BY <1>2, <2>1, <2>3, <3>3, <3>4, <3>5 DEF Ownership, Owned, Left
  <2>8. QED
    BY <1>2, <2>6, <2>7 DEF Ownership
<1>6. CASE Fail /\ UNCHANGED connections
  BY <1>2, <1>3, <1>6 DEF Fail, Ownership, Nested, Owned, Left
<1>7. QED
  BY <1>5, <1>6 DEF ConnectToBus

\* The publisher's constructor is the only factory with a connection, and if it fails that
\* connection is the one that is left.
LEMMA CreatingOwns ==
    ASSUME Complement, Ownership, CreateModel
    PROVE  Ownership'
<1> DEFINE n == Len(making)
<1>1. making \in Seq(Frames) /\ n \in Nat /\ n \in 1 .. n /\ Current = making[n]
      /\ Current \in Frames /\ listeners \in Nat
  BY TopFrame DEF CreateModel, Complement, Stacked, Stocked
<1>2. Provided' /\ UNCHANGED <<services, created, connections>>
  BY DEF CreateModel, Fail, collection, Ownership, Provided, Registered
<1>3. making[n].service = "IEventPublisher" /\ making[n].at > 2
  BY <1>1, ItemOf DEF CreateModel
<1>4. CASE Advance /\ UNCHANGED refused
  BY <1>2, <1>4, AdvancingOwns DEF CreateModel, Steps
<1>5. CASE Fail /\ refused' = refused + 1
  <2>1. \A i \in 1 .. n : Past(making[i]) => making[i].service = "IEventPublisher"
    <3> SUFFICES ASSUME NEW i \in 1 .. n, making[i].service = "IEventConsumer" PROVE FALSE
      BY DEF Past
    <3>1. i # n
      BY <1>3
    <3>2. Level(making[n].service) < Level(making[i].service)
      BY <1>1, <3>1 DEF Ownership, Nested
    <3>3. QED
      BY <1>3, <3>2 DEF Level, Connected, All, Faults
  <2>2. connections["IEventPublisher"] = refused + 1
    BY <1>1, <1>3 DEF Ownership, Owned, Past, Left
  <2>3. QED
    BY <1>2, <1>5, <2>1, <2>2 DEF Fail, Ownership, Nested, Owned, Left
<1>6. QED
  BY <1>4, <1>5 DEF CreateModel

LEMMA BuildingOwns ==
    ASSUME Complement, Ownership, BuildProcessors
    PROVE  Ownership'
<1>1. Provided' /\ UNCHANGED <<services, created, connections, refused>>
  BY DEF BuildProcessors, Fail, collection, Ownership, Provided, Registered
<1>2. CASE Advance
  BY <1>1, <1>2, AdvancingOwns DEF BuildProcessors, Steps
<1>3. CASE Fail
  <2>1. \A i \in 1 .. Len(making) : ~Past(making[i])
    BY NothingConnectedFails DEF BuildProcessors
  <2>2. QED
    BY <1>1, <1>3, <2>1 DEF Fail, Ownership, Nested, Owned, Left
<1>4. QED
  BY <1>2, <1>3 DEF BuildProcessors

LEMMA FinishingOwns ==
    ASSUME Complement, Ownership, Finish
    PROVE  Ownership'
<1> DEFINE n == Len(making)
<1>1. making \in Seq(Frames) /\ n \in Nat /\ n \in 1 .. n /\ Current = making[n]
      /\ Current \in Frames /\ Registered(Current.service)
  BY TopFrame DEF Finish, Complement, Stacked
<1>2. Len(making') = n - 1 /\ \A i \in 1 .. n - 1 : making'[i] = making[i] /\ i \in 1 .. n
  BY <1>1, FrontKeeps DEF Finish
<1>3. UNCHANGED <<services, connections, refused>>
      /\ (Current.service = "EventListener" => created' = created)
      /\ (Current.service # "EventListener" => created' = created \cup {Current.service})
  BY DEF Finish, collection
<1>4. \A i \in 1 .. n - 1 : making[i].service # Current.service
  <2> SUFFICES ASSUME NEW i \in 1 .. n - 1 PROVE making[i].service # Current.service
    OBVIOUS
  <2>1. Level(Current.service) < Level(making[i].service)
    BY <1>1 DEF Ownership, Nested
  <2>2. Level(Current.service) \in Nat
    BY DEF Level
  <2>3. QED
    BY <2>1, <2>2
<1>5. Provided'
  <2>1. Current.service = "IMessageSender" => Common \subseteq services
    <3> SUFFICES ASSUME Current.service = "IMessageSender" PROVE Common \subseteq services
      OBVIOUS
    <3>1. Current.at > 1
      BY <1>1 DEF Finish, Complete, Recipe, Frames, All, Faults
    <3>2. QED
      BY <1>1, <3>1 DEF Ownership, Owned
  <2>2. Current.service \in Known
    BY <1>1 DEF Frames
  <2>3. host' # "configuring"
    BY DEF Finish, Complement, Stacked
  <2>4. QED
    BY <1>1, <1>3, <2>1, <2>2, <2>3 DEF Ownership, Provided, Registered
<1>6. Nested'
  BY <1>2 DEF Ownership, Nested
<1>7. Owned'
  <2>1. \A s \in Connected : s # "EventListener"
    BY DEF Connected
  <2>2. ASSUME NEW s \in Connected, connections[s] > Left(s)
        PROVE  s \in created' \/ \E i \in 1 .. n - 1 : making'[i].service = s /\ Past(making'[i])
    <3>1. CASE s \in created
      BY <1>3, <3>1
    <3>2. ASSUME NEW i \in 1 .. n, making[i].service = s, Past(making[i])
          PROVE  s \in created' \/ \E j \in 1 .. n - 1 : making'[j].service = s /\ Past(making'[j])
      <4>1. CASE i = n
        BY <1>1, <1>3, <2>1, <3>2, <4>1
      <4>2. CASE i # n
        <5>1. i \in 1 .. n - 1
          BY <1>1, <4>2
        <5>2. QED
          BY <1>2, <3>2, <5>1
      <4>3. QED
        BY <4>1, <4>2
    <3>3. QED
      BY <2>2, <3>1, <3>2 DEF Ownership, Owned
  <2>3. \A i \in 1 .. n - 1 : /\ making[i].service \notin created'
                              /\ making[i].service = "IEventPublisher" /\ making[i].at > 1
                                    => "IMessageSender" \in created'
                              /\ making[i].service = "IMessageSender" /\ making[i].at > 1
                                    => Common \subseteq services
    BY <1>2, <1>3, <1>4 DEF Ownership, Owned
  <2>4. refused' \in Nat /\ connections' \in [Connected -> Nat]
        /\ \A s \in Connected : connections'[s] \in {Left(s)', Left(s)' + 1}
    BY <1>3 DEF Ownership, Owned, Left
  <2>5. QED
    <3>1. \A i \in 1 .. n - 1 : Past(making'[i]) =>
             connections[making'[i].service] = Left(making'[i].service) + 1
      BY <1>2 DEF Ownership, Owned
    <3>2. QED
      BY <1>2, <1>3, <2>2, <2>3, <2>4, <3>1 DEF Owned, Left
<1>8. QED
  BY <1>5, <1>6, <1>7 DEF Ownership

\* A connection that a factory opens stays with the singleton or the factory at work unless
\* CreateModel throws at the end of the publisher's, which leaves that one connection: nothing
\* else fails after connecting.  RegisterRmqTransport registers the consumer after all it
\* takes, and a publisher that the application registers alone fails for the lack of the
\* dispatcher in the sender it takes first, and so before it connects (EventPublisher.cs:41,
\* RabbiterServiceCollectionExtensions.cs:46-56,102-113).
THEOREM NoConnectionIsLeft == Spec => []ConnectionsAreOwned
<1>1. Init => Ownership
  BY DEF Init, Ownership, Nested, Provided, Owned, Dispatcher, Left
<1>2. Complement /\ Ownership /\ [Next]_vars => Ownership'
  <2> SUFFICES ASSUME Complement, Ownership, [Next]_vars PROVE Ownership'
    OBVIOUS
  <2>1. CASE UNCHANGED <<services, making, created, connections, refused>> /\ (host' = "configuring" => host = "configuring")
    BY <2>1 DEF Ownership, Nested, Provided, Owned, Registered, Left
  <2>2. ASSUME NEW s \in {"IEventPublisher", All},
               making' = <<Make(s)>>, s \notin created, making = <<>>,
               UNCHANGED <<services, created, connections, refused>>, host' # "configuring"
        PROVE  Ownership'
    <3>1. s \in Known
      BY DEF Known, Stock, Connected
    <3>2. Len(making') = 1 /\ making'[1].service = s /\ making'[1].at = 1
      BY <2>2, <3>1, FirstFrame DEF Make
    <3>3. QED
      BY <2>2, <3>2 DEF Ownership, Nested, Provided, Owned, Past, Registered, Left
  <2>3. CASE StartHost
    <3>1. making = <<>> /\ created = {} /\ host' # "configuring"
          /\ UNCHANGED <<services, created, connections, refused>>
      BY <2>3 DEF StartHost, collection, Complement, Stacked, Ownership, Provided
    <3>2. making' = <<>> \/ making' = <<Make(All)>>
      BY <2>3, <3>1 DEF StartHost
    <3>3. QED
      BY <2>1, <2>2, <3>1, <3>2
  <2>4. CASE StartAsync
    BY <2>1, <2>4 DEF StartAsync, collection, container
  <2>5. ASSUME NEW s \in {"IEventPublisher", All}, Ask(s) PROVE Ownership'
    BY <2>1, <2>2, <2>5 DEF Ask, collection
  <2>6. CASE UNCHANGED vars
    BY <2>1, <2>6 DEF vars, collection, container
  <2>7. QED
    BY <2>3, <2>4, <2>5, <2>6, CallsOwn, TakingOwns, ConnectingOwns,
       CreatingOwns, BuildingOwns, FinishingOwns DEF Next
<1>3. Ownership => ConnectionsAreOwned
  BY DEF Ownership, Owned, ConnectionsAreOwned
<1>4. QED
  BY <1>1, <1>2, <1>3, Complemented, PTL DEF Spec
=============================================================================
