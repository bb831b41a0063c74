----------------------- MODULE PublisherChannelProofs -----------------------
(* What holds of PublisherChannel for all messages, exchanges and listeners.  *)
EXTENDS PublisherChannel, QueueManagerProofs, SequenceTheorems, TLAPS

\* As long as nothing happened to the channel, it is open and nobody's call failed.
Calm ==
    /\ outages["publisher"] = 0 /\ refused = {} =>
          /\ channel = "open" /\ "publisher" \in up
          /\ thrown = {}
          /\ \A m \in Direct : direct[m] # "threw"
    /\ outages \in [Connections -> Nat]
    /\ direct \in [Direct -> {"none", "sent", "threw"}]

\* The only steps that take the channel from "open" are the broker's refusal and an
\* outage, and both are remembered; a handler call or PublishAsync fails only on a
\* channel that is not usable (EventPublisher.cs:41-44, MessageSender.cs:29-40).
THEOREM TroubleIsCaused == ChannelSafetySpec => []TroubleHasCause
<1> USE ChannelAssumption DEF ChannelAssumption
<1>1. ChannelInit => Calm
  BY DEF ChannelInit, Init, Calm, Connections
<1>2. Calm /\ [ChannelNext]_allVars => Calm'
  <2> SUFFICES ASSUME Calm, [ChannelNext]_allVars PROVE Calm'
    OBVIOUS
  <2> USE DEF Calm
  <2>1. ASSUME NEW m \in Messages, Publish(m) PROVE Calm'
    BY <2>1 DEF Publish, ReadRunning, channelVars, brokerVars, workerVars
  <2>2. ASSUME NEW m \in Messages, PublishStep(m) PROVE Calm'
    BY <2>2 DEF PublishStep, EnqueueStep, CountUp, AddToQueue, StartWorker, LeaveToWorker,
                channelVars, brokerVars, workerVars
  <2>3. ASSUME NEW m \in Messages, SendingStep(m) PROVE Calm'
    <3>1. CASE Send(m)
      BY <3>1 DEF Send, HandlerReturns
    <3>2. CASE SendThrows(m)
      \* not before an outage or a refusal: the channel would be open
      BY <3>2 DEF SendThrows, HandlerThrows, Usable, channelVars, brokerVars
    <3>3. ASSUME DequeueItem(m) \/ FindEmpty(m) \/ WorkerReadRunning(m) \/ WorkerExchange(m)
                     \/ CountDown(m),
                 UNCHANGED channelVars
          PROVE  Calm'
      BY <3>3 DEF DequeueItem, FindEmpty, WorkerReadRunning, WorkerExchange, CountDown,
                  channelVars, brokerVars
    <3>4. QED
      BY <2>3, <3>1, <3>2, <3>3 DEF SendingStep
  <2>4. ASSUME NEW m \in Direct, PublishAsync(m) PROVE Calm'
    BY <2>4 DEF PublishAsync, Usable, BasicPublish, vars
  <2>5. CASE StartupStep
    BY <2>5 DEF StartupStep, ExchangeDeclare, ExchangeBind, StartFails, brokerVars, vars
  <2>6. CASE Route
    BY <2>6 DEF Route, vars
  <2>7. CASE NoticeClose
    BY <2>7 DEF NoticeClose, vars
  <2>8. ASSUME NEW c \in Connections, Outage(c) PROVE Calm'
    BY <2>8 DEF Outage, Connections, vars
  <2>9. ASSUME NEW c \in Connections, Recover(c) PROVE Calm'
    BY <2>9 DEF Recover, Connections, vars
  <2>10. CASE UNCHANGED allVars
    BY <2>10 DEF allVars, channelVars, brokerVars, vars
  <2>11. QED
    BY <2>1, <2>2, <2>3, <2>4, <2>5, <2>6, <2>7, <2>8, <2>9, <2>10 DEF ChannelNext
<1>3. Calm => TroubleHasCause
  BY DEF Calm, TroubleHasCause
<1>4. QED
  BY <1>1, <1>2, <1>3, PTL DEF ChannelSafetySpec
-----------------------------------------------------------------------------
(* The queue inside: what is proved of QueueManager holds of a publisher's    *)

\* Every step around the channel is a step of the queue or leaves it alone: the handler
\* returns or throws as the queue expects, and outside of the handler the queue depends
\* on nothing that a channel, the broker or another caller does (EventPublisher.cs:35-44).
THEOREM UsesTheQueue == ChannelSafetySpec => SafetySpec
<1>1. ChannelInit => Init
  BY DEF ChannelInit
<1>2. [ChannelNext]_allVars => [Next]_vars
  <2> SUFFICES ASSUME [ChannelNext]_allVars PROVE Next \/ UNCHANGED vars
    OBVIOUS
  <2>1. ASSUME NEW m \in Messages, Publish(m) \/ PublishStep(m) PROVE Next
    BY <2>1 DEF Publish, PublishStep, Next
  <2>2. ASSUME NEW m \in Messages, SendingStep(m) PROVE Next
    <3>1. WorkerStep(m)
      BY <2>2 DEF SendingStep, Send, SendThrows, WorkerStep
    <3>2. QED
      BY <3>1 DEF Next
  <2>3. CASE StartupStep \/ Route \/ NoticeClose \/ (\E m \in Direct : PublishAsync(m))
             \/ (\E c \in Connections : Outage(c) \/ Recover(c))
    BY <2>3 DEF StartupStep, ExchangeDeclare, ExchangeBind, StartFails, Route, NoticeClose,
                PublishAsync, Outage, Recover
  <2>4. CASE UNCHANGED allVars
    BY <2>4 DEF allVars
  <2>5. QED
    BY <2>1, <2>2, <2>3, <2>4 DEF ChannelNext
<1>3. QED
  BY <1>1, <1>2, PTL DEF ChannelSafetySpec, SafetySpec

\* A publisher's queue, too, hands each event to SendMessageAsync once and in the order
\* of Publish, counts what it holds and gathers no more workers than stale reads of the
\* flag, and the first exception that meets it with the flag up and nobody else alive
\* stops it for good (QueueManager.cs:39-78).
THEOREM PublishedInOrder ==
    ChannelSafetySpec =>
        /\ PromiseKept
        /\ [](ItemsInOnePlace /\ DispatcherCountExact /\ WorkerBehindFlag /\ WorkersBounded)
        /\ DeathIsFinal
  BY UsesTheQueue, Implements, OnePlace, CountIsExact, FlagHasWorker, WorkersAreFew, NoRevival, PTL
-----------------------------------------------------------------------------
(* Types *)

Declarations == [group : STRING, exchange : Exchanges]

\* A listener that has yet to bind an exchange has declared it.
DeclaredFirst == half => Upcoming \in declared

ChannelTyped == ChannelTypeOK /\ DeclaredFirst

LEMMA Elements ==
    ASSUME NEW S, NEW q \in Seq(S)
    PROVE  /\ \A i \in 1 .. Len(q) : q[i] \in S
           /\ q # <<>> => Head(q) \in S /\ Tail(q) \in Seq(S)
  OBVIOUS

LEMMA RestIsTyped ==
    ASSUME NEW S, NEW q \in Seq(S), NEW k \in 1 .. Len(q)
    PROVE  SubSeq(q, k + 1, Len(q)) \in Seq(S)
<1>1. \A i \in k + 1 .. Len(q) : q[i] \in S
  OBVIOUS
<1>2. k + 1 \in Int /\ Len(q) \in Int /\ k + 1 \in 1 .. Len(q) + 1
  OBVIOUS
<1>3. QED
  BY <1>1, <1>2, SubSeqProperties

LEMMA PublisherInit == ChannelInit => ChannelTyped
<1> SUFFICES ASSUME ChannelInit PROVE ChannelTyped
  OBVIOUS
<1> USE DEF ChannelInit
<1>1. declared \subseteq Exchanges /\ bound = declared
  <2>1. PICK k \in 0 .. Len(Startup) :
           declared = {Startup[i].exchange : i \in 1 .. k} /\ bound = declared
    OBVIOUS
  <2>2. Startup \in Seq(Declarations) /\ Len(Startup) \in Nat
    BY ChannelAssumption DEF ChannelAssumption, Declarations
  <2>3. \A i \in 1 .. Len(Startup) : Startup[i] \in Declarations
    BY <2>2, Elements
  <2>4. \A i \in 1 .. k : i \in 1 .. Len(Startup)
    BY <2>2
  <2>5. \A i \in 1 .. k : Startup[i].exchange \in Exchanges
    BY <2>3, <2>4 DEF Declarations
  <2>6. QED
    BY <2>1, <2>5
<1>2. outages \in [Connections -> 0 .. MaxOutages]
  BY ChannelAssumption DEF ChannelAssumption
<1>3. direct \in [Direct -> {"none", "sent", "threw"}]
  OBVIOUS
<1>4. todo \in Seq([group : STRING, exchange : Exchanges]) /\ half = FALSE
  BY ChannelAssumption DEF ChannelAssumption
<1>5. wire \in Seq(Sent)
  OBVIOUS
<1>6. QED
  BY <1>1, <1>2, <1>3, <1>4, <1>5 DEF ChannelTyped, ChannelTypeOK, DeclaredFirst

\* What the listeners' start does to the exchanges.
LEMMA StartupTyped ==
    ASSUME ChannelTyped, StartupStep
    PROVE  ChannelTyped'
<1> USE DEF ChannelTyped, ChannelTypeOK, DeclaredFirst, brokerVars
<1>1. todo \in Seq(Declarations)
  BY DEF Declarations
<1>2. todo # <<>> => Upcoming \in Exchanges
  <2>1. todo # <<>> => Head(todo) \in Declarations
    BY <1>1, Elements
  <2>2. QED
    BY <2>1 DEF Upcoming, Declarations
<1>3. todo # <<>> => Tail(todo) \in Seq([group : STRING, exchange : Exchanges])
  BY <1>1, Elements DEF Declarations
<1>4. CASE ExchangeDeclare
  BY <1>2, <1>4 DEF ExchangeDeclare, Upcoming
<1>5. CASE ExchangeBind
  <2>1. Upcoming \in Exchanges /\ todo' \in Seq([group : STRING, exchange : Exchanges])
    BY <1>2, <1>3, <1>5 DEF ExchangeBind
  <2>2. Upcoming \in declared
    BY <1>5 DEF ExchangeBind
  <2>3. QED
    BY <1>5, <2>1, <2>2 DEF ExchangeBind
<1>6. CASE StartFails
  <2>1. todo' \in Seq(Declarations)
    BY <1>1, <1>6, RestIsTyped DEF StartFails
  <2>2. todo' \in Seq([group : STRING, exchange : Exchanges])
    BY <2>1 DEF Declarations
  <2>3. QED
    BY <1>6, <2>2 DEF StartFails
<1>7. QED
  BY <1>4, <1>5, <1>6 DEF StartupStep

LEMMA PublisherStep == ChannelTyped /\ ItemsInOnePlace /\ [ChannelNext]_allVars => ChannelTyped'
<1> SUFFICES ASSUME ChannelTyped, ItemsInOnePlace, [ChannelNext]_allVars
             PROVE  ChannelTyped'
  OBVIOUS
<1> USE DEF ChannelTyped, ChannelTypeOK, DeclaredFirst, Upcoming
<1>1. ASSUME UNCHANGED channelVars PROVE ChannelTyped'
  BY <1>1 DEF channelVars, startupVars, brokerVars
<1>2. ASSUME NEW m \in Sent, BasicPublish(m) PROVE wire' \in Seq(Sent)
  BY <1>2 DEF BasicPublish
<1>3. ASSUME NEW w \in Messages, Send(w) PROVE ChannelTyped'
  <2>1. item[w] \in Sent
    \* a worker that calls the handler has an item in its hands
    BY <1>3 DEF Send, HandlerReturns, ItemsInOnePlace, HandsFull, Sent
  <2>2. QED
    BY <1>2, <1>3, <2>1 DEF Send, startupVars
<1>4. ASSUME NEW m \in Messages, Publish(m) \/ PublishStep(m) \/ SendingStep(m) PROVE ChannelTyped'
  BY <1>1, <1>3, <1>4 DEF Publish, PublishStep, SendingStep, SendThrows
<1>5. ASSUME NEW m \in Direct, PublishAsync(m) PROVE ChannelTyped'
  BY <1>2, <1>5 DEF PublishAsync, startupVars, Sent
<1>6. CASE StartupStep
  BY <1>6, StartupTyped
<1>7. CASE Route
  <2>1. wire # <<>> => Head(wire) \in Sent /\ Tail(wire) \in Seq(Sent)
    BY Elements
  <2>2. QED
    BY <1>7, <2>1 DEF Route, startupVars
<1>8. CASE NoticeClose
  BY <1>8 DEF NoticeClose, startupVars
<1>9. ASSUME NEW c \in Connections, Outage(c) PROVE ChannelTyped'
  <2>1. outages' \in [Connections -> 0 .. MaxOutages]
    BY <1>9, ChannelAssumption DEF Outage, Connections, ChannelAssumption
  <2>2. channel' \in {"open", "refused", "closed", "down"}
    BY <1>9 DEF Outage
  <2>3. wire' \in Seq(Sent)
    <3>1. wire' = <<>> \/ wire' = wire
      BY <1>9 DEF Outage
    <3>2. <<>> \in Seq(Sent)
      OBVIOUS
    <3>3. wire \in Seq(Sent)
      OBVIOUS
    <3>4. QED
      BY <3>1, <3>2, <3>3, Zenon
  <2>4. QED
    BY <1>9, <2>1, <2>2, <2>3 DEF Outage, startupVars
<1>10. ASSUME NEW c \in Connections, Recover(c) PROVE ChannelTyped'
  <2>1. channel' \in {"open", "closed", channel}
    BY <1>10 DEF Recover
  <2>2. QED
    BY <1>10, <2>1 DEF Recover, startupVars
<1>11. CASE UNCHANGED allVars
  BY <1>1, <1>11 DEF allVars
<1>12. QED
  BY <1>4, <1>5, <1>6, <1>7, <1>8, <1>9, <1>10, <1>11 DEF ChannelNext

\* Nothing but items of callers ever gets on the channel, and no exchange is bound that is
\* not declared: what Enqueue accepted is what BasicPublish is given, however many workers
\* there are (EventPublisher.cs:41-44, ChannelExtensions.cs:13-22).
THEOREM ChannelTypeCorrect == ChannelSafetySpec => []ChannelTypeOK
<1>1. ChannelSafetySpec => []ItemsInOnePlace
  BY UsesTheQueue, OnePlace, PTL
<1>2. ChannelTyped => ChannelTypeOK
  BY DEF ChannelTyped
<1>3. QED
  BY <1>1, <1>2, PublisherInit, PublisherStep, PTL DEF ChannelSafetySpec
=============================================================================
