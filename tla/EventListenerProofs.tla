------------------------ MODULE EventListenerProofs -------------------------
(* What holds of EventListener for any number of calls under way, channels    *)
(* and troubles, spaced or not.                                               *)
EXTENDS EventListener, FiniteSetTheorems, TLAPS

LEMMA ConsumingIsFinite == channel \in [Channels -> ChannelStates] => Cardinality(Consuming) \in Nat
  BY ListenerAssumption, FS_Subset, FS_CardinalityType DEF ListenerAssumption, Consuming

LEMMA BoundsAreNaturals ==
    /\ MaxActivities \in Nat /\ MaxChannelLoss \in Nat /\ MaxCancels \in Nat
    /\ MaxOutages \in Nat /\ MaxStops \in Nat
  BY ListenerAssumption DEF ListenerAssumption

LEMMA ListenerInit == Init => TypeOK
<1> SUFFICES ASSUME Init PROVE TypeOK
  OBVIOUS
<1>1. channel \in [Channels -> ChannelStates]
  BY DEF Init, ChannelStates
<1>2. /\ at \in [Activities -> Places]
      /\ \A a \in Activities : at[a] \notin {"consuming", "adding", "assigning", "disposing"}
  BY DEF Init, Places
<1>3. lost \in 0 .. MaxChannelLoss /\ cancelled \in 0 .. MaxCancels
      /\ outages \in 0 .. MaxOutages /\ stops \in 0 .. MaxStops
  BY BoundsAreNaturals DEF Init
<1>4. QED
  BY <1>1, <1>2, <1>3 DEF Init, TypeOK

\* The steps of a call under way.
LEMMA ActivityKeeps ==
    ASSUME TypeOK, NEW a \in Activities, ActivityStep(a)
    PROVE  TypeOK'
<1> USE ListenerAssumption
    DEF ListenerAssumption, TypeOK, Goto, End, shared, disposing, counters, others
<1>1. CASE CheckSubscription(a) \/ CheckStopping(a) \/ Catch(a) \/ CheckStarted(a)
  BY <1>1 DEF CheckSubscription, CheckStopping, Catch, CheckStarted, Places
<1>2. CASE OpenChannel(a)
  <2>1. CASE connection # "open" /\ Goto(a, "catching") /\ UNCHANGED <<channel, mine>>
    BY <1>2, <2>1 DEF OpenChannel, Places
  <2>2. CASE connection = "open"
    <3>1. PICK c \in Channels : /\ channel' = [channel EXCEPT ![c] = "open"]
                                /\ mine' = [mine EXCEPT ![a] = c]
      BY <1>2, <2>2 DEF OpenChannel, Free
    <3>2. channel' \in [Channels -> ChannelStates]
      BY <3>1 DEF ChannelStates
    <3>3. QED
      BY <1>2, <2>2, <3>1, <3>2 DEF OpenChannel, Places
  <2>3. QED
    BY <1>2, <2>1, <2>2 DEF OpenChannel
<1>3. CASE BasicConsume(a)
  <2>1. channel' \in [Channels -> ChannelStates]
    BY <1>3 DEF BasicConsume, ChannelStates
  <2>2. QED
    BY <1>3, <2>1 DEF BasicConsume, Places
<1>4. CASE AddConsumer(a) \/ AssignSubscription(a)
  BY <1>4 DEF AddConsumer, AssignSubscription, Places
<1>5. CASE ReadSubscription(a) \/ Enumerate(a)
  BY <1>5 DEF ReadSubscription, Enumerate, Places
<1>6. CASE Dispose(a)
  <2>1. channel' \in [Channels -> ChannelStates] /\ notices' \in Nat
    BY <1>6 DEF Dispose, ChannelStates
  <2>2. QED
    BY <1>6, <2>1 DEF Dispose, Places
<1>7. CASE RemoveConsumer(a) \/ ClearSubscription(a) \/ RemoveAgain(a) \/ MoveOn(a)
  BY <1>7 DEF RemoveConsumer, ClearSubscription, RemoveAgain, MoveOn, AfterUnsubscribe, Places
<1>8. CASE CloseConnection(a)
  <2>1. connection' \in {"open", "down", "closed"} /\ channel' \in [Channels -> ChannelStates]
        /\ notices' \in Nat
    BY <1>8, ConsumingIsFinite DEF CloseConnection, ChannelStates
  <2>2. QED
    BY <1>8, <2>1 DEF CloseConnection, Places
<1>9. QED
  BY <1>1, <1>2, <1>3, <1>4, <1>5, <1>6, <1>7, <1>8 DEF ActivityStep

LEMMA ListenerStep == TypeOK /\ [Next]_vars => TypeOK'
<1> SUFFICES ASSUME TypeOK, [Next]_vars PROVE TypeOK'
  OBVIOUS
<1> USE ListenerAssumption
    DEF ListenerAssumption, Goto, shared, disposing, counters, others
<1>1. ASSUME NEW a \in Activities, Notify(a) \/ Stop(a) \/ BeginDispose(a) PROVE TypeOK'
  <2>1. CASE Notify(a)
    BY <2>1 DEF TypeOK, Notify, Places
  <2>2. CASE Stop(a)
    <3>1. stops' \in 0 .. MaxStops
      BY <2>2, BoundsAreNaturals DEF TypeOK, Stop
    <3>2. QED
      BY <2>2, <3>1 DEF TypeOK, Stop, Places
  <2>3. CASE BeginDispose(a)
    BY <2>3 DEF TypeOK, BeginDispose, Places
  <2>4. QED
    BY <1>1, <2>1, <2>2, <2>3
<1>2. ASSUME NEW c \in Channels, LoseChannel(c) \/ CancelConsumer(c) PROVE TypeOK'
  <2>1. channel' \in [Channels -> ChannelStates] /\ notices' \in Nat
    BY <1>2 DEF TypeOK, LoseChannel, CancelConsumer, Notice, ChannelStates
  <2>2. QED
    BY <1>2, <2>1 DEF TypeOK, LoseChannel, CancelConsumer
<1>3. CASE Outage \/ Recover
  <2>1. channel' \in [Channels -> ChannelStates] /\ notices' \in Nat
    BY <1>3, ConsumingIsFinite DEF TypeOK, Outage, Recover, ChannelStates
  <2>2. QED
    BY <1>3, <2>1 DEF TypeOK, Outage, Recover
<1>4. CASE UNCHANGED vars
  BY <1>4 DEF TypeOK, vars
<1>5. QED
  BY <1>1, <1>2, <1>3, <1>4, ActivityKeeps DEF Next

\* Whoever works on a channel has one in hand, however many calls overlap: no activity
\* disposes of a subscription that another one set to null (EventListener.cs:160-162).
THEOREM TypeCorrect == SafetySpec => []TypeOK
  BY ListenerInit, ListenerStep, PTL DEF SafetySpec
-----------------------------------------------------------------------------
\* A connection that was never down is open until Dispose closes it, for good and with
\* everything on it.
Silenced ==
    outages = 0 =>
        /\ connection # "down"
        /\ \A c \in Channels : channel[c] \notin {"down", "downConsuming"}
        /\ disposal = "done" => connection = "closed"
        /\ connection = "closed" => \A c \in Channels : channel[c] \notin {"open", "consuming"}

\* Once Dispose came to its end, nothing consumes again, whatever restarts were under way
\* and however they interleave with it, unless the connection had been lost
\* (EventConsumer.cs:94-108).
THEOREM DisposeIsFinal == SafetySpec => []DisposeSilences
<1> USE ListenerAssumption
    DEF ListenerAssumption, TypeOK, Silenced, shared, disposing, counters, others, Goto, End
<1>1. Init => Silenced
  BY DEF Init
<1>2. TypeOK /\ Silenced /\ [Next]_vars => Silenced'
  <2> SUFFICES ASSUME TypeOK, Silenced, [Next]_vars, outages' = 0 PROVE Silenced'
    OBVIOUS
  <2>1. outages = 0
    BY DEF Next, ActivityStep, CheckSubscription, CheckStopping, Catch, CheckStarted, OpenChannel,
           BasicConsume, AddConsumer, AssignSubscription, ReadSubscription, Enumerate, Dispose,
           RemoveConsumer, ClearSubscription, RemoveAgain, MoveOn, CloseConnection, Notify, Stop,
           BeginDispose, LoseChannel, CancelConsumer, Outage, Recover, vars
  <2>2. ASSUME NEW a \in Activities, OpenChannel(a) PROVE Silenced'
    <3>1. \/ UNCHANGED <<connection, channel, disposal>>
          \/ connection = "open" /\ connection' = connection /\ disposal' = disposal
             /\ \E c \in Channels : channel' = [channel EXCEPT ![c] = "open"]
      BY <2>2 DEF OpenChannel, Free
    <3>2. QED
      BY <2>1, <3>1
  <2>3. ASSUME NEW a \in Activities, BasicConsume(a) PROVE Silenced'
    BY <2>1, <2>3 DEF BasicConsume
  <2>4. ASSUME NEW a \in Activities, Dispose(a) PROVE Silenced'
    BY <2>1, <2>4 DEF Dispose
  <2>5. ASSUME NEW a \in Activities, CloseConnection(a) PROVE Silenced'
    BY <2>1, <2>5 DEF CloseConnection
  <2>6. ASSUME NEW a \in Activities,
               \/ CheckSubscription(a) \/ CheckStopping(a) \/ Catch(a) \/ CheckStarted(a)
               \/ AddConsumer(a) \/ AssignSubscription(a) \/ ReadSubscription(a) \/ Enumerate(a)
               \/ RemoveConsumer(a) \/ ClearSubscription(a) \/ RemoveAgain(a) \/ MoveOn(a)
               \/ Notify(a) \/ Stop(a) \/ BeginDispose(a)
        PROVE  Silenced'
    <3>1. UNCHANGED <<connection, channel>> /\ (disposal' = "done" => disposal = "done")
      BY <2>6 DEF CheckSubscription, CheckStopping, Catch, CheckStarted, AddConsumer,
                  AssignSubscription, ReadSubscription, Enumerate, RemoveConsumer,
                  ClearSubscription, RemoveAgain, MoveOn, Notify, Stop, BeginDispose
    <3>2. QED
      BY <2>1, <3>1
  <2>7. ASSUME NEW c \in Channels, LoseChannel(c) \/ CancelConsumer(c) PROVE Silenced'
    BY <2>1, <2>7 DEF LoseChannel, CancelConsumer
  <2>8. CASE Outage
    BY <2>1, <2>8 DEF Outage
  <2>9. CASE Recover
    BY <2>1, <2>9 DEF Recover
  <2>10. CASE UNCHANGED vars
    BY <2>1, <2>10 DEF vars
  <2>11. QED
    BY <2>2, <2>3, <2>4, <2>5, <2>6, <2>7, <2>8, <2>9, <2>10 DEF Next, ActivityStep
<1>3. Silenced => DisposeSilences
  BY DEF DisposeSilences, Consuming
<1>4. QED
  BY <1>1, <1>2, <1>3, TypeCorrect, PTL DEF SafetySpec

-----------------------------------------------------------------------------
(* Trouble that comes one at a time *)

\* where EventConsumer.Dispose runs, and where nothing else does
DisposePlaces == {"enumerating", "disposing", "removing", "removingAgain", "movingOn", "closing"}
OwnPlaces == {"enumerating", "removingAgain", "movingOn", "closing"}

\* Dispose is called once.
Owned ==
    \A a \in Activities :
        /\ at[a] = "idle" => task[a] = "none"
        /\ at[a] \in OwnPlaces => task[a] = "dispose"
        /\ task[a] = "dispose" =>
              /\ at[a] \in DisposePlaces /\ disposal = "running"
              /\ \A b \in Activities : task[b] = "dispose" => a = b

LEMMA OwnedAlways == SafetySpec => []Owned
<1>1. Init => Owned
  BY DEF Init, Owned, OwnPlaces
<1>2. TypeOK /\ Owned /\ [Next]_vars => Owned'
  <2> SUFFICES ASSUME TypeOK, Owned, [Next]_vars PROVE Owned'
    OBVIOUS
  <2> USE DEF TypeOK, Owned, OwnPlaces, DisposePlaces, Goto, End, shared, disposing, counters, others
  <2>1. ASSUME NEW a \in Activities, \/ CheckSubscription(a) \/ OpenChannel(a) \/ BasicConsume(a)
                                     \/ AddConsumer(a) \/ AssignSubscription(a) \/ Catch(a)
        PROVE  Owned'
    BY <2>1 DEF CheckSubscription, OpenChannel, BasicConsume, AddConsumer, AssignSubscription, Catch
  <2>2. ASSUME NEW a \in Activities, CheckStopping(a) \/ ReadSubscription(a) \/ CheckStarted(a)
        PROVE  Owned'
    BY <2>2 DEF CheckStopping, ReadSubscription, CheckStarted
  <2>3. ASSUME NEW a \in Activities, Dispose(a) \/ RemoveConsumer(a) \/ ClearSubscription(a)
        PROVE  Owned'
    BY <2>3 DEF Dispose, RemoveConsumer, ClearSubscription, AfterUnsubscribe
  <2>4. ASSUME NEW a \in Activities, \/ Enumerate(a) \/ RemoveAgain(a) \/ MoveOn(a) \/ CloseConnection(a)
        PROVE  Owned'
    BY <2>4 DEF Enumerate, RemoveAgain, MoveOn, CloseConnection
  <2>5. ASSUME NEW a \in Activities, Notify(a) \/ Stop(a) PROVE Owned'
    BY <2>5 DEF Notify, Stop, Unused
  <2>6. ASSUME NEW a \in Activities, BeginDispose(a) PROVE Owned'
    BY <2>6 DEF BeginDispose, Unused
  <2>7. CASE \/ \E c \in Channels : LoseChannel(c) \/ CancelConsumer(c)
             \/ Outage \/ Recover \/ UNCHANGED vars
    BY <2>7 DEF LoseChannel, CancelConsumer, Outage, Recover, vars
  <2>8. QED
    BY <2>1, <2>2, <2>3, <2>4, <2>5, <2>6, <2>7 DEF Next, ActivityStep
<1>3. QED
  BY <1>1, <1>2, TypeCorrect, PTL DEF SafetySpec

\* until the connection is lost, StopListening is called, or Dispose is past its enumeration
Watched ==
    /\ outages = 0 /\ stops = 0 /\ disposal # "done"
    /\ \A a \in Activities : at[a] # "closing"

LEMMA WatchedBefore == TypeOK /\ Owned /\ [Next]_vars /\ Watched' => Watched
<1> SUFFICES ASSUME TypeOK, Owned, [Next]_vars, Watched' PROVE Watched
  OBVIOUS
<1> USE DEF TypeOK, Goto, End, shared, disposing, counters, others
<1>1. outages = 0 /\ stops = 0
  BY DEF Watched, Next, ActivityStep, CheckSubscription, CheckStopping, Catch, CheckStarted, OpenChannel,
         BasicConsume, AddConsumer, AssignSubscription, ReadSubscription, Enumerate, Dispose,
         RemoveConsumer, ClearSubscription, RemoveAgain, MoveOn, CloseConnection, Notify, Stop,
         BeginDispose, LoseChannel, CancelConsumer, Outage, Recover, vars
<1>2. ASSUME NEW a \in Activities, MoveOn(a) PROVE disposal # "done"
  BY <1>2 DEF MoveOn, Owned, OwnPlaces
<1>3. disposal # "done"
  BY <1>2 DEF Watched, Next, ActivityStep, CheckSubscription, CheckStopping, Catch, CheckStarted, OpenChannel,
         BasicConsume, AddConsumer, AssignSubscription, ReadSubscription, Enumerate, Dispose,
         RemoveConsumer, ClearSubscription, RemoveAgain, CloseConnection, Notify, Stop,
         BeginDispose, LoseChannel, CancelConsumer, Outage, Recover, vars
<1>4. ASSUME NEW a \in Activities, at[a] = "closing" PROVE FALSE
  <2>1. ASSUME NEW b \in Activities, ActivityStep(b) \/ Notify(b) \/ Stop(b) \/ BeginDispose(b), a # b
        PROVE  at'[a] = at[a]
    BY <2>1 DEF ActivityStep, CheckSubscription, CheckStopping, Catch, CheckStarted, OpenChannel,
         BasicConsume, AddConsumer, AssignSubscription, ReadSubscription, Enumerate, Dispose,
         RemoveConsumer, ClearSubscription, RemoveAgain, MoveOn, CloseConnection, Notify, Stop,
         BeginDispose
  <2>2. ASSUME ActivityStep(a) \/ Notify(a) \/ Stop(a) \/ BeginDispose(a)
        PROVE  disposal' = "done"
    BY <1>4, <2>2 DEF ActivityStep, CheckSubscription, CheckStopping, Catch, CheckStarted, OpenChannel,
         BasicConsume, AddConsumer, AssignSubscription, ReadSubscription, Enumerate, Dispose,
         RemoveConsumer, ClearSubscription, RemoveAgain, MoveOn, CloseConnection, Notify, Stop,
         BeginDispose, Unused
  <2>3. CASE \/ \E c \in Channels : LoseChannel(c) \/ CancelConsumer(c)
             \/ Outage \/ Recover \/ UNCHANGED vars
    BY <1>4, <2>3 DEF LoseChannel, CancelConsumer, Outage, Recover, vars, Watched
  <2>4. QED
    BY <1>4, <2>1, <2>2, <2>3 DEF Next, Watched
<1>5. QED
  BY <1>1, <1>3, <1>4 DEF Watched

Live == {c \in Channels : channel[c] \in {"open", "consuming"}}
Worker(a) == at[a] # "idle" /\ task[a] # "dispose"

\* The EventConsumer knows of the channel s, unless Dispose has taken it out.
Known(s) == registered = s \/ (registered = NoChannel /\ disposal # "none")

\* Nobody starts or restarts the listener: it consumes, or its restart is on the way.
AtRest ==
    /\ subscription # NoChannel /\ Known(subscription)
    /\ notices = 0 => Live = {subscription} /\ Consuming = {subscription}
    /\ notices = 1 => Live \subseteq {subscription} /\ Consuming = {}

Restarting == {"checkingStarted", "stopping", "reading", "disposing", "removing"}
Starting == {"checking", "opening", "consuming", "adding"}
WorkPlaces == Restarting \cup Starting \cup {"clearing", "assigning"}

\* A start or restart by its place: it gives up one channel before it opens the next.
WorkAt(a) ==
    /\ notices = 0
    /\ at[a] \in WorkPlaces
    /\ at[a] \in Restarting =>
          /\ subscription # NoChannel /\ Known(subscription)
          /\ Live \subseteq {subscription} /\ Consuming = {} /\ task[a] = "restart"
    /\ at[a] = "disposing" => mine[a] = subscription
    /\ at[a] = "removing" => Live = {}
    /\ at[a] = "clearing" => registered = NoChannel /\ Live = {} /\ task[a] = "restart"
    /\ at[a] \in Starting => subscription = NoChannel /\ registered = NoChannel
    /\ at[a] \in {"checking", "opening"} => Live = {}
    /\ at[a] = "consuming" => Live = {mine[a]} /\ Consuming = {}
    /\ at[a] \in {"adding", "assigning"} => Live = {mine[a]} /\ Consuming = {mine[a]}
    /\ at[a] = "assigning" => Known(mine[a])

\* Dispose begins with the listener at rest and sets off at most one restart.
DisposeAt(a) ==
    at[a] \in {"enumerating", "disposing"} =>
        /\ \A b \in Activities \ {a} : at[b] = "idle"
        /\ notices = 0 /\ registered = subscription
        /\ at[a] = "disposing" => mine[a] = subscription

Calm ==
    /\ connection = "open" /\ notices \in {0, 1}
    /\ \A c \in Channels : channel[c] \in {"none", "closed", "open", "consuming"}

InHand ==
    Watched =>
        /\ Calm
        /\ \A a \in Activities :
              /\ Worker(a) => WorkAt(a) /\ \A b \in Activities : Worker(b) => a = b
              /\ task[a] = "dispose" => DisposeAt(a)
        /\ (\A a \in Activities : ~Worker(a)) => AtRest

\* Only a moves, and works on.
LEMMA WorkGoesOn ==
    ASSUME InHand, Watched, NEW a \in Activities, Worker(a),
           \A b \in Activities \ {a} : at'[b] = at[b] /\ task'[b] = task[b],
           UNCHANGED disposal, Calm', Worker(a)', WorkAt(a)'
    PROVE  InHand'
<1>1. \A b \in Activities \ {a} : ~Worker(b) /\ ~Worker(b)'
  BY DEF InHand, Worker
<1>2. ASSUME NEW b \in Activities, task'[b] = "dispose" PROVE DisposeAt(b)'
  BY <1>2 DEF InHand, Worker, DisposeAt
<1>3. WorkAt(a)' /\ \A b \in Activities : Worker(b)' => a = b
  BY <1>1
<1>4. \A c \in Activities : Worker(c)' => c = a
  BY <1>1
<1>5. QED
  BY <1>2, <1>3, <1>4 DEF InHand

\* Only a moves, and its work is done.
LEMMA WorkEnds ==
    ASSUME InHand, Watched, NEW a \in Activities, Worker(a),
           \A b \in Activities \ {a} : at'[b] = at[b] /\ task'[b] = task[b],
           UNCHANGED disposal, Calm', at'[a] = "idle", task'[a] = "none", AtRest'
    PROVE  InHand'
<1>1. \A b \in Activities \ {a} : ~Worker(b) /\ ~Worker(b)'
  BY DEF InHand, Worker
<1>2. ASSUME NEW b \in Activities, task'[b] = "dispose" PROVE DisposeAt(b)'
  BY <1>2 DEF InHand, Worker, DisposeAt
<1>3. \A b \in Activities : ~Worker(b)'
  BY <1>1 DEF Worker
<1>4. QED
  BY <1>2, <1>3 DEF InHand

LEMMA WorkKept ==
    ASSUME TypeOK, Owned, InHand, Watched, NEW a \in Activities, Worker(a),
           ActivityStep(a)
    PROVE  InHand'
<1> USE DEF TypeOK, Goto, End, shared, disposing, counters, others
<1>1. WorkAt(a) /\ Calm
  BY DEF InHand
<1>2. at[a] \in WorkPlaces
  BY <1>1 DEF WorkAt
<1>3. at[a] \notin OwnPlaces \cup {"catching", "idle"}
  BY <1>2 DEF WorkPlaces, Restarting, Starting, OwnPlaces
<1>4. CASE CheckSubscription(a)
  <2>1. /\ at[a] = "checking" /\ at' = [at EXCEPT ![a] = "opening"]
        /\ UNCHANGED <<connection, channel, shared, notices, disposal, mine, task>>
    BY <1>1, <1>4 DEF CheckSubscription, WorkAt, Starting
  <2>2. WorkAt(a)' /\ Calm' /\ Worker(a)'
    BY <1>1, <2>1 DEF WorkAt, Calm, Worker, WorkPlaces, Restarting, Starting, Live, Consuming
  <2>3. QED
    BY <2>1, <2>2, WorkGoesOn DEF Worker
<1>5. CASE OpenChannel(a)
  <2>1. PICK c \in Channels :
            /\ channel[c] \in {"none", "closed"} /\ channel' = [channel EXCEPT ![c] = "open"]
            /\ mine' = [mine EXCEPT ![a] = c]
    BY <1>1, <1>5 DEF OpenChannel, Calm, Free
  <2>2. /\ at[a] = "opening" /\ at' = [at EXCEPT ![a] = "consuming"]
        /\ UNCHANGED <<connection, shared, notices, disposal, task>>
    BY <1>1, <1>5 DEF OpenChannel, Calm
  <2>3. Live = {} /\ Consuming = {}
    BY <1>1, <2>2 DEF WorkAt, Live, Consuming
  <2>4. Live' = {c} /\ Consuming' = {}
    BY <2>1, <2>3 DEF Live, Consuming
  <2>5. WorkAt(a)' /\ Worker(a)'
    BY <1>1, <2>1, <2>2, <2>4 DEF WorkAt, Worker, WorkPlaces, Restarting, Starting
  <2>6. Calm'
    BY <1>1, <2>1, <2>2 DEF Calm
  <2>7. QED
    BY <2>2, <2>5, <2>6, WorkGoesOn DEF Worker
<1>6. CASE BasicConsume(a)
  <2>1. at[a] = "consuming" /\ Live = {mine[a]} /\ Consuming = {}
    BY <1>1, <1>6 DEF BasicConsume, WorkAt
  <2>2. mine[a] \in Channels /\ channel[mine[a]] = "open"
    BY <2>1 DEF Live, Consuming
  <2>3. /\ channel' = [channel EXCEPT ![mine[a]] = "consuming"] /\ at' = [at EXCEPT ![a] = "adding"]
        /\ UNCHANGED <<connection, shared, mine, task, notices, disposal>>
    BY <1>6, <2>2 DEF BasicConsume
  <2>4. Live' = {mine[a]} /\ Consuming' = {mine[a]}
    BY <2>1, <2>2, <2>3 DEF Live, Consuming
  <2>5. WorkAt(a)' /\ Worker(a)'
    BY <1>1, <2>1, <2>3, <2>4 DEF WorkAt, Worker, WorkPlaces, Restarting, Starting
  <2>6. Calm'
    BY <1>1, <2>3 DEF Calm
  <2>7. QED
    BY <2>3, <2>5, <2>6, WorkGoesOn DEF Worker
<1>7. CASE AddConsumer(a)
  <2>1. at[a] = "adding" /\ registered = NoChannel
    BY <1>1, <1>7 DEF AddConsumer, WorkAt, Starting
  <2>2. /\ registered' = mine[a] /\ at' = [at EXCEPT ![a] = "assigning"]
        /\ UNCHANGED <<connection, channel, subscription, mine, task, notices, disposal>>
    BY <1>7, <2>1 DEF AddConsumer
  <2>3. WorkAt(a)' /\ Worker(a)' /\ Calm'
    BY <1>1, <2>1, <2>2 DEF WorkAt, Worker, WorkPlaces, Restarting, Starting, Known, Calm, Live, Consuming
  <2>4. QED
    BY <2>2, <2>3, WorkGoesOn DEF Worker
<1>8. CASE AssignSubscription(a)
  <2>1. /\ at[a] = "assigning" /\ subscription' = mine[a] /\ at' = [at EXCEPT ![a] = "idle"]
        /\ task' = [task EXCEPT ![a] = "none"]
        /\ UNCHANGED <<connection, channel, registered, notices, disposal>>
    BY <1>8 DEF AssignSubscription
  <2>2. mine[a] # NoChannel
    BY <2>1
  <2>3. AtRest' /\ Calm' /\ at'[a] = "idle"
    BY <1>1, <2>1, <2>2 DEF WorkAt, AtRest, Calm, Known, Live, Consuming
  <2>4. /\ \A b \in Activities \ {a} : at'[b] = at[b] /\ task'[b] = task[b]
        /\ task'[a] = "none" /\ UNCHANGED disposal
    <3>1. \A b \in Activities \ {a} : at'[b] = at[b]
      BY <2>1
    <3>2. task'[a] = "none" /\ \A b \in Activities \ {a} : task'[b] = task[b]
      BY <2>1
    <3>3. QED
      BY <2>1, <3>1, <3>2
  <2>5. QED
    BY <2>3, <2>4, WorkEnds
<1>9. CASE CheckStopping(a) \/ CheckStarted(a)
  <2>1. /\ at[a] \in Restarting \ {"disposing", "removing"}
        /\ at' = [at EXCEPT ![a] = "reading"] \/ at' = [at EXCEPT ![a] = "stopping"]
        /\ UNCHANGED <<connection, channel, shared, notices, disposal, mine, task>>
    BY <1>1, <1>9 DEF CheckStopping, CheckStarted, WorkAt, Restarting
  <2>2. WorkAt(a)' /\ Calm' /\ Worker(a)'
    BY <1>1, <2>1 DEF WorkAt, Calm, Worker, WorkPlaces, Restarting, Starting, Live, Consuming, Known
  <2>3. QED
    BY <2>1, <2>2, WorkGoesOn DEF Worker
<1>10. CASE ReadSubscription(a)
  <2>1. /\ at[a] = "reading" /\ at' = [at EXCEPT ![a] = "disposing"]
        /\ mine' = [mine EXCEPT ![a] = subscription]
        /\ UNCHANGED <<connection, channel, shared, notices, disposal, task>>
    BY <1>1, <1>10 DEF ReadSubscription, WorkAt, Restarting
  <2>2. WorkAt(a)' /\ Calm' /\ Worker(a)'
    BY <1>1, <2>1 DEF WorkAt, Calm, Worker, WorkPlaces, Restarting, Starting, Live, Consuming, Known
  <2>3. QED
    BY <2>1, <2>2, WorkGoesOn DEF Worker
<1>11. CASE Dispose(a)
  <2>1. at[a] = "disposing" /\ mine[a] = subscription /\ Live \subseteq {subscription} /\ Consuming = {}
        /\ subscription \in Channels
    BY <1>1, <1>11 DEF Dispose, WorkAt, Restarting
  <2>2. channel[subscription] # "consuming"
    BY <2>1 DEF Consuming
  <2>3. /\ channel' = [channel EXCEPT ![subscription] =
                          IF channel[subscription] \in Closed THEN channel[subscription] ELSE "closed"]
        /\ UNCHANGED <<connection, shared, mine, task, notices, disposal>>
        /\ at' = [at EXCEPT ![a] = "removing"]
    BY <1>11, <2>1, <2>2 DEF Dispose
  <2>4. Live' = {} /\ Consuming' = {}
    BY <2>1, <2>3 DEF Live, Consuming, Closed
  <2>5. WorkAt(a)' /\ Worker(a)'
    BY <1>1, <2>1, <2>3, <2>4 DEF WorkAt, Worker, WorkPlaces, Restarting, Starting, Known
  <2>6. Calm'
    BY <1>1, <2>3 DEF Calm
  <2>7. QED
    BY <2>3, <2>5, <2>6, WorkGoesOn DEF Worker
<1>12. CASE RemoveConsumer(a)
  <2>1. /\ at[a] = "removing" /\ at' = [at EXCEPT ![a] = "clearing"] /\ registered' = NoChannel
        /\ UNCHANGED <<connection, channel, subscription, mine, task, notices, disposal>>
    BY <1>12 DEF RemoveConsumer, AfterUnsubscribe, Worker
  <2>2. WorkAt(a)' /\ Calm' /\ Worker(a)'
    BY <1>1, <2>1 DEF WorkAt, Calm, Worker, WorkPlaces, Restarting, Starting, Live, Consuming
  <2>3. QED
    BY <2>1, <2>2, WorkGoesOn DEF Worker
<1>13. CASE ClearSubscription(a)
  <2>1. /\ at[a] = "clearing" /\ at' = [at EXCEPT ![a] = "checking"] /\ subscription' = NoChannel
        /\ UNCHANGED <<connection, channel, registered, task, notices, disposal>>
    BY <1>1, <1>13 DEF ClearSubscription, WorkAt
  <2>2. WorkAt(a)' /\ Calm' /\ Worker(a)'
    BY <1>1, <2>1 DEF WorkAt, Calm, Worker, WorkPlaces, Restarting, Starting, Live, Consuming
  <2>3. QED
    BY <2>1, <2>2, WorkGoesOn DEF Worker
<1>14. QED
  BY <1>3, <1>4, <1>5, <1>6, <1>7, <1>8, <1>9, <1>10, <1>11, <1>12, <1>13
     DEF ActivityStep, Catch, Enumerate, RemoveAgain, MoveOn, CloseConnection, OwnPlaces

\* What Dispose does, to its MoveOn, does not stop the restart that it sets off.
LEMMA WatchedDispose ==
    ASSUME TypeOK, Owned, InHand, Watched, Watched', NEW a \in Activities, task[a] = "dispose",
           ActivityStep(a)
    PROVE  InHand'
<1> USE DEF TypeOK, Goto, End, shared, disposing, counters, others
<1>1. /\ DisposeAt(a) /\ Calm /\ at[a] \in DisposePlaces \ {"closing"} /\ disposal = "running"
      /\ \A b \in Activities \ {a} : task[b] # "dispose"
      /\ ~Worker(a)
  BY DEF InHand, Owned, Worker, Watched
<1>2. ASSUME UNCHANGED <<connection, channel, notices, subscription>>, disposal' # "none",
             registered' \in {registered, NoChannel},
             \A b \in Activities \ {a} : at'[b] = at[b] /\ task'[b] = task[b] /\ mine'[b] = mine[b],
             ~Worker(a)', task'[a] = "dispose" => DisposeAt(a)'
      PROVE  InHand'
  <2>1. \A b \in Activities : Worker(b)' = Worker(b)
    BY <1>1, <1>2 DEF Worker
  <2>2. ASSUME NEW b \in Activities, Worker(b)'
        PROVE  WorkAt(b)' /\ \A d \in Activities : Worker(d)' => b = d
    <3>1. b # a /\ WorkAt(b) /\ \A d \in Activities : Worker(d) => b = d
      BY <1>1, <2>1, <2>2 DEF InHand
    <3>2. WorkAt(b)'
      BY <1>1, <1>2, <3>1 DEF WorkAt, Known, Live, Consuming
    <3>3. QED
      BY <2>1, <3>1, <3>2
  <2>3. (\A b \in Activities : ~Worker(b)') => AtRest'
    BY <1>1, <1>2, <2>1 DEF InHand, AtRest, Known, Live, Consuming
  <2>4. Calm'
    BY <1>1, <1>2 DEF Calm
  <2>5. \A b \in Activities : task'[b] = "dispose" => DisposeAt(b)'
    BY <1>1, <1>2
  <2>6. QED
    BY <2>2, <2>3, <2>4, <2>5 DEF InHand
<1>3. ASSUME at[a] \in {"enumerating", "disposing"}
      PROVE  /\ \A b \in Activities : ~Worker(b)
             /\ AtRest /\ notices = 0 /\ registered = subscription
             /\ Live = {subscription} /\ Consuming = {subscription}
  BY <1>1, <1>3 DEF DisposeAt, InHand, Worker, AtRest
<1>4. CASE Enumerate(a)
  <2>1. /\ at[a] = "enumerating" /\ at' = [at EXCEPT ![a] = "disposing"]
        /\ mine' = [mine EXCEPT ![a] = registered]
        /\ UNCHANGED <<connection, channel, shared, task, notices, disposal>>
    BY <1>3, <1>4 DEF Enumerate, AtRest
  <2>2. DisposeAt(a)'
    BY <1>1, <2>1 DEF DisposeAt
  <2>3. QED
    BY <1>1, <1>2, <2>1, <2>2 DEF Worker
<1>5. CASE Dispose(a)
  <2>1. /\ at[a] = "disposing" /\ mine[a] = subscription /\ subscription \in Channels
        /\ channel[subscription] = "consuming"
    BY <1>1, <1>3, <1>5 DEF Dispose, DisposeAt, AtRest, Consuming
  <2>2. /\ channel' = [channel EXCEPT ![subscription] = "closed"] /\ notices' = 1
        /\ at' = [at EXCEPT ![a] = "removing"]
        /\ UNCHANGED <<connection, shared, mine, task, disposal>>
    BY <1>3, <1>5, <2>1 DEF Dispose, Closed
  <2>3. Live' = {} /\ Consuming' = {}
    BY <1>3, <2>1, <2>2 DEF Live, Consuming
  <2>4. AtRest'
    BY <1>3, <2>1, <2>2, <2>3 DEF AtRest, Known
  <2>5. Calm'
    BY <1>1, <2>2 DEF Calm
  <2>6. \A b \in Activities : ~Worker(b)' /\ (task'[b] = "dispose" => DisposeAt(b)')
    <3>1. at'[a] = "removing" /\ \A b \in Activities \ {a} : at'[b] = at[b]
      BY <2>2
    <3>2. \A b \in Activities : ~Worker(b)'
      <4>1. \A b \in Activities : task'[b] = task[b] /\ ~Worker(b)
        BY <1>3, <2>1, <2>2
      <4>2. QED
        BY <3>1, <4>1 DEF Worker
    <3>3. \A b \in Activities : task'[b] = "dispose" => b = a
      BY <1>1, <2>2
    <3>4. QED
      BY <3>1, <3>2, <3>3 DEF DisposeAt
  <2>7. QED
    BY <2>4, <2>5, <2>6 DEF InHand
<1>6. CASE RemoveConsumer(a) \/ RemoveAgain(a)
  <2>1. /\ at' = [at EXCEPT ![a] = "removingAgain"] \/ at' = [at EXCEPT ![a] = "movingOn"]
        /\ registered' = NoChannel
        /\ UNCHANGED <<connection, channel, subscription, mine, task, notices, disposal>>
    BY <1>6 DEF RemoveConsumer, RemoveAgain, AfterUnsubscribe
  <2>2. at'[a] \in {"removingAgain", "movingOn"} /\ \A b \in Activities \ {a} : at'[b] = at[b]
    BY <2>1
  <2>3. QED
    BY <1>1, <1>2, <2>1, <2>2 DEF Worker, DisposeAt
<1>7. CASE MoveOn(a)
  <2>1. /\ at' = [at EXCEPT ![a] = "idle"] /\ task' = [task EXCEPT ![a] = "none"]
        /\ mine' = [mine EXCEPT ![a] = NoChannel] /\ disposal' = "failed"
        /\ UNCHANGED <<connection, channel, shared, notices>>
    BY <1>7 DEF MoveOn, Watched
  <2>2. QED
    BY <1>1, <1>2, <2>1 DEF Worker
<1>8. QED
  BY <1>1, <1>4, <1>5, <1>6, <1>7 DEF ActivityStep, CheckSubscription, OpenChannel, BasicConsume,
     AddConsumer, AssignSubscription, Catch, CheckStopping, ReadSubscription, ClearSubscription,
     CheckStarted, CloseConnection, DisposePlaces

LEMMA InHandStep == Spaced /\ TypeOK /\ Owned /\ InHand /\ [Next]_vars => InHand'
<1> SUFFICES ASSUME Spaced, TypeOK, Owned, InHand, [Next]_vars, Watched' PROVE InHand'
  BY DEF InHand
<1> USE DEF TypeOK, Goto, shared, disposing, counters, others
<1>1. Watched
  BY WatchedBefore
<1>2. ASSUME NEW a \in Activities, ActivityStep(a) PROVE InHand'
  <2>1. at[a] # "idle"
    BY <1>2 DEF ActivityStep, CheckSubscription, CheckStopping, Catch, CheckStarted, OpenChannel,
         BasicConsume, AddConsumer, AssignSubscription, ReadSubscription, Enumerate, Dispose,
         RemoveConsumer, ClearSubscription, RemoveAgain, MoveOn, CloseConnection
  <2>2. QED
    BY <1>1, <1>2, <2>1, WorkKept, WatchedDispose DEF Worker
<1>3. ASSUME NEW a \in Activities, Notify(a) PROVE InHand'
  <2>1. /\ at[a] = "idle" /\ task[a] = "none" /\ notices # 0
        /\ at' = [at EXCEPT ![a] = "checkingStarted"] /\ task' = [task EXCEPT ![a] = "restart"]
        /\ notices' = notices - 1
        /\ UNCHANGED <<connection, channel, shared, mine, disposal>>
    BY <1>3 DEF Notify, Unused, Owned
  <2>2. (\A b \in Activities : ~Worker(b)) /\ notices = 1 /\ AtRest /\ Calm
    BY <1>1, <2>1 DEF InHand, WorkAt, Calm
  <2>3. /\ at'[a] = "checkingStarted" /\ task'[a] = "restart" /\ notices' = 0
        /\ \A b \in Activities \ {a} : at'[b] = at[b] /\ task'[b] = task[b]
    BY <2>1, <2>2
  <2>4. WorkAt(a)' /\ Worker(a)' /\ \A b \in Activities \ {a} : ~Worker(b)'
    BY <2>1, <2>2, <2>3 DEF WorkAt, Worker, AtRest, WorkPlaces, Restarting, Starting, Known, Live, Consuming
  <2>5. \A b \in Activities : task'[b] = "dispose" => DisposeAt(b)'
    BY <1>1, <2>1, <2>2, <2>3 DEF InHand, DisposeAt
  <2>6. Calm'
    BY <2>1, <2>2, <2>3 DEF Calm
  <2>7. QED
    BY <2>4, <2>5, <2>6 DEF InHand
<1>4. ASSUME NEW a \in Activities, Stop(a) PROVE InHand'
  BY <1>4 DEF Stop, Watched
<1>5. ASSUME Trouble
      PROVE  /\ \A a \in Activities : ~Worker(a) /\ at[a] = "idle" /\ task[a] = "none"
             /\ Calm /\ AtRest /\ notices = 0
             /\ Live = {subscription} /\ Consuming = {subscription}
  BY <1>1, <1>5 DEF Trouble, Settled, InHand, Worker, AtRest, Owned
<1>6. ASSUME NEW a \in Activities, BeginDispose(a) PROVE InHand'
  <2>1. /\ Trouble /\ disposal = "none" /\ disposal' = "running"
        /\ at' = [at EXCEPT ![a] = "enumerating"] /\ task' = [task EXCEPT ![a] = "dispose"]
        /\ UNCHANGED <<connection, channel, shared, mine, notices>>
    BY <1>6 DEF BeginDispose
  <2>2. registered = subscription
    BY <1>5, <2>1 DEF AtRest, Known
  <2>3. AtRest' /\ Calm'
    BY <1>5, <2>1, <2>2 DEF AtRest, Calm, Known, Live, Consuming
  <2>4. \A b \in Activities : ~Worker(b)' /\ (task'[b] = "dispose" => DisposeAt(b)')
    BY <1>5, <2>1, <2>2 DEF Worker, DisposeAt
  <2>5. QED
    BY <2>3, <2>4 DEF InHand
<1>7. ASSUME NEW c \in Channels, LoseChannel(c) \/ CancelConsumer(c) PROVE InHand'
  <2>1. /\ Trouble /\ UNCHANGED <<connection, shared, at, mine, task, disposal>>
        /\ c \in Live /\ notices' = notices + Notice(c)
        /\ \/ channel' = [channel EXCEPT ![c] = "closed"]
           \/ channel' = [channel EXCEPT ![c] = "open"]
    BY <1>7 DEF LoseChannel, CancelConsumer, Live, Notice
  <2>2. c = subscription /\ Notice(c) = 1 /\ notices' = 1
    BY <1>5, <2>1 DEF Consuming, Notice
  <2>3. Live' \subseteq {subscription} /\ Consuming' = {}
    BY <1>5, <2>1, <2>2 DEF Live, Consuming
  <2>4. AtRest' /\ Calm'
    BY <1>5, <2>1, <2>2, <2>3 DEF AtRest, Calm, Known
  <2>5. \A b \in Activities : ~Worker(b)' /\ task'[b] # "dispose"
    BY <1>5, <2>1 DEF Worker
  <2>6. QED
    BY <2>4, <2>5 DEF InHand
<1>8. CASE Outage
  BY <1>8 DEF Outage, Watched
<1>9. CASE Recover
  BY <1>1, <1>9 DEF Recover, InHand, Calm
<1>10. CASE UNCHANGED vars
  BY <1>1, <1>10 DEF vars, InHand, Watched, Calm, Worker, WorkAt, DisposeAt, AtRest, Known, Live,
     Consuming
<1>11. QED
  BY <1>2, <1>3, <1>4, <1>6, <1>7, <1>8, <1>9, <1>10 DEF Next

LEMMA InHandAtFirst == Init => InHand
<1> SUFFICES ASSUME Init PROVE InHand
  OBVIOUS
<1>1. 1 \in Activities
  BY ListenerAssumption DEF ListenerAssumption, Activities
<1>2. Worker(1) /\ \A b \in Activities : (Worker(b) => b = 1) /\ task[b] = "none"
  BY <1>1 DEF Init, Worker
<1>3. WorkAt(1)
  BY <1>1 DEF Init, WorkAt, WorkPlaces, Restarting, Starting, Live
<1>4. QED
  BY <1>1, <1>2, <1>3 DEF Init, InHand, Calm

LEMMA InHandAlways == ASSUME Spaced PROVE SafetySpec => []InHand
<1>1. TypeOK /\ Owned /\ InHand /\ [Next]_vars => InHand'
  BY InHandStep
<1>2. QED
  BY <1>1, InHandAtFirst, OwnedAlways, TypeCorrect, PTL DEF SafetySpec

\* A listener whose troubles come one at a time gives up its channel before it opens the
\* next, so that each time it ends with one consumer, which the EventConsumer knows of too
\* (EventListener.cs:75-97, EventConsumer.cs:79-91).
THEOREM Restored == ASSUME Spaced PROVE SafetySpec => []RestoredExactly
<1>1. InHand => RestoredExactly
  <2> SUFFICES ASSUME InHand, Settled, Undisturbed
               PROVE  /\ subscription # NoChannel /\ registered = subscription
                      /\ Consuming = {subscription}
    BY DEF RestoredExactly
  <2>1. AtRest /\ notices = 0
    BY DEF Settled, Undisturbed, Watched, InHand, Worker
  <2>2. QED
    BY <2>1 DEF AtRest, Known, Undisturbed
<1>2. QED
  BY <1>1, InHandAlways, PTL

\* The restart that Dispose itself sets off is the only one, and either its entry makes the
\* enumeration fail, or it comes too late for that and finds the connection closed
\* (EventConsumer.cs:94-108).
THEOREM DisposeOrLive == ASSUME Spaced PROVE SafetySpec => []DisposedOrAlive
<1>1. InHand /\ DisposeSilences => DisposedOrAlive
  <2> SUFFICES ASSUME InHand, Settled, outages = 0, stops = 0, disposal = "failed"
               PROVE  subscription # NoChannel /\ Consuming = {subscription}
    BY DEF DisposedOrAlive
  <2>1. AtRest /\ notices = 0
    BY DEF Settled, Watched, InHand, Worker
  <2>2. QED
    BY <2>1 DEF AtRest
<1>2. QED
  BY <1>1, InHandAlways, DisposeIsFinal, PTL

-----------------------------------------------------------------------------
(* Outages, stops and Dispose as well, one at a time *)

NewPlaces == {"consuming", "adding", "assigning"}
Good(c) == channel[c] \in {"consuming", "downConsuming"}

\* Nobody else has the channel that an activity has opened and not yet handed over.
FreshAt(a) ==
    /\ mine[a] # subscription
    /\ at[a] # "assigning" => mine[a] # registered
    /\ \A b \in Activities \ {a} : at[b] \in NewPlaces \cup {"disposing"} => mine[b] # mine[a]
    /\ connection # "down"
    /\ connection = "open" =>
          channel[mine[a]] = IF at[a] = "consuming" THEN "open" ELSE "consuming"
AllFresh == \A a \in Activities : at[a] \in NewPlaces => FreshAt(a)

\* Channels are down only while their connection is.
DownTogether ==
    connection # "down" => \A c \in Channels : channel[c] \notin {"down", "downConsuming"}

\* Dispose begins when nothing else is under way.
BeginsSettled ==
    \A a \in Activities :
        at[a] = "enumerating" => notices = 0 /\ \A b \in Activities \ {a} : at[b] = "idle"

\* Somebody is about to set _consumerSubscription to null, or will read it.
Cares(b) ==
    \/ at[b] \in {"checkingStarted", "stopping", "reading", "clearing"}
    \/ at[b] \in {"disposing", "removing"} /\ task[b] # "dispose"
Cared == notices # 0 \/ \E b \in Activities : Cares(b)
CaredFor == subscription # NoChannel /\ connection # "closed" /\ ~Good(subscription) => Cared

Tended == AllFresh /\ DownTogether /\ BeginsSettled /\ CaredFor

LEMMA ActivityAlone ==
    ASSUME TypeOK, NEW a \in Activities, ActivityStep(a)
    PROVE  /\ at[a] # "idle" /\ UNCHANGED counters
           /\ \A b \in Activities \ {a} : at'[b] = at[b] /\ mine'[b] = mine[b] /\ task'[b] = task[b]
           /\ notices' \in Nat /\ notices' >= notices
<1> USE DEF TypeOK, Goto, End, shared, disposing, counters, others
<1>1. at[a] # "idle" /\ UNCHANGED counters
  BY DEF ActivityStep, CheckSubscription, CheckStopping, Catch, CheckStarted, OpenChannel,
         BasicConsume, AddConsumer, AssignSubscription, ReadSubscription, Enumerate, Dispose,
         RemoveConsumer, ClearSubscription, RemoveAgain, MoveOn, CloseConnection
<1>2. \A b \in Activities \ {a} : at'[b] = at[b] /\ mine'[b] = mine[b] /\ task'[b] = task[b]
  <2>1. \A b \in Activities \ {a} : at'[b] = at[b]
    BY DEF ActivityStep, CheckSubscription, CheckStopping, Catch, CheckStarted, OpenChannel,
         BasicConsume, AddConsumer, AssignSubscription, ReadSubscription, Enumerate, Dispose,
         RemoveConsumer, ClearSubscription, RemoveAgain, MoveOn, CloseConnection
  <2>2. \A b \in Activities \ {a} : mine'[b] = mine[b]
    BY DEF ActivityStep, CheckSubscription, CheckStopping, Catch, CheckStarted, OpenChannel,
         BasicConsume, AddConsumer, AssignSubscription, ReadSubscription, Enumerate, Dispose,
         RemoveConsumer, ClearSubscription, RemoveAgain, MoveOn, CloseConnection
  <2>3. \A b \in Activities \ {a} : task'[b] = task[b]
    BY DEF ActivityStep, CheckSubscription, CheckStopping, Catch, CheckStarted, OpenChannel,
         BasicConsume, AddConsumer, AssignSubscription, ReadSubscription, Enumerate, Dispose,
         RemoveConsumer, ClearSubscription, RemoveAgain, MoveOn, CloseConnection
  <2>4. QED
    BY <2>1, <2>2, <2>3
<1>3. Cardinality(Consuming) \in Nat
  BY ConsumingIsFinite
<1>4. notices' \in Nat /\ notices' >= notices
  BY <1>3 DEF ActivityStep, CheckSubscription, CheckStopping, Catch, CheckStarted, OpenChannel,
         BasicConsume, AddConsumer, AssignSubscription, ReadSubscription, Enumerate, Dispose,
         RemoveConsumer, ClearSubscription, RemoveAgain, MoveOn, CloseConnection
<1>5. QED
  BY <1>1, <1>2, <1>4

LEMMA DownTogetherStep == TypeOK /\ DownTogether /\ [Next]_vars => DownTogether'
<1> SUFFICES ASSUME TypeOK, DownTogether, [Next]_vars PROVE DownTogether'
  OBVIOUS
<1> USE DEF TypeOK, DownTogether, shared, disposing, counters, others
<1>1. ASSUME NEW a \in Activities, OpenChannel(a) PROVE DownTogether'
  <2>1. \/ UNCHANGED <<connection, channel>>
        \/ UNCHANGED connection /\ \E c \in Channels : channel' = [channel EXCEPT ![c] = "open"]
    BY <1>1 DEF OpenChannel, Free
  <2>2. QED
    BY <2>1
<1>2. ASSUME NEW a \in Activities, BasicConsume(a) PROVE DownTogether'
  BY <1>2 DEF BasicConsume
<1>3. ASSUME NEW a \in Activities, Dispose(a) PROVE DownTogether'
  BY <1>3 DEF Dispose
<1>4. ASSUME NEW a \in Activities, CloseConnection(a) PROVE DownTogether'
  BY <1>4 DEF CloseConnection
<1>5. ASSUME NEW a \in Activities,
             \/ CheckSubscription(a) \/ CheckStopping(a) \/ Catch(a) \/ CheckStarted(a)
             \/ AddConsumer(a) \/ AssignSubscription(a) \/ ReadSubscription(a) \/ Enumerate(a)
             \/ RemoveConsumer(a) \/ ClearSubscription(a) \/ RemoveAgain(a) \/ MoveOn(a)
             \/ Notify(a) \/ Stop(a) \/ BeginDispose(a)
      PROVE  DownTogether'
  BY <1>5 DEF CheckSubscription, CheckStopping, Catch, CheckStarted, AddConsumer,
              AssignSubscription, ReadSubscription, Enumerate, RemoveConsumer,
              ClearSubscription, RemoveAgain, MoveOn, Notify, Stop, BeginDispose
<1>6. ASSUME NEW c \in Channels, LoseChannel(c) \/ CancelConsumer(c) PROVE DownTogether'
  BY <1>6 DEF LoseChannel, CancelConsumer
<1>7. CASE Outage
  BY <1>7 DEF Outage
<1>8. CASE Recover
  <2>1. channel' = [c \in Channels |-> CASE channel[c] = "down" -> "open"
                                         [] channel[c] = "downConsuming" -> "consuming"
                                         [] OTHER -> channel[c]]
    BY <1>8 DEF Recover
  <2>2. \A c \in Channels : channel'[c] \notin {"down", "downConsuming"}
    BY <2>1
  <2>3. QED
    BY <2>2
<1>9. CASE UNCHANGED vars
  BY <1>9 DEF vars
<1>10. QED
  BY <1>1, <1>2, <1>3, <1>4, <1>5, <1>6, <1>7, <1>8, <1>9 DEF Next, ActivityStep

\* Spaced trouble finds every activity idle.
LEMMA TroubleIsSpaced ==
    Spaced /\ Trouble => notices = 0 /\ connection # "down" /\ \A a \in Activities : at[a] = "idle"
  BY DEF Trouble, Settled

LEMMA BeginsSettledStep == Spaced /\ TypeOK /\ BeginsSettled /\ [Next]_vars => BeginsSettled'
<1> SUFFICES ASSUME Spaced, TypeOK, BeginsSettled, [Next]_vars, NEW d \in Activities,
                    at'[d] = "enumerating"
             PROVE  notices' = 0 /\ \A b \in Activities \ {d} : at'[b] = "idle"
  BY DEF BeginsSettled
<1> USE DEF TypeOK, Goto, shared, disposing, counters, others
<1>1. ASSUME NEW a \in Activities, ActivityStep(a)
      PROVE  notices' = 0 /\ \A b \in Activities \ {d} : at'[b] = "idle"
  <2>1. a # d
    <3>1. ASSUME a = d PROVE at'[d] # "enumerating"
      BY <1>1, <3>1 DEF ActivityStep, CheckSubscription, CheckStopping, Catch, CheckStarted, OpenChannel,
         BasicConsume, AddConsumer, AssignSubscription, ReadSubscription, Enumerate, Dispose,
         RemoveConsumer, ClearSubscription, RemoveAgain, MoveOn, CloseConnection, AfterUnsubscribe, End
    <3>2. QED
      BY <3>1
  <2>2. at[d] = "enumerating" /\ at[a] # "idle"
    BY <1>1, <2>1, ActivityAlone
  <2>3. QED
    BY <2>1, <2>2 DEF BeginsSettled
<1>2. ASSUME NEW a \in Activities, Notify(a)
      PROVE  notices' = 0 /\ \A b \in Activities \ {d} : at'[b] = "idle"
  <2>1. at[d] = "enumerating" /\ notices # 0
    BY <1>2 DEF Notify
  <2>2. QED
    BY <2>1 DEF BeginsSettled
<1>3. ASSUME NEW a \in Activities, Stop(a) \/ BeginDispose(a)
      PROVE  notices' = 0 /\ \A b \in Activities \ {d} : at'[b] = "idle"
  <2>1. notices = 0 /\ \A b \in Activities : at[b] = "idle"
    BY <1>3, TroubleIsSpaced DEF Stop, BeginDispose
  <2>2. notices' = notices /\ at'[a] # "idle" /\ \A b \in Activities \ {a} : at'[b] = at[b]
    BY <1>3 DEF Stop, BeginDispose
  <2>3. QED
    BY <2>1, <2>2
<1>4. ASSUME \/ \E c \in Channels : LoseChannel(c) \/ CancelConsumer(c)
             \/ Outage
      PROVE  FALSE
  <2>1. Trouble /\ UNCHANGED at
    BY <1>4 DEF LoseChannel, CancelConsumer, Outage
  <2>2. QED
    BY <2>1, TroubleIsSpaced
<1>5. CASE Recover \/ UNCHANGED vars
  BY <1>5 DEF Recover, vars, BeginsSettled
<1>6. QED
  BY <1>1, <1>2, <1>3, <1>4, <1>5 DEF Next

\* What another activity does to a channel just opened: nothing.
LEMMA FreshByOthers ==
    ASSUME TypeOK, AllFresh, BeginsSettled, NEW a \in Activities, ActivityStep(a),
           NEW d \in Activities \ {a}, at[d] \in NewPlaces
    PROVE  FreshAt(d)'
<1> USE DEF TypeOK, Goto, End, shared, disposing, counters, others
<1> PICK m \in Channels : m = mine[d]
  BY DEF NewPlaces
<1>1. /\ FreshAt(d) /\ m # NoChannel /\ m # subscription /\ (at[d] # "assigning" => m # registered)
      /\ connection # "down"
      /\ connection = "open" => channel[m] = IF at[d] = "consuming" THEN "open" ELSE "consuming"
      /\ \A b \in Activities \ {d} : at[b] \in NewPlaces \cup {"disposing"} => mine[b] # m
  BY ListenerAssumption DEF ListenerAssumption, AllFresh, FreshAt
<1>2. /\ at'[d] = at[d] /\ mine'[d] = m /\ at[a] # "idle"
      /\ \A b \in Activities \ {a} : at'[b] = at[b] /\ mine'[b] = mine[b]
  BY ActivityAlone
<1>3. at[a] # "enumerating" /\ at[d] # "idle"
  BY <1>2 DEF BeginsSettled, NewPlaces
<1>4. ASSUME subscription' \in {subscription, NoChannel, mine[a]},
             subscription' = mine[a] => subscription' = subscription \/ at[a] \in NewPlaces,
             registered' \in {registered, NoChannel, mine[a]},
             registered' = mine[a] => registered' = registered \/ at[a] \in NewPlaces,
             at'[a] \in NewPlaces \cup {"disposing"} => mine'[a] # m,
             connection' # "down",
             connection' = "open" => connection = "open" /\ channel'[m] = channel[m]
      PROVE  FreshAt(d)'
  <2>1. m # subscription'
    BY <1>1, <1>4
  <2>2. at[d] # "assigning" => m # registered'
    BY <1>1, <1>4
  <2>3. \A b \in Activities \ {d} : at'[b] \in NewPlaces \cup {"disposing"} => mine'[b] # m
    BY <1>1, <1>2, <1>4
  <2>4. QED
    BY <1>1, <1>2, <1>4, <2>1, <2>2, <2>3 DEF FreshAt
<1>5. CASE OpenChannel(a)
  <2>1. CASE connection # "open"
    BY <1>1, <1>4, <1>5, <2>1 DEF OpenChannel, NewPlaces
  <2>2. CASE connection = "open"
    <3>1. PICK f \in Free : channel' = [channel EXCEPT ![f] = "open"] /\ mine' = [mine EXCEPT ![a] = f]
      BY <1>5, <2>2 DEF OpenChannel
    <3>2. f # m
      BY <3>1 DEF Free
    <3>3. QED
      BY <1>1, <1>4, <1>5, <2>2, <3>1, <3>2 DEF OpenChannel, NewPlaces
  <2>3. QED
    BY <2>1, <2>2
<1>6. CASE BasicConsume(a)
  <2>1. at[a] = "consuming" /\ UNCHANGED <<connection, shared, mine>> /\ mine[a] # m
        /\ \/ UNCHANGED channel
           \/ channel' = [channel EXCEPT ![mine[a]] = "consuming"]
    BY <1>1, <1>6 DEF BasicConsume, NewPlaces
  <2>2. QED
    BY <1>1, <1>4, <2>1
<1>7. CASE AddConsumer(a) \/ AssignSubscription(a)
  <2>1. at[a] \in NewPlaces /\ mine[a] # m /\ UNCHANGED <<connection, channel>>
        /\ mine'[a] \in {mine[a], NoChannel}
        /\ registered' \in {registered, mine[a]} /\ subscription' \in {subscription, mine[a]}
    BY <1>1, <1>7 DEF AddConsumer, AssignSubscription, NewPlaces
  <2>2. QED
    BY <1>1, <1>4, <2>1
<1>8. CASE ReadSubscription(a)
  <2>1. UNCHANGED <<connection, channel, shared>> /\ mine'[a] \in {subscription, NoChannel}
    BY <1>8 DEF ReadSubscription
  <2>2. QED
    BY <1>1, <1>4, <2>1
<1>9. CASE Dispose(a)
  <2>1. /\ at[a] = "disposing" /\ mine[a] # m /\ at' = [at EXCEPT ![a] = "removing"]
        /\ channel' = [channel EXCEPT ![mine[a]] = IF channel[mine[a]] \in Closed THEN channel[mine[a]] ELSE "closed"]
        /\ UNCHANGED <<connection, shared, mine>>
    BY <1>1, <1>9 DEF Dispose
  <2>2. channel'[m] = channel[m] /\ at'[a] = "removing"
    BY <2>1
  <2>3. QED
    BY <1>1, <1>4, <2>1, <2>2 DEF NewPlaces
<1>10. CASE CloseConnection(a)
  BY <1>1, <1>4, <1>10 DEF CloseConnection, NewPlaces
<1>11. CASE \/ CheckSubscription(a) \/ Catch(a) \/ CheckStopping(a) \/ RemoveConsumer(a)
            \/ ClearSubscription(a) \/ CheckStarted(a) \/ RemoveAgain(a) \/ MoveOn(a)
  <2>1. /\ UNCHANGED <<connection, channel>> /\ at'[a] \notin NewPlaces \cup {"disposing"}
        /\ subscription' \in {subscription, NoChannel} /\ registered' \in {registered, NoChannel}
    BY <1>11 DEF CheckSubscription, Catch, CheckStopping, RemoveConsumer, ClearSubscription,
       CheckStarted, RemoveAgain, MoveOn, AfterUnsubscribe, NewPlaces
  <2>2. m # subscription' /\ (at[d] # "assigning" => m # registered')
    BY <1>1, <2>1
  <2>3. \A b \in Activities \ {d} : at'[b] \in NewPlaces \cup {"disposing"} => mine'[b] # m
    BY <1>1, <1>2, <2>1
  <2>4. QED
    BY <1>1, <1>2, <2>1, <2>2, <2>3 DEF FreshAt
<1>12. QED
  BY <1>3, <1>5, <1>6, <1>7, <1>8, <1>9, <1>10, <1>11 DEF ActivityStep, Enumerate

\* The channel an activity has opened is a free one, and stays its own until it is handed over.
LEMMA FreshByItself ==
    ASSUME TypeOK, AllFresh, NEW a \in Activities, ActivityStep(a), at'[a] \in NewPlaces
    PROVE  FreshAt(a)'
<1> USE DEF TypeOK, Goto, End, shared, disposing, counters, others
<1>1. \A b \in Activities \ {a} : at'[b] = at[b] /\ mine'[b] = mine[b]
  BY ActivityAlone
<1>2. CASE OpenChannel(a)
  <2>1. connection = "open"
    BY <1>2 DEF OpenChannel, NewPlaces
  <2>2. PICK f \in Free : channel' = [channel EXCEPT ![f] = "open"] /\ mine' = [mine EXCEPT ![a] = f]
    BY <1>2, <2>1 DEF OpenChannel
  <2>3. /\ f \in Channels /\ f # subscription /\ f # registered /\ \A b \in Activities : mine[b] # f
        /\ channel'[f] = "open" /\ mine'[a] = f /\ at'[a] = "consuming"
        /\ UNCHANGED <<connection, shared>>
    BY <1>2, <2>1, <2>2 DEF OpenChannel, Free
  <2>4. \A b \in Activities \ {a} : mine'[b] # f
    BY <1>1, <2>3
  <2>5. QED
    BY <2>1, <2>3, <2>4 DEF FreshAt
<1>3. CASE BasicConsume(a)
  <2>1. at[a] = "consuming" /\ FreshAt(a) /\ at'[a] = "adding" /\ mine[a] \in Channels
        /\ channel[mine[a]] = "open" /\ channel' = [channel EXCEPT ![mine[a]] = "consuming"]
        /\ UNCHANGED <<connection, shared, mine>>
    BY <1>3 DEF BasicConsume, NewPlaces, AllFresh
  <2>2. QED
    BY <1>1, <2>1 DEF FreshAt
<1>4. CASE AddConsumer(a)
  <2>1. at[a] = "adding" /\ FreshAt(a) /\ at'[a] = "assigning"
        /\ UNCHANGED <<connection, channel, subscription, mine>>
    BY <1>4 DEF AddConsumer, NewPlaces, AllFresh
  <2>2. QED
    BY <1>1, <2>1 DEF FreshAt
<1>5. QED
  BY <1>2, <1>3, <1>4 DEF ActivityStep, NewPlaces, AfterUnsubscribe,
     CheckSubscription, CheckStopping, Catch, CheckStarted, AssignSubscription, ReadSubscription,
     Enumerate, Dispose, RemoveConsumer, ClearSubscription, RemoveAgain, MoveOn, CloseConnection

LEMMA AllFreshStep == Spaced /\ TypeOK /\ AllFresh /\ BeginsSettled /\ [Next]_vars => AllFresh'
<1> SUFFICES ASSUME Spaced, TypeOK, AllFresh, BeginsSettled, [Next]_vars,
                    NEW d \in Activities, at'[d] \in NewPlaces
             PROVE  FreshAt(d)'
  BY DEF AllFresh
<1> USE DEF TypeOK, Goto, shared, disposing, counters, others
<1>1. ASSUME NEW a \in Activities, ActivityStep(a) PROVE FreshAt(d)'
  <2>1. CASE a = d
    BY <1>1, <2>1, FreshByItself
  <2>2. CASE a # d
    BY <1>1, <2>2, FreshByOthers, ActivityAlone
  <2>3. QED
    BY <2>1, <2>2
<1>2. ASSUME NEW a \in Activities, Notify(a) PROVE FreshAt(d)'
  <2>1. /\ at'[a] = "checkingStarted" /\ \A b \in Activities \ {a} : at'[b] = at[b]
        /\ UNCHANGED <<connection, channel, shared, mine>>
    BY <1>2 DEF Notify
  <2>2. d # a /\ FreshAt(d)
    BY <2>1 DEF NewPlaces, AllFresh
  <2>3. QED
    BY <2>1, <2>2 DEF FreshAt, NewPlaces
<1>3. ASSUME NEW a \in Activities, Stop(a) \/ BeginDispose(a) PROVE FALSE
  <2>1. \A b \in Activities : at[b] = "idle"
    BY <1>3, TroubleIsSpaced DEF Stop, BeginDispose
  <2>2. at'[a] \in {"stopping", "enumerating"} /\ \A b \in Activities \ {a} : at'[b] = at[b]
    BY <1>3 DEF Stop, BeginDispose
  <2>3. QED
    BY <2>1, <2>2 DEF NewPlaces
<1>4. ASSUME \/ \E c \in Channels : LoseChannel(c) \/ CancelConsumer(c)
             \/ Outage
      PROVE  FALSE
  <2>1. Trouble /\ UNCHANGED at
    BY <1>4 DEF LoseChannel, CancelConsumer, Outage
  <2>2. QED
    BY <2>1, TroubleIsSpaced DEF NewPlaces
<1>5. ASSUME Recover PROVE FALSE
  BY <1>5 DEF Recover, AllFresh, FreshAt
<1>6. CASE UNCHANGED vars
  BY <1>6 DEF vars, AllFresh, FreshAt
<1>7. QED
  BY <1>1, <1>2, <1>3, <1>4, <1>5, <1>6 DEF Next

\* A subscription stays good until somebody cares for it, and somebody cares for it until it
\* is null.
LEMMA CaredForByActivity ==
    ASSUME TypeOK, Owned, Tended, NEW a \in Activities, ActivityStep(a) PROVE CaredFor'
<1> SUFFICES ASSUME subscription' # NoChannel, connection' # "closed", ~Good(subscription)'
             PROVE  Cared'
  BY DEF CaredFor
<1> USE DEF TypeOK, Goto, End, shared, disposing, counters, others
<1>1. /\ \A b \in Activities \ {a} : Cares(b)' = Cares(b)
      /\ notices' # 0 \/ notices = 0
  <2>1. /\ \A b \in Activities \ {a} : at'[b] = at[b] /\ task'[b] = task[b]
        /\ notices' \in Nat /\ notices' >= notices
    BY ActivityAlone
  <2>2. QED
    BY <2>1 DEF Cares
<1>2. connection # "closed"
  BY DEF ActivityStep, CheckSubscription, CheckStopping, Catch, CheckStarted, OpenChannel,
         BasicConsume, AddConsumer, AssignSubscription, ReadSubscription, Enumerate, Dispose,
         RemoveConsumer, ClearSubscription, RemoveAgain, MoveOn, CloseConnection
<1>3. ASSUME subscription' = subscription, Good(subscription)' = Good(subscription),
             Cares(a) => Cares(a)'
      PROVE  Cared'
  BY <1>1, <1>2, <1>3 DEF Tended, CaredFor, Cared
<1>4. CASE OpenChannel(a)
  <2>1. /\ UNCHANGED <<shared, task>> /\ at[a] = "opening"
        /\ channel'[subscription] = channel[subscription]
    BY <1>4 DEF OpenChannel, Free
  <2>2. QED
    BY <1>3, <2>1 DEF Good, Cares
<1>5. CASE BasicConsume(a)
  <2>1. at[a] = "consuming" /\ mine[a] # subscription /\ UNCHANGED shared
    BY <1>5 DEF BasicConsume, Tended, AllFresh, NewPlaces, FreshAt
  <2>2. channel'[subscription] = channel[subscription]
    BY <1>5, <2>1 DEF BasicConsume
  <2>3. QED
    BY <1>3, <2>1, <2>2 DEF Good, Cares
<1>6. CASE AddConsumer(a)
  BY <1>3, <1>6 DEF AddConsumer, Good, Cares
<1>7. ASSUME AssignSubscription(a) PROVE FALSE
  <2>1. at[a] = "assigning" /\ subscription' = mine[a] /\ UNCHANGED <<connection, channel>>
    BY <1>7 DEF AssignSubscription
  <2>2. FreshAt(a)
    BY <2>1 DEF Tended, AllFresh, NewPlaces
  <2>3. channel[mine[a]] = "consuming"
    BY <1>2, <2>1, <2>2 DEF FreshAt
  <2>4. QED
    BY <2>1, <2>3 DEF Good
<1>8. CASE Dispose(a)
  <2>1. /\ at[a] = "disposing" /\ mine[a] \in Channels /\ UNCHANGED <<shared, task>>
        /\ at'[a] = "removing"
        /\ channel' = [channel EXCEPT ![mine[a]] = IF channel[mine[a]] \in Closed THEN channel[mine[a]] ELSE "closed"]
        /\ notices' = IF channel[mine[a]] = "consuming" THEN notices + 1 ELSE notices
    BY <1>8 DEF Dispose
  <2>2. CASE channel[mine[a]] = "consuming"
    BY <2>1, <2>2 DEF Cared
  <2>3. CASE channel[mine[a]] # "consuming"
    <3>1. Good(subscription)' = Good(subscription) /\ subscription' = subscription
      BY <2>1, <2>3 DEF Good, Closed
    <3>2. QED
      BY <1>3, <2>1, <3>1 DEF Cares
  <2>4. QED
    BY <2>2, <2>3
<1>9. CASE CloseConnection(a)
  <2>1. at[a] = "closing" /\ UNCHANGED <<shared, channel>>
    BY <1>9 DEF CloseConnection
  <2>2. QED
    BY <1>3, <2>1 DEF Good, Cares
<1>10. CASE CheckSubscription(a) \/ Enumerate(a) \/ RemoveAgain(a) \/ MoveOn(a)
  <2>1. at[a] \in {"checking", "enumerating", "removingAgain", "movingOn"}
        /\ UNCHANGED <<channel, subscription>>
    BY <1>10 DEF CheckSubscription, Enumerate, RemoveAgain, MoveOn
  <2>2. QED
    BY <1>3, <2>1 DEF Good, Cares
<1>11. CASE Catch(a) \/ CheckStopping(a) \/ CheckStarted(a)
  <2>1. at'[a] \in {"reading", "stopping"} /\ UNCHANGED <<channel, subscription>>
    BY <1>11 DEF Catch, CheckStopping, CheckStarted
  <2>2. QED
    BY <2>1 DEF Cared, Cares
<1>12. CASE ReadSubscription(a)
  <2>1. at[a] = "reading" /\ at'[a] = "disposing" /\ UNCHANGED <<task, channel, subscription>>
    BY <1>12 DEF ReadSubscription
  <2>2. task[a] # "dispose"
    BY <2>1 DEF Owned, DisposePlaces
  <2>3. QED
    BY <2>1, <2>2 DEF Cared, Cares
<1>13. CASE RemoveConsumer(a)
  <2>1. /\ at[a] = "removing" /\ UNCHANGED <<task, channel, subscription>>
        /\ at'[a] = AfterUnsubscribe(a)
    BY <1>13 DEF RemoveConsumer, AfterUnsubscribe, Places
  <2>2. Cares(a) => Cares(a)'
    BY <2>1 DEF Cares, AfterUnsubscribe
  <2>3. QED
    BY <1>3, <2>1, <2>2 DEF Good
<1>14. QED
  BY <1>4, <1>5, <1>6, <1>7, <1>8, <1>9, <1>10, <1>11, <1>12, <1>13 DEF ActivityStep, ClearSubscription

LEMMA CaredForStep == Spaced /\ TypeOK /\ Owned /\ Tended /\ [Next]_vars => CaredFor'
<1> SUFFICES ASSUME Spaced, TypeOK, Owned, Tended, [Next]_vars PROVE CaredFor'
  OBVIOUS
<1> USE DEF TypeOK, Goto, shared, disposing, counters, others
<1>1. ASSUME NEW a \in Activities, Notify(a) PROVE CaredFor'
  BY <1>1 DEF Notify, CaredFor, Cared, Cares
<1>2. ASSUME NEW a \in Activities, Stop(a) PROVE CaredFor'
  BY <1>2 DEF Stop, CaredFor, Cared, Cares
<1>3. ASSUME Trouble
      PROVE  ~Cared /\ connection # "down" /\ notices = 0
  BY <1>3, TroubleIsSpaced DEF Cared, Cares
<1>4. ASSUME NEW a \in Activities, BeginDispose(a) PROVE CaredFor'
  BY <1>3, <1>4 DEF BeginDispose, Tended, CaredFor, Good
<1>5. ASSUME NEW c \in Channels, LoseChannel(c) \/ CancelConsumer(c) PROVE CaredFor'
  <2>1. /\ Trouble /\ UNCHANGED <<connection, shared>>
        /\ notices' = notices + Notice(c)
        /\ \/ channel' = [channel EXCEPT ![c] = "closed"]
           \/ channel' = [channel EXCEPT ![c] = "open"]
    BY <1>5 DEF LoseChannel, CancelConsumer, Notice
  <2>2. CASE channel[c] = "consuming"
    BY <1>3, <2>1, <2>2 DEF Notice, CaredFor, Cared
  <2>3. CASE channel[c] # "consuming"
    <3>1. subscription # c \/ connection = "closed" \/ channel[c] = "downConsuming"
      BY <1>3, <2>1, <2>3, ListenerAssumption DEF ListenerAssumption, Tended, CaredFor, Good
    <3>2. channel[c] # "downConsuming"
      BY <1>3, <2>1 DEF Tended, DownTogether
    <3>3. QED
      BY <1>3, <2>1, <3>1, <3>2 DEF Tended, CaredFor, Good
  <2>4. QED
    BY <2>2, <2>3
<1>6. CASE Outage
  <2>1. /\ Trouble /\ connection = "open" /\ UNCHANGED shared
        /\ channel' = [c \in Channels |-> CASE channel[c] = "open" -> "down"
                                            [] channel[c] = "consuming" -> "downConsuming"
                                            [] OTHER -> channel[c]]
    BY <1>6 DEF Outage
  <2>2. subscription # NoChannel => Good(subscription)
    BY <1>3, <2>1 DEF Tended, CaredFor
  <2>3. subscription # NoChannel => Good(subscription)'
    BY <2>1, <2>2 DEF Good
  <2>4. QED
    BY <2>1, <2>3 DEF CaredFor, Good
<1>7. CASE Recover
  <2>1. /\ connection = "down" /\ UNCHANGED <<shared, at, task, notices>>
        /\ channel' = [c \in Channels |-> CASE channel[c] = "down" -> "open"
                                            [] channel[c] = "downConsuming" -> "consuming"
                                            [] OTHER -> channel[c]]
    BY <1>7 DEF Recover
  <2>2. subscription # NoChannel /\ Good(subscription) => Good(subscription)'
    BY <2>1 DEF Good
  <2>3. Cared => Cared'
    BY <2>1 DEF Cared, Cares
  <2>4. QED
    BY <2>1, <2>2, <2>3 DEF Tended, CaredFor, Good
<1>8. CASE UNCHANGED vars
  BY <1>8 DEF vars, Tended, CaredFor, Cared, Cares, Good
<1>9. QED
  BY <1>1, <1>2, <1>4, <1>5, <1>6, <1>7, <1>8, CaredForByActivity DEF Next

LEMMA TendedAlways == ASSUME Spaced PROVE SafetySpec => []Tended
<1>1. Init => Tended
  BY DEF Init, Tended, AllFresh, NewPlaces, DownTogether, BeginsSettled, CaredFor
<1>2. TypeOK /\ Owned /\ Tended /\ [Next]_vars => Tended'
  BY AllFreshStep, DownTogetherStep, BeginsSettledStep, CaredForStep DEF Tended
<1>3. QED
  BY <1>1, <1>2, OwnedAlways, TypeCorrect, PTL DEF SafetySpec

\* IsStarted does not lie about a listener at rest: a subscription is good as long as
\* nobody is about to give it up, through connection losses, stops and Dispose as well
\* (EventListener.cs:20).
THEOREM StartedConsumes == ASSUME Spaced PROVE SafetySpec => []StartedMeansConsuming
<1>1. TypeOK /\ Tended => StartedMeansConsuming
  <2> SUFFICES ASSUME TypeOK, Tended, Settled, connection = "open", subscription # NoChannel
               PROVE  channel[subscription] = "consuming"
    BY DEF StartedMeansConsuming
  <2>1. ~Cared
    BY DEF Settled, Cared, Cares
  <2>2. Good(subscription) /\ subscription \in Channels
    BY <2>1 DEF TypeOK, Tended, CaredFor
  <2>3. QED
    BY <2>2 DEF Good, Tended, DownTogether
<1>2. QED
  BY <1>1, TendedAlways, TypeCorrect, PTL

-----------------------------------------------------------------------------
(* Connection losses: the restart races automatic recovery *)

\* No channel works while the connection is down, and only Dispose closes it for good.
Drained ==
    /\ connection = "down" => \A c \in Channels : channel[c] \notin {"open", "consuming"}
    /\ disposal = "none" => connection # "closed"

\* A channel with a consumer that nobody can close any more.
Orphan(c) ==
    /\ Good(c) /\ c # subscription
    /\ \A b \in Activities : mine[b] = c => at[b] \notin NewPlaces \cup {"disposing"}
Adrift == \E c \in Channels : Orphan(c)

\* Whoever gives a subscription up does so to start again ...
Early == {"checkingStarted", "stopping", "reading", "disposing", "removing", "clearing"}
RestartsOnly ==
    \A b \in Activities : at[b] # "catching" /\ (at[b] \in Early => task[b] = "restart")
\* ... and while there is none, somebody is about to start.
Started == notices # 0 \/ \E b \in Activities : at[b] \notin {"idle", "reading"}
\* While the connection is down, the one restart it sets off still has a good channel.
OneRestart ==
    /\ subscription # NoChannel /\ Good(subscription)
    /\ \/ notices = 1 /\ \A b \in Activities : at[b] = "idle"
       \/ /\ notices = 0
          /\ \E b \in Activities :
                /\ at[b] \in Early
                /\ at[b] = "disposing" => mine[b] = subscription
                /\ \A a \in Activities \ {b} : at[a] = "idle"
Returning ==
    /\ RestartsOnly
    /\ subscription = NoChannel => Started
    /\ connection = "down" => OneRestart

\* Who does not come back the planned way has left a consumer behind.
Heard == stops = 0 /\ disposal = "none" => Adrift \/ Returning

LEMMA DrainedStep == Spaced /\ TypeOK /\ AllFresh /\ Drained /\ [Next]_vars => Drained'
<1> SUFFICES ASSUME Spaced, TypeOK, AllFresh, Drained, [Next]_vars PROVE Drained'
  OBVIOUS
<1> USE DEF TypeOK, Drained, shared, disposing, counters, others
<1>1. ASSUME NEW a \in Activities, OpenChannel(a) PROVE Drained'
  <2>1. \/ UNCHANGED <<connection, channel, disposal>>
        \/ connection = "open" /\ UNCHANGED <<connection, disposal>>
    BY <1>1 DEF OpenChannel
  <2>2. QED
    BY <2>1
<1>2. ASSUME NEW a \in Activities, BasicConsume(a) PROVE Drained'
  <2>1. connection # "down" /\ UNCHANGED <<connection, disposal>>
    BY <1>2 DEF BasicConsume, AllFresh, FreshAt, NewPlaces
  <2>2. QED
    BY <2>1
<1>3. ASSUME NEW a \in Activities, Dispose(a) PROVE Drained'
  BY <1>3 DEF Dispose
<1>4. ASSUME NEW a \in Activities, CloseConnection(a) PROVE Drained'
  BY <1>4 DEF CloseConnection
<1>5. ASSUME NEW a \in Activities,
             \/ CheckSubscription(a) \/ CheckStopping(a) \/ Catch(a) \/ CheckStarted(a)
             \/ AddConsumer(a) \/ AssignSubscription(a) \/ ReadSubscription(a) \/ Enumerate(a)
             \/ RemoveConsumer(a) \/ ClearSubscription(a) \/ RemoveAgain(a) \/ MoveOn(a)
             \/ Notify(a) \/ Stop(a) \/ BeginDispose(a)
      PROVE  Drained'
  <2>1. UNCHANGED <<connection, channel>> /\ (disposal' = "none" => disposal = "none")
    BY <1>5 DEF CheckSubscription, CheckStopping, Catch, CheckStarted, AddConsumer,
                AssignSubscription, ReadSubscription, Enumerate, RemoveConsumer,
                ClearSubscription, RemoveAgain, MoveOn, Notify, Stop, BeginDispose
  <2>2. QED
    BY <2>1
<1>6. ASSUME NEW c \in Channels, LoseChannel(c) \/ CancelConsumer(c) PROVE Drained'
  BY <1>6, TroubleIsSpaced DEF LoseChannel, CancelConsumer
<1>7. CASE Outage
  <2>1. channel' = [c \in Channels |-> CASE channel[c] = "open" -> "down"
                                         [] channel[c] = "consuming" -> "downConsuming"
                                         [] OTHER -> channel[c]]
        /\ connection' = "down"
    BY <1>7 DEF Outage
  <2>2. \A c \in Channels : channel'[c] \notin {"open", "consuming"}
    BY <2>1
  <2>3. QED
    BY <2>1, <2>2
<1>8. CASE Recover \/ UNCHANGED vars
  BY <1>8 DEF Recover, vars
<1>9. QED
  BY <1>1, <1>2, <1>3, <1>4, <1>5, <1>6, <1>7, <1>8 DEF Next, ActivityStep

\* Before Dispose is called, nothing of it is under way.
LEMMA BeforeDispose ==
    ASSUME TypeOK, Owned, disposal = "none", NEW a \in Activities, ActivityStep(a)
    PROVE  /\ task[a] # "dispose" /\ connection' = connection
           /\ \/ CheckSubscription(a) \/ OpenChannel(a) \/ BasicConsume(a) \/ AddConsumer(a)
              \/ AssignSubscription(a) \/ Catch(a) \/ CheckStopping(a) \/ ReadSubscription(a)
              \/ Dispose(a) \/ RemoveConsumer(a) \/ ClearSubscription(a) \/ CheckStarted(a)
<1>1. task[a] # "dispose" /\ at[a] \notin OwnPlaces
  BY DEF Owned
<1>2. \/ CheckSubscription(a) \/ OpenChannel(a) \/ BasicConsume(a) \/ AddConsumer(a)
      \/ AssignSubscription(a) \/ Catch(a) \/ CheckStopping(a) \/ ReadSubscription(a)
      \/ Dispose(a) \/ RemoveConsumer(a) \/ ClearSubscription(a) \/ CheckStarted(a)
  BY <1>1 DEF ActivityStep, Enumerate, RemoveAgain, MoveOn, CloseConnection, OwnPlaces
<1>3. connection' = connection
  BY <1>2 DEF CheckSubscription, CheckStopping, Catch, CheckStarted, OpenChannel, BasicConsume,
     AddConsumer, AssignSubscription, ReadSubscription, Dispose, RemoveConsumer, ClearSubscription
<1>4. QED
  BY <1>1, <1>2, <1>3

LEMMA OrphanStays ==
    ASSUME TypeOK, Owned, disposal = "none", NEW a \in Activities, ActivityStep(a),
           NEW c \in Channels, Orphan(c)
    PROVE  Orphan(c)'
<1> USE DEF TypeOK, Goto, End, shared, disposing, counters, others
<1>1. /\ Good(c) /\ c # subscription /\ c # NoChannel
      /\ at[a] \in NewPlaces \cup {"disposing"} => mine[a] # c
  BY ListenerAssumption DEF ListenerAssumption, Orphan
<1>2. ASSUME channel'[c] = channel[c], c # subscription',
             at'[a] \in NewPlaces \cup {"disposing"} => mine'[a] # c
      PROVE  Orphan(c)'
  <2>1. \A b \in Activities \ {a} : at'[b] = at[b] /\ mine'[b] = mine[b]
    BY ActivityAlone
  <2>2. \A b \in Activities : mine'[b] = c => at'[b] \notin NewPlaces \cup {"disposing"}
    BY <1>2, <2>1 DEF Orphan
  <2>3. QED
    BY <1>1, <1>2, <2>2 DEF Orphan, Good
<1>3. CASE OpenChannel(a)
  <2>1. CASE connection # "open"
    BY <1>1, <1>2, <1>3, <2>1 DEF OpenChannel, NewPlaces
  <2>2. CASE connection = "open"
    <3>1. PICK f \in Free : channel' = [channel EXCEPT ![f] = "open"] /\ mine' = [mine EXCEPT ![a] = f]
      BY <1>3, <2>2 DEF OpenChannel
    <3>2. f # c /\ f \in Channels
      BY <1>1, <3>1 DEF Free, Good
    <3>3. QED
      BY <1>1, <1>2, <1>3, <3>1, <3>2 DEF OpenChannel
  <2>3. QED
    BY <2>1, <2>2
<1>4. CASE BasicConsume(a)
  <2>1. at[a] = "consuming" /\ UNCHANGED <<shared, mine>> /\ mine[a] # c
        /\ \/ UNCHANGED channel
           \/ channel' = [channel EXCEPT ![mine[a]] = "consuming"]
    BY <1>1, <1>4 DEF BasicConsume, NewPlaces
  <2>2. QED
    BY <1>1, <1>2, <2>1
<1>5. CASE AddConsumer(a) \/ AssignSubscription(a)
  <2>1. /\ at[a] \in NewPlaces /\ UNCHANGED channel
        /\ mine'[a] \in {mine[a], NoChannel} /\ subscription' \in {subscription, mine[a]}
    BY <1>5 DEF AddConsumer, AssignSubscription, NewPlaces
  <2>2. QED
    BY <1>1, <1>2, <2>1
<1>6. CASE ReadSubscription(a)
  <2>1. UNCHANGED <<channel, subscription>> /\ mine'[a] \in {subscription, NoChannel}
    BY <1>6 DEF ReadSubscription
  <2>2. QED
    BY <1>1, <1>2, <2>1
<1>7. CASE Dispose(a)
  <2>1. /\ at[a] = "disposing" /\ at' = [at EXCEPT ![a] = "removing"] /\ UNCHANGED shared
        /\ channel' = [channel EXCEPT ![mine[a]] = IF channel[mine[a]] \in Closed THEN channel[mine[a]] ELSE "closed"]
    BY <1>7 DEF Dispose
  <2>2. at'[a] \notin NewPlaces \cup {"disposing"} /\ channel'[c] = channel[c]
    BY <1>1, <2>1 DEF NewPlaces
  <2>3. QED
    BY <1>1, <1>2, <2>1, <2>2
<1>8. CASE \/ CheckSubscription(a) \/ Catch(a) \/ CheckStopping(a) \/ RemoveConsumer(a)
           \/ ClearSubscription(a) \/ CheckStarted(a)
  <2>1. /\ UNCHANGED channel /\ at'[a] \notin NewPlaces \cup {"disposing"}
        /\ subscription' \in {subscription, NoChannel}
    BY <1>8 DEF CheckSubscription, Catch, CheckStopping, RemoveConsumer, ClearSubscription,
       CheckStarted, AfterUnsubscribe, NewPlaces
  <2>2. QED
    BY <1>1, <1>2, <2>1
<1>9. QED
  BY <1>3, <1>4, <1>5, <1>6, <1>7, <1>8, BeforeDispose

\* While the connection is up, an attempt fails only on an entry that is there already, and
\* leaves its channel behind.
LEMMA ReturningWhileUp ==
    ASSUME TypeOK, Owned, Tended, Drained, Returning, disposal = "none", connection # "down",
           NEW a \in Activities, ActivityStep(a)
    PROVE  Adrift' \/ Returning'
<1> USE DEF TypeOK, Goto, End, shared, disposing, counters, others
<1>1. /\ connection = "open" /\ connection' = "open" /\ task[a] # "dispose"
      /\ at[a] # "catching" /\ (at[a] \in Early => task[a] = "restart")
  BY BeforeDispose DEF Drained, Returning, RestartsOnly
<1>2. \A b \in Activities \ {a} : at'[b] = at[b] /\ mine'[b] = mine[b] /\ task'[b] = task[b]
  BY ActivityAlone
<1>3. ASSUME at'[a] # "catching", at'[a] \in Early => task'[a] = "restart",
             subscription' = NoChannel => Started'
      PROVE  Returning'
  BY <1>1, <1>2, <1>3 DEF Returning, RestartsOnly
<1>4. at'[a] \notin {"idle", "reading"} => Started'
  BY DEF Started
<1>5. CASE CheckSubscription(a)
  <2>1. at'[a] \in {"idle", "opening"} /\ (at'[a] = "idle" => subscription' # NoChannel)
    BY <1>5 DEF CheckSubscription
  <2>2. QED
    BY <1>3, <1>4, <2>1 DEF Early
<1>6. CASE OpenChannel(a)
  <2>1. at'[a] = "consuming"
    BY <1>1, <1>6 DEF OpenChannel
  <2>2. QED
    BY <1>3, <1>4, <2>1 DEF Early
<1>7. CASE BasicConsume(a)
  <2>1. channel[mine[a]] = "open"
    BY <1>1, <1>7 DEF BasicConsume, Tended, AllFresh, FreshAt, NewPlaces
  <2>2. at'[a] = "adding"
    BY <1>7, <2>1 DEF BasicConsume
  <2>3. QED
    BY <1>3, <1>4, <2>2 DEF Early
<1>8. CASE AddConsumer(a)
  <2>1. CASE registered = NoChannel
    <3>1. at'[a] = "assigning"
      BY <1>8, <2>1 DEF AddConsumer
    <3>2. QED
      BY <1>3, <1>4, <3>1 DEF Early
  <2>2. CASE registered # NoChannel
    <3>1. at[a] = "adding" /\ at' = [at EXCEPT ![a] = "catching"]
          /\ UNCHANGED <<channel, subscription, mine>>
      BY <1>8, <2>2 DEF AddConsumer
    <3>2. FreshAt(a) /\ mine[a] \in Channels
      BY <3>1 DEF Tended, AllFresh, NewPlaces
    <3>3. channel[mine[a]] = "consuming" /\ mine[a] # subscription
      BY <1>1, <3>1, <3>2 DEF FreshAt
    <3>4. \A b \in Activities : mine'[b] = mine[a] => at'[b] \notin NewPlaces \cup {"disposing"}
      <4>1. at'[a] = "catching"
        BY <3>1
      <4>2. QED
        BY <1>2, <3>2, <4>1 DEF FreshAt, NewPlaces
    <3>5. PICK c \in Channels : c = mine[a]
      BY <3>2
    <3>6. Orphan(c)'
      BY <3>1, <3>3, <3>4, <3>5 DEF Orphan, Good
    <3>7. QED
      BY <3>6 DEF Adrift
  <2>3. QED
    BY <2>1, <2>2
<1>9. CASE AssignSubscription(a)
  <2>1. at'[a] = "idle" /\ subscription' # NoChannel
    BY <1>9 DEF AssignSubscription
  <2>2. QED
    BY <1>3, <2>1 DEF Early
<1>10. CASE CheckStopping(a) \/ CheckStarted(a)
  <2>1. /\ at[a] \in Early /\ task'[a] = "restart" /\ at'[a] \in {"reading", "checking", "stopping"}
        /\ at'[a] = "reading" => subscription' # NoChannel
    BY <1>1, <1>10 DEF CheckStopping, CheckStarted, Early
  <2>2. QED
    BY <1>3, <1>4, <2>1
<1>11. CASE ReadSubscription(a)
  <2>1. at[a] = "reading" /\ UNCHANGED <<subscription, notices>>
    BY <1>11 DEF ReadSubscription
  <2>2. CASE subscription # NoChannel
    <3>1. at'[a] = "disposing" /\ task'[a] = "restart"
      BY <1>1, <1>11, <2>1, <2>2 DEF ReadSubscription, Early
    <3>2. QED
      BY <1>3, <1>4, <3>1
  <2>3. CASE subscription = NoChannel
    <3>1. at'[a] = "idle"
      BY <1>11, <2>3 DEF ReadSubscription
    <3>2. Started'
      BY <1>2, <2>1, <2>3 DEF Returning, Started
    <3>3. QED
      BY <1>3, <3>1, <3>2 DEF Early
  <2>4. QED
    BY <2>2, <2>3
<1>12. CASE Dispose(a) \/ RemoveConsumer(a)
  <2>1. task'[a] = "restart" /\ at'[a] \in {"removing", "clearing"}
    BY <1>1, <1>12 DEF Dispose, RemoveConsumer, AfterUnsubscribe, Early
  <2>2. QED
    BY <1>3, <1>4, <2>1
<1>13. CASE ClearSubscription(a)
  <2>1. at'[a] = "checking"
    BY <1>1, <1>13 DEF ClearSubscription, Early
  <2>2. QED
    BY <1>3, <1>4, <2>1 DEF Early
<1>14. QED
  BY <1>1, <1>5, <1>6, <1>7, <1>8, <1>9, <1>10, <1>11, <1>12, <1>13, BeforeDispose DEF Catch

\* While it is down, the restart gives its channel up, and automatic recovery revives it.
LEMMA ReturningWhileDown ==
    ASSUME TypeOK, Owned, Tended, Drained, Returning, disposal = "none", connection = "down",
           NEW a \in Activities, ActivityStep(a)
    PROVE  Adrift' \/ Returning'
<1> USE DEF TypeOK, Goto, End, shared, disposing, counters, others
<1>1. PICK s \in Channels : s = subscription /\ Good(s) /\ s # NoChannel
  BY ListenerAssumption DEF ListenerAssumption, Returning, OneRestart
<1>2. /\ at[a] # "idle" /\ connection' = "down"
      /\ \A b \in Activities \ {a} : at'[b] = at[b] /\ mine'[b] = mine[b] /\ task'[b] = task[b]
  BY ActivityAlone, BeforeDispose
<1>3. /\ at[a] \in Early /\ task[a] = "restart" /\ notices = 0
      /\ at[a] = "disposing" => mine[a] = s
      /\ \A b \in Activities \ {a} : at[b] = "idle"
  BY <1>1, <1>2 DEF Returning, OneRestart, RestartsOnly
<1>4. channel[s] = "downConsuming"
  BY <1>1 DEF Good, Drained
<1>5. ASSUME at'[a] \in Early, at'[a] = "disposing" => mine'[a] = s, UNCHANGED <<task, subscription, notices>>,
             channel'[s] = channel[s]
      PROVE  Returning'
  <2>1. OneRestart'
    BY <1>1, <1>2, <1>3, <1>5 DEF OneRestart, Good
  <2>2. RestartsOnly'
    BY <1>2, <1>3, <1>5 DEF Returning, RestartsOnly, Early
  <2>3. QED
    BY <1>1, <1>2, <1>5, <2>1, <2>2 DEF Returning
<1>6. CASE CheckStarted(a) \/ CheckStopping(a) \/ RemoveConsumer(a)
  <2>1. /\ at'[a] \in {"stopping", "reading", "clearing"}
        /\ UNCHANGED <<task, subscription, notices, channel>>
    BY <1>1, <1>3, <1>6 DEF CheckStarted, CheckStopping, RemoveConsumer, AfterUnsubscribe
  <2>2. QED
    BY <1>5, <2>1 DEF Early
<1>7. CASE ReadSubscription(a)
  <2>1. /\ at'[a] = "disposing" /\ mine'[a] = s
        /\ UNCHANGED <<task, subscription, notices, channel>>
    BY <1>1, <1>7 DEF ReadSubscription
  <2>2. QED
    BY <1>5, <2>1 DEF Early
<1>8. CASE Dispose(a)
  <2>1. mine[a] = s
    BY <1>3, <1>8 DEF Dispose
  <2>2. at'[a] = "removing" /\ UNCHANGED <<task, subscription, notices>> /\ channel'[s] = channel[s]
    BY <1>4, <1>8, <2>1 DEF Dispose, Closed
  <2>3. QED
    BY <1>5, <2>2 DEF Early
<1>9. CASE ClearSubscription(a)
  <2>1. subscription' = NoChannel /\ at'[a] = "checking" /\ UNCHANGED channel
    BY <1>3, <1>9 DEF ClearSubscription
  <2>2. \A b \in Activities : at'[b] \notin NewPlaces \cup {"disposing"}
    BY <1>2, <1>3, <2>1 DEF NewPlaces
  <2>3. Orphan(s)'
    BY <1>1, <2>1, <2>2 DEF Orphan, Good
  <2>4. QED
    BY <2>3 DEF Adrift
<1>10. QED
  BY <1>3, <1>6, <1>7, <1>8, <1>9, BeforeDispose DEF CheckSubscription, OpenChannel, BasicConsume,
     AddConsumer, AssignSubscription, Catch, Early

LEMMA HeardStep == Spaced /\ TypeOK /\ Owned /\ Tended /\ Drained /\ Heard /\ [Next]_vars => Heard'
<1> SUFFICES ASSUME Spaced, TypeOK, Owned, Tended, Drained, Heard, [Next]_vars,
                    stops' = 0, disposal' = "none"
             PROVE  Adrift' \/ Returning'
  BY DEF Heard
<1> USE DEF TypeOK, Goto, shared, disposing, counters, others
<1>1. stops = 0 /\ disposal = "none"
  BY DEF Next, ActivityStep, CheckSubscription, CheckStopping, Catch, CheckStarted, OpenChannel,
         BasicConsume, AddConsumer, AssignSubscription, ReadSubscription, Enumerate, Dispose,
         RemoveConsumer, ClearSubscription, RemoveAgain, MoveOn, CloseConnection, Notify, Stop,
         BeginDispose, LoseChannel, CancelConsumer, Outage, Recover, vars
<1>2. Adrift \/ Returning
  BY <1>1 DEF Heard
<1>3. ASSUME NEW a \in Activities, ActivityStep(a) PROVE Adrift' \/ Returning'
  <2>1. Adrift => Adrift'
    BY <1>1, <1>3, OrphanStays DEF Adrift
  <2>2. Returning => Adrift' \/ Returning'
    BY <1>1, <1>3, ReturningWhileUp, ReturningWhileDown
  <2>3. QED
    BY <1>2, <2>1, <2>2
<1>4. ASSUME NEW a \in Activities, Notify(a) PROVE Adrift' \/ Returning'
  <2>1. /\ at[a] = "idle" /\ at' = [at EXCEPT ![a] = "checkingStarted"] /\ notices # 0
        /\ notices' = notices - 1 /\ task' = [task EXCEPT ![a] = "restart"]
        /\ UNCHANGED <<connection, channel, shared, mine>>
    BY <1>4 DEF Notify, Unused
  <2>2. /\ at'[a] = "checkingStarted" /\ task'[a] = "restart"
        /\ \A b \in Activities \ {a} : at'[b] = at[b] /\ task'[b] = task[b]
    BY <2>1
  <2>3. ASSUME NEW c \in Channels, Orphan(c) PROVE Orphan(c)'
    <3>1. \A b \in Activities : mine'[b] = c => at'[b] \notin NewPlaces \cup {"disposing"}
      BY <2>1, <2>2, <2>3 DEF Orphan, NewPlaces
    <3>2. QED
      BY <2>1, <2>3, <3>1 DEF Orphan, Good
  <2>4. Returning => Returning'
    <3>1. RestartsOnly => RestartsOnly'
      BY <2>2 DEF RestartsOnly
    <3>2. Started'
      BY <2>2 DEF Started
    <3>3. OneRestart => OneRestart'
      BY <2>1, <2>2 DEF OneRestart, Good, Early
    <3>4. QED
      BY <2>1, <3>1, <3>2, <3>3 DEF Returning
  <2>5. QED
    BY <1>2, <2>3, <2>4 DEF Adrift
<1>5. ASSUME NEW a \in Activities, Stop(a) \/ BeginDispose(a) PROVE FALSE
  BY <1>5 DEF Stop, BeginDispose
<1>6. ASSUME Trouble
      PROVE  /\ connection = "open" /\ notices = 0 /\ \A b \in Activities : at[b] = "idle"
             /\ \A c \in Channels : Good(c) <=> channel[c] = "consuming"
             /\ subscription # NoChannel => Good(subscription)
             /\ Adrift \/ subscription # NoChannel
  <2>1. notices = 0 /\ connection = "open" /\ \A b \in Activities : at[b] = "idle"
    BY <1>1, <1>6, TroubleIsSpaced DEF Drained
  <2>2. \A c \in Channels : Good(c) <=> channel[c] = "consuming"
    BY <2>1 DEF Good, Tended, DownTogether
  <2>3. ~Cared /\ ~Started
    BY <2>1 DEF Cared, Cares, Started
  <2>4. QED
    BY <1>2, <2>1, <2>2, <2>3 DEF Returning, Tended, CaredFor
<1>7. ASSUME NEW c \in Channels, LoseChannel(c) \/ CancelConsumer(c) PROVE Adrift' \/ Returning'
  <2>1. /\ Trouble /\ UNCHANGED <<connection, shared, at, mine, task>>
        /\ notices' = notices + Notice(c)
        /\ \/ channel' = [channel EXCEPT ![c] = "closed"]
           \/ channel' = [channel EXCEPT ![c] = "open"]
    BY <1>7 DEF LoseChannel, CancelConsumer, Notice
  <2>2. RestartsOnly'
    BY <1>6, <2>1 DEF RestartsOnly, Early
  <2>3. CASE channel[c] = "consuming"
    BY <1>6, <2>1, <2>2, <2>3 DEF Notice, Returning, Started
  <2>4. CASE channel[c] # "consuming"
    <3>1. CASE subscription # NoChannel
      BY <1>6, <2>1, <2>2, <3>1 DEF Returning
    <3>2. CASE subscription = NoChannel
      <4>1. PICK o \in Channels : Orphan(o)
        BY <1>6, <2>1, <3>2 DEF Adrift
      <4>2. o # c
        BY <1>6, <2>1, <2>4, <4>1 DEF Orphan
      <4>3. Orphan(o)'
        BY <2>1, <4>1, <4>2 DEF Orphan, Good
      <4>4. QED
        BY <4>3 DEF Adrift
    <3>3. QED
      BY <3>1, <3>2
  <2>5. QED
    BY <2>3, <2>4
<1>8. CASE Outage
  <2>1. /\ Trouble /\ connection' = "down" /\ UNCHANGED <<shared, at, mine, task>>
        /\ channel' = [c \in Channels |-> CASE channel[c] = "open" -> "down"
                                            [] channel[c] = "consuming" -> "downConsuming"
                                            [] OTHER -> channel[c]]
        /\ notices' = notices + Cardinality(Consuming)
    BY <1>8 DEF Outage
  <2>2. \A c \in Channels : Good(c) => channel'[c] \in {"consuming", "downConsuming"}
    BY <2>1 DEF Good
  <2>3. CASE Adrift
    <3>1. PICK o \in Channels : Orphan(o)
      BY <2>3 DEF Adrift
    <3>2. Orphan(o)'
      BY <2>1, <2>2, <3>1 DEF Orphan, Good
    <3>3. QED
      BY <3>2 DEF Adrift
  <2>4. CASE ~Adrift
    <3>1. subscription \in Channels /\ Good(subscription)
      BY <1>6, <2>1, <2>4
    <3>2. ASSUME NEW c \in Channels, channel[c] = "consuming" PROVE c = subscription
      <4>1. ASSUME c # subscription PROVE Orphan(c)
        BY <1>6, <2>1, <3>2, <4>1 DEF Orphan, NewPlaces
      <4>2. QED
        BY <2>4, <4>1 DEF Adrift
    <3>3. Consuming = {subscription}
      BY <1>6, <2>1, <3>1, <3>2 DEF Consuming
    <3>4. notices' = 1
      <4>1. Cardinality(Consuming) = 1
        BY <3>3, FS_Singleton
      <4>2. QED
        BY <1>6, <2>1, <4>1
    <3>5. OneRestart'
      <4>1. Good(subscription)' /\ subscription' # NoChannel
        BY <2>1, <2>2, <3>1, ListenerAssumption DEF ListenerAssumption, Good
      <4>2. QED
        BY <1>6, <2>1, <3>4, <4>1 DEF OneRestart
    <3>6. RestartsOnly' /\ Started'
      BY <1>6, <2>1, <3>4 DEF RestartsOnly, Started, Early
    <3>7. QED
      BY <3>5, <3>6 DEF Returning
  <2>5. QED
    BY <2>3, <2>4
<1>9. CASE Recover
  <2>1. /\ connection' = "open" /\ UNCHANGED <<shared, at, mine, task, notices>>
        /\ channel' = [c \in Channels |-> CASE channel[c] = "down" -> "open"
                                            [] channel[c] = "downConsuming" -> "consuming"
                                            [] OTHER -> channel[c]]
    BY <1>9 DEF Recover
  <2>2. \A c \in Channels : Good(c) => channel'[c] \in {"consuming", "downConsuming"}
    BY <2>1 DEF Good
  <2>3. ASSUME NEW c \in Channels, Orphan(c) PROVE Orphan(c)'
    BY <2>1, <2>2, <2>3 DEF Orphan, Good
  <2>4. Returning => Returning'
    BY <2>1 DEF Returning, RestartsOnly, Started
  <2>5. QED
    BY <1>2, <2>3, <2>4 DEF Adrift
<1>10. CASE UNCHANGED vars
  BY <1>2, <1>10 DEF vars, Adrift, Orphan, Good, Returning, RestartsOnly, Started, OneRestart
<1>11. QED
  BY <1>3, <1>4, <1>5, <1>7, <1>8, <1>9, <1>10 DEF Next

LEMMA HeardAtFirst == Init => Heard
<1> SUFFICES ASSUME Init PROVE Returning
  BY DEF Heard
<1>1. 1 \in Activities /\ at[1] = "checking"
  BY ListenerAssumption DEF ListenerAssumption, Activities, Init
<1>2. QED
  BY <1>1 DEF Init, Returning, RestartsOnly, Started, Early

\* However the restart and automatic recovery interleave, once all is calm somebody consumes:
\* a restart that cannot open its channel while the connection is down has left the old one
\* to be revived, and one that finds the entry taken has left its new one
\* (EventListener.cs:75-97, EventConsumer.cs:36-73).
THEOREM SomebodyConsumes == ASSUME Spaced PROVE SafetySpec => []NotDeaf
<1>1. Init => Drained
  BY DEF Init, Drained
<1>2. TypeOK /\ Owned /\ Tended /\ Drained /\ Heard /\ [Next]_vars => Drained' /\ Heard'
  BY DrainedStep, HeardStep DEF Tended
<1>3. TypeOK /\ Tended /\ Drained /\ Heard => NotDeaf
  <2> SUFFICES ASSUME TypeOK, Tended, Drained, Heard, Settled, stops = 0, disposal = "none"
               PROVE  \E c \in Channels : channel[c] = "consuming"
    BY DEF NotDeaf, Consuming
  <2>1. ~Cared /\ ~Started
    BY DEF Settled, Cared, Cares, Started
  <2>2. \E c \in Channels : Good(c)
    <3>1. CASE Adrift
      BY <3>1 DEF Adrift, Orphan
    <3>2. CASE ~Adrift
      BY <2>1, <3>2 DEF TypeOK, Tended, CaredFor, Drained, Heard, Returning
    <3>3. QED
      BY <3>1, <3>2
  <2>3. QED
    BY <2>2 DEF Good, Settled, Tended, DownTogether
<1>4. QED
  BY <1>1, <1>2, <1>3, HeardAtFirst, TendedAlways, OwnedAlways, TypeCorrect, PTL DEF SafetySpec
=============================================================================
