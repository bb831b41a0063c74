------------------------- MODULE QueueManagerProofs -------------------------
(* What holds of QueueManager for every finite set of items and whether or    *)
(* not the handler may throw.                                                 *)
EXTENDS QueueManager, FiniteSetTheorems, TLAPS

Typed == TypeOK /\ HandsFull /\ StartedOnce

\* The type of every variable is kept by each step of Enqueue and StartProcessor.
LEMMA TypedInvariant == SafetySpec => []Typed
<1>1. Init => Typed
  BY DEF Init, Typed, HandsFull, StartedOnce, TypeOK, CallerPlaces, WorkerPlaces, InHandler
<1>2. Typed /\ [Next]_vars => Typed'
  <2> SUFFICES ASSUME Typed, [Next]_vars PROVE Typed'
    OBVIOUS
  <2> USE DEF Typed, HandsFull, StartedOnce, TypeOK, CallerPlaces, WorkerPlaces, InHandler,
              callerVars, workerVars
  <2>1. CASE UNCHANGED vars
    BY <2>1 DEF vars
  <2>2. ASSUME NEW m \in Messages, ReadRunning(m) PROVE Typed'
    BY <2>2 DEF ReadRunning
  <2>3. ASSUME NEW m \in Messages, CountUp(m) PROVE Typed'
    BY <2>3 DEF CountUp
  <2>4. ASSUME NEW m \in Messages, AddToQueue(m) PROVE Typed'
    BY <2>4 DEF AddToQueue
  <2>5. ASSUME NEW m \in Messages, StartWorker(m) PROVE Typed'
    BY <2>5 DEF StartWorker, RaiseFlag
  <2>6. ASSUME NEW m \in Messages, LeaveToWorker(m) PROVE Typed'
    BY <2>6 DEF LeaveToWorker, RaiseFlag
  <2>7. ASSUME NEW w \in Messages, DequeueItem(w) PROVE Typed'
    BY <2>7 DEF DequeueItem
  <2>8. ASSUME NEW w \in Messages, FindEmpty(w) PROVE Typed'
    BY <2>8 DEF FindEmpty
  <2>9. ASSUME NEW w \in Messages, WorkerReadRunning(w) PROVE Typed'
    BY <2>9 DEF WorkerReadRunning
  <2>10. ASSUME NEW w \in Messages, WorkerExchange(w) PROVE Typed'
    BY <2>10 DEF WorkerExchange
  <2>11. ASSUME NEW w \in Messages, HandlerReturns(w) PROVE Typed'
    BY <2>11 DEF HandlerReturns
  <2>12. ASSUME NEW w \in Messages, HandlerThrows(w) PROVE Typed'
    BY <2>12 DEF HandlerThrows
  <2>13. ASSUME NEW w \in Messages, CountDown(w) PROVE Typed'
    BY <2>13 DEF CountDown
  <2>14. QED
    BY <2>1, <2>2, <2>3, <2>4, <2>5, <2>6, <2>7, <2>8, <2>9, <2>10, <2>11, <2>12, <2>13
    DEF Next, EnqueueStep, WorkerStep
<1>3. QED
  BY <1>1, <1>2, PTL DEF SafetySpec

\* Each variable keeps its type, the counter included (QueueManager.cs:22-27).
THEOREM TypeCorrect == SafetySpec => []TypeOK
BY TypedInvariant, PTL DEF Typed

\* While IsWorking says true there is a task that has not yet looked at the queue and
\* the flag for the last time, or one that died in its handler (QueueManager.cs:17).
THEOREM FlagHasWorker == SafetySpec => []WorkerBehindFlag
<1>1. Init => WorkerBehindFlag
  BY DEF Init, WorkerBehindFlag
<1>2. Typed /\ WorkerBehindFlag /\ [Next]_vars => WorkerBehindFlag'
  <2> SUFFICES ASSUME Typed, WorkerBehindFlag, [Next]_vars, running' = 1
               PROVE \E w \in Messages :
                        \/ w \in Live' /\ Committed(w)'
                        \/ worker'[w] = "faulted"
    BY DEF WorkerBehindFlag
  <2> USE DEF Typed, TypeOK, CallerPlaces, WorkerPlaces, InHandler, Live, Committed,
              callerVars, workerVars
  \* only a call that starts a worker raises the flag, and that worker stands behind it
  <2>1. ASSUME NEW m \in Messages, StartWorker(m)
        PROVE \E w \in Messages : w \in Live' /\ Committed(w)'
    <3>1. worker'[m] = "dequeuing"
      BY <2>1 DEF StartWorker
    <3>2. QED
      BY <3>1
  \* every other step finds the flag up, with somebody behind it
  <2>2. ASSUME running = 1
        PROVE \E p \in Messages : \/ p \in Live /\ Committed(p)
                                  \/ worker[p] = "faulted"
    BY <2>2 DEF WorkerBehindFlag
  <2>3. ASSUME NEW m \in Messages, ReadRunning(m) \/ CountUp(m) \/ AddToQueue(m) \/ LeaveToWorker(m)
        PROVE running = 1 /\ UNCHANGED <<worker, workerTmp>>
    BY <2>3 DEF ReadRunning, CountUp, AddToQueue, LeaveToWorker
  <2>4. ASSUME NEW w \in Messages,
               DequeueItem(w) \/ FindEmpty(w) \/ HandlerReturns(w) \/ HandlerThrows(w) \/ CountDown(w),
               running = 1,
               NEW p \in Messages, (p \in Live /\ Committed(p)) \/ worker[p] = "faulted"
        PROVE (p \in Live' /\ Committed(p)') \/ worker'[p] = "faulted"
    BY <2>4 DEF DequeueItem, FindEmpty, HandlerReturns, HandlerThrows, CountDown
  <2>5. ASSUME NEW w \in Messages, WorkerReadRunning(w), running = 1,
               NEW p \in Messages, (p \in Live /\ Committed(p)) \/ worker[p] = "faulted"
        PROVE (p \in Live' /\ Committed(p)') \/ worker'[p] = "faulted"
    BY <2>5 DEF WorkerReadRunning
  \* a worker that ends and leaves the flag up had read it down, so is not the one
  <2>6. ASSUME NEW w \in Messages, WorkerExchange(w), running = 1,
               NEW p \in Messages, (p \in Live /\ Committed(p)) \/ worker[p] = "faulted"
        PROVE (p \in Live' /\ Committed(p)') \/ worker'[p] = "faulted"
    <3>1. workerTmp[w] = 0 /\ worker[w] = "exchanging"
      BY <2>6 DEF WorkerExchange
    <3>2. p # w
      BY <2>6, <3>1
    <3>3. QED
      BY <2>6, <3>2 DEF WorkerExchange
  <2>7. ASSUME NEW w \in Messages, WorkerStep(w) PROVE running = 1
    BY <2>7 DEF WorkerStep, DequeueItem, FindEmpty, WorkerReadRunning, WorkerExchange,
                HandlerReturns, HandlerThrows, CountDown
  <2>8. CASE UNCHANGED vars
    BY <2>8 DEF vars, WorkerBehindFlag
  <2>9. ASSUME NEW w \in Messages, WorkerStep(w)
        PROVE \E p \in Messages : (p \in Live' /\ Committed(p)') \/ worker'[p] = "faulted"
    <3>1. PICK p \in Messages : (p \in Live /\ Committed(p)) \/ worker[p] = "faulted"
      BY <2>2, <2>7, <2>9
    <3>2. (p \in Live' /\ Committed(p)') \/ worker'[p] = "faulted"
      BY <3>1, <2>4, <2>5, <2>6, <2>7, <2>9 DEF WorkerStep
    <3>3. QED
      BY <3>2
  <2>10. ASSUME NEW m \in Messages, ReadRunning(m) \/ CountUp(m) \/ AddToQueue(m) \/ LeaveToWorker(m)
         PROVE \E p \in Messages : (p \in Live' /\ Committed(p)') \/ worker'[p] = "faulted"
    BY <2>2, <2>3, <2>10
  <2>11. QED
    BY <2>1, <2>8, <2>9, <2>10 DEF Next, EnqueueStep
<1>3. QED
  BY <1>1, <1>2, TypedInvariant, PTL DEF SafetySpec

\* DispatcherCount is exact although callers and workers move it without a lock and an
\* item changes hands in between (QueueManager.cs:41,74).
THEOREM CountIsExact == SafetySpec => []DispatcherCountExact
<1>1. Init => DispatcherCountExact
  <2> SUFFICES ASSUME Init PROVE DispatcherCountExact
    OBVIOUS
  <2>1. Counted = {} /\ Holders = {} /\ Len(queue) = 0 /\ dispatcherCount = 0
    BY DEF Init, Counted, Holders, InHandler
  <2>2. QED
    BY <2>1, FS_EmptySet DEF DispatcherCountExact
<1>2. Typed /\ DispatcherCountExact /\ [Next]_vars => DispatcherCountExact'
  <2> SUFFICES ASSUME Typed, DispatcherCountExact, [Next]_vars PROVE DispatcherCountExact'
    OBVIOUS
  <2> USE DEF Typed, TypeOK, callerVars, workerVars
  <2>1. /\ IsFiniteSet(Counted) /\ IsFiniteSet(Holders)
        /\ Cardinality(Counted) \in Nat /\ Cardinality(Holders) \in Nat
    BY MessagesAssumption, FS_Subset, FS_CardinalityType DEF Counted, Holders
  \* the steps that leave the three places as they are
  <2>2. ASSUME Counted' = Counted, Holders' = Holders,
               UNCHANGED <<queue, dispatcherCount>>
        PROVE DispatcherCountExact'
    BY <2>2 DEF DispatcherCountExact
  <2>3. CASE UNCHANGED vars
    BY <2>2, <2>3 DEF vars, Counted, Holders
  <2>4. ASSUME NEW m \in Messages, ReadRunning(m) \/ StartWorker(m) \/ LeaveToWorker(m)
        PROVE DispatcherCountExact'
    BY <2>2, <2>4 DEF ReadRunning, StartWorker, LeaveToWorker, Counted, Holders, InHandler, StartedOnce
  <2>5. ASSUME NEW w \in Messages,
               FindEmpty(w) \/ WorkerReadRunning(w) \/ WorkerExchange(w)
                 \/ HandlerReturns(w) \/ HandlerThrows(w)
        PROVE DispatcherCountExact'
    BY <2>2, <2>5 DEF FindEmpty, WorkerReadRunning, WorkerExchange, HandlerReturns,
                      HandlerThrows, Counted, Holders, InHandler
  <2>6. ASSUME NEW m \in Messages, CountUp(m) PROVE DispatcherCountExact'
    <3>1. m \notin Counted /\ Counted' = Counted \cup {m} /\ Holders' = Holders
      BY <2>6 DEF CountUp, Counted, Holders
    <3>2. Cardinality(Counted') = Cardinality(Counted) + 1
      BY <3>1, <2>1, FS_AddElement
    <3>3. QED
      BY <3>1, <3>2, <2>1, <2>6 DEF DispatcherCountExact, CountUp
  <2>7. ASSUME NEW m \in Messages, AddToQueue(m) PROVE DispatcherCountExact'
    <3>1. m \in Counted /\ Counted' = Counted \ {m} /\ Holders' = Holders
      BY <2>7 DEF AddToQueue, Counted, Holders
    <3>2. Cardinality(Counted') = Cardinality(Counted) - 1
      BY <3>1, <2>1, FS_RemoveElement
    <3>3. Len(queue') = Len(queue) + 1
      BY <2>7 DEF AddToQueue
    <3>4. QED
      BY <3>1, <3>2, <3>3, <2>1, <2>7 DEF DispatcherCountExact, AddToQueue
  <2>8. ASSUME NEW w \in Messages, DequeueItem(w) PROVE DispatcherCountExact'
    <3>1. w \notin Holders /\ Holders' = Holders \cup {w} /\ Counted' = Counted
      BY <2>8 DEF DequeueItem, Counted, Holders, InHandler
    <3>2. Cardinality(Holders') = Cardinality(Holders) + 1
      BY <3>1, <2>1, FS_AddElement
    <3>3. Len(queue') = Len(queue) - 1
      BY <2>8 DEF DequeueItem
    <3>4. QED
      BY <3>1, <3>2, <3>3, <2>1, <2>8 DEF DispatcherCountExact, DequeueItem
  <2>9. ASSUME NEW w \in Messages, CountDown(w) PROVE DispatcherCountExact'
    <3>1. w \in Holders /\ Holders' = Holders \ {w} /\ Counted' = Counted
      BY <2>9 DEF CountDown, Counted, Holders, InHandler
    <3>2. Cardinality(Holders') = Cardinality(Holders) - 1
      BY <3>1, <2>1, FS_RemoveElement
    <3>3. QED
      BY <3>1, <3>2, <2>1, <2>9 DEF DispatcherCountExact, CountDown
  <2>10. QED
    BY <2>3, <2>4, <2>5, <2>6, <2>7, <2>8, <2>9 DEF Next, EnqueueStep, WorkerStep
<1>3. QED
  BY <1>1, <1>2, TypedInvariant, PTL DEF SafetySpec

\* Workers beyond the one behind the flag are as few as the calls that acted on a stale
\* read of it (QueueManager.cs:39,45,62).
THEOREM WorkersAreFew == SafetySpec => []WorkersBounded
<1>1. Init => WorkersBounded
  <2> SUFFICES ASSUME Init PROVE WorkersBounded
    OBVIOUS
  <2>1. Unended = {} /\ StartedStale = {} /\ running = 0
    BY DEF Init, Unended, StartedStale
  <2>2. QED
    BY <2>1, FS_EmptySet DEF WorkersBounded
<1>2. Typed /\ WorkersBounded /\ [Next]_vars => WorkersBounded'
  <2> SUFFICES ASSUME Typed, WorkersBounded, [Next]_vars PROVE WorkersBounded'
    OBVIOUS
  <2> USE DEF Typed, TypeOK, callerVars, workerVars
  <2>1. /\ IsFiniteSet(Unended) /\ IsFiniteSet(StartedStale)
        /\ Cardinality(Unended) \in Nat /\ Cardinality(StartedStale) \in Nat
    BY MessagesAssumption, FS_Subset, FS_CardinalityType DEF Unended, StartedStale
  \* the steps that start and end no worker
  <2>2. ASSUME Unended' = Unended, StartedStale' = StartedStale, running' = running
        PROVE WorkersBounded'
    BY <2>2 DEF WorkersBounded
  <2>3. CASE UNCHANGED vars
    BY <2>2, <2>3 DEF vars, Unended, StartedStale
  <2>4. ASSUME NEW m \in Messages,
               ReadRunning(m) \/ CountUp(m) \/ AddToQueue(m) \/ LeaveToWorker(m)
        PROVE WorkersBounded'
    BY <2>2, <2>4 DEF ReadRunning, CountUp, AddToQueue, LeaveToWorker, RaiseFlag,
                      Unended, StartedStale, StartedOnce
  <2>5. ASSUME NEW w \in Messages,
               DequeueItem(w) \/ FindEmpty(w) \/ WorkerReadRunning(w)
                 \/ HandlerReturns(w) \/ HandlerThrows(w) \/ CountDown(w)
        PROVE WorkersBounded'
    BY <2>2, <2>5 DEF DequeueItem, FindEmpty, WorkerReadRunning, HandlerReturns,
                      HandlerThrows, CountDown, InHandler, Unended, StartedStale
  \* a worker is started: either the flag goes up with it or its call read it stale
  <2>6. ASSUME NEW m \in Messages, StartWorker(m) PROVE WorkersBounded'
    <3>1. worker[m] = "none" /\ running = 0 /\ worker' = [worker EXCEPT ![m] = "dequeuing"]
          /\ callerTmp' = callerTmp
      BY <2>6 DEF StartWorker, StartedOnce
    <3>2. m \notin Unended /\ Unended' = Unended \cup {m}
      BY <3>1 DEF Unended
    <3>3. Cardinality(Unended') = Cardinality(Unended) + 1
      BY <3>2, <2>1, FS_AddElement
    <3>4. CASE callerTmp[m] = 0
      <4>1. running' = 1 /\ StartedStale' = StartedStale
        BY <3>1, <3>4, <2>6 DEF StartWorker, RaiseFlag, StartedStale
      <4>2. QED
        BY <4>1, <3>1, <3>3, <2>1 DEF WorkersBounded
    <3>5. CASE callerTmp[m] = 1
      <4>1. running' = 0 /\ m \notin StartedStale /\ StartedStale' = StartedStale \cup {m}
        BY <3>1, <3>5, <2>6 DEF StartWorker, RaiseFlag, StartedStale
      <4>2. Cardinality(StartedStale') = Cardinality(StartedStale) + 1
        BY <4>1, <2>1, FS_AddElement
      <4>3. QED
        BY <4>1, <4>2, <3>1, <3>3, <2>1 DEF WorkersBounded
    <3>6. QED
      BY <3>4, <3>5
  \* the flag goes down only with a worker that ends
  <2>7. ASSUME NEW w \in Messages, WorkerExchange(w) PROVE WorkersBounded'
    <3>1. StartedStale' = StartedStale
      BY <2>7 DEF WorkerExchange, StartedStale
    <3>2. CASE running = 0
      <4>1. running' = 0 /\ Unended' = Unended
        BY <3>2, <2>7 DEF WorkerExchange, Unended
      <4>2. QED
        BY <2>2, <3>1, <3>2, <4>1
    <3>3. CASE running = 1
      <4>1. w \in Unended /\ Unended' = Unended \ {w} /\ running' \in {0, 1}
        BY <3>3, <2>7 DEF WorkerExchange, Unended
      <4>2. Cardinality(Unended') = Cardinality(Unended) - 1
        BY <4>1, <2>1, FS_RemoveElement
      <4>3. QED
        BY <4>1, <4>2, <3>1, <3>3, <2>1 DEF WorkersBounded
    <3>4. QED
      BY <3>2, <3>3
  <2>8. QED
    BY <2>3, <2>4, <2>5, <2>6, <2>7 DEF Next, EnqueueStep, WorkerStep
<1>3. QED
  BY <1>1, <1>2, TypedInvariant, PTL DEF SafetySpec

\* A pump that lost its only task to an exception stays dead: no step of any caller
\* revives it (QueueManager.cs:45,70-75).
THEOREM NoRevival == SafetySpec => DeathIsFinal
<1>1. Typed /\ [Next]_vars => [PumpDead => PumpDead' /\ handled' = handled]_vars
  <2> SUFFICES ASSUME Typed, [Next]_vars, PumpDead PROVE PumpDead' /\ handled' = handled
    OBVIOUS
  <2> USE DEF Typed, TypeOK, WorkerPlaces, InHandler, callerVars, workerVars
  <2>1. running = 1 /\ \A w \in Messages : worker[w] \in {"none", "returned", "faulted"}
    BY DEF PumpDead, Live
  <2>2. ASSUME NEW m \in Messages, ReadRunning(m) \/ EnqueueStep(m)
        PROVE UNCHANGED <<running, worker, handled>>
    BY <2>1, <2>2 DEF ReadRunning, EnqueueStep, CountUp, AddToQueue, StartWorker,
                      LeaveToWorker, RaiseFlag
  <2>3. ASSUME NEW w \in Messages, WorkerStep(w) PROVE FALSE
    BY <2>1, <2>3 DEF WorkerStep, DequeueItem, FindEmpty, WorkerReadRunning, WorkerExchange,
                      HandlerReturns, HandlerThrows, CountDown
  <2>4. UNCHANGED <<running, worker, handled>>
    BY <2>2, <2>3 DEF Next, vars
  <2>5. QED
    BY <2>4 DEF PumpDead, Live
<1>2. QED
  BY <1>1, TypedInvariant, PTL DEF SafetySpec, DeathIsFinal
-----------------------------------------------------------------------------
(* The queue as a set of items. *)

\* _queue.Enqueue adds the item to those queued (QueueManager.cs:43).
LEMMA AppendAdds ==
  ASSUME NEW S, NEW q \in Seq(S), NEW x \in S
  PROVE  {Append(q, x)[i] : i \in 1 .. Len(Append(q, x))} = {q[i] : i \in 1 .. Len(q)} \cup {x}
<1>1. Len(Append(q, x)) = Len(q) + 1
  OBVIOUS
<1>2. \A i \in 1 .. Len(q) : Append(q, x)[i] = q[i]
  OBVIOUS
<1>3. Append(q, x)[Len(q) + 1] = x
  OBVIOUS
<1>4. 1 .. (Len(q) + 1) = (1 .. Len(q)) \cup {Len(q) + 1}
  OBVIOUS
<1>5. QED
  BY <1>1, <1>2, <1>3, <1>4

\* TryDequeue removes the head from those queued, if each is queued once
\* (QueueManager.cs:57).
LEMMA TailRemoves ==
  ASSUME NEW S, NEW q \in Seq(S), q # <<>>,
         \A i, j \in 1 .. Len(q) : q[i] = q[j] => i = j
  PROVE  /\ Head(q) \in {q[i] : i \in 1 .. Len(q)}
         /\ {Tail(q)[i] : i \in 1 .. Len(Tail(q))} = {q[i] : i \in 1 .. Len(q)} \ {Head(q)}
         /\ \A i, j \in 1 .. Len(Tail(q)) : Tail(q)[i] = Tail(q)[j] => i = j
<1>1. Len(q) \in Nat \ {0} /\ Head(q) = q[1] /\ Len(Tail(q)) = Len(q) - 1
  OBVIOUS
<1>2. \A i \in 1 .. Len(Tail(q)) : Tail(q)[i] = q[i + 1] /\ i + 1 \in 1 .. Len(q)
  BY <1>1
<1>3. \A i \in 1 .. Len(q) : i # 1 => i - 1 \in 1 .. Len(Tail(q)) /\ Tail(q)[i - 1] = q[i]
  BY <1>1, <1>2
<1>4. \A i, j \in 1 .. Len(Tail(q)) : Tail(q)[i] = Tail(q)[j] => i = j
  BY <1>1, <1>2
<1>5. \A x : x \in {Tail(q)[i] : i \in 1 .. Len(Tail(q))}
               <=> x \in {q[i] : i \in 1 .. Len(q)} /\ x # Head(q)
  <2>1. ASSUME NEW x, x \in {Tail(q)[i] : i \in 1 .. Len(Tail(q))}
        PROVE  x \in {q[j] : j \in 1 .. Len(q)} /\ x # Head(q)
    <3>1. PICK i \in 1 .. Len(Tail(q)) : x = Tail(q)[i]
      BY <2>1
    <3>2. x = q[i + 1] /\ i + 1 \in 1 .. Len(q) /\ i + 1 # 1
      BY <3>1, <1>1, <1>2
    <3>3. QED
      BY <3>2, <1>1
  <2>2. ASSUME NEW x, x \in {q[i] : i \in 1 .. Len(q)}, x # Head(q)
        PROVE  x \in {Tail(q)[j] : j \in 1 .. Len(Tail(q))}
    <3>1. PICK i \in 1 .. Len(q) : x = q[i]
      BY <2>2
    <3>2. i # 1
      BY <3>1, <2>2, <1>1
    <3>3. QED
      BY <3>1, <3>2, <1>3
  <2>3. QED
    BY <2>1, <2>2
<1>6. QED
  BY <1>1, <1>4, <1>5
-----------------------------------------------------------------------------
IInv == Typed /\ ItemsInOnePlace

\* An item is in one place at a time from the call that queues it to the handler that
\* gets it (QueueManager.cs:43,57,70): this is what the refinement below rests on.
THEOREM OnePlace == SafetySpec => []ItemsInOnePlace
<1>1. Init => ItemsInOnePlace
  BY DEF Init, ItemsInOnePlace, StartedOnce, Fresh, QueuedOnce, HeldOnce, HandsFull, Queued, InHand
<1>2. Typed /\ Typed' /\ ItemsInOnePlace /\ [Next]_vars => ItemsInOnePlace'
  <2> SUFFICES ASSUME Typed, Typed', ItemsInOnePlace, [Next]_vars PROVE ItemsInOnePlace'
    OBVIOUS
  <2> USE DEF ItemsInOnePlace, Typed, TypeOK, CallerPlaces, callerVars, workerVars
  \* the steps that move no item
  <2>1. ASSUME UNCHANGED <<queue, handled, thrown>>, InHand' = InHand, HeldOnce',
               \A m \in Messages : caller'[m] \in {"idle", "counting", "queueing"}
                                     => caller[m] \in {"idle", "counting", "queueing"}
        PROVE ItemsInOnePlace'
    <3>1. Queued' = Queued /\ QueuedOnce'
      BY <2>1 DEF Queued, QueuedOnce
    <3>2. Fresh'
      BY <2>1, <3>1 DEF Fresh
    <3>3. QED
      BY <2>1, <3>1, <3>2
  <2>2. CASE UNCHANGED vars
    BY <2>1, <2>2 DEF vars, InHand, HeldOnce
  <2>3. ASSUME NEW m \in Messages, ReadRunning(m) \/ CountUp(m) \/ LeaveToWorker(m)
        PROVE ItemsInOnePlace'
    BY <2>1, <2>3 DEF ReadRunning, CountUp, LeaveToWorker, InHand, HeldOnce
  <2>4. ASSUME NEW m \in Messages, StartWorker(m) PROVE ItemsInOnePlace'
    <3>1. worker[m] = "none"
      BY <2>4 DEF StartWorker, StartedOnce
    <3>2. \A w \in Messages : worker'[w] = "invoking" <=> worker[w] = "invoking"
      BY <2>4, <3>1 DEF StartWorker
    <3>3. QED
      BY <2>1, <2>4, <3>2 DEF StartWorker, InHand, HeldOnce
  <2>5. ASSUME NEW w \in Messages, FindEmpty(w) \/ WorkerReadRunning(w) \/ WorkerExchange(w) \/ CountDown(w)
        PROVE ItemsInOnePlace'
    <3>1. \A v \in Messages : /\ worker'[v] = "invoking" <=> worker[v] = "invoking"
                              /\ worker[v] = "invoking" => item'[v] = item[v]
      BY <2>5 DEF FindEmpty, WorkerReadRunning, WorkerExchange, CountDown
    <3>2. InHand' = InHand /\ HeldOnce'
      BY <3>1 DEF InHand, HeldOnce
    <3>3. QED
      BY <2>1, <2>5, <3>2 DEF FindEmpty, WorkerReadRunning, WorkerExchange, CountDown
  <2>6. ASSUME NEW m \in Messages, AddToQueue(m) PROVE ItemsInOnePlace'
    <3>1. /\ caller[m] = "queueing" /\ queue' = Append(queue, m)
          /\ caller' = [caller EXCEPT ![m] = "exchanging"]
          /\ UNCHANGED <<worker, item, handled, thrown>>
      BY <2>6 DEF AddToQueue
    <3>2. Queued' = Queued \cup {m} /\ InHand' = InHand
      BY <3>1, AppendAdds DEF Queued, InHand
    <3>3. m \notin Queued \cup InHand \cup handled \cup thrown
      BY <3>1 DEF Fresh
    <3>4. QueuedOnce'
      <4>1. /\ Len(queue') = Len(queue) + 1 /\ queue'[Len(queue) + 1] = m
            /\ \A i \in 1 .. Len(queue) : queue'[i] = queue[i] /\ queue[i] # m
        BY <3>1, <3>3 DEF Queued
      <4>2. \A i \in 1 .. Len(queue') : i = Len(queue) + 1 \/ i \in 1 .. Len(queue)
        BY <4>1
      <4>3. QED
        BY <4>1, <4>2 DEF QueuedOnce
    <3>5. Fresh' /\ HeldOnce'
      BY <3>1, <3>2 DEF Fresh, HeldOnce
    <3>6. QED
      BY <3>1, <3>2, <3>3, <3>4, <3>5
  <2>7. ASSUME NEW w \in Messages, DequeueItem(w) PROVE ItemsInOnePlace'
    <3>1. /\ worker[w] = "dequeuing" /\ queue # <<>> /\ queue' = Tail(queue)
          /\ item' = [item EXCEPT ![w] = Head(queue)]
          /\ worker' = [worker EXCEPT ![w] = "invoking"]
          /\ UNCHANGED <<caller, handled, thrown>>
      BY <2>7 DEF DequeueItem
    <3>2. /\ Head(queue) \in Queued /\ Queued' = Queued \ {Head(queue)} /\ QueuedOnce'
      <4>1. queue \in Seq(Messages) /\ \A i, j \in 1 .. Len(queue) : queue[i] = queue[j] => i = j
        BY DEF QueuedOnce
      <4>2. /\ Head(queue) \in {queue[i] : i \in 1 .. Len(queue)}
            /\ {Tail(queue)[i] : i \in 1 .. Len(Tail(queue))}
                 = {queue[i] : i \in 1 .. Len(queue)} \ {Head(queue)}
            /\ \A i, j \in 1 .. Len(Tail(queue)) : Tail(queue)[i] = Tail(queue)[j] => i = j
        BY ONLY <3>1, <4>1, TailRemoves
      <4>3. queue' = Tail(queue)
        BY <3>1
      <4>4. Queued' = {Tail(queue)[i] : i \in 1 .. Len(Tail(queue))}
        BY ONLY <4>3 DEF Queued
      <4>5. QueuedOnce'
        BY ONLY <4>2, <4>3 DEF QueuedOnce
      <4>6. QED
        BY ONLY <4>2, <4>4, <4>5 DEF Queued
    <3>3. InHand' = InHand \cup {Head(queue)}
      BY <3>1 DEF InHand
    <3>4. HeldOnce'
      <4>1. \A v \in Messages \ {w} : worker'[v] = "invoking" =>
               worker[v] = "invoking" /\ item'[v] = item[v] /\ item[v] \in InHand
        BY <3>1 DEF InHand
      <4>2. item'[w] = Head(queue) /\ Head(queue) \notin InHand
        BY <3>1, <3>2
      <4>3. QED
        BY <4>1, <4>2 DEF HeldOnce
    <3>5. Fresh'
      BY <3>1, <3>2, <3>3 DEF Fresh
    <3>6. QED
      BY <3>1, <3>2, <3>3, <3>4, <3>5
  <2>8. ASSUME NEW w \in Messages, HandlerReturns(w) \/ HandlerThrows(w)
        PROVE ItemsInOnePlace'
    <3>1. /\ worker[w] = "invoking" /\ UNCHANGED <<caller, queue, item>>
          /\ handled' \cup thrown' = handled \cup thrown \cup {item[w]}
          /\ \A v \in Messages : worker'[v] = "invoking" <=> v # w /\ worker[v] = "invoking"
      BY <2>8 DEF HandlerReturns, HandlerThrows
    <3>2. Queued' = Queued /\ QueuedOnce'
      BY <3>1 DEF Queued, QueuedOnce
    <3>3. item[w] \in InHand /\ InHand' = InHand \ {item[w]} /\ HeldOnce'
      BY <3>1 DEF InHand, HeldOnce
    <3>4. Fresh'
      BY <3>1, <3>2, <3>3 DEF Fresh
    <3>5. QED
      BY <3>1, <3>2, <3>3, <3>4
  <2>9. QED
    BY <2>2, <2>3, <2>4, <2>5, <2>6, <2>7, <2>8 DEF Next, EnqueueStep, WorkerStep
<1>3. QED
  BY <1>1, <1>2, TypedInvariant, PTL DEF SafetySpec
-----------------------------------------------------------------------------
\* QueueManager implements the abstract dispatcher: adding to _queue accepts,
\* TryDequeue takes, and the handler call hands over or refuses; every other step is
\* invisible to the caller (QueueManager.cs:37-79).
THEOREM Implements == SafetySpec => PromiseKept
<1>1. Init => Promise!Init
  BY DEF Init, Promise!Init, InHand
<1>2. IInv /\ IInv' /\ [Next]_vars => [Promise!Next]_(Promise!vars)
  <2> SUFFICES ASSUME IInv, IInv', [Next]_vars
               PROVE Promise!Next \/ UNCHANGED <<queue, InHand, handled, thrown>>
    BY DEF Promise!vars
  <2> USE DEF IInv, ItemsInOnePlace, Typed, TypeOK, callerVars, workerVars
  <2>1. CASE UNCHANGED vars
    BY <2>1 DEF vars, InHand
  <2>2. ASSUME NEW m \in Messages, ReadRunning(m) \/ CountUp(m) \/ LeaveToWorker(m)
        PROVE UNCHANGED <<queue, InHand, handled, thrown>>
    BY <2>2 DEF ReadRunning, CountUp, LeaveToWorker, InHand
  <2>3. ASSUME NEW m \in Messages, StartWorker(m)
        PROVE UNCHANGED <<queue, InHand, handled, thrown>>
    <3>1. \A w \in Messages : worker'[w] = "invoking" <=> worker[w] = "invoking"
      BY <2>3 DEF StartWorker, StartedOnce
    <3>2. QED
      BY <2>3, <3>1 DEF StartWorker, InHand
  <2>4. ASSUME NEW m \in Messages, AddToQueue(m) PROVE Promise!Accept(m)
    <3>1. InHand' = InHand
      BY <2>4 DEF AddToQueue, InHand
    <3>2. m \notin Queued \cup InHand \cup handled \cup thrown
      BY <2>4 DEF AddToQueue, Fresh
    <3>3. QED
      BY <2>4, <3>1, <3>2 DEF AddToQueue, Queued, Promise!Accept, Promise!Waiting
  <2>5. ASSUME NEW w \in Messages, FindEmpty(w) \/ WorkerReadRunning(w) \/ WorkerExchange(w) \/ CountDown(w)
        PROVE UNCHANGED <<queue, InHand, handled, thrown>>
    <3>1. \A v \in Messages : /\ worker'[v] = "invoking" <=> worker[v] = "invoking"
                              /\ worker[v] = "invoking" => item'[v] = item[v]
      BY <2>5 DEF FindEmpty, WorkerReadRunning, WorkerExchange, CountDown
    <3>2. InHand' = InHand
      BY <3>1 DEF InHand
    <3>3. QED
      BY <2>5, <3>2 DEF FindEmpty, WorkerReadRunning, WorkerExchange, CountDown
  <2>6. ASSUME NEW w \in Messages, DequeueItem(w) PROVE Promise!Take
    <3>1. InHand' = InHand \cup {Head(queue)}
      BY <2>6 DEF DequeueItem, InHand
    <3>2. QED
      BY <2>6, <3>1 DEF DequeueItem, Promise!Take
  \* the handler's step frees the worker's hand of that item and of no other
  <2>7. ASSUME NEW w \in Messages, HandlerReturns(w) \/ HandlerThrows(w)
        PROVE item[w] \in Messages /\ item[w] \in InHand /\ InHand' = InHand \ {item[w]}
    <3>1. /\ worker[w] = "invoking" /\ item' = item
          /\ \A v \in Messages : worker'[v] = "invoking" <=> v # w /\ worker[v] = "invoking"
      BY <2>7 DEF HandlerReturns, HandlerThrows, WorkerPlaces, InHandler
    <3>2. QED
      BY <3>1 DEF InHand, HeldOnce, HandsFull
  <2>8. ASSUME NEW w \in Messages, HandlerReturns(w) PROVE Promise!HandOver(item[w])
    BY <2>7, <2>8 DEF HandlerReturns, Promise!HandOver
  <2>9. ASSUME NEW w \in Messages, HandlerThrows(w) PROVE Promise!Refuse(item[w])
    BY <2>7, <2>9 DEF HandlerThrows, Promise!Refuse
  <2>10. QED
    BY <2>1, <2>2, <2>3, <2>4, <2>5, <2>6, <2>7, <2>8, <2>9
    DEF Next, EnqueueStep, WorkerStep, Promise!Next
<1>3. QED
  BY <1>1, <1>2, TypedInvariant, OnePlace, PTL DEF SafetySpec, IInv, PromiseKept, Promise!Spec
=============================================================================
