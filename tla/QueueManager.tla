---------------------------- MODULE QueueManager ----------------------------
(* QueueManager<T>: the lock-free dispatcher through which EventPublisher     *)
(* sends.  Any thread may call Enqueue; the call that believes no worker runs *)
(* starts one with Task.Run(StartProcessor).  _running and _dispatcherCount   *)
(* are volatile and changed only by Interlocked operations, so every read,    *)
(* every CompareExchange and every ConcurrentQueue operation is one step.     *)
(*                                                                            *)
(* A call of Enqueue is named by the item it adds, and so is the worker task  *)
(* that call starts, if it starts one.                                        *)
EXTENDS Integers, Sequences, FiniteSets

CONSTANTS Messages,         \* the items offered to Enqueue, each once
          NoMessage,        \* a worker's hands are empty
          HandlerMayThrow   \* may _handler.Invoke throw before returning a task?

ASSUME MessagesAssumption == IsFiniteSet(Messages) /\ NoMessage \notin Messages
ASSUME HandlerAssumption == HandlerMayThrow \in BOOLEAN

VARIABLES
    queue,            \* _queue
    running,          \* _running
    dispatcherCount,  \* _dispatcherCount
    caller,           \* where the call Enqueue(m) is
    callerTmp,        \* runningTmp of that call
    worker,           \* where the task started by Enqueue(m) is
    workerTmp,        \* runningTmp of that task
    item,             \* queuedObj.Item of that task
    handled,          \* history: items whose handler call returned
    thrown            \* history: items whose handler call threw

vars == <<queue, running, dispatcherCount, caller, callerTmp,
          worker, workerTmp, item, handled, thrown>>

callerVars == <<caller, callerTmp>>
workerVars == <<worker, workerTmp, item, handled, thrown>>

CallerPlaces == {"idle", "counting", "queueing", "exchanging", "returned"}
InHandler    == {"invoking", "uncounting", "unwinding"}
WorkerPlaces == {"none", "dequeuing", "readingFlag", "exchanging",
                 "returned", "faulted"} \cup InHandler

Live == {w \in Messages : worker[w] \notin {"none", "returned", "faulted"}}

Init ==
    /\ queue = <<>>
    /\ running = 0
    /\ dispatcherCount = 0
    /\ caller = [m \in Messages |-> "idle"]
    /\ callerTmp = [m \in Messages |-> 0]
    /\ worker = [w \in Messages |-> "none"]
    /\ workerTmp = [w \in Messages |-> 0]
    /\ item = [w \in Messages |-> NoMessage]
    /\ handled = {}
    /\ thrown = {}
-----------------------------------------------------------------------------
(* Enqueue *)

\* var runningTmp = _running
ReadRunning(m) ==
    /\ caller[m] = "idle"
    /\ caller' = [caller EXCEPT ![m] = "counting"]
    /\ callerTmp' = [callerTmp EXCEPT ![m] = running]
    /\ UNCHANGED <<queue, running, dispatcherCount>>
    /\ UNCHANGED workerVars

\* Interlocked.Increment(ref _dispatcherCount)
CountUp(m) ==
    /\ caller[m] = "counting"
    /\ caller' = [caller EXCEPT ![m] = "queueing"]
    /\ dispatcherCount' = dispatcherCount + 1
    /\ UNCHANGED <<queue, running, callerTmp>>
    /\ UNCHANGED workerVars

\* mutant: a stack for the queue
PushOnStack(m) ==
    /\ caller[m] = "queueing"
    /\ caller' = [caller EXCEPT ![m] = "exchanging"]
    /\ queue' = <<m>> \o queue
    /\ UNCHANGED <<running, dispatcherCount, callerTmp>>
    /\ UNCHANGED workerVars

\* _queue.Enqueue(new QueuedObject(item))
AddToQueue(m) ==
    /\ caller[m] = "queueing"
    /\ caller' = [caller EXCEPT ![m] = "exchanging"]
    /\ queue' = Append(queue, m)
    /\ UNCHANGED <<running, dispatcherCount, callerTmp>>
    /\ UNCHANGED workerVars

\* CompareExchange(ref _running, 1, runningTmp): the flag is raised only if it
\* still is what the call read, but what decides is the value it had.
RaiseFlag(m) == running' = IF running = callerTmp[m] THEN 1 ELSE running

\* mutant: the result of the exchange is not looked at
StartWorkerAnyway(m) ==
    /\ caller[m] = "exchanging"
    /\ RaiseFlag(m)
    /\ caller' = [caller EXCEPT ![m] = "returned"]
    /\ worker' = [worker EXCEPT ![m] = "dequeuing"]
    /\ UNCHANGED <<queue, dispatcherCount, callerTmp, workerTmp, item, handled, thrown>>

\* mutant: a worker is started only if the call's own read found the flag down
StartWorkerIfReadDown(m) ==
    /\ caller[m] = "exchanging"
    /\ running = 0
    /\ RaiseFlag(m)
    /\ caller' = [caller EXCEPT ![m] = "returned"]
    /\ worker' = [worker EXCEPT ![m] = IF callerTmp[m] = 0 THEN "dequeuing" ELSE @]
    /\ UNCHANGED <<queue, dispatcherCount, callerTmp, workerTmp, item, handled, thrown>>

StartWorker(m) ==
    /\ caller[m] = "exchanging"
    /\ running = 0
    /\ RaiseFlag(m)
    /\ caller' = [caller EXCEPT ![m] = "returned"]
    /\ worker' = [worker EXCEPT ![m] = "dequeuing"]
    /\ UNCHANGED <<queue, dispatcherCount, callerTmp, workerTmp, item, handled, thrown>>

LeaveToWorker(m) ==
    /\ caller[m] = "exchanging"
    /\ running = 1
    /\ RaiseFlag(m)
    /\ caller' = [caller EXCEPT ![m] = "returned"]
    /\ UNCHANGED <<queue, dispatcherCount, callerTmp>>
    /\ UNCHANGED workerVars

EnqueueStep(m) == CountUp(m) \/ AddToQueue(m) \/ StartWorker(m) \/ LeaveToWorker(m)
-----------------------------------------------------------------------------
(* StartProcessor *)

\* mutant: TryPeek for TryDequeue
PeekItem(w) ==
    /\ worker[w] = "dequeuing"
    /\ queue # <<>>
    /\ item' = [item EXCEPT ![w] = Head(queue)]
    /\ worker' = [worker EXCEPT ![w] = "invoking"]
    /\ UNCHANGED <<queue, running, dispatcherCount, workerTmp, handled, thrown>>
    /\ UNCHANGED callerVars

\* _queue.TryDequeue(out var queuedObj) returns true ...
DequeueItem(w) ==
    /\ worker[w] = "dequeuing"
    /\ queue # <<>>
    /\ item' = [item EXCEPT ![w] = Head(queue)]
    /\ queue' = Tail(queue)
    /\ worker' = [worker EXCEPT ![w] = "invoking"]
    /\ UNCHANGED <<running, dispatcherCount, workerTmp, handled, thrown>>
    /\ UNCHANGED callerVars

\* ... or false
FindEmpty(w) ==
    /\ worker[w] = "dequeuing"
    /\ queue = <<>>
    /\ worker' = [worker EXCEPT ![w] = "readingFlag"]
    /\ UNCHANGED <<queue, running, dispatcherCount, workerTmp, item, handled, thrown>>
    /\ UNCHANGED callerVars

\* var runningTmp = _running
WorkerReadRunning(w) ==
    /\ worker[w] = "readingFlag"
    /\ workerTmp' = [workerTmp EXCEPT ![w] = running]
    /\ worker' = [worker EXCEPT ![w] = "exchanging"]
    /\ UNCHANGED <<queue, running, dispatcherCount, item, handled, thrown>>
    /\ UNCHANGED callerVars

\* mutant: Interlocked.Decrement for the exchange
WorkerDecrement(w) ==
    /\ worker[w] = "exchanging"
    /\ running' = running - 1
    /\ worker' = [worker EXCEPT ![w] = IF running = 1 THEN "returned" ELSE "dequeuing"]
    /\ UNCHANGED <<queue, dispatcherCount, workerTmp, item, handled, thrown>>
    /\ UNCHANGED callerVars

\* mutant: value and comparand swapped, CompareExchange(ref _running, runningTmp, 0)
WorkerExchangeSwapped(w) ==
    /\ worker[w] = "exchanging"
    /\ running' = IF running = 0 THEN workerTmp[w] ELSE running
    /\ worker' = [worker EXCEPT ![w] = IF running = 1 THEN "returned" ELSE "dequeuing"]
    /\ UNCHANGED <<queue, dispatcherCount, workerTmp, item, handled, thrown>>
    /\ UNCHANGED callerVars

\* CompareExchange(ref _running, 0, runningTmp): the task ends if the flag was 1,
\* lowered or not, and goes round again if it was 0.
WorkerExchange(w) ==
    /\ worker[w] = "exchanging"
    /\ running' = IF running = workerTmp[w] THEN 0 ELSE running
    /\ worker' = [worker EXCEPT ![w] = IF running = 1 THEN "returned" ELSE "dequeuing"]
    /\ UNCHANGED <<queue, dispatcherCount, workerTmp, item, handled, thrown>>
    /\ UNCHANGED callerVars

\* _handler.Invoke(queuedObj.Item): its task is not awaited
HandlerReturns(w) ==
    /\ worker[w] = "invoking"
    /\ handled' = handled \cup {item[w]}
    /\ worker' = [worker EXCEPT ![w] = "uncounting"]
    /\ UNCHANGED <<queue, running, dispatcherCount, workerTmp, item, thrown>>
    /\ UNCHANGED callerVars

HandlerThrows(w) ==
    /\ HandlerMayThrow
    /\ worker[w] = "invoking"
    /\ thrown' = thrown \cup {item[w]}
    /\ worker' = [worker EXCEPT ![w] = "unwinding"]
    /\ UNCHANGED <<queue, running, dispatcherCount, workerTmp, item, handled>>
    /\ UNCHANGED callerVars

\* mutant: no finally around the decrement
CountDownOnReturn(w) ==
    /\ worker[w] \in {"uncounting", "unwinding"}
    /\ dispatcherCount' = IF worker[w] = "uncounting" THEN dispatcherCount - 1 ELSE dispatcherCount
    /\ item' = [item EXCEPT ![w] = NoMessage]
    /\ worker' = [worker EXCEPT ![w] =
                    IF worker[w] = "uncounting" THEN "dequeuing" ELSE "faulted"]
    /\ UNCHANGED <<queue, running, workerTmp, handled, thrown>>
    /\ UNCHANGED callerVars

\* mutant: one item per worker, the loop is left after it
CountDownAndLeave(w) ==
    /\ worker[w] \in {"uncounting", "unwinding"}
    /\ dispatcherCount' = dispatcherCount - 1
    /\ item' = [item EXCEPT ![w] = NoMessage]
    /\ worker' = [worker EXCEPT ![w] =
                    IF worker[w] = "uncounting" THEN "readingFlag" ELSE "faulted"]
    /\ UNCHANGED <<queue, running, workerTmp, handled, thrown>>
    /\ UNCHANGED callerVars

\* finally: Interlocked.Decrement(ref _dispatcherCount); an exception goes on to
\* fault the task, which nobody observes and which leaves _running as it is.
CountDown(w) ==
    /\ worker[w] \in {"uncounting", "unwinding"}
    /\ dispatcherCount' = dispatcherCount - 1
    /\ item' = [item EXCEPT ![w] = NoMessage]
    /\ worker' = [worker EXCEPT ![w] =
                    IF worker[w] = "uncounting" THEN "dequeuing" ELSE "faulted"]
    /\ UNCHANGED <<queue, running, workerTmp, handled, thrown>>
    /\ UNCHANGED callerVars

WorkerStep(w) ==
    \/ DequeueItem(w) \/ FindEmpty(w)
    \/ WorkerReadRunning(w) \/ WorkerExchange(w)
    \/ HandlerReturns(w) \/ HandlerThrows(w) \/ CountDown(w)
-----------------------------------------------------------------------------
Next == \E m \in Messages : ReadRunning(m) \/ EnqueueStep(m) \/ WorkerStep(m)

SafetySpec == Init /\ [][Next]_vars

\* A call once begun runs to its end on its caller's thread; a task once started
\* is run by the thread pool.  Nothing makes a thread call Enqueue.
Fairness == \A m \in Messages : WF_vars(EnqueueStep(m)) /\ WF_vars(WorkerStep(m))

Spec == SafetySpec /\ Fairness
-----------------------------------------------------------------------------
Queued == {queue[i] : i \in 1 .. Len(queue)}
Holders == {w \in Messages : worker[w] \in InHandler}
InHand == {item[w] : w \in {v \in Messages : worker[v] = "invoking"}}

\* The flag stays a flag: exchanges that lose their race must not drive _running out
\* of {0, 1} (QueueManager.cs:45,62), which IsWorking takes it to be.
TypeOK ==
    /\ queue \in Seq(Messages)
    /\ running \in {0, 1}
    /\ dispatcherCount \in Int
    /\ caller \in [Messages -> CallerPlaces]
    /\ callerTmp \in [Messages -> {0, 1}]
    /\ worker \in [Messages -> WorkerPlaces]
    /\ workerTmp \in [Messages -> {0, 1}]
    /\ item \in [Messages -> Messages \cup {NoMessage}]
    /\ handled \in SUBSET Messages
    /\ thrown \in SUBSET Messages

\* Wherever an item is, it is there alone: not queued twice, not in two workers'
\* hands, not queued again once taken; and a worker that calls the handler has an
\* item to give it (QueueManager.cs:43,57,70).
Fresh == \A m \in Messages :
            caller[m] \in {"idle", "counting", "queueing"}
                => m \notin Queued \cup InHand \cup handled \cup thrown
QueuedOnce == \A i, j \in 1 .. Len(queue) : queue[i] = queue[j] => i = j
HeldOnce == \A v, w \in Messages :
               worker[v] = "invoking" /\ worker[w] = "invoking" /\ item[v] = item[w] => v = w
HandsFull == \A w \in Messages : worker[w] = "invoking" => item[w] \in Messages
StartedOnce == \A m \in Messages : caller[m] # "returned" => worker[m] = "none"
ItemsInOnePlace ==
    /\ StartedOnce
    /\ Fresh
    /\ QueuedOnce
    /\ HeldOnce
    /\ HandsFull
    /\ Queued \cap InHand = {}
    /\ (Queued \cup InHand) \cap (handled \cup thrown) = {}

\* DispatcherCount (QueueManager.cs:12) is the number of items inside the
\* dispatcher: being added, waiting in the queue, or in a worker's handler call.
\* The counter is touched by callers and workers without a lock, and an item
\* changes hands between the two touches.
Counted == {m \in Messages : caller[m] = "queueing"}
DispatcherCountExact ==
    dispatcherCount = Cardinality(Counted) + Len(queue) + Cardinality(Holders)

\* While IsWorking says true (QueueManager.cs:17), the caller that leaves its item
\* to "the worker" is right that there is one: some task will look at the queue
\* again or has seen the flag up and will lower it, unless a task died in its
\* handler.  The flag alone is exchanged, by several callers and tasks at once.
Committed(w) == worker[w] = "exchanging" => workerTmp[w] = 1
WorkerBehindFlag ==
    running = 1 => \E w \in Messages :
                      \/ w \in Live /\ Committed(w)
                      \/ worker[w] = "faulted"

\* The queue hands items on as the abstract dispatcher does: each one once, taken
\* in the order accepted, whatever the number of workers (QueueManager.cs:43,57,70).
Promise == INSTANCE Dispatcher
             WITH waiting <- queue, taken <- InHand, handed <- handled, refused <- thrown
PromiseKept == Promise!Spec

\* A second worker at the same time is always the doing of a call that read _running
\* while it was 1 and exchanged when it had become 0 (QueueManager.cs:39,45): such a
\* worker is not behind the flag and spins on an empty queue (QueueManager.cs:65), but
\* no exchange of a worker that lost its race breeds another.
Unended == {w \in Messages : worker[w] \notin {"none", "returned"}}
StartedStale == {w \in Messages : worker[w] # "none" /\ callerTmp[w] = 1}
WorkersBounded == Cardinality(Unended) <= running + Cardinality(StartedStale)

\* Everything offered so far is dealt with and nothing is running on.
Quiet == /\ Live = {}
         /\ \A m \in Messages : caller[m] \in {"idle", "returned"}

\* What the load test asserts (PerformanseTests.cs:40): once the concurrent Publish
\* calls have returned and the workers have stopped, every message was dispatched.
NothingStranded == Quiet => queue = <<>>

\* Whoever queues an item while some task has not yet found the queue empty may rely
\* on it: that task, or another that overtakes it, dispatches the item before it ends,
\* as long as no handler call throws (QueueManager.cs:57-78).
Draining == {w \in Messages : worker[w] \in {"dequeuing"} \cup InHandler}
BusyWorkerDrains ==
    \A m \in Messages : (m \in Queued /\ Draining # {}) ~> (m \in handled \/ thrown # {})

\* An item left without a worker is not lost for good: any call still short of its
\* exchange, however stale the flag it read (QueueManager.cs:39,45), starts a worker
\* or meets one newly started, and that worker takes the item, unless it is the one
\* to die in its handler.
NextCallRescues ==
    \A m, n \in Messages :
        (m \in Queued /\ Live = {} /\ thrown = {} /\ caller[n] \notin {"idle", "returned"})
            ~> (m \in handled \/ thrown # {})

\* One handler call that throws at the wrong moment ends dispatching for good: with
\* the flag up and no task alive, no later call of Enqueue starts a worker
\* (QueueManager.cs:45,70-75).
PumpDead == running = 1 /\ Live = {}
DeathIsFinal == [][PumpDead => PumpDead' /\ handled' = handled]_vars
=============================================================================
