-------------------------- MODULE EventProcessing ---------------------------
(* What happens to an event once RmqMessageConsumer has handed it over:       *)
(* EventListener.ProcessIncomingEventAsync resolves the group's processors,   *)
(* runs them in parallel within one service scope, and when one throws lets   *)
(* EventProcessingFaultResolver publish the event on its fault exchange.  If  *)
(* those that failed were all cancelled there is no exception to publish.     *)
(*                                                                            *)
(* Queues and channels are taken to be reliable here; Delivery says what they *)
(* do.  A processor is a position in its group's EventProcessorGroup.         *)
EXTENDS Integers, Sequences, FiniteSets

CONSTANTS
    Groups, Types,
    ProcessorsOf,   \* of a group: the sequence SubscribeOn and OnFault built
    AnyGroup,       \* an empty event-group-id header
    NoHeader,       \* no such header: ToEvent takes the exchange's name for it
    MaxEvents,      \* bound: events published from outside
    MaxThrows,      \* bound: handler calls that throw
    BlankText       \* may an exception have an empty message?

ASSUME ProcessingAssumption ==
    /\ AnyGroup \notin Groups /\ NoHeader \notin Groups
    /\ \A g \in Groups : \A k \in DOMAIN ProcessorsOf[g] :
          ProcessorsOf[g][k] \in [type : Types, fault : BOOLEAN]
    /\ MaxEvents \in Nat /\ MaxThrows \in Nat /\ BlankText \in BOOLEAN

Ids == 1 .. (MaxEvents + MaxThrows)
Processors(g) == 1 .. Len(ProcessorsOf[g])
Results(g) == [Processors(g) -> {"none", "running", "ok", "text", "blank", "cancelled"}]
External == <<"published", 0>>

VARIABLES
    messages,  \* every message so far: type, exchange, headers, and what caused it
    delivery,  \* state of message i at group g; the scope lives while "processing"
    result,    \* of processor k of group g for message i
    throws

vars == <<messages, delivery, result, throws>>

Init ==
    /\ messages = <<>>
    /\ delivery = [d \in Groups \X Ids |-> "none"]
    /\ result = [d \in Groups \X Ids |-> [k \in Processors(d[1]) |-> "none"]]
    /\ throws = 0
-----------------------------------------------------------------------------
(* Publishing: OpenChannel bound the group to the exchanges of its processors *)

BoundTo(g, m) == \E k \in Processors(g) : ProcessorsOf[g][k] = [type |-> m.type, fault |-> m.fault]

\* the deliveries once m is message number i
Deliveries(m, i) ==
    [d \in Groups \X Ids |-> IF d[2] = i /\ BoundTo(d[1], m) THEN "ready" ELSE delivery[d]]

PublishEvent(t, address) ==
    /\ Cardinality({i \in DOMAIN messages : messages[i].cause = External}) < MaxEvents
    /\ LET m == [type |-> t, fault |-> FALSE, group |-> address, error |-> FALSE, cause |-> External] IN
          /\ messages' = Append(messages, m)
          /\ delivery' = Deliveries(m, Len(messages) + 1)
    /\ UNCHANGED <<result, throws>>

\* mutant: the text goes where the group's name goes
FaultOfSwapped(g, i, text) ==
    [type |-> messages[i].type, fault |-> TRUE, group |-> text,
     error |-> TRUE, cause |-> <<g, i>>]

\* mutant: the error header is left out
FaultOfWithoutError(g, i, text) ==
    [type |-> messages[i].type, fault |-> TRUE, group |-> AnyGroup,
     error |-> FALSE, cause |-> <<g, i>>]

\* mutant: the fault is addressed to the group that failed
FaultOfAddressed(g, i, text) ==
    [type |-> messages[i].type, fault |-> TRUE, group |-> g,
     error |-> text = "text", cause |-> <<g, i>>]

\* PublishFault(@event.Event, text): no group is named, and an empty text sets no header
FaultOf(g, i, text) ==
    [type |-> messages[i].type, fault |-> TRUE, group |-> AnyGroup,
     error |-> text = "text", cause |-> <<g, i>>]
-----------------------------------------------------------------------------
(* ProcessIncomingEventAsync *)

\* ResolveEventProcessors(@event.EventType, @event.EventGroupId, isFaultedEvent)
Resolved(g, m) ==
    {k \in Processors(g) : /\ ProcessorsOf[g][k].type = m.type
                           /\ m.group \in {AnyGroup, g}
                           /\ ProcessorsOf[g][k].fault = m.error}

\* nobody handles the event: it is logged and gone
Drop(g, i) ==
    /\ delivery[<<g, i>>] = "ready"
    /\ Resolved(g, messages[i]) = {}
    /\ delivery' = [delivery EXCEPT ![<<g, i>>] = "dropped"]
    /\ UNCHANGED <<messages, result, throws>>

StartProcessors(g, i) ==
    LET chosen == Resolved(g, messages[i]) IN
    /\ delivery[<<g, i>>] = "ready"
    /\ chosen # {}
    /\ delivery' = [delivery EXCEPT ![<<g, i>>] = "processing"]
    /\ result' = [result EXCEPT ![<<g, i>>] =
                     [k \in Processors(g) |-> IF k \in chosen THEN "running" ELSE "none"]]
    /\ UNCHANGED <<messages, throws>>

HandlerEnds(g, i, k, how) ==
    /\ result[<<g, i>>][k] = "running"
    /\ result' = [result EXCEPT ![<<g, i>>][k] = how]
    /\ UNCHANGED <<messages, delivery>>

HandlerCompletes(g, i, k) == HandlerEnds(g, i, k, "ok") /\ UNCHANGED throws

HandlerThrows(g, i, k) ==
    /\ throws < MaxThrows
    /\ throws' = throws + 1
    /\ \/ HandlerEnds(g, i, k, "text")
       \/ BlankText /\ HandlerEnds(g, i, k, "blank")
       \/ HandlerEnds(g, i, k, "cancelled")   \* an OperationCanceledException

\* Task.WhenAll: the processors have all ended.  It is faulted if one of them is, with the
\* exceptions of those that are, else cancelled if one of them is, and then has none.
AllEnded(g, i) == \A k \in Processors(g) : result[<<g, i>>][k] # "running"
Failed(g, i) == {k \in Processors(g) : result[<<g, i>>][k] \in {"text", "blank"}}
Cancelled(g, i) == {k \in Processors(g) : result[<<g, i>>][k] = "cancelled"}

\* mutant: Task.WhenAny
FinishAny(g, i) ==
    /\ delivery[<<g, i>>] = "processing"
    /\ \E k \in Processors(g) : result[<<g, i>>][k] = "ok"
    /\ Failed(g, i) \cup Cancelled(g, i) = {}
    /\ delivery' = [delivery EXCEPT ![<<g, i>>] = "processed"]
    /\ UNCHANGED <<messages, result, throws>>

Finish(g, i) ==
    /\ delivery[<<g, i>>] = "processing"
    /\ AllEnded(g, i)
    /\ Failed(g, i) \cup Cancelled(g, i) = {}
    /\ delivery' = [delivery EXCEPT ![<<g, i>>] = "processed"]
    /\ UNCHANGED <<messages, result, throws>>

\* eventProcessorTasks.Exception is null: the event is logged and gone
Abandon(g, i) ==
    /\ delivery[<<g, i>>] = "processing"
    /\ AllEnded(g, i)
    /\ Failed(g, i) = {} /\ Cancelled(g, i) # {}
    /\ delivery' = [delivery EXCEPT ![<<g, i>>] = "abandoned"]
    /\ UNCHANGED <<messages, result, throws>>

\* mutant: a fault for each processor as it fails
ResolveFaultEach(g, i) ==
    /\ delivery[<<g, i>>] = "processing"
    /\ \E k \in Failed(g, i) :
          LET m == FaultOf(g, i, result[<<g, i>>][k]) IN
          /\ messages' = Append(messages, m)
          /\ delivery' = Deliveries(m, Len(messages) + 1)
    /\ UNCHANGED <<result, throws>>

\* ResolveFaultAsync with the text of the first faulted task in the group's order
ResolveFault(g, i) ==
    /\ delivery[<<g, i>>] = "processing"
    /\ AllEnded(g, i)
    /\ Failed(g, i) # {}
    /\ LET first == CHOOSE k \in Failed(g, i) : \A l \in Failed(g, i) : k <= l
           m == FaultOf(g, i, result[<<g, i>>][first])
       IN  /\ messages' = Append(messages, m)
           /\ delivery' = [Deliveries(m, Len(messages) + 1) EXCEPT ![<<g, i>>] = "faulted"]
    /\ UNCHANGED <<result, throws>>

ProcessingStep(g, i) ==
    \/ Drop(g, i) \/ StartProcessors(g, i)
    \/ Finish(g, i) \/ Abandon(g, i) \/ ResolveFault(g, i)
    \/ \E k \in Processors(g) : HandlerCompletes(g, i, k) \/ HandlerThrows(g, i, k)
-----------------------------------------------------------------------------
Next ==
    \/ \E t \in Types, address \in Groups \cup {AnyGroup, NoHeader} : PublishEvent(t, address)
    \/ \E g \in Groups, i \in Ids : ProcessingStep(g, i)

SafetySpec == Init /\ [][Next]_vars

\* Delivered events are handed over and handlers end; nobody has to publish.
Fairness == \A g \in Groups, i \in Ids : WF_vars(ProcessingStep(g, i))
Spec == SafetySpec /\ Fairness
-----------------------------------------------------------------------------
\* the scope has been disposed of
GivenUp == {"processed", "abandoned", "faulted"}

\* Types: in particular what stands in a header is what a reader of it expects, the
\* group's name and the error's text are not mixed up (EventPublisher.cs:117-133).
TypeOK ==
    /\ messages \in Seq([type : Types, fault : BOOLEAN, error : BOOLEAN,
                         group : Groups \cup {AnyGroup, NoHeader},
                         cause : (Groups \X Ids) \cup {External}])
    /\ delivery \in [Groups \X Ids ->
                        {"none", "ready", "dropped", "processing"} \cup GivenUp]
    /\ result \in [Groups \X Ids -> UNION {Results(g) : g \in Groups}]
    /\ \A d \in Groups \X Ids : result[d] \in Results(d[1])
    /\ throws \in 0 .. MaxThrows

\* However many of a group's processors fail on an event, and in whatever order they
\* end, one fault is published for it, when they all have ended, if one failed with an
\* exception, and none if they took it or were only cancelled (EventListener.cs:119-143).
OneFaultPerFailure ==
    \A g \in Groups, i \in Ids :
        LET faults == {j \in DOMAIN messages : messages[j].cause = <<g, i>>}
        IN  Cardinality(faults)
                = IF delivery[<<g, i>>] \in GivenUp /\ Failed(g, i) # {} THEN 1 ELSE 0

\* The scope a handler takes its services from is not disposed of under it: no
\* processor runs once its event's scope has gone (EventListener.cs:116-145), and no
\* processor that was due has been left out.
ScopeOutlivesHandlers ==
    \A g \in Groups, i \in Ids :
        delivery[<<g, i>>] \in GivenUp =>
            {k \in Processors(g) : result[<<g, i>>][k] \in {"ok", "text", "blank", "cancelled"}}
                = Resolved(g, messages[i])

OnlyFaultHandlers(i) ==
    \A g \in Groups : \A k \in Processors(g) :
        messages[i].fault /\ result[<<g, i>>][k] # "none" => ProcessorsOf[g][k].fault

Text(i) == LET d == messages[i].cause IN
           \E k \in Failed(d[1], d[2]) : /\ result[d][k] = "text"
                                         /\ \A l \in Failed(d[1], d[2]) : k <= l

\* An exception is handled "inside special event handler" (README.md:143-144): fault
\* handlers and ordinary handlers of one group for one type are told apart by the error
\* header alone (EventListener.cs:105, EventProcessorGroup.cs:22), and no handler of the
\* other kind is ever started.  Only the fault of an exception without a text, which
\* sets no header (EventPublisher.cs:129), is taken for an event.
KindsKeptApart ==
    \A i \in Ids \cap DOMAIN messages :
        IF messages[i].fault THEN Text(i) => OnlyFaultHandlers(i)
        ELSE \A g \in Groups : \A k \in Processors(g) :
                result[<<g, i>>][k] # "none" => ~ProcessorsOf[g][k].fault

\* An exception is not swallowed: every group that declared OnFault for the type gets to
\* run a handler for it, whichever group failed, whomever the event was addressed to and
\* whatever became of the group's other processors (EventListener.cs:130-143,
\* EventProcessingFaultResolver.cs:38).  It says nothing of a failure that consists of
\* cancelled processors alone: nobody is told of it (EventListener.cs:132), although the
\* exception "occurred within event handler" (README.md:143).
FaultIsHandled ==
    \A g, h \in Groups, i \in Ids :
        (delivery[<<g, i>>] = "processing" /\ Failed(g, i) # {})
            ~> \E j \in DOMAIN messages :
                  /\ messages[j].cause = <<g, i>>
                  /\ Text(j) /\ BoundTo(h, messages[j]) => delivery[<<h, j>>] \in GivenUp
=============================================================================
