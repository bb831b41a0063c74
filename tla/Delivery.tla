------------------------------ MODULE Delivery ------------------------------
(* One process that publishes with PublishAsync and listens for several       *)
(* groups: MessageSender and MessageConfirmationDispatcher on the way out,    *)
(* RmqMessageConsumer and the handler chain EventTypeBasedHandler over        *)
(* ErrorBoundaryHandler over MessageToEventTransformHandler on the way in.    *)
(* Each group has a queue and a channel whose thread delivers one message at  *)
(* a time; what follows the first continuation runs on the thread pool.       *)
(*                                                                            *)
(* The broker, the wire and the loss of channels are external.  A delivery    *)
(* tag is the attempt <<group, message, how many times delivered>>.           *)
EXTENDS Integers, FiniteSets

CONSTANTS
    Groups, Messages, Names, Types,
    NoName, NoGroup,
    Own,        \* the messages this process publishes
    NameOf,     \* the event-name header of a message, NoName if it has none
    HasId,      \* the messages with an event-id header
    TextOnly,   \* the messages whose headers are all strings
    Bound,      \* the groups whose queues a message is routed to
    HandledBy,  \* a group's handledEventDictionary: a function from names to types
    Readable,   \* the <<message, type>> pairs for which the payload can be read
    MaxLosses   \* bound: how many channel losses, crashes and wire losses happen

ASSUME DeliveryAssumption ==
    /\ NoName \notin Names /\ NoGroup \notin Groups
    /\ Own \subseteq Messages /\ HasId \subseteq Messages /\ TextOnly \subseteq Messages
    /\ NameOf \in [Messages -> Names \cup {NoName}]
    /\ Bound \in [Messages -> SUBSET Groups]
    /\ \A g \in Groups : DOMAIN HandledBy[g] \subseteq Names
                         /\ \A n \in DOMAIN HandledBy[g] : HandledBy[g][n] \in Types
    /\ Readable \subseteq Messages \X Types
    /\ MaxLosses \in Nat
    \* EventPublisher.BuildMessage always sets both headers, and strings only
    /\ \A m \in Own : m \in HasId /\ NameOf[m] \in Names /\ m \in TextOnly

VARIABLES
    sender,     \* where PublishAsync(m) and its message are, until routed
    waiting,    \* keys of _messageToConfirmDictionary
    outcome,    \* state of the confirmation's task
    broker,     \* what the broker holds of m for g
    open,       \* groups with an open channel and a consumer on it
    delivered,  \* how many times m was delivered to g
    stage,      \* where HandleBasicDeliver of an attempt is
    using,      \* the group whose dictionary the attempt's handler captured
    handlerOf,  \* _messageHandlers: whose dictionary the cached handler captured
    raced,      \* the names whose cached handler was built while another was
    cached,     \* the types whose constructors TypeExtensions has stored
    given,      \* history: <<g, m>> handed to MessageProcessed
    torn,       \* history: attempts that failed for what another was doing to shared statics
    losses

senderVars == <<sender, waiting, outcome>>
statics == <<raced, cached>>
listenVars == <<open, delivered, stage, using, handlerOf, statics, given, torn>>
vars == <<senderVars, broker, listenVars, losses>>

Attempts == Groups \X Messages \X (1 .. MaxLosses + 1)
Message(a) == a[2]
Current(g, m) == <<g, m, delivered[<<g, m>>]>>

Building  == {"building", "racing"}      \* racing: another attempt builds, or did, meanwhile
Creating  == {"fetching", "filling", "contending"}  \* in GetInstance, as CreateStarts says
OnChannel == {"received", "resolved"} \cup Building \cup Creating  \* on the channel's thread
Pooled    == {"failing", "faulted", "transformed", "approved", "given"}
Stages    == {"none", "acknowledged", "nacked", "late", "stuck", "uncast", "lost"}
                 \cup OnChannel \cup Pooled

Init ==
    /\ sender = [m \in Own |-> "idle"]
    /\ waiting = {}
    /\ outcome = [m \in Own |-> "none"]
    /\ broker = [d \in Groups \X Messages |-> "absent"]
    /\ open = Groups
    /\ delivered = [d \in Groups \X Messages |-> 0]
    /\ stage = [a \in Attempts |-> "none"]
    /\ using = [a \in Attempts |-> NoGroup]
    /\ handlerOf = [n \in Names |-> NoGroup]
    /\ raced = {}
    /\ cached = {}
    /\ given = {}
    /\ torn = {}
    /\ losses = 0
-----------------------------------------------------------------------------
(* MessageSender.SendMessageAsync *)

Subscribe(m) ==
    /\ sender[m] = "idle"
    /\ sender' = [sender EXCEPT ![m] = "subscribed"]
    /\ waiting' = waiting \cup {m}
    /\ outcome' = [outcome EXCEPT ![m] = "pending"]
    /\ UNCHANGED <<broker, listenVars, losses>>

\* BasicPublish returns once the frame is handed to the connection
BasicPublish(m) ==
    /\ sender[m] = "subscribed"
    /\ sender' = [sender EXCEPT ![m] = "onWire"]
    /\ UNCHANGED <<waiting, outcome, broker, listenVars, losses>>

\* mutant: no catch block
PublishThrowsThrough(m) ==
    /\ sender[m] = "subscribed"
    /\ sender' = [sender EXCEPT ![m] = "threw"]
    /\ outcome' = [outcome EXCEPT ![m] = "none"]
    /\ UNCHANGED <<waiting, broker, listenVars, losses>>

\* ... or throws: Unsubscribe, and the caller gets the exception
PublishThrows(m) ==
    /\ sender[m] = "subscribed"
    /\ sender' = [sender EXCEPT ![m] = "threw"]
    /\ waiting' = waiting \ {m}
    /\ outcome' = [outcome EXCEPT ![m] = "none"]
    /\ UNCHANGED <<broker, listenVars, losses>>
-----------------------------------------------------------------------------
(* The broker and the network *)

Queue(m) == broker' = [d \in Groups \X Messages |->
                          IF d[2] = m /\ d[1] \in Bound[m] THEN "ready" ELSE broker[d]]

Route(m) ==
    /\ sender[m] = "onWire"
    /\ sender' = [sender EXCEPT ![m] = "routed"]
    /\ Queue(m)
    /\ UNCHANGED <<waiting, outcome, listenVars, losses>>

\* a message published by another process
Arrive(m) ==
    /\ m \notin Own
    /\ \A g \in Groups : broker[<<g, m>>] = "absent"
    /\ Queue(m)
    /\ UNCHANGED <<senderVars, listenVars, losses>>

\* MakeProps asks for no persistence and nobody for publisher confirms
LostOnWire(m) ==
    /\ losses < MaxLosses
    /\ losses' = losses + 1
    /\ sender[m] = "onWire"
    /\ sender' = [sender EXCEPT ![m] = "lostOnWire"]
    /\ UNCHANGED <<waiting, outcome, broker, listenVars>>

Requeue(gs) == broker' = [d \in Groups \X Messages |->
                             IF d[1] \in gs /\ broker[d] = "unacked" THEN "ready" ELSE broker[d]]

\* What was being handled goes on, with a channel that no longer is.
ChannelLost(g) ==
    /\ losses < MaxLosses
    /\ losses' = losses + 1
    /\ g \in open
    /\ open' = open \ {g}
    /\ Requeue({g})
    /\ UNCHANGED <<senderVars, delivered, stage, using, handlerOf, statics, given, torn>>

\* ReconnectAsync opened a new channel; the chain and its cache are singletons
Reopen(g) ==
    /\ g \notin open
    /\ open' = open \cup {g}
    /\ UNCHANGED <<senderVars, broker, delivered, stage, using, handlerOf, statics, given, torn, losses>>

\* The process dies and is started again: all that was in memory is gone.
Crash ==
    /\ losses < MaxLosses
    /\ losses' = losses + 1
    /\ open' = {}
    /\ Requeue(Groups)
    /\ stage' = [a \in Attempts |-> IF stage[a] \in OnChannel \cup Pooled \cup {"stuck", "uncast"}
                                    THEN "lost" ELSE stage[a]]
    /\ handlerOf' = [n \in Names |-> NoGroup]
    /\ raced' = {} /\ cached' = {}
    /\ waiting' = {}
    /\ outcome' = [m \in Own |-> IF outcome[m] = "none" THEN "none" ELSE "forgotten"]
    /\ sender' = [m \in Own |-> IF sender[m] = "subscribed" THEN "threw" ELSE sender[m]]
    /\ UNCHANGED <<delivered, using, given, torn>>
-----------------------------------------------------------------------------
(* RmqMessageConsumer.HandleBasicDeliver and the handler chain *)

Busy(g) == \E m \in Messages : broker[<<g, m>>] = "unacked" /\ stage[Current(g, m)] \in OnChannel

Deliver(g, m) ==
    /\ g \in open /\ broker[<<g, m>>] = "ready" /\ ~Busy(g)
    /\ broker' = [broker EXCEPT ![<<g, m>>] = "unacked"]
    /\ delivered' = [delivered EXCEPT ![<<g, m>>] = @ + 1]
    /\ stage' = [stage EXCEPT ![<<g, m, delivered[<<g, m>>] + 1>>] = "received"]
    /\ UNCHANGED <<senderVars, open, using, handlerOf, statics, given, torn, losses>>

MoveTo(a, s) == stage' = [stage EXCEPT ![a] = s]
At(places) == {b \in Attempts : stage[b] \in places}

\* a goes to a place where it disturbs others and is disturbed by them, if there are any
Join(a, alone, others, together) ==
    stage' = [b \in Attempts |-> IF others = {} THEN (IF b = a THEN alone ELSE stage[b])
                                ELSE IF b \in others \cup {a} THEN together ELSE stage[b]]

\* (byte[])header.Value throws for any header that is not a string, out of
\* HandleBasicDeliver and into RabbitMQ.Client, which goes on with the next delivery.
CastHeaderThrows(a) ==
    /\ stage[a] = "received"
    /\ Message(a) \notin TextOnly
    /\ MoveTo(a, "uncast")
    /\ UNCHANGED <<senderVars, broker, open, delivered, using, handlerOf, statics, given, torn, losses>>

\* EventTypeBasedHandler: _messageHandlers.TryGetValue(eventName, ...), which throws
\* on a null name before the error boundary is entered.
LookUpHandler(a) ==
    LET name == NameOf[Message(a)] IN
    /\ stage[a] = "received"
    /\ Message(a) \in TextOnly
    /\ \/ name = NoName /\ MoveTo(a, "faulted") /\ UNCHANGED using
       \/ /\ name # NoName
          /\ handlerOf[name] # NoGroup
          /\ using' = [using EXCEPT ![a] = handlerOf[name]]
          /\ MoveTo(a, "resolved")
       \/ /\ name # NoName
          /\ handlerOf[name] = NoGroup
          /\ Join(a, "building", At(Building), "racing")
          /\ UNCHANGED using
    /\ UNCHANGED <<senderVars, broker, open, delivered, handlerOf, statics, given, torn, losses>>

\* mutant: the handler that GetOrAdd returned is not assigned
AddHandlerOnly(a) ==
    LET name == NameOf[Message(a)] IN
    /\ stage[a] \in Building
    /\ handlerOf' = [handlerOf EXCEPT ![name] = IF @ = NoGroup THEN a[1] ELSE @]
    /\ raced' = IF handlerOf[name] = NoGroup /\ stage[a] = "racing" THEN raced \cup {name} ELSE raced
    /\ MoveTo(a, "resolved")
    /\ UNCHANGED <<senderVars, broker, open, delivered, using, cached, given, torn, losses>>

\* GetMessageHandlerAsync(channel, handledEventDictionary), then GetOrAdd: of two
\* groups that build a handler for one name, the first to add serves both.
AddHandler(a) ==
    LET name == NameOf[Message(a)] IN
    /\ stage[a] \in Building
    /\ handlerOf' = [handlerOf EXCEPT ![name] = IF @ = NoGroup THEN a[1] ELSE @]
    /\ using' = [using EXCEPT ![a] = handlerOf'[name]]
    /\ raced' = IF handlerOf[name] = NoGroup /\ stage[a] = "racing" THEN raced \cup {name} ELSE raced
    /\ MoveTo(a, "resolved")
    /\ UNCHANGED <<senderVars, broker, open, delivered, cached, given, torn, losses>>

\* MessageTransformationStep.ToEvent up to GetInstance, with the dictionary the handler
\* captured: the name must be in it and the payload readable as its type.
Transforms(a) ==
    LET name == NameOf[Message(a)]
        dict == HandledBy[using[a]]
    IN  name \in DOMAIN dict /\ <<Message(a), dict[name]>> \in Readable

TypeOf(a) == HandledBy[using[a]][NameOf[Message(a)]]

\* GetInstance looks for the constructor of the type in the static Dictionary and stores it
\* if it is not there.  Who reads while another stores may miss what is there, and store too.
CreateStarts(a) ==
    IF TypeOf(a) \in cached
    THEN Join(a, "fetching", At({"filling", "contending"}), "contending")
    ELSE Join(a, "filling", At(Creating), "contending")

\* ErrorBoundaryHandler: GetRequiredHeader(event-id) outside the try, then the pipeline.
\* Its steps look at the static _builderInstance, whose scope is null for a moment while
\* another attempt builds a pipeline: PipelineBuilder's NullScopeHasBuilder.
Transform(a) ==
    /\ stage[a] = "resolved"
    /\ \/ Message(a) \notin HasId /\ MoveTo(a, "faulted") /\ UNCHANGED torn
       \/ Message(a) \in HasId /\ Transforms(a) /\ CreateStarts(a) /\ UNCHANGED torn
       \/ Message(a) \in HasId /\ ~Transforms(a) /\ MoveTo(a, "failing") /\ UNCHANGED torn
       \/ Message(a) \in HasId /\ Transforms(a) /\ At(Building) # {}
              /\ MoveTo(a, "failing") /\ torn' = torn \cup {a}
    /\ UNCHANGED <<senderVars, broker, open, delivered, using, handlerOf, statics, given, losses>>

\* A handler built while another was may walk its list of steps for ever: PipelineBuilder's
\* RoundOnlyAfterRace.  Each step calls the next on the same stack, whose overflow ends the
\* process: one of the losses that MaxLosses bounds.
Overflow(a) ==
    /\ stage[a] = "resolved"
    /\ Message(a) \in HasId
    /\ NameOf[Message(a)] \in raced
    /\ Crash

\* The constructor is found or stored, and the event made ...
Create(a) ==
    /\ stage[a] \in Creating
    /\ \/ cached' = cached \cup {TypeOf(a)}
       \/ stage[a] = "contending" /\ UNCHANGED cached  \* another's store has undone its own
    /\ MoveTo(a, "transformed")
    /\ UNCHANGED <<senderVars, broker, open, delivered, using, handlerOf, raced, given, torn, losses>>

\* ... or KeyNotFoundException: InstanceCache's MissingOnlyIfDisturbed
CreateThrows(a) ==
    /\ stage[a] = "contending"
    /\ cached' \in {cached, cached \cup {TypeOf(a)}}
    /\ MoveTo(a, "failing")
    /\ torn' = torn \cup {a}
    /\ UNCHANGED <<senderVars, broker, open, delivered, using, handlerOf, raced, given, losses>>

Settle(m, result) ==
    /\ waiting' = waiting \ {m}
    /\ outcome' = IF m \in waiting THEN [outcome EXCEPT ![m] = result] ELSE outcome

\* mutant: Approve throws for a message nobody here waits for
ApproveWaitingOnly(a) ==
    /\ stage[a] = "transformed"
    /\ Settle(Message(a), "confirmed")
    /\ MoveTo(a, IF Message(a) \in waiting THEN "approved" ELSE "failing")
    /\ UNCHANGED <<sender, broker, open, delivered, using, handlerOf, statics, given, torn, losses>>

\* the OnlyOnRanToCompletion continuation, on the pool
Approve(a) ==
    /\ stage[a] = "transformed"
    /\ Settle(Message(a), "confirmed")
    /\ MoveTo(a, "approved")
    /\ UNCHANGED <<sender, broker, open, delivered, using, handlerOf, statics, given, torn, losses>>

\* mutant: the catch block does not tell the publisher
RejectSilently(a) ==
    /\ stage[a] = "failing"
    /\ MoveTo(a, "stuck")
    /\ UNCHANGED <<senderVars, broker, open, delivered, using, handlerOf, statics, given, torn, losses>>

\* The awaited continuation of a failed pipeline is cancelled, so what is caught and
\* rethrown is a TaskCanceledException: the handler's task ends cancelled, neither
\* faulted nor completed, and neither OnFailed nor OnSuccess runs.
Reject(a) ==
    /\ stage[a] = "failing"
    /\ Settle(Message(a), "rejected")
    /\ MoveTo(a, "stuck")
    /\ UNCHANGED <<sender, broker, open, delivered, using, handlerOf, statics, given, torn, losses>>

\* An attempt may answer the broker while its channel is the one it came on.
Answerable(a) == broker[<<a[1], a[2]>>] = "unacked" /\ Current(a[1], a[2]) = a

\* mutant: BasicNack with requeue
OnFailedRequeues(a) ==
    /\ stage[a] = "faulted"
    /\ \/ /\ Answerable(a)
          /\ broker' = [broker EXCEPT ![<<a[1], a[2]>>] = "ready"]
          /\ MoveTo(a, "nacked")
       \/ ~Answerable(a) /\ MoveTo(a, "late") /\ UNCHANGED broker
    /\ UNCHANGED <<senderVars, open, delivered, using, handlerOf, statics, given, torn, losses>>

\* OnFailed: BasicNack without requeue
OnFailed(a) ==
    /\ stage[a] = "faulted"
    /\ \/ /\ Answerable(a)
          /\ broker' = [broker EXCEPT ![<<a[1], a[2]>>] = "refused"]
          /\ MoveTo(a, "nacked")
       \/ ~Answerable(a) /\ MoveTo(a, "late") /\ UNCHANGED broker
    /\ UNCHANGED <<senderVars, open, delivered, using, handlerOf, statics, given, torn, losses>>

\* mutant: an exception of the event's processing leaves OnSuccess before BasicAck
MessageProcessedThrows(a) ==
    /\ stage[a] = "approved"
    /\ given' = given \cup {<<a[1], a[2]>>}
    /\ MoveTo(a, "stuck")
    /\ UNCHANGED <<senderVars, broker, open, delivered, using, handlerOf, statics, torn, losses>>

\* OnSuccess: MessageProcessed.Invoke, which starts the event's processing ...
MessageProcessed(a) ==
    /\ stage[a] = "approved"
    /\ given' = given \cup {<<a[1], a[2]>>}
    /\ MoveTo(a, "given")
    /\ UNCHANGED <<senderVars, broker, open, delivered, using, handlerOf, statics, torn, losses>>

\* mutant: BasicAck may come before MessageProcessed
BasicAckEarly(a) ==
    /\ stage[a] \in {"approved", "given"}
    /\ \/ /\ Answerable(a)
          /\ broker' = [broker EXCEPT ![<<a[1], a[2]>>] = "acked"]
          /\ MoveTo(a, "acknowledged")
       \/ ~Answerable(a) /\ MoveTo(a, "late") /\ UNCHANGED broker
    /\ UNCHANGED <<senderVars, open, delivered, using, handlerOf, statics, given, torn, losses>>

\* ... and does not wait for it: BasicAck
BasicAck(a) ==
    /\ stage[a] = "given"
    /\ \/ /\ Answerable(a)
          /\ broker' = [broker EXCEPT ![<<a[1], a[2]>>] = "acked"]
          /\ MoveTo(a, "acknowledged")
       \/ ~Answerable(a) /\ MoveTo(a, "late") /\ UNCHANGED broker
    /\ UNCHANGED <<senderVars, open, delivered, using, handlerOf, statics, given, torn, losses>>

AttemptStep(a) ==
    \/ CastHeaderThrows(a) \/ LookUpHandler(a) \/ AddHandler(a) \/ Transform(a)
    \/ Overflow(a) \/ Create(a) \/ CreateThrows(a)
    \/ Approve(a) \/ Reject(a) \/ OnFailed(a)
    \/ MessageProcessed(a) \/ BasicAck(a)
-----------------------------------------------------------------------------
Next ==
    \/ \E m \in Own : \/ Subscribe(m) \/ BasicPublish(m) \/ PublishThrows(m)
                      \/ Route(m) \/ LostOnWire(m)
    \/ \E m \in Messages : Arrive(m)
    \/ \E g \in Groups : ChannelLost(g) \/ Reopen(g)
    \/ Crash
    \/ \E g \in Groups, m \in Messages : Deliver(g, m)
    \/ \E a \in Attempts : AttemptStep(a)

SafetySpec == Init /\ [][Next]_vars

\* The broker routes what reaches it and delivers what is ready to an open channel,
\* a lost channel is reopened, and the channel's thread and the pool run what they
\* are given.  Publishing and losing are never forced.
Fairness ==
    /\ \A m \in Own : WF_vars(Route(m) \/ LostOnWire(m))
    /\ \A g \in Groups : WF_vars(Reopen(g))
    /\ \A g \in Groups, m \in Messages : WF_vars(Deliver(g, m))
    /\ \A a \in Attempts : WF_vars(AttemptStep(a))

Spec == SafetySpec /\ Fairness
-----------------------------------------------------------------------------
\* Types, and that a message past the look-up always has a handler to run, whichever of
\* the racing attempts put it in the cache (EventTypeBasedHandler.cs:33-47).
TypeOK ==
    /\ sender \in [Own -> {"idle", "subscribed", "threw", "onWire", "routed", "lostOnWire"}]
    /\ waiting \subseteq Own
    /\ outcome \in [Own -> {"none", "pending", "confirmed", "rejected", "forgotten"}]
    /\ broker \in [Groups \X Messages -> {"absent", "ready", "unacked", "acked", "refused"}]
    /\ open \subseteq Groups
    /\ delivered \in [Groups \X Messages -> 0 .. MaxLosses + 1]
    /\ stage \in [Attempts -> Stages]
    /\ using \in [Attempts -> Groups \cup {NoGroup}]
    /\ handlerOf \in [Names -> Groups \cup {NoGroup}]
    /\ raced \subseteq Names
    /\ cached \subseteq Types
    /\ given \subseteq Groups \X Messages
    /\ torn \subseteq Attempts
    /\ losses \in 0 .. MaxLosses
    /\ \A a \in Attempts :
          stage[a] \in {"resolved", "failing", "transformed", "approved", "given"} \cup Creating
              => using[a] # NoGroup

\* m is an event that g subscribed to, with the headers and a payload g can read
Good(g, m) ==
    /\ m \in HasId /\ m \in TextOnly
    /\ NameOf[m] \in DOMAIN HandledBy[g]
    /\ <<m, HandledBy[g][NameOf[m]]>> \in Readable

Unreadable == {d \in Groups \X Messages : d[2] \notin HasId \/ NameOf[d[2]] = NoName}
Held(states) == {d \in Groups \X Messages : broker[d] \in states}

\* The broker forgets a message only once the group's event handling has it
\* (RmqMessageConsumer.cs:135-136) or when a header is missing, and this through lost
\* channels, crashes and answers that come too late.
Promise == INSTANCE AtLeastOnce
             WITH Deliveries <- Groups \X Messages,
                  owed <- Held({"ready", "unacked"}),
                  closed <- Held({"acked", "refused"})
KeptUntilGiven == Promise!Spec

\* Where the groups agree on what an event name stands for, sharing one handler per
\* name among all groups (EventTypeBasedHandler.cs:33-39) turns no good message away,
\* whichever group built the handler; nor does the confirmation that the first group to
\* handle a message has taken from the dictionary (ErrorBoundaryHandler.cs:43).  Only what
\* other attempts do at the same time can: build a pipeline (BasePipelineBuilder.cs:23-28) or
\* store a constructor (TypeExtensions.cs:98,151).
GoodIsNeverTurnedAway ==
    \A a \in Attempts \ torn :
        Good(a[1], a[2]) => stage[a] \notin {"failing", "faulted", "stuck", "nacked"}

\* A publisher still waiting can still be answered: its confirmation is in the
\* dictionary as long as its task is undecided (MessageConfirmationDispatcher.cs:20,33,39),
\* and whoever decided it had the message.
ConfirmationReachable ==
    \A m \in Own :
        /\ outcome[m] = "pending" <=> m \in waiting
        /\ outcome[m] = "confirmed" =>
               \E a \in Attempts : a[2] = m /\ stage[a] \in {"approved", "given", "acknowledged", "late"}
        /\ outcome[m] = "rejected" => \E a \in Attempts : a[2] = m /\ stage[a] = "stuck"

\* A message comes again only because a channel or the process was lost: one that
\* cannot be processed does not go round (RmqMessageConsumer.cs:130, requeue: false).
NoPoisonLoop == \A d \in Groups \X Messages : delivered[d] <= 1 + losses

\* Every good message routed to a group is given to it in the end, and acknowledged,
\* unless an attempt at it failed for a pipeline being built or for a constructor being stored
\* at that time (BasePipelineBuilder.cs:23-28, TypeExtensions.cs:98,151).
GoodIsProcessed ==
    \A g \in Groups, m \in Messages :
        (broker[<<g, m>>] = "ready" /\ Good(g, m))
            ~> \/ broker[<<g, m>>] = "acked" /\ <<g, m>> \in given
               \/ \E a \in torn : a[1] = g /\ a[2] = m

\* PublishAsync of a message that reached a queue of this process is answered, well or
\* badly, unless the process dies first (MessageSender.cs:24-42).
PublishIsAnswered ==
    \A m \in Own :
        (sender[m] = "routed" /\ outcome[m] = "pending" /\ Bound[m] # {})
            ~> (outcome[m] # "pending")

\* What the publisher is told was rejected (MessageConfirmation.cs:34), the broker was
\* told as well: such an attempt does not leave its message unanswered.
RejectedIsSettled ==
    \A a \in Attempts : stage[a] = "stuck" => ~Answerable(a)
=============================================================================
