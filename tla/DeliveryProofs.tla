--------------------------- MODULE DeliveryProofs ---------------------------
(* What holds of Delivery for all groups, messages, subscriptions and losses. *)
EXTENDS Delivery, TLAPS

\* A handler is built only for a message that has an event name, and an event is made only
\* of a name that the handler's dictionary has.
Named ==
    \A a \in Attempts :
        /\ stage[a] \in Building => NameOf[a[2]] \in Names
        /\ stage[a] \in Creating => NameOf[a[2]] \in DOMAIN HandledBy[using[a]]

\* How often a message may have come follows from where the broker has it: each
\* delivery but the first was paid for with a loss.
Counted ==
    /\ \A d \in Groups \X Messages :
          /\ broker[d] = "absent" => delivered[d] = 0
          /\ broker[d] = "ready" => delivered[d] <= losses
          /\ delivered[d] <= 1 + losses
    /\ \A m \in Own : sender[m] # "routed" => \A g \in Groups : broker[<<g, m>>] = "absent"

Sound == TypeOK /\ Named /\ Counted

LEMMA AttemptParts ==
    ASSUME NEW a \in Attempts
    PROVE  /\ a[1] \in Groups /\ a[2] \in Messages /\ a[3] \in 1 .. MaxLosses + 1
           /\ a = <<a[1], a[2], a[3]>>
           /\ <<a[1], a[2]>> \in Groups \X Messages
  BY DEF Attempts

\* Whoever joins others moves them where it goes itself, and nobody else.
LEMMA Joining ==
    ASSUME NEW a \in Attempts, NEW alone, NEW others, NEW together,
           Join(a, alone, others, together)
    PROVE  /\ stage' = [b \in Attempts |-> stage'[b]]
           /\ stage'[a] \in {alone, together}
           /\ \A b \in Attempts \ {a} : \/ stage'[b] = stage[b]
                                        \/ b \in others /\ stage'[b] = together
  BY DEF Join

\* Where the look-up of a handler may go.
LEMMA LookingUp ==
    ASSUME Sound, NEW a \in Attempts, LookUpHandler(a)
    PROVE  /\ stage' = [b \in Attempts |-> stage'[b]]
           /\ \A b \in Attempts \ {a} : \/ stage'[b] = stage[b]
                                        \/ stage[b] \in Building /\ stage'[b] = "racing"
           /\ \/ stage'[a] = "faulted" /\ NameOf[a[2]] = NoName /\ using' = using
              \/ stage'[a] \in Building /\ NameOf[a[2]] # NoName /\ using' = using
              \/ /\ stage'[a] = "resolved" /\ NameOf[a[2]] # NoName
                 /\ handlerOf[NameOf[a[2]]] # NoGroup
                 /\ using' = [using EXCEPT ![a] = handlerOf[NameOf[a[2]]]]
<1>1. CASE NameOf[a[2]] # NoName /\ Join(a, "building", At(Building), "racing") /\ using' = using
  BY <1>1, Joining DEF At, Building
<1>2. CASE \/ NameOf[a[2]] = NoName /\ MoveTo(a, "faulted") /\ using' = using
           \/ /\ NameOf[a[2]] # NoName /\ handlerOf[NameOf[a[2]]] # NoGroup
              /\ using' = [using EXCEPT ![a] = handlerOf[NameOf[a[2]]]]
              /\ MoveTo(a, "resolved")
  BY <1>2 DEF MoveTo, Sound, TypeOK
<1>3. QED
  BY <1>1, <1>2 DEF LookUpHandler, Message

\* Where the pipeline may go.
LEMMA Transforming ==
    ASSUME Sound, NEW a \in Attempts, Transform(a)
    PROVE  /\ stage' = [b \in Attempts |-> stage'[b]]
           /\ \A b \in Attempts \ {a} : \/ stage'[b] = stage[b]
                                        \/ stage[b] \in Creating /\ stage'[b] = "contending"
           /\ \/ stage'[a] = "faulted" /\ a[2] \notin HasId /\ torn' = torn
              \/ stage'[a] \in Creating /\ Transforms(a) /\ torn' = torn
              \/ stage'[a] = "failing" /\ ~Transforms(a) /\ torn' = torn
              \/ stage'[a] = "failing" /\ torn' = torn \cup {a}
<1>1. ASSUME CreateStarts(a)
      PROVE  /\ stage' = [b \in Attempts |-> stage'[b]]
             /\ stage'[a] \in Creating
             /\ \A b \in Attempts \ {a} : \/ stage'[b] = stage[b]
                                          \/ stage[b] \in Creating /\ stage'[b] = "contending"
  <2>1. CASE Join(a, "fetching", At({"filling", "contending"}), "contending")
    BY <2>1, Joining DEF At, Creating
  <2>2. CASE Join(a, "filling", At(Creating), "contending")
    BY <2>2, Joining DEF At, Creating
  <2>3. QED
    BY <1>1, <2>1, <2>2 DEF CreateStarts
<1>2. CASE Transforms(a) /\ CreateStarts(a) /\ torn' = torn
  BY <1>1, <1>2
<1>3. CASE \/ a[2] \notin HasId /\ MoveTo(a, "faulted") /\ torn' = torn
           \/ ~Transforms(a) /\ MoveTo(a, "failing") /\ torn' = torn
           \/ MoveTo(a, "failing") /\ torn' = torn \cup {a}
  BY <1>3 DEF MoveTo, Sound, TypeOK
<1>4. QED
  BY <1>2, <1>3 DEF Transform, Message

LEMMA SoundInit == Init => Sound
  BY DeliveryAssumption
     DEF DeliveryAssumption, Init, Sound, TypeOK, Named, Counted, Stages, OnChannel, Pooled,
         Building, Creating

\* The steps of the sender, of the broker and of what may be lost.
LEMMA SoundOutside ==
    ASSUME Sound,
           \/ \E m \in Own : \/ Subscribe(m) \/ BasicPublish(m) \/ PublishThrows(m)
                             \/ Route(m) \/ LostOnWire(m)
           \/ \E m \in Messages : Arrive(m)
           \/ \E g \in Groups : ChannelLost(g) \/ Reopen(g)
           \/ Crash
           \/ UNCHANGED vars
    PROVE  Sound'
<1> USE DeliveryAssumption DEF DeliveryAssumption, Sound
<1>1. ASSUME NEW m \in Own, Subscribe(m) \/ BasicPublish(m) \/ PublishThrows(m) \/ LostOnWire(m)
      PROVE  Sound'
  <2>1. TypeOK'
    <3>1. UNCHANGED <<broker, open, delivered, stage, using, handlerOf, raced, cached, given, torn>>
      BY <1>1 DEF Subscribe, BasicPublish, PublishThrows, LostOnWire, listenVars, statics
    <3>2. /\ sender' \in [Own -> {"idle", "subscribed", "threw", "onWire", "routed", "lostOnWire"}]
          /\ outcome' \in [Own -> {"none", "pending", "confirmed", "rejected", "forgotten"}]
          /\ waiting' \subseteq Own
      BY <1>1 DEF Subscribe, BasicPublish, PublishThrows, LostOnWire, TypeOK
    <3>3. losses' \in 0 .. MaxLosses
      <4>1. losses' = losses \/ (losses < MaxLosses /\ losses' = losses + 1)
        BY <1>1 DEF Subscribe, BasicPublish, PublishThrows, LostOnWire, TypeOK
      <4>2. QED
        BY <4>1 DEF TypeOK
    <3>4. QED
      BY <3>1, <3>2, <3>3 DEF TypeOK
  <2>2. Named' /\ Counted'
    BY <1>1 DEF Subscribe, BasicPublish, PublishThrows, LostOnWire, TypeOK, listenVars, statics, Named, Counted
  <2>3. QED
    BY <2>1, <2>2
<1>2. ASSUME NEW m \in Messages,
             \/ m \in Own /\ Route(m)
             \/ Arrive(m)
      PROVE  Sound'
  <2>1. \A g \in Groups : broker[<<g, m>>] = "absent"
    BY <1>2 DEF Route, Arrive, Counted
  <2>2. /\ broker' = [d \in Groups \X Messages |->
                         IF d[2] = m /\ d[1] \in Bound[m] THEN "ready" ELSE broker[d]]
        /\ UNCHANGED <<waiting, outcome, listenVars, losses>>
        /\ sender' = sender \/ (m \in Own /\ sender' = [sender EXCEPT ![m] = "routed"])
        /\ m \notin Own \/ sender' = [sender EXCEPT ![m] = "routed"]
    BY <1>2 DEF Route, Arrive, Queue, senderVars
  <2>3. TypeOK'
    BY <2>2 DEF TypeOK, listenVars, statics
  <2>4. Named'
    BY <2>2 DEF listenVars, statics, Named
  <2>5. Counted'
    <3>1. ASSUME NEW d \in Groups \X Messages
          PROVE  /\ broker'[d] = "absent" => delivered[d] = 0
                 /\ broker'[d] = "ready" => delivered[d] <= losses
                 /\ delivered[d] <= 1 + losses
      <4>1. CASE d[2] = m
        <5>1. d = <<d[1], m>> /\ d[1] \in Groups
          BY <4>1
        <5>2. delivered[d] = 0
          BY <5>1, <2>1 DEF Counted
        <5>3. QED
          BY <5>2 DEF TypeOK
      <4>2. CASE d[2] # m
        BY <2>2, <4>2 DEF Counted
      <4>3. QED
        BY <4>1, <4>2
    <3>2. \A o \in Own : sender'[o] # "routed" => \A g \in Groups : broker'[<<g, o>>] = "absent"
      BY <2>2 DEF Counted, TypeOK
    <3>3. QED
      BY <3>1, <3>2, <2>2 DEF Counted, listenVars
  <2>6. QED
    BY <2>3, <2>4, <2>5
<1>3. ASSUME NEW gs \in SUBSET Groups, Requeue(gs), losses < MaxLosses, losses' = losses + 1,
             delivered' = delivered,
             \A m \in Own : sender[m] = "routed" <=> sender'[m] = "routed"
      PROVE  /\ broker' \in [Groups \X Messages -> {"absent", "ready", "unacked", "acked", "refused"}]
             /\ Counted' /\ losses' \in 0 .. MaxLosses
  BY <1>3 DEF Requeue, Counted, TypeOK
<1>4. ASSUME NEW g \in Groups, ChannelLost(g) PROVE Sound'
  <2>1. Counted' /\ losses' \in 0 .. MaxLosses
        /\ broker' \in [Groups \X Messages -> {"absent", "ready", "unacked", "acked", "refused"}]
    BY <1>3, <1>4 DEF ChannelLost, senderVars
  <2>2. TypeOK' /\ Named'
    BY <2>1, <1>4 DEF ChannelLost, TypeOK, Named, senderVars, statics
  <2>3. QED
    BY <2>1, <2>2
<1>5. ASSUME NEW g \in Groups, Reopen(g) PROVE Sound'
  BY <1>5 DEF Reopen, TypeOK, Named, Counted, senderVars, statics
<1>6. CASE Crash
  <2>1. Counted' /\ losses' \in 0 .. MaxLosses
        /\ broker' \in [Groups \X Messages -> {"absent", "ready", "unacked", "acked", "refused"}]
    BY <1>3, <1>6 DEF Crash, TypeOK
  <2>2. stage' \in [Attempts -> Stages]
        /\ \A a \in Attempts : stage'[a] \notin OnChannel \cup Pooled
    BY <1>6 DEF Crash, TypeOK, Stages, OnChannel, Pooled, Building, Creating
  <2>3. sender' \in [Own -> {"idle", "subscribed", "threw", "onWire", "routed", "lostOnWire"}]
        /\ outcome' \in [Own -> {"none", "pending", "confirmed", "rejected", "forgotten"}]
        /\ waiting' \subseteq Own
    BY <1>6 DEF Crash, TypeOK
  <2>4. TypeOK' /\ Named'
    BY <2>1, <2>2, <2>3, <1>6 DEF Crash, TypeOK, Named, OnChannel, Pooled, Building, Creating
  <2>5. QED
    BY <2>1, <2>4
<1>7. CASE UNCHANGED vars
  BY <1>7 DEF vars, senderVars, listenVars, statics, TypeOK, Named, Counted
<1>8. QED
  BY <1>1, <1>2, <1>4, <1>5, <1>6, <1>7

\* The steps of one attempt: each needs a stage and moves the attempt to another.
LEMMA SoundAttempt ==
    ASSUME Sound, NEW a \in Attempts, AttemptStep(a)
    PROVE  Sound'
<1> USE DeliveryAssumption, AttemptParts DEF DeliveryAssumption, Sound, MoveTo
<1> DEFINE d == <<a[1], a[2]>>
           Served == {"resolved", "failing", "transformed", "approved", "given"} \cup Creating
<1>1. CASE CastHeaderThrows(a) \/ LookUpHandler(a)
  <2>1. /\ stage' \in [Attempts -> Stages]
        /\ using' \in [Attempts -> Groups \cup {NoGroup}]
        /\ \A b \in Attempts : stage'[b] \in Served => using'[b] # NoGroup
        /\ \A b \in Attempts : stage'[b] \in Creating => stage[b] \in Creating /\ using'[b] = using[b]
        /\ \A b \in Attempts : stage'[b] \in Building => NameOf[b[2]] \in Names
    <3>1. CASE CastHeaderThrows(a)
      BY <3>1 DEF CastHeaderThrows, TypeOK, Named, Stages, Creating, Building
    <3>2. CASE LookUpHandler(a)
      <4>1. NameOf[a[2]] # NoName => handlerOf[NameOf[a[2]]] \in Groups \cup {NoGroup}
        BY DEF TypeOK
      <4>2. using' \in [Attempts -> Groups \cup {NoGroup}]
            /\ \A b \in Attempts \ {a} : using'[b] = using[b]
        BY <3>2, <4>1, LookingUp DEF TypeOK
      <4>3. stage' \in [Attempts -> Stages]
        <5>1. \A b \in Attempts : stage'[b] \in Stages
          BY <3>2, LookingUp DEF TypeOK, Stages, OnChannel, Pooled, Building
        <5>2. QED
          BY <3>2, <5>1, LookingUp
      <4>4. \A b \in Attempts \ {a} :
               /\ stage'[b] \in Served => using'[b] # NoGroup
               /\ stage'[b] \in Creating => stage[b] \in Creating /\ using'[b] = using[b]
               /\ stage'[b] \in Building => NameOf[b[2]] \in Names
        BY <3>2, <4>2, LookingUp DEF TypeOK, Named, Building, Creating
      <4>5. /\ stage'[a] \in Served => using'[a] # NoGroup
            /\ stage'[a] \notin Creating
            /\ stage'[a] \in Building => NameOf[a[2]] \in Names
        <5>1. using \in [Attempts -> Groups \cup {NoGroup}]
          BY DEF TypeOK
        <5>2. CASE stage'[a] = "faulted" \/ (stage'[a] \in Building /\ NameOf[a[2]] # NoName)
          BY <5>2 DEF Building, Creating
        <5>3. CASE stage'[a] = "resolved" /\ using'[a] # NoGroup
          BY <5>3 DEF Building, Creating
        <5>4. stage'[a] = "resolved" => using'[a] # NoGroup
          BY <3>2, <5>1, LookingUp DEF Building
        <5>5. \/ stage'[a] = "faulted"
              \/ stage'[a] \in Building /\ NameOf[a[2]] # NoName
              \/ stage'[a] = "resolved"
          BY <3>2, LookingUp
        <5>6. QED
          BY <5>2, <5>3, <5>4, <5>5
      <4>6. QED
        BY <4>2, <4>3, <4>4, <4>5
    <3>3. QED
      BY <1>1, <3>1, <3>2
  <2>2. UNCHANGED <<senderVars, broker, open, delivered, handlerOf, statics, given, torn, losses>>
    BY <1>1 DEF CastHeaderThrows, LookUpHandler
  <2>3. TypeOK'
    BY <2>1, <2>2 DEF TypeOK, senderVars, statics
  <2>4. Named' /\ Counted'
    BY <2>1, <2>2 DEF Named, Counted, senderVars
  <2>5. QED
    BY <2>3, <2>4
<1>2. CASE AddHandler(a)
  <2>1. NameOf[a[2]] \in Names
    BY <1>2 DEF AddHandler, Named
  <2>2. handlerOf' \in [Names -> Groups \cup {NoGroup}] /\ handlerOf'[NameOf[a[2]]] \in Groups
        /\ raced' \subseteq Names
    BY <1>2, <2>1 DEF AddHandler, Message, TypeOK
  <2>3. TypeOK'
    BY <1>2, <2>2 DEF AddHandler, Message, TypeOK, Stages, OnChannel, Pooled, senderVars
  <2>4. Named' /\ Counted'
    BY <1>2 DEF AddHandler, TypeOK, Named, Counted, senderVars, Building, Creating
  <2>5. QED
    BY <2>3, <2>4
<1>3. CASE Transform(a)
  <2>1. /\ stage[a] = "resolved" /\ using[a] \in Groups
        /\ UNCHANGED <<senderVars, broker, open, delivered, using, handlerOf, statics, given, losses>>
    BY <1>3 DEF Transform, TypeOK
  <2>2. stage' \in [Attempts -> Stages]
    <3>1. \A b \in Attempts : stage'[b] \in Stages
      BY <1>3, Transforming DEF TypeOK, Stages, OnChannel, Pooled, Creating
    <3>2. QED
      BY <1>3, <3>1, Transforming
  <2>3. \A b \in Attempts : stage'[b] \in Served => using'[b] # NoGroup
    BY <1>3, <2>1, Transforming DEF TypeOK
  <2>4. torn' \subseteq Attempts
    BY <1>3, Transforming DEF TypeOK
  <2>5. TypeOK'
    BY <2>1, <2>2, <2>3, <2>4 DEF TypeOK, senderVars, statics
  <2>6. Named'
    <3>1. Transforms(a) => NameOf[a[2]] \in DOMAIN HandledBy[using[a]]
      BY DEF Transforms, Message
    <3>2. \A b \in Attempts : stage'[b] \in Building => stage[b] \in Building
      BY <1>3, Transforming DEF Building, Creating
    <3>3. \A b \in Attempts : stage'[b] \in Creating => \/ stage[b] \in Creating
                                                        \/ b = a /\ Transforms(a)
      BY <1>3, Transforming DEF Creating
    <3>4. QED
      BY <2>1, <3>1, <3>2, <3>3 DEF Named
  <2>7. Counted'
    BY <2>1 DEF Counted, senderVars
  <2>8. QED
    BY <2>5, <2>6, <2>7
<1>8. CASE Overflow(a)
  BY <1>8, SoundOutside DEF Overflow
<1>9. CASE Create(a) \/ CreateThrows(a)
  <2>1. TypeOf(a) \in Types
    BY <1>9 DEF Create, CreateThrows, TypeOK, Named, TypeOf, Message, Creating
  <2>2. cached' \subseteq Types /\ torn' \subseteq Attempts
    BY <1>9, <2>1 DEF Create, CreateThrows, TypeOK
  <2>3. TypeOK'
    BY <1>9, <2>2 DEF Create, CreateThrows, TypeOK, Stages, Pooled, Creating, senderVars
  <2>4. Named' /\ Counted'
    BY <1>9 DEF Create, CreateThrows, TypeOK, Named, Counted, Building, Creating, senderVars
  <2>5. QED
    BY <2>3, <2>4
<1>4. CASE Approve(a) \/ Reject(a)
  <2>1. waiting' \subseteq Own
        /\ outcome' \in [Own -> {"none", "pending", "confirmed", "rejected", "forgotten"}]
    BY <1>4 DEF Approve, Reject, Settle, TypeOK
  <2>2. /\ stage' \in [Attempts -> Stages]
        /\ \A b \in Attempts : stage'[b] \in Served => using'[b] # NoGroup
    <3>1. CASE Approve(a)
      BY <3>1 DEF Approve, TypeOK, Stages, OnChannel, Pooled, Creating
    <3>2. CASE Reject(a)
      BY <3>2 DEF Reject, TypeOK, Stages, OnChannel, Pooled, Creating
    <3>3. QED
      BY <1>4, <3>1, <3>2
  <2>3. TypeOK'
    BY <1>4, <2>1, <2>2 DEF Approve, Reject, TypeOK, statics
  <2>4. Named' /\ Counted'
    BY <1>4 DEF Approve, Reject, TypeOK, Named, Counted, Building, Creating
  <2>5. QED
    BY <2>3, <2>4
<1>5. CASE OnFailed(a) \/ BasicAck(a)
  <2>1. \/ broker' = broker
        \/ broker' = [broker EXCEPT ![d] = "refused"] /\ broker[d] = "unacked"
        \/ broker' = [broker EXCEPT ![d] = "acked"] /\ broker[d] = "unacked"
    BY <1>5 DEF OnFailed, BasicAck, Answerable
  <2>2. TypeOK'
    <3>1. broker' \in [Groups \X Messages -> {"absent", "ready", "unacked", "acked", "refused"}]
      <4>1. broker \in [Groups \X Messages -> {"absent", "ready", "unacked", "acked", "refused"}]
        BY DEF TypeOK
      <4>2. QED
        BY <2>1, <4>1
    <3>2. \E s \in {"nacked", "late", "acknowledged"} : stage' = [stage EXCEPT ![a] = s]
      BY <1>5 DEF OnFailed, BasicAck
    <3>3. /\ stage' \in [Attempts -> Stages]
          /\ \A b \in Attempts :
                stage'[b] \in Served => using[b] # NoGroup
      BY <3>2 DEF TypeOK, Stages, Creating
    <3>4. QED
      BY <1>5, <3>1, <3>3 DEF OnFailed, BasicAck, TypeOK, senderVars, statics
  <2>3. Named'
    <3>1. using' = using /\ \A b \in Attempts : stage'[b] \in Building \cup Creating => stage'[b] = stage[b]
      BY <1>5 DEF OnFailed, BasicAck, TypeOK, Building, Creating
    <3>2. QED
      BY <3>1 DEF Named
  <2>4. delivered' = delivered /\ losses' = losses /\ sender' = sender
    BY <1>5 DEF OnFailed, BasicAck, senderVars
  <2>5. Counted'
    <3>1. \A e \in Groups \X Messages : broker'[e] \in {"absent", "ready"} => broker'[e] = broker[e]
      BY <2>1 DEF TypeOK
    <3>2. \A e \in Groups \X Messages : broker[e] = "absent" => broker'[e] = "absent"
      BY <2>1 DEF TypeOK
    <3>3. QED
      BY <2>4, <3>1, <3>2 DEF Counted
  <2>6. QED
    BY <2>2, <2>3, <2>5
<1>6. CASE MessageProcessed(a)
  <2>1. TypeOK'
    BY <1>6 DEF MessageProcessed, TypeOK, Stages, OnChannel, Pooled, Creating, senderVars, statics
  <2>2. Named' /\ Counted'
    BY <1>6 DEF MessageProcessed, TypeOK, Named, Counted, Building, Creating, senderVars
  <2>3. QED
    BY <2>1, <2>2
<1>7. QED
  BY <1>1, <1>2, <1>3, <1>4, <1>5, <1>6, <1>8, <1>9 DEF AttemptStep

\* A ready message was delivered at most as often as there were losses, so its next
\* delivery is within the bound.
LEMMA SoundDeliver ==
    ASSUME Sound, NEW g \in Groups, NEW m \in Messages, Deliver(g, m)
    PROVE  Sound'
<1> USE DeliveryAssumption DEF DeliveryAssumption, Sound
<1>1. /\ broker[<<g, m>>] = "ready" /\ delivered[<<g, m>>] \in Nat
      /\ losses \in Nat /\ losses <= MaxLosses
      /\ <<g, m>> \in Groups \X Messages
  BY DEF Deliver, TypeOK
<1>2. delivered[<<g, m>>] <= losses
  BY <1>1 DEF Counted
<1>3. <<g, m, delivered[<<g, m>>] + 1>> \in Attempts
  BY <1>1, <1>2 DEF Attempts
<1>4. TypeOK'
  BY <1>1, <1>2, <1>3 DEF Deliver, TypeOK, Stages, OnChannel, Creating, senderVars, statics
<1>5. Named'
  BY <1>3 DEF Deliver, TypeOK, Named, Building, Creating
<1>6. Counted'
  <2>1. \A d \in Groups \X Messages :
           /\ broker'[d] = "absent" => delivered'[d] = 0
           /\ broker'[d] = "ready" => delivered'[d] <= losses
           /\ delivered'[d] <= 1 + losses
    BY <1>1, <1>2 DEF Deliver, TypeOK, Counted
  <2>2. \A o \in Own : sender'[o] # "routed" => \A h \in Groups : broker'[<<h, o>>] = "absent"
    BY <1>1 DEF Deliver, TypeOK, Counted, senderVars
  <2>3. losses' = losses
    BY DEF Deliver
  <2>4. QED
    BY <2>1, <2>2, <2>3 DEF Counted
<1>7. QED
  BY <1>4, <1>5, <1>6

LEMMA SoundStep == Sound /\ [Next]_vars => Sound'
  BY SoundOutside, SoundDeliver, SoundAttempt DEF Next

\* Every variable keeps its type, and an attempt past the look-up has a handler to run
\* (EventTypeBasedHandler.cs:33-47), for any groups, messages and losses.
THEOREM TypeCorrect == SafetySpec => []TypeOK
<1>1. Sound => TypeOK
  BY DEF Sound
<1>2. QED
  BY SoundInit, SoundStep, <1>1, PTL DEF SafetySpec

\* However many channels and processes are lost, a message comes at most once more often
\* than that: what cannot be processed does not go round (RmqMessageConsumer.cs:130).
THEOREM OnlyLossesRepeat == SafetySpec => []NoPoisonLoop
<1>1. Sound => NoPoisonLoop
  BY DEF Sound, Counted, NoPoisonLoop
<1>2. QED
  BY SoundInit, SoundStep, <1>1, PTL DEF SafetySpec
-----------------------------------------------------------------------------
\* An attempt that has not been made yet is nowhere.
Fresh == \A a \in Attempts : stage[a] # "none" => a[3] <= delivered[<<a[1], a[2]>>]

LEMMA FreshInit == Init => Fresh
  BY DEF Init, Fresh

LEMMA FreshStep == Sound /\ Fresh /\ [Next]_vars => Fresh'
<1> SUFFICES ASSUME Sound, Fresh, [Next]_vars PROVE Fresh'
  OBVIOUS
<1> USE AttemptParts DEF Fresh, Sound, TypeOK
<1>1. ASSUME NEW g \in Groups, NEW m \in Messages, Deliver(g, m) PROVE Fresh'
  <2>1. \A d \in Groups \X Messages : delivered'[d] \in Nat /\ delivered[d] <= delivered'[d]
    <3>1. delivered \in [Groups \X Messages -> Nat]
      BY DeliveryAssumption DEF DeliveryAssumption
    <3>2. delivered' = [delivered EXCEPT ![<<g, m>>] = @ + 1] /\ <<g, m>> \in Groups \X Messages
      BY <1>1 DEF Deliver
    <3>3. ASSUME NEW d \in Groups \X Messages PROVE delivered'[d] \in Nat /\ delivered[d] <= delivered'[d]
      <4>1. delivered'[d] = delivered[d] \/ delivered'[d] = delivered[d] + 1
        BY <3>1, <3>2
      <4>2. delivered[d] \in Nat
        BY <3>1
      <4>3. QED
        BY <4>1, <4>2
    <3>4. QED
      BY <3>3
  <2>2. delivered'[<<g, m>>] = delivered[<<g, m>>] + 1
    BY <1>1 DEF Deliver
  <2>3. ASSUME NEW a \in Attempts, stage'[a] # "none" PROVE a[3] <= delivered'[<<a[1], a[2]>>]
    <3>1. CASE a = <<g, m, delivered[<<g, m>>] + 1>>
      BY <2>2, <3>1
    <3>2. CASE a # <<g, m, delivered[<<g, m>>] + 1>>
      <4>1. a[3] <= delivered[<<a[1], a[2]>>]
        BY <1>1, <2>3, <3>2 DEF Deliver
      <4>2. QED
        BY <2>1, <4>1
    <3>3. QED
      BY <3>1, <3>2
  <2>4. QED
    BY <2>3
<1>2. ASSUME NEW a \in Attempts, AttemptStep(a), ~Overflow(a) PROVE Fresh'
  <2>1. stage[a] # "none" /\ delivered' = delivered
    BY <1>2 DEF AttemptStep, CastHeaderThrows, LookUpHandler, AddHandler, Transform, Create,
                CreateThrows, Approve, Reject, OnFailed, MessageProcessed, BasicAck, Building, Creating
  <2>2. \A b \in Attempts \ {a} : stage'[b] # "none" => stage[b] # "none"
    <3>1. CASE LookUpHandler(a)
      BY <3>1, LookingUp DEF Building
    <3>2. CASE Transform(a)
      BY <3>2, Transforming DEF Creating
    <3>3. CASE \/ CastHeaderThrows(a) \/ AddHandler(a) \/ Create(a) \/ CreateThrows(a)
               \/ Approve(a) \/ Reject(a) \/ OnFailed(a) \/ MessageProcessed(a) \/ BasicAck(a)
      BY <3>3 DEF CastHeaderThrows, AddHandler, Create, CreateThrows, Approve,
                  Reject, OnFailed, MessageProcessed, BasicAck, MoveTo
    <3>4. QED
      BY <1>2, <3>1, <3>2, <3>3 DEF AttemptStep
  <2>3. QED
    BY <2>1, <2>2
<1>3. CASE Crash \/ \E a \in Attempts : Overflow(a)
  <2>1. \A a \in Attempts : stage'[a] # "none" => stage[a] # "none"
    <3>1. Crash
      BY <1>3 DEF Overflow
    <3>2. "none" \notin OnChannel \cup Pooled \cup {"stuck", "uncast"}
      BY DEF OnChannel, Pooled, Building, Creating
    <3>3. \A a \in Attempts : stage'[a] = stage[a]
                             \/ stage[a] \in OnChannel \cup Pooled \cup {"stuck", "uncast"}
      BY <3>1 DEF Crash
    <3>4. QED
      BY <3>2, <3>3
  <2>2. QED
    BY <1>3, <2>1 DEF Overflow, Crash
<1>4. CASE \/ \E m \in Own : \/ Subscribe(m) \/ BasicPublish(m) \/ PublishThrows(m)
                             \/ Route(m) \/ LostOnWire(m)
           \/ \E m \in Messages : Arrive(m)
           \/ \E g \in Groups : ChannelLost(g) \/ Reopen(g)
           \/ UNCHANGED vars
  BY <1>4 DEF Subscribe, BasicPublish, PublishThrows, Route, LostOnWire, Arrive, ChannelLost,
              Reopen, vars, listenVars
<1>5. QED
  BY <1>1, <1>2, <1>3, <1>4 DEF Next

\* A delivery takes an attempt that was nowhere.
LEMMA DeliverTakesNew ==
    ASSUME Sound, Fresh, NEW g \in Groups, NEW m \in Messages, Deliver(g, m)
    PROVE  \E a \in Attempts : /\ a[1] = g /\ a[2] = m /\ stage[a] = "none"
                               /\ stage' = [stage EXCEPT ![a] = "received"]
<1> DEFINE a == <<g, m, delivered[<<g, m>>] + 1>>
<1>1. /\ delivered[<<g, m>>] \in Nat /\ delivered[<<g, m>>] <= losses
      /\ losses \in Nat /\ losses <= MaxLosses /\ MaxLosses \in Nat
  BY DeliveryAssumption DEF DeliveryAssumption, Deliver, Sound, TypeOK, Counted
<1>2. a \in Attempts
  BY <1>1 DEF Attempts
<1>3. stage[a] = "none"
  BY <1>1, <1>2 DEF Fresh
<1>4. QED
  BY <1>2, <1>3 DEF Deliver

Answers == Sound /\ Fresh /\ ConfirmationReachable

\* A publisher that still waits has its confirmation in the dictionary, and one that was
\* answered was answered by an attempt that had the message, through every crash, lost
\* channel and second delivery (MessageConfirmationDispatcher.cs:20,33,39).
THEOREM PublisherIsReachable == SafetySpec => []ConfirmationReachable
<1>1. Init => Answers
  BY SoundInit, FreshInit DEF Init, Answers, ConfirmationReachable
<1>2. Answers /\ [Next]_vars => Answers'
  <2> SUFFICES ASSUME Answers, [Next]_vars PROVE ConfirmationReachable'
    BY SoundStep, FreshStep DEF Answers
  <2> USE AttemptParts DEF Answers, ConfirmationReachable, Sound, TypeOK
  <2> DEFINE Had == {"approved", "given", "acknowledged", "late"}
  \* no attempt that had a message is forgotten, but by a crash
  <2>1. ASSUME UNCHANGED <<waiting, outcome>>,
               \A a \in Attempts : stage[a] \in Had => stage'[a] \in Had,
               \A a \in Attempts : stage[a] = "stuck" => stage'[a] = "stuck"
        PROVE  ConfirmationReachable'
    BY <2>1
  <2>2. ASSUME NEW m \in Own, Subscribe(m) \/ PublishThrows(m) PROVE ConfirmationReachable'
    BY <2>2 DEF Subscribe, PublishThrows, listenVars
  <2>3. CASE \/ \E m \in Own : BasicPublish(m) \/ Route(m) \/ LostOnWire(m)
             \/ \E m \in Messages : Arrive(m)
             \/ \E g \in Groups : ChannelLost(g) \/ Reopen(g)
             \/ UNCHANGED vars
    <3>1. UNCHANGED <<waiting, outcome, stage>>
      BY <2>3 DEF BasicPublish, Route, LostOnWire, Arrive, ChannelLost, Reopen, vars,
                  senderVars, listenVars
    <3>2. QED
      BY <2>1, <3>1
  <2>4. CASE Crash \/ \E a \in Attempts : Overflow(a)
    BY <2>4 DEF Overflow, Crash
  <2>5. ASSUME NEW g \in Groups, NEW m \in Messages, Deliver(g, m) PROVE ConfirmationReachable'
    <3>1. PICK a \in Attempts : stage[a] = "none" /\ stage' = [stage EXCEPT ![a] = "received"]
      BY <2>5, DeliverTakesNew
    <3>2. UNCHANGED <<waiting, outcome>>
      BY <2>5 DEF Deliver, senderVars
    <3>3. \A b \in Attempts : stage[b] # "none" => stage'[b] = stage[b]
      BY <3>1
    <3>4. QED
      BY <2>1, <3>2, <3>3
  <2>6. ASSUME NEW a \in Attempts, Approve(a) \/ Reject(a) PROVE ConfirmationReachable'
    <3>1. \E r \in {"confirmed", "rejected"} :
             /\ Settle(a[2], r)
             /\ stage' = [stage EXCEPT ![a] = IF r = "confirmed" THEN "approved" ELSE "stuck"]
      BY <2>6 DEF Approve, Reject, Message, MoveTo
    <3>2. stage[a] \in {"transformed", "failing"}
      BY <2>6 DEF Approve, Reject
    <3>3. /\ \A b \in Attempts : stage[b] \in Had => stage'[b] \in Had
          /\ \A b \in Attempts : stage[b] = "stuck" => stage'[b] = "stuck"
      BY <3>1, <3>2
    <3>4. \A m \in Own :
             /\ outcome'[m] = "pending" <=> m \in waiting'
             /\ \/ outcome'[m] = outcome[m]
                \/ a[2] = m /\ outcome'[m] = "confirmed" /\ stage'[a] = "approved"
                \/ a[2] = m /\ outcome'[m] = "rejected" /\ stage'[a] = "stuck"
      BY <3>1 DEF Settle
    <3>5. QED
      BY <3>3, <3>4
  <2>7. ASSUME NEW a \in Attempts, \/ CastHeaderThrows(a) \/ LookUpHandler(a) \/ AddHandler(a)
                                   \/ Transform(a) \/ Create(a) \/ CreateThrows(a)
                                   \/ OnFailed(a) \/ MessageProcessed(a) \/ BasicAck(a)
        PROVE  ConfirmationReachable'
    <3>1. UNCHANGED <<waiting, outcome>>
      BY <2>7 DEF CastHeaderThrows, LookUpHandler, AddHandler, Transform, Create, CreateThrows,
                  OnFailed, MessageProcessed, BasicAck, senderVars
    <3>2. \/ /\ stage[a] \in {"received", "resolved", "faulted"} \cup Building \cup Creating
             /\ \A b \in Attempts \ {a} : stage'[b] = stage[b] \/ stage[b] \in Building \cup Creating
          \/ \E s \in Had : stage[a] \in Had /\ stage' = [stage EXCEPT ![a] = s]
      <4>1. CASE LookUpHandler(a)
        BY <4>1, LookingUp DEF LookUpHandler
      <4>2. CASE Transform(a)
        BY <4>2, Transforming DEF Transform
      <4>3. CASE \/ CastHeaderThrows(a) \/ AddHandler(a) \/ Create(a) \/ CreateThrows(a)
                 \/ OnFailed(a) \/ MessageProcessed(a) \/ BasicAck(a)
        BY <4>3 DEF CastHeaderThrows, AddHandler, Create, CreateThrows, OnFailed,
                    MessageProcessed, BasicAck, MoveTo, Creating
      <4>4. QED
        BY <2>7, <4>1, <4>2, <4>3
    <3>3. /\ \A b \in Attempts : stage[b] \in Had => stage'[b] \in Had
          /\ \A b \in Attempts : stage[b] = "stuck" => stage'[b] = "stuck"
      <4>1. CASE /\ stage[a] \in {"received", "resolved", "faulted"} \cup Building \cup Creating
                 /\ \A b \in Attempts \ {a} : stage'[b] = stage[b] \/ stage[b] \in Building \cup Creating
        BY <4>1 DEF Building, Creating
      <4>2. CASE \E s \in Had : stage[a] \in Had /\ stage' = [stage EXCEPT ![a] = s]
        BY <4>2
      <4>3. QED
        BY <3>2, <4>1, <4>2
    <3>4. QED
      BY <2>1, <3>1, <3>3
  <2>8. QED
    BY <2>2, <2>3, <2>4, <2>5, <2>6, <2>7 DEF Next, AttemptStep
<1>3. Answers => ConfirmationReachable
  BY DEF Answers
<1>4. QED
  BY <1>1, <1>2, <1>3, PTL DEF SafetySpec
-----------------------------------------------------------------------------
\* An attempt about to acknowledge its message has given it to the event handling, and
\* one about to refuse it met a message without its headers.
Truthful ==
    \A a \in Attempts :
        /\ stage[a] = "given" => <<a[1], a[2]>> \in given
        /\ stage[a] = "faulted" => <<a[1], a[2]>> \in Unreadable

Truth == Sound /\ Fresh /\ Truthful

LEMMA TruthInvariant == SafetySpec => []Truth
<1>1. Init => Truth
  BY SoundInit, FreshInit DEF Init, Truth, Truthful
<1>2. Truth /\ [Next]_vars => Truth'
  <2> SUFFICES ASSUME Truth, [Next]_vars PROVE Truthful'
    BY SoundStep, FreshStep DEF Truth
  <2> USE AttemptParts DEF Truth, Sound, TypeOK, Truthful
  <2>1. ASSUME given' = given,
               \A a \in Attempts : stage'[a] \in {"given", "faulted"} => stage'[a] = stage[a]
        PROVE  Truthful'
    BY <2>1 DEF Unreadable
  <2>2. CASE \/ \E m \in Own : \/ Subscribe(m) \/ BasicPublish(m) \/ PublishThrows(m)
                               \/ Route(m) \/ LostOnWire(m)
             \/ \E m \in Messages : Arrive(m)
             \/ \E g \in Groups : ChannelLost(g) \/ Reopen(g)
             \/ UNCHANGED vars
    <3>1. UNCHANGED <<given, stage>>
      BY <2>2 DEF Subscribe, BasicPublish, PublishThrows, Route, LostOnWire, Arrive,
                  ChannelLost, Reopen, vars, listenVars
    <3>2. QED
      BY <2>1, <3>1
  <2>3. CASE Crash \/ \E a \in Attempts : Overflow(a)
    <3>1. Crash
      BY <2>3 DEF Overflow
    <3>2. \A a \in Attempts : stage'[a] \in {"given", "faulted"} => stage'[a] = stage[a]
      BY <3>1 DEF Crash
    <3>3. QED
      BY <2>1, <3>1, <3>2 DEF Crash
  <2>4. ASSUME NEW g \in Groups, NEW m \in Messages, Deliver(g, m) PROVE Truthful'
    <3>1. PICK a \in Attempts : stage' = [stage EXCEPT ![a] = "received"]
      BY <2>4, DeliverTakesNew
    <3>2. QED
      BY <2>1, <2>4, <3>1 DEF Deliver
  <2>5. ASSUME NEW a \in Attempts, LookUpHandler(a) \/ Transform(a) PROVE Truthful'
    <3>1. /\ given' = given
          /\ \A b \in Attempts \ {a} : stage'[b] \in {"given", "faulted"} => stage'[b] = stage[b]
      BY <2>5, LookingUp, Transforming DEF LookUpHandler, Transform
    <3>2. stage'[a] = "faulted" => <<a[1], a[2]>> \in Unreadable
      BY <2>5, LookingUp, Transforming DEF Unreadable, Building, Creating
    <3>3. stage'[a] # "given"
      BY <2>5, LookingUp, Transforming DEF Building, Creating
    <3>4. QED
      BY <3>1, <3>2, <3>3 DEF Unreadable
  <2>6. ASSUME NEW a \in Attempts, MessageProcessed(a) PROVE Truthful'
    BY <2>6 DEF MessageProcessed, MoveTo, Unreadable
  <2>7. ASSUME NEW a \in Attempts, \/ CastHeaderThrows(a) \/ AddHandler(a) \/ Create(a)
                                   \/ CreateThrows(a) \/ Approve(a) \/ Reject(a)
                                   \/ OnFailed(a) \/ BasicAck(a)
        PROVE  Truthful'
    <3>1. given' = given
      BY <2>7 DEF CastHeaderThrows, AddHandler, Create, CreateThrows, Approve, Reject, OnFailed, BasicAck
    <3>2. \E s \in {"uncast", "resolved", "transformed", "failing", "approved", "stuck", "nacked",
                    "late", "acknowledged"} : stage' = [stage EXCEPT ![a] = s]
      BY <2>7 DEF CastHeaderThrows, AddHandler, Create, CreateThrows, Approve, Reject, OnFailed,
                  BasicAck, MoveTo
    <3>3. QED
      BY <2>1, <3>1, <3>2
  <2>8. QED
    BY <2>2, <2>3, <2>4, <2>5, <2>6, <2>7 DEF Next, AttemptStep
<1>3. QED
  BY <1>1, <1>2, PTL DEF SafetySpec

\* Delivery implements AtLeastOnce: whatever is lost and whichever answer comes too late,
\* the broker is told to forget a delivery only when the event handling has it or a header
\* is missing (RmqMessageConsumer.cs:130-136).
THEOREM Implements == SafetySpec => KeptUntilGiven
<1> DEFINE owed == Held({"ready", "unacked"})
           closed == Held({"acked", "refused"})
<1>1. Init => Promise!Init
  BY DEF Init, Promise!Init, Held
<1>2. Truth /\ [Next]_vars => [Promise!Next]_(Promise!vars)
  <2> SUFFICES ASSUME Truth, [Next]_vars
               PROVE  Promise!Next \/ UNCHANGED <<owed, given, closed>>
    BY DEF Promise!vars
  <2> USE AttemptParts DEF Truth, Sound, TypeOK
  <2>1. ASSUME given' = given,
               \A d \in Groups \X Messages :
                  \/ broker'[d] = broker[d]
                  \/ broker[d] \in {"ready", "unacked"} /\ broker'[d] \in {"ready", "unacked"}
        PROVE  UNCHANGED <<owed, given, closed>>
    BY <2>1 DEF Held
  <2>2. CASE \/ \E m \in Own : Subscribe(m) \/ BasicPublish(m) \/ PublishThrows(m) \/ LostOnWire(m)
             \/ \E g \in Groups : Reopen(g)
             \/ UNCHANGED vars
    BY <2>1, <2>2 DEF Subscribe, BasicPublish, PublishThrows, LostOnWire, Reopen, vars, listenVars
  <2>3. ASSUME NEW gs \in SUBSET Groups, Requeue(gs), given' = given
        PROVE  UNCHANGED <<owed, given, closed>>
    BY <2>1, <2>3 DEF Requeue
  <2>4. CASE Crash \/ (\E a \in Attempts : Overflow(a)) \/ \E g \in Groups : ChannelLost(g)
    BY <2>3, <2>4 DEF Overflow, Crash, ChannelLost
  <2>5. ASSUME NEW g \in Groups, NEW m \in Messages, Deliver(g, m)
        PROVE  UNCHANGED <<owed, given, closed>>
    <3>1. given' = given
      BY <2>5 DEF Deliver
    <3>2. broker[<<g, m>>] = "ready" /\ broker' = [broker EXCEPT ![<<g, m>>] = "unacked"]
      BY <2>5 DEF Deliver
    <3>3. QED
      BY <2>1, <3>1, <3>2
  <2>6. ASSUME NEW m \in Messages, (m \in Own /\ Route(m)) \/ Arrive(m)
        PROVE  Promise!Offer({d \in Groups \X Messages : d[2] = m /\ d[1] \in Bound[m]})
    <3> DEFINE ds == {d \in Groups \X Messages : d[2] = m /\ d[1] \in Bound[m]}
    <3>1. Queue(m) /\ given' = given
      BY <2>6 DEF Route, Arrive, listenVars
    <3>2. \A d \in ds : broker[d] = "absent"
      <4>1. \A g \in Groups : broker[<<g, m>>] = "absent"
        BY <2>6 DEF Route, Arrive, Counted
      <4>2. QED
        BY <4>1
    <3>3. owed' = owed \cup ds /\ closed' = closed
      BY <3>1, <3>2 DEF Queue, Held
    <3>4. ds \cap (owed \cup closed) = {}
      BY <3>2 DEF Held
    <3>5. QED
      BY <3>1, <3>3, <3>4 DEF Promise!Offer
  <2>7. ASSUME NEW a \in Attempts, MessageProcessed(a) PROVE Promise!Give(<<a[1], a[2]>>)
    <3>1. delivered[<<a[1], a[2]>>] # 0
      BY <2>7 DEF MessageProcessed, Fresh
    <3>2. <<a[1], a[2]>> \in owed \cup closed
      BY <3>1 DEF Counted, Held
    <3>3. UNCHANGED <<owed, closed>>
      BY <2>7 DEF MessageProcessed, Held
    <3>4. QED
      BY <2>7, <3>2, <3>3 DEF MessageProcessed, Promise!Give
  <2>8. ASSUME NEW a \in Attempts, OnFailed(a) \/ BasicAck(a)
        PROVE  Promise!Close(<<a[1], a[2]>>) \/ UNCHANGED <<owed, given, closed>>
    <3> DEFINE e == <<a[1], a[2]>>
    <3>1. given' = given
      BY <2>8 DEF OnFailed, BasicAck
    <3>2. CASE broker' = broker
      BY <2>1, <3>1, <3>2
    <3>3. CASE /\ broker[e] = "unacked"
               /\ \E s \in {"acked", "refused"} : broker' = [broker EXCEPT ![e] = s]
      <4>1. e \in owed /\ owed' = owed \ {e} /\ closed' = closed \cup {e}
        BY <3>3 DEF Held
      <4>2. e \in given \cup Unreadable
        BY <2>8 DEF OnFailed, BasicAck, Truthful
      <4>3. QED
        BY <3>1, <4>1, <4>2 DEF Promise!Close
    <3>4. QED
      BY <2>8, <3>2, <3>3 DEF OnFailed, BasicAck, Answerable
  <2>9. ASSUME NEW a \in Attempts, \/ CastHeaderThrows(a) \/ LookUpHandler(a) \/ AddHandler(a)
                                   \/ Transform(a) \/ Create(a) \/ CreateThrows(a)
                                   \/ Approve(a) \/ Reject(a)
        PROVE  UNCHANGED <<owed, given, closed>>
    <3>1. UNCHANGED <<broker, given>>
      BY <2>9 DEF CastHeaderThrows, LookUpHandler, AddHandler, Transform, Create, CreateThrows,
                  Approve, Reject
    <3>2. QED
      BY <2>1, <3>1
  <2>10. \A m \in Messages :
            {d \in Groups \X Messages : d[2] = m /\ d[1] \in Bound[m]} \in SUBSET (Groups \X Messages)
    OBVIOUS
  <2>11. QED
    BY <2>2, <2>4, <2>5, <2>6, <2>7, <2>8, <2>9, <2>10, DeliveryAssumption
       DEF DeliveryAssumption, Next, AttemptStep, Promise!Next
<1>3. QED
  BY <1>1, <1>2, TruthInvariant, PTL DEF SafetySpec, KeptUntilGiven, Promise!Spec
-----------------------------------------------------------------------------
\* The groups take an event name for one type, and a queue is bound to the names that its
\* group handles only.
Agreement ==
    /\ \A g, h \in Groups : \A n \in DOMAIN HandledBy[g] \cap DOMAIN HandledBy[h] :
          HandledBy[g][n] = HandledBy[h][n]
    /\ \A m \in Messages : \A g \in Bound[m] : NameOf[m] \in DOMAIN HandledBy[g] \cup {NoName}

\* Then every dictionary that a handler captured knows the name it was captured for.
Shared ==
    /\ \A d \in Groups \X Messages : broker[d] # "absent" => d[1] \in Bound[d[2]]
    /\ \A n \in Names : handlerOf[n] # NoGroup => n \in DOMAIN HandledBy[handlerOf[n]]
    /\ \A a \in Attempts : using[a] # NoGroup => NameOf[a[2]] \in DOMAIN HandledBy[using[a]]
    /\ GoodIsNeverTurnedAway

Welcome == Agreement /\ Sound /\ Fresh /\ Shared

\* Where the groups agree, no good message is turned away by the handler that another group
\* built, nor because another group confirmed it first (EventTypeBasedHandler.cs:33-39,
\* ErrorBoundaryHandler.cs:43); only what other attempts do meanwhile to the static builder and
\* to the static constructors can do that (BasePipelineBuilder.cs:23-28, TypeExtensions.cs:98,151).
THEOREM SharingIsHarmless == Agreement /\ SafetySpec => []GoodIsNeverTurnedAway
<1>1. Agreement /\ Init => Welcome
  BY SoundInit, FreshInit, DeliveryAssumption
     DEF DeliveryAssumption, Init, Welcome, Shared, GoodIsNeverTurnedAway
<1>2. Welcome /\ [Next]_vars => Welcome'
  <2> SUFFICES ASSUME Welcome, [Next]_vars PROVE Shared'
    BY SoundStep, FreshStep DEF Welcome, Agreement
  <2> USE AttemptParts DEF Welcome, Sound, TypeOK, Shared, GoodIsNeverTurnedAway
  <2> DEFINE Away == {"failing", "faulted", "stuck", "nacked"}
  <2>1. ASSUME UNCHANGED <<using, handlerOf, torn>>,
               \A d \in Groups \X Messages : broker[d] = "absent" => broker'[d] = "absent",
               \A a \in Attempts \ torn : Good(a[1], a[2]) /\ stage'[a] \in Away => stage[a] \in Away
        PROVE  Shared'
    BY <2>1 DEF Good
  <2>2. CASE \/ \E m \in Own : Subscribe(m) \/ BasicPublish(m) \/ PublishThrows(m) \/ LostOnWire(m)
             \/ \E g \in Groups : ChannelLost(g) \/ Reopen(g)
             \/ UNCHANGED vars
    <3>1. UNCHANGED <<using, handlerOf, torn, stage>>
      BY <2>2 DEF Subscribe, BasicPublish, PublishThrows, LostOnWire, ChannelLost, Reopen,
                  vars, listenVars
    <3>2. \A d \in Groups \X Messages : broker[d] = "absent" => broker'[d] = "absent"
      BY <2>2 DEF Subscribe, BasicPublish, PublishThrows, LostOnWire, ChannelLost, Reopen,
                  Requeue, vars
    <3>3. QED
      BY <2>1, <3>1, <3>2
  <2>3. ASSUME NEW m \in Messages, (m \in Own /\ Route(m)) \/ Arrive(m) PROVE Shared'
    <3>1. Queue(m) /\ UNCHANGED <<using, handlerOf, torn, stage>>
      BY <2>3 DEF Route, Arrive, listenVars
    <3>2. \A d \in Groups \X Messages : broker'[d] # "absent" => d[1] \in Bound[d[2]]
      BY <3>1 DEF Queue
    <3>3. QED
      BY <3>1, <3>2 DEF Good
  <2>4. CASE Crash \/ \E a \in Attempts : Overflow(a)
    <3>1. Crash
      BY <2>4 DEF Overflow
    <3>2. \A d \in Groups \X Messages : broker[d] = "absent" => broker'[d] = "absent"
      BY <3>1 DEF Crash, Requeue
    <3>3. \A a \in Attempts : stage'[a] \in Away => stage[a] \in Away
      BY <3>1 DEF Crash
    <3>4. QED
      BY <3>1, <3>2, <3>3, DeliveryAssumption DEF DeliveryAssumption, Crash, Good
  <2>5. ASSUME NEW g \in Groups, NEW m \in Messages, Deliver(g, m) PROVE Shared'
    <3>1. PICK a \in Attempts : stage' = [stage EXCEPT ![a] = "received"]
      BY <2>5, DeliverTakesNew
    <3>2. QED
      BY <2>1, <2>5, <3>1 DEF Deliver
  \* an attempt under way is at a group to which its message is routed
  <2>6. \A a \in Attempts : stage[a] # "none" => a[1] \in Bound[a[2]]
    <3>1. ASSUME NEW a \in Attempts, stage[a] # "none" PROVE broker[<<a[1], a[2]>>] # "absent"
      BY <3>1 DEF Fresh, Counted
    <3>2. ASSUME NEW a \in Attempts, broker[<<a[1], a[2]>>] # "absent"
          PROVE  a[1] \in Bound[a[2]]
      BY <3>2
    <3>3. QED
      BY <3>1, <3>2
  <2>7. ASSUME NEW a \in Attempts, LookUpHandler(a) PROVE Shared'
    <3>1. UNCHANGED <<broker, handlerOf, torn>>
      BY <2>7 DEF LookUpHandler
    <3>2. \A b \in Attempts \ {a} : stage'[b] \in Away => stage'[b] = stage[b]
      BY <2>7, LookingUp
    <3>3. Good(a[1], a[2]) => stage'[a] \notin Away
      <4>1. Good(a[1], a[2]) => NameOf[a[2]] # NoName
        BY DeliveryAssumption DEF DeliveryAssumption, Good
      <4>2. QED
        BY <2>7, <4>1, LookingUp DEF Building
    <3>4. using' = using \/ /\ NameOf[a[2]] \in DOMAIN HandledBy[handlerOf[NameOf[a[2]]]]
                            /\ using' = [using EXCEPT ![a] = handlerOf[NameOf[a[2]]]]
      <4>1. ASSUME NameOf[a[2]] # NoName, handlerOf[NameOf[a[2]]] # NoGroup
            PROVE  NameOf[a[2]] \in DOMAIN HandledBy[handlerOf[NameOf[a[2]]]]
        BY <4>1, DeliveryAssumption DEF DeliveryAssumption
      <4>2. QED
        BY <2>7, <4>1, LookingUp
    <3>5. \A b \in Attempts : using'[b] # NoGroup => NameOf[b[2]] \in DOMAIN HandledBy[using'[b]]
      BY <3>4
    <3>6. \A b \in Attempts \ torn' : Good(b[1], b[2])' => stage'[b] \notin Away
      BY <3>1, <3>2, <3>3 DEF Good
    <3>7. QED
      BY <3>1, <3>5, <3>6 DEF Good
  <2>8. ASSUME NEW a \in Attempts, AddHandler(a) PROVE Shared'
    <3> DEFINE n == NameOf[a[2]]
    <3>1. n \in Names /\ n \in DOMAIN HandledBy[a[1]]
      BY <2>6, <2>8, DeliveryAssumption DEF DeliveryAssumption, AddHandler, Named, Agreement, Building
    <3>2. /\ handlerOf' = [handlerOf EXCEPT ![n] = IF @ = NoGroup THEN a[1] ELSE @]
          /\ using' = [using EXCEPT ![a] = handlerOf'[n]]
          /\ stage' = [stage EXCEPT ![a] = "resolved"]
          /\ UNCHANGED <<broker, torn>>
      BY <2>8 DEF AddHandler, MoveTo, Message
    <3>3. n \in DOMAIN HandledBy[handlerOf'[n]]
      BY <3>1, <3>2
    <3>4. QED
      BY <3>1, <3>2, <3>3 DEF Good
  <2>9. ASSUME NEW a \in Attempts, Transform(a) PROVE Shared'
    <3>1. UNCHANGED <<broker, handlerOf, using>> /\ torn \subseteq torn'
          /\ \A b \in Attempts \ {a} : stage'[b] \in Away => stage'[b] = stage[b]
      BY <2>9, Transforming DEF Transform
    <3>2. Good(a[1], a[2]) => Transforms(a)
      <4> HAVE Good(a[1], a[2])
      <4>1. using[a] \in Groups
        BY <2>9 DEF Transform
      <4>2. NameOf[a[2]] \in DOMAIN HandledBy[a[1]] \cap DOMAIN HandledBy[using[a]]
        BY <4>1, DeliveryAssumption DEF DeliveryAssumption, Good
      <4>3. HandledBy[a[1]][NameOf[a[2]]] = HandledBy[using[a]][NameOf[a[2]]]
        <5>1. \A g, h \in Groups : \A n \in DOMAIN HandledBy[g] \cap DOMAIN HandledBy[h] :
                 HandledBy[g][n] = HandledBy[h][n]
          BY DEF Agreement
        <5>2. a[1] \in Groups
          OBVIOUS
        <5>3. QED
          BY <4>1, <4>2, <5>1, <5>2
      <4>4. QED
        BY <4>2, <4>3 DEF Good, Transforms, Message
    <3>3. Good(a[1], a[2]) /\ a \notin torn' => stage'[a] \notin Away
      BY <2>9, <3>2, Transforming DEF Good, Creating
    <3>4. QED
      BY <3>1, <3>3 DEF Good
  <2>10. ASSUME NEW a \in Attempts,
                CastHeaderThrows(a) \/ Create(a) \/ Approve(a) \/ MessageProcessed(a)
         PROVE  Shared'
    <3>1. UNCHANGED <<broker, using, handlerOf, torn>>
      BY <2>10 DEF CastHeaderThrows, Create, Approve, MessageProcessed
    <3>2. \E s \in {"uncast", "transformed", "approved", "given"} : stage' = [stage EXCEPT ![a] = s]
      BY <2>10 DEF CastHeaderThrows, Create, Approve, MessageProcessed, MoveTo
    <3>3. QED
      BY <2>1, <3>1, <3>2
  <2>11. ASSUME NEW a \in Attempts, Reject(a) \/ OnFailed(a) \/ BasicAck(a) PROVE Shared'
    <3>1. UNCHANGED <<using, handlerOf, torn>>
      BY <2>11 DEF Reject, OnFailed, BasicAck
    <3>2. \A d \in Groups \X Messages : broker[d] = "absent" => broker'[d] = "absent"
      BY <2>11 DEF Reject, OnFailed, BasicAck, Answerable
    <3>3. \E s \in {"stuck", "nacked", "late", "acknowledged"} : stage' = [stage EXCEPT ![a] = s]
      BY <2>11 DEF Reject, OnFailed, BasicAck, MoveTo
    <3>4. stage[a] \in Away \/ stage'[a] \notin Away
      BY <2>11 DEF Reject, OnFailed, BasicAck, MoveTo
    <3>5. QED
      BY <2>1, <3>1, <3>2, <3>3, <3>4
  <2>12. ASSUME NEW a \in Attempts, CreateThrows(a) PROVE Shared'
    <3>1. UNCHANGED <<broker, using, handlerOf>> /\ torn' = torn \cup {a}
          /\ stage' = [stage EXCEPT ![a] = "failing"]
      BY <2>12 DEF CreateThrows, MoveTo
    <3>2. QED
      BY <3>1 DEF Good
  <2>13. QED
    BY <2>2, <2>3, <2>4, <2>5, <2>7, <2>8, <2>9, <2>10, <2>11, <2>12, DeliveryAssumption
       DEF DeliveryAssumption, Next, AttemptStep
<1>3. Welcome => GoodIsNeverTurnedAway
  BY DEF Welcome, Shared
<1>4. QED
  BY <1>1, <1>2, <1>3, PTL DEF SafetySpec
=============================================================================
