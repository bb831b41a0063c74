----------------------- MODULE EventProcessingProofs ------------------------
(* What holds of EventProcessing for all groups, processors, events and       *)
(* numbers of handlers that throw.                                            *)
EXTENDS EventProcessing, FiniteSetTheorems, TLAPS

States == {"none", "ready", "dropped", "processing"} \cup GivenUp

\* A delivery is of a message that was published.
Published == \A g \in Groups, i \in Ids : delivery[<<g, i>>] # "none" => i \in DOMAIN messages

\* Before a delivery is processed none of its processors has a result, after it none runs,
\* and those that have one are those that were resolved; it is faulted if one of them threw.
Kept(g, i) ==
    /\ delivery[<<g, i>>] \in {"none", "ready", "dropped"} =>
           \A k \in Processors(g) : result[<<g, i>>][k] = "none"
    /\ delivery[<<g, i>>] \in GivenUp =>
           AllEnded(g, i) /\ (delivery[<<g, i>>] = "faulted" <=> Failed(g, i) # {})
    /\ delivery[<<g, i>>] \in {"processing"} \cup GivenUp =>
           \A k \in Processors(g) :
              result[<<g, i>>][k] # "none" <=> k \in Resolved(g, messages[i])
ScopeKept == \A g \in Groups, i \in Ids : Kept(g, i)

\* A message is an event from outside or the one fault of a delivery that failed.
CauseOf(j) ==
    IF messages[j].cause = External
    THEN ~messages[j].fault /\ ~messages[j].error
    ELSE /\ messages[j].fault /\ delivery[messages[j].cause] = "faulted"
         /\ Text(j) => messages[j].error
Caused ==
    /\ \A j \in DOMAIN messages : CauseOf(j)
    /\ \A j, l \in DOMAIN messages :
          messages[j].cause = messages[l].cause /\ messages[j].cause # External => j = l
    /\ \A d \in Groups \X Ids :
          delivery[d] = "faulted" => \E j \in DOMAIN messages : messages[j].cause = d

\* two sets of names, expanded throughout
USE DEF States, GivenUp

IInv == TypeOK /\ Published /\ ScopeKept /\ Caused

Headers == [type : Types, fault : BOOLEAN, error : BOOLEAN,
            group : Groups \cup {AnyGroup, NoHeader},
            cause : (Groups \X Ids) \cup {External}]

\* Publishing adds a message and leaves those before it alone.
LEMMA Appended ==
    ASSUME messages \in Seq(Headers), NEW m \in Headers, messages' = Append(messages, m)
    PROVE  /\ messages' \in Seq(Headers)
           /\ Len(messages') = Len(messages) + 1 /\ Len(messages) \in Nat
           /\ DOMAIN messages = 1 .. Len(messages) /\ DOMAIN messages' = 1 .. Len(messages')
           /\ \A j \in DOMAIN messages : messages'[j] = messages[j]
           /\ messages'[Len(messages) + 1] = m
  OBVIOUS

\* Nothing of an attempt that was made is overwritten by the deliveries of a new message.
LEMMA Distributed ==
    ASSUME TypeOK, Published, NEW m
    PROVE  LET i == Len(messages) + 1 IN
           /\ Deliveries(m, i) \in [Groups \X Ids -> States]
           /\ \A d \in Groups \X Ids :
                 \/ Deliveries(m, i)[d] = delivery[d]
                 \/ d[2] = i /\ delivery[d] = "none" /\ Deliveries(m, i)[d] = "ready"
<1> DEFINE i == Len(messages) + 1
<1>1. Len(messages) \in Nat /\ DOMAIN messages = 1 .. Len(messages)
  BY DEF TypeOK
<1>2. ASSUME NEW d \in Groups \X Ids, d[2] = i PROVE delivery[d] = "none"
  <2>1. d = <<d[1], d[2]>> /\ d[1] \in Groups /\ d[2] \in Ids
    BY <1>2
  <2>2. d[2] \notin DOMAIN messages
    BY <1>1, <1>2
  <2>3. QED
    BY <2>1, <2>2 DEF Published
<1>3. QED
  BY <1>2 DEF TypeOK, Deliveries

LEMMA ProcessingInit == Init => IInv
<1> SUFFICES ASSUME Init PROVE IInv
  OBVIOUS
<1>1. TypeOK
  <2>1. \A d \in Groups \X Ids : result[d] \in Results(d[1])
    BY DEF Init, Results
  <2>2. result \in [Groups \X Ids -> UNION {Results(g) : g \in Groups}]
    <3>1. result = [d \in Groups \X Ids |-> result[d]]
      BY DEF Init
    <3>2. QED
      BY <2>1, <3>1
  <2>3. QED
    BY <2>1, <2>2, ProcessingAssumption DEF ProcessingAssumption, Init, TypeOK
<1>2. DOMAIN messages = {}
  BY DEF Init
<1>3. QED
  BY <1>1, <1>2 DEF Init, IInv, Published, ScopeKept, Kept, Caused

\* An event or a fault that is published.
LEMMA PublishKeeps ==
    ASSUME IInv, NEW m \in Headers, messages' = Append(messages, m), result' = result,
           NEW d,
           \/ /\ delivery' = Deliveries(m, Len(messages) + 1)
              /\ m.cause = External /\ ~m.fault /\ ~m.error
           \/ /\ d \in Groups \X Ids
              /\ delivery' = [Deliveries(m, Len(messages) + 1) EXCEPT ![d] = "faulted"]
              /\ delivery[d] = "processing"
              /\ AllEnded(d[1], d[2]) /\ Failed(d[1], d[2]) # {}
              /\ m.cause = d /\ m.fault
              /\ (\E k \in Failed(d[1], d[2]) :
                     result[d][k] = "text" /\ \A l \in Failed(d[1], d[2]) : k <= l) => m.error
    PROVE  /\ delivery' \in [Groups \X Ids -> States]
           /\ Published' /\ ScopeKept' /\ Caused'
<1> USE DEF IInv
<1>1. /\ Len(messages') = Len(messages) + 1 /\ Len(messages) \in Nat
      /\ DOMAIN messages = 1 .. Len(messages) /\ DOMAIN messages' = 1 .. Len(messages')
      /\ \A j \in DOMAIN messages : messages'[j] = messages[j]
      /\ messages'[Len(messages) + 1] = m
  <2>1. messages \in Seq(Headers)
    BY DEF TypeOK, Headers
  <2>2. QED
    BY <2>1, Appended
<1>2. /\ Deliveries(m, Len(messages) + 1)
            \in [Groups \X Ids -> States]
      /\ \A e \in Groups \X Ids :
            \/ Deliveries(m, Len(messages) + 1)[e] = delivery[e]
            \/ /\ e[2] = Len(messages) + 1 /\ delivery[e] = "none"
               /\ Deliveries(m, Len(messages) + 1)[e] = "ready"
  BY Distributed
<1>3. delivery' \in [Groups \X Ids -> States]
  BY <1>2
<1>4. \A e \in Groups \X Ids :
         \/ delivery'[e] = delivery[e]
         \/ e[2] = Len(messages) + 1 /\ delivery[e] = "none" /\ delivery'[e] = "ready"
         \/ e = d /\ m.cause = d /\ delivery[e] = "processing" /\ delivery'[e] = "faulted"
                  /\ AllEnded(d[1], d[2]) /\ Failed(d[1], d[2]) # {}
  BY <1>2
<1>5. Published'
  <2>1. ASSUME NEW g \in Groups, NEW i \in Ids, delivery'[<<g, i>>] # "none"
        PROVE  i \in DOMAIN messages'
    <3>1. i \in DOMAIN messages \/ i = Len(messages) + 1
      BY <1>4, <2>1 DEF Published
    <3>2. QED
      BY <1>1, <3>1
  <2>2. QED
    BY <2>1 DEF Published
<1>6. ScopeKept'
  <2>1. ASSUME NEW g \in Groups, NEW i \in Ids PROVE Kept(g, i)'
    <3> DEFINE e == <<g, i>>
    <3>1. delivery[e] # "none" => messages'[i] = messages[i]
      BY <1>1 DEF Published
    <3>2. Kept(g, i)
      BY DEF ScopeKept
    <3>3. CASE delivery'[e] = delivery[e]
      <4>1. CASE delivery[e] = "none"
        BY <3>2, <3>3, <4>1 DEF Kept
      <4>2. CASE delivery[e] # "none"
        BY <3>1, <3>2, <3>3, <4>2 DEF Kept, AllEnded, Failed
      <4>3. QED
        BY <4>1, <4>2
    <3>4. CASE delivery[e] = "none" /\ delivery'[e] = "ready"
      BY <3>2, <3>4 DEF Kept
    <3>5. CASE /\ e = d /\ delivery[e] = "processing" /\ delivery'[e] = "faulted"
               /\ AllEnded(d[1], d[2]) /\ Failed(d[1], d[2]) # {}
      <4>1. g = d[1] /\ i = d[2]
        BY <3>5
      <4>2. AllEnded(g, i)' /\ Failed(g, i)' # {}
        BY <3>5, <4>1 DEF AllEnded, Failed
      <4>3. QED
        BY <3>1, <3>2, <3>5, <4>2 DEF Kept
    <3>6. QED
      BY <1>4, <3>3, <3>4, <3>5
  <2>2. QED
    BY <2>1 DEF ScopeKept
<1>7. Caused'
  <2>1. \A e \in Groups \X Ids : delivery[e] = "faulted" => delivery'[e] = "faulted"
    BY <1>4
  <2>2. ASSUME NEW j \in DOMAIN messages PROVE CauseOf(j)'
    <3>1. messages'[j] = messages[j]
      BY <1>1
    <3>2. messages[j].cause \in (Groups \X Ids) \cup {External}
      <4>1. messages \in Seq(Headers)
        BY DEF TypeOK, Headers
      <4>2. messages[j] \in Headers
        BY <4>1
      <4>3. QED
        BY <4>2 DEF Headers
    <3>3. Text(j)' <=> Text(j)
      BY <3>1 DEF Text, Failed
    <3>4. CauseOf(j)
      BY DEF Caused
    <3>5. QED
      BY <2>1, <3>1, <3>2, <3>3, <3>4 DEF CauseOf
  <2>3. ASSUME NEW j, j = Len(messages) + 1 PROVE CauseOf(j)'
    <3>1. messages'[j] = m
      BY <1>1, <2>3
    <3>2. CASE m.cause = External /\ ~m.fault /\ ~m.error
      BY <3>1, <3>2 DEF CauseOf
    <3>3. CASE /\ d \in Groups \X Ids
               /\ m.cause = d /\ m.fault
               /\ delivery' = [Deliveries(m, Len(messages) + 1) EXCEPT ![d] = "faulted"]
               /\ (\E k \in Failed(d[1], d[2]) :
                      result[d][k] = "text" /\ \A l \in Failed(d[1], d[2]) : k <= l) => m.error
      <4>1. delivery'[d] = "faulted"
        BY <1>2, <3>3
      <4>2. Text(j)' <=> \E k \in Failed(d[1], d[2]) :
                            result[d][k] = "text" /\ \A l \in Failed(d[1], d[2]) : k <= l
        BY <3>1, <3>3 DEF Text, Failed, Processors
      <4>3. m.cause # External
        BY <3>3, ProcessingAssumption DEF External, Ids, ProcessingAssumption
      <4>4. QED
        BY <3>1, <3>3, <4>1, <4>2, <4>3 DEF CauseOf
    <3>4. QED
      BY <3>2, <3>3
  <2>4. \A j \in DOMAIN messages : messages[j].cause # External => messages[j].cause # m.cause
    <3>1. \A j \in DOMAIN messages :
             messages[j].cause # External => delivery[messages[j].cause] = "faulted"
      BY DEF Caused, CauseOf
    <3>2. QED
      BY <3>1
  <2>5. \A j, l \in DOMAIN messages' :
           messages'[j].cause = messages'[l].cause /\ messages'[j].cause # External => j = l
    BY <1>1, <2>4 DEF Caused
  <2>6. ASSUME NEW e \in Groups \X Ids, delivery'[e] = "faulted"
        PROVE  \E j \in DOMAIN messages' : messages'[j].cause = e
    <3>1. CASE delivery[e] = "faulted"
      BY <1>1, <3>1 DEF Caused
    <3>2. CASE delivery[e] # "faulted"
      BY <1>1, <1>4, <2>6, <3>2
    <3>3. QED
      BY <3>1, <3>2
  <2>7. \A j \in DOMAIN messages' : j \in DOMAIN messages \/ j = Len(messages) + 1
    BY <1>1
  <2>8. \A j \in DOMAIN messages' : CauseOf(j)'
    BY <2>2, <2>3, <2>7
  <2>9. QED
    BY <2>5, <2>6, <2>8 DEF Caused
<1>8. QED
  BY <1>3, <1>5, <1>6, <1>7

LEMMA PublishStepKeeps ==
    ASSUME IInv, \/ \E t \in Types, address \in Groups \cup {AnyGroup, NoHeader} : PublishEvent(t, address)
                 \/ \E g \in Groups, i \in Ids : ResolveFault(g, i)
    PROVE  IInv'
<1> USE DEF IInv
<1>1. messages \in Seq(Headers)
  BY DEF TypeOK, Headers
<1>2. ASSUME NEW t \in Types, NEW address \in Groups \cup {AnyGroup, NoHeader},
             PublishEvent(t, address)
      PROVE  IInv'
  <2> DEFINE m == [type |-> t, fault |-> FALSE, group |-> address, error |-> FALSE,
                   cause |-> External]
  <2>1. /\ m \in Headers /\ messages' = Append(messages, m)
        /\ delivery' = Deliveries(m, Len(messages) + 1)
        /\ m.cause = External /\ ~m.fault /\ ~m.error
        /\ UNCHANGED <<result, throws>>
    BY <1>2 DEF PublishEvent, Headers
  <2>2. messages' \in Seq(Headers)
    BY <1>1, <2>1
  <2>3. /\ delivery' \in [Groups \X Ids -> States]
        /\ Published' /\ ScopeKept' /\ Caused'
    BY <2>1, PublishKeeps
  <2>4. QED
    BY <2>1, <2>2, <2>3 DEF TypeOK, Headers
<1>3. ASSUME NEW g \in Groups, NEW i \in Ids, ResolveFault(g, i) PROVE IInv'
  <2> DEFINE first == CHOOSE k \in Failed(g, i) : \A l \in Failed(g, i) : k <= l
             m == FaultOf(g, i, result[<<g, i>>][first])
             d == <<g, i>>
  <2>1. /\ messages' = Append(messages, m)
        /\ delivery' = [Deliveries(m, Len(messages) + 1) EXCEPT ![d] = "faulted"]
        /\ delivery[d] = "processing" /\ AllEnded(g, i) /\ Failed(g, i) # {}
        /\ UNCHANGED <<result, throws>>
    BY <1>3 DEF ResolveFault
  <2>2. messages[i] \in Headers
    BY <1>1, <2>1 DEF Published
  <2>3. m \in Headers /\ m.cause = d /\ m.fault
        /\ (m.error <=> result[d][first] = "text")
    BY <2>2 DEF FaultOf, Headers
  \* the earliest of those that failed is unique
  <2>4. ASSUME NEW k \in Failed(g, i), result[d][k] = "text", \A l \in Failed(g, i) : k <= l
        PROVE  m.error
    <3>1. first \in Failed(g, i) /\ \A l \in Failed(g, i) : first <= l
      BY <2>4
    <3>2. k \in Int /\ first \in Int
      BY <3>1 DEF Failed, Processors
    <3>3. first = k
      BY <2>4, <3>1, <3>2
    <3>4. QED
      BY <2>3, <2>4, <3>3
  <2>5. messages' \in Seq(Headers)
    BY <1>1, <2>1, <2>3
  <2>6. /\ delivery' \in [Groups \X Ids -> States]
        /\ Published' /\ ScopeKept' /\ Caused'
    <3>1. d \in Groups \X Ids /\ d[1] = g /\ d[2] = i
      OBVIOUS
    <3> HIDE DEF m, d, first
    <3>2. QED
      BY <2>1, <2>3, <2>4, <3>1, PublishKeeps
  <2>7. QED
    BY <2>1, <2>5, <2>6 DEF TypeOK, Headers
<1>4. QED
  BY <1>2, <1>3

\* The other steps leave the messages alone; those of one delivery change only its state
\* and the results of its processors.
LEMMA DeliveryStepKeeps ==
    ASSUME IInv, messages' = messages, throws' \in 0 .. MaxThrows,
           NEW d \in Groups \X Ids, d[2] \in DOMAIN messages,
           NEW s \in {"dropped", "processing", "processed", "abandoned"},
           delivery' = [delivery EXCEPT ![d] = s],
           delivery[d] \in {"ready", "processing"},
           NEW r \in Results(d[1]),
           result' = [result EXCEPT ![d] = r],
           Kept(d[1], d[2])'
    PROVE  IInv'
<1> USE DEF IInv
<1>1. TypeOK'
  <2>1. delivery' \in [Groups \X Ids -> States]
    BY DEF TypeOK
  <2>2. result' \in [Groups \X Ids -> UNION {Results(g) : g \in Groups}]
    BY DEF TypeOK
  <2>3. \A e \in Groups \X Ids : result'[e] \in Results(e[1])
    BY DEF TypeOK
  <2>4. QED
    BY <2>1, <2>2, <2>3 DEF TypeOK
<1>2. d = <<d[1], d[2]>> /\ d[1] \in Groups /\ d[2] \in Ids
  OBVIOUS
<1>3. \A e \in Groups \X Ids : e # d => delivery'[e] = delivery[e] /\ result'[e] = result[e]
  BY DEF TypeOK
<1>4. Published'
  BY <1>2, <1>3 DEF Published
<1>5. ScopeKept'
  <2>1. ASSUME NEW g \in Groups, NEW i \in Ids PROVE Kept(g, i)'
    <3>1. CASE <<g, i>> = d
      <4>1. g = d[1] /\ i = d[2]
        BY <3>1
      <4>2. QED
        BY <4>1
    <3>2. CASE <<g, i>> # d
      <4>1. delivery'[<<g, i>>] = delivery[<<g, i>>] /\ result'[<<g, i>>] = result[<<g, i>>]
        BY <1>3, <3>2
      <4>2. Kept(g, i)
        BY DEF ScopeKept
      <4>3. QED
        BY <4>1, <4>2 DEF Kept, AllEnded, Failed
    <3>3. QED
      BY <3>1, <3>2
  <2>2. QED
    BY <2>1 DEF ScopeKept
<1>6. Caused'
  <2>1. \A e \in Groups \X Ids : delivery'[e] = "faulted" <=> delivery[e] = "faulted"
    BY <1>3 DEF TypeOK
  <2>2. ASSUME NEW j \in DOMAIN messages PROVE CauseOf(j)'
    <3>1. messages[j].cause \in (Groups \X Ids) \cup {External}
      <4>1. messages \in Seq(Headers)
        BY DEF TypeOK, Headers
      <4>2. messages[j] \in Headers
        BY <4>1
      <4>3. QED
        BY <4>2 DEF Headers
    <3>2. CauseOf(j)
      BY DEF Caused
    <3>3. CASE messages[j].cause = External
      BY <3>2, <3>3 DEF CauseOf
    <3>4. CASE messages[j].cause # External
      <4> DEFINE e == messages[j].cause
      <4>1. e \in Groups \X Ids /\ delivery[e] = "faulted" /\ delivery'[e] = "faulted"
        BY <2>1, <3>1, <3>2, <3>4 DEF CauseOf
      <4>2. e # d
        BY <4>1
      <4>3. result'[e] = result[e] /\ e = <<e[1], e[2]>>
        BY <1>3, <4>1, <4>2
      <4>4. Text(j)' <=> Text(j)
        BY <4>3 DEF Text, Failed
      <4>5. QED
        BY <3>2, <3>4, <4>1, <4>4 DEF CauseOf
    <3>5. QED
      BY <3>3, <3>4
  <2>3. QED
    BY <2>1, <2>2 DEF Caused
<1>7. QED
  BY <1>1, <1>4, <1>5, <1>6

LEMMA HandlerStepKeeps ==
    ASSUME IInv, NEW g \in Groups, NEW i \in Ids,
           \/ Drop(g, i) \/ StartProcessors(g, i) \/ Finish(g, i) \/ Abandon(g, i)
           \/ \E k \in Processors(g) : HandlerCompletes(g, i, k) \/ HandlerThrows(g, i, k)
    PROVE  IInv'
<1> DEFINE d == <<g, i>>
<1>1. /\ d \in Groups \X Ids /\ d[1] = g /\ d[2] = i
      /\ result[d] \in Results(g) /\ result = [result EXCEPT ![d] = result[d]]
      /\ Kept(g, i) /\ throws \in 0 .. MaxThrows /\ MaxThrows \in Nat
      /\ delivery[d] # "none" => i \in DOMAIN messages
      /\ delivery = [delivery EXCEPT ![d] = delivery[d]]
  BY ProcessingAssumption DEF ProcessingAssumption, IInv, TypeOK, ScopeKept, Published
<1>2. CASE Drop(g, i) \/ Finish(g, i) \/ Abandon(g, i)
  <2>1. PICK s \in {"dropped", "processed", "abandoned"} :
           /\ delivery' = [delivery EXCEPT ![d] = s]
           /\ s = "dropped" => delivery[d] = "ready"
           /\ s # "dropped" => delivery[d] = "processing" /\ AllEnded(g, i) /\ Failed(g, i) = {}
           /\ UNCHANGED <<messages, result, throws>>
    BY <1>2 DEF Drop, Finish, Abandon
  <2>2. delivery'[d] = s
    BY <1>1, <2>1 DEF IInv, TypeOK
  <2>3. Kept(g, i)'
    BY <1>1, <2>1, <2>2 DEF Kept, AllEnded, Failed
  <2>4. QED
    BY <1>1, <2>1, <2>3, DeliveryStepKeeps
<1>3. CASE StartProcessors(g, i)
  <2> DEFINE r == [k \in Processors(g) |->
                      IF k \in Resolved(g, messages[i]) THEN "running" ELSE "none"]
  <2>1. /\ delivery[d] = "ready" /\ delivery' = [delivery EXCEPT ![d] = "processing"]
        /\ result' = [result EXCEPT ![d] = r] /\ UNCHANGED <<messages, throws>>
    BY <1>3 DEF StartProcessors
  <2>2. r \in Results(g)
    BY DEF Results
  <2>3. delivery'[d] = "processing" /\ result'[d] = r
    BY <1>1, <2>1 DEF IInv, TypeOK
  <2>4. Kept(g, i)'
    BY <2>1, <2>3 DEF Kept
  <2>5. QED
    BY <1>1, <2>1, <2>2, <2>4, DeliveryStepKeeps
<1>4. ASSUME NEW k \in Processors(g), HandlerCompletes(g, i, k) \/ HandlerThrows(g, i, k)
      PROVE  IInv'
  <2>1. PICK how \in {"ok", "text", "blank", "cancelled"} :
           /\ result[d][k] = "running"
           /\ result' = [result EXCEPT ![d][k] = how]
           /\ UNCHANGED <<messages, delivery>>
    BY <1>4 DEF HandlerCompletes, HandlerThrows, HandlerEnds
  <2> DEFINE r == [result[d] EXCEPT ![k] = how]
  <2>2. throws' \in 0 .. MaxThrows
    BY <1>1, <1>4 DEF HandlerCompletes, HandlerThrows
  <2>3. r \in Results(g) /\ result' = [result EXCEPT ![d] = r] /\ result'[d] = r
    BY <1>1, <2>1 DEF Results, IInv, TypeOK
  \* only a processor of a delivery being processed runs
  <2>4. delivery[d] = "processing"
    BY <1>1, <2>1 DEF Kept, AllEnded, IInv, TypeOK
  <2>5. Kept(g, i)'
    BY <1>1, <2>1, <2>3, <2>4 DEF Kept, Results
  <2>6. QED
    BY <1>1, <2>1, <2>2, <2>3, <2>4, <2>5, DeliveryStepKeeps
<1>5. QED
  BY <1>2, <1>3, <1>4

LEMMA ProcessingStepKeeps == IInv /\ [Next]_vars => IInv'
<1> SUFFICES ASSUME IInv, [Next]_vars PROVE IInv'
  OBVIOUS
<1>1. CASE UNCHANGED vars
  <2>1. (TypeOK /\ Published)'
    BY <1>1 DEF vars, IInv, TypeOK, Published
  <2>2. ScopeKept'
    BY <1>1 DEF vars, IInv, ScopeKept, Kept, AllEnded, Failed
  <2>3. Caused'
    BY <1>1 DEF vars, IInv, Caused, CauseOf, Text, Failed
  <2>4. QED
    BY <2>1, <2>2, <2>3 DEF IInv
<1>2. QED
  BY <1>1, PublishStepKeeps, HandlerStepKeeps DEF Next, ProcessingStep

\* What stands in a message's headers is what their readers expect, whatever failed
\* (EventPublisher.cs:117-133).
THEOREM TypeCorrect == SafetySpec => []TypeOK
<1>1. IInv => TypeOK
  BY DEF IInv
<1>2. QED
  BY ProcessingInit, ProcessingStepKeeps, <1>1, PTL DEF SafetySpec

\* However many of any group's processors fail, and in any order, one fault is published
\* for the delivery, and none unless one failed with an exception, cancelled ones not
\* counted (EventListener.cs:119-143).
THEOREM OneFault == SafetySpec => []OneFaultPerFailure
<1>1. IInv => OneFaultPerFailure
  <2> SUFFICES ASSUME IInv, NEW g \in Groups, NEW i \in Ids
               PROVE  Cardinality({j \in DOMAIN messages : messages[j].cause = <<g, i>>})
                          = IF delivery[<<g, i>>] \in GivenUp /\ Failed(g, i) # {} THEN 1 ELSE 0
    BY DEF OneFaultPerFailure
  <2> DEFINE faults == {j \in DOMAIN messages : messages[j].cause = <<g, i>>}
  <2>1. <<g, i>> # External
    BY ProcessingAssumption DEF ProcessingAssumption, External, Ids
  <2>2. delivery[<<g, i>>] = "faulted" <=> delivery[<<g, i>>] \in GivenUp /\ Failed(g, i) # {}
    BY DEF IInv, ScopeKept, Kept, GivenUp
  <2>3. CASE delivery[<<g, i>>] = "faulted"
    <3>1. PICK j \in DOMAIN messages : messages[j].cause = <<g, i>>
      BY <2>3 DEF IInv, Caused
    <3>2. faults = {j}
      BY <2>1, <3>1 DEF IInv, Caused
    <3>3. QED
      BY <2>2, <2>3, <3>2, FS_Singleton
  <2>4. CASE delivery[<<g, i>>] # "faulted"
    <3>1. faults = {}
      BY <2>1, <2>4 DEF IInv, Caused, CauseOf
    <3>2. QED
      BY <2>2, <2>4, <3>1, FS_EmptySet
  <2>5. QED
    BY <2>3, <2>4
<1>2. QED
  BY ProcessingInit, ProcessingStepKeeps, <1>1, PTL DEF SafetySpec

\* A scope is given up when every processor that was due has ended, for any number of
\* processors (EventListener.cs:116-145).
THEOREM ScopeLivesLongEnough == SafetySpec => []ScopeOutlivesHandlers
<1>1. IInv => ScopeOutlivesHandlers
  <2> SUFFICES ASSUME IInv, NEW g \in Groups, NEW i \in Ids,
                      delivery[<<g, i>>] \in GivenUp
               PROVE  {k \in Processors(g) : result[<<g, i>>][k] \in {"ok", "text", "blank", "cancelled"}}
                          = Resolved(g, messages[i])
    BY DEF ScopeOutlivesHandlers
  <2>1. /\ AllEnded(g, i)
        /\ \A k \in Processors(g) : result[<<g, i>>][k] # "none" <=> k \in Resolved(g, messages[i])
    BY DEF IInv, ScopeKept, Kept
  <2>2. result[<<g, i>>] \in Results(g)
    BY DEF IInv, TypeOK
  <2>3. \A k \in Processors(g) :
           result[<<g, i>>][k] \in {"ok", "text", "blank", "cancelled"} <=> k \in Resolved(g, messages[i])
    BY <2>1, <2>2 DEF AllEnded, Results
  <2>4. QED
    BY <2>3 DEF Resolved
<1>2. QED
  BY ProcessingInit, ProcessingStepKeeps, <1>1, PTL DEF SafetySpec

\* No handler of the other kind is started, for an event or for a fault whose exception
\* has a text (EventListener.cs:105, EventProcessorGroup.cs:22, EventPublisher.cs:129).
THEOREM KindsAreApart == SafetySpec => []KindsKeptApart
<1>1. IInv => KindsKeptApart
  <2> SUFFICES ASSUME IInv, NEW i \in Ids \cap DOMAIN messages
               PROVE  IF messages[i].fault THEN Text(i) => OnlyFaultHandlers(i)
                      ELSE \A g \in Groups : \A k \in Processors(g) :
                              result[<<g, i>>][k] # "none" => ~ProcessorsOf[g][k].fault
    BY DEF KindsKeptApart
  <2>1. ASSUME NEW g \in Groups, NEW k \in Processors(g), result[<<g, i>>][k] # "none"
        PROVE  ProcessorsOf[g][k].fault = messages[i].error
    <3>1. delivery[<<g, i>>] \in States
      BY DEF IInv, TypeOK
    <3>2. k \in Resolved(g, messages[i])
      BY <2>1, <3>1 DEF IInv, ScopeKept, Kept
    <3>3. QED
      BY <3>2 DEF Resolved
  <2>2. CauseOf(i)
    BY DEF IInv, Caused
  <2>3. messages[i] \in Headers
    <3>1. messages \in Seq(Headers)
      BY DEF IInv, TypeOK, Headers
    <3>2. QED
      BY <3>1
  <2>4. CASE messages[i].fault
    BY <2>1, <2>2, <2>4 DEF CauseOf, OnlyFaultHandlers
  <2>5. CASE ~messages[i].fault
    BY <2>1, <2>2, <2>3, <2>5 DEF CauseOf, Headers
  <2>6. QED
    BY <2>4, <2>5
<1>2. QED
  BY ProcessingInit, ProcessingStepKeeps, <1>1, PTL DEF SafetySpec
=============================================================================
