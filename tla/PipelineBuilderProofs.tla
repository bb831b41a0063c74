----------------------- MODULE PipelineBuilderProofs ------------------------
(* What holds of PipelineBuilder for any number of calls at once.             *)
EXTENDS PipelineBuilder, InstanceCacheProofs, SequenceTheorems, FiniteSetTheorems, TLAPS

\* The call that created the current instance, if that instance lacks a scope, has yet
\* to read the target of its assignment or has read this very instance.
CreatorOwes ==
    current \in Calls \ scoped =>
        \/ at[current] = "created"
        \/ at[current] = "scoping" /\ hand[current] = current

Owed == at \in [Calls -> Places] /\ hand \in [Calls -> Calls \cup {None}]
            /\ current \in Calls \cup {None} /\ CreatorOwes

\* Only SetScope takes a call out of "scoping", and it sets the scope of what the call
\* has in hand; every other step leaves the creator where it is or replaces the instance
\* (BasePipelineBuilder.cs:23-32).
THEOREM ScopeIsOnItsWay == SafetySpec => []NullScopeHasBuilder
<1>1. Init => Owed
  BY PipelineAssumption DEF PipelineAssumption, Init, Owed, CreatorOwes, Places, Building, Scoping
<1>2. Owed /\ [Next]_vars => Owed'
  <2> SUFFICES ASSUME Owed, [Next]_vars PROVE Owed'
    OBVIOUS
  <2> USE PipelineAssumption DEF PipelineAssumption, Owed, CreatorOwes, Places, Building,
      Scoping, static, ring, walk, Goto, Take
  <2>1. ASSUME NEW c \in Calls, Create(c) PROVE Owed'
    BY <2>1 DEF Create, Begin
  <2>2. ASSUME NEW c \in Calls, ReadTarget(c) PROVE Owed'
    BY <2>2 DEF ReadTarget
  <2>3. ASSUME NEW c \in Calls, SetScope(c) PROVE Owed'
    BY <2>3 DEF SetScope
  <2>4. ASSUME NEW c \in Calls, StartSteps(c) PROVE Owed'
    BY <2>4 DEF StartSteps
  <2>5. ASSUME NEW c \in Calls, LookForHead(c) \/ Link(c) PROVE Owed'
    BY <2>5 DEF LookForHead, Link
  <2>6. ASSUME NEW c \in Calls, ReturnInstance(c) PROVE Owed'
    BY <2>6 DEF ReturnInstance
  <2>7. ASSUME NEW c \in Calls, End(c) PROVE Owed'
    BY <2>7 DEF End
  <2>8. ASSUME NEW c \in Calls, NEW p \in Calls, Invoke(c, p) PROVE Owed'
    BY <2>8 DEF Invoke
  <2>9. ASSUME NEW c \in Calls, RunStep(c) PROVE Owed'
    BY <2>9 DEF RunStep
  <2>10. ASSUME NEW c \in Calls, Construct(c) PROVE Owed'
    BY <2>10 DEF Construct
  <2>11. CASE UNCHANGED vars
    BY <2>11 DEF vars
  <2>12. QED
    BY <2>1, <2>2, <2>3, <2>4, <2>5, <2>6, <2>7, <2>8, <2>9, <2>10, <2>11 DEF Next, Step
<1>3. Owed => NullScopeHasBuilder
  BY DEF Owed, CreatorOwes, NullScopeHasBuilder, Scoping
<1>4. QED
  BY <1>1, <1>2, <1>3, PTL DEF SafetySpec

-----------------------------------------------------------------------------
(* Types *)

NodesOf(c) == {<<c, "Validation">>, <<c, "Storage">>}

LEMMA NodesAreOwn ==
    /\ None \notin Calls /\ None \notin Nodes
    /\ \A c \in Calls : NodesOf(c) \subseteq Nodes
    /\ \A n \in Nodes : n[2] \in {"Validation", "Storage"}
    /\ \A c, d \in Calls : c # d => NodesOf(c) \cap NodesOf(d) = {}
  BY PipelineAssumption DEF PipelineAssumption, Nodes, NodesOf

\* Every call that has begun finds an instance in the static field, since Create put one
\* there, and adds its own two nodes.
BuildTyped ==
    /\ current \in Calls \cup {None} /\ scoped \subseteq Calls /\ overlapped \subseteq Calls
    /\ at \in [Calls -> Places]
    /\ hand \in [Calls -> Calls \cup {None}]
    /\ adding \in [Calls -> Nodes \cup {None}]
    /\ \A c \in Calls :
          /\ at[c] = "idle" => hand[c] = None
          /\ at[c] # "idle" => current \in Calls
          /\ at[c] \notin {"idle", "created"} => hand[c] \in Calls
          /\ at[c] \in {"looking", "linking", "returning"} => adding[c] \in NodesOf(c)

RingTyped ==
    /\ head \in [Calls -> Nodes \cup {None}]
    /\ next \in [Nodes -> Nodes \cup {None}]
    /\ prev \in [Nodes -> Nodes \cup {None}]
    /\ saw \in [Nodes -> Nodes \cup {None}]
    /\ list \in [Nodes -> Calls \cup {None}]

Steps == {"Validation", "Storage", "Transformation"}
WalkTyped ==
    /\ built \in [Calls -> [of : Calls, first : Nodes \cup {None}] \cup {None}]
    /\ uses \in [Calls -> Calls \cup {None}]
    /\ pos \in [Calls -> Nodes \cup {None}]
    /\ ran \in [Calls -> Seq(Steps)]
    /\ \A c \in Calls : at[c] \in Building \cup {"idle"} => built[c] = None

Typed == BuildTyped /\ RingTyped /\ WalkTyped

LEMMA BuilderInit == Init => Typed
<1> SUFFICES ASSUME Init PROVE Typed
  OBVIOUS
<1> USE DEF Init
<1>1. BuildTyped
  BY DEF BuildTyped, Places
<1>2. RingTyped
  BY DEF RingTyped
<1>3. WalkTyped
  BY DEF WalkTyped
<1>4. QED
  BY <1>1, <1>2, <1>3 DEF Typed

\* a step that only moves a call on, towards a place where it needs no more than before
LEMMA MovesTyped ==
    ASSUME BuildTyped, NEW c \in Calls, NEW place \in Places \ {"idle", "created"},
           at' = [at EXCEPT ![c] = place] \/ UNCHANGED at,
           at[c] \notin {"idle", "created"},
           place \in {"looking", "linking", "returning"} => at[c] \in {"looking", "linking", "returning"},
           UNCHANGED <<current, scoped, overlapped, hand, adding>>
    PROVE  BuildTyped'
  BY DEF BuildTyped

\* the same when it takes the current instance in hand and has a node of its own to add
LEMMA TakesTyped ==
    ASSUME BuildTyped, NEW c \in Calls, at[c] # "idle", NEW place \in Places \ {"idle", "created"},
           at' = [at EXCEPT ![c] = place], hand' = [hand EXCEPT ![c] = current],
           NEW n \in NodesOf(c), adding' = [adding EXCEPT ![c] = n],
           UNCHANGED <<current, scoped, overlapped>>
    PROVE  BuildTyped'
<1>1. current \in Calls /\ n \in Nodes
  BY NodesAreOwn DEF BuildTyped
<1>2. /\ at' \in [Calls -> Places] /\ hand' \in [Calls -> Calls \cup {None}]
      /\ adding' \in [Calls -> Nodes \cup {None}]
  BY <1>1 DEF BuildTyped
<1>3. QED
  BY <1>1, <1>2 DEF BuildTyped

LEMMA BuilderStep == Typed /\ [Next]_vars => Typed'
<1> SUFFICES ASSUME Typed, [Next]_vars PROVE Typed'
  OBVIOUS
<1> USE NodesAreOwn DEF Typed, BuildTyped, WalkTyped, Places, Building, Scoping, Goto, Take
<1>1. ASSUME UNCHANGED ring PROVE RingTyped'
  BY <1>1 DEF RingTyped, ring
<1>2. ASSUME NEW c \in Calls, Create(c) PROVE Typed'
  <2>1. BuildTyped'
    BY <1>2 DEF Create, Begin, BuildingCalls
  <2>2. WalkTyped'
    BY <1>2 DEF Create, Begin, walk
  <2>3. QED
    BY <1>1, <1>2, <2>1, <2>2 DEF Create, Begin
<1>3. ASSUME NEW c \in Calls, ReadTarget(c) \/ SetScope(c) \/ StartSteps(c) \/ ReturnInstance(c)
      PROVE  Typed'
  <2>1. BuildTyped'
    <3>1. CASE ReadTarget(c)
      BY <3>1 DEF ReadTarget, static
    <3>2. CASE SetScope(c)
      <4>1. /\ at[c] = "scoping" /\ scoped' = scoped \cup {hand[c]}
            /\ at' = [at EXCEPT ![c] = "starting"]
            /\ UNCHANGED <<current, overlapped, hand, adding>>
        BY <3>2 DEF SetScope
      <4>2. hand[c] \in Calls
        BY <4>1
      <4>3. QED
        BY <4>1, <4>2
    <3>3. <<c, "Validation">> \in NodesOf(c) /\ <<c, "Storage">> \in NodesOf(c)
      BY DEF NodesOf
    <3>4. CASE StartSteps(c)
      <4>1. /\ at[c] # "idle" /\ at' = [at EXCEPT ![c] = "looking"]
            /\ hand' = [hand EXCEPT ![c] = current]
            /\ adding' = [adding EXCEPT ![c] = <<c, "Validation">>]
            /\ UNCHANGED <<current, scoped, overlapped>>
        BY <3>4 DEF StartSteps, static
      <4>2. QED
        BY <3>3, <4>1, TakesTyped
    <3>5. CASE ReturnInstance(c)
      <4>1. /\ at[c] = "returning" /\ hand' = [hand EXCEPT ![c] = current]
            /\ UNCHANGED <<current, scoped, overlapped>>
        BY <3>5 DEF ReturnInstance, static
      <4>2. CASE adding' = [adding EXCEPT ![c] = <<c, "Storage">>]
                 /\ at' = [at EXCEPT ![c] = "looking"]
        BY <3>3, <4>1, <4>2, TakesTyped
      <4>3. CASE UNCHANGED adding /\ at' = [at EXCEPT ![c] = "ending"]
        <5>1. adding' = [adding EXCEPT ![c] = adding[c]] /\ adding[c] \in NodesOf(c)
          BY <4>1, <4>3
        <5>2. QED
          BY <4>1, <4>3, <5>1, TakesTyped
      <4>4. QED
        BY <3>5, <4>2, <4>3 DEF ReturnInstance
    <3>6. QED
      BY <1>3, <3>1, <3>2, <3>4, <3>5
  <2>2. WalkTyped'
    BY <1>3 DEF ReadTarget, SetScope, StartSteps, ReturnInstance, walk
  <2>3. QED
    BY <1>1, <1>3, <2>1, <2>2 DEF ReadTarget, SetScope, StartSteps, ReturnInstance
<1>4. ASSUME NEW c \in Calls, LookForHead(c) \/ Link(c) PROVE Typed'
  <2>1. BuildTyped'
    <3>1. CASE LookForHead(c)
      BY <3>1, MovesTyped DEF LookForHead, static
    <3>2. CASE Link(c)
      BY <3>2, MovesTyped DEF Link, static
    <3>3. QED
      BY <1>4, <3>1, <3>2
  <2>2. WalkTyped'
    BY <1>4 DEF LookForHead, Link, walk
  <2>3. hand[c] \in Calls /\ adding[c] \in Nodes
    BY <1>4 DEF LookForHead, Link
  <2>4. CASE LookForHead(c)
    BY <2>1, <2>2, <2>3, <2>4 DEF LookForHead, RingTyped
  <2>5. CASE Link(c)
    <3>1. \/ /\ head' = [head EXCEPT ![hand[c]] = adding[c]]
             /\ UNCHANGED <<next, prev>>
          \/ /\ next' = [next EXCEPT ![prev[adding[c]]] = adding[c]]
             /\ prev' = [prev EXCEPT ![saw[adding[c]]] = adding[c]]
             /\ UNCHANGED head
      BY <2>5 DEF Link
    <3>2. UNCHANGED <<list, saw>>
      BY <2>5 DEF Link
    <3>3. RingTyped'
      <4>1. head' \in [Calls -> Nodes \cup {None}]
        BY <2>3, <3>1 DEF RingTyped
      <4>2. next' \in [Nodes -> Nodes \cup {None}]
        BY <2>3, <3>1 DEF RingTyped
      <4>3. prev' \in [Nodes -> Nodes \cup {None}]
        BY <2>3, <3>1 DEF RingTyped
      <4>4. QED
        BY <3>2, <4>1, <4>2, <4>3 DEF RingTyped
    <3>4. QED
      BY <2>1, <2>2, <3>3
  <2>6. QED
    BY <1>4, <2>4, <2>5
<1>5. ASSUME NEW c \in Calls, End(c) PROVE Typed'
  <2>1. BuildTyped'
    BY <1>5 DEF End, static
  <2>2. [of |-> hand[c], first |-> head[hand[c]]] \in [of : Calls, first : Nodes \cup {None}]
    BY <1>5 DEF End, RingTyped
  <2>3. WalkTyped'
    BY <1>5, <2>2 DEF End, walk
  <2>4. QED
    BY <1>1, <1>5, <2>1, <2>3 DEF End
<1>6. ASSUME NEW c \in Calls, NEW p \in Calls, Invoke(c, p) PROVE Typed'
  <2>1. BuildTyped'
    BY <1>6 DEF Invoke, static
  <2>2. built[p] \in [of : Calls, first : Nodes \cup {None}]
    BY <1>6 DEF Invoke, Pipelines
  <2>3. WalkTyped'
    BY <1>6, <2>2 DEF Invoke
  <2>4. QED
    BY <1>1, <1>6, <2>1, <2>3 DEF Invoke
<1>7. ASSUME NEW c \in Calls, RunStep(c) PROVE Typed'
  <2>1. BuildTyped'
    <3>1. /\ at[c] = "walking" /\ UNCHANGED <<current, scoped, overlapped, hand, adding>>
          /\ \/ at' = [at EXCEPT ![c] = "failed"]
             \/ at' = [at EXCEPT ![c] = "creating"]
             \/ UNCHANGED at
      BY <1>7 DEF RunStep, static
    <3>2. QED
      BY <3>1, MovesTyped
  <2>2. StepOf(pos[c]) \in Steps /\ Follow(pos[c]) \in Nodes \cup {None}
    BY DEF StepOf, Follow, Steps, RingTyped
  <2>3. Append(ran[c], StepOf(pos[c])) \in Seq(Steps)
    BY <2>2
  <2>4. WalkTyped'
    <3>1. UNCHANGED <<built, uses>> /\ ran' \in [Calls -> Seq(Steps)] /\ pos' \in [Calls -> Nodes \cup {None}]
      <4>1. \/ UNCHANGED <<pos, ran>>
            \/ /\ ran' = [ran EXCEPT ![c] = Append(ran[c], StepOf(pos[c]))]
               /\ pos' = [pos EXCEPT ![c] = Follow(pos[c])]
        BY <1>7 DEF RunStep
      <4>2. UNCHANGED <<built, uses>>
        BY <1>7 DEF RunStep
      <4>3. CASE UNCHANGED <<pos, ran>>
        BY <4>2, <4>3
      <4>4. CASE /\ ran' = [ran EXCEPT ![c] = Append(ran[c], StepOf(pos[c]))]
                 /\ pos' = [pos EXCEPT ![c] = Follow(pos[c])]
        BY <2>2, <2>3, <4>2, <4>4
      <4>5. QED
        BY <4>1, <4>3, <4>4
    <3>2. at'[c] \notin Building \cup {"idle"} /\ \A d \in Calls \ {c} : at'[d] = at[d]
      BY <1>7 DEF RunStep
    <3>3. QED
      BY <3>1, <3>2
  <2>5. QED
    BY <1>1, <1>7, <2>1, <2>4 DEF RunStep
<1>8. ASSUME NEW c \in Calls, Construct(c) PROVE Typed'
  <2>1. BuildTyped'
    <3>1. /\ at[c] = "creating" /\ UNCHANGED <<current, scoped, overlapped, hand, adding>>
          /\ \/ at' = [at EXCEPT ![c] = "failed"]
             \/ at' = [at EXCEPT ![c] = "done"]
             \/ UNCHANGED at
      BY <1>8 DEF Construct, static
    <3>2. QED
      BY <3>1, MovesTyped
  <2>2. WalkTyped'
    BY <1>8 DEF Construct, walk
  <2>3. QED
    BY <1>1, <1>8, <2>1, <2>2 DEF Construct
<1>9. CASE UNCHANGED vars
  BY <1>1, <1>9 DEF vars, static, walk
<1>10. QED
  BY <1>2, <1>3, <1>4, <1>5, <1>6, <1>7, <1>8, <1>9 DEF Next, Step

LEMMA BuilderTyped == SafetySpec => []Typed
  BY BuilderInit, BuilderStep, PTL DEF SafetySpec

LEMMA CacheIsKept == SafetySpec => []Kept
<1>1. Init => Kept
  BY KeptAtFirst DEF Init
<1>2. Kept /\ [Next]_vars => Kept'
  <2> SUFFICES ASSUME Kept, [Next]_vars PROVE Kept'
    OBVIOUS
  <2>1. ASSUME NEW c \in Calls, CreateInstanceOf(c) PROVE Kept'
    BY <2>1, KeptByLookup
  <2>2. ASSUME NEW c \in Calls, Construct(c) PROVE Kept'
    BY <2>2, KeptByStep DEF Construct
  <2>3. ASSUME NEW c \in Calls, RunStep(c) PROVE Kept'
    BY <2>1, <2>3, KeptByStutter DEF RunStep
  <2>4. ASSUME NEW c \in Calls, UNCHANGED cache PROVE Kept'
    BY <2>4, KeptByStutter
  <2>5. ASSUME NEW c \in Calls, Create(c) \/ ReadTarget(c) \/ SetScope(c) \/ StartSteps(c)
               \/ LookForHead(c) \/ Link(c) \/ ReturnInstance(c) \/ End(c)
        PROVE  UNCHANGED cache
    BY <2>5 DEF Create, Begin, ReadTarget, SetScope, StartSteps, LookForHead, Link,
        ReturnInstance, End
  <2>6. ASSUME NEW c \in Calls, NEW p \in Calls, Invoke(c, p) PROVE UNCHANGED cache
    BY <2>6 DEF Invoke
  <2>7. CASE UNCHANGED vars
    BY <2>7, KeptByStutter DEF vars
  <2>8. QED
    BY <2>2, <2>3, <2>4, <2>5, <2>6, <2>7 DEF Next, Step
<1>3. QED
  BY <1>1, <1>2, PTL DEF SafetySpec

\* No step of a call touches the cache but the last ones, which keep whom it serves
\* (TypeExtensions.cs:94-108,151).
THEOREM UndisturbedGetTheirConstructor == SafetySpec => []MissingOnlyIfDisturbed
  BY CacheIsKept, PTL DEF Kept

\* A call that adds steps has an instance in hand to add them to, and what a pipeline
\* closes over is a node or nothing, whatever the calls do to each other
\* (BasePipelineBuilder.cs:32,45,61,69).
THEOREM TypeCorrect == SafetySpec => []TypeOK
<1>1. Typed /\ Kept => TypeOK
  BY DEF Typed, BuildTyped, RingTyped, WalkTyped, Kept, TypeOK, Steps
<1>2. QED
  BY <1>1, BuilderTyped, CacheIsKept, PTL

-----------------------------------------------------------------------------
(* A pipeline built alone *)

V(p) == <<p, "Validation">>
S(p) == <<p, "Storage">>

\* no other call has p in hand, nor will one that is building find it in the static field
Apart(p) == \A q \in Calls \ {p} : hand[q] # p /\ (at[q] \in Building => current # p)

\* nothing of another list points to a node of p
Separate(p) ==
    /\ \A i \in Calls \ {p} : head[i] \notin NodesOf(p)
    /\ \A n \in Nodes \ NodesOf(p) :
          next[n] \notin NodesOf(p) /\ prev[n] \notin NodesOf(p) /\ saw[n] \notin NodesOf(p)

Alone(p) ==
    /\ at[p] = "idle" => current # p
    /\ at[p] \in Building =>
          /\ current = p
          /\ at[p] # "created" => hand[p] = p
          /\ \A q \in Calls \ {p} : at[q] \notin Building

Single(p) == head[p] = V(p) /\ next[V(p)] = V(p) /\ prev[V(p)] = V(p) /\ list[V(p)] = p
Ring(p) ==
    /\ head[p] = V(p) /\ next[V(p)] = S(p) /\ next[S(p)] = V(p)
    /\ list[V(p)] = p /\ list[S(p)] = p

\* how far the list of p has grown, by the place of the call that builds it
Grown(p) ==
    /\ at[p] \in {"idle", "starting"} \cup Scoping => head[p] = None
    /\ at[p] = "looking" =>
          \/ adding[p] = V(p) /\ head[p] = None
          \/ adding[p] = S(p) /\ Single(p)
    /\ at[p] = "linking" =>
          \/ /\ adding[p] = V(p) /\ saw[V(p)] = None /\ list[V(p)] = p
             /\ next[V(p)] = V(p) /\ prev[V(p)] = V(p)
          \/ /\ adding[p] = S(p) /\ Single(p) /\ list[S(p)] = p
             /\ saw[S(p)] = V(p) /\ next[S(p)] = V(p) /\ prev[S(p)] = V(p)
    /\ at[p] = "returning" =>
          \/ adding[p] = V(p) /\ Single(p)
          \/ adding[p] = S(p) /\ Ring(p)
    /\ at[p] \notin {"idle"} \cup (Building \ {"ending"}) => Ring(p)
    /\ at[p] \notin {"idle"} \cup Building => built[p] = [of |-> p, first |-> V(p)]

OneAtATime(p) == Apart(p) /\ Separate(p) /\ Alone(p) /\ Grown(p)
Undisturbed == \A p \in Calls \ overlapped : OneAtATime(p)

LEMMA NodeNames ==
    /\ None \notin Calls
    /\ \A p \in Calls :
          /\ NodesOf(p) = {V(p), S(p)} /\ V(p) # S(p)
          /\ V(p) \in Nodes /\ S(p) \in Nodes /\ V(p) # None /\ S(p) # None
          /\ V(p)[2] = "Validation" /\ S(p)[2] = "Storage"
    /\ \A p, q \in Calls : p # q => V(q) \notin NodesOf(p) /\ S(q) \notin NodesOf(p)
  BY NodesAreOwn DEF NodesOf, V, S

SameRing(p) ==
    /\ head'[p] = head[p]
    /\ \A n \in NodesOf(p) :
          next'[n] = next[n] /\ prev'[n] = prev[n] /\ list'[n] = list[n] /\ saw'[n] = saw[n]

LEMMA GrownStays ==
    ASSUME NEW p \in Calls, Grown(p), SameRing(p),
           at'[p] = at[p], adding'[p] = adding[p], built'[p] = built[p]
    PROVE  Grown(p)'
<1>1. V(p) \in NodesOf(p) /\ S(p) \in NodesOf(p)
  BY NodeNames
<1>2. (Single(p) => Single(p)') /\ (Ring(p) => Ring(p)')
  BY <1>1 DEF SameRing, Single, Ring, V, S
<1>3. QED
  BY <1>1, <1>2 DEF Grown, SameRing, V, S

\* AddLast by another call, which does not have p in hand, keeps off the list of p.
LEMMA OtherListsKept ==
    ASSUME Typed, NEW p \in Calls, NEW c \in Calls \ {p}, Separate(p), hand[c] # p,
           LookForHead(c) \/ Link(c)
    PROVE  Separate(p)' /\ SameRing(p)
<1> DEFINE n == adding[c]
           i == hand[c]
<1>1. /\ i \in Calls \ {p} /\ n \in Nodes \ NodesOf(p)
      /\ NodesOf(p) \subseteq Nodes /\ None \notin NodesOf(p)
      /\ RingTyped
  BY NodesAreOwn DEF Typed, BuildTyped, LookForHead, Link
<1>2. CASE LookForHead(c)
  <2>1. /\ list' = [list EXCEPT ![n] = i] /\ saw' = [saw EXCEPT ![n] = head[i]]
        /\ next' = [next EXCEPT ![n] = IF head[i] = None THEN n ELSE head[i]]
        /\ prev' = [prev EXCEPT ![n] = IF head[i] = None THEN n ELSE prev[head[i]]]
        /\ UNCHANGED head
    BY <1>2 DEF LookForHead
  <2>2. head[i] \notin NodesOf(p) /\ (head[i] # None => head[i] \in Nodes \ NodesOf(p))
    BY <1>1 DEF Separate, RingTyped
  <2>3. Separate(p)'
    BY <1>1, <2>1, <2>2 DEF Separate, RingTyped
  <2>4. SameRing(p)
    BY <1>1, <2>1 DEF SameRing, RingTyped
  <2>5. QED
    BY <2>3, <2>4
<1>3. CASE Link(c) /\ saw[n] = None
  <2>1. head' = [head EXCEPT ![i] = n] /\ UNCHANGED <<next, prev, list, saw>>
    BY <1>3 DEF Link
  <2>2. QED
    BY <1>1, <2>1 DEF Separate, SameRing, RingTyped
<1>4. CASE Link(c) /\ saw[n] # None
  <2>1. /\ next' = [next EXCEPT ![prev[n]] = n]
        /\ prev' = [prev EXCEPT ![saw[n]] = n]
        /\ UNCHANGED <<head, list, saw>>
    BY <1>4 DEF Link
  <2>2. prev[n] \notin NodesOf(p) /\ saw[n] \notin NodesOf(p)
    BY <1>1 DEF Separate
  <2>3. QED
    BY <1>1, <2>1, <2>2 DEF Separate, SameRing, RingTyped
<1>5. QED
  BY <1>2, <1>3, <1>4

\* What another call does leaves a pipeline that is built alone as it is: it has another
\* instance in hand, or would have made the two overlap.
LEMMA OthersKeepOff ==
    ASSUME Typed, NEW p \in Calls, p \notin overlapped', OneAtATime(p),
           NEW c \in Calls \ {p}, Create(c) \/ Step(c)
    PROVE  OneAtATime(p)'
<1> USE DEF OneAtATime
<1>1. BuildTyped /\ RingTyped /\ WalkTyped
  BY DEF Typed
<1>2. /\ at'[p] = at[p] /\ adding'[p] = adding[p] /\ built'[p] = built[p] /\ hand'[p] = hand[p]
      /\ \A q \in Calls \ {c} : at'[q] = at[q] /\ hand'[q] = hand[q]
  <2>1. Create(c) \/ Step(c)
    OBVIOUS
  <2>2. QED
    BY <1>1, <2>1 DEF Create, Begin, Step, ReadTarget, SetScope, StartSteps, LookForHead, Link,
        ReturnInstance, End, Invoke, RunStep, Construct, Goto, Take, BuildTyped, WalkTyped
<1>3. /\ hand'[c] \in {hand[c], current}
      /\ hand'[c] # hand[c] => at[c] \in Building
      /\ current' # current => current' = c /\ at[p] \notin Building
      /\ at'[c] \in Building => at[c] \in Building \/ (current' = c /\ at[p] \notin Building)
  <2>1. CASE Create(c)
    <3>1. /\ at[p] \in Building => p \in BuildingCalls
          /\ overlapped' = IF BuildingCalls = {} THEN overlapped
                            ELSE overlapped \cup BuildingCalls \cup {c}
          /\ current' = c /\ UNCHANGED hand
      BY <2>1 DEF Create, Begin, BuildingCalls
    <3>2. QED
      BY <3>1
  <2>2. CASE Step(c)
    <3>1. /\ UNCHANGED current
          /\ hand'[c] = hand[c] \/ (hand'[c] = current /\ at[c] \in Building)
          /\ at'[c] \in Building => at[c] \in Building
      BY <1>1, <2>2 DEF Step, ReadTarget, SetScope, StartSteps, LookForHead, Link,
          ReturnInstance, End, Invoke, RunStep, Construct, Goto, Take, BuildTyped, static,
          Building, Scoping
    <3>2. QED
      BY <3>1
  <2>3. QED
    BY <2>1, <2>2
<1>4. Apart(p)'
  BY <1>2, <1>3 DEF Apart
<1>5. Alone(p)'
  BY <1>2, <1>3 DEF Alone, Apart
<1>6. Separate(p)' /\ SameRing(p)
  <2>1. CASE LookForHead(c) \/ Link(c)
    BY <2>1, OtherListsKept DEF Apart
  <2>2. CASE UNCHANGED ring
    BY <2>2 DEF ring, Separate, SameRing
  <2>3. QED
    BY <2>1, <2>2 DEF Create, Begin, Step, ReadTarget, SetScope, StartSteps, ReturnInstance,
        End, Invoke, RunStep, Construct
<1>7. Grown(p)'
  BY <1>2, <1>6, GrownStays
<1>8. QED
  BY <1>4, <1>5, <1>6, <1>7

\* The call that creates p finds no other one building, and from then on only p in the
\* static field.
LEMMA BeginsAlone ==
    ASSUME Typed, NEW p \in Calls, p \notin overlapped', OneAtATime(p), Create(p)
    PROVE  OneAtATime(p)'
<1> USE DEF OneAtATime
<1>1. /\ at \in [Calls -> Places] /\ at[p] = "idle" /\ at' = [at EXCEPT ![p] = "created"]
      /\ current' = p /\ BuildingCalls = {}
      /\ UNCHANGED <<hand, adding, built, ring>>
  BY DEF Create, Begin, Goto, Typed, BuildTyped
<1>2. at'[p] = "created" /\ \A q \in Calls \ {p} : at'[q] = at[q] /\ at[q] \notin Building
  BY <1>1 DEF BuildingCalls
<1>3. Apart(p)' /\ Alone(p)'
  BY <1>1, <1>2 DEF Apart, Alone, Building, Scoping
<1>4. Separate(p)'
  BY <1>1 DEF Separate, ring
<1>5. Grown(p)'
  BY <1>1, <1>2 DEF Grown, Building, Scoping, ring
<1>6. QED
  BY <1>3, <1>4, <1>5

\* In its own hand the call has its own instance at every step.
LEMMA BuildsItsOwn ==
    ASSUME Typed, NEW p \in Calls, p \notin overlapped', OneAtATime(p), Step(p)
    PROVE  Apart(p)' /\ Alone(p)' /\ (at[p] \in Building => current = p)
<1>1. BuildTyped
  BY DEF Typed
<1>2. /\ \A q \in Calls \ {p} : at'[q] = at[q] /\ hand'[q] = hand[q]
      /\ current' = current /\ at[p] # "idle" /\ at'[p] \notin {"idle", "created"}
      /\ hand'[p] = current \/ (hand'[p] = hand[p] /\ at[p] # "created")
      /\ at'[p] \in Building => at[p] \in Building
  BY <1>1 DEF Step, ReadTarget, SetScope, StartSteps, LookForHead, Link,
      ReturnInstance, End, Invoke, RunStep, Construct, Goto, Take, BuildTyped, static,
      Building, Scoping
<1>3. QED
  BY <1>2 DEF OneAtATime, Apart, Alone

\* It links its two nodes into a ring with none but them.
LEMMA LinksItsOwn ==
    ASSUME Typed, NEW p \in Calls, OneAtATime(p), LookForHead(p) \/ Link(p)
    PROVE  Separate(p)' /\ Grown(p)'
<1> DEFINE n == adding[p]
<1> USE NodeNames
<1>1. /\ hand[p] = p /\ n \in {V(p), S(p)} /\ n \in Nodes
      /\ at \in [Calls -> Places] /\ RingTyped
  BY DEF OneAtATime, Alone, Typed, BuildTyped, LookForHead, Link, Building
<1>2. CASE LookForHead(p)
  <2>1. /\ at[p] = "looking" /\ at'[p] = "linking"
        /\ list' = [list EXCEPT ![n] = p] /\ saw' = [saw EXCEPT ![n] = head[p]]
        /\ next' = [next EXCEPT ![n] = IF head[p] = None THEN n ELSE head[p]]
        /\ prev' = [prev EXCEPT ![n] = IF head[p] = None THEN n ELSE prev[head[p]]]
        /\ UNCHANGED <<head, adding>>
    BY <1>1, <1>2 DEF LookForHead, Goto
  <2>2. \/ n = V(p) /\ head[p] = None
        \/ n = S(p) /\ Single(p)
    BY <2>1 DEF OneAtATime, Grown
  <2>3. Separate(p)'
    BY <1>1, <2>1 DEF Separate, OneAtATime, RingTyped
  <2>4. CASE n = V(p) /\ head[p] = None
    <3>1. adding'[p] = V(p) /\ saw'[V(p)] = None /\ list'[V(p)] = p
             /\ next'[V(p)] = V(p) /\ prev'[V(p)] = V(p)
      BY <1>1, <2>1, <2>4 DEF RingTyped
    <3>2. Grown(p)'
      BY <2>1, <3>1 DEF Grown, Building, Scoping, V
    <3>3. QED
      BY <2>3, <3>2
  <2>5. CASE n = S(p) /\ Single(p)
    <3>1. /\ adding'[p] = S(p) /\ list'[S(p)] = p
          /\ saw'[S(p)] = V(p) /\ next'[S(p)] = V(p) /\ prev'[S(p)] = V(p)
      BY <1>1, <2>1, <2>5 DEF Single, RingTyped
    <3>2. head'[p] = V(p) /\ next'[V(p)] = V(p) /\ prev'[V(p)] = V(p) /\ list'[V(p)] = p
      BY <1>1, <2>1, <2>5 DEF Single, RingTyped
    <3>3. Single(p)'
      BY <3>2 DEF Single, V
    <3>4. Grown(p)'
      BY <2>1, <3>1, <3>3 DEF Grown, Building, Scoping, V, S
    <3>5. QED
      BY <2>3, <3>4
  <2>6. QED
    BY <2>2, <2>4, <2>5
<1>3. CASE Link(p)
  <2>1. /\ at[p] = "linking" /\ at'[p] = "returning"
        /\ UNCHANGED <<list, saw, adding>>
    BY <1>1, <1>3 DEF Link, Goto
  <2>2. \/ /\ n = V(p) /\ saw[V(p)] = None /\ list[V(p)] = p
           /\ next[V(p)] = V(p) /\ prev[V(p)] = V(p)
        \/ /\ n = S(p) /\ Single(p) /\ list[S(p)] = p
           /\ saw[S(p)] = V(p) /\ next[S(p)] = V(p) /\ prev[S(p)] = V(p)
    BY <2>1 DEF OneAtATime, Grown
  <2>3. CASE n = V(p) /\ saw[V(p)] = None /\ list[V(p)] = p
             /\ next[V(p)] = V(p) /\ prev[V(p)] = V(p)
    <3>1. head' = [head EXCEPT ![p] = V(p)] /\ UNCHANGED <<next, prev>>
      BY <1>1, <1>3, <2>3 DEF Link
    <3>2. Separate(p)'
      BY <1>1, <2>1, <3>1 DEF Separate, OneAtATime, RingTyped
    <3>3. head'[p] = V(p) /\ next'[V(p)] = V(p) /\ prev'[V(p)] = V(p) /\ list'[V(p)] = p
      BY <1>1, <2>1, <2>3, <3>1 DEF RingTyped
    <3>4. Single(p)'
      BY <3>3 DEF Single, V
    <3>5. Grown(p)'
      BY <2>1, <2>3, <3>4 DEF Grown, Building, Scoping, V, S
    <3>6. QED
      BY <3>2, <3>5
  <2>4. CASE n = S(p) /\ Single(p) /\ list[S(p)] = p
             /\ saw[S(p)] = V(p) /\ next[S(p)] = V(p) /\ prev[S(p)] = V(p)
    <3>1. /\ next' = [next EXCEPT ![V(p)] = S(p)] /\ prev' = [prev EXCEPT ![V(p)] = S(p)]
          /\ UNCHANGED head
      BY <1>1, <1>3, <2>4 DEF Link
    <3>2. Separate(p)'
      BY <1>1, <2>1, <3>1 DEF Separate, OneAtATime, RingTyped
    <3>3. /\ head'[p] = V(p) /\ next'[V(p)] = S(p) /\ next'[S(p)] = V(p)
          /\ list'[V(p)] = p /\ list'[S(p)] = p
      BY <1>1, <2>1, <2>4, <3>1 DEF Single, RingTyped
    <3>4. Ring(p)'
      BY <3>3 DEF Ring, V, S
    <3>5. Grown(p)'
      BY <2>1, <2>4, <3>4 DEF Grown, Building, Scoping, V, S
    <3>6. QED
      BY <3>2, <3>5
  <2>5. QED
    BY <2>2, <2>3, <2>4
<1>4. QED
  BY <1>2, <1>3

LEMMA StaysWhole ==
    ASSUME Typed, NEW p \in Calls, p \notin overlapped', OneAtATime(p), Step(p)
    PROVE  OneAtATime(p)'
<1>1. Apart(p)' /\ Alone(p)' /\ (at[p] \in Building => current = p)
  BY BuildsItsOwn
<1>2. CASE LookForHead(p) \/ Link(p)
  BY <1>1, <1>2, LinksItsOwn DEF OneAtATime
<1>3. ASSUME UNCHANGED ring PROVE Separate(p)' /\ SameRing(p) /\ (Single(p) => Single(p)')
                                  /\ (Ring(p) => Ring(p)')
  BY <1>3 DEF ring, OneAtATime, Separate, SameRing, Single, Ring, V, S
<1>4. BuildTyped /\ RingTyped /\ WalkTyped /\ Grown(p)
  BY DEF Typed, OneAtATime
<1>5. CASE ReadTarget(p) \/ SetScope(p) \/ StartSteps(p)
  <2>1. UNCHANGED ring
    BY <1>5 DEF ReadTarget, SetScope, StartSteps
  <2>2. head[p] = None /\ at'[p] \in {"scoping", "starting", "looking"}
        /\ (at'[p] = "looking" => adding'[p] = V(p))
    BY <1>4, <1>5 DEF Grown, ReadTarget, SetScope, StartSteps, Goto, BuildTyped, V, Scoping
  <2>3. Grown(p)'
    BY <2>1, <2>2 DEF Grown, ring, Scoping, Building, V
  <2>4. QED
    BY <1>1, <1>3, <2>1, <2>3 DEF OneAtATime
<1>6. CASE ReturnInstance(p)
  <2>1. UNCHANGED ring /\ at[p] = "returning"
    BY <1>6 DEF ReturnInstance
  <2>2. CASE adding[p] = V(p) /\ Single(p)
    <3>1. at'[p] = "looking" /\ adding'[p] = S(p)
      BY <1>4, <1>6, <2>2, NodeNames DEF ReturnInstance, Goto, BuildTyped, S
    <3>2. Grown(p)'
      BY <1>3, <2>1, <2>2, <3>1 DEF Grown, Building, Scoping, S
    <3>3. QED
      BY <1>1, <1>3, <2>1, <3>2 DEF OneAtATime
  <2>3. CASE adding[p] = S(p) /\ Ring(p)
    <3>1. at'[p] = "ending"
      BY <1>4, <1>6, <2>3, NodeNames DEF ReturnInstance, Goto, BuildTyped
    <3>2. Grown(p)'
      BY <1>3, <2>1, <2>3, <3>1 DEF Grown, Building, Scoping
    <3>3. QED
      BY <1>1, <1>3, <2>1, <3>2 DEF OneAtATime
  <2>4. QED
    BY <1>4, <2>1, <2>2, <2>3 DEF Grown
<1>7. CASE End(p)
  <2>1. UNCHANGED ring /\ at[p] = "ending" /\ at'[p] = "built" /\ hand[p] = p
        /\ built'[p] = [of |-> hand[p], first |-> head[hand[p]]]
    BY <1>4, <1>7 DEF End, Goto, BuildTyped, WalkTyped, OneAtATime, Alone, Building
  <2>2. Ring(p) /\ Ring(p)'
    BY <1>3, <1>4, <2>1 DEF Grown, Building, Scoping
  <2>3. built'[p] = [of |-> p, first |-> V(p)]
    BY <2>1, <2>2 DEF Ring
  <2>4. Grown(p)'
    BY <2>1, <2>2, <2>3 DEF Grown, Building, Scoping, V
  <2>5. QED
    BY <1>1, <1>3, <2>1, <2>4 DEF OneAtATime
<1>8. CASE RunStep(p) \/ Construct(p) \/ \E q \in Calls : Invoke(p, q)
  <2>1. UNCHANGED ring
    BY <1>8 DEF RunStep, Construct, Invoke
  <2>2. /\ at[p] \notin {"idle"} \cup Building /\ at'[p] \notin {"idle"} \cup Building
        /\ built'[p] = built[p]
    BY <1>4, <1>8 DEF RunStep, Construct, Invoke, Goto, BuildTyped, Building, Scoping
  <2>3. Ring(p) /\ Ring(p)' /\ built'[p] = [of |-> p, first |-> V(p)]
    BY <1>3, <1>4, <2>1, <2>2 DEF Grown
  <2>4. Grown(p)'
    BY <2>2, <2>3 DEF Grown, Building, Scoping, V
  <2>5. QED
    BY <1>1, <1>3, <2>1, <2>4 DEF OneAtATime
<1>9. QED
  BY <1>2, <1>5, <1>6, <1>7, <1>8 DEF Step

LEMMA UndisturbedStep == Typed /\ Undisturbed /\ [Next]_vars => Undisturbed'
<1> SUFFICES ASSUME Typed, Undisturbed, [Next]_vars, NEW p \in Calls, p \notin overlapped'
             PROVE  OneAtATime(p)'
  BY DEF Undisturbed
<1>1. ASSUME NEW c \in Calls, Create(c) \/ Step(c) PROVE OneAtATime(p)'
  <2>1. overlapped \subseteq overlapped'
    BY <1>1 DEF Create, Begin, Step, ReadTarget, SetScope, StartSteps, LookForHead, Link,
        ReturnInstance, End, Invoke, RunStep, Construct
  <2>2. OneAtATime(p)
    BY <2>1 DEF Undisturbed
  <2>3. QED
    BY <1>1, <2>2, OthersKeepOff, BeginsAlone, StaysWhole
<1>2. CASE UNCHANGED vars
  <2>1. OneAtATime(p) /\ UNCHANGED <<static, ring, at, hand, adding, built>>
    BY <1>2 DEF Undisturbed, vars
  <2>2. QED
    BY <2>1 DEF OneAtATime, Apart, Separate, Alone, Grown, Single, Ring, static, ring, V, S
<1>3. QED
  BY <1>1, <1>2 DEF Next

\* An invocation has run the steps of the nodes that it has passed.
Walked(c) ==
    /\ at[c] \in {"idle", "built"} \cup Building => ran[c] = <<>>
    /\ uses[c] \in Calls => built[uses[c]] # None
    /\ at[c] \in {"walking", "creating", "done"} => uses[c] \in Calls
    /\ at[c] = "walking" /\ uses[c] \notin overlapped =>
          \/ pos[c] = V(uses[c]) /\ ran[c] = <<>>
          \/ pos[c] = S(uses[c]) /\ ran[c] = <<"Validation">>
          \/ pos[c] = None /\ ran[c] = <<"Validation", "Storage">>
    /\ at[c] \in {"creating", "done"} /\ uses[c] \notin overlapped =>
          ran[c] = <<"Validation", "Storage", "Transformation">>

AllWalked == \A c \in Calls : Walked(c)

\* A built pipeline that nobody disturbed is a ring of its two nodes, which Follow goes round.
LEMMA FollowsTheRing ==
    ASSUME Typed, Undisturbed, NEW p \in Calls \ overlapped, built[p] # None
    PROVE  /\ built[p].first = V(p) /\ Follow(V(p)) = S(p) /\ Follow(S(p)) = None
           /\ StepOf(V(p)) = "Validation" /\ StepOf(S(p)) = "Storage"
<1>1. at[p] \notin {"idle"} \cup Building
  BY DEF Typed, WalkTyped
<1>2. Ring(p) /\ built[p] = [of |-> p, first |-> V(p)]
  BY <1>1 DEF Undisturbed, OneAtATime, Grown
<1>3. QED
  BY <1>2, NodeNames DEF Ring, Follow, StepOf

LEMMA StepsInOrder ==
    /\ Append(<<>>, "Validation") = <<"Validation">>
    /\ Append(<<"Validation">>, "Storage") = <<"Validation", "Storage">>
    /\ Append(<<"Validation", "Storage">>, "Transformation")
         = <<"Validation", "Storage", "Transformation">>
<1> USE DEF Steps
<1>1. <<"Validation">> \in Seq(Steps) /\ <<"Validation", "Storage">> \in Seq(Steps)
  OBVIOUS
<1>2. Append(<<"Validation">>, "Storage") = <<"Validation", "Storage">>
  <2> DEFINE s == Append(<<"Validation">>, "Storage")
  <2>1. s \in Seq(Steps) /\ Len(s) = 2 /\ s[1] = "Validation" /\ s[2] = "Storage"
    BY <1>1
  <2>2. \A i \in 1 .. 2 : s[i] = <<"Validation", "Storage">>[i]
    BY <2>1
  <2>3. QED
    BY <1>1, <2>1, <2>2, SeqEqual
<1>3. Append(<<"Validation", "Storage">>, "Transformation")
        = <<"Validation", "Storage", "Transformation">>
  <2> DEFINE s == Append(<<"Validation", "Storage">>, "Transformation")
             t == <<"Validation", "Storage", "Transformation">>
  <2>1. /\ s \in Seq(Steps) /\ Len(s) = 3
        /\ s[1] = "Validation" /\ s[2] = "Storage" /\ s[3] = "Transformation"
    BY <1>1
  <2>2. t \in Seq(Steps) /\ Len(t) = 3
    OBVIOUS
  <2>3. \A i \in 1 .. 3 : s[i] = t[i]
    BY <2>1
  <2>4. QED
    BY <2>1, <2>2, <2>3, SeqEqual
<1>4. QED
  BY <1>2, <1>3

LEMMA WalkedStep == Typed /\ Undisturbed /\ AllWalked /\ [Next]_vars => AllWalked'
<1> SUFFICES ASSUME Typed, Undisturbed, AllWalked, [Next]_vars, NEW d \in Calls
             PROVE  Walked(d)'
  BY DEF AllWalked
<1> DEFINE p == uses[d]
<1>1. Walked(d) /\ BuildTyped /\ WalkTyped
  BY DEF AllWalked, Typed
<1>2. ASSUME overlapped \subseteq overlapped', uses'[d] = uses[d], pos'[d] = pos[d],
             ran'[d] = ran[d], \A q \in Calls : built[q] # None => built'[q] = built[q],
             \/ at'[d] = at[d]
             \/ at[d] \in {"idle"} \cup Building /\ at'[d] \in {"built"} \cup Building
             \/ at'[d] = "failed"
             \/ at[d] = "creating" /\ at'[d] = "done"
      PROVE  Walked(d)'
  BY <1>1, <1>2 DEF Walked, V, S, Building, Scoping
<1>3. ASSUME NEW c \in Calls, Create(c) \/ ReadTarget(c) \/ SetScope(c) \/ StartSteps(c)
               \/ LookForHead(c) \/ Link(c) \/ ReturnInstance(c)
      PROVE  Walked(d)'
  <2>1. /\ overlapped \subseteq overlapped' /\ UNCHANGED <<uses, pos, ran, built>>
        /\ \/ at'[d] = at[d]
           \/ at[d] \in {"idle"} \cup Building /\ at'[d] \in {"built"} \cup Building
    BY <1>1, <1>3 DEF Create, Begin, ReadTarget, SetScope, StartSteps, LookForHead, Link,
        ReturnInstance, Goto, walk, BuildTyped, Building, Scoping
  <2>2. QED
    BY <1>2, <2>1
<1>4. ASSUME NEW c \in Calls, End(c) PROVE Walked(d)'
  <2>1. /\ UNCHANGED <<overlapped, uses, pos, ran>>
        /\ \/ at'[d] = at[d]
           \/ at[d] \in {"idle"} \cup Building /\ at'[d] \in {"built"} \cup Building
    BY <1>1, <1>4 DEF End, Goto, walk, BuildTyped, Building, Scoping
  <2>2. \A q \in Calls : built[q] # None => built'[q] = built[q]
    BY <1>1, <1>4 DEF End, WalkTyped, Building
  <2>3. QED
    BY <1>2, <2>1, <2>2
<1>5. ASSUME NEW c \in Calls, Construct(c) PROVE Walked(d)'
  <2>1. /\ UNCHANGED <<overlapped, uses, pos, ran, built>>
        /\ \/ at'[d] = at[d]
           \/ at'[d] = "failed"
           \/ at[d] = "creating" /\ at'[d] = "done"
    BY <1>1, <1>5 DEF Construct, Goto, walk, BuildTyped
  <2>2. QED
    BY <1>2, <2>1
<1>6. ASSUME NEW c \in Calls, NEW q \in Calls, Invoke(c, q) PROVE Walked(d)'
  <2>1. CASE c # d
    <3>1. UNCHANGED <<overlapped, built, ran>> /\ at'[d] = at[d] /\ uses'[d] = uses[d]
          /\ pos'[d] = pos[d]
      BY <1>1, <1>6, <2>1 DEF Invoke, Goto, BuildTyped, WalkTyped
    <3>2. QED
      BY <1>2, <3>1
  <2>2. CASE c = d
    <3>1. /\ at'[d] = "walking" /\ uses'[d] = q /\ built[q] # None /\ ran[d] = <<>>
          /\ pos'[d] = built[q].first /\ UNCHANGED <<overlapped, built, ran>>
      BY <1>1, <1>6, <2>2 DEF Invoke, Pipelines, Goto, BuildTyped, WalkTyped, Walked
    <3>2. q \notin overlapped => pos'[d] = V(q)
      BY <3>1, FollowsTheRing
    <3>3. QED
      BY <3>1, <3>2 DEF Walked, V, S, Building, Scoping
  <2>3. QED
    BY <2>1, <2>2
<1>7. ASSUME NEW c \in Calls, RunStep(c) PROVE Walked(d)'
  <2>1. UNCHANGED <<overlapped, built, uses>> /\ at[c] = "walking"
    BY <1>7 DEF RunStep
  <2>2. CASE c # d
    <3>1. at'[d] = at[d] /\ ran'[d] = ran[d] /\ pos'[d] = pos[d]
      BY <1>1, <1>7, <2>2 DEF RunStep, Goto, BuildTyped, WalkTyped
    <3>2. QED
      BY <1>2, <2>1, <3>1
  <2>3. CASE c = d /\ current \notin scoped
    <3>1. at'[d] = "failed" /\ UNCHANGED <<pos, ran>>
      BY <1>1, <1>7, <2>3 DEF RunStep, Goto, BuildTyped
    <3>2. QED
      BY <1>2, <2>1, <3>1
  <2>4. CASE c = d /\ current \in scoped
    <3>1. /\ ran' = [ran EXCEPT ![d] = Append(ran[d], StepOf(pos[d]))]
          /\ pos' = [pos EXCEPT ![d] = Follow(pos[d])]
          /\ at' = IF pos[d] = None THEN [at EXCEPT ![d] = "creating"] ELSE at
      BY <1>7, <2>4 DEF RunStep, Goto
    <3>2. /\ ran'[d] = Append(ran[d], StepOf(pos[d])) /\ pos'[d] = Follow(pos[d])
          /\ at'[d] = IF pos[d] = None THEN "creating" ELSE "walking"
      BY <1>1, <2>1, <2>4, <3>1 DEF BuildTyped, WalkTyped
    <3>3. p \in Calls /\ built[p] # None
      BY <1>1, <2>1, <2>4 DEF Walked
    <3>4. CASE p \in overlapped
      BY <2>1, <3>2, <3>3, <3>4 DEF Walked, Building, Scoping
    <3>5. CASE p \notin overlapped
      <4>1. /\ Follow(V(p)) = S(p) /\ Follow(S(p)) = None
            /\ StepOf(V(p)) = "Validation" /\ StepOf(S(p)) = "Storage"
        BY <3>3, <3>5, FollowsTheRing
      <4>2. CASE pos[d] = V(p) /\ ran[d] = <<>>
        <5>1. ran'[d] = Append(<<>>, "Validation")
          BY <3>2, <4>1, <4>2
        <5>2. ran'[d] = <<"Validation">>
          BY <5>1, StepsInOrder
        <5>3. pos'[d] = S(p) /\ at'[d] = "walking"
          BY <3>2, <3>3, <4>1, <4>2, NodeNames
        <5>4. QED
          BY <2>1, <3>3, <5>2, <5>3 DEF Walked, Building, Scoping, S, V
      <4>3. CASE pos[d] = S(p) /\ ran[d] = <<"Validation">>
        <5>1. ran'[d] = Append(<<"Validation">>, "Storage")
          BY <3>2, <4>1, <4>3
        <5>2. ran'[d] = <<"Validation", "Storage">>
          BY <5>1, StepsInOrder
        <5>3. pos'[d] = None /\ at'[d] = "walking"
          BY <3>2, <3>3, <4>1, <4>3, NodeNames
        <5>4. QED
          BY <2>1, <3>3, <5>2, <5>3 DEF Walked, Building, Scoping, S, V
      <4>4. CASE pos[d] = None /\ ran[d] = <<"Validation", "Storage">>
        <5>1. /\ ran'[d] = <<"Validation", "Storage", "Transformation">>
              /\ at'[d] = "creating"
          BY <3>2, <4>4, StepsInOrder DEF StepOf
        <5>2. QED
          BY <2>1, <3>3, <5>1 DEF Walked, Building, Scoping
      <4>5. QED
        BY <1>1, <2>1, <2>4, <3>5, <4>2, <4>3, <4>4 DEF Walked
    <3>6. QED
      BY <3>4, <3>5
  <2>5. QED
    BY <2>2, <2>3, <2>4
<1>8. CASE UNCHANGED vars
  BY <1>2, <1>8 DEF vars, walk
<1>9. QED
  BY <1>3, <1>4, <1>5, <1>6, <1>7, <1>8 DEF Next, Step

LEMMA AloneAtFirst == Init => Undisturbed /\ AllWalked
<1> SUFFICES ASSUME Init PROVE Undisturbed /\ AllWalked
  OBVIOUS
<1>1. Undisturbed
  BY NodeNames, NodesAreOwn DEF Init, Undisturbed, OneAtATime, Apart, Separate, Alone, Grown,
     Building, Scoping
<1>2. AllWalked
  BY NodeNames DEF Init, AllWalked, Walked, Building
<1>3. QED
  BY <1>1, <1>2

\* No call that does not overlap with the building of a pipeline can get at its list, so it
\* is the ring of its two steps for good (MessageToEventTransformHandler.cs:32-36).
THEOREM WholeIfAlone == SafetySpec => []AloneIsWhole
<1>1. AllWalked => AloneIsWhole
  BY DEF AllWalked, Walked, AloneIsWhole
<1>2. QED
  BY <1>1, AloneAtFirst, UndisturbedStep, WalkedStep, BuilderTyped, PTL DEF SafetySpec

-----------------------------------------------------------------------------
(* Going round *)

Joined == {n \in Nodes : list[n] # None}
NoRace ==
    \A m, n \in Joined : list[m] = list[n] /\ saw[m] = None /\ saw[n] = None => m = n

\* A node joins a list once.
FreshOf(c) ==
    /\ at[c] \in {"idle", "starting"} \cup Scoping => V(c) \notin Joined /\ S(c) \notin Joined
    /\ at[c] \in {"looking", "linking", "returning"} /\ adding[c] = V(c) => S(c) \notin Joined
    /\ at[c] = "looking" => adding[c] \notin Joined
    /\ at[c] = "linking" => list[adding[c]] = hand[c]
Fresh == \A c \in Calls : FreshOf(c)

Headed(n) == n \in Joined /\ head[list[n]] # None

\* In the order f in which the nodes looked for the head, k of them so far, every link but
\* the one back to the founder of the list leads onwards, and a node's predecessor is older.
Ranked(f, k) ==
    /\ \A n \in Joined :
          /\ f[n] < k
          /\ next[n] \in Joined /\ list[next[n]] = list[n]
          /\ saw[next[n]] # None => f[n] < f[next[n]]
          /\ prev[n] \in Joined /\ list[prev[n]] = list[n]
          /\ saw[n] # None => /\ saw[n] \in Joined /\ list[saw[n]] = list[n]
                              /\ saw[saw[n]] = None /\ f[prev[n]] < f[n]
    /\ \A i \in Calls : head[i] # None =>
          head[i] \in Joined /\ list[head[i]] = i /\ saw[head[i]] = None

Grounded == \A p \in Pipelines : built[p].first # None => Headed(built[p].first)

\* An invocation has run no more steps than there are nodes older than the one it is at.
Before(f, n) == {m \in Joined : f[m] < f[n]}
PacedAt(f, c) ==
    /\ at[c] = "walking" /\ pos[c] # None =>
          Headed(pos[c]) /\ Len(ran[c]) <= Cardinality(Before(f, pos[c]))
    /\ at[c] = "walking" /\ pos[c] = None => Len(ran[c]) <= Cardinality(Nodes)
    /\ Len(ran[c]) <= Cardinality(Nodes) + 1
Paced(f) == \A c \in Calls : PacedAt(f, c)

Orderly ==
    NoRace => /\ Grounded
              /\ \E k \in Nat : \E f \in [Nodes -> Nat] : Ranked(f, k) /\ Paced(f)

LEMMA NodesAreFinite == IsFiniteSet(Nodes) /\ Cardinality(Nodes) \in Nat
<1>1. IsFiniteSet({"Validation", "Storage"})
  <2>1. IsFiniteSet({})
    BY FS_EmptySet
  <2>2. {"Validation", "Storage"} = ({} \cup {"Validation"}) \cup {"Storage"}
    OBVIOUS
  <2>3. QED
    BY <2>1, <2>2, FS_AddElement
<1>2. IsFiniteSet(Nodes)
  BY <1>1, FS_Product, PipelineAssumption DEF PipelineAssumption, Nodes
<1>3. QED
  BY <1>2, FS_CardinalityType

LEMMA OneMore ==
    ASSUME NEW B \in SUBSET Nodes, NEW A \in SUBSET B, NEW x \in B, x \notin A
    PROVE  Cardinality(A) + 1 <= Cardinality(B) /\ Cardinality(A) \in Nat /\ Cardinality(B) \in Nat
<1>1. IsFiniteSet(B) /\ Cardinality(B) \in Nat
  BY NodesAreFinite, FS_Subset, FS_CardinalityType
<1>2. IsFiniteSet(A) /\ Cardinality(A) \in Nat
  BY <1>1, FS_Subset, FS_CardinalityType
<1>3. Cardinality(A \cup {x}) = Cardinality(A) + 1
  BY <1>2, FS_AddElement
<1>4. Cardinality(A \cup {x}) <= Cardinality(B)
  BY <1>1, FS_Subset
<1>5. QED
  BY <1>1, <1>2, <1>3, <1>4

LEMMA BeforeIsFinite ==
    ASSUME NEW f, NEW n
    PROVE  Cardinality(Before(f, n)) \in Nat /\ Cardinality(Before(f, n)) <= Cardinality(Nodes)
<1>1. Before(f, n) \in SUBSET Nodes
  BY DEF Before, Joined
<1>2. QED
  BY <1>1, NodesAreFinite, FS_Subset, FS_CardinalityType

LEMMA FreshStep == Typed /\ Fresh /\ [Next]_vars => Fresh'
<1> SUFFICES ASSUME Typed, Fresh, [Next]_vars, NEW d \in Calls PROVE FreshOf(d)'
  BY DEF Fresh
<1>1. BuildTyped /\ RingTyped /\ FreshOf(d)
  BY DEF Typed, Fresh
<1>2. ASSUME \A n \in NodesOf(d) : list'[n] = list[n], adding'[d] = adding[d],
             hand'[d] = hand[d], at'[d] = at[d] PROVE FreshOf(d)'
  BY <1>1, <1>2, NodeNames DEF FreshOf, Joined, BuildTyped, V, S
<1>3. ASSUME NEW c \in Calls, Create(c) \/ Step(c), c # d PROVE FreshOf(d)'
  <2>1. adding'[d] = adding[d] /\ hand'[d] = hand[d] /\ at'[d] = at[d]
    <3>1. Create(c) \/ Step(c)
      BY <1>3
    <3>2. QED
      BY <1>1, <1>3, <3>1 DEF Create, Begin, Step, ReadTarget, SetScope, StartSteps, LookForHead,
          Link, ReturnInstance, End, Invoke, RunStep, Construct, Goto, Take, BuildTyped
  <2>2. CASE LookForHead(c)
    <3>1. adding[c] \in NodesOf(c) /\ list' = [list EXCEPT ![adding[c]] = hand[c]]
      BY <1>1, <2>2 DEF LookForHead, BuildTyped
    <3>2. \A n \in NodesOf(d) : list'[n] = list[n]
      BY <1>1, <1>3, <3>1, NodesAreOwn DEF RingTyped
    <3>3. QED
      BY <1>2, <2>1, <3>2
  <2>3. CASE UNCHANGED list
    BY <1>2, <2>1, <2>3
  <2>4. QED
    BY <1>3, <2>2, <2>3 DEF Create, Begin, Step, ReadTarget, SetScope, StartSteps, Link,
        ReturnInstance, End, Invoke, RunStep, Construct, ring
<1>4. CASE Create(d) \/ ReadTarget(d) \/ SetScope(d) \/ StartSteps(d)
  <2>1. /\ UNCHANGED list /\ V(d) \notin Joined /\ S(d) \notin Joined
        /\ at'[d] \in {"created", "scoping", "starting", "looking"}
        /\ at'[d] = "looking" => adding'[d] = V(d)
    BY <1>1, <1>4 DEF Create, Begin, ReadTarget, SetScope, StartSteps, FreshOf, ring, Goto,
        BuildTyped, V, Scoping
  <2>2. QED
    BY <2>1, NodeNames DEF FreshOf, Joined, V, S
<1>5. CASE LookForHead(d)
  <2>1. /\ at[d] = "looking" /\ at'[d] = "linking" /\ UNCHANGED <<adding, hand>>
        /\ list' = [list EXCEPT ![adding[d]] = hand[d]] /\ adding[d] \in Nodes
    BY <1>1, <1>5, NodesAreOwn DEF LookForHead, Goto, BuildTyped
  <2>2. list'[adding[d]] = hand[d]
    BY <1>1, <2>1 DEF RingTyped
  <2>3. adding[d] = V(d) => S(d) \notin Joined'
    BY <1>1, <2>1, NodeNames DEF FreshOf, Joined, RingTyped
  <2>4. QED
    BY <2>1, <2>2, <2>3 DEF FreshOf, Scoping, V, S
<1>6. CASE Link(d)
  <2>1. at[d] = "linking" /\ at'[d] = "returning" /\ UNCHANGED <<adding, list>>
    BY <1>1, <1>6 DEF Link, Goto, BuildTyped
  <2>2. QED
    BY <1>1, <2>1 DEF FreshOf, Scoping, V, S, Joined
<1>7. CASE ReturnInstance(d)
  <2>1. at[d] = "returning" /\ UNCHANGED list
    BY <1>7 DEF ReturnInstance, ring
  <2>2. CASE adding[d][2] = "Validation"
    <3>1. adding[d] = V(d) /\ adding'[d] = S(d) /\ at'[d] = "looking"
      BY <1>1, <1>7, <2>1, <2>2, NodeNames DEF ReturnInstance, Goto, BuildTyped, S
    <3>2. QED
      BY <1>1, <2>1, <3>1, NodeNames DEF FreshOf, Scoping, V, S, Joined
  <2>3. CASE adding[d][2] # "Validation"
    BY <1>1, <1>7, <2>3 DEF ReturnInstance, Goto, BuildTyped, FreshOf, Scoping
  <2>4. QED
    BY <2>2, <2>3
<1>8. CASE End(d) \/ RunStep(d) \/ Construct(d) \/ \E q \in Calls : Invoke(d, q)
  <2>1. at'[d] \notin {"idle", "starting", "looking", "linking", "returning"} \cup Scoping
    BY <1>1, <1>8 DEF End, RunStep, Construct, Invoke, Goto, BuildTyped, Scoping
  <2>2. QED
    BY <2>1 DEF FreshOf
<1>9. CASE UNCHANGED vars
  BY <1>2, <1>9 DEF vars, ring
<1>10. QED
  BY <1>3, <1>4, <1>5, <1>6, <1>7, <1>8, <1>9 DEF Next, Step

LEMMA NodeOfTheCall ==
    ASSUME Typed, Fresh, NEW c \in Calls, LookForHead(c) \/ Link(c)
    PROVE  /\ adding[c] \in Nodes /\ hand[c] \in Calls /\ RingTyped /\ None \notin Nodes
           /\ LookForHead(c) => adding[c] \notin Joined
           /\ Link(c) => adding[c] \in Joined /\ list[adding[c]] = hand[c]
<1>1. FreshOf(c) /\ BuildTyped /\ RingTyped
  BY DEF Fresh, Typed
<1>2. at[c] \in {"looking", "linking"} /\ adding[c] \in Nodes /\ hand[c] \in Calls
  BY <1>1, NodesAreOwn DEF BuildTyped, LookForHead, Link
<1>3. QED
  BY <1>1, <1>2, NodesAreOwn DEF LookForHead, Link, FreshOf, Joined

\* What a node has found stays with it, so a race that has been is never undone.
LEMMA RaceIsForGood == Typed /\ Fresh /\ [Next]_vars /\ NoRace' => NoRace
<1> SUFFICES ASSUME Typed, Fresh, [Next]_vars, NoRace' PROVE NoRace
  OBVIOUS
<1>1. CASE UNCHANGED <<list, saw>>
  BY <1>1 DEF NoRace, Joined
<1>2. ASSUME NEW c \in Calls, LookForHead(c) PROVE NoRace
  <2>1. /\ list' = [list EXCEPT ![adding[c]] = hand[c]]
        /\ saw' = [saw EXCEPT ![adding[c]] = head[hand[c]]]
        /\ RingTyped /\ adding[c] \notin Joined
    BY <1>2, NodeOfTheCall DEF LookForHead
  <2>2. \A m \in Joined : m \in Joined' /\ list'[m] = list[m] /\ saw'[m] = saw[m]
    BY <2>1 DEF Joined, RingTyped
  <2>3. QED
    BY <2>2 DEF NoRace
<1>3. QED
  BY <1>1, <1>2 DEF Next, Create, Begin, Step, ReadTarget, SetScope, StartSteps, Link,
      ReturnInstance, End, Invoke, RunStep, Construct, ring, vars

\* A node that looks for the head comes last in the order.
LEMMA RankedByLook ==
    ASSUME Typed, Fresh, NEW k \in Nat, NEW f \in [Nodes -> Nat], Ranked(f, k), Grounded,
           NEW c \in Calls, LookForHead(c)
    PROVE  \E g \in [Nodes -> Nat] :
              /\ Ranked(g, k + 1)' /\ Grounded'
              /\ \A n \in Joined : Headed(n)' = Headed(n) /\ Before(f, n) \in SUBSET Before(g, n)'
<1> DEFINE n == adding[c]
           i == hand[c]
           h == head[i]
<1> PICK g \in [Nodes -> Nat] : g = [f EXCEPT ![n] = k]
  BY NodeOfTheCall
<1>1. /\ n \in Nodes /\ i \in Calls /\ i # None /\ n \notin Joined /\ RingTyped /\ None \notin Nodes
      /\ g[n] = k
  BY NodeOfTheCall, NodesAreOwn
<1>2. /\ list' = [list EXCEPT ![n] = i] /\ saw' = [saw EXCEPT ![n] = h]
      /\ next' = [next EXCEPT ![n] = IF h = None THEN n ELSE h]
      /\ prev' = [prev EXCEPT ![n] = IF h = None THEN n ELSE prev[h]]
      /\ UNCHANGED <<head, built>>
  BY DEF LookForHead
<1>3. \A m \in Joined : /\ m # n /\ list'[m] = list[m] /\ saw'[m] = saw[m] /\ next'[m] = next[m]
                        /\ prev'[m] = prev[m] /\ g[m] = f[m] /\ m \in Joined'
  BY <1>1, <1>2 DEF Joined, RingTyped
<1>4. /\ Joined' = Joined \cup {n} /\ list'[n] = i /\ saw'[n] = h
      /\ next'[n] = (IF h = None THEN n ELSE h)
      /\ prev'[n] = (IF h = None THEN n ELSE prev[h])
  BY <1>1, <1>2 DEF Joined, RingTyped
<1>5. h # None => /\ h \in Joined /\ list[h] = i /\ saw[h] = None
                  /\ prev[h] \in Joined /\ list[prev[h]] = i /\ f[prev[h]] < k
  BY <1>1 DEF Ranked
<1>6. /\ g[n] < k + 1
      /\ next'[n] \in Joined' /\ list'[next'[n]] = list'[n] /\ saw'[next'[n]] = None
      /\ prev'[n] \in Joined' /\ list'[prev'[n]] = list'[n]
      /\ saw'[n] # None => /\ saw'[n] \in Joined' /\ list'[saw'[n]] = list'[n]
                           /\ saw'[saw'[n]] = None /\ g[prev'[n]] < g[n]
  <2>1. CASE h = None
    BY <1>1, <1>4, <2>1
  <2>2. CASE h # None
    BY <1>1, <1>3, <1>4, <1>5, <2>2
  <2>3. QED
    BY <2>1, <2>2
<1>7. \A m \in Joined :
          /\ g[m] < k + 1
          /\ next'[m] \in Joined' /\ list'[next'[m]] = list'[m]
          /\ saw'[next'[m]] # None => g[m] < g[next'[m]]
          /\ prev'[m] \in Joined' /\ list'[prev'[m]] = list'[m]
          /\ saw'[m] # None => /\ saw'[m] \in Joined' /\ list'[saw'[m]] = list'[m]
                               /\ saw'[saw'[m]] = None /\ g[prev'[m]] < g[m]
  <2> SUFFICES ASSUME NEW m \in Joined
               PROVE  /\ g[m] < k + 1
                      /\ next'[m] \in Joined' /\ list'[next'[m]] = list'[m]
                      /\ saw'[next'[m]] # None => g[m] < g[next'[m]]
                      /\ prev'[m] \in Joined' /\ list'[prev'[m]] = list'[m]
                      /\ saw'[m] # None => /\ saw'[m] \in Joined' /\ list'[saw'[m]] = list'[m]
                                           /\ saw'[saw'[m]] = None /\ g[prev'[m]] < g[m]
    OBVIOUS
  <2>1. /\ f[m] < k /\ f[m] \in Nat
        /\ next[m] \in Joined /\ list[next[m]] = list[m]
        /\ saw[next[m]] # None => f[m] < f[next[m]]
        /\ prev[m] \in Joined /\ list[prev[m]] = list[m]
        /\ saw[m] # None => /\ saw[m] \in Joined /\ list[saw[m]] = list[m]
                            /\ saw[saw[m]] = None /\ f[prev[m]] < f[m]
    BY DEF Ranked, Joined
  <2>2. QED
    BY <1>3, <2>1
<1>8. \A j \in Calls : head'[j] # None =>
          head'[j] \in Joined' /\ list'[head'[j]] = j /\ saw'[head'[j]] = None
  BY <1>2, <1>3 DEF Ranked
<1>9. Ranked(g, k + 1)'
  BY <1>4, <1>6, <1>7, <1>8 DEF Ranked
<1>10. \A m \in Joined : Headed(m)' = Headed(m)
  BY <1>2, <1>3 DEF Headed
<1>11. Grounded'
  BY <1>2, <1>10 DEF Grounded, Headed, Pipelines
<1>12. \A m \in Joined : Before(f, m) \in SUBSET Before(g, m)'
  BY <1>3 DEF Before
<1>13. QED
  BY <1>1, <1>9, <1>10, <1>11, <1>12

\* A node is linked behind an older one, or made the head of a list that had none.
LEMMA RankedByLink ==
    ASSUME Typed, Fresh, NEW k \in Nat, NEW f \in [Nodes -> Nat], Ranked(f, k), Grounded,
           NEW c \in Calls, Link(c)
    PROVE  /\ Ranked(f, k)' /\ Grounded'
           /\ \A n \in Joined : (Headed(n) => Headed(n)') /\ Before(f, n) \in SUBSET Before(f, n)'
<1> DEFINE n == adding[c]
<1>1. /\ n \in Joined /\ n \in Nodes /\ hand[c] \in Calls /\ list[n] = hand[c] /\ RingTyped
      /\ None \notin Nodes
  BY NodeOfTheCall
<1>2. UNCHANGED <<list, saw, built>> /\ Joined' = Joined
  BY DEF Link, Joined
<1>3. \A m \in Joined : Before(f, m) \in SUBSET Before(f, m)'
  BY <1>2 DEF Before
<1>4. CASE saw[n] = None
  <2>1. head' = [head EXCEPT ![hand[c]] = n] /\ UNCHANGED <<next, prev>>
    BY <1>4 DEF Link
  <2>2. \A m \in Joined : Headed(m) => Headed(m)'
    BY <1>1, <1>2, <2>1 DEF Headed, RingTyped
  <2>3. Grounded'
    BY <1>2, <2>2 DEF Grounded, Headed, Pipelines
  <2>4. Ranked(f, k)'
    BY <1>1, <1>2, <1>4, <2>1 DEF Ranked, RingTyped
  <2>5. QED
    BY <1>3, <2>2, <2>3, <2>4
<1>5. CASE saw[n] # None
  <2>1. /\ next' = [next EXCEPT ![prev[n]] = n] /\ prev' = [prev EXCEPT ![saw[n]] = n]
        /\ UNCHANGED head
    BY <1>5 DEF Link
  <2>2. /\ prev[n] \in Joined /\ list[prev[n]] = list[n] /\ f[prev[n]] < f[n]
        /\ saw[n] \in Joined /\ list[saw[n]] = list[n] /\ saw[saw[n]] = None
    BY <1>1, <1>5 DEF Ranked
  <2>3. \A m \in Joined : /\ next'[m] = (IF m = prev[n] THEN n ELSE next[m])
                          /\ prev'[m] = (IF m = saw[n] THEN n ELSE prev[m])
    BY <1>1, <2>1 DEF RingTyped, Joined
  <2>4. \A m \in Joined : Headed(m) => Headed(m)'
    BY <1>2, <2>1 DEF Headed
  <2>5. Grounded'
    BY <1>2, <2>4 DEF Grounded, Headed, Pipelines
  <2>6. Ranked(f, k)'
    <3>1. \A m \in Joined :
             /\ f[m] < k
             /\ next'[m] \in Joined /\ list[next'[m]] = list[m]
             /\ saw[next'[m]] # None => f[m] < f[next'[m]]
             /\ prev'[m] \in Joined /\ list[prev'[m]] = list[m]
             /\ saw[m] # None => /\ saw[m] \in Joined /\ list[saw[m]] = list[m]
                                 /\ saw[saw[m]] = None /\ f[prev'[m]] < f[m]
      BY <1>1, <2>2, <2>3 DEF Ranked
    <3>2. \A j \in Calls : head'[j] # None =>
             head'[j] \in Joined /\ list[head'[j]] = j /\ saw[head'[j]] = None
      BY <2>1 DEF Ranked
    <3>3. QED
      BY <1>2, <3>1, <3>2 DEF Ranked
  <2>7. QED
    BY <1>3, <2>4, <2>5, <2>6
<1>6. QED
  BY <1>4, <1>5

\* An invocation moves to a node further on in the order, or leaves the list.
LEMMA PacedByRun ==
    ASSUME Typed, NoRace, NEW k \in Nat, NEW f \in [Nodes -> Nat], Ranked(f, k), Paced(f),
           NEW c \in Calls, RunStep(c)
    PROVE  Paced(f)'
<1>1. BuildTyped /\ RingTyped /\ WalkTyped /\ PacedAt(f, c)
  BY DEF Typed, Paced
<1>2. /\ at[c] = "walking" /\ UNCHANGED ring /\ ran[c] \in Seq(Steps)
      /\ Len(ran[c]) \in Nat /\ Cardinality(Nodes) \in Nat
  BY <1>1, NodesAreFinite DEF RunStep, WalkTyped
<1>3. (\A n : Headed(n)' = Headed(n)) /\ (\A n : Before(f, n)' = Before(f, n))
  BY <1>2 DEF ring, Headed, Before, Joined
<1>4. ASSUME NEW d \in Calls, d # c PROVE PacedAt(f, d)'
  <2>1. at'[d] = at[d] /\ pos'[d] = pos[d] /\ ran'[d] = ran[d]
    BY <1>1, <1>4 DEF RunStep, Goto, BuildTyped, WalkTyped
  <2>2. QED
    BY <1>3, <2>1 DEF Paced, PacedAt
<1>5. PacedAt(f, c)'
  <2>1. CASE current \notin scoped
    <3>1. at'[c] = "failed" /\ UNCHANGED <<pos, ran>>
      BY <1>1, <2>1 DEF RunStep, Goto, BuildTyped
    <3>2. QED
      BY <1>1, <3>1 DEF PacedAt
  <2>2. CASE current \in scoped
    <3>1. /\ ran' = [ran EXCEPT ![c] = Append(ran[c], StepOf(pos[c]))]
          /\ pos' = [pos EXCEPT ![c] = Follow(pos[c])]
          /\ at' = IF pos[c] = None THEN [at EXCEPT ![c] = "creating"] ELSE at
      BY <2>2 DEF RunStep, Goto
    <3>2. /\ ran'[c] = Append(ran[c], StepOf(pos[c])) /\ pos'[c] = Follow(pos[c])
          /\ at'[c] = IF pos[c] = None THEN "creating" ELSE "walking"
      BY <1>1, <1>2, <3>1 DEF BuildTyped, WalkTyped
    <3>3. Len(ran'[c]) = Len(ran[c]) + 1
      <4>1. StepOf(pos[c]) \in Steps
        BY <1>1, NodesAreOwn DEF StepOf, Steps, WalkTyped
      <4>2. QED
        BY <1>2, <3>2, <4>1
    <3>4. CASE pos[c] = None
      BY <1>1, <1>2, <3>2, <3>3, <3>4 DEF PacedAt
    <3>5. CASE pos[c] # None
      <4> PICK x : x = pos[c]
        OBVIOUS
      <4> PICK y : y = next[x]
        OBVIOUS
      <4>1. Headed(x) /\ Len(ran[c]) <= Cardinality(Before(f, x))
        BY <1>1, <1>2, <3>5 DEF PacedAt
      <4>2. x \in Nodes /\ x \in Joined /\ head[list[x]] # None /\ x \notin Before(f, x)
            /\ list[x] \in Calls /\ Before(f, x) \in SUBSET Nodes /\ f[x] \in Nat
        BY <1>1, <4>1 DEF Headed, Joined, RingTyped, Before
      <4>3. Cardinality(Before(f, x)) + 1 <= Cardinality(Nodes) /\ Cardinality(Before(f, x)) \in Nat
        BY <4>2, OneMore
      <4>4. CASE y = head[list[x]]
        <5>1. pos'[c] = None
          BY <3>2, <4>4 DEF Follow
        <5>2. Len(ran'[c]) <= Cardinality(Nodes)
          BY <1>2, <3>3, <4>1, <4>3
        <5>3. QED
          BY <1>2, <3>3, <5>1, <5>2 DEF PacedAt
      <4>5. CASE y # head[list[x]]
        <5>1. pos'[c] = y
          BY <3>2, <3>5, <4>5 DEF Follow
        <5>2. y \in Joined /\ list[y] = list[x] /\ (saw[y] # None => f[x] < f[y]) /\ f[y] \in Nat
          BY <4>2 DEF Ranked, Joined
        <5>3. /\ head[list[x]] \in Joined /\ list[head[list[x]]] = list[x]
              /\ saw[head[list[x]]] = None
          BY <4>2 DEF Ranked
        <5>4. f[x] < f[y]
          BY <4>5, <5>2, <5>3 DEF NoRace
        <5>5. Before(f, x) \in SUBSET Before(f, y) /\ x \in Before(f, y)
              /\ Before(f, y) \in SUBSET Nodes
          BY <4>2, <5>2, <5>4 DEF Before, Joined
        <5>6. Cardinality(Before(f, x)) + 1 <= Cardinality(Before(f, y))
              /\ Cardinality(Before(f, y)) \in Nat
          BY <4>2, <5>5, OneMore
        <5>7. Cardinality(Before(f, y)) <= Cardinality(Nodes)
          BY BeforeIsFinite
        <5>8. Len(ran'[c]) <= Cardinality(Before(f, y))
          BY <1>2, <3>3, <4>1, <4>3, <5>6
        <5>9. Headed(y)
          BY <4>2, <5>2 DEF Headed
        <5>10. y # None /\ Len(ran'[c]) <= Cardinality(Nodes) + 1 /\ Before(f, y)' = Before(f, y)
               /\ Headed(y)'
          <6>1. y # None
            BY <5>2, NodesAreOwn DEF Joined
          <6>2. Len(ran'[c]) <= Cardinality(Nodes) + 1
            BY <1>2, <3>3, <5>6, <5>7, <5>8
          <6>3. QED
            BY <1>3, <5>9, <6>1, <6>2
        <5>11. QED
          BY <1>3, <5>1, <5>8, <5>9, <5>10 DEF PacedAt
      <4>6. QED
        BY <4>4, <4>5
    <3>6. QED
      BY <3>4, <3>5
  <2>3. QED
    BY <2>1, <2>2
<1>6. QED
  BY <1>4, <1>5 DEF Paced

\* A step that leaves the lists alone, and that moves no invocation but onto a node whose
\* list has a head.
LEMMA OrderlyByRest ==
    ASSUME Typed, AllWalked, NoRace, Orderly, UNCHANGED ring,
           NEW c \in Calls, Create(c) \/ Step(c), ~RunStep(c)
    PROVE  Orderly'
<1>1. BuildTyped /\ WalkTyped /\ Grounded
  BY DEF Typed, Orderly
<1>2. PICK k \in Nat, f \in [Nodes -> Nat] : Ranked(f, k) /\ Paced(f)
  BY DEF Orderly
<1>3. /\ (\A n : Headed(n)' = Headed(n)) /\ (\A n : Before(f, n)' = Before(f, n))
      /\ Ranked(f, k)'
  BY <1>2 DEF ring, Headed, Before, Ranked, Joined
<1>4. Grounded'
  <2>1. CASE End(c)
    <3>1. /\ built' = [built EXCEPT ![c] = [of |-> hand[c], first |-> head[hand[c]]]]
          /\ hand[c] \in Calls
      BY <1>1, <2>1 DEF End, BuildTyped
    <3>2. head[hand[c]] # None => Headed(head[hand[c]])
      BY <1>2, <3>1 DEF Ranked, Headed
    <3>3. ASSUME NEW p \in Calls, built'[p] # None, built'[p].first # None
          PROVE  Headed(built'[p].first)
      BY <1>1, <3>1, <3>2, <3>3 DEF WalkTyped, Grounded, Pipelines
    <3>4. QED
      BY <1>3, <3>3 DEF Grounded, Pipelines
  <2>2. CASE UNCHANGED built
    BY <1>1, <1>3, <2>2 DEF Grounded, Pipelines
  <2>3. QED
    BY <2>1, <2>2 DEF Create, Begin, Step, ReadTarget, SetScope, StartSteps, LookForHead, Link,
        ReturnInstance, Invoke, RunStep, Construct
<1>5. Paced(f)'
  <2> SUFFICES ASSUME NEW d \in Calls PROVE PacedAt(f, d)'
    BY DEF Paced
  <2>1. PacedAt(f, d)
    BY <1>2 DEF Paced
  <2>2. CASE \E q \in Calls : Invoke(c, q) /\ d = c
    <3>1. PICK q \in Calls : Invoke(c, q) /\ d = c
      BY <2>2
    <3>2. /\ built[q] # None /\ pos'[d] = built[q].first /\ ran'[d] = <<>>
      BY <1>1, <3>1 DEF Invoke, Pipelines, WalkTyped, AllWalked, Walked
    <3>3. PICK x : x = built[q].first
      OBVIOUS
    <3>4. (x # None => Headed(x)') /\ Len(ran'[d]) = 0
      BY <1>1, <1>3, <3>2, <3>3 DEF Grounded, Pipelines
    <3>5. pos'[d] = x /\ Cardinality(Before(f, x)') \in Nat /\ Cardinality(Nodes) \in Nat
      BY <1>3, <3>2, <3>3, BeforeIsFinite, NodesAreFinite
    <3>6. QED
      BY <3>4, <3>5 DEF PacedAt
  <2>3. CASE ~\E q \in Calls : Invoke(c, q) /\ d = c
    <3>1. ran'[d] = ran[d] /\ (at'[d] = "walking" => at[d] = "walking" /\ pos'[d] = pos[d])
      <4>1. CASE \E q \in Calls : Invoke(c, q)
        BY <1>1, <2>3, <4>1 DEF Invoke, Goto, BuildTyped, WalkTyped
      <4>2. CASE ~\E q \in Calls : Invoke(c, q)
        BY <1>1, <4>2 DEF Create, Begin, Step, ReadTarget, SetScope, StartSteps, LookForHead, Link,
          ReturnInstance, End, RunStep, Construct, Goto, walk, BuildTyped
      <4>3. QED
        BY <4>1, <4>2
    <3>2. QED
      BY <1>3, <2>1, <3>1 DEF PacedAt
  <2>4. QED
    BY <2>2, <2>3
<1>6. QED
  BY <1>3, <1>4, <1>5 DEF Orderly

LEMMA OrderlyByRing ==
    ASSUME Typed, Fresh, NoRace, Orderly, NEW c \in Calls, LookForHead(c) \/ Link(c)
    PROVE  Orderly'
<1>1. Typed /\ Grounded
  BY DEF Orderly
<1>2. PICK k \in Nat, f \in [Nodes -> Nat] : Ranked(f, k) /\ Paced(f)
  BY DEF Orderly
<1>3. PICK j \in Nat, g \in [Nodes -> Nat] :
          /\ Ranked(g, j)' /\ Grounded'
          /\ \A n \in Joined : (Headed(n) => Headed(n)') /\ Before(f, n) \in SUBSET Before(g, n)'
  BY <1>1, <1>2, RankedByLook, RankedByLink
<1>4. Paced(g)'
  <2> SUFFICES ASSUME NEW d \in Calls PROVE PacedAt(g, d)'
    BY DEF Paced
  <2>1. /\ PacedAt(f, d) /\ ran'[d] = ran[d] /\ pos'[d] = pos[d]
        /\ at'[d] = "walking" => at[d] = "walking"
    BY <1>1, <1>2 DEF Paced, LookForHead, Link, Goto, walk, Typed, BuildTyped
  <2>2. PICK x : x = pos[d]
    OBVIOUS
  <2>3. CASE at[d] = "walking" /\ x # None
    <3>1. Headed(x) /\ x \in Joined /\ Len(ran[d]) <= Cardinality(Before(f, x)) /\ Len(ran[d]) \in Nat
      BY <1>1, <2>1, <2>2, <2>3 DEF PacedAt, Headed, Typed, WalkTyped
    <3>2. Headed(x)' /\ Before(f, x) \in SUBSET Before(g, x)'
      BY <1>3, <3>1
    <3>3. PICK B : B = Before(g, x)'
      OBVIOUS
    <3>4. B \in SUBSET Nodes /\ Before(f, x) \in SUBSET B
      BY <3>2, <3>3 DEF Before, Joined
    <3>5. /\ IsFiniteSet(B) /\ Cardinality(B) \in Nat
          /\ Cardinality(Before(f, x)) <= Cardinality(B) /\ Cardinality(Before(f, x)) \in Nat
      BY <3>4, NodesAreFinite, FS_Subset, FS_CardinalityType
    <3>6. Len(ran[d]) <= Cardinality(B)
      BY <3>1, <3>5
    <3>7. QED
      BY <2>1, <2>2, <2>3, <3>2, <3>3, <3>6 DEF PacedAt
  <2>4. CASE ~(at[d] = "walking" /\ x # None)
    BY <2>1, <2>2, <2>4 DEF PacedAt
  <2>5. QED
    BY <2>3, <2>4
<1>5. QED
  BY <1>3, <1>4 DEF Orderly

LEMMA OrderlyStep == Typed /\ AllWalked /\ Fresh /\ Orderly /\ [Next]_vars => Orderly'
<1> SUFFICES ASSUME Typed, AllWalked, Fresh, Orderly, [Next]_vars, NoRace' PROVE Orderly'
  BY DEF Orderly
<1>1. NoRace
  BY RaceIsForGood
<1>2. ASSUME NEW c \in Calls, LookForHead(c) \/ Link(c) PROVE Orderly'
  BY <1>1, <1>2, OrderlyByRing
<1>3. ASSUME NEW c \in Calls, RunStep(c) PROVE Orderly'
  <2>1. PICK k \in Nat, f \in [Nodes -> Nat] : Ranked(f, k) /\ Paced(f)
    BY <1>1 DEF Orderly
  <2>2. Paced(f)'
    BY <1>1, <1>3, <2>1, PacedByRun
  <2>3. UNCHANGED <<ring, built>>
    BY <1>3 DEF RunStep
  <2>4. Ranked(f, k)' /\ Grounded'
    BY <1>1, <2>1, <2>3 DEF Orderly, Ranked, Grounded, Headed, Joined, Pipelines, ring
  <2>5. QED
    BY <2>2, <2>4 DEF Orderly
<1>4. ASSUME NEW c \in Calls, Create(c) \/ Step(c), ~RunStep(c), ~LookForHead(c), ~Link(c)
      PROVE  Orderly'
  <2>1. UNCHANGED ring
    BY <1>4 DEF Create, Begin, Step, ReadTarget, SetScope, StartSteps, ReturnInstance, End,
        Invoke, Construct
  <2>2. QED
    BY <1>1, <1>4, <2>1, OrderlyByRest
<1>5. CASE UNCHANGED vars
  <2>1. PICK k \in Nat, f \in [Nodes -> Nat] : Ranked(f, k) /\ Paced(f)
    BY <1>1 DEF Orderly
  <2>2. UNCHANGED <<ring, built, at, pos, ran>>
    BY <1>5 DEF vars, walk
  <2>3. Ranked(f, k)' /\ Grounded' /\ Paced(f)'
    <3>1. Ranked(f, k)' /\ Grounded'
      BY <1>1, <2>1, <2>2 DEF Orderly, Ranked, Grounded, Headed, Joined, Pipelines, ring
    <3>2. (\A n : Headed(n)' = Headed(n)) /\ (\A n : Before(f, n)' = Before(f, n))
      BY <2>2 DEF ring, Headed, Before, Joined
    <3>3. Paced(f)'
      BY <2>1, <2>2, <3>2 DEF Paced, PacedAt
    <3>4. QED
      BY <3>1, <3>3
  <2>4. QED
    BY <2>3 DEF Orderly
<1>6. QED
  BY <1>2, <1>3, <1>4, <1>5 DEF Next

\* In the order in which the nodes looked for the head no link leads back but to the founder,
\* where Follow stops; only a second founder, whom Follow does not know, lets an invocation
\* go round (BasePipelineBuilder.cs:68).
THEOREM RoundOnlyIfRaced == SafetySpec => []RoundOnlyAfterRace
<1>1. Init => Undisturbed /\ AllWalked /\ Fresh /\ Orderly
  <2> SUFFICES ASSUME Init PROVE Undisturbed /\ AllWalked /\ Fresh /\ Orderly
    OBVIOUS
  <2>1. Undisturbed /\ AllWalked
    BY AloneAtFirst
  <2>2. Joined = {} /\ Pipelines = {}
    BY DEF Init, Joined, Pipelines
  <2>3. Fresh
    BY <2>2 DEF Init, Fresh, FreshOf, Scoping
  <2>4. PICK f \in [Nodes -> Nat] : f = [n \in Nodes |-> 0]
    OBVIOUS
  <2>5. Grounded /\ Ranked(f, 0)
    BY <2>2 DEF Init, Grounded, Ranked
  <2>6. Paced(f)
    BY NodesAreFinite DEF Init, Paced, PacedAt
  <2>7. QED
    BY <2>1, <2>3, <2>5, <2>6 DEF Orderly
<1>2. Typed /\ Orderly => RoundOnlyAfterRace
  <2> SUFFICES ASSUME Typed, Orderly, NEW c \in Calls, GoesRound(c)
               PROVE  ~NoRace
    BY DEF RoundOnlyAfterRace, NoRace, Joined
  <2>1. ASSUME NoRace PROVE FALSE
    <3>1. Len(ran[c]) <= Cardinality(Nodes) + 1
      BY <2>1 DEF Orderly, Paced, PacedAt
    <3>2. Len(ran[c]) \in Nat
      BY DEF Typed, WalkTyped
    <3>3. QED
      BY <3>1, <3>2, NodesAreFinite DEF GoesRound
  <2>2. QED
    BY <2>1
<1>3. QED
  BY <1>1, <1>2, UndisturbedStep, WalkedStep, BuilderTyped, FreshStep, OrderlyStep, PTL
     DEF SafetySpec
=============================================================================
