--------------------------- MODULE PipelineBuilder --------------------------
(* BaseBuilder: the pipelines that MessageToEventTransformHandler builds, one *)
(* per event name, on the channel threads of all groups at once.  The builder *)
(* goes from call to call through the static _builderInstance, and so do the  *)
(* steps of a pipeline when they look for a service scope.                    *)
(*                                                                            *)
(* A call of GetMessageHandlerAsync is named c, and so is the instance it     *)
(* creates.  Each access of the static field, of a scope and of a list is a   *)
(* step.  LinkedList<T> is external: a ring of nodes, whose AddLast looks for *)
(* the head and its predecessor and then links, with no lock.                 *)
(* The final step, which transforms the message, fetches the constructor of   *)
(* the event's container from InstanceCache, which all calls share as well.   *)
EXTENDS Naturals, Sequences, InstanceCache

CONSTANTS None,       \* null
          MaxSteps    \* bound: how many steps of a pipeline one invocation runs

Nodes == Calls \X {"Validation", "Storage"}

\* Each thread has one call at a time, and null is neither an instance nor a node.
ASSUME PipelineAssumption ==
    /\ IsFiniteSet(Calls)
    /\ None \notin Calls \cup Nodes
    /\ MaxSteps \in Nat

VARIABLES
    current,    \* the static _builderInstance
    scoped,     \* instances whose _scope is set
    head,       \* _stepHandlers of an instance: the head of the ring ...
    next, prev, \* ... the links of a node ...
    list,       \* ... and the instance whose list it is in
    saw,        \* the head, if any, that AddLast of this node found
    at,         \* where the call is
    hand,       \* the instance it has in hand
    adding,     \* the node it adds
    built,      \* what BuildChain closed over: the list and its first node
    uses,       \* whose pipeline the call's message is given to
    pos,        \* the node the invocation has come to
    ran,        \* history: the steps it ran
    overlapped  \* history: calls that were not alone in building

static == <<current, scoped>>
ring == <<head, next, prev, list, saw>>
walk == <<uses, pos, ran>>
vars == <<static, ring, at, hand, adding, built, walk, overlapped, cache>>

Scoping == {"created", "scoping"}
Building == Scoping \cup {"starting", "looking", "linking", "returning", "ending"}
Places == {"idle", "built", "walking", "creating", "failed", "done"} \cup Building
BuildingCalls == {c \in Calls : at[c] \in Building}
Pipelines == {c \in Calls : built[c] # None}

Init ==
    /\ current = None /\ scoped = {}
    /\ head = [i \in Calls |-> None]
    /\ next = [n \in Nodes |-> None] /\ prev = [n \in Nodes |-> None]
    /\ list = [n \in Nodes |-> None] /\ saw = [n \in Nodes |-> None]
    /\ at = [c \in Calls |-> "idle"]
    /\ hand = [c \in Calls |-> None]
    /\ adding = [c \in Calls |-> None]
    /\ built = [c \in Calls |-> None]
    /\ uses = [c \in Calls |-> None]
    /\ pos = [c \in Calls |-> None]
    /\ ran = [c \in Calls |-> <<>>]
    /\ overlapped = {}
    /\ CacheInit

Goto(c, place) == at' = [at EXCEPT ![c] = place]
Take(c, i) == hand' = [hand EXCEPT ![c] = i]
-----------------------------------------------------------------------------
(* StartWith *)

\* what every version of Create does besides
Begin(c) ==
    /\ at[c] = "idle"
    /\ Goto(c, "created")
    /\ overlapped' = IF BuildingCalls = {} THEN overlapped ELSE overlapped \cup BuildingCalls \cup {c}
    /\ UNCHANGED <<scoped, ring, hand, adding, built, walk, cache>>

\* mutant: _builderInstance ??= new TBuilder()
CreateOnce(c) == Begin(c) /\ current' = IF current = None THEN c ELSE current

\* mutant: a local variable for the static field
CreateLocally(c) == Begin(c) /\ UNCHANGED current

\* _builderInstance = new TBuilder()
Create(c) == Begin(c) /\ current' = c

\* The target of the assignment to _scope is read before CreateScope runs.
ReadTarget(c) ==
    /\ at[c] = "created"
    /\ Take(c, current)
    /\ Goto(c, "scoping")
    /\ UNCHANGED <<static, ring, adding, built, walk, overlapped, cache>>

\* mutant: one scope for all builders, set on the first
SetScopeOnce(c) ==
    /\ at[c] = "scoping"
    /\ scoped' = IF scoped = {} THEN {hand[c]} ELSE scoped
    /\ Goto(c, "starting")
    /\ UNCHANGED <<current, ring, hand, adding, built, walk, overlapped, cache>>

SetScope(c) ==
    /\ at[c] = "scoping"
    /\ scoped' = scoped \cup {hand[c]}
    /\ Goto(c, "starting")
    /\ UNCHANGED <<current, ring, hand, adding, built, walk, overlapped, cache>>

\* return _builderInstance.AddStep(handler)
StartSteps(c) ==
    /\ at[c] = "starting"
    /\ Take(c, current)
    /\ adding' = [adding EXCEPT ![c] = <<c, "Validation">>]
    /\ Goto(c, "looking")
    /\ UNCHANGED <<static, ring, built, walk, overlapped, cache>>
-----------------------------------------------------------------------------
(* AddStep: _stepHandlers.AddLast(step) *)

LookForHead(c) ==
    LET n == adding[c]  first == head[hand[c]] IN
    /\ at[c] = "looking"
    /\ list' = [list EXCEPT ![n] = hand[c]]
    /\ saw' = [saw EXCEPT ![n] = first]
    /\ next' = [next EXCEPT ![n] = IF first = None THEN n ELSE first]
    /\ prev' = [prev EXCEPT ![n] = IF first = None THEN n ELSE prev[first]]
    /\ Goto(c, "linking")
    /\ UNCHANGED <<static, head, hand, adding, built, walk, overlapped, cache>>

Link(c) ==
    LET n == adding[c] IN
    /\ at[c] = "linking"
    /\ IF saw[n] = None
       THEN head' = [head EXCEPT ![hand[c]] = n] /\ UNCHANGED <<next, prev>>
       ELSE /\ next' = [next EXCEPT ![prev[n]] = n]
            /\ prev' = [prev EXCEPT ![saw[n]] = n]
            /\ UNCHANGED head
    /\ Goto(c, "returning")
    /\ UNCHANGED <<static, list, saw, hand, adding, built, walk, overlapped, cache>>

\* return _builderInstance, whichever it is by now
ReturnInstance(c) ==
    /\ at[c] = "returning"
    /\ Take(c, current)
    /\ IF adding[c][2] = "Validation"
       THEN adding' = [adding EXCEPT ![c] = <<c, "Storage">>] /\ Goto(c, "looking")
       ELSE UNCHANGED adding /\ Goto(c, "ending")
    /\ UNCHANGED <<static, ring, built, walk, overlapped, cache>>

\* EndWithAndBuild: _finalStep is set and the first node is read
End(c) ==
    /\ at[c] = "ending"
    /\ built' = [built EXCEPT ![c] = [of |-> hand[c], first |-> head[hand[c]]]]
    /\ Goto(c, "built")
    /\ UNCHANGED <<static, ring, hand, adding, walk, overlapped, cache>>
-----------------------------------------------------------------------------
(* The pipeline at work *)

\* GetOrAdd gives the call its own pipeline or one that was added before.
Invoke(c, p) ==
    /\ at[c] = "built"
    /\ p \in Pipelines
    /\ uses' = [uses EXCEPT ![c] = p]
    /\ pos' = [pos EXCEPT ![c] = built[p].first]
    /\ Goto(c, "walking")
    /\ UNCHANGED <<static, ring, hand, adding, built, ran, overlapped, cache>>

StepOf(n) == IF n = None THEN "Transformation" ELSE n[2]

\* mutant: BuildChain(node) for BuildChain(node.Next)
SameNode(n) == n

\* BuildChain(node.Next); after the final step nothing follows
Follow(n) == IF n = None \/ next[n] = head[list[n]] THEN None ELSE next[n]

\* A step resolves its service from the scope of _builderInstance, not of the builder
\* that made it, and throws if there is none.
RunStep(c) ==
    /\ at[c] = "walking"
    /\ Len(ran[c]) < MaxSteps
    /\ IF current \notin scoped
       THEN Goto(c, "failed") /\ UNCHANGED <<pos, ran, cache>>
       ELSE /\ ran' = [ran EXCEPT ![c] = Append(@, StepOf(pos[c]))]
            /\ pos' = [pos EXCEPT ![c] = Follow(@)]
            /\ IF pos[c] = None
               THEN Goto(c, "creating") /\ CreateInstanceOf(c)
               ELSE UNCHANGED <<at, cache>>
    /\ UNCHANGED <<static, ring, hand, adding, built, uses, overlapped>>

\* The final step fetches the constructor of the event's type and calls it, or throws.
Construct(c) ==
    /\ at[c] = "creating"
    /\ CacheStep(c)
    /\ IF fetch'[c] = "created" THEN Goto(c, "done")
       ELSE IF fetch'[c] = "missing" THEN Goto(c, "failed")
       ELSE UNCHANGED at
    /\ UNCHANGED <<static, ring, hand, adding, built, walk, overlapped>>

Step(c) ==
    \/ ReadTarget(c) \/ SetScope(c) \/ StartSteps(c)
    \/ LookForHead(c) \/ Link(c) \/ ReturnInstance(c) \/ End(c)
    \/ RunStep(c) \/ Construct(c)
    \/ \E p \in Calls : Invoke(c, p)
-----------------------------------------------------------------------------
Next == \E c \in Calls : Create(c) \/ Step(c)

SafetySpec == Init /\ [][Next]_vars

\* A message being handled is handled to its end by its channel's thread.
Fairness == \A c \in Calls : WF_vars(Step(c))

Spec == SafetySpec /\ Fairness
-----------------------------------------------------------------------------
\* Types, and that a call always has an instance in hand whose list it may change
\* (BasePipelineBuilder.cs:32,45,61,69).
TypeOK ==
    /\ current \in Calls \cup {None} /\ scoped \subseteq Calls
    /\ head \in [Calls -> Nodes \cup {None}]
    /\ \A f \in {next, prev, saw} : f \in [Nodes -> Nodes \cup {None}]
    /\ list \in [Nodes -> Calls \cup {None}]
    /\ at \in [Calls -> Places]
    /\ hand \in [Calls -> Calls \cup {None}]
    /\ adding \in [Calls -> Nodes \cup {None}]
    /\ built \in [Calls -> [of : Calls, first : Nodes \cup {None}] \cup {None}]
    /\ uses \in [Calls -> Calls \cup {None}]
    /\ pos \in [Calls -> Nodes \cup {None}]
    /\ ran \in [Calls -> Seq({"Validation", "Storage", "Transformation"})]
    /\ overlapped \subseteq Calls
    /\ \A c \in Calls : at[c] \notin {"idle", "created"} => hand[c] \in Calls
    /\ CacheTypeOK

\* The instance the steps look at lacks a scope only while the call that created it has
\* not set one (BasePipelineBuilder.cs:23-24), though calls that overlap set each other's:
\* a message can fail for that reason only while some group builds a pipeline.
NullScopeHasBuilder == current \in Calls \ scoped => at[current] \in Scoping

\* A pipeline that was built while nobody else built one is the whole pipeline, with
\* nothing of another's, whenever and by whomever it is invoked
\* (MessageToEventTransformHandler.cs:32-36).
AloneIsWhole ==
    \A c \in Calls :
        at[c] = "done" /\ uses[c] \notin overlapped
            => ran[c] = <<"Validation", "Storage", "Transformation">>

\* A list of a builder has no more than these nodes; an invocation that runs more steps
\* is going round.  It does so only when two calls found the same list empty and
\* both put their node at its head (BasePipelineBuilder.cs:68).
GoesRound(c) == Len(ran[c]) > Cardinality(Nodes) + 1
RoundOnlyAfterRace ==
    \A c \in Calls : GoesRound(c) =>
        \E m, n \in Nodes : m # n /\ list[m] = list[n] /\ list[m] # None
                            /\ saw[m] = None /\ saw[n] = None

\* The message given to a pipeline that was built alone is transformed or fails
\* (BasePipelineBuilder.cs:73-82).
AloneEnds ==
    \A c \in Calls :
        (at[c] = "walking" /\ uses[c] \notin overlapped) ~> (at[c] \in {"done", "failed"})
=============================================================================
