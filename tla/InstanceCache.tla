---------------------------- MODULE InstanceCache ----------------------------
(* InstanceCreationFactory of TypeExtensions: the static Dictionary from a    *)
(* type to its compiled constructor, which the transformation step of every   *)
(* message checks, fills and reads, on the channel threads of all groups and  *)
(* with no lock.                                                              *)
(*                                                                            *)
(* Dictionary<K, V> is external, and of use to one writer at a time: a read   *)
(* made while something is stored may miss what is there, and of two entries  *)
(* stored at once either may be lost.  (A read that does not return at all,   *)
(* which can happen too, is left out.)                                        *)
EXTENDS FiniteSets

CONSTANTS Calls,  \* calls of CreateInstanceOf, one at a time on each thread
          Types   \* the classes of events

VARIABLES
    cached,    \* the keys of _instanceCreationMethods
    fetch,     \* where the call is
    wanted,    \* the type it was given
    clashed,   \* calls storing a new key while another call stores
    disturbed  \* history: calls that read or stored while another call stored

cache == <<cached, fetch, wanted, clashed, disturbed>>

FetchPlaces == {"none", "checking", "compiling", "storing", "reading", "created", "missing"}

CacheInit ==
    /\ cached = {}
    /\ fetch = [c \in Calls |-> "none"]
    /\ wanted \in [Calls -> Types]
    /\ clashed = {}
    /\ disturbed = {}

Storing == {c \in Calls : fetch[c] = "storing"}
Others(c) == Storing \ {c}
AtStake == {wanted[c] : c \in clashed}
Move(c, place) == fetch' = [fetch EXCEPT ![c] = place]
Disturb(c) == disturbed' = IF Others(c) = {} THEN disturbed ELSE disturbed \cup {c}

CreateInstanceOf(c) ==
    /\ fetch[c] = "none"
    /\ Move(c, "checking")
    /\ UNCHANGED <<cached, wanted, clashed, disturbed>>

\* if (_instanceCreationMethods.ContainsKey(type)) return
ContainsKey(c) ==
    /\ fetch[c] = "checking"
    /\ \/ wanted[c] \in cached /\ Move(c, "reading")
       \/ /\ wanted[c] \notin cached \/ Others(c) # {}
          /\ Move(c, "compiling")
    /\ Disturb(c)
    /\ UNCHANGED <<cached, wanted, clashed>>

\* The constructor is compiled; then _instanceCreationMethods[type] = ..., which takes time
BeginStore(c) ==
    /\ fetch[c] = "compiling"
    /\ Move(c, "storing")
    /\ IF Storing = {}
       THEN UNCHANGED <<clashed, disturbed>>
       ELSE /\ clashed' = clashed \cup {d \in Storing \cup {c} : wanted[d] \notin cached}
            /\ disturbed' = disturbed \cup Storing \cup {c}
    /\ UNCHANGED <<cached, wanted>>

Unclash(c) == clashed' = IF Others(c) = {} THEN {} ELSE clashed

\* mutant: Add for the indexer, which throws if another call has added the type
EndAdd(c) ==
    /\ fetch[c] = "storing"
    /\ Move(c, IF wanted[c] \in cached THEN "missing" ELSE "reading")
    /\ \E kept \in SUBSET AtStake :
          cached' = (cached \ AtStake) \cup kept \cup ({wanted[c]} \ AtStake)
    /\ Unclash(c)
    /\ Disturb(c)
    /\ UNCHANGED wanted

EndStore(c) ==
    /\ fetch[c] = "storing"
    /\ Move(c, "reading")
    /\ \E kept \in SUBSET (AtStake \cap (cached \cup {wanted[c]})) :
          cached' = (cached \ AtStake) \cup kept \cup ({wanted[c]} \ AtStake)
    /\ Unclash(c)
    /\ Disturb(c)
    /\ UNCHANGED wanted

\* return _instanceCreationMethods[type].Invoke(...), or KeyNotFoundException
ReadMethod(c) ==
    /\ fetch[c] = "reading"
    /\ \/ wanted[c] \in cached /\ Move(c, "created")
       \/ /\ wanted[c] \notin cached \/ Others(c) # {}
          /\ Move(c, "missing")
    /\ Disturb(c)
    /\ UNCHANGED <<cached, wanted, clashed>>

CacheStep(c) == ContainsKey(c) \/ BeginStore(c) \/ EndStore(c) \/ ReadMethod(c)

CacheTypeOK ==
    /\ cached \subseteq Types
    /\ fetch \in [Calls -> FetchPlaces]
    /\ wanted \in [Calls -> Types]
    /\ clashed \subseteq Calls
    /\ disturbed \subseteq Calls

\* A message whose type is in the cache or is being put there gets its constructor, and
\* KeyNotFoundException (TypeExtensions.cs:98) is left to calls that read or stored while
\* another call was storing.  Two calls that both found the type missing do no harm when
\* they store one after the other, and an entry lost is made again by the next message.
MissingOnlyIfDisturbed ==
    \A c \in Calls : fetch[c] = "missing" => c \in disturbed
=============================================================================
