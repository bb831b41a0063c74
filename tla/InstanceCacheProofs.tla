------------------------- MODULE InstanceCacheProofs ------------------------
(* What each step of a call does to the cache, for any number of calls and    *)
(* types.  The clash of two calls that store new types ends with the last     *)
(* call that stores, and whoever stores meanwhile was disturbed.              *)
EXTENDS InstanceCache, TLAPS

ClashIsSeen ==
    /\ clashed # {} => Storing # {} /\ Storing \subseteq disturbed
    /\ clashed \subseteq disturbed

UndisturbedFinds ==
    \A c \in Calls : fetch[c] = "reading" /\ c \notin disturbed
        => wanted[c] \in cached /\ wanted[c] \notin AtStake

Kept == CacheTypeOK /\ ClashIsSeen /\ UndisturbedFinds /\ MissingOnlyIfDisturbed

LEMMA KeptAtFirst == CacheInit => Kept
  BY DEF CacheInit, Kept, CacheTypeOK, FetchPlaces, ClashIsSeen, UndisturbedFinds,
      MissingOnlyIfDisturbed

LEMMA KeptByStutter == Kept /\ UNCHANGED cache => Kept'
  BY DEF cache, Kept, CacheTypeOK, ClashIsSeen, UndisturbedFinds, MissingOnlyIfDisturbed,
      Storing, AtStake

LEMMA KeptByLookup ==
    ASSUME Kept, NEW c \in Calls, CreateInstanceOf(c) \/ ContainsKey(c)
    PROVE  Kept'
<1> USE DEF Kept, FetchPlaces, Storing, Move
<1>1. CASE CreateInstanceOf(c)
  BY <1>1 DEF CreateInstanceOf, CacheTypeOK, ClashIsSeen, UndisturbedFinds,
      MissingOnlyIfDisturbed, AtStake
<1>2. CASE ContainsKey(c)
  <2> USE <1>2 DEF ContainsKey, Disturb, Others
  <2>1. CacheTypeOK'
    BY DEF CacheTypeOK
  <2>2. Storing' = Storing /\ AtStake' = AtStake /\ disturbed \subseteq disturbed'
    BY DEF CacheTypeOK, AtStake
  <2>3. ClashIsSeen'
    BY <2>2 DEF ClashIsSeen
  <2>4. c \notin disturbed' => clashed = {}
    BY DEF ClashIsSeen, CacheTypeOK
  <2>5. UndisturbedFinds'
    BY <2>2, <2>4 DEF UndisturbedFinds, CacheTypeOK, AtStake
  <2>6. MissingOnlyIfDisturbed'
    BY <2>2 DEF MissingOnlyIfDisturbed, CacheTypeOK
  <2>7. QED
    BY <2>1, <2>3, <2>5, <2>6
<1>3. QED
  BY <1>1, <1>2

\* Only types that are not in the cache are put at stake.
LEMMA KeptByBeginStore ==
    ASSUME Kept, NEW c \in Calls, BeginStore(c)
    PROVE  Kept'
<1> USE DEF Kept, BeginStore, Move
<1>1. CacheTypeOK'
  BY DEF CacheTypeOK, FetchPlaces, Storing
<1>2. Storing' = Storing \cup {c}
  BY DEF Storing, CacheTypeOK
<1>3. ClashIsSeen'
  <2>1. CASE Storing = {}
    BY <1>2, <2>1 DEF ClashIsSeen
  <2>2. CASE Storing # {}
    BY <1>2, <2>2 DEF ClashIsSeen
  <2>3. QED
    BY <2>1, <2>2
<1>4. \A t \in cached : t \notin AtStake => t \notin AtStake'
  BY DEF AtStake
<1>5. disturbed \subseteq disturbed'
  OBVIOUS
<1>6. UndisturbedFinds'
  BY <1>4, <1>5 DEF UndisturbedFinds, CacheTypeOK
<1>7. MissingOnlyIfDisturbed'
  BY <1>5 DEF MissingOnlyIfDisturbed, CacheTypeOK
<1>8. QED
  BY <1>1, <1>3, <1>6, <1>7

\* A call that stores undisturbed stores while nothing is at stake.
LEMMA KeptByEndStore ==
    ASSUME Kept, NEW c \in Calls, EndStore(c)
    PROVE  Kept'
<1> USE DEF Kept, EndStore, Move, Unclash, Disturb
<1>1. CacheTypeOK'
  BY DEF CacheTypeOK, FetchPlaces, AtStake
<1>2. Storing' = Others(c) /\ c \in Storing /\ Others(c) \subseteq Storing
  BY DEF Storing, Others, CacheTypeOK
<1>3. disturbed \subseteq disturbed' /\ AtStake' \subseteq AtStake
  BY DEF AtStake
<1>4. ClashIsSeen'
  BY <1>2, <1>3 DEF ClashIsSeen
<1>5. c \notin disturbed' => clashed = {} /\ AtStake = {}
  BY <1>2, <1>3 DEF ClashIsSeen, AtStake
<1>6. cached \ AtStake \subseteq cached'
  OBVIOUS
<1>7. c \notin disturbed' => wanted[c] \in cached'
  BY <1>5
<1>8. UndisturbedFinds'
  BY <1>3, <1>5, <1>6, <1>7 DEF UndisturbedFinds, CacheTypeOK
<1>9. MissingOnlyIfDisturbed'
  BY <1>3 DEF MissingOnlyIfDisturbed, CacheTypeOK
<1>10. QED
  BY <1>1, <1>4, <1>8, <1>9

LEMMA KeptByRead ==
    ASSUME Kept, NEW c \in Calls, ReadMethod(c)
    PROVE  Kept'
<1> USE DEF Kept, ReadMethod, Move, Disturb, Others
<1>1. CacheTypeOK'
  BY DEF CacheTypeOK, FetchPlaces
<1>2. Storing' = Storing /\ AtStake' = AtStake /\ disturbed \subseteq disturbed'
  BY DEF Storing, AtStake, CacheTypeOK
<1>3. ClashIsSeen'
  BY <1>2 DEF ClashIsSeen
<1>4. UndisturbedFinds'
  BY <1>2 DEF UndisturbedFinds, CacheTypeOK
<1>5. fetch'[c] = "missing" => c \in disturbed'
  BY <1>2 DEF UndisturbedFinds, CacheTypeOK
<1>6. MissingOnlyIfDisturbed'
  BY <1>2, <1>5 DEF MissingOnlyIfDisturbed, CacheTypeOK
<1>7. QED
  BY <1>1, <1>3, <1>4, <1>6

LEMMA KeptByStep == ASSUME Kept, NEW c \in Calls, CacheStep(c) PROVE Kept'
  BY KeptByLookup, KeptByBeginStore, KeptByEndStore, KeptByRead DEF CacheStep
=============================================================================
