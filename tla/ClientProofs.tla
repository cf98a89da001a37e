---------------------------- MODULE ClientProofs ----------------------------
(* Theorems about the browser client: the player deck, the caches, the preview of an *)
(* archive and browsing of a storage.                                                *)
EXTENDS PlayerDeck, ClientCache, ArchivePreview, StorageBrowsing,
        FiniteSetTheorems, SequenceTheorems, WellFoundedInduction, TLAPS

-----------------------------------------------------------------------------
(* Least and greatest numbers.                                               *)

LEMMA Least ==
    ASSUME NEW S, S \subseteq Nat, S # {}
    PROVE  \E x \in S : \A y \in S : x <= y
<1>1. PICK x \in S : \A y \in S : ~(<<y, x>> \in OpToRel(<, Nat))
    BY NatLessThanWellFounded, WFMin, Zenon
<1>2. \A y \in S : x \in Nat /\ y \in Nat
    BY <1>1
<1>3. \A y \in S : ~(y < x)
    BY <1>1, <1>2, Zenon DEF OpToRel
<1> QED
    BY <1>2, <1>3

LEMMA MinOf ==
    ASSUME NEW S, S \subseteq Nat, S # {}
    PROVE  Min(S) \in S
<1>1. \E x \in S : \A y \in S : x <= y
    BY Least
<1> QED
    BY <1>1 DEF Min

\* A finite set of numbers has a greatest, by the size of the set.
LEMMA MaxOf ==
    ASSUME NEW S, S \subseteq Nat, IsFiniteSet(S), S # {}
    PROVE  Max(S) \in S
<1> DEFINE HasMax(T) == \E x \in T : \A y \in T : x >= y
           Odd(T) == T \subseteq Nat /\ IsFiniteSet(T) /\ T # {} /\ ~HasMax(T)
           Sizes == {n \in Nat : \E T \in SUBSET Nat : Odd(T) /\ Cardinality(T) = n}
<1>1. Sizes = {}
    <2> SUFFICES ASSUME Sizes # {} PROVE FALSE
        OBVIOUS
    <2>1. PICK n \in Sizes : \A m \in Sizes : n <= m
        <3>1. Sizes \subseteq Nat
            OBVIOUS
        <3> HIDE DEF Sizes
        <3> QED
            BY <3>1, Least
    <2>2. PICK T \in SUBSET Nat : Odd(T) /\ Cardinality(T) = n
        OBVIOUS
    <2>3. PICK x : x \in T
        BY <2>2
    <2> DEFINE U == T \ {x}
    <2>4. IsFiniteSet(U) /\ Cardinality(U) = n - 1
        BY <2>2, <2>3, FS_RemoveElement
    <2>5. n \in Nat /\ n - 1 \in Nat
        <3>1. Cardinality(U) \in Nat
            BY <2>4, FS_CardinalityType
        <3> QED
            BY <2>4, <3>1
    <2>6. ~Odd(U)
        <3> SUFFICES ASSUME Odd(U) PROVE FALSE
            OBVIOUS
        <3>1. n - 1 \in Sizes
            BY <2>4, <2>5
        <3> QED
            BY <2>1, <2>5, <3>1
    <2>7. CASE U = {}
        <3>1. T = {x} /\ x \in Nat
            BY <2>2, <2>3, <2>7
        <3> QED
            BY <2>2, <3>1
    <2>8. CASE HasMax(U)
        <3>1. PICK m \in U : \A y \in U : m >= y
            BY <2>8
        <3>2. m \in Nat /\ x \in Nat /\ T = U \cup {x} /\ \A y \in U : y \in Nat
            BY <2>2, <2>3, <3>1
        <3>3. CASE m >= x
            BY <2>2, <3>1, <3>2, <3>3
        <3>4. CASE x >= m
            <4>1. \A y \in T : x >= y
                BY <3>1, <3>2, <3>4
            <4> QED
                BY <2>2, <2>3, <4>1
        <3> QED
            BY <3>2, <3>3, <3>4
    <2> QED
        BY <2>2, <2>4, <2>6, <2>7, <2>8
<1>2. HasMax(S)
    <2>1. Cardinality(S) \in Nat
        BY FS_CardinalityType
    <2> QED
        BY <1>1, <2>1
<1> QED
    BY <1>2 DEF Max

-----------------------------------------------------------------------------
(* The elements of the deck.                                                 *)

\* No track is in the deck twice.
OnceEach == \A i, j \in DOMAIN tracks : tracks[i] = tracks[j] => i = j

\* A track with sound, or with sound on its way, is in the deck; a track without a
\* graph has none that is muted; what is analyzed is known.
DeckBooks ==
    \A t \in TrackIds :
        /\ element[t].there => In(t)
        /\ fetch[t] = "fetching" => In(t) /\ ~element[t].there
        /\ graphs[t].mode = "none" => ~graphs[t].muted
        /\ t \in peaks => channels[t] # "none"

\* A track with sound plays exactly when the deck does and it has not ended: also one
\* that had ended when the deck was started again.
PlaysWithTheDeck == \A t \in There : element[t].on = (playing /\ ~Ended(t))

DeckKeeps == WhatIsHeard /\ PlaysWithTheDeck /\ ButtonsComeBack

\* The inductive invariant.
DeckInv == DeckTypeOK /\ OnceEach /\ DeckBooks /\ DeckKeeps

EndOf(t, el) == el.known /\ el.at = Length[t]

LEMMA AtIs ==
    ASSUME NEW t \in TrackIds, NEW el \in Element, NEW sec \in Nat
    PROVE  /\ Sought(t, el, sec) \in Element
           /\ Sought(t, el, sec).there = el.there
           /\ Sought(t, el, sec).muted = el.muted
           /\ Sought(t, el, sec).known = el.known
           /\ Sought(t, el, sec).on <=> el.on /\ ~EndOf(t, Sought(t, el, sec))
           /\ Sought(t, el, sec).at = IF el.known /\ sec > Length[t] THEN Length[t] ELSE sec
<1>1. Length[t] \in Nat
    BY DeckAssumption
<1> DEFINE at == IF el.known /\ sec > Length[t] THEN Length[t] ELSE sec
<1>2. at \in Nat
    BY <1>1
<1> HIDE DEF at
<1>3. Sought(t, el, sec) = [el EXCEPT !.at = at, !.on = el.on /\ ~(el.known /\ at = Length[t])]
    BY DEF Sought, at
<1>4. (el.on /\ ~(el.known /\ at = Length[t])) \in BOOLEAN
    BY DEF Element
<1>5. /\ Sought(t, el, sec) \in Element
      /\ Sought(t, el, sec).there = el.there
      /\ Sought(t, el, sec).muted = el.muted
      /\ Sought(t, el, sec).known = el.known
      /\ Sought(t, el, sec).on <=> el.on /\ ~(el.known /\ at = Length[t])
      /\ Sought(t, el, sec).at = at
    BY <1>2, <1>3, <1>4 DEF Element
<1> QED
    BY <1>5 DEF at, EndOf

LEMMA PlayedIs ==
    ASSUME NEW t \in TrackIds, NEW el \in Element
    PROVE  /\ Played(t, el) \in Element
           /\ Played(t, el).there = el.there
           /\ Played(t, el).muted = el.muted
           /\ Played(t, el).known = el.known
           /\ Played(t, el).on
           /\ ~EndOf(t, Played(t, el))
<1>1. Length[t] \in Nat \ {0}
    BY DeckAssumption
<1> DEFINE at == IF el.known /\ el.at = Length[t] THEN 0 ELSE el.at
<1>2. at \in Nat
    BY DEF Element
<1> HIDE DEF at
<1>3. Played(t, el) = [el EXCEPT !.on = TRUE, !.at = at]
    BY DEF Played, at, Element
<1>4. /\ Played(t, el) \in Element
      /\ Played(t, el).there = el.there
      /\ Played(t, el).muted = el.muted
      /\ Played(t, el).known = el.known
      /\ Played(t, el).on
      /\ Played(t, el).at = at
    BY <1>2, <1>3 DEF Element
<1> QED
    BY <1>1, <1>4 DEF at, EndOf, Element

LEMMA NothingIs == NoElement \in Element /\ NoGraph \in Graph
BY DEF NoElement, Element, NoGraph, Graph

-----------------------------------------------------------------------------
(* Steps that only move, start or stop the sound.                            *)

\* What a step may make of the element of track t while the deck plays or not.
Follows(t, old, new, on) ==
    /\ new \in Element
    /\ new.there = old.there /\ new.muted = old.muted
    /\ new.there => (new.on <=> on /\ ~EndOf(t, new))

\* What is known of the sound before a step.
LEMMA SoundIs ==
    ASSUME DeckInv, NEW t \in TrackIds
    PROVE  /\ element[t] \in Element /\ element[t].at \in Nat /\ playing \in BOOLEAN
           /\ Length[t] \in Nat \ {0}
           /\ Follows(t, element[t], element[t], playing)
<1>1. element[t] \in Element /\ playing \in BOOLEAN
    BY DEF DeckInv, DeckTypeOK
<1>2. element[t].there => element[t].on = (playing /\ ~EndOf(t, element[t]))
    BY DEF DeckInv, DeckKeeps, PlaysWithTheDeck, There, EndOf, Ended
<1>3. element[t].on \in BOOLEAN /\ element[t].at \in Nat
    BY <1>1 DEF Element
<1> QED
    BY <1>1, <1>2, <1>3, DeckAssumption DEF Follows

LEMMA SoundStep ==
    ASSUME DeckInv,
           UNCHANGED <<tracks, pinned, fetch, buttonVars, analyzeVars, routeVars>>,
           NEW new, element' = [t \in TrackIds |-> new[t]],
           playing' \in BOOLEAN, masterTime' \in Nat,
           \A t \in TrackIds : Follows(t, element[t], new[t], playing')
    PROVE  DeckInv'
<1>0. ASSUME NEW t \in TrackIds PROVE Follows(t, element[t], element'[t], playing')
    <2>1. element'[t] = new[t]
        OBVIOUS
    <2> QED
        BY <2>1
<1>a. element' \in [TrackIds -> Element]
    BY DEF Follows
<1>1. DeckTypeOK'
    BY <1>a DEF DeckInv, DeckTypeOK, buttonVars, analyzeVars, routeVars
<1>2. \A t \in TrackIds : In(t)' = In(t)
    BY DEF In
<1>3. OnceEach'
    BY DEF DeckInv, OnceEach
<1>4. \A t \in TrackIds : element'[t].there = element[t].there /\ element'[t].muted = element[t].muted
    BY <1>0 DEF Follows
<1>5. DeckBooks'
    BY <1>2, <1>4 DEF DeckInv, DeckBooks, routeVars, analyzeVars
<1>6. There' = There
    BY <1>4 DEF There
<1>7. \A t \in TrackIds : IsMuted(t)' = IsMuted(t)
    BY DEF IsMuted, EffectiveSolo, In, buttonVars
<1>8. WhatIsHeard'
    BY <1>4, <1>6, <1>7 DEF DeckInv, DeckKeeps, WhatIsHeard, buttonVars, routeVars, There
<1>9. PlaysWithTheDeck'
    <2> SUFFICES ASSUME NEW t \in TrackIds, element'[t].there
                 PROVE  element'[t].on = (playing' /\ ~Ended(t)')
        BY DEF PlaysWithTheDeck, There
    <2>1. element'[t].on \in BOOLEAN
        BY <1>a DEF Element
    <2>2. element'[t].on <=> playing' /\ ~Ended(t)'
        BY <1>0 DEF Follows, EndOf, Ended
    <2> QED
        BY <2>1, <2>2
<1>10. ButtonsComeBack'
    BY <1>2 DEF DeckInv, DeckKeeps, ButtonsComeBack, analyzeVars
<1> QED
    BY <1>1, <1>3, <1>5, <1>8, <1>9, <1>10 DEF DeckInv, DeckKeeps

LEMMA AdvanceStep == ASSUME DeckInv, Advance PROVE DeckInv'
<1>1. PICK moving \in SUBSET {t \in There : element[t].on /\ element[t].known} :
         element' = [t \in TrackIds |->
              IF t \in moving THEN Sought(t, element[t], element[t].at + 1) ELSE element[t]]
    BY DEF Advance
<1>2. UNCHANGED <<tracks, pinned, fetch, playing, masterTime, buttonVars, analyzeVars, routeVars>>
    BY DEF Advance
<1> DEFINE new == [t \in TrackIds |->
              IF t \in moving THEN Sought(t, element[t], element[t].at + 1) ELSE element[t]]
<1>3. ASSUME NEW t \in TrackIds PROVE Follows(t, element[t], new[t], playing)
    <2>1. CASE t \in moving
        <3>1. new[t] = Sought(t, element[t], element[t].at + 1) /\ element[t].on /\ element[t].there
            BY <2>1 DEF There
        <3>2. element[t] \in Element /\ element[t].at + 1 \in Nat /\ (element[t].there => (element[t].on => playing))
            BY SoundIs DEF Follows
        <3>3. Follows(t, element[t], Sought(t, element[t], element[t].at + 1), playing)
            BY <3>1, <3>2, AtIs DEF Follows
        <3> QED
            BY <3>1, <3>3
    <2>2. CASE t \notin moving
        BY <2>2, SoundIs
    <2> QED
        BY <2>1, <2>2
<1>4. playing' \in BOOLEAN /\ masterTime' \in Nat /\ playing' = playing
    BY <1>2 DEF DeckInv, DeckTypeOK
<1>5. element' = [t \in TrackIds |-> new[t]]
    BY <1>1
<1> HIDE DEF new
<1> QED
    BY <1>2, <1>3, <1>4, <1>5, SoundStep

LEMMA MetadataStep == ASSUME DeckInv, NEW t \in TrackIds, LoadsMetadata(t) PROVE DeckInv'
<1> DEFINE heard == [element[t] EXCEPT !.known = TRUE]
           new == [element EXCEPT ![t] = Sought(t, heard, element[t].at)]
<1>0. element' = new
    BY DEF LoadsMetadata
<1>1. UNCHANGED <<tracks, pinned, fetch, playing, masterTime, buttonVars, analyzeVars, routeVars>>
    BY DEF LoadsMetadata
<1>2. /\ heard \in Element /\ heard.there = element[t].there /\ heard.muted = element[t].muted
      /\ heard.known /\ heard.on = element[t].on
    <2>1. element[t] \in Element
        BY SoundIs
    <2> QED
        BY <2>1 DEF Element
<1>3. element[t].there /\ (element[t].on <=> playing)
    <2>1. element[t].there /\ ~element[t].known
        BY DEF LoadsMetadata
    <2> QED
        BY <2>1, SoundIs DEF Follows, EndOf
<1> HIDE DEF heard
<1>4. Follows(t, element[t], Sought(t, heard, element[t].at), playing)
    BY <1>2, <1>3, SoundIs, AtIs DEF Follows
<1>5. ASSUME NEW u \in TrackIds PROVE Follows(u, element[u], new[u], playing)
    <2>1. CASE u = t
        <3>1. new[u] = Sought(t, heard, element[t].at)
            BY <2>1 DEF DeckInv, DeckTypeOK
        <3> QED
            BY <1>4, <2>1, <3>1
    <2>2. CASE u # t
        <3>1. new[u] = element[u]
            BY <2>2 DEF DeckInv, DeckTypeOK
        <3> QED
            BY <3>1, SoundIs
    <2> QED
        BY <2>1, <2>2
<1>6. playing' \in BOOLEAN /\ masterTime' \in Nat /\ playing' = playing
    BY <1>1 DEF DeckInv, DeckTypeOK
<1>7. element' = [u \in TrackIds |-> new[u]]
    BY <1>0 DEF DeckInv, DeckTypeOK
<1> HIDE DEF new
<1> QED
    BY <1>1, <1>5, <1>6, <1>7, SoundStep

\* The numbers of finitely many tracks have a greatest.
LEMMA MaxOfTracks ==
    ASSUME NEW D \in SUBSET TrackIds, D # {}, NEW f \in [D -> Nat]
    PROVE  Max({f[t] : t \in D}) \in Nat
<1> DEFINE S == {f[t] : t \in D}
<1>1. f \in Surjection(D, S)
    BY DEF Surjection
<1>2. IsFiniteSet(D)
    BY DeckAssumption, FS_Subset
<1>3. IsFiniteSet(S)
    <2> HIDE DEF S
    <2> QED
        BY <1>1, <1>2, FS_Surjection
<1>4. S \subseteq Nat /\ S # {}
    OBVIOUS
<1> HIDE DEF S
<1>5. Max(S) \in S
    BY <1>3, <1>4, MaxOf
<1> QED
    BY <1>4, <1>5 DEF S

LEMMA MaxDurationType == MaxDuration \in Nat
<1> DEFINE D == {u \in There : element[u].known}
           S == {Length[t] : t \in D}
<1>1. D \in SUBSET TrackIds /\ S \subseteq Nat
    BY DeckAssumption DEF There
<1>2. IsFiniteSet(S)
    <2> DEFINE f == [t \in D |-> Length[t]]
    <2>1. f \in Surjection(D, S)
        BY DEF Surjection
    <2>2. IsFiniteSet(D)
        BY <1>1, DeckAssumption, FS_Subset
    <2> HIDE DEF S, D, f
    <2> QED
        BY <2>1, <2>2, FS_Surjection
<1>3. {0} \cup S \subseteq Nat /\ {0} \cup S # {}
    BY <1>1
<1>4. IsFiniteSet({0} \cup S)
    <2>1. {0} \cup S = S \cup {0}
        OBVIOUS
    <2> HIDE DEF S
    <2> QED
        BY <1>2, <2>1, FS_AddElement
<1> HIDE DEF S
<1>5. Max({0} \cup S) \in {0} \cup S
    BY <1>3, <1>4, MaxOf
<1> QED
    BY <1>3, <1>5 DEF S, MaxDuration

LEMMA PlayAllStep == ASSUME DeckInv, PlayAll PROVE DeckInv'
<1> DEFINE again == MaxDuration > 0 /\ masterTime >= MaxDuration
           new == [t \in TrackIds |->
                     IF element[t].there
                     THEN Played(t, IF again THEN Sought(t, element[t], 0) ELSE element[t])
                     ELSE element[t]]
<1>1. /\ UNCHANGED <<tracks, pinned, fetch, buttonVars, analyzeVars, routeVars>>
      /\ playing' = TRUE
      /\ masterTime' = IF again THEN 0 ELSE masterTime
      /\ element' = new
    BY DEF PlayAll, EachElement
<1>2. playing' \in BOOLEAN /\ masterTime' \in Nat
    BY <1>1 DEF DeckInv, DeckTypeOK
<1>3. ASSUME NEW t \in TrackIds PROVE Follows(t, element[t], new[t], TRUE)
    <2> DEFINE from == IF again THEN Sought(t, element[t], 0) ELSE element[t]
    <2>1. from \in Element /\ from.there = element[t].there /\ from.muted = element[t].muted
        BY SoundIs, AtIs
    <2>2. CASE element[t].there
        <3>1. new[t] = Played(t, from)
            BY <2>2
        <3> HIDE DEF from, new
        <3>2. Follows(t, element[t], Played(t, from), TRUE)
            BY <2>1, PlayedIs DEF Follows
        <3> QED
            BY <3>1, <3>2
    <2>3. CASE ~element[t].there
        <3>1. new[t] = element[t]
            BY <2>3
        <3> QED
            BY <2>3, <3>1, SoundIs DEF Follows
    <2> QED
        BY <2>2, <2>3
<1>4. element' = [t \in TrackIds |-> new[t]]
    BY <1>1
<1> HIDE DEF new
<1> QED
    BY <1>1, <1>2, <1>3, <1>4, SoundStep

LEMMA PauseAllStep == ASSUME DeckInv, PauseAll PROVE DeckInv'
<1> DEFINE new == [t \in TrackIds |->
                     IF element[t].there THEN [element[t] EXCEPT !.on = FALSE] ELSE element[t]]
<1>1. /\ UNCHANGED <<tracks, pinned, fetch, masterTime, buttonVars, analyzeVars, routeVars>>
      /\ playing' = FALSE
      /\ element' = new
    BY DEF PauseAll, EachElement
<1>2. playing' \in BOOLEAN /\ masterTime' \in Nat
    BY <1>1 DEF DeckInv, DeckTypeOK
<1>3. ASSUME NEW t \in TrackIds PROVE Follows(t, element[t], new[t], FALSE)
    <2>1. element[t] \in Element
        BY SoundIs
    <2> QED
        BY <2>1 DEF Follows, Element
<1>4. element' = [t \in TrackIds |-> new[t]]
    BY <1>1
<1> HIDE DEF new
<1> QED
    BY <1>1, <1>2, <1>3, <1>4, SoundStep

LEMMA StopAllStep == ASSUME DeckInv, StopAll PROVE DeckInv'
<1> DEFINE still(t) == [element[t] EXCEPT !.on = FALSE]
           new == [t \in TrackIds |-> IF element[t].there THEN Sought(t, still(t), 0) ELSE element[t]]
<1>1. /\ UNCHANGED <<tracks, pinned, fetch, buttonVars, analyzeVars, routeVars>>
      /\ playing' = FALSE /\ masterTime' = 0
      /\ element' = new
    BY DEF StopAll, EachElement
<1>2. playing' \in BOOLEAN /\ masterTime' \in Nat
    BY <1>1
<1>3. ASSUME NEW t \in TrackIds PROVE Follows(t, element[t], new[t], FALSE)
    <2>1. /\ still(t) \in Element /\ ~still(t).on
          /\ still(t).there = element[t].there /\ still(t).muted = element[t].muted
        <3>1. element[t] \in Element
            BY SoundIs
        <3> QED
            BY <3>1 DEF Element
    <2>2. CASE element[t].there
        <3>1. new[t] = Sought(t, still(t), 0)
            BY <2>2
        <3> HIDE DEF still, new
        <3>2. Follows(t, element[t], Sought(t, still(t), 0), FALSE)
            BY <2>1, AtIs DEF Follows
        <3> QED
            BY <3>1, <3>2
    <2>3. CASE ~element[t].there
        <3>1. new[t] = element[t]
            BY <2>3
        <3> QED
            BY <2>3, <3>1, SoundIs DEF Follows
    <2> QED
        BY <2>2, <2>3
<1>4. element' = [t \in TrackIds |-> new[t]]
    BY <1>1
<1> HIDE DEF new
<1> QED
    BY <1>1, <1>2, <1>3, <1>4, SoundStep

LEMMA SeekAllStep == ASSUME DeckInv, NEW sec \in Nat, SeekAll(sec) PROVE DeckInv'
<1> DEFINE there(t) == Sought(t, element[t], sec)
           goes(t) == playing /\ (element[t].known => sec < Length[t])
           new == [t \in TrackIds |->
                     IF element[t].there
                     THEN IF goes(t) THEN Played(t, there(t)) ELSE there(t)
                     ELSE element[t]]
<1>1. /\ UNCHANGED <<tracks, pinned, fetch, playing, buttonVars, analyzeVars, routeVars>>
      /\ masterTime' = sec
      /\ element' = new
    BY DEF SeekAll, EachElement
<1>2. playing' \in BOOLEAN /\ masterTime' \in Nat /\ playing' = playing
    BY <1>1 DEF DeckInv, DeckTypeOK
<1>3. ASSUME NEW t \in TrackIds PROVE Follows(t, element[t], new[t], playing)
    <2>0. element[t] \in Element /\ Length[t] \in Nat
        BY SoundIs
    <2>1. /\ there(t) \in Element
          /\ there(t).there = element[t].there /\ there(t).muted = element[t].muted
          /\ there(t).known = element[t].known
          /\ there(t).on <=> element[t].on /\ ~EndOf(t, there(t))
          /\ there(t).at = IF element[t].known /\ sec > Length[t] THEN Length[t] ELSE sec
        BY <2>0, AtIs
    <2>2. CASE element[t].there /\ goes(t)
        <3>1. new[t] = Played(t, there(t)) /\ playing
            BY <2>2
        <3> HIDE DEF there, new
        <3>2. Follows(t, element[t], Played(t, there(t)), playing)
            BY <2>1, <3>1, PlayedIs DEF Follows
        <3> QED
            BY <3>1, <3>2
    <2>3. CASE element[t].there /\ ~goes(t)
        <3>1. new[t] = there(t)
            BY <2>3
        <3>2. element[t].on => playing
            BY <2>3, SoundIs DEF Follows
        <3>3. playing => element[t].known /\ ~(sec < Length[t])
            BY <2>3
        <3> HIDE DEF there, new
        <3>4. playing => EndOf(t, there(t))
            BY <2>0, <2>1, <3>3 DEF EndOf
        <3>5. Follows(t, element[t], there(t), playing)
            BY <2>1, <3>2, <3>4 DEF Follows
        <3> QED
            BY <3>1, <3>5
    <2>4. CASE ~element[t].there
        <3>1. new[t] = element[t]
            BY <2>4
        <3> QED
            BY <3>1, SoundIs
    <2> QED
        BY <2>2, <2>3, <2>4
<1>4. element' = [t \in TrackIds |-> new[t]]
    BY <1>1
<1> HIDE DEF new
<1> QED
    BY <1>1, <1>2, <1>3, <1>4, SoundStep

LEMMA TickStep == ASSUME DeckInv, Tick PROVE DeckInv'
<1> DEFINE running == {t \in There : ~Ended(t)}
           master == Max({element[t].at : t \in running})
<1>1. UNCHANGED <<tracks, pinned, fetch, buttonVars, analyzeVars, routeVars>>
    BY DEF Tick
<1>2. CASE running = {}
    <2>1. playing' = FALSE /\ masterTime' = MaxDuration /\ element' = element
        BY <1>2 DEF Tick
    <2>2. masterTime' \in Nat
        BY <2>1, MaxDurationType
    <2>3. ASSUME NEW t \in TrackIds PROVE Follows(t, element[t], element[t], FALSE)
        <3>1. element[t].there => EndOf(t, element[t])
            BY <1>2 DEF There, Ended, EndOf
        <3> QED
            BY <3>1, SoundIs DEF Follows
    <2>4. element' = [t \in TrackIds |-> element[t]]
        BY <2>1 DEF DeckInv, DeckTypeOK
    <2> QED
        BY <1>1, <2>1, <2>2, <2>3, <2>4, SoundStep
<1>3. CASE running # {}
    <2>1. master \in Nat
        <3> DEFINE f == [t \in running |-> element[t].at]
        <3>1. running \in SUBSET TrackIds
            BY DEF There
        <3>2. f \in [running -> Nat]
            BY <3>1, SoundIs
        <3>3. {f[t] : t \in running} = {element[t].at : t \in running}
            OBVIOUS
        <3> HIDE DEF f, running
        <3> QED
            BY <1>3, <3>1, <3>2, <3>3, MaxOfTracks
    <2> DEFINE new == [t \in TrackIds |->
                      IF t \in running /\ (element[t].known => master < Length[t])
                      THEN Sought(t, element[t], master) ELSE element[t]]
    <2>2. playing /\ playing' = playing /\ masterTime' = master /\ element' = new
        BY <1>3 DEF Tick
    <2> HIDE DEF master
    <2>3. ASSUME NEW t \in TrackIds PROVE Follows(t, element[t], new[t], playing)
        <3>1. CASE t \in running /\ (element[t].known => master < Length[t])
            <4>1. new[t] = Sought(t, element[t], master)
                BY <3>1
            <4>2. element[t].there /\ element[t].on
                BY <2>2, <3>1, SoundIs DEF Follows, There, Ended, EndOf
            <4> HIDE DEF new
            <4>3. Follows(t, element[t], Sought(t, element[t], master), playing)
                <5>1. element[t] \in Element /\ playing
                    BY <2>2, SoundIs
                <5> HIDE DEF running
                <5> QED
                    BY <2>1, <4>2, <5>1, AtIs DEF Follows
            <4> QED
                BY <4>1, <4>3
        <3>2. CASE ~(t \in running /\ (element[t].known => master < Length[t]))
            <4>1. new[t] = element[t]
                BY <3>2
            <4> QED
                BY <4>1, SoundIs
        <3> QED
            BY <3>1, <3>2
    <2>4. element' = [t \in TrackIds |-> new[t]]
        BY <2>2
    <2>5. playing' \in BOOLEAN /\ masterTime' \in Nat
        BY <2>1, <2>2 DEF DeckInv, DeckTypeOK
    <2> HIDE DEF new
    <2> QED
        BY <1>1, <2>2, <2>3, <2>4, <2>5, SoundStep
<1> QED
    BY <1>2, <1>3

-----------------------------------------------------------------------------
(* Tracks come and go.                                                       *)

LEMMA Appended ==
    ASSUME DeckInv, NEW t \in TrackIds, ~In(t), tracks' = Append(tracks, t)
    PROVE  /\ tracks' \in Seq(TrackIds) /\ tracks' # <<>> /\ OnceEach'
           /\ \A u : In(u)' <=> In(u) \/ u = t
<1>1. tracks \in Seq(TrackIds) /\ OnceEach
    BY DEF DeckInv, DeckTypeOK
<1>2. /\ tracks' \in Seq(TrackIds) /\ tracks' # <<>> /\ Len(tracks') = Len(tracks) + 1
      /\ \A i \in 1 .. Len(tracks) : tracks'[i] = tracks[i]
      /\ tracks'[Len(tracks) + 1] = t
    BY <1>1, AppendProperties
<1>3. DOMAIN tracks = 1 .. Len(tracks) /\ DOMAIN tracks' = 1 .. Len(tracks) + 1 /\ Len(tracks) \in Nat
    BY <1>1, <1>2, LenProperties
<1>4. \A i \in DOMAIN tracks : tracks[i] # t
    BY DEF In, ToSet
<1>5. \A u : In(u)' <=> In(u) \/ u = t
    <2> SUFFICES ASSUME NEW u PROVE In(u)' <=> In(u) \/ u = t
        OBVIOUS
    <2>1. In(u)' <=> \E i \in DOMAIN tracks' : tracks'[i] = u
        BY DEF In, ToSet
    <2>2. In(u) <=> \E i \in DOMAIN tracks : tracks[i] = u
        BY DEF In, ToSet
    <2> QED
        BY <1>2, <1>3, <2>1, <2>2
<1>6. OnceEach'
    <2> SUFFICES ASSUME NEW i \in DOMAIN tracks', NEW j \in DOMAIN tracks', tracks'[i] = tracks'[j]
                 PROVE  i = j
        BY DEF OnceEach
    <2> QED
        BY <1>1, <1>2, <1>3, <1>4 DEF OnceEach
<1> QED
    BY <1>2, <1>5, <1>6

LEMMA Removed ==
    ASSUME DeckInv, NEW i \in DOMAIN tracks, tracks' = RemoveAt(tracks, i)
    PROVE  /\ tracks' \in Seq(TrackIds) /\ OnceEach'
           /\ \A u : In(u)' <=> In(u) /\ u # tracks[i]
<1>1. tracks \in Seq(TrackIds) /\ OnceEach
    BY DEF DeckInv, DeckTypeOK
<1> DEFINE n == Len(tracks)
           front == SubSeq(tracks, 1, i - 1)
           back == SubSeq(tracks, i + 1, n)
<1>2. DOMAIN tracks = 1 .. n /\ n \in Nat /\ i \in 1 .. n
    BY <1>1, LenProperties
<1>3. \A j \in 1 .. n : tracks[j] \in TrackIds
    BY <1>1, <1>2, ElementOfSeq
<1>4. /\ front \in Seq(TrackIds) /\ Len(front) = i - 1
      /\ \A j \in 1 .. i - 1 : front[j] = tracks[j]
    <2>1. i - 1 \in Int /\ \A j \in 1 .. i - 1 : tracks[j] \in TrackIds
        BY <1>2, <1>3
    <2>2. /\ front \in Seq(TrackIds)
          /\ Len(front) = IF 1 <= i - 1 THEN (i - 1) - 1 + 1 ELSE 0
          /\ \A j \in 1 .. (i - 1) - 1 + 1 : front[j] = tracks[1 + j - 1]
        BY <2>1, SubSeqProperties
    <2> QED
        BY <1>2, <2>2
<1>5. /\ back \in Seq(TrackIds) /\ Len(back) = n - i
      /\ \A j \in 1 .. n - i : back[j] = tracks[i + j]
    <2>1. i + 1 \in Int /\ n \in Int /\ \A j \in i + 1 .. n : tracks[j] \in TrackIds
        BY <1>2, <1>3
    <2>2. /\ back \in Seq(TrackIds)
          /\ Len(back) = IF i + 1 <= n THEN n - (i + 1) + 1 ELSE 0
          /\ \A j \in 1 .. n - (i + 1) + 1 : back[j] = tracks[(i + 1) + j - 1]
        BY <2>1, SubSeqProperties
    <2> QED
        BY <1>2, <2>2
<1>6. tracks' = front \o back
    BY DEF RemoveAt
<1> HIDE DEF front, back
<1>7. /\ tracks' \in Seq(TrackIds) /\ Len(tracks') = n - 1
      /\ \A j \in 1 .. n - 1 : tracks'[j] = IF j < i THEN tracks[j] ELSE tracks[j + 1]
    <2>1. /\ tracks' \in Seq(TrackIds) /\ Len(tracks') = Len(front) + Len(back)
          /\ \A j \in 1 .. Len(front) + Len(back) :
                tracks'[j] = IF j <= Len(front) THEN front[j] ELSE back[j - Len(front)]
        BY <1>4, <1>5, <1>6, ConcatProperties
    <2>2. Len(front) + Len(back) = n - 1
        BY <1>2, <1>4, <1>5
    <2>3. ASSUME NEW j \in 1 .. n - 1
          PROVE  tracks'[j] = IF j < i THEN tracks[j] ELSE tracks[j + 1]
        <3>1. tracks'[j] = IF j <= i - 1 THEN front[j] ELSE back[j - (i - 1)]
            BY <1>4, <2>1, <2>2
        <3>2. CASE j < i
            BY <1>2, <1>4, <3>1, <3>2
        <3>3. CASE ~(j < i)
            <4>1. j - (i - 1) \in 1 .. n - i /\ i + (j - (i - 1)) = j + 1
                BY <1>2, <3>3
            <4>2. back[j - (i - 1)] = tracks[j + 1]
                BY <1>5, <4>1
            <4> QED
                BY <1>2, <3>1, <3>3, <4>2
        <3> QED
            BY <3>2, <3>3
    <2> QED
        BY <2>1, <2>2, <2>3
<1>8. DOMAIN tracks' = 1 .. n - 1
    BY <1>7, LenProperties
<1>9. \A u : In(u)' <=> In(u) /\ u # tracks[i]
    <2> SUFFICES ASSUME NEW u PROVE In(u)' <=> In(u) /\ u # tracks[i]
        OBVIOUS
    <2>1. In(u)' <=> \E j \in 1 .. n - 1 : tracks'[j] = u
        BY <1>8 DEF In, ToSet
    <2>2. In(u) <=> \E j \in 1 .. n : tracks[j] = u
        BY <1>2 DEF In, ToSet
    <2>3. ASSUME NEW j \in 1 .. n - 1, tracks'[j] = u PROVE In(u) /\ u # tracks[i]
        <3>0. j \in 1 .. n /\ j + 1 \in 1 .. n
            BY <1>2
        <3>1. PICK k \in 1 .. n : k # i /\ tracks[k] = u
            <4>1. CASE j < i
                BY <1>2, <1>7, <2>3, <3>0, <4>1
            <4>2. CASE ~(j < i)
                <5>1. j + 1 # i /\ tracks[j + 1] = u
                    BY <1>2, <1>7, <2>3, <4>2
                <5> QED
                    BY <3>0, <5>1
            <4> QED
                BY <4>1, <4>2
        <3> QED
            BY <1>1, <1>2, <2>2, <3>1 DEF OnceEach
    <2>4. ASSUME NEW k \in 1 .. n, tracks[k] = u, u # tracks[i] PROVE \E j \in 1 .. n - 1 : tracks'[j] = u
        <3>1. CASE k < i
            <4>1. k \in 1 .. n - 1
                BY <1>2, <3>1
            <4> QED
                BY <1>7, <2>4, <3>1, <4>1
        <3>2. CASE k > i
            <4>1. k - 1 \in 1 .. n - 1 /\ ~(k - 1 < i) /\ (k - 1) + 1 = k
                BY <1>2, <3>2
            <4> QED
                BY <1>7, <2>4, <4>1
        <3>3. k # i
            BY <2>4
        <3> QED
            BY <1>2, <3>1, <3>2, <3>3
    <2> QED
        BY <2>1, <2>2, <2>3, <2>4
<1>10. OnceEach'
    <2> SUFFICES ASSUME NEW j \in 1 .. n - 1, NEW k \in 1 .. n - 1, tracks'[j] = tracks'[k]
                 PROVE  j = k
        BY <1>8 DEF OnceEach
    <2>1. \A a, b \in 1 .. n : tracks[a] = tracks[b] => a = b
        BY <1>1, <1>2 DEF OnceEach
    <2> QED
        BY <1>2, <1>7, <2>1
<1> QED
    BY <1>7, <1>9, <1>10

LEMMA MutedIsBoolean == ASSUME NEW t PROVE IsMuted(t)' \in BOOLEAN
<1>1. CASE EffectiveSolo' # NoTrack
    <2>1. IsMuted(t)' = (t # EffectiveSolo')
        BY <1>1 DEF IsMuted
    <2> QED
        BY <2>1
<1>2. CASE ~(EffectiveSolo' # NoTrack)
    <2>1. IsMuted(t)' = (t \in muted')
        BY <1>2 DEF IsMuted
    <2> QED
        BY <2>1
<1> QED
    BY <1>1, <1>2

\* What the effects of the mutes leave.
LEMMA MutesAre ==
    ASSUME NEW els \in [TrackIds -> Element], Mutes(els)
    PROVE  /\ element' \in [TrackIds -> Element]
           /\ \A t \in TrackIds :
                 /\ element'[t].there = els[t].there /\ element'[t].on = els[t].on
                 /\ EndOf(t, element'[t]) <=> EndOf(t, els[t])
                 /\ IF els[t].there /\ graphs'[t] = NoGraph
                    THEN element'[t].muted = IsMuted(t)' ELSE element'[t].muted = els[t].muted
<1>1. ASSUME NEW t \in TrackIds, NEW m \in BOOLEAN, NEW el \in Element
      PROVE  /\ [el EXCEPT !.muted = m] \in Element
             /\ [el EXCEPT !.muted = m].there = el.there /\ [el EXCEPT !.muted = m].on = el.on
             /\ [el EXCEPT !.muted = m].muted = m
             /\ EndOf(t, [el EXCEPT !.muted = m]) <=> EndOf(t, el)
    BY DEF Element, EndOf
<1>2. ASSUME NEW t \in TrackIds
      PROVE  /\ element'[t] \in Element
             /\ element'[t].there = els[t].there /\ element'[t].on = els[t].on
             /\ EndOf(t, element'[t]) <=> EndOf(t, els[t])
             /\ IF els[t].there /\ graphs'[t] = NoGraph
                THEN element'[t].muted = IsMuted(t)' ELSE element'[t].muted = els[t].muted
    <2>0. els[t] \in Element /\ IsMuted(t)' \in BOOLEAN
        BY MutedIsBoolean
    <2>1. CASE els[t].there /\ graphs'[t] = NoGraph
        <3>1. element'[t] = [els[t] EXCEPT !.muted = IsMuted(t)']
            BY <2>1 DEF Mutes
        <3> DEFINE new == [els[t] EXCEPT !.muted = IsMuted(t)']
        <3>2. /\ new \in Element
              /\ new.there = els[t].there /\ new.on = els[t].on
              /\ new.muted = IsMuted(t)'
              /\ EndOf(t, new) <=> EndOf(t, els[t])
            BY <1>1, <2>0
        <3>3. element'[t] = new
            BY <3>1
        <3> HIDE DEF new
        <3> QED
            BY <2>1, <3>2, <3>3
    <2>2. CASE ~(els[t].there /\ graphs'[t] = NoGraph)
        <3>1. element'[t] = els[t]
            BY <2>2 DEF Mutes
        <3> QED
            BY <2>0, <2>2, <3>1
    <2> QED
        BY <2>1, <2>2
<1>3. element' \in [TrackIds -> Element]
    BY <1>2 DEF Mutes
<1> QED
    BY <1>2, <1>3

\* A route that is there has a mode, and the mode is not "none".
Routes == {g \in [TrackIds -> Graph] : \A t \in TrackIds : g[t].mode = "none" => ~g[t].muted}

LEMMA NoRoute ==
    ASSUME NEW g \in Routes, NEW t \in TrackIds
    PROVE  g[t] = NoGraph <=> g[t].mode = "none"
BY DEF Routes, Graph, NoGraph

LEMMA RoutedAre ==
    ASSUME NEW routes \in Routes, graphs' = RoutedMutes(routes)
    PROVE  /\ graphs' \in Routes
           /\ \A t \in TrackIds :
                 /\ graphs'[t].mode = routes[t].mode
                 /\ graphs'[t] = NoGraph <=> routes[t] = NoGraph
                 /\ graphs'[t] # NoGraph => graphs'[t].muted = IsMuted(t)'
<1>1. ASSUME NEW t \in TrackIds
      PROVE  /\ graphs'[t] \in Graph
             /\ graphs'[t].mode = routes[t].mode
             /\ graphs'[t].mode = "none" => ~graphs'[t].muted
             /\ routes[t] # NoGraph => graphs'[t].muted = IsMuted(t)'
    <2>0. routes[t] \in Graph /\ IsMuted(t)' \in BOOLEAN
        BY MutedIsBoolean DEF Routes
    <2>1. CASE routes[t] = NoGraph
        <3>1. graphs'[t] = NoGraph
            BY <2>1 DEF RoutedMutes
        <3> QED
            BY <2>1, <3>1, NothingIs DEF NoGraph
    <2>2. CASE routes[t] # NoGraph
        <3>1. graphs'[t] = [routes[t] EXCEPT !.muted = IsMuted(t)']
            BY <2>2 DEF RoutedMutes
        <3>2. ASSUME NEW m \in BOOLEAN, NEW g \in Graph
              PROVE  /\ [g EXCEPT !.muted = m] \in Graph
                     /\ [g EXCEPT !.muted = m].mode = g.mode /\ [g EXCEPT !.muted = m].muted = m
            BY DEF Graph
        <3> DEFINE new == [routes[t] EXCEPT !.muted = IsMuted(t)']
        <3>3. new \in Graph /\ new.mode = routes[t].mode /\ new.muted = IsMuted(t)'
            BY <2>0, <3>2
        <3>4. graphs'[t] = new
            BY <3>1
        <3>5. routes[t].mode # "none"
            BY <2>2, NoRoute
        <3> HIDE DEF new
        <3> QED
            BY <3>3, <3>4, <3>5
    <2> QED
        BY <2>1, <2>2
<1>2. graphs' \in Routes
    <2>1. graphs' \in [TrackIds -> Graph]
        BY <1>1 DEF RoutedMutes
    <2> QED
        BY <1>1, <2>1 DEF Routes
<1>3. \A t \in TrackIds : graphs'[t] = NoGraph <=> routes[t] = NoGraph
    <2> SUFFICES ASSUME NEW t \in TrackIds PROVE graphs'[t] = NoGraph <=> routes[t] = NoGraph
        OBVIOUS
    <2>1. graphs'[t] = NoGraph <=> graphs'[t].mode = "none"
        BY <1>2, NoRoute
    <2>2. routes[t] = NoGraph <=> routes[t].mode = "none"
        BY NoRoute
    <2> QED
        BY <1>1, <2>1, <2>2
<1> QED
    BY <1>1, <1>2, <1>3

\* Steps after which the mutes are what the buttons say.
LEMMA HeardStep ==
    ASSUME NEW els \in [TrackIds -> Element], Mutes(els), graphs' \in Routes,
           \A t \in TrackIds : graphs'[t].mode = channelOf'[t],
           \A t \in TrackIds : graphs'[t] # NoGraph =>
              /\ graphs'[t].muted = IsMuted(t)'
              /\ els[t].there /\ ~els[t].muted /\ context' = "open"
    PROVE  WhatIsHeard'
<1>1. ASSUME NEW t \in TrackIds
      PROVE  /\ element'[t].there = els[t].there
             /\ IF els[t].there /\ graphs'[t] = NoGraph
                THEN element'[t].muted = IsMuted(t)' ELSE element'[t].muted = els[t].muted
    BY MutesAre
<1> QED
    BY <1>1 DEF WhatIsHeard, There

LEMMA AsksIs ==
    ASSUME NEW before \in [TrackIds -> Nat], AsksAgain(before)
    PROVE  /\ asked' \in [TrackIds -> Nat]
           /\ \A t \in TrackIds : In(t)' /\ t \notin peaks' => asked'[t] > 0
           /\ \A t \in TrackIds : ~(In(t)' /\ t \notin peaks') => asked'[t] = before[t]
<1>1. ASSUME NEW t \in TrackIds, In(t)', t \notin peaks' PROVE asked'[t] \in Nat /\ asked'[t] > 0
    <2> DEFINE S == {before[t] + 1, MaxAsked}
    <2>1. asked'[t] = Min(S)
        BY <1>1 DEF AsksAgain, In
    <2>2. S \subseteq Nat /\ S # {} /\ \A n \in S : n > 0
        BY DeckAssumption
    <2> HIDE DEF S
    <2>3. Min(S) \in S
        BY <2>2, MinOf
    <2> QED
        BY <2>1, <2>2, <2>3
<1>2. ASSUME NEW t \in TrackIds, ~(In(t)' /\ t \notin peaks') PROVE asked'[t] \in Nat /\ asked'[t] = before[t]
    BY <1>2 DEF AsksAgain, In
<1>3. asked' \in [TrackIds -> Nat]
    BY <1>1, <1>2 DEF AsksAgain, In
<1> QED
    BY <1>1, <1>2, <1>3

\* What is known of the routes before a step.
LEMMA RoutesBefore ==
    ASSUME DeckInv
    PROVE  /\ graphs \in Routes
           /\ \A t \in TrackIds :
                 /\ graphs[t].mode = channelOf[t]
                 /\ graphs[t] # NoGraph =>
                       /\ element[t].there /\ ~element[t].muted /\ In(t) /\ context = "open"
                       /\ graphs[t].muted = IsMuted(t)
                 /\ graphs[t] = NoGraph => channelOf[t] = "none"
<1>1. graphs \in Routes
    BY DEF DeckInv, DeckTypeOK, DeckBooks, Routes
<1>2. ASSUME NEW t \in TrackIds
      PROVE  /\ graphs[t].mode = channelOf[t]
             /\ graphs[t] # NoGraph =>
                   /\ element[t].there /\ ~element[t].muted /\ In(t) /\ context = "open"
                   /\ graphs[t].muted = IsMuted(t)
             /\ graphs[t] = NoGraph => channelOf[t] = "none"
    <2>1. /\ graphs[t].mode = channelOf[t]
          /\ graphs[t] # NoGraph => element[t].there /\ context = "open"
        BY DEF DeckInv, DeckKeeps, WhatIsHeard
    <2>2. graphs[t] # NoGraph => ~element[t].muted /\ graphs[t].muted = IsMuted(t)
        BY <2>1 DEF DeckInv, DeckKeeps, WhatIsHeard, There
    <2>3. element[t].there => In(t)
        BY DEF DeckInv, DeckBooks
    <2>4. graphs[t] = NoGraph => graphs[t].mode = "none"
        BY DEF NoGraph
    <2> QED
        BY <2>1, <2>2, <2>3, <2>4
<1> QED
    BY <1>1, <1>2

LEMMA ReconciledIs ==
    ASSUME DeckInv, tracks' \in Seq(TrackIds), Reconciled
    PROVE  /\ graphs' \in Routes /\ context' \in {"none", "open"}
           /\ \A t \in TrackIds :
                 /\ graphs'[t].mode = IF In(t)' THEN channelOf[t] ELSE "none"
                 /\ graphs'[t] # NoGraph =>
                       /\ element[t].there /\ ~element[t].muted /\ In(t)'
                       /\ context' = "open" /\ graphs'[t].muted = IsMuted(t)'
<1> DEFINE routes == [t \in TrackIds |-> IF t \in ToSet(tracks') THEN graphs[t] ELSE NoGraph]
<1>1. graphs' = RoutedMutes(routes) /\ context' = (IF tracks' = <<>> THEN "none" ELSE context)
    BY DEF Reconciled
<1>2. \A t \in TrackIds : routes[t] = IF In(t)' THEN graphs[t] ELSE NoGraph
    BY DEF In
<1>3. routes \in Routes
    BY RoutesBefore, NothingIs DEF Routes, NoGraph
<1>4. \A t : In(t)' => tracks' # <<>>
    BY DEF In, ToSet
<1> HIDE DEF routes
<1>5. graphs' \in Routes
    BY <1>1, <1>3, RoutedAre
<1>6. ASSUME NEW t \in TrackIds
      PROVE  /\ graphs'[t].mode = IF In(t)' THEN channelOf[t] ELSE "none"
             /\ graphs'[t] # NoGraph =>
                   /\ element[t].there /\ ~element[t].muted /\ In(t)'
                   /\ context' = "open" /\ graphs'[t].muted = IsMuted(t)'
    <2>1. /\ graphs'[t].mode = routes[t].mode
          /\ graphs'[t] = NoGraph <=> routes[t] = NoGraph
          /\ graphs'[t] # NoGraph => graphs'[t].muted = IsMuted(t)'
        BY <1>1, <1>3, RoutedAre
    <2>2. NoGraph.mode = "none"
        BY DEF NoGraph
    <2> QED
        BY <1>1, <1>2, <1>4, <2>1, <2>2, RoutesBefore
<1>7. context' \in {"none", "open"}
    BY <1>1 DEF DeckInv, DeckTypeOK
<1> QED
    BY <1>5, <1>6, <1>7

\* A step after which the effects have run.
LEMMA CommitStep ==
    ASSUME tracks' \in Seq(TrackIds), OnceEach', pinned' \in BOOLEAN,
           playing' \in BOOLEAN, masterTime' \in Nat,
           fetch' \in [TrackIds -> {"none", "fetching", "failed", "done"}],
           soloId' \in TrackIds \cup {NoTrack}, muted' \subseteq TrackIds,
           peaks' \subseteq TrackIds,
           channels' \in [TrackIds -> {"none", "one", "more", "unknown"}],
           channelOf' \in [TrackIds -> {"none", "both", "left", "right"}],
           asked' \in [TrackIds -> Nat],
           graphs' \in Routes, context' \in {"none", "open"},
           NEW els \in [TrackIds -> Element], Mutes(els),
           \A t \in TrackIds :
              /\ els[t].there => In(t)' /\ (els[t].on <=> playing' /\ ~EndOf(t, els[t]))
              /\ fetch'[t] = "fetching" => In(t)' /\ ~els[t].there
              /\ t \in peaks' => channels'[t] # "none"
              /\ In(t)' /\ channels'[t] = "none" => asked'[t] > 0
              /\ graphs'[t].mode = channelOf'[t]
              /\ graphs'[t] # NoGraph =>
                    /\ graphs'[t].muted = IsMuted(t)'
                    /\ els[t].there /\ ~els[t].muted /\ context' = "open"
    PROVE  DeckInv'
<1>1. /\ element' \in [TrackIds -> Element]
      /\ \A t \in TrackIds :
            /\ element'[t].there = els[t].there /\ element'[t].on = els[t].on
            /\ EndOf(t, element'[t]) <=> EndOf(t, els[t])
    BY MutesAre
<1>2. DeckTypeOK'
    BY <1>1 DEF DeckTypeOK, Routes
<1>3. WhatIsHeard'
    BY HeardStep
<1>4. PlaysWithTheDeck'
    <2> SUFFICES ASSUME NEW t \in TrackIds, element'[t].there
                 PROVE  element'[t].on = (playing' /\ ~Ended(t)')
        BY DEF PlaysWithTheDeck, There
    <2>1. element'[t].on \in BOOLEAN
        BY <1>1 DEF Element
    <2>2. element'[t].on <=> playing' /\ ~Ended(t)'
        BY <1>1 DEF EndOf, Ended
    <2> QED
        BY <2>1, <2>2
<1>5. ButtonsComeBack'
    BY DEF ButtonsComeBack
<1>6. DeckBooks'
    <2> SUFFICES ASSUME NEW t \in TrackIds
                 PROVE  /\ element'[t].there => In(t)'
                        /\ fetch'[t] = "fetching" => In(t)' /\ ~element'[t].there
                        /\ graphs'[t].mode = "none" => ~graphs'[t].muted
                        /\ t \in peaks' => channels'[t] # "none"
        BY DEF DeckBooks
    <2> QED
        BY <1>1 DEF Routes
<1> QED
    BY <1>2, <1>3, <1>4, <1>5, <1>6 DEF DeckInv, DeckKeeps

LEMMA ArrivedIs ==
    ASSUME DeckInv, NEW t \in TrackIds
    PROVE  /\ Arrived(t, tracks) \in Element
           /\ Arrived(t, tracks).there /\ ~Arrived(t, tracks).muted
           /\ Arrived(t, tracks).on <=> playing /\ ~EndOf(t, Arrived(t, tracks))
<1> DEFINE others == {i \in DOMAIN tracks : tracks[i] # t /\ element[tracks[i]].there}
           new == [NoElement EXCEPT !.there = TRUE]
           from == IF others = {} THEN new ELSE Sought(t, new, element[tracks[Min(others)]].at)
<1>1. new \in Element /\ new.there /\ ~new.muted /\ ~new.on
    BY DEF NoElement, Element
<1>2. from \in Element /\ from.there /\ ~from.muted
    <2>1. CASE others = {}
        BY <1>1, <2>1
    <2>2. CASE others # {}
        <3>1. tracks \in Seq(TrackIds)
            BY DEF DeckInv, DeckTypeOK
        <3>2. DOMAIN tracks = 1 .. Len(tracks) /\ Len(tracks) \in Nat
            BY <3>1, LenProperties
        <3>3. others \subseteq Nat
            BY <3>2
        <3>4. Min(others) \in others
            <4> HIDE DEF others
            <4> QED
                BY <2>2, <3>3, MinOf
        <3>5. tracks[Min(others)] \in TrackIds
            BY <3>1, <3>2, <3>4, ElementOfSeq
        <3> DEFINE sec == element[tracks[Min(others)]].at
        <3>6. sec \in Nat
            BY <3>5, SoundIs
        <3>7. from = Sought(t, new, sec)
            BY <2>2
        <3> HIDE DEF from, new, sec
        <3> QED
            BY <1>1, <3>6, <3>7, AtIs
    <2> HIDE DEF from, new, others
    <2> QED
        BY <2>1, <2>2
<1>3. Arrived(t, tracks) = IF ~playing THEN new ELSE Played(t, from)
    BY DEF Arrived
<1> HIDE DEF from, new
<1>4. playing \in BOOLEAN
    BY SoundIs
<1> QED
    BY <1>1, <1>2, <1>3, <1>4, PlayedIs

LEMMA AddTrackStep == ASSUME DeckInv, NEW t \in TrackIds, AddTrack(t) PROVE DeckInv'
<1> DEFINE els == IF t \in Fetched THEN element ELSE [element EXCEPT ![t] = Arrived(t, tracks)]
<1>0. DeckTypeOK
    BY DEF DeckInv
<1>1. /\ ~In(t) /\ tracks' = Append(tracks, t)
      /\ UNCHANGED <<pinned, playing, masterTime, soloId, muted, channelOf, peaks, channels>>
      /\ AsksAgain(asked) /\ Reconciled
      /\ fetch' = [fetch EXCEPT ![t] = IF t \in Fetched THEN "fetching" ELSE "done"]
      /\ Mutes(els)
    BY DEF AddTrack, buttonVars
<1>2. /\ tracks' \in Seq(TrackIds) /\ OnceEach'
      /\ \A u : In(u)' <=> In(u) \/ u = t
    BY <1>1, Appended
<1>3. /\ els \in [TrackIds -> Element]
      /\ \A u \in TrackIds : u # t => els[u] = element[u]
      /\ els[t] = IF t \in Fetched THEN element[t] ELSE Arrived(t, tracks)
    BY <1>0, ArrivedIs DEF DeckTypeOK
<1>4. \A u \in TrackIds :
         /\ element[u].there => In(u)
         /\ fetch[u] = "fetching" => In(u) /\ ~element[u].there
         /\ u \in peaks => channels[u] # "none"
    BY DEF DeckInv, DeckBooks
<1>5. /\ asked' \in [TrackIds -> Nat]
      /\ \A u \in TrackIds : In(u)' /\ u \notin peaks' => asked'[u] > 0
    BY <1>0, <1>1, AsksIs DEF DeckTypeOK
<1>6. /\ graphs' \in Routes /\ context' \in {"none", "open"}
      /\ \A u \in TrackIds :
            /\ graphs'[u].mode = IF In(u)' THEN channelOf[u] ELSE "none"
            /\ graphs'[u] # NoGraph =>
                  /\ element[u].there /\ ~element[u].muted /\ In(u)'
                  /\ context' = "open" /\ graphs'[u].muted = IsMuted(u)'
    BY <1>1, <1>2, ReconciledIs
<1>7. /\ fetch' \in [TrackIds -> {"none", "fetching", "failed", "done"}]
      /\ \A u \in TrackIds : u # t => fetch'[u] = fetch[u]
      /\ fetch'[t] = "fetching" => t \in Fetched
    BY <1>0, <1>1 DEF DeckTypeOK
<1> HIDE DEF els
<1>8. ASSUME NEW u \in TrackIds
      PROVE  /\ els[u].there => In(u)' /\ (els[u].on <=> playing' /\ ~EndOf(u, els[u]))
             /\ fetch'[u] = "fetching" => In(u)' /\ ~els[u].there
    <2>1. CASE u = t /\ t \in Fetched
        BY <1>1, <1>2, <1>3, <1>4, <2>1
    <2>2. CASE u = t /\ t \notin Fetched
        BY <1>1, <1>2, <1>3, <1>7, <2>2, ArrivedIs
    <2>3. CASE u # t
        BY <1>1, <1>2, <1>3, <1>4, <1>7, <2>3, SoundIs DEF Follows
    <2> QED
        BY <2>1, <2>2, <2>3
<1>9. ASSUME NEW u \in TrackIds
      PROVE  /\ graphs'[u].mode = channelOf'[u]
             /\ graphs'[u] # NoGraph =>
                   /\ graphs'[u].muted = IsMuted(u)'
                   /\ els[u].there /\ ~els[u].muted /\ context' = "open"
    <2>1. graphs'[u] # NoGraph => u # t
        BY <1>1, <1>4, <1>6
    <2>2. ~In(u)' => channelOf[u] = "none"
        BY <1>2, RoutesBefore
    <2> QED
        BY <1>1, <1>3, <1>6, <2>1, <2>2
<1>10. ASSUME NEW u \in TrackIds
       PROVE  /\ u \in peaks' => channels'[u] # "none"
              /\ In(u)' /\ channels'[u] = "none" => asked'[u] > 0
    BY <1>1, <1>4, <1>5
<1>11. /\ pinned' \in BOOLEAN /\ playing' \in BOOLEAN /\ masterTime' \in Nat
       /\ soloId' \in TrackIds \cup {NoTrack} /\ muted' \subseteq TrackIds
       /\ peaks' \subseteq TrackIds
       /\ channels' \in [TrackIds -> {"none", "one", "more", "unknown"}]
       /\ channelOf' \in [TrackIds -> {"none", "both", "left", "right"}]
    BY <1>0, <1>1 DEF DeckTypeOK
<1> QED
    BY <1>1, <1>2, <1>3, <1>5, <1>6, <1>7, <1>8, <1>9, <1>10, <1>11, CommitStep

\* The dock goes with everything the deck knew.
LEMMA GoneStep ==
    ASSUME DeckInv, tracks' = <<>>, pinned' \in BOOLEAN, DeckIsGone,
           fetch' \in [TrackIds -> {"none", "fetching", "failed", "done"}],
           \A t \in TrackIds : fetch'[t] # "fetching",
           NEW els \in [TrackIds -> Element], Mutes(els),
           \A t \in TrackIds : ~els[t].there
    PROVE  DeckInv'
<1>1. /\ playing' = FALSE /\ masterTime' = 0
      /\ soloId' = NoTrack /\ muted' = {} /\ channelOf' = [t \in TrackIds |-> "none"]
      /\ peaks' = {} /\ channels' = [t \in TrackIds |-> "none"]
      /\ asked' = [t \in TrackIds |-> 0]
      /\ graphs' = [t \in TrackIds |-> NoGraph] /\ context' = "none"
    BY DEF DeckIsGone, Each
<1>2. tracks' \in Seq(TrackIds) /\ OnceEach' /\ \A u : ~In(u)'
    BY DEF OnceEach, In, ToSet
<1>3. graphs' \in Routes
    BY <1>1, NothingIs DEF Routes, NoGraph
<1>4. NoGraph.mode = "none"
    BY DEF NoGraph
<1>5. ASSUME NEW t \in TrackIds
      PROVE  /\ graphs'[t] = NoGraph /\ graphs'[t].mode = channelOf'[t]
             /\ t \notin peaks' /\ ~In(t)'
    BY <1>1, <1>2, <1>4
<1>6. /\ playing' \in BOOLEAN /\ masterTime' \in Nat
      /\ soloId' \in TrackIds \cup {NoTrack} /\ muted' \subseteq TrackIds
      /\ peaks' \subseteq TrackIds
      /\ channels' \in [TrackIds -> {"none", "one", "more", "unknown"}]
      /\ channelOf' \in [TrackIds -> {"none", "both", "left", "right"}]
      /\ asked' \in [TrackIds -> Nat] /\ context' \in {"none", "open"}
    BY <1>1
<1> QED
    BY <1>2, <1>3, <1>5, <1>6, CommitStep

\* What Unmounted leaves of the elements.
LEMMA UnmountedIs ==
    ASSUME DeckInv, NEW gone \in SUBSET TrackIds, Unmounted(gone)
    PROVE  \E els \in [TrackIds -> Element] :
              /\ Mutes(els)
              /\ \A t \in TrackIds : els[t] = IF t \in gone THEN NoElement ELSE element[t]
              /\ fetch' \in [TrackIds -> {"none", "fetching", "failed", "done"}]
              /\ \A t \in TrackIds : fetch'[t] = IF t \in gone THEN "none" ELSE fetch[t]
<1> DEFINE els == [t \in TrackIds |-> IF t \in gone THEN NoElement ELSE element[t]]
<1>1. Mutes(els)
    BY DEF Unmounted
<1>2. els \in [TrackIds -> Element]
    BY NothingIs DEF DeckInv, DeckTypeOK
<1>3. /\ fetch' \in [TrackIds -> {"none", "fetching", "failed", "done"}]
      /\ \A t \in TrackIds : fetch'[t] = IF t \in gone THEN "none" ELSE fetch[t]
    BY DEF Unmounted, DeckInv, DeckTypeOK
<1>4. \A t \in TrackIds : els[t] = IF t \in gone THEN NoElement ELSE element[t]
    OBVIOUS
<1> HIDE DEF els
<1> QED
    BY <1>1, <1>2, <1>3, <1>4

\* What a deck that stays forgets.
LEMMA ForgetStep ==
    ASSUME DeckInv, NEW gone \in SUBSET TrackIds, Unmounted(gone), Forget(gone), Reconciled,
           tracks' \in Seq(TrackIds), OnceEach', pinned' = pinned,
           playing' = playing \/ (playing' = FALSE /\ gone = TrackIds),
           playing' \in BOOLEAN, masterTime' \in Nat,
           \A u : In(u)' <=> In(u) /\ u \notin gone,
           asked' \in [TrackIds -> Nat],
           \A u \in TrackIds : In(u)' /\ u \notin peaks' => asked'[u] > 0
    PROVE  DeckInv'
<1>0. DeckTypeOK
    BY DEF DeckInv
<1>1. PICK els \in [TrackIds -> Element] :
         /\ Mutes(els)
         /\ \A t \in TrackIds : els[t] = IF t \in gone THEN NoElement ELSE element[t]
         /\ fetch' \in [TrackIds -> {"none", "fetching", "failed", "done"}]
         /\ \A t \in TrackIds : fetch'[t] = IF t \in gone THEN "none" ELSE fetch[t]
    BY UnmountedIs
<1>2. /\ soloId' = IF soloId \in gone THEN NoTrack ELSE soloId
      /\ muted' = muted \ gone /\ peaks' = peaks \ gone
      /\ channels' = [t \in TrackIds |-> IF t \in gone THEN "none" ELSE channels[t]]
      /\ channelOf' = [t \in TrackIds |-> IF t \in gone THEN "none" ELSE channelOf[t]]
    BY DEF Forget, WithoutGone
<1>3. \A u \in TrackIds :
         /\ element[u].there => In(u)
         /\ fetch[u] = "fetching" => In(u) /\ ~element[u].there
         /\ u \in peaks => channels[u] # "none"
    BY DEF DeckInv, DeckBooks
<1>4. /\ graphs' \in Routes /\ context' \in {"none", "open"}
      /\ \A u \in TrackIds :
            /\ graphs'[u].mode = IF In(u)' THEN channelOf[u] ELSE "none"
            /\ graphs'[u] # NoGraph =>
                  /\ element[u].there /\ ~element[u].muted /\ In(u)'
                  /\ context' = "open" /\ graphs'[u].muted = IsMuted(u)'
    BY ReconciledIs
<1>5. ~NoElement.there
    BY DEF NoElement
<1>6. ASSUME NEW u \in TrackIds
      PROVE  /\ els[u].there => In(u)' /\ (els[u].on <=> playing' /\ ~EndOf(u, els[u]))
             /\ fetch'[u] = "fetching" => In(u)' /\ ~els[u].there
    <2>1. CASE u \in gone
        BY <1>1, <1>5, <2>1
    <2>2. CASE u \notin gone
        BY <1>1, <1>3, <2>2, SoundIs DEF Follows
    <2> QED
        BY <2>1, <2>2
<1>7. ASSUME NEW u \in TrackIds
      PROVE  /\ graphs'[u].mode = channelOf'[u]
             /\ graphs'[u] # NoGraph =>
                   /\ graphs'[u].muted = IsMuted(u)'
                   /\ els[u].there /\ ~els[u].muted /\ context' = "open"
    <2>1. ~In(u) => channelOf[u] = "none"
        BY RoutesBefore
    <2>2. channelOf'[u] = IF u \in gone THEN "none" ELSE channelOf[u]
        BY <1>2
    <2> QED
        BY <1>1, <1>4, <2>1, <2>2
<1>8. ASSUME NEW u \in TrackIds
      PROVE  /\ u \in peaks' => channels'[u] # "none"
             /\ In(u)' /\ channels'[u] = "none" => asked'[u] > 0
    <2>1. channels'[u] = IF u \in gone THEN "none" ELSE channels[u]
        BY <1>2
    <2> QED
        BY <1>2, <1>3, <2>1
<1>9. /\ soloId' \in TrackIds \cup {NoTrack} /\ muted' \subseteq TrackIds
      /\ peaks' \subseteq TrackIds
      /\ channels' \in [TrackIds -> {"none", "one", "more", "unknown"}]
      /\ channelOf' \in [TrackIds -> {"none", "both", "left", "right"}]
      /\ pinned' \in BOOLEAN
    BY <1>0, <1>2 DEF DeckTypeOK
<1> QED
    BY <1>1, <1>4, <1>6, <1>7, <1>8, <1>9, CommitStep

LEMMA RemoveTrackStep == ASSUME DeckInv, NEW t \in TrackIds, RemoveTrack(t) PROVE DeckInv'
<1>1. PICK i \in DOMAIN tracks : tracks[i] = t /\ tracks' = RemoveAt(tracks, i)
    BY DEF RemoveTrack
<1>2. /\ tracks' \in Seq(TrackIds) /\ OnceEach'
      /\ \A u : In(u)' <=> In(u) /\ u # t
    BY <1>1, Removed
<1>3. pinned' = pinned /\ pinned' \in BOOLEAN /\ Unmounted({t})
    BY DEF RemoveTrack, DeckInv, DeckTypeOK
<1>4. CASE Leaves
    <2>1. PICK els \in [TrackIds -> Element] :
             /\ Mutes(els)
             /\ \A u \in TrackIds : els[u] = IF u \in {t} THEN NoElement ELSE element[u]
             /\ fetch' \in [TrackIds -> {"none", "fetching", "failed", "done"}]
             /\ \A u \in TrackIds : fetch'[u] = IF u \in {t} THEN "none" ELSE fetch[u]
        BY <1>3, UnmountedIs
    <2>2. DeckIsGone /\ tracks' = <<>>
        BY <1>4 DEF RemoveTrack, Leaves
    <2>3. \A u : ~In(u)'
        BY <2>2 DEF In, ToSet
    <2>4. ASSUME NEW u \in TrackIds PROVE ~els[u].there /\ fetch'[u] # "fetching"
        <3>1. u # t => ~element[u].there /\ fetch[u] # "fetching"
            BY <1>2, <2>3 DEF DeckInv, DeckBooks
        <3>2. ~NoElement.there
            BY DEF NoElement
        <3> QED
            BY <2>1, <3>1, <3>2
    <2> QED
        BY <1>3, <2>1, <2>2, <2>4, GoneStep
<1>5. CASE ~Leaves
    <2>1. UNCHANGED <<playing, masterTime>> /\ Forget({t}) /\ AsksAgain(asked) /\ Reconciled
        BY <1>5 DEF RemoveTrack
    <2>2. playing' \in BOOLEAN /\ masterTime' \in Nat /\ asked \in [TrackIds -> Nat]
        BY <2>1 DEF DeckInv, DeckTypeOK
    <2>3. /\ asked' \in [TrackIds -> Nat]
          /\ \A u \in TrackIds : In(u)' /\ u \notin peaks' => asked'[u] > 0
        BY <2>1, <2>2, AsksIs
    <2>4. {t} \in SUBSET TrackIds /\ \A u : In(u)' <=> In(u) /\ u \notin {t}
        BY <1>2
    <2> QED
        BY <1>2, <1>3, <2>1, <2>2, <2>3, <2>4, ForgetStep
<1> QED
    BY <1>4, <1>5

LEMMA ClearStep == ASSUME DeckInv, Clear PROVE DeckInv'
<1>1. tracks' = <<>> /\ pinned' = pinned /\ pinned' \in BOOLEAN /\ Unmounted(TrackIds)
    BY DEF Clear, DeckInv, DeckTypeOK
<1>2. tracks' \in Seq(TrackIds) /\ OnceEach' /\ \A u : ~In(u)'
    BY <1>1 DEF OnceEach, In, ToSet
<1>3. CASE Leaves
    <2>1. PICK els \in [TrackIds -> Element] :
             /\ Mutes(els)
             /\ \A u \in TrackIds : els[u] = IF u \in TrackIds THEN NoElement ELSE element[u]
             /\ fetch' \in [TrackIds -> {"none", "fetching", "failed", "done"}]
             /\ \A u \in TrackIds : fetch'[u] = IF u \in TrackIds THEN "none" ELSE fetch[u]
        BY <1>1, UnmountedIs
    <2>2. \A u \in TrackIds : ~els[u].there /\ fetch'[u] # "fetching"
        BY <2>1 DEF NoElement
    <2>3. DeckIsGone
        BY <1>3 DEF Clear
    <2> QED
        BY <1>1, <2>1, <2>2, <2>3, GoneStep
<1>4. CASE ~Leaves
    <2>1. playing' = FALSE /\ masterTime' = 0 /\ Forget(TrackIds) /\ Reconciled /\ asked' = asked
        BY <1>4 DEF Clear
    <2>2. asked' \in [TrackIds -> Nat]
        BY <2>1 DEF DeckInv, DeckTypeOK
    <2>3. ASSUME NEW u PROVE In(u) => u \in TrackIds
        <3>1. tracks \in Seq(TrackIds)
            BY DEF DeckInv, DeckTypeOK
        <3>2. \A i \in DOMAIN tracks : tracks[i] \in TrackIds
            BY <3>1, LenProperties, ElementOfSeq
        <3> QED
            BY <3>2 DEF In, ToSet
    <2>4. \A u : In(u)' <=> In(u) /\ u \notin TrackIds
        BY <1>2, <2>3
    <2>5. TrackIds \in SUBSET TrackIds /\ playing' \in BOOLEAN /\ masterTime' \in Nat
        BY <2>1
    <2> QED
        BY <1>1, <1>2, <2>1, <2>2, <2>4, <2>5, ForgetStep
<1> QED
    BY <1>3, <1>4

LEMMA StillMuted ==
    ASSUME UNCHANGED <<tracks, soloId, muted>>, NEW t
    PROVE  IsMuted(t)' = IsMuted(t) /\ In(t)' = In(t)
BY DEF IsMuted, EffectiveSolo, In

\* The effects of the mutes have nothing to do.
LEMMA NothingToMute ==
    ASSUME DeckInv, UNCHANGED <<tracks, soloId, muted, element>>, graphs' = graphs
    PROVE  Mutes(element)
<1>1. ASSUME NEW t \in TrackIds, element[t].there, graphs'[t] = NoGraph
      PROVE  element'[t] = [element[t] EXCEPT !.muted = IsMuted(t)']
    <2>1. element[t].muted = IsMuted(t)'
        BY <1>1, StillMuted DEF DeckInv, DeckKeeps, WhatIsHeard, There
    <2>2. element[t] \in Element
        BY SoundIs
    <2>3. [element[t] EXCEPT !.muted = element[t].muted] = element[t]
        BY <2>2 DEF Element
    <2> QED
        BY <2>1, <2>3
<1>2. element' = element /\ element \in [TrackIds -> Element]
    BY DEF DeckInv, DeckTypeOK
<1> QED
    BY <1>1, <1>2 DEF Mutes

\* A step that no effect follows.
LEMMA StillStep ==
    ASSUME DeckInv,
           UNCHANGED <<tracks, element, playing, masterTime, soloId, muted, channelOf, graphs, context>>,
           pinned' \in BOOLEAN,
           fetch' \in [TrackIds -> {"none", "fetching", "failed", "done"}],
           peaks' \subseteq TrackIds,
           channels' \in [TrackIds -> {"none", "one", "more", "unknown"}],
           asked' \in [TrackIds -> Nat],
           \A t \in TrackIds :
              /\ fetch'[t] = "fetching" => fetch[t] = "fetching"
              /\ t \in peaks' => channels'[t] # "none"
              /\ In(t) /\ channels'[t] = "none" => asked'[t] > 0
    PROVE  DeckInv'
<1>0. DeckTypeOK /\ OnceEach
    BY DEF DeckInv
<1>1. Mutes(element)
    BY NothingToMute
<1>2. OnceEach'
    BY <1>0 DEF OnceEach
<1>3. /\ tracks' \in Seq(TrackIds) /\ playing' \in BOOLEAN /\ masterTime' \in Nat
      /\ soloId' \in TrackIds \cup {NoTrack} /\ muted' \subseteq TrackIds
      /\ channelOf' \in [TrackIds -> {"none", "both", "left", "right"}]
      /\ graphs' \in Routes /\ context' \in {"none", "open"}
      /\ element \in [TrackIds -> Element]
    BY <1>0, RoutesBefore DEF DeckTypeOK
<1>4. ASSUME NEW t \in TrackIds
      PROVE  /\ element[t].there => In(t)' /\ (element[t].on <=> playing' /\ ~EndOf(t, element[t]))
             /\ fetch'[t] = "fetching" => In(t)' /\ ~element[t].there
             /\ In(t)' /\ channels'[t] = "none" => asked'[t] > 0
             /\ graphs'[t].mode = channelOf'[t]
             /\ graphs'[t] # NoGraph =>
                   /\ graphs'[t].muted = IsMuted(t)'
                   /\ element[t].there /\ ~element[t].muted /\ context' = "open"
    <2>1. IsMuted(t)' = IsMuted(t) /\ In(t)' = In(t)
        BY StillMuted
    <2>2. /\ element[t].there => In(t)
          /\ fetch[t] = "fetching" => In(t) /\ ~element[t].there
        BY DEF DeckInv, DeckBooks
    <2>3. element[t].there => (element[t].on <=> playing /\ ~EndOf(t, element[t]))
        BY SoundIs DEF Follows
    <2> QED
        BY <2>1, <2>2, <2>3, RoutesBefore
<1> QED
    BY <1>1, <1>2, <1>3, <1>4, CommitStep

LEMMA FetchEndsStep == ASSUME DeckInv, NEW t \in TrackIds, FetchEnds(t) PROVE DeckInv'
<1>0. DeckTypeOK /\ OnceEach
    BY DEF DeckInv
<1>1. /\ fetch[t] = "fetching"
      /\ UNCHANGED <<tracks, pinned, playing, masterTime, soloId, muted, channelOf,
                     peaks, channels, asked, graphs, context>>
    BY DEF FetchEnds, buttonVars, analyzeVars, routeVars
<1>2. \A u \in TrackIds :
         /\ element[u].there => In(u)
         /\ fetch[u] = "fetching" => In(u) /\ ~element[u].there
         /\ u \in peaks => channels[u] # "none"
         /\ In(u) /\ channels[u] = "none" => asked[u] > 0
    BY DEF DeckInv, DeckBooks, DeckKeeps, ButtonsComeBack
<1>3. CASE fetch' = [fetch EXCEPT ![t] = "failed"] /\ UNCHANGED element
    <2>1. /\ fetch' \in [TrackIds -> {"none", "fetching", "failed", "done"}]
          /\ \A u \in TrackIds : fetch'[u] = "fetching" => fetch[u] = "fetching"
        BY <1>0, <1>3 DEF DeckTypeOK
    <2>2. /\ pinned' \in BOOLEAN /\ peaks' \subseteq TrackIds
          /\ channels' \in [TrackIds -> {"none", "one", "more", "unknown"}]
          /\ asked' \in [TrackIds -> Nat]
        BY <1>0, <1>1 DEF DeckTypeOK
    <2> QED
        BY <1>1, <1>2, <1>3, <2>1, <2>2, StillStep
<1>4. CASE /\ fetch' = [fetch EXCEPT ![t] = "done"]
           /\ Mutes([element EXCEPT ![t] = Arrived(t, tracks)])
    <2> DEFINE els == [element EXCEPT ![t] = Arrived(t, tracks)]
    <2>1. /\ els \in [TrackIds -> Element] /\ Mutes(els)
          /\ els[t] = Arrived(t, tracks)
          /\ \A u \in TrackIds : u # t => els[u] = element[u]
        BY <1>0, <1>4, ArrivedIs DEF DeckTypeOK
    <2>2. /\ fetch' \in [TrackIds -> {"none", "fetching", "failed", "done"}]
          /\ \A u \in TrackIds : fetch'[u] = "fetching" => fetch[u] = "fetching" /\ u # t
        BY <1>0, <1>4 DEF DeckTypeOK
    <2> HIDE DEF els
    <2>3. OnceEach'
        BY <1>0, <1>1 DEF OnceEach
    <2>4. /\ tracks' \in Seq(TrackIds) /\ playing' \in BOOLEAN /\ masterTime' \in Nat
          /\ soloId' \in TrackIds \cup {NoTrack} /\ muted' \subseteq TrackIds
          /\ channelOf' \in [TrackIds -> {"none", "both", "left", "right"}]
          /\ graphs' \in Routes /\ context' \in {"none", "open"}
          /\ pinned' \in BOOLEAN /\ peaks' \subseteq TrackIds
          /\ channels' \in [TrackIds -> {"none", "one", "more", "unknown"}]
          /\ asked' \in [TrackIds -> Nat]
        BY <1>0, <1>1, RoutesBefore DEF DeckTypeOK
    <2>5. ASSUME NEW u \in TrackIds
          PROVE  /\ els[u].there => In(u)' /\ (els[u].on <=> playing' /\ ~EndOf(u, els[u]))
                 /\ fetch'[u] = "fetching" => In(u)' /\ ~els[u].there
                 /\ u \in peaks' => channels'[u] # "none"
                 /\ In(u)' /\ channels'[u] = "none" => asked'[u] > 0
                 /\ graphs'[u].mode = channelOf'[u]
                 /\ graphs'[u] # NoGraph =>
                       /\ graphs'[u].muted = IsMuted(u)'
                       /\ els[u].there /\ ~els[u].muted /\ context' = "open"
        <3>1. IsMuted(u)' = IsMuted(u) /\ In(u)' = In(u)
            BY <1>1, StillMuted
        <3>2. CASE u = t
            BY <1>1, <1>2, <2>1, <2>2, <3>1, <3>2, ArrivedIs, RoutesBefore
        <3>3. CASE u # t
            BY <1>1, <1>2, <2>1, <2>2, <3>1, <3>3, SoundIs, RoutesBefore DEF Follows
        <3> QED
            BY <3>2, <3>3
    <2> QED
        BY <2>1, <2>2, <2>3, <2>4, <2>5, CommitStep
<1> QED
    BY <1>3, <1>4 DEF FetchEnds

LEMMA TogglePinsStep == ASSUME DeckInv, TogglePins PROVE DeckInv'
<1>0. DeckTypeOK
    BY DEF DeckInv
<1>1. pinned' = ~pinned /\ pinned' \in BOOLEAN /\ UNCHANGED <<tracks, fetch, element>>
    BY <1>0 DEF TogglePins, DeckTypeOK
<1>2. \A u \in TrackIds :
         /\ element[u].there => In(u)
         /\ fetch[u] = "fetching" => In(u) /\ ~element[u].there
         /\ u \in peaks => channels[u] # "none"
         /\ In(u) /\ channels[u] = "none" => asked[u] > 0
    BY DEF DeckInv, DeckBooks, DeckKeeps, ButtonsComeBack
<1>3. fetch' \in [TrackIds -> {"none", "fetching", "failed", "done"}]
    BY <1>0, <1>1 DEF DeckTypeOK
<1>4. CASE Leaves
    <2>1. DeckIsGone /\ tracks' = <<>> /\ tracks = <<>>
        BY <1>1, <1>4 DEF TogglePins, Leaves
    <2>2. \A u : ~In(u)
        BY <2>1 DEF In, ToSet
    <2>3. \A u \in TrackIds : ~element[u].there /\ fetch'[u] # "fetching"
        BY <1>1, <1>2, <2>2
    <2>4. element \in [TrackIds -> Element]
        BY <1>0 DEF DeckTypeOK
    <2>5. Mutes(element)
        BY <1>1, <2>3, <2>4 DEF Mutes
    <2> QED
        BY <1>1, <1>3, <2>1, <2>3, <2>4, <2>5, GoneStep
<1>5. CASE ~Leaves
    <2>1. UNCHANGED <<playing, masterTime, soloId, muted, channelOf, peaks, channels, asked,
                      graphs, context>>
        BY <1>5 DEF TogglePins, buttonVars, analyzeVars, routeVars
    <2>2. /\ peaks' \subseteq TrackIds
          /\ channels' \in [TrackIds -> {"none", "one", "more", "unknown"}]
          /\ asked' \in [TrackIds -> Nat]
        BY <1>0, <2>1 DEF DeckTypeOK
    <2> QED
        BY <1>1, <1>2, <1>3, <2>1, <2>2, StillStep
<1> QED
    BY <1>4, <1>5

LEMMA AnalyzedStep == ASSUME DeckInv, NEW t \in TrackIds, Analyzed(t) PROVE DeckInv'
<1>0. DeckTypeOK
    BY DEF DeckInv
<1> DEFINE answered == [asked EXCEPT ![t] = asked[t] - 1]
<1>1. /\ asked[t] > 0
      /\ UNCHANGED <<tracks, pinned, fetch, element, playing, masterTime, soloId, muted,
                     channelOf, graphs, context>>
    BY DEF Analyzed, buttonVars, routeVars
<1>2. \A u \in TrackIds :
         /\ u \in peaks => channels[u] # "none"
         /\ In(u) /\ channels[u] = "none" => asked[u] > 0
    BY DEF DeckInv, DeckBooks, DeckKeeps, ButtonsComeBack
<1>3. answered \in [TrackIds -> Nat] /\ \A u \in TrackIds : u # t => answered[u] = asked[u]
    BY <1>0, <1>1 DEF DeckTypeOK
<1>4. /\ pinned' \in BOOLEAN
      /\ fetch' \in [TrackIds -> {"none", "fetching", "failed", "done"}]
    BY <1>0, <1>1 DEF DeckTypeOK
<1>5. CASE /\ \E known \in {"one", "more", "unknown"} : channels' = [channels EXCEPT ![t] = known]
           /\ peaks' = peaks \cup {t}
           /\ AsksAgain(answered)
    <2>1. /\ channels' \in [TrackIds -> {"none", "one", "more", "unknown"}]
          /\ channels'[t] # "none"
          /\ \A u \in TrackIds : u # t => channels'[u] = channels[u]
        BY <1>0, <1>5 DEF DeckTypeOK
    <2>2. peaks' \subseteq TrackIds
        BY <1>0, <1>5 DEF DeckTypeOK
    <2> HIDE DEF answered
    <2>3. /\ asked' \in [TrackIds -> Nat]
          /\ \A u \in TrackIds : In(u)' /\ u \notin peaks' => asked'[u] > 0
        BY <1>3, <1>5, AsksIs
    <2>4. ASSUME NEW u \in TrackIds
          PROVE  /\ u \in peaks' => channels'[u] # "none"
                 /\ In(u) /\ channels'[u] = "none" => asked'[u] > 0
        <3>1. u \in peaks' => channels'[u] # "none"
            BY <1>2, <1>5, <2>1
        <3>2. In(u)' = In(u)
            BY <1>1, StillMuted
        <3> QED
            BY <2>3, <3>1, <3>2
    <2> QED
        BY <1>1, <1>4, <2>1, <2>2, <2>3, <2>4, StillStep
<1>6. CASE /\ channels' = [channels EXCEPT ![t] = IF @ = "none" THEN "unknown" ELSE @]
           /\ asked' = answered
           /\ UNCHANGED peaks
    <2>1. /\ channels' \in [TrackIds -> {"none", "one", "more", "unknown"}]
          /\ channels'[t] # "none"
          /\ \A u \in TrackIds : u # t => channels'[u] = channels[u]
        BY <1>0, <1>6 DEF DeckTypeOK
    <2>2. peaks' \subseteq TrackIds
        BY <1>0, <1>6 DEF DeckTypeOK
    <2> HIDE DEF answered
    <2>3. ASSUME NEW u \in TrackIds
          PROVE  /\ u \in peaks' => channels'[u] # "none"
                 /\ In(u) /\ channels'[u] = "none" => asked'[u] > 0
        BY <1>2, <1>3, <1>6, <2>1
    <2>4. asked' \in [TrackIds -> Nat]
        BY <1>3, <1>6
    <2> QED
        BY <1>1, <1>4, <2>1, <2>2, <2>3, <2>4, StillStep
<1> QED
    BY <1>5, <1>6 DEF Analyzed

\* The solo and the mutes of the tracks that are there.
LEMMA MutesStep ==
    ASSUME DeckInv,
           UNCHANGED <<tracks, pinned, fetch, playing, masterTime, channelOf, peaks, channels,
                       asked, context>>,
           soloId' \in TrackIds \cup {NoTrack}, muted' \subseteq TrackIds,
           graphs' = RoutedMutes(graphs), Mutes(element)
    PROVE  DeckInv'
<1>0. DeckTypeOK /\ OnceEach
    BY DEF DeckInv
<1>1. /\ graphs' \in Routes
      /\ \A t \in TrackIds :
            /\ graphs'[t].mode = graphs[t].mode
            /\ graphs'[t] = NoGraph <=> graphs[t] = NoGraph
            /\ graphs'[t] # NoGraph => graphs'[t].muted = IsMuted(t)'
    BY RoutesBefore, RoutedAre
<1>2. OnceEach'
    BY <1>0 DEF OnceEach
<1>3. /\ tracks' \in Seq(TrackIds) /\ playing' \in BOOLEAN /\ masterTime' \in Nat
      /\ channelOf' \in [TrackIds -> {"none", "both", "left", "right"}]
      /\ context' \in {"none", "open"} /\ element \in [TrackIds -> Element]
      /\ pinned' \in BOOLEAN /\ peaks' \subseteq TrackIds
      /\ fetch' \in [TrackIds -> {"none", "fetching", "failed", "done"}]
      /\ channels' \in [TrackIds -> {"none", "one", "more", "unknown"}]
      /\ asked' \in [TrackIds -> Nat]
    BY <1>0 DEF DeckTypeOK
<1>4. ASSUME NEW t \in TrackIds
      PROVE  /\ element[t].there => In(t)' /\ (element[t].on <=> playing' /\ ~EndOf(t, element[t]))
             /\ fetch'[t] = "fetching" => In(t)' /\ ~element[t].there
             /\ t \in peaks' => channels'[t] # "none"
             /\ In(t)' /\ channels'[t] = "none" => asked'[t] > 0
             /\ graphs'[t].mode = channelOf'[t]
             /\ graphs'[t] # NoGraph =>
                   /\ graphs'[t].muted = IsMuted(t)'
                   /\ element[t].there /\ ~element[t].muted /\ context' = "open"
    <2>1. In(t)' = In(t)
        BY DEF In
    <2>2. /\ element[t].there => In(t)
          /\ fetch[t] = "fetching" => In(t) /\ ~element[t].there
          /\ t \in peaks => channels[t] # "none"
          /\ In(t) /\ channels[t] = "none" => asked[t] > 0
        BY DEF DeckInv, DeckBooks, DeckKeeps, ButtonsComeBack
    <2>3. element[t].there => (element[t].on <=> playing /\ ~EndOf(t, element[t]))
        BY SoundIs DEF Follows
    <2> QED
        BY <1>1, <2>1, <2>2, <2>3, RoutesBefore
<1> QED
    BY <1>1, <1>2, <1>3, <1>4, CommitStep

LEMMA ToggleSoloStep == ASSUME DeckInv, NEW t \in TrackIds, ToggleSolo(t) PROVE DeckInv'
<1>1. /\ UNCHANGED <<tracks, pinned, fetch, playing, masterTime, channelOf, peaks, channels,
                     asked, context>>
      /\ soloId' = (IF soloId = t THEN NoTrack ELSE t) /\ muted' = muted
      /\ graphs' = RoutedMutes(graphs) /\ Mutes(element)
    BY DEF ToggleSolo, analyzeVars
<1>2. soloId' \in TrackIds \cup {NoTrack} /\ muted' \subseteq TrackIds
    BY <1>1 DEF DeckInv, DeckTypeOK
<1> QED
    BY <1>1, <1>2, MutesStep

LEMMA ToggleMuteStep == ASSUME DeckInv, NEW t \in TrackIds, ToggleMute(t) PROVE DeckInv'
<1>1. /\ UNCHANGED <<tracks, pinned, fetch, playing, masterTime, channelOf, peaks, channels,
                     asked, context>>
      /\ muted' = (IF t \in muted THEN muted \ {t} ELSE muted \cup {t}) /\ soloId' = soloId
      /\ graphs' = RoutedMutes(graphs) /\ Mutes(element)
    BY DEF ToggleMute, analyzeVars
<1>2. soloId' \in TrackIds \cup {NoTrack} /\ muted' \subseteq TrackIds
    BY <1>1 DEF DeckInv, DeckTypeOK
<1> QED
    BY <1>1, <1>2, MutesStep

\* A graph is made muted as the element was, which then sounds into it.
LEMMA ToggleChannelStep ==
    ASSUME DeckInv, NEW t \in TrackIds, NEW side \in {"left", "right"}, ToggleChannel(t, side)
    PROVE  DeckInv'
<1>0. DeckTypeOK /\ OnceEach
    BY DEF DeckInv
<1> DEFINE mode == NextMode(IF channelOf[t] = "none" THEN "both" ELSE channelOf[t], side)
           els == [element EXCEPT ![t].muted = FALSE]
<1>1. /\ In(t) /\ element[t].there
      /\ graphs' = [graphs EXCEPT ![t] = Rerouted(t, mode)]
      /\ context' = "open"
      /\ channelOf' = [channelOf EXCEPT ![t] = mode]
      /\ element' = [element EXCEPT ![t].muted = graphs[t] # NoGraph /\ element[t].muted]
      /\ UNCHANGED <<tracks, pinned, fetch, playing, masterTime, soloId, muted, peaks, channels, asked>>
    BY DEF ToggleChannel, analyzeVars
<1>2. mode \in {"both", "left", "right"}
    BY DEF NextMode
<1> HIDE DEF mode
<1>3. /\ els \in [TrackIds -> Element]
      /\ els[t].there = element[t].there /\ els[t].on = element[t].on /\ ~els[t].muted
      /\ EndOf(t, els[t]) <=> EndOf(t, element[t])
      /\ \A u \in TrackIds : u # t => els[u] = element[u]
    BY <1>0 DEF DeckTypeOK, Element, EndOf
<1>4. element' = els
    <2>1. ~(graphs[t] # NoGraph /\ element[t].muted)
        BY RoutesBefore
    <2>2. (graphs[t] # NoGraph /\ element[t].muted) = FALSE
        BY <2>1
    <2> QED
        BY <1>1, <2>2
<1> HIDE DEF els
<1>5. /\ Rerouted(t, mode) \in Graph /\ Rerouted(t, mode).mode = mode
      /\ Rerouted(t, mode).muted = IsMuted(t)
    <2>1. element[t] \in Element /\ graphs[t] \in Graph
        BY <1>0 DEF DeckTypeOK
    <2>2. CASE graphs[t] # NoGraph
        <3>1. Rerouted(t, mode) = [graphs[t] EXCEPT !.mode = mode]
            BY <2>2 DEF Rerouted
        <3>2. graphs[t].muted = IsMuted(t)
            BY <2>2, RoutesBefore
        <3> QED
            BY <1>2, <2>1, <3>1, <3>2 DEF Graph
    <2>3. CASE graphs[t] = NoGraph
        <3>1. Rerouted(t, mode) = [mode |-> mode, muted |-> element[t].muted]
            BY <2>3 DEF Rerouted
        <3>2. element[t].muted = IsMuted(t)
            BY <1>1, <2>3 DEF DeckInv, DeckKeeps, WhatIsHeard, There
        <3>3. element[t].muted \in BOOLEAN
            BY <2>1 DEF Element
        <3> QED
            BY <1>2, <3>1, <3>2, <3>3 DEF Graph
    <2> QED
        BY <2>2, <2>3
<1>6. /\ graphs' \in [TrackIds -> Graph] /\ graphs'[t] = Rerouted(t, mode)
      /\ \A u \in TrackIds : u # t => graphs'[u] = graphs[u]
    BY <1>0, <1>1, <1>5 DEF DeckTypeOK
<1>7. graphs' \in Routes
    BY <1>2, <1>5, <1>6, RoutesBefore DEF Routes
<1>8. graphs'[t] # NoGraph
    BY <1>2, <1>5, <1>6 DEF NoGraph
<1>9. \A u \in TrackIds : IsMuted(u)' = IsMuted(u) /\ In(u)' = In(u)
    BY <1>1, StillMuted
<1>10. Mutes(els)
    <2>1. ASSUME NEW u \in TrackIds, els[u].there, graphs'[u] = NoGraph
          PROVE  els[u] = [els[u] EXCEPT !.muted = IsMuted(u)']
        <3>1. u # t
            BY <1>8, <2>1
        <3>2. els[u] = element[u] /\ graphs[u] = NoGraph /\ element[u] \in Element
            BY <1>3, <1>6, <2>1, <3>1, SoundIs
        <3>3. element[u].muted = IsMuted(u)'
            BY <1>9, <2>1, <3>2 DEF DeckInv, DeckKeeps, WhatIsHeard, There
        <3>4. [element[u] EXCEPT !.muted = element[u].muted] = element[u]
            BY <3>2 DEF Element
        <3> QED
            BY <3>2, <3>3, <3>4
    <2> QED
        BY <1>3, <1>4, <2>1 DEF Mutes
<1>11. OnceEach'
    BY <1>0, <1>1 DEF OnceEach
<1>12. /\ tracks' \in Seq(TrackIds) /\ playing' \in BOOLEAN /\ masterTime' \in Nat
       /\ soloId' \in TrackIds \cup {NoTrack} /\ muted' \subseteq TrackIds
       /\ channelOf' \in [TrackIds -> {"none", "both", "left", "right"}]
       /\ context' \in {"none", "open"}
       /\ pinned' \in BOOLEAN /\ peaks' \subseteq TrackIds
       /\ fetch' \in [TrackIds -> {"none", "fetching", "failed", "done"}]
       /\ channels' \in [TrackIds -> {"none", "one", "more", "unknown"}]
       /\ asked' \in [TrackIds -> Nat]
    BY <1>0, <1>1, <1>2 DEF DeckTypeOK
<1>13. ASSUME NEW u \in TrackIds
       PROVE  /\ els[u].there => In(u)' /\ (els[u].on <=> playing' /\ ~EndOf(u, els[u]))
              /\ fetch'[u] = "fetching" => In(u)' /\ ~els[u].there
              /\ u \in peaks' => channels'[u] # "none"
              /\ In(u)' /\ channels'[u] = "none" => asked'[u] > 0
    <2>1. /\ element[u].there => In(u)
          /\ fetch[u] = "fetching" => In(u) /\ ~element[u].there
          /\ u \in peaks => channels[u] # "none"
          /\ In(u) /\ channels[u] = "none" => asked[u] > 0
        BY DEF DeckInv, DeckBooks, DeckKeeps, ButtonsComeBack
    <2>2. element[u].there => (element[u].on <=> playing /\ ~EndOf(u, element[u]))
        BY SoundIs DEF Follows
    <2> QED
        BY <1>1, <1>3, <1>9, <2>1, <2>2
<1>14. ASSUME NEW u \in TrackIds
       PROVE  /\ graphs'[u].mode = channelOf'[u]
              /\ graphs'[u] # NoGraph =>
                    /\ graphs'[u].muted = IsMuted(u)'
                    /\ els[u].there /\ ~els[u].muted /\ context' = "open"
    <2>1. CASE u = t
        <3>1. channelOf'[t] = mode
            BY <1>0, <1>1 DEF DeckTypeOK
        <3> QED
            BY <1>1, <1>3, <1>5, <1>6, <1>9, <2>1, <3>1
    <2>2. CASE u # t
        <3>1. channelOf'[u] = channelOf[u]
            BY <1>0, <1>1, <2>2 DEF DeckTypeOK
        <3> QED
            BY <1>1, <1>3, <1>6, <1>9, <2>2, <3>1, RoutesBefore
    <2> QED
        BY <2>1, <2>2
<1> QED
    BY <1>3, <1>7, <1>10, <1>11, <1>12, <1>13, <1>14, CommitStep

-----------------------------------------------------------------------------
(* The deck is whole.                                                        *)

LEMMA DeckStarts == DeckInit => DeckInv
<1> SUFFICES ASSUME DeckInit PROVE DeckInv
    OBVIOUS
<1>1. /\ tracks = <<>> /\ pinned = FALSE
      /\ fetch = [t \in TrackIds |-> "none"] /\ element = [t \in TrackIds |-> NoElement]
      /\ playing = FALSE /\ masterTime = 0
      /\ soloId = NoTrack /\ muted = {} /\ channelOf = [t \in TrackIds |-> "none"]
      /\ peaks = {} /\ channels = [t \in TrackIds |-> "none"] /\ asked = [t \in TrackIds |-> 0]
      /\ graphs = [t \in TrackIds |-> NoGraph] /\ context = "none"
    BY DEF DeckInit, Each
<1>2. NoGraph.mode = "none" /\ ~NoGraph.muted /\ ~NoElement.there
    BY DEF NoGraph, NoElement
<1>3. \A u : ~In(u)
    BY <1>1 DEF In, ToSet
<1>4. There = {}
    BY <1>1, <1>2 DEF There
<1>5. DeckTypeOK
    <2>1. element \in [TrackIds -> Element] /\ graphs \in [TrackIds -> Graph]
        BY <1>1, NothingIs
    <2>2. /\ fetch \in [TrackIds -> {"none", "fetching", "failed", "done"}]
          /\ channels \in [TrackIds -> {"none", "one", "more", "unknown"}]
          /\ asked \in [TrackIds -> Nat]
          /\ channelOf \in [TrackIds -> {"none", "both", "left", "right"}]
        BY <1>1
    <2>3. tracks \in Seq(TrackIds) /\ muted \subseteq TrackIds /\ peaks \subseteq TrackIds
        BY <1>1
    <2>4. /\ pinned \in BOOLEAN /\ playing \in BOOLEAN /\ masterTime \in Nat
          /\ soloId \in TrackIds \cup {NoTrack} /\ context \in {"none", "open"}
        BY <1>1
    <2> QED
        BY <2>1, <2>2, <2>3, <2>4 DEF DeckTypeOK
<1>6. OnceEach
    BY <1>1 DEF OnceEach
<1>7. DeckBooks
    BY <1>1, <1>2 DEF DeckBooks
<1>8. DeckKeeps
    BY <1>1, <1>2, <1>3, <1>4 DEF DeckKeeps, WhatIsHeard, PlaysWithTheDeck, ButtonsComeBack
<1> QED
    BY <1>5, <1>6, <1>7, <1>8 DEF DeckInv

LEMMA DeckStep == DeckInv /\ [DeckNext]_deckVars => DeckInv'
<1> SUFFICES ASSUME DeckInv, [DeckNext]_deckVars PROVE DeckInv'
    OBVIOUS
<1>1. ASSUME NEW t \in TrackIds, AddTrack(t) PROVE DeckInv'
    BY <1>1, AddTrackStep
<1>2. ASSUME NEW t \in TrackIds, RemoveTrack(t) PROVE DeckInv'
    BY <1>2, RemoveTrackStep
<1>3. ASSUME NEW t \in TrackIds, FetchEnds(t) PROVE DeckInv'
    BY <1>3, FetchEndsStep
<1>4. ASSUME NEW t \in TrackIds, LoadsMetadata(t) PROVE DeckInv'
    BY <1>4, MetadataStep
<1>5. ASSUME NEW t \in TrackIds, Analyzed(t) PROVE DeckInv'
    BY <1>5, AnalyzedStep
<1>6. ASSUME NEW t \in TrackIds, ToggleSolo(t) PROVE DeckInv'
    BY <1>6, ToggleSoloStep
<1>7. ASSUME NEW t \in TrackIds, ToggleMute(t) PROVE DeckInv'
    BY <1>7, ToggleMuteStep
<1>8. ASSUME NEW t \in TrackIds, NEW side \in {"left", "right"}, ToggleChannel(t, side) PROVE DeckInv'
    BY <1>8, ToggleChannelStep
<1>9. ASSUME NEW sec \in 0 .. Max({Length[t] : t \in TrackIds}), SeekAll(sec) PROVE DeckInv'
    <2>1. sec \in Nat
        OBVIOUS
    <2> QED
        BY <1>9, <2>1, SeekAllStep
<1>10. CASE Advance
    BY <1>10, AdvanceStep
<1>11. CASE Tick
    BY <1>11, TickStep
<1>12. CASE Clear
    BY <1>12, ClearStep
<1>13. CASE TogglePins
    BY <1>13, TogglePinsStep
<1>14. CASE PlayAll
    BY <1>14, PlayAllStep
<1>15. CASE PauseAll
    BY <1>15, PauseAllStep
<1>16. CASE StopAll
    BY <1>16, StopAllStep
<1>17. CASE UNCHANGED deckVars
    BY <1>17 DEF deckVars, buttonVars, analyzeVars, routeVars, DeckInv, DeckTypeOK, OnceEach,
       DeckBooks, DeckKeeps, WhatIsHeard, PlaysWithTheDeck, ButtonsComeBack, In, There,
       Ended, IsMuted, EffectiveSolo
<1> QED
    BY <1>1, <1>2, <1>3, <1>4, <1>5, <1>6, <1>7, <1>8, <1>9, <1>10, <1>11, <1>12, <1>13,
       <1>14, <1>15, <1>16, <1>17 DEF DeckNext

\* The inductive invariant holds: every button, every answer and every second leaves the
\* deck with each track once, and what it keeps of the tracks that are gone forgotten.
THEOREM DeckInvHolds == DeckSpec => []DeckInv
BY DeckStarts, DeckStep, PTL DEF DeckSpec

\* What the deck keeps has its type, whatever the tracks and their lengths.
THEOREM DeckTypeCorrect == DeckSpec => []DeckTypeOK
<1>1. DeckInv => DeckTypeOK
    BY DEF DeckInv
<1> QED
    BY <1>1, DeckInvHolds, PTL

\* Those are muted that the buttons say, none is left behind that has not ended, none
\* plays on when the deck was stopped, and the channel buttons wait for an analysis
\* under way: for any number of tracks of any length, and however their sound, its
\* analysis and the buttons meet.
THEOREM DeckWhole == DeckSpec => []DeckIsWhole
<1>1. DeckInv => DeckIsWhole
    BY DEF DeckInv, DeckKeeps, PlaysWithTheDeck, DeckIsWhole, NobodyIsLeftBehind
<1> QED
    BY <1>1, DeckInvHolds, PTL

-----------------------------------------------------------------------------
(* What a tab keeps in its caches.                                           *)

Answers == Values \cup {NoVal}
Entry == [val : Answers, fresh : BOOLEAN, load : Loads \cup {0}]
Saved == [val : Answers, fresh : BOOLEAN]
Request == [pc : {"none", "sent", "ok", "unauthorized", "failed"}, val : Answers, awaited : BOOLEAN]

\* An answer of the tab's own is not from before its last drop, nor of an earlier session.
Kept(t, val, low, names) == val # NoVal /\ val.by = t => val.at >= low /\ val.of \in names

\* A tab with its entry, its requests and what localStorage has.  Only a request that
\* somebody awaits may still answer into the entry.
TabIs(t, entry, requests, saved, low, names) ==
    /\ entry \in Entry /\ saved \in Saved
    /\ Kept(t, entry.val, low, names) /\ Kept(t, saved.val, low, names)
    /\ \A l \in Loads :
          /\ entry.load = l => requests[l].awaited
          /\ requests[l].awaited /\ requests[l].pc = "ok" =>
                /\ requests[l].val \in Values /\ requests[l].val.by = t
                /\ Kept(t, requests[l].val, low, names)

CacheTypeOK ==
    /\ written \in 0 .. MaxWrites /\ cookie \in Users \cup {NoUser}
    /\ disk \in Saved
    /\ store \in [Tabs -> Entry]
    /\ request \in [Tabs -> [Loads -> Request]]
    /\ floor \in [Tabs -> 0 .. MaxWrites]
    /\ named \in [Tabs -> SUBSET Users]

\* The inductive invariant.
CacheInv ==
    /\ CacheTypeOK
    /\ \A t \in Tabs :
          /\ TabIs(t, store[t], request[t], disk, floor[t], named[t])
          /\ floor[t] <= written
          /\ cookie # NoUser => cookie \in named[t]

LEMMA EmptyIs ==
    /\ NoVal \in Answers /\ NoEntry \in Entry /\ NotSaved \in Saved /\ NoRequest \in Request
    /\ NoEntry.load = 0 /\ NoEntry.val = NoVal /\ NotSaved.val = NoVal
    /\ ~NoRequest.awaited
    /\ 0 \notin Loads
    /\ \A v \in Values : v # NoVal
<1>1. \A v \in Values : v # NoVal
    BY ClientAssumption DEF Values, NoVal
<1> QED
    BY <1>1, ClientAssumption DEF Answers, Entry, Saved, Request, NoEntry, NotSaved, NoRequest

\* A step of one tab.
LEMMA TabStep ==
    ASSUME CacheInv, NEW t \in Tabs, CacheTypeOK',
           written <= written', cookie' = cookie \/ cookie' = NoUser,
           disk' = disk \/ disk' = NotSaved \/ disk'.val.by = t,
           \A u \in Tabs \ {t} : /\ store'[u] = store[u] /\ request'[u] = request[u]
                                 /\ floor'[u] = floor[u] /\ named'[u] = named[u],
           TabIs(t, store'[t], request'[t], disk', floor'[t], named'[t]),
           floor'[t] <= written', cookie' # NoUser => cookie' \in named'[t]
    PROVE  CacheInv'
<1>1. ASSUME NEW u \in Tabs \ {t}
      PROVE  /\ TabIs(u, store'[u], request'[u], disk', floor'[u], named'[u])
             /\ floor'[u] <= written'
             /\ cookie' # NoUser => cookie' \in named'[u]
    <2>1. /\ TabIs(u, store[u], request[u], disk, floor[u], named[u])
          /\ floor[u] <= written
          /\ cookie # NoUser => cookie \in named[u]
          /\ floor[u] \in Int /\ written \in Int /\ written' \in Int
        BY DEF CacheInv, CacheTypeOK
    <2>2. disk' \in Saved
        BY DEF CacheTypeOK
    <2>3. Kept(u, disk'.val, floor[u], named[u])
        BY <2>1, EmptyIs DEF TabIs, Kept
    <2>4. TabIs(u, store[u], request[u], disk', floor[u], named[u])
        BY <2>1, <2>2, <2>3 DEF TabIs
    <2> QED
        BY <2>1, <2>4
<1> QED
    BY <1>1 DEF CacheInv

\* What is known of a tab before a step.
LEMMA TabBefore ==
    ASSUME CacheInv, NEW t \in Tabs
    PROVE  /\ CacheTypeOK /\ TabIs(t, store[t], request[t], disk, floor[t], named[t])
           /\ floor[t] <= written /\ (cookie # NoUser => cookie \in named[t])
           /\ store[t] \in Entry /\ request[t] \in [Loads -> Request]
           /\ floor[t] \in 0 .. MaxWrites /\ named[t] \in SUBSET Users
BY DEF CacheInv, CacheTypeOK

\* A drop leaves the tab with nothing that an answer under way could come back to.
LEMMA DroppedIs ==
    ASSUME CacheInv, NEW t \in Tabs, Drops(t), written' = written, NEW names \in SUBSET Users
    PROVE  /\ store' \in [Tabs -> Entry] /\ request' \in [Tabs -> [Loads -> Request]]
           /\ disk' = NotSaved /\ disk' \in Saved /\ floor' \in [Tabs -> 0 .. MaxWrites]
           /\ \A u \in Tabs \ {t} : /\ store'[u] = store[u] /\ request'[u] = request[u]
                                    /\ floor'[u] = floor[u]
           /\ floor'[t] = written
           /\ TabIs(t, store'[t], request'[t], disk', floor'[t], names)
<1>0. CacheTypeOK
    BY TabBefore
<1>1. Unawaited(t) \in [Loads -> Request] /\ \A l \in Loads : ~Unawaited(t)[l].awaited
    <2>1. ASSUME NEW l \in Loads
          PROVE  /\ [request[t][l] EXCEPT !.awaited = FALSE] \in Request
                 /\ ~[request[t][l] EXCEPT !.awaited = FALSE].awaited
        <3>1. request[t][l] \in Request
            BY <1>0 DEF CacheTypeOK
        <3> QED
            BY <3>1 DEF Request
    <2> QED
        BY <2>1 DEF Unawaited
<1>2. /\ store' = [store EXCEPT ![t] = NoEntry] /\ disk' = NotSaved
      /\ floor' = [floor EXCEPT ![t] = written]
      /\ request' = [request EXCEPT ![t] = Unawaited(t)]
    BY DEF Drops
<1>3. /\ store' \in [Tabs -> Entry] /\ store'[t] = NoEntry
      /\ \A u \in Tabs \ {t} : store'[u] = store[u]
    BY <1>0, <1>2, EmptyIs DEF CacheTypeOK
<1>4. /\ request' \in [Tabs -> [Loads -> Request]] /\ request'[t] = Unawaited(t)
      /\ \A u \in Tabs \ {t} : request'[u] = request[u]
    BY <1>0, <1>1, <1>2 DEF CacheTypeOK
<1>5. /\ floor' \in [Tabs -> 0 .. MaxWrites] /\ floor'[t] = written
      /\ \A u \in Tabs \ {t} : floor'[u] = floor[u]
    BY <1>0, <1>2 DEF CacheTypeOK
<1>6. TabIs(t, NoEntry, Unawaited(t), NotSaved, written, names)
    BY <1>1, EmptyIs DEF TabIs, Kept
<1> QED
    BY <1>2, <1>3, <1>4, <1>5, <1>6, EmptyIs

\* A step that leaves the caches of all tabs and the cookie, or ends the session.
LEMMA OtherStep ==
    ASSUME CacheInv, UNCHANGED <<cacheVars, named>>, written <= written',
           written' \in 0 .. MaxWrites, cookie' = cookie \/ cookie' = NoUser
    PROVE  CacheInv'
<1>1. CacheTypeOK'
    BY DEF CacheInv, CacheTypeOK, cacheVars
<1>2. ASSUME NEW t \in Tabs
      PROVE  /\ TabIs(t, store'[t], request'[t], disk', floor'[t], named'[t])
             /\ floor'[t] <= written' /\ (cookie' # NoUser => cookie' \in named'[t])
    <2>1. /\ TabIs(t, store[t], request[t], disk, floor[t], named[t])
          /\ floor[t] <= written /\ (cookie # NoUser => cookie \in named[t])
        BY TabBefore
    <2>2. floor[t] \in Int /\ written \in Int /\ written' \in Int
        BY DEF CacheInv, CacheTypeOK
    <2> QED
        BY <2>1, <2>2 DEF cacheVars
<1> QED
    BY <1>1, <1>2 DEF CacheInv

\* The tab forgets, with the names of the users that it had shown.
LEMMA ForgetsStep ==
    ASSUME CacheInv, NEW t \in Tabs, Forgets(t), UNCHANGED <<cookie, written>> \/ (cookie' = NoUser /\ written' = written)
    PROVE  CacheInv'
<1>0. CacheTypeOK
    BY TabBefore
<1>1. Drops(t) /\ named' = [named EXCEPT ![t] = {cookie} \ {NoUser}]
    BY DEF Forgets
<1> DEFINE names == {cookie} \ {NoUser}
<1>2. names \in SUBSET Users /\ (cookie # NoUser => cookie \in names)
    BY <1>0 DEF CacheTypeOK
<1>3. /\ store' \in [Tabs -> Entry] /\ request' \in [Tabs -> [Loads -> Request]]
      /\ disk' = NotSaved /\ disk' \in Saved /\ floor' \in [Tabs -> 0 .. MaxWrites]
      /\ \A u \in Tabs \ {t} : /\ store'[u] = store[u] /\ request'[u] = request[u]
                               /\ floor'[u] = floor[u]
      /\ floor'[t] = written
      /\ TabIs(t, store'[t], request'[t], disk', floor'[t], names)
    BY <1>1, <1>2, DroppedIs
<1> HIDE DEF names
<1>4. named' = [named EXCEPT ![t] = names]
    BY <1>1 DEF names
<1>5. /\ named' \in [Tabs -> SUBSET Users] /\ named'[t] = names
      /\ \A u \in Tabs \ {t} : named'[u] = named[u]
    BY <1>0, <1>2, <1>4 DEF CacheTypeOK
<1>6. CacheTypeOK' /\ written <= written' /\ floor'[t] <= written' /\ (cookie' = cookie \/ cookie' = NoUser)
    BY <1>0, <1>3, <1>5 DEF CacheTypeOK
<1> QED
    BY <1>2, <1>3, <1>5, <1>6, TabStep

LEMMA HydratedIs ==
    ASSUME CacheInv, NEW t \in Tabs
    PROVE  /\ Hydrated(t) \in Entry
           /\ TabIs(t, Hydrated(t), request[t], disk, floor[t], named[t])
<1> DEFINE back == [val |-> disk.val, fresh |-> disk.fresh, load |-> 0]
<1>0. /\ TabIs(t, store[t], request[t], disk, floor[t], named[t])
      /\ disk \in Saved /\ store[t] \in Entry
    BY TabBefore DEF CacheTypeOK
<1>1. back \in Entry /\ back.val = disk.val /\ back.load = 0
    BY <1>0 DEF Saved, Entry
<1>2. Hydrated(t) = IF store[t] = NoEntry THEN back ELSE store[t]
    BY DEF Hydrated
<1> HIDE DEF back
<1>3. TabIs(t, back, request[t], disk, floor[t], named[t])
    BY <1>0, <1>1, EmptyIs DEF TabIs
<1> QED
    BY <1>0, <1>1, <1>2, <1>3

\* A request is sent for an entry that keeps what it may.
LEMMA SendsStep ==
    ASSUME CacheInv, NEW t \in Tabs, NEW l \in Idle(t), Sends(t, l),
           NEW entry \in Entry, entry.load = l, Kept(t, entry.val, floor[t], named[t]),
           store' = [store EXCEPT ![t] = entry],
           UNCHANGED <<disk, floor, named, cookie, written>>
    PROVE  CacheInv'
<1>0. /\ CacheTypeOK /\ TabIs(t, store[t], request[t], disk, floor[t], named[t])
      /\ floor[t] <= written /\ (cookie # NoUser => cookie \in named[t])
      /\ request[t] \in [Loads -> Request]
    BY TabBefore
<1> DEFINE sent == [NoRequest EXCEPT !.pc = "sent", !.awaited = TRUE]
<1>1. sent \in Request /\ sent.awaited /\ sent.pc = "sent"
    BY DEF NoRequest, Request, Answers
<1>2. l \in Loads
    BY DEF Idle
<1>3. request' = [request EXCEPT ![t][l] = sent]
    BY DEF Sends
<1> HIDE DEF sent
<1>4. /\ request' \in [Tabs -> [Loads -> Request]]
      /\ \A u \in Tabs \ {t} : request'[u] = request[u]
      /\ request'[t][l] = sent
      /\ \A m \in Loads : m # l => request'[t][m] = request[t][m]
    BY <1>0, <1>1, <1>2, <1>3 DEF CacheTypeOK
<1>5. /\ store' \in [Tabs -> Entry] /\ store'[t] = entry
      /\ \A u \in Tabs \ {t} : store'[u] = store[u]
    BY <1>0 DEF CacheTypeOK
<1>6. TabIs(t, entry, request'[t], disk, floor[t], named[t])
    BY <1>0, <1>1, <1>4 DEF TabIs
<1>7. CacheTypeOK' /\ written <= written'
    BY <1>0, <1>4, <1>5 DEF CacheTypeOK
<1> QED
    BY <1>0, <1>4, <1>5, <1>6, <1>7, TabStep

LEMMA GetStep ==
    ASSUME CacheInv, NEW t \in Tabs, NEW onRevalidate \in BOOLEAN, Get(t, onRevalidate)
    PROVE  CacheInv'
<1>0. /\ CacheTypeOK /\ TabIs(t, store[t], request[t], disk, floor[t], named[t])
      /\ floor[t] <= written /\ (cookie # NoUser => cookie \in named[t])
    BY TabBefore
<1> DEFINE entry == Hydrated(t)
<1>1. UNCHANGED <<disk, floor, named, cookie, written>>
    BY DEF Get, loginVars
<1>2. entry \in Entry /\ TabIs(t, entry, request[t], disk, floor[t], named[t])
    BY HydratedIs
<1>3. CASE store' = [store EXCEPT ![t] = entry] /\ UNCHANGED request
    <2> HIDE DEF entry
    <2>1. /\ store' \in [Tabs -> Entry] /\ store'[t] = entry
          /\ \A u \in Tabs \ {t} : store'[u] = store[u]
        BY <1>0, <1>2, <1>3 DEF CacheTypeOK
    <2>2. CacheTypeOK' /\ written <= written'
        BY <1>0, <1>1, <1>3, <2>1 DEF CacheTypeOK
    <2> QED
        BY <1>0, <1>1, <1>2, <1>3, <2>1, <2>2, TabStep
<1>4. CASE entry.load # 0 /\ Joins(t, entry.load) /\ UNCHANGED store
    <2>1. entry.load \in Loads /\ request[t][entry.load].awaited
        BY <1>2, <1>4 DEF Entry, TabIs
    <2> DEFINE l == entry.load
    <2>2. l \in Loads /\ request[t][l].awaited = TRUE /\ request[t][l] \in Request
        BY <1>0, <2>1 DEF CacheTypeOK, Request
    <2>3. request' = [request EXCEPT ![t] = [request[t] EXCEPT ![l] = [request[t][l] EXCEPT !.awaited = TRUE]]]
        BY <1>4 DEF Joins
    <2> HIDE DEF l, entry
    <2>4. [request[t][l] EXCEPT !.awaited = TRUE] = request[t][l]
        BY <2>2 DEF Request
    <2>5. request' = request
        BY <1>0, <2>2, <2>3, <2>4 DEF CacheTypeOK
    <2> QED
        BY <1>0, <1>1, <1>4, <2>5, OtherStep DEF cacheVars, CacheTypeOK
<1>5. ASSUME NEW l \in Idle(t), Sends(t, l), store' = [store EXCEPT ![t] = [entry EXCEPT !.load = l]]
      PROVE  CacheInv'
    <2> DEFINE next == [entry EXCEPT !.load = l]
    <2>1. next \in Entry /\ next.load = l /\ next.val = entry.val
        BY <1>2 DEF Entry, Idle
    <2>2. Kept(t, next.val, floor[t], named[t])
        BY <1>2, <2>1 DEF TabIs
    <2>3. store' = [store EXCEPT ![t] = next]
        BY <1>5
    <2> HIDE DEF next, entry
    <2> QED
        BY <1>1, <1>5, <2>1, <2>2, <2>3, SendsStep
<1>6. ASSUME NEW l \in Idle(t), Sends(t, l), store' = [store EXCEPT ![t] = [NoEntry EXCEPT !.load = l]]
      PROVE  CacheInv'
    <2> DEFINE next == [NoEntry EXCEPT !.load = l]
    <2>1. next \in Entry /\ next.load = l /\ next.val = NoVal
        BY EmptyIs DEF Entry, Idle
    <2>2. Kept(t, next.val, floor[t], named[t])
        BY <2>1 DEF Kept
    <2>3. store' = [store EXCEPT ![t] = next]
        BY <1>6
    <2> HIDE DEF next, entry
    <2> QED
        BY <1>1, <1>6, <2>1, <2>2, <2>3, SendsStep
<1> QED
    BY <1>3, <1>4, <1>5, <1>6 DEF Get

LEMMA RefreshStep == ASSUME CacheInv, NEW t \in Tabs, Refresh(t) PROVE CacheInv'
<1>0. /\ CacheTypeOK /\ (cookie # NoUser => cookie \in named[t])
    BY TabBefore
<1>1. PICK l \in Idle(t) :
         /\ store' = [store EXCEPT ![t] = [NoEntry EXCEPT !.load = l]]
         /\ request' = [request EXCEPT ![t] =
               [Unawaited(t) EXCEPT ![l] = [NoRequest EXCEPT !.pc = "sent", !.awaited = TRUE]]]
    BY DEF Refresh
<1>2. /\ disk' = NotSaved /\ floor' = [floor EXCEPT ![t] = written]
      /\ UNCHANGED <<named, cookie, written>>
    BY DEF Refresh, loginVars
<1>3. l \in Loads
    BY DEF Idle
<1> DEFINE entry == [NoEntry EXCEPT !.load = l]
           sent == [NoRequest EXCEPT !.pc = "sent", !.awaited = TRUE]
           reqs == [Unawaited(t) EXCEPT ![l] = sent]
<1>4. entry \in Entry /\ entry.load = l /\ entry.val = NoVal
    BY <1>3, EmptyIs DEF Entry
<1>5. sent \in Request /\ sent.awaited /\ sent.pc = "sent"
    BY DEF NoRequest, Request, Answers
<1>6. \A m \in Loads : Unawaited(t)[m] \in Request /\ ~Unawaited(t)[m].awaited
    <2>1. ASSUME NEW m \in Loads
          PROVE  /\ [request[t][m] EXCEPT !.awaited = FALSE] \in Request
                 /\ ~[request[t][m] EXCEPT !.awaited = FALSE].awaited
        <3>1. request[t][m] \in Request
            BY <1>0 DEF CacheTypeOK
        <3> QED
            BY <3>1 DEF Request
    <2> QED
        BY <2>1 DEF Unawaited
<1>7. store' = [store EXCEPT ![t] = entry] /\ request' = [request EXCEPT ![t] = reqs]
    BY <1>1
<1> HIDE DEF sent, entry
<1>8. /\ reqs \in [Loads -> Request] /\ reqs[l] = sent
      /\ \A m \in Loads : m # l => ~reqs[m].awaited
    <2>1. Unawaited(t) \in [Loads -> Request]
        BY <1>6 DEF Unawaited
    <2> QED
        BY <1>3, <1>5, <1>6, <2>1
<1> HIDE DEF reqs
<1>9. /\ store' \in [Tabs -> Entry] /\ store'[t] = entry
      /\ \A u \in Tabs \ {t} : store'[u] = store[u]
    BY <1>0, <1>4, <1>7 DEF CacheTypeOK
<1>10. /\ request' \in [Tabs -> [Loads -> Request]] /\ request'[t] = reqs
       /\ \A u \in Tabs \ {t} : request'[u] = request[u]
    BY <1>0, <1>7, <1>8 DEF CacheTypeOK
<1>11. /\ floor' \in [Tabs -> 0 .. MaxWrites] /\ floor'[t] = written
       /\ \A u \in Tabs \ {t} : floor'[u] = floor[u]
    BY <1>0, <1>2 DEF CacheTypeOK
<1>12. TabIs(t, entry, reqs, NotSaved, written, named[t])
    BY <1>4, <1>5, <1>8, EmptyIs DEF TabIs, Kept
<1>13. CacheTypeOK' /\ written <= written' /\ floor'[t] <= written'
    BY <1>0, <1>2, <1>9, <1>10, <1>11, EmptyIs DEF CacheTypeOK
<1> QED
    BY <1>0, <1>2, <1>9, <1>10, <1>11, <1>12, <1>13, TabStep

\* The api answers with what is current, for a user whom the tab has named.
LEMMA ApiAnswersStep ==
    ASSUME CacheInv, NEW t \in Tabs, NEW l \in Loads, ApiAnswers(t, l)
    PROVE  CacheInv'
<1>0. /\ CacheTypeOK /\ TabIs(t, store[t], request[t], disk, floor[t], named[t])
      /\ floor[t] <= written /\ (cookie # NoUser => cookie \in named[t])
      /\ request[t] \in [Loads -> Request]
    BY TabBefore
<1>1. UNCHANGED <<disk, store, floor, cookie, named, written>>
    BY DEF ApiAnswers, loginVars
<1>2. ASSUME NEW answer \in Request, answer.awaited = request[t][l].awaited,
             answer.pc = "ok" =>
                /\ answer.val \in Values /\ answer.val.by = t
                /\ Kept(t, answer.val, floor[t], named[t]),
             request' = [request EXCEPT ![t][l] = answer]
      PROVE  CacheInv'
    <2>1. /\ request' \in [Tabs -> [Loads -> Request]] /\ request'[t][l] = answer
          /\ \A m \in Loads : m # l => request'[t][m] = request[t][m]
          /\ \A u \in Tabs \ {t} : request'[u] = request[u]
        BY <1>0, <1>2 DEF CacheTypeOK
    <2>2. TabIs(t, store[t], request'[t], disk, floor[t], named[t])
        BY <1>0, <1>2, <2>1 DEF TabIs
    <2>3. CacheTypeOK' /\ written <= written'
        BY <1>0, <1>1, <2>1 DEF CacheTypeOK
    <2> QED
        BY <1>0, <1>1, <2>1, <2>2, <2>3, TabStep
<1>3. CASE /\ cookie # NoUser
           /\ request' = [request EXCEPT ![t][l].pc = "ok",
                               ![t][l].val = [of |-> cookie, at |-> written, by |-> t]]
    <2> DEFINE val == [of |-> cookie, at |-> written, by |-> t]
               answer == [request[t][l] EXCEPT !.pc = "ok", !.val = val]
    <2>1. val \in Values /\ val.by = t /\ val.at = written /\ val.of = cookie
        BY <1>0, <1>3 DEF CacheTypeOK, Values
    <2>2. Kept(t, val, floor[t], named[t])
        BY <1>0, <1>3, <2>1 DEF Kept
    <2>3. request' = [request EXCEPT ![t][l] = [request[t][l] EXCEPT !.pc = "ok", !.val = val]]
        BY <1>0, <1>3 DEF CacheTypeOK
    <2> HIDE DEF val
    <2>4. answer \in Request /\ answer.awaited = request[t][l].awaited /\ answer.val = val
        BY <1>0, <2>1 DEF Request, Answers
    <2>5. request' = [request EXCEPT ![t][l] = answer]
        BY <2>3
    <2> HIDE DEF answer
    <2> QED
        BY <1>2, <2>1, <2>2, <2>4, <2>5
<1>4. ASSUME NEW pc \in {"unauthorized", "failed"}, request' = [request EXCEPT ![t][l].pc = pc]
      PROVE  CacheInv'
    <2> DEFINE answer == [request[t][l] EXCEPT !.pc = pc]
    <2>1. answer \in Request /\ answer.awaited = request[t][l].awaited /\ answer.pc # "ok"
        BY <1>0 DEF Request
    <2>2. request' = [request EXCEPT ![t][l] = answer]
        BY <1>0, <1>4 DEF CacheTypeOK
    <2> HIDE DEF answer
    <2> QED
        BY <1>2, <2>1, <2>2
<1> QED
    BY <1>3, <1>4 DEF ApiAnswers

\* What a request leaves that is over.
LEMMA OverIs ==
    ASSUME CacheInv, NEW t \in Tabs, NEW l \in Loads,
           request' = [request EXCEPT ![t][l] = NoRequest],
           NEW entry \in Entry, entry.load = 0 \/ (entry = store[t] /\ store[t].load # l),
           NEW saved \in Saved,
           Kept(t, entry.val, floor[t], named[t]), Kept(t, saved.val, floor[t], named[t])
    PROVE  /\ request' \in [Tabs -> [Loads -> Request]]
           /\ \A u \in Tabs \ {t} : request'[u] = request[u]
           /\ TabIs(t, entry, request'[t], saved, floor[t], named[t])
<1>0. CacheTypeOK /\ TabIs(t, store[t], request[t], disk, floor[t], named[t])
    BY TabBefore
<1>1. /\ request' \in [Tabs -> [Loads -> Request]] /\ request'[t][l] = NoRequest
      /\ \A m \in Loads : m # l => request'[t][m] = request[t][m]
      /\ \A u \in Tabs \ {t} : request'[u] = request[u]
    BY <1>0, EmptyIs DEF CacheTypeOK
<1>2. TabIs(t, entry, request'[t], saved, floor[t], named[t])
    BY <1>0, <1>1, EmptyIs DEF TabIs
<1> QED
    BY <1>1, <1>2

LEMMA KeepsStep == ASSUME CacheInv, NEW t \in Tabs, NEW l \in Loads, Keeps(t, l) PROVE CacheInv'
<1>0. /\ CacheTypeOK /\ TabIs(t, store[t], request[t], disk, floor[t], named[t])
      /\ floor[t] <= written /\ (cookie # NoUser => cookie \in named[t])
      /\ store[t] \in Entry /\ disk \in Saved
    BY TabBefore DEF CacheTypeOK
<1>1. /\ UNCHANGED <<floor, cookie, named, written>> /\ request[t][l].pc = "ok"
      /\ request' = [request EXCEPT ![t][l] = NoRequest]
    BY DEF Keeps, loginVars
<1>2. CASE Owns(t, l)
    <2> DEFINE val == request[t][l].val
    <2>1. PICK fresh \in BOOLEAN :
             /\ store' = [store EXCEPT ![t] = [val |-> val, fresh |-> fresh, load |-> 0]]
             /\ disk' \in {disk, [val |-> val, fresh |-> fresh]}
        BY <1>2 DEF Keeps
    <2>2. val \in Values /\ val.by = t /\ Kept(t, val, floor[t], named[t])
        BY <1>0, <1>1, <1>2 DEF TabIs, Owns
    <2> DEFINE entry == [val |-> val, fresh |-> fresh, load |-> 0]
               saved == [val |-> val, fresh |-> fresh]
    <2>3. store' = [store EXCEPT ![t] = entry] /\ (disk' = disk \/ disk' = saved)
        BY <2>1
    <2> HIDE DEF val
    <2>4. entry \in Entry /\ entry.load = 0 /\ entry.val = val /\ saved \in Saved /\ saved.val = val
        BY <2>2 DEF Entry, Saved, Answers
    <2> HIDE DEF entry, saved
    <2>5. disk' \in Saved /\ (disk' = disk \/ disk'.val.by = t) /\ Kept(t, disk'.val, floor[t], named[t])
        BY <1>0, <2>2, <2>3, <2>4 DEF TabIs
    <2>6. Kept(t, entry.val, floor[t], named[t])
        BY <2>2, <2>4
    <2>7. /\ request' \in [Tabs -> [Loads -> Request]]
          /\ \A u \in Tabs \ {t} : request'[u] = request[u]
          /\ TabIs(t, entry, request'[t], disk', floor[t], named[t])
        BY <1>1, <2>4, <2>5, <2>6, OverIs
    <2>8. /\ store' \in [Tabs -> Entry] /\ store'[t] = entry
          /\ \A u \in Tabs \ {t} : store'[u] = store[u]
        BY <1>0, <2>3, <2>4 DEF CacheTypeOK
    <2>9. CacheTypeOK' /\ written <= written'
        BY <1>0, <1>1, <2>5, <2>7, <2>8 DEF CacheTypeOK
    <2> QED
        BY <1>0, <1>1, <2>5, <2>7, <2>8, <2>9, TabStep
<1>3. CASE ~Owns(t, l)
    <2>1. UNCHANGED <<store, disk>> /\ store[t].load # l
        BY <1>3 DEF Keeps, Owns
    <2>a. Kept(t, store[t].val, floor[t], named[t]) /\ Kept(t, disk.val, floor[t], named[t])
        BY <1>0 DEF TabIs
    <2>2. /\ request' \in [Tabs -> [Loads -> Request]]
          /\ \A u \in Tabs \ {t} : request'[u] = request[u]
          /\ TabIs(t, store[t], request'[t], disk, floor[t], named[t])
        BY <1>0, <1>1, <2>1, <2>a, OverIs
    <2>3. CacheTypeOK' /\ written <= written'
        BY <1>0, <1>1, <2>1, <2>2 DEF CacheTypeOK
    <2> QED
        BY <1>0, <1>1, <2>1, <2>2, <2>3, TabStep
<1> QED
    BY <1>2, <1>3

LEMMA FailsStep == ASSUME CacheInv, NEW t \in Tabs, NEW l \in Loads, Fails(t, l) PROVE CacheInv'
<1>0. /\ CacheTypeOK /\ TabIs(t, store[t], request[t], disk, floor[t], named[t])
      /\ floor[t] <= written /\ (cookie # NoUser => cookie \in named[t])
      /\ store[t] \in Entry /\ disk \in Saved
    BY TabBefore DEF CacheTypeOK
<1>1. /\ UNCHANGED <<disk, floor, cookie, named, written>>
      /\ store' = IF store[t].load = l THEN [store EXCEPT ![t].load = 0] ELSE store
      /\ request' = [request EXCEPT ![t][l] = NoRequest]
    BY DEF Fails
<1> DEFINE entry == IF store[t].load = l THEN [store[t] EXCEPT !.load = 0] ELSE store[t]
<1>2. /\ entry \in Entry /\ entry.val = store[t].val
      /\ entry.load = 0 \/ (entry = store[t] /\ store[t].load # l)
    BY <1>0 DEF Entry
<1>3. store' = [store EXCEPT ![t] = entry]
    BY <1>0, <1>1 DEF CacheTypeOK
<1> HIDE DEF entry
<1>4. Kept(t, entry.val, floor[t], named[t]) /\ Kept(t, disk.val, floor[t], named[t])
    BY <1>0, <1>2 DEF TabIs
<1>5. /\ request' \in [Tabs -> [Loads -> Request]]
      /\ \A u \in Tabs \ {t} : request'[u] = request[u]
      /\ TabIs(t, entry, request'[t], disk, floor[t], named[t])
    BY <1>0, <1>1, <1>2, <1>4, OverIs
<1>6. /\ store' \in [Tabs -> Entry] /\ store'[t] = entry
      /\ \A u \in Tabs \ {t} : store'[u] = store[u]
    BY <1>0, <1>2, <1>3 DEF CacheTypeOK
<1>7. CacheTypeOK' /\ written <= written'
    BY <1>0, <1>1, <1>5, <1>6 DEF CacheTypeOK
<1> QED
    BY <1>0, <1>1, <1>5, <1>6, <1>7, TabStep

LEMMA ExpiresStep == ASSUME CacheInv, NEW t \in Tabs, Expires(t) PROVE CacheInv'
<1>0. /\ CacheTypeOK /\ TabIs(t, store[t], request[t], disk, floor[t], named[t])
      /\ floor[t] <= written /\ (cookie # NoUser => cookie \in named[t])
      /\ store[t] \in Entry /\ disk \in Saved
    BY TabBefore DEF CacheTypeOK
<1>1. UNCHANGED <<request, floor, cookie, named, written>>
    BY DEF Expires, loginVars
<1>2. CASE store' = [store EXCEPT ![t].fresh = FALSE] /\ UNCHANGED disk
    <2> DEFINE entry == [store[t] EXCEPT !.fresh = FALSE]
    <2>1. entry \in Entry /\ entry.val = store[t].val /\ entry.load = store[t].load
        BY <1>0 DEF Entry
    <2>2. store' = [store EXCEPT ![t] = entry]
        BY <1>0, <1>2 DEF CacheTypeOK
    <2> HIDE DEF entry
    <2>3. /\ store' \in [Tabs -> Entry] /\ store'[t] = entry
          /\ \A u \in Tabs \ {t} : store'[u] = store[u]
        BY <1>0, <2>1, <2>2 DEF CacheTypeOK
    <2>4. TabIs(t, entry, request[t], disk, floor[t], named[t])
        BY <1>0, <2>1 DEF TabIs
    <2>5. CacheTypeOK' /\ written <= written'
        BY <1>0, <1>1, <1>2, <2>3 DEF CacheTypeOK
    <2> QED
        BY <1>0, <1>1, <1>2, <2>3, <2>4, <2>5, TabStep
<1>3. CASE disk' = [disk EXCEPT !.fresh = FALSE] /\ UNCHANGED store
    <2>1. disk' \in Saved /\ disk'.val = disk.val
        BY <1>0, <1>3 DEF Saved
    <2>2. CacheTypeOK'
        BY <1>0, <1>1, <1>3, <2>1 DEF CacheTypeOK
    <2>3. ASSUME NEW u \in Tabs
          PROVE  /\ TabIs(u, store'[u], request'[u], disk', floor'[u], named'[u])
                 /\ floor'[u] <= written' /\ (cookie' # NoUser => cookie' \in named'[u])
        <3>1. /\ TabIs(u, store[u], request[u], disk, floor[u], named[u])
              /\ floor[u] <= written /\ (cookie # NoUser => cookie \in named[u])
            BY TabBefore
        <3>2. TabIs(u, store[u], request[u], disk', floor[u], named[u])
            BY <2>1, <3>1 DEF TabIs
        <3> QED
            BY <1>1, <1>3, <3>1, <3>2
    <2> QED
        BY <2>2, <2>3 DEF CacheInv
<1> QED
    BY <1>2, <1>3 DEF Expires

LEMMA EditAnsweredStep == ASSUME CacheInv, NEW t \in Tabs, EditAnswered(t) PROVE CacheInv'
<1>0. /\ CacheTypeOK /\ (cookie # NoUser => cookie \in named[t]) /\ named[t] \in SUBSET Users
    BY TabBefore
<1>1. UNCHANGED <<written, cookie, named>>
    BY DEF EditAnswered, loginVars
<1>2. written \in Int /\ MaxWrites \in Int
    BY <1>0, ClientAssumption DEF CacheTypeOK
<1>3. CASE Drops(t)
    <2>1. /\ store' \in [Tabs -> Entry] /\ request' \in [Tabs -> [Loads -> Request]]
          /\ disk' = NotSaved /\ disk' \in Saved /\ floor' \in [Tabs -> 0 .. MaxWrites]
          /\ \A u \in Tabs \ {t} : /\ store'[u] = store[u] /\ request'[u] = request[u]
                                   /\ floor'[u] = floor[u]
          /\ floor'[t] = written
          /\ TabIs(t, store'[t], request'[t], disk', floor'[t], named[t])
        BY <1>0, <1>1, <1>3, DroppedIs
    <2>2. CacheTypeOK' /\ written <= written' /\ floor'[t] <= written'
        BY <1>0, <1>1, <1>2, <2>1 DEF CacheTypeOK
    <2> QED
        BY <1>0, <1>1, <2>1, <2>2, TabStep
<1>4. CASE UNCHANGED cacheVars
    BY <1>0, <1>1, <1>2, <1>4, OtherStep DEF CacheTypeOK
<1> QED
    BY <1>3, <1>4 DEF EditAnswered

LEMMA LogInStep == ASSUME CacheInv, NEW t \in Tabs, NEW user \in Users, LogIn(t, user) PROVE CacheInv'
<1>0. CacheTypeOK
    BY DEF CacheInv
<1>1. /\ UNCHANGED <<disk, store, request, floor, written>> /\ cookie' = user
      /\ named' = [tab \in Tabs |-> named[tab] \cup {user}]
    BY DEF LogIn, cacheVars
<1>2. CacheTypeOK'
    BY <1>0, <1>1 DEF CacheTypeOK
<1>3. ASSUME NEW u \in Tabs
      PROVE  /\ TabIs(u, store'[u], request'[u], disk', floor'[u], named'[u])
             /\ floor'[u] <= written' /\ (cookie' # NoUser => cookie' \in named'[u])
    <2>1. /\ TabIs(u, store[u], request[u], disk, floor[u], named[u]) /\ floor[u] <= written
        BY TabBefore
    <2>2. named'[u] = named[u] \cup {user}
        BY <1>1
    <2>3. \A v : Kept(u, v, floor[u], named[u]) => Kept(u, v, floor[u], named[u] \cup {user})
        BY DEF Kept
    <2>4. TabIs(u, store[u], request[u], disk, floor[u], named[u] \cup {user})
        BY <2>1, <2>3 DEF TabIs
    <2> QED
        BY <1>1, <2>1, <2>2, <2>4
<1> QED
    BY <1>2, <1>3 DEF CacheInv

\* Memory and requests are lost, what localStorage has is not.
LEMMA StartsStep == ASSUME CacheInv, NEW t \in Tabs, Starts(t) PROVE CacheInv'
<1>0. /\ CacheTypeOK /\ TabIs(t, store[t], request[t], disk, floor[t], named[t])
      /\ floor[t] <= written /\ (cookie # NoUser => cookie \in named[t])
    BY TabBefore
<1>1. /\ store' = [store EXCEPT ![t] = NoEntry]
      /\ request' = [request EXCEPT ![t] = [l \in Loads |-> NoRequest]]
      /\ UNCHANGED <<disk, floor, cookie, named, written>>
    BY DEF Starts
<1>2. /\ store' \in [Tabs -> Entry] /\ store'[t] = NoEntry
      /\ \A u \in Tabs \ {t} : store'[u] = store[u]
    BY <1>0, <1>1, EmptyIs DEF CacheTypeOK
<1>3. /\ request' \in [Tabs -> [Loads -> Request]] /\ request'[t] = [l \in Loads |-> NoRequest]
      /\ \A u \in Tabs \ {t} : request'[u] = request[u]
    BY <1>0, <1>1, EmptyIs DEF CacheTypeOK
<1>4. Kept(t, disk.val, floor[t], named[t]) /\ disk \in Saved
    BY <1>0 DEF TabIs
<1>5. \A l \in Loads : ~request'[t][l].awaited
    BY <1>3, EmptyIs
<1>6. TabIs(t, NoEntry, request'[t], disk, floor[t], named[t])
    BY <1>4, <1>5, EmptyIs DEF TabIs, Kept
<1>7. CacheTypeOK' /\ written <= written'
    BY <1>0, <1>1, <1>2, <1>3 DEF CacheTypeOK
<1> QED
    BY <1>0, <1>1, <1>2, <1>3, <1>6, <1>7, TabStep

-----------------------------------------------------------------------------
(* What was forgotten does not return.                                       *)

LEMMA CacheStarts == ClientInit => CacheInv
<1> SUFFICES ASSUME ClientInit PROVE CacheInv
    OBVIOUS
<1>1. /\ cookie \in Users \cup {NoUser} /\ written = 0 /\ disk = NotSaved
      /\ store = [t \in Tabs |-> NoEntry]
      /\ request = [t \in Tabs |-> [l \in Loads |-> NoRequest]]
      /\ floor = [t \in Tabs |-> 0]
      /\ named = [t \in Tabs |-> {cookie} \ {NoUser}]
    BY DEF ClientInit
<1>2. CacheTypeOK
    <2>1. 0 \in 0 .. MaxWrites
        BY ClientAssumption
    <2>2. store \in [Tabs -> Entry] /\ request \in [Tabs -> [Loads -> Request]] /\ disk \in Saved
        BY <1>1, EmptyIs
    <2> QED
        BY <1>1, <2>1, <2>2 DEF CacheTypeOK
<1>3. ASSUME NEW t \in Tabs
      PROVE  /\ TabIs(t, store[t], request[t], disk, floor[t], named[t])
             /\ floor[t] <= written /\ (cookie # NoUser => cookie \in named[t])
    <2>1. /\ store[t] = NoEntry /\ floor[t] = 0 /\ named[t] = {cookie} \ {NoUser}
          /\ \A l \in Loads : request[t][l] = NoRequest
        BY <1>1
    <2>2. TabIs(t, NoEntry, request[t], NotSaved, floor[t], named[t])
        BY <2>1, EmptyIs DEF TabIs, Kept
    <2> QED
        BY <1>1, <2>1, <2>2
<1> QED
    BY <1>2, <1>3 DEF CacheInv

LEMMA CacheStep == CacheInv /\ [ClientNext]_tabVars => CacheInv'
<1> SUFFICES ASSUME CacheInv, [ClientNext]_tabVars PROVE CacheInv'
    OBVIOUS
<1>0. written \in 0 .. MaxWrites /\ written <= written
    BY DEF CacheInv, CacheTypeOK
<1>1. ASSUME NEW t \in Tabs, EditSent(t) PROVE CacheInv'
    <2>1. /\ UNCHANGED <<cacheVars, named>> /\ cookie' = cookie
          /\ written < MaxWrites /\ written' = written + 1
        BY <1>1 DEF EditSent, loginVars
    <2>2. written' \in 0 .. MaxWrites /\ written <= written'
        BY <1>0, <2>1, ClientAssumption
    <2> QED
        BY <2>1, <2>2, OtherStep
<1>2. ASSUME NEW t \in Tabs, EditAnswered(t) PROVE CacheInv'
    BY <1>2, EditAnsweredStep
<1>3. ASSUME NEW t \in Tabs, Refresh(t) PROVE CacheInv'
    BY <1>3, RefreshStep
<1>4. ASSUME NEW t \in Tabs, Expires(t) PROVE CacheInv'
    BY <1>4, ExpiresStep
<1>5. ASSUME NEW t \in Tabs, NEW onRevalidate \in BOOLEAN, Get(t, onRevalidate) PROVE CacheInv'
    BY <1>5, GetStep
<1>6. ASSUME NEW t \in Tabs, NEW l \in Loads, ApiAnswers(t, l) PROVE CacheInv'
    BY <1>6, ApiAnswersStep
<1>7. ASSUME NEW t \in Tabs, NEW l \in Loads, Keeps(t, l) PROVE CacheInv'
    BY <1>7, KeepsStep
<1>8. ASSUME NEW t \in Tabs, NEW l \in Loads, Fails(t, l) PROVE CacheInv'
    BY <1>8, FailsStep
<1>9. ASSUME NEW t \in Tabs, NEW user \in Users, LogIn(t, user) PROVE CacheInv'
    BY <1>9, LogInStep
<1>10. ASSUME NEW t \in Tabs, Recheck(t) \/ Confirm(t) \/ SignOut(t) PROVE CacheInv'
    <2>1. UNCHANGED <<cacheVars, named>> /\ (cookie' = cookie \/ cookie' = NoUser) /\ written' = written
        BY <1>10 DEF Recheck, Confirm, SignOut
    <2> QED
        BY <1>0, <2>1, OtherStep
<1>11. ASSUME NEW t \in Tabs, Confirmed(t) PROVE CacheInv'
    BY <1>11, ForgetsStep DEF Confirmed
<1>12. ASSUME NEW t \in Tabs, SignedOutAnswer(t) PROVE CacheInv'
    <2>1. UNCHANGED <<cookie, written>> /\ (Forgets(t) \/ UNCHANGED <<cacheVars, named>>)
        BY <1>12 DEF SignedOutAnswer
    <2> QED
        BY <1>0, <2>1, ForgetsStep, OtherStep
<1>13. ASSUME NEW t \in Tabs, Starts(t) PROVE CacheInv'
    BY <1>13, StartsStep
<1>14. ASSUME NEW t \in Tabs, NEW user \in me[t], Reloaded(t, user) PROVE CacheInv'
    <2>1. UNCHANGED <<cookie, written>> /\ (Forgets(t) \/ UNCHANGED <<cacheVars, named>>)
        BY <1>14 DEF Reloaded, Shows
    <2> QED
        BY <1>0, <2>1, ForgetsStep, OtherStep
<1>15. CASE SessionEnds
    <2>1. UNCHANGED <<cacheVars, named>> /\ cookie' = NoUser /\ written' = written
        BY <1>15 DEF SessionEnds
    <2> QED
        BY <1>0, <2>1, OtherStep
<1>16. CASE UNCHANGED tabVars
    <2>1. UNCHANGED <<cacheVars, named>> /\ cookie' = cookie /\ written' = written
        BY <1>16 DEF tabVars, loginVars
    <2> QED
        BY <1>0, <2>1, OtherStep
<1> QED
    BY <1>1, <1>2, <1>3, <1>4, <1>5, <1>6, <1>7, <1>8, <1>9, <1>10, <1>11, <1>12, <1>13,
       <1>14, <1>15, <1>16 DEF ClientNext

\* The inductive invariant of the caches holds: only a request that is awaited may still
\* answer into an entry, and what it answers is not from before the last drop.
THEOREM CacheInvHolds == ClientSpec => []CacheInv
BY CacheStarts, CacheStep, PTL DEF ClientSpec

\* What the caches keep has its type.
THEOREM CacheTypeCorrect == ClientSpec => []CacheTypeOK
<1>1. CacheInv => CacheTypeOK
    BY DEF CacheInv
<1> QED
    BY <1>1, CacheInvHolds, PTL

\* What a tab dropped, by an invalidation or because its session ended, does not come back
\* by its own hand: for any number of tabs, users and requests under way, in whatever order
\* their answers and those of /me arrive, and across reloads of the page.
THEOREM ForgottenStaysSo == ClientSpec => []NothingForgottenReturns
<1>1. CacheInv => NothingForgottenReturns
    <2> SUFFICES ASSUME CacheInv, NEW t \in Tabs
                 PROVE  /\ \A v \in OwnVals(t) : v.at >= floor[t] /\ v.of \in named[t]
                        /\ \A l \in Loads : request[t][l].awaited /\ request[t][l].pc = "ok"
                              => request[t][l].val.at >= floor[t]
        BY DEF NothingForgottenReturns, DroppedStaysDropped, SignedOutIsForgotten
    <2>1. TabIs(t, store[t], request[t], disk, floor[t], named[t])
        BY TabBefore
    <2>2. \A v \in OwnVals(t) : v.at >= floor[t] /\ v.of \in named[t]
        BY <2>1 DEF OwnVals, TabIs, Kept
    <2>3. ASSUME NEW l \in Loads, request[t][l].awaited, request[t][l].pc = "ok"
          PROVE  request[t][l].val.at >= floor[t]
        BY <2>1, <2>3, EmptyIs DEF TabIs, Kept
    <2> QED
        BY <2>2, <2>3
<1> QED
    BY <1>1, CacheInvHolds, PTL

-----------------------------------------------------------------------------
(* The preview of an archive: how many entries come before a place.          *)

AnswerRec == [ver : Versions, at : Nat \X Nat, entries : Seq(Members),
              hasMore : BOOLEAN, truncated : BOOLEAN]

LEMMA ArchiveIs ==
    /\ Versions \subseteq Nat \ {0} /\ 1 \in Versions
    /\ \A v \in Versions : Archive[v] \in Seq(Members) /\ Len(Archive[v]) \in Nat
<1>1. Archive \in Seq(Seq(Members)) /\ Archive # <<>>
    BY ArchiveAssumption
<1>2. DOMAIN Archive = 1..Len(Archive) /\ Len(Archive) \in Nat /\ Len(Archive) # 0
    BY <1>1, EmptySeq, LenProperties
<1>3. \A v \in DOMAIN Archive : Archive[v] \in Seq(Members)
    BY <1>1, <1>2, ElementOfSeq
<1>4. \A v \in DOMAIN Archive : Len(Archive[v]) \in Nat
    BY <1>3, LenProperties
<1> QED
    BY <1>2, <1>3, <1>4 DEF Versions

LEMMA RankIs ==
    ASSUME NEW v \in Versions, NEW p \in Nat
    PROVE  /\ IsFiniteSet({q \in 1..p : Archive[v][q] \notin Hidden})
           /\ Rank(v, p) \in Nat
<1>1. IsFiniteSet(1..p)
    BY FS_Interval
<1>2. {q \in 1..p : Archive[v][q] \notin Hidden} \in SUBSET (1..p)
    OBVIOUS
<1>3. IsFiniteSet({q \in 1..p : Archive[v][q] \notin Hidden})
    BY <1>1, <1>2, FS_Subset, Zenon
<1> QED
    BY <1>3, FS_CardinalityType DEF Rank

LEMMA RankBegins == ASSUME NEW v \in Versions PROVE Rank(v, 0) = 0
<1>1. {q \in 1..0 : Archive[v][q] \notin Hidden} = {}
    OBVIOUS
<1> QED
    BY <1>1, FS_EmptySet DEF Rank

LEMMA RankStep ==
    ASSUME NEW v \in Versions, NEW p \in Nat
    PROVE  Rank(v, p + 1) = IF Archive[v][p + 1] \in Hidden THEN Rank(v, p) ELSE Rank(v, p) + 1
<1> DEFINE S == {q \in 1..p : Archive[v][q] \notin Hidden}
           T == {q \in 1..(p + 1) : Archive[v][q] \notin Hidden}
<1>1. IsFiniteSet(S)
    BY RankIs
<1>2. Rank(v, p) = Cardinality(S) /\ Rank(v, p + 1) = Cardinality(T)
    BY DEF Rank
<1>3. CASE Archive[v][p + 1] \in Hidden
    <2>1. T = S
        BY <1>3
    <2> QED
        BY <1>2, <1>3, <2>1
<1>4. CASE Archive[v][p + 1] \notin Hidden
    <2>1. T = S \cup {p + 1} /\ p + 1 \notin S
        BY <1>4
    <2> HIDE DEF S, T
    <2>2. Cardinality(T) = Cardinality(S) + 1
        BY <1>1, <2>1, FS_AddElement
    <2> QED
        BY <1>2, <1>4, <2>2
<1> QED
    BY <1>3, <1>4

LEMMA RankGrows ==
    ASSUME NEW v \in Versions, NEW p \in Nat, NEW q \in Nat, p <= q
    PROVE  Rank(v, p) <= Rank(v, q)
<1> DEFINE S == {n \in 1..p : Archive[v][n] \notin Hidden}
           T == {n \in 1..q : Archive[v][n] \notin Hidden}
<1>1. S \in SUBSET T
    OBVIOUS
<1>2. IsFiniteSet(T)
    BY RankIs
<1>3. Cardinality(S) <= Cardinality(T)
    <2> HIDE DEF S, T
    <2> QED
        BY <1>1, <1>2, FS_Subset
<1> QED
    BY <1>3 DEF Rank

\* An entry that counts, after a place, has a greater rank than the place.
LEMMA RankAfter ==
    ASSUME NEW v \in Versions, NEW p \in Nat, NEW q \in Nat, p < q, Archive[v][q] \notin Hidden
    PROVE  Rank(v, p) < Rank(v, q)
<1>1. q - 1 \in Nat /\ p <= q - 1 /\ (q - 1) + 1 = q
    OBVIOUS
<1>2. Rank(v, q) = Rank(v, q - 1) + 1
    BY <1>1, RankStep
<1>3. Rank(v, p) <= Rank(v, q - 1)
    BY <1>1, RankGrows
<1>4. Rank(v, p) \in Nat /\ Rank(v, q - 1) \in Nat
    BY <1>1, RankIs
<1> QED
    BY <1>2, <1>3, <1>4

-----------------------------------------------------------------------------
(* The preview of an archive: the invariant.                                 *)

FetchRec == [pc : {"over", "asked", "listing", "waiting", "done", "failed"}, at : Nat \X Nat,
             ver : {0} \cup Versions, read : Nat, skipped : Nat,
             out : Seq(Members), emitted : Seq(Members), source : {"none", "open", "closed"},
             left : BOOLEAN, answer : AnswerRec \cup {NoData}]

\* What a request has read: so many entries that count, of which it skipped those before
\* its page and has those of it.
ReadWell(r) ==
    LET a == Archive[r.ver] IN
    /\ r.ver \in Versions
    /\ r.read <= Len(a) /\ r.skipped <= r.at[1] /\ Len(r.out) <= r.at[2]
    /\ r.skipped < r.at[1] => r.out = <<>>
    /\ Rank(r.ver, r.read) = r.skipped + Len(r.out)
    /\ \A p \in 1..r.read : a[p] \notin Hidden /\ r.at[1] < Rank(r.ver, p)
                               => r.out[Rank(r.ver, p) - r.at[1]] = a[p]

FetchWell(r) ==
    /\ r \in FetchRec
    /\ r.pc # "over" => r.at \in Places
    /\ r.source = "open" => compressed /\ r.pc = "listing" /\ ~r.left
    /\ IF r.pc = "done" THEN r.answer \in AnswerRec /\ r.answer.at = r.at /\ IsSlice(r.answer)
                        ELSE r.answer = NoData
    /\ r.pc = "asked" => r.read = 0 /\ r.skipped = 0 /\ r.out = <<>>
    /\ r.pc = "listing" => ReadWell(r)

\* A request whose promise settles.
Awaited(r) == r.pc # "over" /\ (r.left => r.pc = "failed")

ListingRec == [shown : BOOLEAN, offset : Nat, size : Nat, data : AnswerRec \cup {NoData},
               by : {"effect", "refresh"}, loading : BOOLEAN, error : BOOLEAN]

ListingWell(l) ==
    /\ l \in ListingRec
    /\ <<l.offset, l.size>> \in Places
    /\ l.data # NoData => IsSlice(l.data) /\ (l.by = "effect" => l.data.at = <<l.offset, l.size>>)

KeptWell(place, entry) ==
    /\ entry.answer # NoData => entry.answer.at = place /\ IsSlice(entry.answer)
    /\ entry.load # NoOne => Awaited(fetched[entry.load]) /\ fetched[entry.load].at = place

WaitsWell(w) ==
    /\ Awaited(fetched[w.fetch])
    /\ w.by = "effect" => fetched[w.fetch].at = <<listing.offset, listing.size>>

PreviewInv ==
    /\ version \in Versions /\ compressed \in BOOLEAN
    /\ fetched \in [Fetches -> FetchRec]
    /\ \A f \in Fetches : FetchWell(fetched[f])
    /\ kept \in [Places -> [answer : AnswerRec \cup {NoData}, load : Fetches \cup {NoOne}]]
    /\ \A place \in Places : KeptWell(place, kept[place])
    /\ ListingWell(listing)
    /\ awaiting \subseteq [fetch : Fetches, by : {"effect", "refresh"}]
    /\ \A w \in awaiting : WaitsWell(w)
    /\ listing.loading => awaiting # {}

-----------------------------------------------------------------------------
(* The preview of an archive: what a request reads.                          *)

\* What a request has read so far is the part its page names.
LEMMA ReadIsSlice ==
    ASSUME NEW r \in FetchRec, ReadWell(r), NEW hasMore \in BOOLEAN, NEW truncated \in BOOLEAN,
           ~truncated => Rank(r.ver, Len(Archive[r.ver])) <= r.at[1] + Len(r.out) \/ Len(r.out) = r.at[2],
           hasMore <=> ~truncated /\ Rank(r.ver, Len(Archive[r.ver])) > r.at[1] + r.at[2]
    PROVE  LET d == [ver |-> r.ver, at |-> r.at, entries |-> r.out,
                     hasMore |-> hasMore, truncated |-> truncated] IN
           d \in AnswerRec /\ IsSlice(d)
<1> DEFINE d == [ver |-> r.ver, at |-> r.at, entries |-> r.out, hasMore |-> hasMore, truncated |-> truncated]
           a == Archive[r.ver]
<1>1. /\ r.ver \in Versions /\ r.at \in Nat \X Nat /\ r.at[1] \in Nat /\ r.at[2] \in Nat
      /\ r.read \in Nat /\ r.skipped \in Nat /\ r.out \in Seq(Members)
    BY DEF FetchRec, ReadWell
<1>2. a \in Seq(Members) /\ Len(a) \in Nat /\ Len(r.out) \in Nat /\ DOMAIN a = 1..Len(a)
    BY <1>1, ArchiveIs, LenProperties
<1>3. d \in AnswerRec
    BY <1>1 DEF AnswerRec
<1>4. Rank(r.ver, r.read) <= Rank(r.ver, Len(a)) /\ Rank(r.ver, r.read) \in Nat /\ Rank(r.ver, Len(a)) \in Nat
    BY <1>1, <1>2, RankGrows, RankIs DEF ReadWell
<1>5. r.out # <<>> => r.skipped = r.at[1]
    BY <1>1 DEF ReadWell
<1>6. r.out # <<>> => r.at[1] + Len(r.out) <= Rank(r.ver, Len(a))
    BY <1>1, <1>2, <1>4, <1>5 DEF ReadWell
<1>7. ASSUME NEW p \in DOMAIN a, a[p] \notin Hidden, Rank(r.ver, p) \in (r.at[1] + 1)..(r.at[1] + Len(r.out))
      PROVE  r.out[Rank(r.ver, p) - r.at[1]] = a[p]
    <2>1. p \in Nat /\ Rank(r.ver, p) \in Nat
        <3>1. p \in Nat
            BY <1>2
        <3> QED
            BY <1>1, <3>1, RankIs
    <2>2. Rank(r.ver, p) <= Rank(r.ver, r.read)
        <3>1. Len(r.out) # 0
            BY <1>1, <1>2, <1>7, <2>1
        <3>2. r.out # <<>>
            BY <3>1
        <3> QED
            BY <1>1, <1>2, <1>5, <1>7, <2>1, <3>2 DEF ReadWell
    <2>3. ~(r.read < p)
        BY <1>1, <1>4, <1>7, <2>1, <2>2, RankAfter
    <2>4. p \in 1..r.read /\ r.at[1] < Rank(r.ver, p)
        BY <1>1, <1>2, <1>7, <2>1, <2>3
    <2> QED
        BY <1>7, <2>4 DEF ReadWell
<1>8. Len(r.out) <= r.at[2]
    BY DEF ReadWell
<1>9. IsSlice(d)
    BY <1>6, <1>7, <1>8 DEF IsSlice
<1> QED
    BY <1>3, <1>9

LEMMA NextIs ==
    ASSUME NEW r \in FetchRec, ReadWell(r), r.read < Len(Archive[r.ver])
    PROVE  /\ r.ver \in Versions /\ r.read + 1 \in 1..Len(Archive[r.ver])
           /\ Archive[r.ver][r.read + 1] \in Members
           /\ Rank(r.ver, r.read + 1) = IF Archive[r.ver][r.read + 1] \in Hidden
                                        THEN Rank(r.ver, r.read) ELSE Rank(r.ver, r.read) + 1
<1>1. r.ver \in Versions /\ r.read \in Nat
    BY DEF FetchRec, ReadWell
<1>2. Archive[r.ver] \in Seq(Members) /\ Len(Archive[r.ver]) \in Nat
    BY <1>1, ArchiveIs
<1>3. r.read + 1 \in 1..Len(Archive[r.ver])
    BY <1>1, <1>2
<1>4. Archive[r.ver][r.read + 1] \in Members
    BY <1>2, <1>3, ElementOfSeq
<1> QED
    BY <1>1, <1>3, <1>4, RankStep

\* A hidden entry, and one before the page.
LEMMA PassesEntry ==
    ASSUME NEW r \in FetchRec, ReadWell(r), r.read < Len(Archive[r.ver]),
           NEW s \in FetchRec, s.read = r.read + 1, s.out = r.out, s.ver = r.ver, s.at = r.at,
           \/ Archive[r.ver][r.read + 1] \in Hidden /\ s.skipped = r.skipped
           \/ Archive[r.ver][r.read + 1] \notin Hidden /\ r.skipped < r.at[1] /\ s.skipped = r.skipped + 1
    PROVE  ReadWell(s)
<1>1. /\ r.read \in Nat /\ s.skipped \in Nat /\ r.skipped \in Nat /\ r.out \in Seq(Members) /\ r.at[1] \in Nat /\ r.at[2] \in Nat
    BY DEF FetchRec
<1>2. r.out = <<>> => Len(r.out) = 0
    OBVIOUS
<1>3. Rank(r.ver, r.read) \in Nat /\ Len(r.out) \in Nat
    BY <1>1, RankIs, LenProperties DEF ReadWell
<1>4. Rank(r.ver, r.read + 1) = s.skipped + Len(r.out)
    <2>1. Rank(r.ver, r.read) = r.skipped + Len(r.out)
        BY DEF ReadWell
    <2>2. Rank(r.ver, r.read + 1) = IF Archive[r.ver][r.read + 1] \in Hidden
                                    THEN Rank(r.ver, r.read) ELSE Rank(r.ver, r.read) + 1
        BY NextIs
    <2>3. CASE Archive[r.ver][r.read + 1] \in Hidden /\ s.skipped = r.skipped
        BY <2>1, <2>2, <2>3
    <2>4. CASE Archive[r.ver][r.read + 1] \notin Hidden /\ s.skipped = r.skipped + 1
        BY <1>1, <1>3, <2>1, <2>2, <2>4
    <2> QED
        BY <2>3, <2>4
<1>5. r.skipped < r.at[1] => r.out = <<>> /\ Rank(r.ver, r.read) = r.skipped
    BY <1>1, <1>2 DEF ReadWell
<1>6. Archive[r.ver][r.read + 1] \notin Hidden => ~(r.at[1] < Rank(r.ver, r.read + 1))
    BY <1>1, <1>2, <1>4, <1>5
<1>7. ASSUME NEW p \in 1..s.read, Archive[s.ver][p] \notin Hidden, s.at[1] < Rank(s.ver, p)
      PROVE  s.out[Rank(s.ver, p) - s.at[1]] = Archive[s.ver][p]
    <2>1. p \in 1..r.read
        BY <1>1, <1>6, <1>7
    <2> QED
        BY <1>1, <1>7, <2>1 DEF ReadWell
<1>8. s.ver \in Versions /\ s.read <= Len(Archive[s.ver]) /\ s.skipped <= s.at[1] /\ Len(s.out) <= s.at[2]
    BY <1>1, NextIs DEF ReadWell
<1>9. s.skipped < s.at[1] => s.out = <<>>
    BY <1>1, <1>5 DEF ReadWell
<1> QED
    BY <1>1, <1>4, <1>7, <1>8, <1>9 DEF ReadWell

\* An entry of the page.
LEMMA TakesEntry ==
    ASSUME NEW r \in FetchRec, ReadWell(r), r.read < Len(Archive[r.ver]),
           Archive[r.ver][r.read + 1] \notin Hidden, r.skipped = r.at[1], Len(r.out) < r.at[2],
           NEW s \in FetchRec, s.read = r.read + 1, s.out = Append(r.out, Archive[r.ver][r.read + 1]),
           s.ver = r.ver, s.at = r.at, s.skipped = r.skipped
    PROVE  ReadWell(s)
<1> DEFINE e == Archive[r.ver][r.read + 1]
<1>1. /\ r.read \in Nat /\ r.skipped \in Nat /\ r.out \in Seq(Members) /\ r.at[1] \in Nat /\ r.at[2] \in Nat
    BY DEF FetchRec
<1>2. Rank(r.ver, r.read) \in Nat /\ Len(r.out) \in Nat /\ e \in Members
    BY <1>1, RankIs, LenProperties, NextIs DEF ReadWell
<1>3. Len(s.out) = Len(r.out) + 1 /\ s.out[Len(r.out) + 1] = e /\ \A i \in 1..Len(r.out) : s.out[i] = r.out[i]
    <2>1. r.out \in Seq(Members) /\ e \in Members /\ s.out = Append(r.out, e)
        BY <1>1, <1>2
    <2> HIDE DEF e
    <2>2. Len(s.out) = Len(r.out) + 1
        BY <2>1, SMTT(30)
    <2>3. s.out[Len(r.out) + 1] = e
        BY <2>1, SMTT(30)
    <2>4. ASSUME NEW i \in 1..Len(r.out) PROVE s.out[i] = r.out[i]
        BY <2>1, SMTT(30)
    <2> QED
        BY <2>2, <2>3, <2>4
<1>4. Rank(r.ver, r.read + 1) = Rank(r.ver, r.read) + 1 /\ Rank(r.ver, r.read) = r.at[1] + Len(r.out)
    BY NextIs DEF ReadWell
<1>5. ASSUME NEW p \in 1..s.read, Archive[s.ver][p] \notin Hidden, s.at[1] < Rank(s.ver, p)
      PROVE  s.out[Rank(s.ver, p) - s.at[1]] = Archive[s.ver][p]
    <2>1. CASE p = r.read + 1
        <3>1. Rank(s.ver, p) = r.at[1] + Len(r.out) + 1
            BY <1>1, <1>2, <1>4, <2>1
        <3>2. Rank(s.ver, p) - s.at[1] = Len(r.out) + 1
            BY <1>1, <1>2, <3>1
        <3> QED
            BY <1>3, <2>1, <3>2
    <2>2. CASE p # r.read + 1
        <3>1. p \in 1..r.read /\ p \in Nat /\ p <= r.read
            BY <1>1, <2>2
        <3>2. r.out[Rank(r.ver, p) - r.at[1]] = Archive[r.ver][p]
            BY <1>5, <3>1 DEF ReadWell
        <3>3. Rank(r.ver, p) \in Nat /\ Rank(r.ver, p) <= Rank(r.ver, r.read)
            BY <1>1, <3>1, RankIs, RankGrows DEF ReadWell
        <3>4. Rank(r.ver, p) - r.at[1] \in 1..Len(r.out)
            BY <1>1, <1>2, <1>4, <1>5, <3>3
        <3> QED
            BY <1>3, <3>2, <3>4
    <2> QED
        BY <2>1, <2>2
<1>6. s.ver \in Versions /\ s.read <= Len(Archive[s.ver])
    BY <1>1, NextIs DEF ReadWell
<1>7. Rank(s.ver, s.read) = s.skipped + Len(s.out)
    <2>1. Rank(s.ver, s.read) = Rank(r.ver, r.read) + 1
        BY <1>4, Zenon
    <2>2. Rank(r.ver, r.read) = s.skipped + Len(r.out)
        BY <1>4, Zenon
    <2>3. s.skipped \in Nat
        BY DEF FetchRec
    <2>4. Len(s.out) = Len(r.out) + 1
        BY <1>3, Zenon
    <2>5. \A i, j \in Nat : (i + j) + 1 = i + (j + 1)
        OBVIOUS
    <2> QED
        BY <1>2, <2>1, <2>2, <2>3, <2>4, <2>5, Zenon
<1>8. s.skipped <= s.at[1] /\ Len(s.out) <= s.at[2] /\ ~(s.skipped < s.at[1])
    BY <1>1, <1>2, <1>3
<1> QED
    BY <1>5, <1>6, <1>7, <1>8 DEF ReadWell

LEMMA NothingIsTyped == NoData \notin AnswerRec /\ NoFetch \in FetchRec /\ ~Awaited(NoFetch)
<1>1. <<0, 0>> \in Nat \X Nat /\ <<>> \in Seq(Members)
    OBVIOUS
<1>2. NoFetch \in FetchRec
    BY <1>1 DEF NoFetch, FetchRec
<1>3. NoData.ver = 0 /\ 0 \notin Versions
    BY ArchiveIs DEF NoData
<1>4. NoData \notin AnswerRec
    BY <1>3 DEF AnswerRec
<1>5. NoFetch.pc = "over"
    BY DEF NoFetch
<1> QED
    BY <1>2, <1>4, <1>5 DEF Awaited

\* A request that is over.
LEMMA OverIsWell ==
    ASSUME NEW r \in FetchRec, r.source # "open"
    PROVE  Over(r) \in FetchRec /\ FetchWell(Over(r)) /\ ~Awaited(Over(r)) /\ Over(r).pc = "over"
<1> DEFINE s == Over(r)
<1>1. s \in FetchRec /\ s.pc = "over" /\ s.source = r.source /\ s.answer = NoData
    BY NothingIsTyped DEF Over, NoFetch, FetchRec
<1> HIDE DEF s
<1>2. FetchWell(s) /\ ~Awaited(s)
    BY <1>1 DEF FetchWell, Awaited
<1> QED
    BY <1>1, <1>2 DEF s

LEMMA DestroyedIs ==
    ASSUME NEW r \in FetchRec
    PROVE  LET s == Destroyed(r) IN
           /\ s \in FetchRec /\ s.source # "open"
           /\ s.pc = r.pc /\ s.at = r.at /\ s.ver = r.ver /\ s.read = r.read /\ s.skipped = r.skipped
           /\ s.out = r.out /\ s.emitted = r.emitted /\ s.left = r.left /\ s.answer = r.answer
    BY DEF FetchRec, Destroyed

LEMMA CancelledIs ==
    ASSUME NEW r \in FetchRec
    PROVE  LET s == Cancelled(r) IN
           /\ s \in FetchRec /\ s.source # "open"
           /\ s.pc = r.pc /\ s.at = r.at /\ s.ver = r.ver /\ s.read = r.read /\ s.skipped = r.skipped
           /\ s.out = r.out /\ s.emitted = r.emitted /\ s.left /\ s.answer = r.answer
<1> DEFINE d == Destroyed(r)
<1>1. /\ d \in FetchRec /\ d.source # "open"
      /\ d.pc = r.pc /\ d.at = r.at /\ d.ver = r.ver /\ d.read = r.read /\ d.skipped = r.skipped
      /\ d.out = r.out /\ d.emitted = r.emitted /\ d.left = r.left /\ d.answer = r.answer
    BY DestroyedIs
<1>2. Cancelled(r) = [d EXCEPT !.left = TRUE]
    BY DEF Cancelled
<1> HIDE DEF d
<1> QED
    BY <1>1, <1>2 DEF FetchRec

\* What a request becomes: it stays well and, if its promise is to settle, that stays so.
MovesTo(r, s) == s \in FetchRec /\ FetchWell(s) /\ (Awaited(r) => Awaited(s) /\ s.at = r.at)

LEMMA FailsWell ==
    ASSUME NEW r \in FetchRec, FetchWell(r), r.pc \notin {"over", "done"}, NEW s \in FetchRec,
           s.pc = "failed", s.at = r.at, s.source # "open", s.answer = r.answer
    PROVE  MovesTo(r, s)
    BY DEF FetchWell, MovesTo, Awaited

LEMMA FinishedIs ==
    ASSUME NEW r \in FetchRec, FetchWell(r), r.pc = "listing", ~r.left,
           NEW hasMore \in BOOLEAN, NEW truncated \in BOOLEAN,
           ~truncated => Rank(r.ver, Len(Archive[r.ver])) <= r.at[1] + Len(r.out) \/ Len(r.out) = r.at[2],
           hasMore <=> ~truncated /\ Rank(r.ver, Len(Archive[r.ver])) > r.at[1] + r.at[2]
    PROVE  MovesTo(r, Finished(r, hasMore, truncated))
<1> DEFINE d == Destroyed(r)
           leaf == [ver |-> r.ver, at |-> r.at, entries |-> r.out,
                    hasMore |-> hasMore, truncated |-> truncated]
<1>1. /\ d \in FetchRec /\ d.source # "open"
      /\ d.at = r.at /\ d.left = r.left /\ d.answer = r.answer
    BY DestroyedIs
<1>2. leaf \in AnswerRec /\ IsSlice(leaf)
    BY ReadIsSlice DEF FetchWell
<1>3. leaf.at = r.at
    OBVIOUS
<1> HIDE DEF d, leaf
<1>4. CASE Len(r.out) # Len(r.emitted)
    <2> DEFINE s == [d EXCEPT !.pc = "failed"]
    <2>1. Finished(r, hasMore, truncated) = s
        BY <1>4 DEF Finished, d
    <2>2. s \in FetchRec /\ s.pc = "failed" /\ s.at = r.at /\ s.source # "open" /\ s.answer = r.answer
        BY <1>1 DEF FetchRec
    <2> HIDE DEF s
    <2> QED
        BY <2>1, <2>2, FailsWell
<1>5. CASE Len(r.out) = Len(r.emitted)
    <2> DEFINE s == [d EXCEPT !.pc = "done", !.answer = leaf]
    <2>1. Finished(r, hasMore, truncated) = s
        BY <1>5 DEF Finished, d, leaf
    <2>2. s \in FetchRec /\ s.pc = "done" /\ s.at = r.at /\ s.source # "open" /\ s.answer = leaf /\ s.left = r.left
        BY <1>1, <1>2 DEF FetchRec
    <2> HIDE DEF s
    <2>3. FetchWell(s)
        BY <1>2, <1>3, <2>2 DEF FetchWell
    <2>4. Awaited(s)
        BY <2>2 DEF Awaited
    <2> QED
        BY <2>1, <2>2, <2>3, <2>4 DEF MovesTo
<1> QED
    BY <1>4, <1>5

Moves(f) == \E s : Becomes(f, s) /\ MovesTo(fetched[f], s)

LEMMA OpensMoves == ASSUME PreviewInv, NEW f \in Fetches, Opens(f) PROVE Moves(f)
<1> DEFINE r == fetched[f]
           body == IF compressed THEN [r EXCEPT !.source = "open"] ELSE r
<1>1. r \in FetchRec /\ FetchWell(r) /\ r.pc = "asked" /\ version \in Versions
    BY DEF PreviewInv, Opens
<1>2. /\ body \in FetchRec /\ body.source = (IF compressed THEN "open" ELSE r.source)
      /\ body.pc = r.pc /\ body.at = r.at /\ body.read = r.read /\ body.skipped = r.skipped
      /\ body.out = r.out /\ body.left = r.left /\ body.answer = r.answer
    BY <1>1 DEF FetchRec
<1>3. CASE r.left
    <2> DEFINE d == Destroyed(body)
    <2>1. d \in FetchRec /\ d.source # "open"
        <3> HIDE DEF body
        <3> QED
            BY <1>2, DestroyedIs
    <2>2. Becomes(f, Over(d))
        BY <1>3 DEF Opens
    <2>3. ~Awaited(r)
        BY <1>1, <1>3 DEF Awaited
    <2> HIDE DEF d, r
    <2>4. MovesTo(r, Over(d))
        BY <2>1, <2>3, OverIsWell DEF MovesTo
    <2> QED
        BY <2>2, <2>4 DEF Moves, r
<1>4. CASE ~r.left
    <2> DEFINE s == [body EXCEPT !.pc = "listing", !.ver = version]
    <2>1. Becomes(f, s)
        BY <1>4 DEF Opens
    <2>2. /\ s \in FetchRec /\ s.source = (IF compressed THEN "open" ELSE r.source)
          /\ s.pc = "listing" /\ s.ver = version /\ s.at = r.at /\ s.read = r.read /\ s.skipped = r.skipped
          /\ s.out = r.out /\ s.left = r.left /\ s.answer = r.answer
        <3> HIDE DEF body
        <3> QED
            BY <1>1, <1>2 DEF FetchRec
    <2> HIDE DEF s, body
    <2>3. ReadWell(s)
        <3>1. s.ver \in Versions /\ s.read = 0 /\ s.skipped = 0 /\ s.out = <<>>
            BY <1>1, <2>2 DEF FetchWell
        <3>2. Rank(s.ver, 0) = 0 /\ Len(Archive[s.ver]) \in Nat
            BY <3>1, RankBegins, ArchiveIs
        <3>3. s.at[1] \in Nat /\ s.at[2] \in Nat
            BY <2>2 DEF FetchRec
        <3>4. Len(s.out) = 0 /\ 1..s.read = {}
            BY <3>1
        <3> QED
            BY <3>1, <3>2, <3>3, <3>4 DEF ReadWell
    <2>4. FetchWell(s)
        BY <1>1, <1>4, <2>2, <2>3 DEF FetchWell, PreviewInv
    <2>5. Awaited(s)
        BY <1>4, <2>2 DEF Awaited
    <2>6. MovesTo(r, s)
        BY <2>2, <2>4, <2>5 DEF MovesTo
    <2> QED
        BY <2>1, <2>6 DEF Moves
<1> QED
    BY <1>3, <1>4

LEMMA IsNotThereMoves == ASSUME PreviewInv, NEW f \in Fetches, IsNotThere(f) PROVE Moves(f)
<1> DEFINE r == fetched[f]
           s == [r EXCEPT !.pc = "failed"]
<1>1. r \in FetchRec /\ FetchWell(r) /\ r.pc = "asked"
    BY DEF PreviewInv, IsNotThere
<1>2. r.source # "open"
    BY <1>1 DEF FetchWell
<1>3. Becomes(f, IF r.left THEN Over(r) ELSE s)
    BY DEF IsNotThere
<1>4. s \in FetchRec /\ s.pc = "failed" /\ s.at = r.at /\ s.source = r.source /\ s.answer = r.answer
    BY <1>1 DEF FetchRec
<1> HIDE DEF r, s
<1>5. MovesTo(r, s)
    BY <1>1, <1>2, <1>4, FailsWell
<1>6. r.left => MovesTo(r, Over(r))
    BY <1>1, <1>2, OverIsWell DEF MovesTo, Awaited
<1> QED
    BY <1>3, <1>5, <1>6 DEF Moves, r

LEMMA EmitMoves ==
    ASSUME NEW r \in FetchRec, FetchWell(r), r.pc = "listing", ~r.left, r.read < Len(Archive[r.ver]),
           Archive[r.ver][r.read + 1] \notin Hidden, r.skipped = r.at[1], Len(r.out) < r.at[2]
    PROVE  MovesTo(r, Emit(r, Archive[r.ver][r.read + 1]))
<1> DEFINE e == Archive[r.ver][r.read + 1]
           l == [r EXCEPT !.read = @ + 1, !.out = Append(@, e)]
<1>1. ReadWell(r) /\ e \in Members
    BY NextIs DEF FetchWell
<1>2. Append(r.out, e) \in Seq(Members) /\ r.read + 1 \in Nat
    <2> HIDE DEF e
    <2> QED
        BY <1>1, AppendProperties DEF FetchRec
<1>3. /\ l \in FetchRec /\ l.read = r.read + 1 /\ l.out = Append(r.out, e) /\ l.ver = r.ver /\ l.at = r.at
      /\ l.skipped = r.skipped /\ l.pc = r.pc /\ l.left = r.left /\ l.source = r.source /\ l.answer = r.answer
      /\ l.emitted = r.emitted
    <2> DEFINE out == Append(r.out, e)
               n == r.read + 1
    <2>1. l = [r EXCEPT !.read = n, !.out = out]
        OBVIOUS
    <2> HIDE DEF out, n, l
    <2>2. /\ l \in FetchRec /\ l.read = n /\ l.out = out /\ l.ver = r.ver /\ l.at = r.at
          /\ l.skipped = r.skipped /\ l.pc = r.pc /\ l.left = r.left /\ l.source = r.source /\ l.answer = r.answer
          /\ l.emitted = r.emitted
        <3>1. n \in Nat /\ out \in Seq(Members)
            BY <1>2 DEF n, out
        <3> QED
            BY <2>1, <3>1 DEF FetchRec
    <2> QED
        BY <2>2 DEF out, n
<1>4. ReadWell(l)
    <2> HIDE DEF l
    <2> QED
        BY <1>1, <1>3, TakesEntry
<1>5. Emit(r, e) = IF Len(r.out) + 1 > Len(r.emitted) THEN [l EXCEPT !.emitted = Append(@, e)]
                   ELSE IF r.emitted[Len(r.out) + 1] = e THEN l
                   ELSE [Cancelled(r) EXCEPT !.pc = "failed"]
    BY DEF Emit
<1> HIDE DEF e, l
<1>6. ASSUME NEW s \in FetchRec, s.read = l.read, s.out = l.out, s.ver = l.ver, s.at = l.at,
             s.skipped = l.skipped, s.pc = l.pc, s.left = l.left, s.source = l.source, s.answer = l.answer
      PROVE  MovesTo(r, s)
    <2>1. ReadWell(s)
        BY <1>4, <1>6, Zenon DEF ReadWell
    <2>2. FetchWell(s)
        BY <1>3, <1>6, <2>1 DEF FetchWell
    <2>3. Awaited(s)
        BY <1>3, <1>6 DEF Awaited
    <2> QED
        BY <1>3, <1>6, <2>2, <2>3 DEF MovesTo
<1>7. CASE Len(r.out) + 1 > Len(r.emitted)
    <2> DEFINE m == Append(l.emitted, e)
               s == [l EXCEPT !.emitted = m]
    <2>1. m \in Seq(Members)
        BY <1>1, <1>3, AppendProperties DEF FetchRec
    <2>2. Emit(r, e) = s
        BY <1>5, <1>7
    <2> HIDE DEF m
    <2>3. /\ s \in FetchRec /\ s.read = l.read /\ s.out = l.out /\ s.ver = l.ver /\ s.at = l.at
          /\ s.skipped = l.skipped /\ s.pc = l.pc /\ s.left = l.left /\ s.source = l.source /\ s.answer = l.answer
        BY <1>3, <2>1 DEF FetchRec
    <2> HIDE DEF s
    <2>4. MovesTo(r, s)
        BY <1>6, <2>3
    <2> QED
        BY <2>2, <2>4 DEF e
<1>8. CASE ~(Len(r.out) + 1 > Len(r.emitted)) /\ r.emitted[Len(r.out) + 1] = e
    <2>1. Emit(r, e) = l
        BY <1>5, <1>8
    <2>2. MovesTo(r, l)
        BY <1>3, <1>6
    <2> QED
        BY <2>1, <2>2 DEF e
<1>9. CASE ~(Len(r.out) + 1 > Len(r.emitted)) /\ r.emitted[Len(r.out) + 1] # e
    <2> DEFINE c == Cancelled(r)
               s == [c EXCEPT !.pc = "failed"]
    <2>1. Emit(r, e) = s
        BY <1>5, <1>9
    <2>2. c \in FetchRec /\ c.source # "open" /\ c.at = r.at /\ c.answer = r.answer
        BY CancelledIs
    <2> HIDE DEF c
    <2>3. s \in FetchRec /\ s.source # "open" /\ s.at = r.at /\ s.answer = r.answer /\ s.pc = "failed"
        BY <2>2 DEF FetchRec
    <2> HIDE DEF s
    <2>4. MovesTo(r, s)
        BY <2>3, FailsWell
    <2> QED
        BY <2>1, <2>4 DEF e
<1> QED
    BY <1>7, <1>8, <1>9

LEMMA ReadsEntryMoves == ASSUME PreviewInv, NEW f \in Fetches, ReadsEntry(f) PROVE Moves(f)
<1> DEFINE r == fetched[f]
           e == Archive[r.ver][r.read + 1]
<1>1. r \in FetchRec /\ FetchWell(r) /\ r.pc = "listing" /\ ~r.left /\ r.read < Len(Archive[r.ver])
    BY DEF PreviewInv, ReadsEntry, IsListing
<1>2. ReadWell(r)
    BY <1>1 DEF FetchWell
<1>3. r.read \in Nat /\ r.skipped \in Nat /\ r.at[1] \in Nat /\ r.at[2] \in Nat /\ r.out \in Seq(Members)
    BY <1>1 DEF FetchRec
<1>4. r.read + 1 \in Nat /\ r.skipped + 1 \in Nat
    BY <1>3
\* An entry that is passed over.
<1>5. ASSUME NEW s \in FetchRec, s.read = r.read + 1, s.out = r.out, s.ver = r.ver, s.at = r.at,
             s.pc = r.pc, s.left = r.left, s.source = r.source, s.answer = r.answer, ReadWell(s)
      PROVE  MovesTo(r, s)
    BY <1>1, <1>5 DEF MovesTo, FetchWell, Awaited
<1>6. CASE e \in Hidden /\ Becomes(f, [r EXCEPT !.read = @ + 1])
    <2> DEFINE n == r.read + 1
               s == [r EXCEPT !.read = n]
    <2>1. Becomes(f, s)
        BY <1>6
    <2> HIDE DEF n
    <2>2. /\ s \in FetchRec /\ s.read = n /\ s.out = r.out /\ s.ver = r.ver /\ s.at = r.at
          /\ s.pc = r.pc /\ s.left = r.left /\ s.source = r.source /\ s.answer = r.answer /\ s.skipped = r.skipped
        BY <1>1, <1>4 DEF FetchRec, n
    <2> HIDE DEF s, r
    <2>3. ReadWell(s)
        BY <1>1, <1>2, <1>6, <2>2, PassesEntry DEF n
    <2>4. MovesTo(r, s)
        BY <1>5, <2>2, <2>3 DEF n
    <2> QED
        BY <2>1, <2>4 DEF Moves, r
<1>7. CASE e \notin Hidden /\ r.skipped < r.at[1] /\ Becomes(f, [r EXCEPT !.read = @ + 1, !.skipped = @ + 1])
    <2> DEFINE n == r.read + 1
               m == r.skipped + 1
               s == [r EXCEPT !.read = n, !.skipped = m]
    <2>1. Becomes(f, s)
        BY <1>7
    <2> HIDE DEF n, m
    <2>2. /\ s \in FetchRec /\ s.read = n /\ s.out = r.out /\ s.ver = r.ver /\ s.at = r.at
          /\ s.pc = r.pc /\ s.left = r.left /\ s.source = r.source /\ s.answer = r.answer /\ s.skipped = m
        BY <1>1, <1>4 DEF FetchRec, n, m
    <2> HIDE DEF s, r
    <2>3. ReadWell(s)
        BY <1>1, <1>2, <1>7, <2>2, PassesEntry DEF n, m
    <2>4. MovesTo(r, s)
        BY <1>5, <2>2, <2>3 DEF n
    <2> QED
        BY <2>1, <2>4 DEF Moves, r
<1>8. CASE e \notin Hidden /\ r.skipped = r.at[1] /\ Len(r.out) >= r.at[2] /\ Becomes(f, Finished(r, TRUE, FALSE))
    <2>1. r.read + 1 \in 1..Len(Archive[r.ver]) /\ Rank(r.ver, r.read + 1) = Rank(r.ver, r.read) + 1
        BY <1>1, <1>2, <1>8, NextIs
    <2>2. r.ver \in Versions /\ Len(Archive[r.ver]) \in Nat /\ Len(r.out) \in Nat
        BY <1>2, <1>3, ArchiveIs, LenProperties DEF ReadWell
    <2>3. Rank(r.ver, r.read + 1) <= Rank(r.ver, Len(Archive[r.ver]))
        BY <1>4, <2>1, <2>2, RankGrows
    <2>4. Rank(r.ver, Len(Archive[r.ver])) \in Nat /\ Rank(r.ver, r.read) \in Nat
        BY <1>3, <2>2, RankIs
    <2>5. Rank(r.ver, r.read) = r.skipped + Len(r.out) /\ Len(r.out) <= r.at[2]
        BY <1>2 DEF ReadWell
    <2>6. Len(r.out) = r.at[2]
        BY <1>3, <1>8, <2>2, <2>5
    <2>7. Rank(r.ver, Len(Archive[r.ver])) > r.at[1] + r.at[2]
        BY <1>3, <1>8, <2>1, <2>2, <2>3, <2>4, <2>5, <2>6
    <2> HIDE DEF r, e
    <2>8. MovesTo(r, Finished(r, TRUE, FALSE))
        BY <1>1, <2>6, <2>7, FinishedIs
    <2> QED
        BY <1>8, <2>8 DEF Moves, r
<1>9. CASE e \notin Hidden /\ r.skipped = r.at[1] /\ Len(r.out) < r.at[2] /\ Becomes(f, Emit(r, e))
    <2> HIDE DEF r
    <2>1. MovesTo(r, Emit(r, e))
        BY <1>1, <1>9, EmitMoves
    <2> QED
        BY <1>9, <2>1 DEF Moves, r
<1> QED
    BY <1>6, <1>7, <1>8, <1>9 DEF ReadsEntry

LEMMA EndOfArchiveMoves == ASSUME PreviewInv, NEW f \in Fetches, EndOfArchive(f) PROVE Moves(f)
<1> DEFINE r == fetched[f]
<1>1. r \in FetchRec /\ FetchWell(r) /\ r.pc = "listing" /\ ~r.left /\ r.read = Len(Archive[r.ver])
    BY DEF PreviewInv, EndOfArchive, IsListing
<1>2. ReadWell(r)
    BY <1>1 DEF FetchWell
<1>3. r.read \in Nat /\ r.skipped \in Nat /\ r.at[1] \in Nat /\ r.at[2] \in Nat /\ r.out \in Seq(Members)
    BY <1>1 DEF FetchRec
<1>4. Len(r.out) \in Nat /\ Rank(r.ver, r.read) \in Nat
    BY <1>2, <1>3, RankIs, LenProperties DEF ReadWell
<1>5. Rank(r.ver, r.read) = r.skipped + Len(r.out) /\ r.skipped <= r.at[1] /\ Len(r.out) <= r.at[2]
    BY <1>2 DEF ReadWell
<1>6. Becomes(f, Finished(r, FALSE, FALSE))
    BY DEF EndOfArchive
<1> HIDE DEF r
<1>7. Rank(r.ver, r.read) <= r.at[1] + Len(r.out) /\ ~(Rank(r.ver, r.read) > r.at[1] + r.at[2])
    <2> DEFINE n == Rank(r.ver, r.read)
               l == Len(r.out)
    <2>1. n \in Nat /\ l \in Nat /\ n = r.skipped + l /\ r.skipped <= r.at[1] /\ l <= r.at[2]
        BY <1>4, <1>5
    <2> HIDE DEF n, l
    <2>2. n <= r.at[1] + l /\ ~(n > r.at[1] + r.at[2])
        BY <1>3, <2>1
    <2> QED
        BY <2>2 DEF n, l
<1>8. MovesTo(r, Finished(r, FALSE, FALSE))
    BY <1>1, <1>7, FinishedIs
<1> QED
    BY <1>6, <1>8 DEF Moves, r

LEMMA BytesRunOutMoves == ASSUME PreviewInv, NEW f \in Fetches, BytesRunOut(f) PROVE Moves(f)
<1> DEFINE r == fetched[f]
<1>1. r \in FetchRec /\ FetchWell(r) /\ r.pc = "listing" /\ ~r.left
    BY DEF PreviewInv, BytesRunOut, IsListing
<1>2. Becomes(f, Finished(r, FALSE, TRUE))
    BY DEF BytesRunOut
<1> HIDE DEF r
<1>3. MovesTo(r, Finished(r, FALSE, TRUE))
    BY <1>1, FinishedIs
<1> QED
    BY <1>2, <1>3 DEF Moves, r

LEMMA BreaksMoves == ASSUME PreviewInv, NEW f \in Fetches, Breaks(f) PROVE Moves(f)
<1> DEFINE r == fetched[f]
           d == Destroyed(r)
           s == [d EXCEPT !.pc = "failed"]
<1>1. r \in FetchRec /\ FetchWell(r) /\ r.pc = "listing"
    BY DEF PreviewInv, Breaks, IsListing
<1>2. Becomes(f, s)
    BY DEF Breaks
<1> HIDE DEF r
<1>3. d \in FetchRec /\ d.source # "open" /\ d.at = r.at /\ d.answer = r.answer
    BY <1>1, DestroyedIs
<1> HIDE DEF d
<1>4. s \in FetchRec /\ s.pc = "failed" /\ s.source # "open" /\ s.at = r.at /\ s.answer = r.answer
    BY <1>3 DEF FetchRec
<1> HIDE DEF s
<1>5. MovesTo(r, s)
    BY <1>1, <1>4, FailsWell
<1> QED
    BY <1>2, <1>5 DEF Moves, r

LEMMA AbandonedMoves == ASSUME PreviewInv, NEW f \in Fetches, Abandoned(f) PROVE Moves(f)
<1> DEFINE r == fetched[f]
<1>1. r \in FetchRec /\ FetchWell(r) /\ r.pc = "listing" /\ r.left /\ Becomes(f, Over(r))
    BY DEF PreviewInv, Abandoned
<1>2. r.source # "open" /\ ~Awaited(r)
    BY <1>1 DEF FetchWell, Awaited
<1> HIDE DEF r
<1>3. MovesTo(r, Over(r))
    BY <1>1, <1>2, OverIsWell DEF MovesTo
<1> QED
    BY <1>1, <1>3 DEF Moves, r

LEMMA PendsMoves == ASSUME PreviewInv, NEW f \in Fetches, Pends(f) PROVE Moves(f)
<1> DEFINE r == fetched[f]
           s == [r EXCEPT !.pc = "waiting"]
<1>1. r \in FetchRec /\ FetchWell(r) /\ r.pc = "listing" /\ ~r.left /\ ~compressed /\ Becomes(f, s)
    BY DEF PreviewInv, Pends, IsListing
<1>2. /\ s \in FetchRec /\ s.pc = "waiting" /\ s.at = r.at /\ s.source = r.source /\ s.answer = r.answer
      /\ s.left = r.left
    BY <1>1 DEF FetchRec
<1> HIDE DEF r, s
<1>3. MovesTo(r, s)
    BY <1>1, <1>2 DEF MovesTo, FetchWell, Awaited
<1> QED
    BY <1>1, <1>3 DEF Moves, r

LEMMA RetriesMoves == ASSUME PreviewInv, NEW f \in Fetches, Retries(f) PROVE Moves(f)
<1> DEFINE r == fetched[f]
           s == [r EXCEPT !.pc = "asked", !.read = 0, !.skipped = 0, !.out = <<>>]
           t == [r EXCEPT !.pc = "failed"]
<1>1. r \in FetchRec /\ FetchWell(r) /\ r.pc = "waiting"
    BY DEF PreviewInv, Retries
<1>2. Becomes(f, s) \/ Becomes(f, t)
    BY DEF Retries
<1>3. /\ s \in FetchRec /\ s.pc = "asked" /\ s.at = r.at /\ s.source = r.source /\ s.answer = r.answer
      /\ s.left = r.left /\ s.read = 0 /\ s.skipped = 0 /\ s.out = <<>>
    <2>1. <<>> \in Seq(Members)
        OBVIOUS
    <2> HIDE DEF r
    <2> QED
        BY <1>1, <2>1 DEF FetchRec
<1>4. t \in FetchRec /\ t.pc = "failed" /\ t.at = r.at /\ t.source = r.source /\ t.answer = r.answer
    BY <1>1 DEF FetchRec
<1> HIDE DEF r, s, t
<1>5. MovesTo(r, s)
    BY <1>1, <1>3 DEF MovesTo, FetchWell, Awaited
<1>6. MovesTo(r, t)
    BY <1>1, <1>4, FailsWell DEF FetchWell
<1> QED
    BY <1>2, <1>5, <1>6 DEF Moves, r

-----------------------------------------------------------------------------
(* The preview of an archive: every step keeps the invariant.                *)

LEMMA MoveStep ==
    ASSUME PreviewInv, NEW f \in Fetches, Moves(f), UNCHANGED <<version, compressed, kept, listing, awaiting>>
    PROVE  PreviewInv'
<1>1. PICK s : Becomes(f, s) /\ MovesTo(fetched[f], s)
    BY DEF Moves
<1>2. /\ fetched \in [Fetches -> FetchRec] /\ fetched' = [fetched EXCEPT ![f] = s]
      /\ s \in FetchRec /\ FetchWell(s) /\ (Awaited(fetched[f]) => Awaited(s) /\ s.at = fetched[f].at)
    BY <1>1 DEF PreviewInv, Becomes, MovesTo
<1>3. fetched' \in [Fetches -> FetchRec]
    BY <1>2
<1>4. \A g \in Fetches : fetched'[g] = IF g = f THEN s ELSE fetched[g]
    BY <1>2
<1>5. ASSUME NEW g \in Fetches PROVE FetchWell(fetched[g])'
    BY <1>2, <1>4 DEF PreviewInv, FetchWell
<1>6. \A g \in Fetches : Awaited(fetched[g]) => Awaited(fetched'[g]) /\ fetched'[g].at = fetched[g].at
    BY <1>2, <1>4
<1>7. ASSUME NEW place \in Places PROVE KeptWell(place, kept[place])'
    <2>1. KeptWell(place, kept[place]) /\ kept[place].load \in Fetches \cup {NoOne}
        BY DEF PreviewInv
    <2> QED
        BY <1>6, <2>1 DEF KeptWell, Awaited
<1>8. ASSUME NEW w \in awaiting PROVE WaitsWell(w)'
    <2>1. WaitsWell(w) /\ w.fetch \in Fetches
        BY DEF PreviewInv
    <2> QED
        BY <1>6, <2>1 DEF WaitsWell, Awaited
<1>9. ListingWell(listing)'
    BY DEF PreviewInv, ListingWell
<1> QED
    BY <1>3, <1>5, <1>7, <1>8, <1>9 DEF PreviewInv

LEMMA PlaceIs ==
    /\ Places \subseteq Nat \X Nat
    /\ \A offset, size : <<offset, size>> \in Places <=>
          offset \in 0..MaxOffset /\ size \in {PageSizes[i] : i \in DOMAIN PageSizes}
    /\ {PageSizes[i] : i \in DOMAIN PageSizes} \subseteq Nat \ {0}
    /\ PageSizes[1] \in {PageSizes[i] : i \in DOMAIN PageSizes}
<1> DEFINE sizes == {PageSizes[i] : i \in DOMAIN PageSizes}
<1>1. PageSizes \in Seq(Nat \ {0}) /\ PageSizes # <<>> /\ MaxOffset \in Nat
    BY ArchiveAssumption
<1>2. DOMAIN PageSizes = 1..Len(PageSizes) /\ Len(PageSizes) \in Nat /\ Len(PageSizes) # 0
    BY <1>1, EmptySeq, LenProperties
<1>3. \A i \in DOMAIN PageSizes : PageSizes[i] \in Nat \ {0}
    BY <1>1, <1>2, ElementOfSeq
<1>4. 1 \in DOMAIN PageSizes
    BY <1>2
<1>5. sizes \subseteq Nat \ {0} /\ PageSizes[1] \in sizes
    BY <1>3, <1>4
<1>6. Places = (0..MaxOffset) \X sizes
    BY DEF Places
<1> HIDE DEF sizes
<1>7. 0..MaxOffset \subseteq Nat
    BY <1>1
<1>8. Places \subseteq Nat \X Nat
    BY <1>5, <1>6, <1>7
<1>9. \A offset, size : <<offset, size>> \in Places <=> offset \in 0..MaxOffset /\ size \in sizes
    BY <1>6
<1> QED
    BY <1>5, <1>8, <1>9 DEF sizes

LEMMA ClosedIs == ListingWell(Closed) /\ Closed.loading = FALSE
<1>1. PageSizes[1] \in Nat /\ <<0, PageSizes[1]>> \in Places
    <2>1. 0 \in 0..MaxOffset
        BY ArchiveAssumption
    <2>2. <<0, PageSizes[1]>> \in Places
        BY <2>1, PlaceIs, Zenon
    <2>3. PageSizes[1] \in Nat
        BY PlaceIs
    <2> QED
        BY <2>2, <2>3
<1>2. Closed \in ListingRec /\ Closed.data = NoData /\ Closed.offset = 0 /\ Closed.size = PageSizes[1]
    BY <1>1 DEF Closed, ListingRec
<1> QED
    BY <1>1, <1>2 DEF ListingWell, Closed

LEMMA RequestedIs ==
    ASSUME NEW f, NEW place \in Places
    PROVE  LET s == Requested(f, place) IN
           s \in FetchRec /\ FetchWell(s) /\ Awaited(s) /\ s.at = place
<1> DEFINE s == Requested(f, place)
<1>1. place \in Nat \X Nat
    BY PlaceIs
<1>2. NoFetch \in FetchRec
    BY NothingIsTyped
<1>3. /\ s \in FetchRec /\ s.pc = "asked" /\ s.at = place /\ s.source = "none" /\ s.answer = NoData
      /\ s.left = FALSE /\ s.read = 0 /\ s.skipped = 0 /\ s.out = <<>>
    BY <1>1, <1>2 DEF Requested, NoFetch, FetchRec
<1> HIDE DEF s
<1>4. FetchWell(s) /\ Awaited(s)
    BY <1>3 DEF FetchWell, Awaited
<1> QED
    BY <1>3, <1>4 DEF s

\* A request begins: those whose promises are to settle are as they were.
LEMMA OneMoreRequest ==
    ASSUME PreviewInv, UNCHANGED compressed,
           NEW f \in Fetches, IsSpare(f), NEW place \in Places, Becomes(f, Requested(f, place))
    PROVE  /\ fetched' \in [Fetches -> FetchRec]
           /\ \A g \in Fetches : FetchWell(fetched[g])'
           /\ \A g \in Fetches : Awaited(fetched[g]) => g # f /\ fetched'[g] = fetched[g]
           /\ Awaited(fetched'[f]) /\ fetched'[f].at = place
<1> DEFINE s == Requested(f, place)
<1>1. s \in FetchRec /\ FetchWell(s) /\ Awaited(s) /\ s.at = place
    BY RequestedIs
<1>2. fetched' = [fetched EXCEPT ![f] = s] /\ fetched \in [Fetches -> FetchRec] /\ fetched[f].pc = "over"
    BY DEF Becomes, PreviewInv, IsSpare
<1> HIDE DEF s
<1>3. fetched' \in [Fetches -> FetchRec] /\ \A g \in Fetches : fetched'[g] = IF g = f THEN s ELSE fetched[g]
    BY <1>1, <1>2
<1>4. ~Awaited(fetched[f])
    BY <1>2 DEF Awaited
<1>5. ASSUME NEW g \in Fetches PROVE FetchWell(fetched[g])'
    BY <1>1, <1>3 DEF PreviewInv, FetchWell
<1> QED
    BY <1>1, <1>3, <1>4, <1>5

LEMMA LoadsRowsStep ==
    ASSUME PreviewInv, NEW l \in ListingRec, <<l.offset, l.size>> \in Places, LoadsRows(l),
           UNCHANGED <<version, compressed>>
    PROVE  PreviewInv'
<1> DEFINE place == <<l.offset, l.size>>
           entry == kept[place]
           Expect(f) == (awaiting \ Effects) \cup {[fetch |-> f, by |-> "effect"]}
<1>1. /\ place \in Places /\ entry \in [answer : AnswerRec \cup {NoData}, load : Fetches \cup {NoOne}]
      /\ KeptWell(place, entry)
    BY DEF PreviewInv
<1>2. awaiting \subseteq [fetch : Fetches, by : {"effect", "refresh"}]
    BY DEF PreviewInv
<1>3. \A w \in awaiting \ Effects : w \in awaiting /\ w.by = "refresh"
    BY <1>2 DEF Effects
<1>4. version' \in Versions /\ compressed' \in BOOLEAN
    BY DEF PreviewInv
<1>5. ASSUME listing' = Loading(l)
      PROVE  ListingWell(listing)' /\ listing'.offset = l.offset /\ listing'.size = l.size
    <2> DEFINE s == Loading(l)
    <2>1. s \in ListingRec /\ s.data = NoData /\ s.offset = l.offset /\ s.size = l.size
        BY DEF Loading, ListingRec
    <2> HIDE DEF s
    <2>2. listing' = s
        BY <1>5 DEF s
    <2> QED
        BY <2>1, <2>2 DEF ListingWell
<1>6. ASSUME NEW f \in Fetches, awaiting' = Expect(f)
      PROVE  /\ awaiting' \subseteq [fetch : Fetches, by : {"effect", "refresh"}] /\ awaiting' # {}
             /\ \A w \in awaiting' : (w \in awaiting /\ w.by = "refresh") \/ (w.fetch = f /\ w.by = "effect")
    <2> DEFINE new == [fetch |-> f, by |-> "effect"]
    <2>1. new \in [fetch : Fetches, by : {"effect", "refresh"}] /\ new.fetch = f /\ new.by = "effect"
        OBVIOUS
    <2>2. awaiting' = (awaiting \ Effects) \cup {new}
        BY <1>6
    <2> HIDE DEF new
    <2> QED
        BY <1>2, <1>3, <2>1, <2>2, Zenon
<1>7. CASE /\ entry.answer # NoData
           /\ listing' = Showing([l EXCEPT !.error = FALSE], entry.answer, "effect")
           /\ awaiting' = awaiting \ Effects
           /\ UNCHANGED <<fetched, kept>>
    <2> DEFINE answer == entry.answer
               s == Showing([l EXCEPT !.error = FALSE], answer, "effect")
    <2>1. answer \in AnswerRec /\ answer.at = place /\ IsSlice(answer)
        BY <1>1, <1>7 DEF KeptWell
    <2>2. listing' = s
        BY <1>7
    <2> HIDE DEF answer
    <2>3. s \in ListingRec /\ s.data = answer /\ s.offset = l.offset /\ s.size = l.size /\ s.loading = FALSE
        BY <2>1 DEF Showing, ListingRec
    <2> HIDE DEF s
    <2>4. ListingWell(listing)'
        BY <2>1, <2>2, <2>3 DEF ListingWell
    <2>5. awaiting' \subseteq [fetch : Fetches, by : {"effect", "refresh"}]
        BY <1>2, <1>7
    <2>6. ASSUME NEW w \in awaiting' PROVE WaitsWell(w)'
        BY <1>3, <1>7, <2>6 DEF PreviewInv, WaitsWell, Awaited
    <2>7. \A p \in Places : KeptWell(p, kept[p])'
        BY <1>7 DEF PreviewInv, KeptWell, Awaited
    <2>8. fetched' = fetched /\ \A g \in Fetches : FetchWell(fetched[g])'
        BY <1>7 DEF PreviewInv, FetchWell
    <2> QED
        BY <1>4, <1>7, <2>2, <2>3, <2>4, <2>5, <2>6, <2>7, <2>8 DEF PreviewInv
<1>8. CASE /\ entry.answer = NoData /\ entry.load # NoOne
           /\ listing' = Loading(l)
           /\ awaiting' = Expect(entry.load)
           /\ UNCHANGED <<fetched, kept>>
    <2> DEFINE f == entry.load
    <2>1. f \in Fetches /\ Awaited(fetched[f]) /\ fetched[f].at = place
        BY <1>1, <1>8 DEF KeptWell
    <2>2. awaiting' = Expect(f)
        BY <1>8
    <2> HIDE DEF f
    <2>3. ASSUME NEW w \in awaiting' PROVE WaitsWell(w)'
        BY <1>5, <1>6, <1>8, <2>1, <2>2, <2>3 DEF PreviewInv, WaitsWell, Awaited
    <2>4. \A p \in Places : KeptWell(p, kept[p])'
        BY <1>8 DEF PreviewInv, KeptWell, Awaited
    <2>5. fetched' = fetched /\ \A g \in Fetches : FetchWell(fetched[g])'
        BY <1>8 DEF PreviewInv, FetchWell
    <2>6. ListingWell(listing)'
        BY <1>5, <1>8
    <2>7. awaiting' \subseteq [fetch : Fetches, by : {"effect", "refresh"}] /\ awaiting' # {}
        BY <1>6, <2>1, <2>2
    <2>8. kept' = kept
        BY <1>8
    <2> QED
        BY <1>4, <2>3, <2>4, <2>5, <2>6, <2>7, <2>8 DEF PreviewInv
<1>9. ASSUME NEW f \in Fetches, entry = NothingKept, listing' = Loading(l),
             IsSpare(f), Becomes(f, Requested(f, place)), kept' = [kept EXCEPT ![place].load = f],
             awaiting' = Expect(f)
      PROVE  PreviewInv'
    <2>1. /\ fetched' \in [Fetches -> FetchRec]
          /\ \A g \in Fetches : FetchWell(fetched[g])'
          /\ \A g \in Fetches : Awaited(fetched[g]) => g # f /\ fetched'[g] = fetched[g]
          /\ Awaited(fetched'[f]) /\ fetched'[f].at = place
        <3> HIDE DEF place
        <3> QED
            BY <1>1, <1>9, OneMoreRequest
    <2>2. ASSUME NEW w \in awaiting' PROVE WaitsWell(w)'
        <3>1. w \in awaiting => WaitsWell(w) /\ w.fetch \in Fetches
            BY <1>2 DEF PreviewInv
        <3> QED
            BY <1>5, <1>6, <1>9, <2>1, <2>2, <3>1 DEF WaitsWell, Awaited
    <2> DEFINE new == [entry EXCEPT !.load = f]
    <2>3. /\ kept \in [Places -> [answer : AnswerRec \cup {NoData}, load : Fetches \cup {NoOne}]]
          /\ kept' = [kept EXCEPT ![place] = new]
        BY <1>9 DEF PreviewInv
    <2>4. new \in [answer : AnswerRec \cup {NoData}, load : Fetches \cup {NoOne}] /\ new.answer = NoData /\ new.load = f
        BY <1>1, <1>9 DEF NothingKept
    <2> HIDE DEF new, place
    <2>5. /\ kept' \in [Places -> [answer : AnswerRec \cup {NoData}, load : Fetches \cup {NoOne}]]
          /\ \A p \in Places : kept'[p] = IF p = place THEN new ELSE kept[p]
        BY <1>1, <2>3, <2>4
    <2>6. ASSUME NEW p \in Places PROVE KeptWell(p, kept[p])'
        <3>1. KeptWell(p, kept[p]) /\ kept[p].load \in Fetches \cup {NoOne}
            BY DEF PreviewInv
        <3> QED
            BY <2>1, <2>4, <2>5, <3>1 DEF KeptWell, Awaited
    <2>7. ListingWell(listing)'
        BY <1>5, <1>9
    <2>8. awaiting' \subseteq [fetch : Fetches, by : {"effect", "refresh"}] /\ awaiting' # {}
        BY <1>6, <1>9
    <2> QED
        BY <1>4, <2>1, <2>2, <2>5, <2>6, <2>7, <2>8 DEF PreviewInv
<1> QED
    BY <1>7, <1>8, <1>9 DEF LoadsRows

LEMMA RowsStep ==
    ASSUME PreviewInv, DrawerOpens \/ PageNext \/ PagePrev \/ SetPageSize
    PROVE  PreviewInv'
<1>1. listing \in ListingRec /\ <<listing.offset, listing.size>> \in Places
    BY DEF PreviewInv, ListingWell
<1>2. /\ listing.offset \in 0..MaxOffset /\ listing.size \in {PageSizes[i] : i \in DOMAIN PageSizes}
      /\ listing.offset \in Nat /\ listing.size \in Nat /\ MaxOffset \in Nat
    <2>1. listing.offset \in 0..MaxOffset /\ listing.size \in {PageSizes[i] : i \in DOMAIN PageSizes}
        BY <1>1, PlaceIs
    <2> QED
        BY <1>1, <2>1, ArchiveAssumption DEF ListingRec
\* The places one may go to.
<1>3. ASSUME NEW offset \in 0..MaxOffset, NEW size \in {PageSizes[i] : i \in DOMAIN PageSizes},
             NEW l, l.offset = offset, l.size = size
      PROVE  <<l.offset, l.size>> \in Places
    BY <1>3, PlaceIs
<1>4. CASE DrawerOpens
    <2> DEFINE l == [listing EXCEPT !.shown = TRUE]
    <2>1. l \in ListingRec /\ l.offset = listing.offset /\ l.size = listing.size
        BY <1>1 DEF ListingRec
    <2>2. LoadsRows(l) /\ UNCHANGED <<version, compressed>>
        BY <1>4 DEF DrawerOpens, PageElse
    <2> HIDE DEF l
    <2> QED
        BY <1>1, <2>1, <2>2, LoadsRowsStep
<1>5. CASE PageNext
    <2> DEFINE n == listing.offset + listing.size
               l == [listing EXCEPT !.offset = n]
    <2>1. LoadsRows(l) /\ UNCHANGED <<version, compressed>>
        BY <1>5 DEF PageNext, PageElse
    <2>2. n \in 0..MaxOffset /\ n \in Nat
        BY <1>2, <1>5 DEF PageNext
    <2> HIDE DEF n
    <2>3. l \in ListingRec /\ l.offset = n /\ l.size = listing.size
        BY <1>1, <2>2 DEF ListingRec
    <2> HIDE DEF l
    <2>4. <<l.offset, l.size>> \in Places
        BY <1>2, <1>3, <2>2, <2>3
    <2> QED
        BY <2>1, <2>3, <2>4, LoadsRowsStep
<1>6. CASE PagePrev
    <2> DEFINE n == IF listing.offset < listing.size THEN 0 ELSE listing.offset - listing.size
               l == [listing EXCEPT !.offset = n]
    <2>1. LoadsRows(l) /\ UNCHANGED <<version, compressed>>
        BY <1>6 DEF PagePrev, PageElse
    <2>2. n \in 0..MaxOffset /\ n \in Nat
        BY <1>2
    <2> HIDE DEF n
    <2>3. l \in ListingRec /\ l.offset = n /\ l.size = listing.size
        BY <1>1, <2>2 DEF ListingRec
    <2> HIDE DEF l
    <2>4. <<l.offset, l.size>> \in Places
        BY <1>2, <1>3, <2>2, <2>3
    <2> QED
        BY <2>1, <2>3, <2>4, LoadsRowsStep
<1>7. CASE SetPageSize
    <2>1. PICK i \in DOMAIN PageSizes : LoadsRows([listing EXCEPT !.size = PageSizes[i], !.offset = 0])
        BY <1>7 DEF SetPageSize
    <2> DEFINE size == PageSizes[i]
               l == [listing EXCEPT !.size = size, !.offset = 0]
    <2>2. LoadsRows(l) /\ UNCHANGED <<version, compressed>>
        BY <1>7, <2>1 DEF SetPageSize, PageElse
    <2>3. size \in {PageSizes[j] : j \in DOMAIN PageSizes}
        OBVIOUS
    <2>4. size \in Nat
        BY <2>3, PlaceIs
    <2> HIDE DEF size
    <2>5. l \in ListingRec /\ l.offset = 0 /\ l.size = size
        BY <1>1, <2>4 DEF ListingRec
    <2> HIDE DEF l
    <2>6. 0 \in 0..MaxOffset
        BY <1>2
    <2>7. <<l.offset, l.size>> \in Places
        BY <1>3, <2>3, <2>5, <2>6
    <2> QED
        BY <2>2, <2>5, <2>7, LoadsRowsStep
<1> QED
    BY <1>4, <1>5, <1>6, <1>7

LEMMA DrawerClosesStep == ASSUME PreviewInv, DrawerCloses PROVE PreviewInv'
<1>1. /\ listing' = Closed /\ awaiting' = {} /\ fetched' = fetched /\ kept' = kept
      /\ version' = version /\ compressed' = compressed
    BY DEF DrawerCloses, PageElse
<1>2. ListingWell(listing)' /\ listing'.loading = FALSE
    BY <1>1, ClosedIs DEF ListingWell
<1>3. \A f \in Fetches : FetchWell(fetched[f])'
    BY <1>1 DEF PreviewInv, FetchWell
<1>4. \A place \in Places : KeptWell(place, kept[place])'
    BY <1>1 DEF PreviewInv, KeptWell, Awaited
<1> QED
    BY <1>1, <1>2, <1>3, <1>4 DEF PreviewInv

LEMMA ForceRefreshStep == ASSUME PreviewInv, ForceRefresh PROVE PreviewInv'
<1> DEFINE place == <<listing.offset, listing.size>>
<1>1. PICK f \in Fetches :
          /\ IsSpare(f) /\ Becomes(f, Requested(f, place))
          /\ kept' = [p \in Places |-> IF p = place THEN [NothingKept EXCEPT !.load = f] ELSE NothingKept]
          /\ awaiting' = awaiting \cup {[fetch |-> f, by |-> "refresh"]}
    BY DEF ForceRefresh
<1>2. listing' = Loading(listing) /\ version' = version /\ compressed' = compressed
    BY DEF ForceRefresh, PageElse
<1>3. place \in Places /\ listing \in ListingRec
    BY DEF PreviewInv, ListingWell
<1>4. /\ listing' \in ListingRec /\ listing'.data = NoData
      /\ listing'.offset = listing.offset /\ listing'.size = listing.size
    BY <1>2, <1>3 DEF Loading, ListingRec
<1>5. ListingWell(listing)'
    BY <1>3, <1>4 DEF ListingWell
<1>6. /\ fetched' \in [Fetches -> FetchRec]
      /\ \A g \in Fetches : FetchWell(fetched[g])'
      /\ \A g \in Fetches : Awaited(fetched[g]) => g # f /\ fetched'[g] = fetched[g]
      /\ Awaited(fetched'[f]) /\ fetched'[f].at = place
    <2> HIDE DEF place
    <2> QED
        BY <1>1, <1>2, <1>3, OneMoreRequest
<1> DEFINE new == [fetch |-> f, by |-> "refresh"]
<1>7. new \in [fetch : Fetches, by : {"effect", "refresh"}] /\ new.fetch = f /\ new.by = "refresh"
    OBVIOUS
<1>8. awaiting' = awaiting \cup {new} /\ awaiting \subseteq [fetch : Fetches, by : {"effect", "refresh"}]
    BY <1>1 DEF PreviewInv
<1> HIDE DEF new
<1>9. awaiting' \subseteq [fetch : Fetches, by : {"effect", "refresh"}] /\ awaiting' # {}
    BY <1>7, <1>8
<1>10. ASSUME NEW w \in awaiting' PROVE WaitsWell(w)'
    <2>1. CASE w \in awaiting
        <3>1. WaitsWell(w) /\ w.fetch \in Fetches
            BY <2>1 DEF PreviewInv
        <3> QED
            BY <1>4, <1>6, <3>1 DEF WaitsWell, Awaited
    <2>2. CASE w = new
        BY <1>6, <1>7, <2>2 DEF WaitsWell, Awaited
    <2> QED
        BY <1>8, <2>1, <2>2
<1> DEFINE fresh == [NothingKept EXCEPT !.load = f]
<1>11. /\ fresh \in [answer : AnswerRec \cup {NoData}, load : Fetches \cup {NoOne}]
       /\ fresh.answer = NoData /\ fresh.load = f
       /\ NothingKept \in [answer : AnswerRec \cup {NoData}, load : Fetches \cup {NoOne}]
       /\ NothingKept.answer = NoData /\ NothingKept.load = NoOne
    BY DEF NothingKept
<1>12. kept' = [p \in Places |-> IF p = place THEN fresh ELSE NothingKept]
    BY <1>1
<1> HIDE DEF fresh, place
<1>13. kept' \in [Places -> [answer : AnswerRec \cup {NoData}, load : Fetches \cup {NoOne}]]
    BY <1>11, <1>12
<1>14. ASSUME NEW p \in Places PROVE KeptWell(p, kept[p])'
    BY <1>6, <1>11, <1>12 DEF KeptWell, Awaited
<1> QED
    BY <1>2, <1>5, <1>6, <1>9, <1>10, <1>13, <1>14 DEF PreviewInv

LEMMA SettlesStep == ASSUME PreviewInv, NEW f \in Fetches, Settles(f) PROVE PreviewInv'
<1> DEFINE r == fetched[f]
           waiters == {w \in awaiting : w.fetch = f}
           by == IF \E w \in waiters : w.by = "effect" THEN "effect" ELSE "refresh"
           answered == [NothingKept EXCEPT !.answer = r.answer]
<1>1. /\ r.pc \in {"done", "failed"}
      /\ kept' = [kept EXCEPT ![r.at] = IF @.load = f THEN answered ELSE @]
      /\ listing' = IF waiters = {} THEN listing
                    ELSE IF r.pc = "done" THEN Showing(listing, r.answer, by)
                    ELSE [listing EXCEPT !.error = TRUE, !.loading = FALSE]
      /\ awaiting' = awaiting \ waiters
      /\ Becomes(f, Over(r)) /\ version' = version /\ compressed' = compressed
    BY DEF Settles, PageElse
<1>2. r \in FetchRec /\ FetchWell(r) /\ r.source # "open" /\ r.at \in Places
    BY <1>1 DEF PreviewInv, FetchWell
<1>3. /\ r.answer \in AnswerRec \cup {NoData}
      /\ r.answer # NoData => r.pc = "done" /\ r.answer \in AnswerRec /\ r.answer.at = r.at /\ IsSlice(r.answer)
    BY <1>2 DEF FetchWell
<1>4. Over(r) \in FetchRec /\ FetchWell(Over(r)) /\ ~Awaited(Over(r))
    <2> HIDE DEF r
    <2> QED
        BY <1>2, OverIsWell
<1>5. fetched \in [Fetches -> FetchRec] /\ fetched' = [fetched EXCEPT ![f] = Over(r)]
    BY <1>1 DEF PreviewInv, Becomes
<1>6. \A g \in Fetches \ {f} : fetched'[g] = fetched[g]
    BY <1>5
<1>7. fetched' \in [Fetches -> FetchRec]
    BY <1>4, <1>5
<1>8. ASSUME NEW g \in Fetches PROVE FetchWell(fetched[g])'
    <2>1. CASE g = f
        <3>1. fetched'[g] = Over(r)
            BY <1>5, <2>1
        <3> QED
            BY <1>1, <1>4, <3>1 DEF FetchWell
    <2>2. CASE g # f
        BY <1>1, <1>6, <2>2 DEF PreviewInv, FetchWell
    <2> QED
        BY <2>1, <2>2
<1>9. awaiting \subseteq [fetch : Fetches, by : {"effect", "refresh"}] /\ \A w \in awaiting' : w \in awaiting /\ w.fetch # f
    BY <1>1 DEF PreviewInv
<1>10. /\ listing \in ListingRec /\ <<listing.offset, listing.size>> \in Places
       /\ by \in {"effect", "refresh"}
       /\ waiters # {} /\ by = "effect" => r.at = <<listing.offset, listing.size>>
    BY DEF PreviewInv, ListingWell, WaitsWell
<1>11. ListingWell(listing)' /\ listing'.offset = listing.offset /\ listing'.size = listing.size
    <2>1. CASE waiters = {}
        <3>1. listing' = listing
            BY <1>1, <2>1
        <3> QED
            BY <3>1 DEF PreviewInv, ListingWell
    <2>2. CASE waiters # {} /\ r.pc = "done"
        <3> DEFINE answer == r.answer
                   s == Showing(listing, answer, by)
        <3>1. listing' = s
            BY <1>1, <2>2
        <3>2. answer \in AnswerRec /\ answer.at = r.at /\ IsSlice(answer)
            BY <1>2, <2>2 DEF FetchWell
        <3> HIDE DEF answer, by, r
        <3>3. s \in ListingRec /\ s.data = answer /\ s.by = by /\ s.offset = listing.offset /\ s.size = listing.size
            BY <1>10, <3>2 DEF Showing, ListingRec
        <3> HIDE DEF s
        <3> QED
            BY <1>10, <2>2, <3>1, <3>2, <3>3 DEF ListingWell
    <2>3. CASE waiters # {} /\ r.pc # "done"
        <3> DEFINE s == [listing EXCEPT !.error = TRUE, !.loading = FALSE]
        <3>1. listing' = s
            BY <1>1, <2>3
        <3>2. /\ s \in ListingRec /\ s.data = listing.data /\ s.by = listing.by
              /\ s.offset = listing.offset /\ s.size = listing.size
            BY <1>10 DEF ListingRec
        <3>3. ListingWell(listing)
            BY DEF PreviewInv
        <3> HIDE DEF s
        <3> QED
            BY <3>1, <3>2, <3>3 DEF ListingWell
    <2> QED
        BY <2>1, <2>2, <2>3
<1>12. listing'.loading => awaiting' # {}
    <2>1. CASE waiters = {}
        BY <1>1, <2>1 DEF PreviewInv
    <2>2. CASE waiters # {}
        <3>1. ~listing'.loading
            BY <1>1, <1>10, <2>2 DEF Showing, ListingRec
        <3> QED
            BY <3>1
    <2> QED
        BY <2>1, <2>2
<1>13. ASSUME NEW w \in awaiting' PROVE WaitsWell(w)'
    <2>1. w \in awaiting /\ w.fetch \in Fetches \ {f} /\ WaitsWell(w)
        BY <1>9 DEF PreviewInv
    <2> QED
        BY <1>6, <1>11, <2>1 DEF WaitsWell, Awaited
<1>14. /\ answered \in [answer : AnswerRec \cup {NoData}, load : Fetches \cup {NoOne}]
       /\ answered.answer = r.answer /\ answered.load = NoOne
    <2> DEFINE a == r.answer
    <2>1. a \in AnswerRec \cup {NoData} /\ answered = [NothingKept EXCEPT !.answer = a]
        BY <1>3
    <2> HIDE DEF a, answered
    <2>2. /\ answered \in [answer : AnswerRec \cup {NoData}, load : Fetches \cup {NoOne}]
          /\ answered.answer = a /\ answered.load = NoOne
        BY <2>1 DEF NothingKept
    <2> QED
        BY <2>2 DEF a
<1>15. /\ kept \in [Places -> [answer : AnswerRec \cup {NoData}, load : Fetches \cup {NoOne}]]
       /\ \A p \in Places : KeptWell(p, kept[p])
    BY DEF PreviewInv
<1> HIDE DEF answered
<1>16. /\ kept' \in [Places -> [answer : AnswerRec \cup {NoData}, load : Fetches \cup {NoOne}]]
       /\ \A p \in Places : kept'[p] = IF p = r.at /\ kept[p].load = f THEN answered ELSE kept[p]
    BY <1>1, <1>2, <1>14, <1>15
<1>17. ASSUME NEW p \in Places PROVE KeptWell(p, kept[p])'
    <2>1. CASE p = r.at /\ kept[p].load = f
        <3>1. kept'[p] = answered
            BY <1>16, <2>1
        <3> QED
            BY <1>3, <1>14, <2>1, <3>1 DEF KeptWell
    <2>2. CASE ~(p = r.at /\ kept[p].load = f)
        <3>1. kept'[p] = kept[p] /\ KeptWell(p, kept[p]) /\ kept[p].load \in Fetches \cup {NoOne}
            BY <1>15, <1>16, <2>2
        <3>2. kept[p].load # NoOne => kept[p].load \in Fetches \ {f}
            BY <2>2, <3>1 DEF KeptWell
        <3> QED
            BY <1>6, <3>1, <3>2 DEF KeptWell, Awaited
    <2> QED
        BY <2>1, <2>2
<1>18. awaiting' \subseteq [fetch : Fetches, by : {"effect", "refresh"}]
    BY <1>9
<1>19. version' \in Versions /\ compressed' \in BOOLEAN
    BY <1>1 DEF PreviewInv
<1> HIDE DEF r, waiters, by
<1> QED
    BY <1>7, <1>8, <1>11, <1>12, <1>13, <1>16, <1>17, <1>18, <1>19 DEF PreviewInv

LEMMA ForgetsRowsStep == ASSUME PreviewInv, ForgetsRows PROVE PreviewInv'
<1>1. PICK place \in Places : kept' = [kept EXCEPT ![place] = NothingKept]
    BY DEF ForgetsRows
<1>2. UNCHANGED <<version, compressed, fetched, listing, awaiting>>
    BY DEF ForgetsRows, PageElse
<1>3. /\ NothingKept \in [answer : AnswerRec \cup {NoData}, load : Fetches \cup {NoOne}]
      /\ NothingKept.answer = NoData /\ NothingKept.load = NoOne
    BY DEF NothingKept
<1>4. /\ kept' \in [Places -> [answer : AnswerRec \cup {NoData}, load : Fetches \cup {NoOne}]]
      /\ \A p \in Places : kept'[p] = IF p = place THEN NothingKept ELSE kept[p]
    BY <1>1, <1>3 DEF PreviewInv
<1>5. \A p \in Places : KeptWell(p, kept[p])'
    BY <1>2, <1>3, <1>4 DEF PreviewInv, KeptWell, Awaited
<1>6. \A f \in Fetches : FetchWell(fetched[f])'
    BY <1>2 DEF PreviewInv, FetchWell
<1>7. \A w \in awaiting' : WaitsWell(w)'
    BY <1>2 DEF PreviewInv, WaitsWell, Awaited
<1>8. ListingWell(listing)'
    BY <1>2 DEF PreviewInv, ListingWell
<1> QED
    BY <1>2, <1>4, <1>5, <1>6, <1>7, <1>8 DEF PreviewInv

\* What does not look at the version of the object.
LEMMA PreviewStutters ==
    ASSUME PreviewInv, version' \in Versions, UNCHANGED <<compressed, listVars>>
    PROVE  PreviewInv'
<1>1. UNCHANGED <<compressed, fetched, kept, listing, awaiting>>
    BY DEF listVars
<1>2. \A p \in Places : KeptWell(p, kept[p])'
    BY <1>1 DEF PreviewInv, KeptWell, Awaited
<1>3. \A f \in Fetches : FetchWell(fetched[f])'
    BY <1>1 DEF PreviewInv, FetchWell
<1>4. \A w \in awaiting' : WaitsWell(w)'
    BY <1>1 DEF PreviewInv, WaitsWell, Awaited
<1>5. ListingWell(listing)'
    BY <1>1 DEF PreviewInv, ListingWell
<1> QED
    BY <1>1, <1>2, <1>3, <1>4, <1>5 DEF PreviewInv

LEMMA NextVersion == ASSUME PreviewInv, ObjectReplaced PROVE version' \in Versions
<1>1. Archive \in Seq(Seq(Members)) /\ DOMAIN Archive = 1..Len(Archive) /\ Len(Archive) \in Nat
    BY ArchiveAssumption, LenProperties
<1>2. version \in 1..Len(Archive) /\ version < Len(Archive) /\ version' = version + 1
    BY <1>1 DEF PreviewInv, ObjectReplaced, Versions
<1>3. version' \in 1..Len(Archive)
    BY <1>1, <1>2
<1> QED
    BY <1>1, <1>3 DEF Versions

LEMMA TabReloadsStep == ASSUME PreviewInv, TabReloads PROVE PreviewInv'
<1>1. /\ fetched' = [f \in Fetches |-> IF AtApi(f) THEN Cancelled(fetched[f]) ELSE Over(fetched[f])]
      /\ kept' = [place \in Places |-> NothingKept]
      /\ listing' = Closed /\ awaiting' = {} /\ version' = version /\ compressed' = compressed
    BY DEF TabReloads
<1>2. ASSUME NEW f \in Fetches PROVE fetched'[f] \in FetchRec /\ FetchWell(fetched[f])'
    <2> DEFINE r == fetched[f]
    <2>1. r \in FetchRec /\ FetchWell(r)
        BY DEF PreviewInv
    <2>2. CASE AtApi(f)
        <3> DEFINE s == Cancelled(r)
        <3>1. fetched'[f] = s /\ r.pc \in {"asked", "listing"}
            BY <1>1, <2>2 DEF AtApi
        <3> HIDE DEF r
        <3>2. /\ s \in FetchRec /\ s.source # "open"
              /\ s.pc = r.pc /\ s.at = r.at /\ s.ver = r.ver /\ s.read = r.read /\ s.skipped = r.skipped
              /\ s.out = r.out /\ s.answer = r.answer
            BY <2>1, CancelledIs
        <3> HIDE DEF s
        <3>3. r.pc = "listing" => ReadWell(s)
            <4> SUFFICES ASSUME r.pc = "listing" PROVE ReadWell(s)
                OBVIOUS
            <4>1. ReadWell(r)
                BY <2>1 DEF FetchWell
            <4> QED
                BY <3>2, <4>1, Zenon DEF ReadWell
        <3>4. FetchWell(s)
            BY <2>1, <3>1, <3>2, <3>3 DEF FetchWell
        <3> QED
            BY <1>1, <3>1, <3>2, <3>4 DEF FetchWell
    <2>3. CASE ~AtApi(f)
        <3>1. fetched'[f] = Over(r) /\ r.pc # "listing"
            BY <1>1, <2>3 DEF AtApi
        <3>2. r.source # "open"
            BY <2>1, <3>1 DEF FetchWell
        <3> HIDE DEF r
        <3>3. Over(r) \in FetchRec /\ FetchWell(Over(r))
            BY <2>1, <3>2, OverIsWell
        <3> QED
            BY <1>1, <3>1, <3>3 DEF FetchWell
    <2> QED
        BY <2>2, <2>3
<1>3. fetched' \in [Fetches -> FetchRec]
    <2>1. DOMAIN fetched' = Fetches /\ fetched' = [f \in Fetches |-> fetched'[f]]
        BY <1>1
    <2> QED
        BY <1>2, <2>1
<1>4. /\ NothingKept \in [answer : AnswerRec \cup {NoData}, load : Fetches \cup {NoOne}]
      /\ NothingKept.answer = NoData /\ NothingKept.load = NoOne
    BY DEF NothingKept
<1>5. kept' \in [Places -> [answer : AnswerRec \cup {NoData}, load : Fetches \cup {NoOne}]]
    BY <1>1, <1>4
<1>6. \A p \in Places : KeptWell(p, kept[p])'
    BY <1>1, <1>4 DEF KeptWell
<1>7. ListingWell(listing)' /\ listing'.loading = FALSE
    BY <1>1, ClosedIs DEF ListingWell
<1> QED
    BY <1>1, <1>2, <1>3, <1>5, <1>6, <1>7 DEF PreviewInv

LEMMA PreviewStarts == ArchiveInit => PreviewInv
<1> SUFFICES ASSUME ArchiveInit PROVE PreviewInv
    OBVIOUS
<1>1. /\ version = 1 /\ compressed \in BOOLEAN /\ fetched = [f \in Fetches |-> NoFetch]
      /\ kept = [place \in Places |-> NothingKept] /\ listing = Closed /\ awaiting = {}
    BY DEF ArchiveInit
<1>2. NoFetch \in FetchRec /\ NoFetch.pc = "over" /\ NoFetch.source = "none" /\ NoFetch.answer = NoData
    BY NothingIsTyped DEF NoFetch
<1>3. FetchWell(NoFetch)
    BY <1>2 DEF FetchWell
<1>4. /\ NothingKept \in [answer : AnswerRec \cup {NoData}, load : Fetches \cup {NoOne}]
      /\ NothingKept.answer = NoData /\ NothingKept.load = NoOne
    BY DEF NothingKept
<1>5. \A p \in Places : KeptWell(p, kept[p])
    BY <1>1, <1>4 DEF KeptWell
<1>6. fetched \in [Fetches -> FetchRec] /\ \A f \in Fetches : FetchWell(fetched[f])
    BY <1>1, <1>2, <1>3
<1>7. kept \in [Places -> [answer : AnswerRec \cup {NoData}, load : Fetches \cup {NoOne}]]
    BY <1>1, <1>4
<1> QED
    BY <1>1, <1>5, <1>6, <1>7, ArchiveIs, ClosedIs DEF PreviewInv

LEMMA PreviewSteps == PreviewInv /\ [ArchiveNext]_archiveVars => PreviewInv'
<1> SUFFICES ASSUME PreviewInv, [ArchiveNext]_archiveVars PROVE PreviewInv'
    OBVIOUS
<1>1. CASE UNCHANGED archiveVars
    BY <1>1, PreviewStutters DEF archiveVars, PreviewInv
<1>2. CASE ObjectReplaced
    BY <1>2, NextVersion, PreviewStutters DEF ObjectReplaced
<1>3. ASSUME NEW f \in Fetches, RequestStep(f) PROVE PreviewInv'
    <2>1. Moves(f)
        BY <1>3, OpensMoves, IsNotThereMoves, ReadsEntryMoves, EndOfArchiveMoves, BytesRunOutMoves,
           BreaksMoves, AbandonedMoves, PendsMoves, RetriesMoves DEF RequestStep
    <2> QED
        BY <1>3, <2>1, MoveStep DEF RequestStep
<1>4. ASSUME NEW f \in Fetches, Settles(f) PROVE PreviewInv'
    BY <1>4, SettlesStep
<1>5. CASE DrawerOpens \/ PageNext \/ PagePrev \/ SetPageSize
    BY <1>5, RowsStep
<1>6. CASE DrawerCloses
    BY <1>6, DrawerClosesStep
<1>7. CASE ForceRefresh
    BY <1>7, ForceRefreshStep
<1>8. CASE ForgetsRows
    BY <1>8, ForgetsRowsStep
<1>9. CASE EntryStep
    BY <1>9, PreviewStutters DEF EntryStep, PreviewInv
<1>10. CASE TabReloads
    BY <1>10, TabReloadsStep
<1> QED
    BY <1>1, <1>2, <1>3, <1>4, <1>5, <1>6, <1>7, <1>8, <1>9, <1>10 DEF ArchiveNext, PreviewStep

\* The invariant of the preview holds.
THEOREM PreviewInvHolds == ArchiveSpec => []PreviewInv
<1> QED
    BY PreviewStarts, PreviewSteps, PTL DEF ArchiveSpec

\* Every page that is kept or shown is the part of one version of the archive its offset
\* and size name, and is shown where it belongs (tar-stream.ts:203-255,
\* tar-preview-stream.ts:79-105, PreviewArchive.tsx:148-175).
THEOREM PagesAreWhole == ArchiveSpec => []PagesAreSlices
<1>1. PreviewInv => PagesAreSlices
    <2> SUFFICES ASSUME PreviewInv PROVE PagesAreSlices
        OBVIOUS
    <2>1. listing.loading => \E w \in awaiting : ~IsSpare(w.fetch)
        <3>1. \A w \in awaiting : ~IsSpare(w.fetch)
            BY DEF PreviewInv, WaitsWell, Awaited, IsSpare
        <3> QED
            BY <3>1 DEF PreviewInv
    <2>2. listing.by \in {"effect", "refresh"} /\ ListingWell(listing)
        BY DEF PreviewInv, ListingWell, ListingRec
    <2>3. ShowsItsPlace
        BY <2>1, <2>2 DEF ShowsItsPlace, ListingWell
    <2>4. \A place \in Places : kept[place].answer # NoData => IsSlice(kept[place].answer)
        BY DEF PreviewInv, KeptWell
    <2> QED
        BY <2>2, <2>3, <2>4 DEF PagesAreSlices, ListingWell
<1> QED
    BY <1>1, PreviewInvHolds, PTL

\* The body of an archive is only downloaded for a browser that is still there and has
\* not got its page (storage-preview.ts:205-216, 277-283).
THEOREM NothingForNobody == ArchiveSpec => []NothingIsReadForNobody
<1>1. PreviewInv => NothingIsReadForNobody
    BY DEF PreviewInv, FetchWell, NothingIsReadForNobody, IsListing
<1> QED
    BY <1>1, PreviewInvHolds, PTL

-----------------------------------------------------------------------------
(* The dialog of an entry.                                                   *)

HeadRec == [pc : {"none", "opening", "parsing", "answered", "failed"}, name : Names \cup {NoOne},
            ver : {0} \cup Versions, at : Nat, got : Nat, found : BOOLEAN, truncated : BOOLEAN,
            source : {"none", "open", "closed"}, settled : BOOLEAN, current : BOOLEAN]

\* The first entry of a name is where the parser is, or it is not among those before.
Searched(r) ==
    LET a == Archive[r.ver] IN
    /\ r.ver \in Versions /\ r.at <= Len(a)
    /\ IF r.found
       THEN r.at \in 1..Len(a) /\ NameOf[a[r.at]] = r.name /\ \A p \in 1..(r.at - 1) : NameOf[a[p]] # r.name
       ELSE \A p \in 1..r.at : NameOf[a[p]] # r.name

\* The head of that entry, as TextIsOfTheEntry tells of it.
IsHead(ver, at, name, got, truncated) ==
    LET a == Archive[ver]
        e == a[at] IN
    /\ NameOf[e] = name
    /\ \A p \in 1..(at - 1) : NameOf[a[p]] # name
    /\ got = IF SizeOf[e] < HeadLimit THEN SizeOf[e] ELSE HeadLimit
    /\ truncated <=> SizeOf[e] > HeadLimit

HeadWell(r) ==
    /\ r \in HeadRec
    /\ r.settled => r.pc \in {"answered", "failed"}
    /\ r.pc = "opening" => r.at = 0 /\ r.got = 0 /\ ~r.found /\ ~r.truncated
    /\ r.pc = "parsing" =>
          /\ Searched(r) /\ ~r.truncated /\ r.got <= HeadLimit
          /\ r.got <= IF r.found THEN SizeOf[Archive[r.ver][r.at]] ELSE 0
    /\ r.pc = "answered" => IsHead(r.ver, r.at, r.name, r.got, r.truncated)
    /\ r.current => r.pc # "none"

DialogInv ==
    /\ version \in Versions
    /\ heads \in [Heads -> HeadRec]
    /\ opened \in Names \cup {NoOne}
    /\ \A h \in Heads : HeadWell(heads[h]) /\ (heads[h].current => heads[h].name = opened)
    /\ opened # NoOne => text.name = opened \/ \E h \in Heads : heads[h].current /\ heads[h].name = opened
    /\ text # NoText /\ text.ok => IsHead(text.ver, text.at, text.name, text.got, text.truncated)

LEMMA NoHeadIs == NoHead \in HeadRec /\ HeadWell(NoHead) /\ ~NoHead.current
<1>1. NoHead \in HeadRec /\ NoHead.pc = "none" /\ ~NoHead.settled /\ ~NoHead.current
    BY DEF NoHead, HeadRec
<1> QED
    BY <1>1 DEF HeadWell

LEMMA EntryIs ==
    ASSUME NEW v \in Versions, NEW p \in 1..Len(Archive[v])
    PROVE  Archive[v][p] \in Members /\ SizeOf[Archive[v][p]] \in Nat /\ NameOf[Archive[v][p]] \in Names
<1>1. Archive[v] \in Seq(Members) /\ Len(Archive[v]) \in Nat
    BY ArchiveIs
<1>2. Archive[v][p] \in Members
    BY <1>1, ElementOfSeq
<1> QED
    BY <1>2, ArchiveAssumption

\* A head that is no longer current stays well.
LEMMA ForgottenIsWell ==
    ASSUME NEW r \in HeadRec, HeadWell(r)
    PROVE  LET s == [r EXCEPT !.current = FALSE] IN s \in HeadRec /\ HeadWell(s) /\ ~s.current
<1> DEFINE s == [r EXCEPT !.current = FALSE]
<1>1. /\ s \in HeadRec /\ s.pc = r.pc /\ s.name = r.name /\ s.ver = r.ver /\ s.at = r.at /\ s.got = r.got
      /\ s.found = r.found /\ s.truncated = r.truncated /\ s.settled = r.settled /\ s.current = FALSE
    BY DEF HeadRec
<1> HIDE DEF s
<1>2. r.pc = "parsing" => Searched(s)
    BY <1>1, Zenon DEF HeadWell, Searched
<1>3. r.pc = "answered" => IsHead(s.ver, s.at, s.name, s.got, s.truncated)
    BY <1>1 DEF HeadWell
<1>4. s.got <= (IF s.found THEN SizeOf[Archive[s.ver][s.at]] ELSE 0)
        <=> r.got <= (IF r.found THEN SizeOf[Archive[r.ver][r.at]] ELSE 0)
    BY <1>1
<1>5. HeadWell(s)
    BY <1>1, <1>2, <1>3, <1>4 DEF HeadWell
<1> QED
    BY <1>1, <1>5 DEF s

\* One head moves on and stays that of its entry.
LEMMA HeadMoves ==
    ASSUME DialogInv, NEW h \in Heads, NEW s \in HeadRec, HeadBecomes(h, s), HeadWell(s),
           s.name = heads[h].name, s.current = heads[h].current, UNCHANGED <<version, opened, text>>
    PROVE  DialogInv'
<1>1. heads' = [heads EXCEPT ![h] = s] /\ heads \in [Heads -> HeadRec]
    BY DEF HeadBecomes, DialogInv
<1>2. heads' \in [Heads -> HeadRec] /\ \A g \in Heads : heads'[g] = IF g = h THEN s ELSE heads[g]
    BY <1>1
<1>3. \A g \in Heads : heads'[g].name = heads[g].name /\ heads'[g].current = heads[g].current
    BY <1>2
<1>4. ASSUME NEW g \in Heads
      PROVE  HeadWell(heads'[g]) /\ (heads'[g].current => heads'[g].name = opened)
    <2>1. HeadWell(heads[g]) /\ (heads[g].current => heads[g].name = opened)
        BY DEF DialogInv
    <2> QED
        BY <1>2, <1>3, <2>1
<1>5. opened # NoOne => text.name = opened \/ \E g \in Heads : heads'[g].current /\ heads'[g].name = opened
    BY <1>3 DEF DialogInv
<1> QED
    BY <1>2, <1>4, <1>5 DEF DialogInv

LEMMA HeadOpensStep ==
    ASSUME DialogInv, NEW h \in Heads, HeadOpens(h), UNCHANGED version PROVE DialogInv'
<1> DEFINE r == heads[h]
           s == [r EXCEPT !.pc = "parsing", !.ver = version, !.source = "open"]
           t == [r EXCEPT !.pc = "failed", !.settled = TRUE]
<1>1. r \in HeadRec /\ HeadWell(r) /\ r.pc = "opening" /\ version \in Versions
    BY DEF DialogInv, HeadOpens
<1>2. (HeadBecomes(h, s) \/ HeadBecomes(h, t)) /\ UNCHANGED <<opened, text>>
    BY DEF HeadOpens
<1>3. /\ s \in HeadRec /\ s.pc = "parsing" /\ s.ver = version /\ s.at = r.at /\ s.got = r.got /\ s.found = r.found
      /\ s.truncated = r.truncated /\ s.settled = r.settled /\ s.name = r.name /\ s.current = r.current
    BY <1>1 DEF HeadRec
<1>4. t \in HeadRec /\ t.pc = "failed" /\ t.name = r.name /\ t.current = r.current
    BY <1>1 DEF HeadRec
<1> HIDE DEF s, t
<1>5. s.at = 0 /\ s.got = 0 /\ ~s.found /\ ~s.truncated /\ ~s.settled /\ s.ver \in Versions
    BY <1>1, <1>3 DEF HeadWell
<1>6. Searched(s)
    <2>1. Len(Archive[s.ver]) \in Nat
        BY <1>5, ArchiveIs
    <2> QED
        BY <1>5, <2>1 DEF Searched
<1>7. HeadWell(s)
    BY <1>3, <1>5, <1>6, ArchiveAssumption DEF HeadWell
<1>8. HeadWell(t)
    BY <1>4 DEF HeadWell
<1> QED
    BY <1>2, <1>3, <1>4, <1>7, <1>8, HeadMoves

LEMMA ReadingIs ==
    ASSUME DialogInv, NEW h \in Heads, Reading(h)
    PROVE  /\ heads[h] \in HeadRec /\ HeadWell(heads[h]) /\ Searched(heads[h]) /\ heads[h].pc = "parsing"
           /\ ~heads[h].settled /\ ~heads[h].truncated /\ heads[h].got <= HeadLimit
           /\ heads[h].got \in Nat /\ heads[h].at \in Nat /\ heads[h].ver \in Versions
           /\ heads[h].found => Body(h) \in Nat /\ heads[h].got <= Body(h)
           /\ ~heads[h].found => heads[h].got = 0
<1>1. heads[h] \in HeadRec /\ HeadWell(heads[h]) /\ heads[h].pc = "parsing"
    BY DEF DialogInv, Reading
<1>2. Searched(heads[h]) /\ ~heads[h].settled /\ ~heads[h].truncated /\ heads[h].got <= HeadLimit
    BY <1>1 DEF HeadWell
<1>3. heads[h].got \in Nat /\ heads[h].at \in Nat /\ heads[h].ver \in Versions
    BY <1>1, <1>2 DEF HeadRec, Searched
<1>4. heads[h].found => Body(h) \in Nat /\ heads[h].got <= Body(h)
    BY <1>1, <1>2, <1>3, EntryIs DEF HeadWell, Searched, Body
<1>5. ~heads[h].found => heads[h].got = 0
    BY <1>1, <1>3 DEF HeadWell
<1> QED
    BY <1>1, <1>2, <1>3, <1>4, <1>5

LEMMA HeadParsesStep ==
    ASSUME DialogInv, NEW h \in Heads, HeadParses(h), UNCHANGED version PROVE DialogInv'
<1> DEFINE r == heads[h]
           n == r.at + 1
           hit == (NameOf[Archive[r.ver][n]] = r.name)
           s == [r EXCEPT !.at = n, !.found = hit]
<1>1. Reading(h) /\ ~r.found /\ r.at < Len(Archive[r.ver])
    BY DEF HeadParses
<1>2. /\ r \in HeadRec /\ HeadWell(r) /\ Searched(r) /\ r.pc = "parsing"
      /\ ~r.settled /\ ~r.truncated /\ r.got <= HeadLimit
      /\ r.got \in Nat /\ r.at \in Nat /\ r.ver \in Versions /\ r.got = 0
    BY <1>1, ReadingIs
<1>3. HeadBecomes(h, s) /\ UNCHANGED <<opened, text>>
    BY DEF HeadParses
<1>4. Len(Archive[r.ver]) \in Nat
    BY <1>2, ArchiveIs
<1>5. n \in Nat /\ n \in 1..Len(Archive[r.ver]) /\ hit \in BOOLEAN /\ n = r.at + 1
    BY <1>1, <1>2, <1>4
<1>6. hit <=> NameOf[Archive[r.ver][n]] = r.name
    OBVIOUS
<1> HIDE DEF n, hit
<1>7. /\ s \in HeadRec /\ s.pc = "parsing" /\ s.ver = r.ver /\ s.at = n /\ s.got = r.got /\ s.found = hit
      /\ s.truncated = r.truncated /\ s.settled = r.settled /\ s.name = r.name /\ s.current = r.current
    BY <1>2, <1>5 DEF HeadRec
<1> HIDE DEF r, s
<1>8. \A p \in 1..(n - 1) : NameOf[Archive[r.ver][p]] # r.name
    <2>1. n - 1 = r.at
        BY <1>2, <1>5
    <2>2. ~r.found
        BY <1>1
    <2> QED
        BY <1>2, <2>1, <2>2 DEF Searched
<1>9. Searched(s)
    <2>1. CASE hit
        BY <1>2, <1>4, <1>5, <1>6, <1>7, <1>8, <2>1 DEF Searched
    <2>2. CASE ~hit
        <3>1. \A p \in 1..n : NameOf[Archive[r.ver][p]] # r.name
            BY <1>5, <1>6, <1>8, <2>2
        <3> QED
            BY <1>2, <1>4, <1>5, <1>7, <2>2, <3>1 DEF Searched
    <2> QED
        BY <2>1, <2>2
<1>10. s.got <= IF s.found THEN SizeOf[Archive[s.ver][s.at]] ELSE 0
    <2>1. SizeOf[Archive[r.ver][n]] \in Nat
        BY <1>2, <1>5, EntryIs
    <2> QED
        BY <1>2, <1>7, <2>1
<1>11. HeadWell(s)
    BY <1>2, <1>7, <1>9, <1>10 DEF HeadWell
<1> QED
    BY <1>3, <1>7, <1>11, HeadMoves DEF r

LEMMA TakenIs ==
    ASSUME NEW r \in HeadRec
    PROVE  LET s == Taken(r) IN
           /\ s \in HeadRec /\ s.pc = "answered" /\ s.name = r.name /\ s.ver = r.ver /\ s.at = r.at
           /\ s.got = r.got /\ s.truncated = r.truncated /\ s.current = r.current
    BY DEF Taken, HeadRec

LEMMA HeadTakesStep ==
    ASSUME DialogInv, NEW h \in Heads, NEW n \in 1..2, HeadTakes(h, n), UNCHANGED version PROVE DialogInv'
<1> DEFINE r == heads[h]
           cut == [r EXCEPT !.got = HeadLimit, !.truncated = TRUE]
           more == r.got + n
           s == [r EXCEPT !.got = more]
<1>1. Reading(h) /\ r.found /\ r.got + n <= Body(h)
    BY DEF HeadTakes
<1>2. /\ r \in HeadRec /\ HeadWell(r) /\ Searched(r) /\ r.pc = "parsing"
      /\ ~r.settled /\ ~r.truncated /\ r.got <= HeadLimit
      /\ r.got \in Nat /\ r.at \in Nat /\ r.ver \in Versions /\ Body(h) \in Nat
    BY <1>1, ReadingIs
<1>3. UNCHANGED <<opened, text>>
    BY DEF HeadTakes
<1>4. Body(h) = SizeOf[Archive[r.ver][r.at]]
    BY DEF Body
<1>5. HeadLimit \in Nat
    BY ArchiveAssumption
<1>6. CASE (r.got >= HeadLimit \/ r.got + n > HeadLimit) /\ HeadBecomes(h, Taken(cut))
    <2>1. HeadLimit < Body(h)
        BY <1>1, <1>2, <1>5, <1>6
    <2>2. /\ cut \in HeadRec /\ cut.name = r.name /\ cut.ver = r.ver /\ cut.at = r.at /\ cut.got = HeadLimit
          /\ cut.truncated = TRUE /\ cut.current = r.current
        BY <1>2, <1>5 DEF HeadRec
    <2> HIDE DEF cut
    <2> DEFINE t == Taken(cut)
    <2>3. /\ t \in HeadRec /\ t.pc = "answered" /\ t.name = r.name /\ t.ver = r.ver /\ t.at = r.at
          /\ t.got = HeadLimit /\ t.truncated = TRUE /\ t.current = r.current
        BY <2>2, TakenIs
    <2>4. HeadBecomes(h, t)
        BY <1>6
    <2> HIDE DEF t, r
    <2>5. IsHead(t.ver, t.at, t.name, t.got, t.truncated)
        <3>1. NameOf[Archive[r.ver][r.at]] = r.name /\ \A p \in 1..(r.at - 1) : NameOf[Archive[r.ver][p]] # r.name
            BY <1>1, <1>2 DEF Searched
        <3>2. SizeOf[Archive[r.ver][r.at]] \in Nat /\ HeadLimit < SizeOf[Archive[r.ver][r.at]]
            BY <1>2, <1>4, <2>1
        <3> QED
            BY <1>5, <2>3, <3>1, <3>2 DEF IsHead
    <2>6. HeadWell(t)
        BY <2>3, <2>5 DEF HeadWell
    <2> QED
        BY <1>3, <2>3, <2>4, <2>6, HeadMoves DEF r
<1>7. CASE r.got + n <= HeadLimit /\ HeadBecomes(h, [r EXCEPT !.got = @ + n])
    <2>1. HeadBecomes(h, s)
        BY <1>7
    <2>2. more \in Nat /\ more <= HeadLimit /\ more <= Body(h)
        BY <1>1, <1>2, <1>7
    <2> HIDE DEF more
    <2>3. /\ s \in HeadRec /\ s.pc = "parsing" /\ s.name = r.name /\ s.ver = r.ver /\ s.at = r.at
          /\ s.got = more /\ s.found = r.found /\ s.truncated = r.truncated /\ s.settled = r.settled
          /\ s.current = r.current
        BY <1>2, <2>2 DEF HeadRec
    <2> HIDE DEF s, r
    <2>4. Searched(s)
        BY <1>2, <2>3, Zenon DEF Searched
    <2>5. HeadWell(s)
        BY <1>1, <1>2, <1>4, <2>2, <2>3, <2>4 DEF HeadWell
    <2> QED
        BY <1>3, <2>1, <2>3, <2>5, HeadMoves DEF r
<1> QED
    BY <1>6, <1>7 DEF HeadTakes

LEMMA HeadEndsStep ==
    ASSUME DialogInv, NEW h \in Heads, HeadEnds(h), UNCHANGED version PROVE DialogInv'
<1> DEFINE r == heads[h]
           t == Taken(r)
<1>1. Reading(h) /\ r.found /\ r.got = Body(h) /\ HeadBecomes(h, t) /\ UNCHANGED <<opened, text>>
    BY DEF HeadEnds
<1>2. /\ r \in HeadRec /\ Searched(r) /\ ~r.truncated /\ r.got <= HeadLimit /\ r.got \in Nat
    BY <1>1, ReadingIs
<1>3. /\ t \in HeadRec /\ t.pc = "answered" /\ t.name = r.name /\ t.ver = r.ver /\ t.at = r.at
      /\ t.got = r.got /\ t.truncated = r.truncated /\ t.current = r.current
    <2> HIDE DEF r
    <2> QED
        BY <1>2, TakenIs
<1>4. r.got = SizeOf[Archive[r.ver][r.at]] /\ HeadLimit \in Nat
    BY <1>1, ArchiveAssumption DEF Body
<1> HIDE DEF r, t
<1>5. IsHead(t.ver, t.at, t.name, t.got, t.truncated)
    <2>1. NameOf[Archive[r.ver][r.at]] = r.name /\ \A p \in 1..(r.at - 1) : NameOf[Archive[r.ver][p]] # r.name
        BY <1>1, <1>2 DEF Searched
    <2> QED
        BY <1>2, <1>3, <1>4, <2>1 DEF IsHead
<1>6. HeadWell(t)
    BY <1>3, <1>5 DEF HeadWell
<1> QED
    BY <1>1, <1>3, <1>6, HeadMoves DEF r

LEMMA PipedStep ==
    ASSUME DialogInv, NEW h \in Heads, Piped(h), UNCHANGED version PROVE DialogInv'
<1> DEFINE r == heads[h]
           s == [r EXCEPT !.source = "closed"]
           t == [r EXCEPT !.source = "closed", !.pc = "failed", !.settled = TRUE]
<1>1. Reading(h) /\ (HeadBecomes(h, s) \/ HeadBecomes(h, t)) /\ UNCHANGED <<opened, text>>
    BY DEF Piped
<1>2. r \in HeadRec /\ HeadWell(r) /\ Searched(r) /\ r.pc = "parsing"
    BY <1>1, ReadingIs
<1>3. /\ s \in HeadRec /\ s.pc = "parsing" /\ s.name = r.name /\ s.ver = r.ver /\ s.at = r.at
      /\ s.got = r.got /\ s.found = r.found /\ s.truncated = r.truncated /\ s.settled = r.settled
      /\ s.current = r.current
    BY <1>2 DEF HeadRec
<1>4. t \in HeadRec /\ t.pc = "failed" /\ t.name = r.name /\ t.current = r.current
    BY <1>2 DEF HeadRec
<1> HIDE DEF r, s, t
<1>5. Searched(s)
    BY <1>2, <1>3, Zenon DEF Searched
<1>6. HeadWell(s)
    BY <1>2, <1>3, <1>5 DEF HeadWell
<1>7. HeadWell(t)
    BY <1>4 DEF HeadWell
<1> QED
    BY <1>1, <1>3, <1>4, <1>6, <1>7, HeadMoves DEF r

LEMMA HeadAnsweredStep ==
    ASSUME DialogInv, NEW h \in Heads, HeadAnswered(h), UNCHANGED version PROVE DialogInv'
<1> DEFINE r == heads[h]
           shown == [name |-> r.name, ok |-> r.pc = "answered", ver |-> r.ver,
                     at |-> r.at, got |-> r.got, truncated |-> r.truncated]
<1>1. /\ r.settled /\ opened' = opened
      /\ text' = IF ~r.current THEN text ELSE shown
      /\ heads' = [heads EXCEPT ![h] = NoHead]
    BY DEF HeadAnswered, HeadBecomes
<1>2. heads \in [Heads -> HeadRec] /\ NoHead \in HeadRec
    BY NoHeadIs DEF DialogInv
<1>3. heads' \in [Heads -> HeadRec] /\ \A g \in Heads : heads'[g] = IF g = h THEN NoHead ELSE heads[g]
    BY <1>1, <1>2
<1>4. ASSUME NEW g \in Heads
      PROVE  HeadWell(heads'[g]) /\ (heads'[g].current => heads'[g].name = opened')
    BY <1>1, <1>3, NoHeadIs DEF DialogInv
<1>5. r \in HeadRec /\ HeadWell(r) /\ (r.current => r.name = opened)
    BY DEF DialogInv
<1>6. opened' # NoOne => text'.name = opened' \/ \E g \in Heads : heads'[g].current /\ heads'[g].name = opened'
    <2>1. CASE r.current
        <3>1. text'.name = r.name
            BY <1>1, <2>1
        <3> QED
            BY <1>1, <1>5, <2>1, <3>1
    <2>2. CASE ~r.current
        <3>1. text' = text
            BY <1>1, <2>2
        <3>2. \A g \in Heads : heads[g].current => heads'[g] = heads[g]
            BY <1>3, <2>2
        <3> QED
            BY <1>1, <3>1, <3>2 DEF DialogInv
    <2> QED
        BY <2>1, <2>2
<1>7. text' # NoText /\ text'.ok => IsHead(text'.ver, text'.at, text'.name, text'.got, text'.truncated)
    <2>1. CASE r.current
        <3>1. /\ text'.name = r.name /\ text'.ok = (r.pc = "answered") /\ text'.ver = r.ver /\ text'.at = r.at
              /\ text'.got = r.got /\ text'.truncated = r.truncated
            BY <1>1, <2>1
        <3>2. r.pc = "answered" => IsHead(r.ver, r.at, r.name, r.got, r.truncated)
            BY <1>5 DEF HeadWell
        <3> HIDE DEF r
        <3> QED
            BY <3>1, <3>2
    <2>2. CASE ~r.current
        BY <1>1, <2>2 DEF DialogInv
    <2> QED
        BY <2>1, <2>2
<1> QED
    BY <1>1, <1>3, <1>4, <1>6, <1>7 DEF DialogInv

LEMMA OpenEntryStep ==
    ASSUME DialogInv, NEW name \in Names, OpenEntry(name), UNCHANGED version PROVE DialogInv'
<1> DEFINE new == [NoHead EXCEPT !.pc = "opening", !.name = name, !.current = TRUE]
<1>1. PICK h \in Heads :
          heads' = [g \in Heads |-> IF g = h THEN new ELSE [heads[g] EXCEPT !.current = FALSE]]
    BY DEF OpenEntry
<1>2. opened' = name /\ text' = text
    BY DEF OpenEntry
<1>3. /\ new \in HeadRec /\ new.pc = "opening" /\ new.name = name /\ new.current
      /\ new.at = 0 /\ new.got = 0 /\ ~new.found /\ ~new.truncated /\ ~new.settled
    BY DEF NoHead, HeadRec
<1> HIDE DEF new
<1>4. HeadWell(new)
    BY <1>3 DEF HeadWell
<1>5. ASSUME NEW g \in Heads
      PROVE  /\ heads'[g] \in HeadRec /\ HeadWell(heads'[g])
             /\ (heads'[g].current => heads'[g].name = name)
    <2>1. heads[g] \in HeadRec /\ HeadWell(heads[g])
        BY DEF DialogInv
    <2> QED
        BY <1>1, <1>3, <1>4, <2>1, ForgottenIsWell
<1>6. heads' \in [Heads -> HeadRec]
    <2>1. heads' = [g \in Heads |-> heads'[g]]
        BY <1>1
    <2> QED
        BY <1>5, <2>1
<1>7. heads'[h] = new
    BY <1>1
<1>8. \E g \in Heads : heads'[g].current /\ heads'[g].name = opened'
    BY <1>2, <1>3, <1>7
<1> QED
    BY <1>2, <1>5, <1>6, <1>8 DEF DialogInv

\* The dialog is closed: no head is that of an entry any more.
LEMMA ClosedDialogStep ==
    ASSUME DialogInv, opened' = NoOne, text' = NoText, UNCHANGED version,
           heads' = [h \in Heads |-> [heads[h] EXCEPT !.current = FALSE]]
    PROVE  DialogInv'
<1>1. ASSUME NEW g \in Heads
      PROVE  heads'[g] \in HeadRec /\ HeadWell(heads'[g]) /\ ~heads'[g].current
    <2>1. heads[g] \in HeadRec /\ HeadWell(heads[g])
        BY DEF DialogInv
    <2>2. heads'[g] = [heads[g] EXCEPT !.current = FALSE]
        OBVIOUS
    <2> QED
        BY <2>1, <2>2, ForgottenIsWell
<1>2. heads' \in [Heads -> HeadRec]
    <2>1. heads' = [g \in Heads |-> heads'[g]]
        OBVIOUS
    <2> QED
        BY <1>1, <2>1
<1> QED
    BY <1>1, <1>2 DEF DialogInv

LEMMA DialogStutters ==
    ASSUME DialogInv, version' \in Versions, UNCHANGED dialogVars PROVE DialogInv'
<1>1. opened' = opened /\ heads' = heads /\ text' = text
    BY DEF dialogVars
<1> QED
    BY <1>1 DEF DialogInv

LEMMA DialogStarts == ArchiveInit => DialogInv
<1> SUFFICES ASSUME ArchiveInit PROVE DialogInv
    OBVIOUS
<1>1. version = 1 /\ opened = NoOne /\ heads = [h \in Heads |-> NoHead] /\ text = NoText
    BY DEF ArchiveInit
<1>2. heads \in [Heads -> HeadRec] /\ \A h \in Heads : HeadWell(heads[h]) /\ ~heads[h].current
    BY <1>1, NoHeadIs
<1> QED
    BY <1>1, <1>2, ArchiveIs DEF DialogInv

LEMMA DialogSteps == PreviewInv /\ DialogInv /\ [ArchiveNext]_archiveVars => DialogInv'
<1> SUFFICES ASSUME PreviewInv, DialogInv, [ArchiveNext]_archiveVars PROVE DialogInv'
    OBVIOUS
<1>1. CASE UNCHANGED archiveVars
    BY <1>1, DialogStutters DEF archiveVars, DialogInv
<1>2. CASE ObjectReplaced
    BY <1>2, NextVersion, DialogStutters DEF ObjectReplaced
<1>3. CASE PreviewStep
    BY <1>3, DialogStutters DEF PreviewStep, RequestStep, Settles, DrawerOpens, DrawerCloses, PageNext, PagePrev,
       SetPageSize, ForceRefresh, ForgetsRows, PageElse, DialogInv
<1>4. CASE EntryStep
    <2>1. UNCHANGED version
        BY <1>4 DEF EntryStep
    <2>2. ASSUME NEW name \in Names, OpenEntry(name) PROVE DialogInv'
        BY <2>1, <2>2, OpenEntryStep
    <2>3. CASE CloseEntry
        BY <2>1, <2>3, ClosedDialogStep DEF CloseEntry
    <2>4. ASSUME NEW h \in Heads, HeadStep(h) PROVE DialogInv'
        BY <2>1, <2>4, HeadOpensStep, HeadParsesStep, HeadEndsStep, PipedStep, HeadAnsweredStep, HeadTakesStep
           DEF HeadStep
    <2> QED
        BY <1>4, <2>2, <2>3, <2>4 DEF EntryStep
<1>5. CASE TabReloads
    BY <1>5, ClosedDialogStep DEF TabReloads
<1> QED
    BY <1>1, <1>2, <1>3, <1>4, <1>5 DEF ArchiveNext

\* The dialog shows the head of the first entry of that name, cut at the limit and
\* marked so exactly if there is more, and never waits when the head of its entry was
\* answered (tar-stream.ts:111-165, useSniffedText.ts:24-44).
THEOREM TextIsRight == ArchiveSpec => []TextIsOfTheEntry
<1>1. PreviewInv /\ DialogInv => TextIsOfTheEntry
    BY DEF DialogInv, IsHead, TextIsOfTheEntry
<1> QED
    BY <1>1, PreviewStarts, PreviewSteps, DialogStarts, DialogSteps, PTL DEF ArchiveSpec

-----------------------------------------------------------------------------
(* Browsing a storage: the invariant.                                        *)

AllKeys == ListKeys \cup {IndexKey}

PageRec == [ver : Nat \ {0}, key : AllKeys, more : {"none", "next", "stuck"}]

EntryRec == [value : PageRec \cup {NoPage}, stale : BOOLEAN, ask : ListAsks \cup {Nowhere}]

AskRec == [pc : {"free", "asked", "answered", "failed"}, key : AllKeys, answer : PageRec \cup {NoPage}]

BrowserRec == [dir : Dirs, typed : Words \cup {Nowhere}, words : Words, recursive : BOOLEAN,
               at : 0..MaxCursor, visited : 1..(MaxCursor + 1), page : PageRec \cup {NoPage},
               loading : BOOLEAN, error : BOOLEAN, revalidating : BOOLEAN]

IndexRec == [list : PageRec \cup {NoPage}, loaded : BOOLEAN, refreshing : BOOLEAN,
             revalidating : BOOLEAN, error : BOOLEAN]

IndexLoadRec == [initial : PageRec \cup {NoPage}, first : ListAsks \cup {Nowhere},
                 fresh : ListAsks \cup {Nowhere}, favourites : {"none", "asked", "have", "over"},
                 revalidated : BOOLEAN]

\* A list of a place, of what the api has answered so far.
IsPage(leaf, key) == leaf # NoPage => leaf \in PageRec /\ leaf.key = key /\ leaf.ver <= listed

\* What comes back is not older than what is there.
IsNewer(a, leaf) == asks[a].pc = "answered" /\ leaf # NoPage => asks[a].answer.ver >= leaf.ver

CacheTypes ==
    /\ listed \in Nat \ {0}
    /\ entries \in [AllKeys -> EntryRec]
    /\ asks \in [ListAsks -> AskRec]

EntryWell(k, entry) ==
    /\ IsPage(entry.value, k)
    /\ entry.stale => entry.value # NoPage
    /\ entry.ask # Nowhere => IsUnderWay(entry.ask, k) /\ IsNewer(entry.ask, entry.value)

AskWell(r) ==
    IF r.pc = "answered" THEN r.answer # NoPage /\ IsPage(r.answer, r.key) ELSE r.answer = NoPage

CachesInv ==
    /\ CacheTypes
    /\ \A k \in AllKeys : EntryWell(k, entries[k])
    /\ \A a \in ListAsks : AskWell(asks[a])

BrowserInv ==
    /\ browser \in BrowserRec /\ listWaits \subseteq ListAsks
    /\ IsPage(browser.page, KeyOf(browser))
    /\ \A a \in listWaits : IsUnderWay(a, KeyOf(browser)) /\ IsNewer(a, browser.page)
    /\ \A a, b \in listWaits : a = b
    /\ browser.loading \/ browser.revalidating => listWaits # {}

IndexInv ==
    /\ index \in IndexRec /\ indexLoad \in IndexLoadRec
    /\ IsPage(index.list, IndexKey) /\ IsPage(indexLoad.initial, IndexKey)
    /\ indexLoad.first # Nowhere =>
          /\ IsUnderWay(indexLoad.first, IndexKey)
          /\ IsNewer(indexLoad.first, index.list)
          /\ indexLoad.initial = NoPage
    /\ indexLoad.fresh # Nowhere =>
          /\ IsUnderWay(indexLoad.fresh, IndexKey)
          /\ IsNewer(indexLoad.fresh, index.list) /\ IsNewer(indexLoad.fresh, indexLoad.initial)
          /\ indexLoad.first = Nowhere /\ ~indexLoad.revalidated
    /\ index.revalidating => indexLoad.fresh # Nowhere
    /\ indexLoad.initial # NoPage /\ index.list # NoPage /\ ~indexLoad.revalidated
          => indexLoad.initial.ver >= index.list.ver
    /\ indexLoad.favourites = "none" =>
          /\ index.list = NoPage /\ ~index.refreshing /\ ~index.revalidating
          /\ indexLoad.first = Nowhere /\ indexLoad.fresh = Nowhere
    /\ indexLoad.favourites = "asked" => indexLoad.initial # NoPage \/ indexLoad.first # Nowhere
    /\ indexLoad.favourites = "have" => indexLoad.first # Nowhere
    /\ indexLoad.favourites = "over" => index.loaded /\ ~index.refreshing

-----------------------------------------------------------------------------
(* Browsing a storage: keys and what is empty.                               *)

LEMMA KeysAre ==
    /\ IndexKey \notin ListKeys
    /\ \A b \in BrowserRec : KeyOf(b) \in ListKeys
    /\ NoPage \notin PageRec
    /\ NotCached \in EntryRec /\ NotCached.value = NoPage /\ ~NotCached.stale /\ NotCached.ask = Nowhere
    /\ NoAsk \in AskRec /\ NoAsk.pc = "free" /\ NoAsk.answer = NoPage
    /\ Nowhere \notin ListAsks
<1>1. IndexKey \notin ListKeys
    <2>1. IndexKey.words = Nowhere
        BY DEF IndexKey
    <2>2. Nowhere \notin Words
        BY BrowsingAssumption
    <2>3. \A k \in ListKeys : k.words \in Words
        BY DEF ListKeys
    <2> QED
        BY <2>1, <2>2, <2>3
<1>2. \A b \in BrowserRec : KeyOf(b) \in ListKeys
    BY DEF BrowserRec, KeyOf, ListKeys
<1>3. NoPage \notin PageRec
    <2>1. NoPage.ver = 0 /\ \A p \in PageRec : p.ver # 0
        BY DEF NoPage, PageRec
    <2> QED
        BY <2>1
<1>4. NotCached \in EntryRec /\ NotCached.value = NoPage /\ ~NotCached.stale /\ NotCached.ask = Nowhere
    BY DEF NotCached, EntryRec
<1>5. NoAsk \in AskRec /\ NoAsk.pc = "free" /\ NoAsk.answer = NoPage
    BY DEF NoAsk, AskRec, AllKeys
<1> QED
    BY <1>1, <1>2, <1>3, <1>4, <1>5, BrowsingAssumption

\* Entries that are kept or forgotten.
IsKept(rest) ==
    rest \in [AllKeys -> EntryRec] /\ \A k \in AllKeys : rest[k] = entries[k] \/ rest[k] = NotCached

LEMMA EntriesAreKept == ASSUME CachesInv PROVE IsKept(entries)
    BY DEF CachesInv, CacheTypes, IsKept

LEMMA ForgettingKeeps ==
    ASSUME CachesInv, NEW keys
    PROVE  IsKept(Forgetting(keys)) /\ \A k \in AllKeys : k \in keys => Forgetting(keys)[k] = NotCached
<1>1. entries \in [AllKeys -> EntryRec] /\ NotCached \in EntryRec
    BY KeysAre DEF CachesInv, CacheTypes
<1> QED
    BY <1>1 DEF IsKept, Forgetting

LEMMA KeptIsWell ==
    ASSUME CachesInv, NEW rest, IsKept(rest), NEW k \in AllKeys
    PROVE  rest[k] \in EntryRec /\ EntryWell(k, rest[k])
<1>1. EntryWell(k, NotCached)
    BY KeysAre DEF EntryWell, IsPage
<1> QED
    BY <1>1 DEF CachesInv, IsKept

\* Requests under way stay what they are, or are answered with what is listed now.
Stays(b) == asks'[b] = asks[b]

LEMMA KeptAsk ==
    ASSUME NEW b, Stays(b), listed' = listed, NEW leaf, NEW key
    PROVE  /\ IsUnderWay(b, key) => IsUnderWay(b, key)'
           /\ IsNewer(b, leaf) => (asks'[b].pc = "answered" /\ leaf # NoPage => asks'[b].answer.ver >= leaf.ver)
    BY DEF Stays, IsUnderWay, IsNewer

\* What get() waits for: a request of the key, of which those there were keep theirs.
LEMMA AwaitsIs ==
    ASSUME CachesInv, NEW rest, IsKept(rest), NEW key \in AllKeys, NEW a \in ListAsks,
           Awaits(rest, key, a), listed' = listed
    PROVE  /\ CachesInv'
           /\ IsUnderWay(a, key)'
           /\ asks'[a].pc = "answered" /\ rest[key].value # NoPage => asks'[a].answer.ver >= rest[key].value.ver
           /\ \A b \in ListAsks : asks[b].pc # "free" => Stays(b)
           /\ rest[key].ask = Nowhere => asks'[a].pc = "asked"
           /\ \A k \in AllKeys : entries'[k].value = rest[k].value
<1>1. rest \in [AllKeys -> EntryRec] /\ asks \in [ListAsks -> AskRec] /\ listed \in Nat \ {0}
    BY DEF IsKept, CachesInv, CacheTypes
<1>2. a # Nowhere
    BY KeysAre
<1>3. CASE rest[key].ask = a /\ entries' = rest /\ UNCHANGED asks
    <2>1. ASSUME NEW k \in AllKeys PROVE EntryWell(k, entries[k])'
        <3>1. EntryWell(k, rest[k])
            BY KeptIsWell
        <3> QED
            BY <1>3, <3>1 DEF EntryWell, IsPage, IsNewer, IsUnderWay
    <2>2. \A b \in ListAsks : AskWell(asks[b])'
        BY <1>3 DEF CachesInv, AskWell, IsPage
    <2>3. CacheTypes'
        BY <1>1, <1>3 DEF CacheTypes
    <2>4. IsUnderWay(a, key) /\ IsNewer(a, rest[key].value)
        BY <1>2, <1>3, KeptIsWell DEF EntryWell
    <2> QED
        BY <1>2, <1>3, <2>1, <2>2, <2>3, <2>4 DEF CachesInv, Stays, IsUnderWay, IsNewer
<1>4. CASE /\ rest[key].ask = Nowhere /\ asks[a].pc = "free"
           /\ entries' = [rest EXCEPT ![key].ask = a]
           /\ asks' = [asks EXCEPT ![a] = [pc |-> "asked", key |-> key, answer |-> NoPage]]
    <2> DEFINE entry == [rest[key] EXCEPT !.ask = a]
               new == [pc |-> "asked", key |-> key, answer |-> NoPage]
    <2>1. entries' = [rest EXCEPT ![key] = entry] /\ asks' = [asks EXCEPT ![a] = new]
        BY <1>1, <1>4
    <2>2. rest[key] \in EntryRec
        BY <1>1
    <2>3. /\ entry \in EntryRec /\ entry.value = rest[key].value /\ entry.stale = rest[key].stale /\ entry.ask = a
          /\ new \in AskRec /\ new.pc = "asked" /\ new.key = key /\ new.answer = NoPage
        BY <2>2 DEF EntryRec, AskRec
    <2> HIDE DEF entry, new
    <2>4. /\ entries' \in [AllKeys -> EntryRec]
          /\ \A k \in AllKeys : entries'[k] = IF k = key THEN entry ELSE rest[k]
          /\ asks' \in [ListAsks -> AskRec]
          /\ \A b \in ListAsks : asks'[b] = IF b = a THEN new ELSE asks[b]
        BY <1>1, <2>1, <2>3
    <2>5. ASSUME NEW k \in AllKeys PROVE EntryWell(k, entries[k])'
        <3>1. EntryWell(k, rest[k]) /\ rest[k] \in EntryRec
            BY KeptIsWell
        <3>2. CASE k = key
            BY <1>2, <2>3, <2>4, <3>1, <3>2 DEF EntryWell, IsPage, IsNewer, IsUnderWay
        <3>3. CASE k # key
            <4>1. rest[k].ask # Nowhere => rest[k].ask \in ListAsks \ {a}
                BY <1>4, <3>1 DEF EntryWell, IsUnderWay, EntryRec
            <4> QED
                BY <2>4, <3>1, <3>3, <4>1 DEF EntryWell, IsPage, IsNewer, IsUnderWay
        <3> QED
            BY <3>2, <3>3
    <2>6. ASSUME NEW b \in ListAsks PROVE AskWell(asks[b])'
        BY <2>3, <2>4 DEF CachesInv, AskWell, IsPage
    <2>7. CacheTypes'
        BY <1>1, <2>4 DEF CacheTypes
    <2>8. asks'[a] = new
        BY <2>4
    <2>9. IsUnderWay(a, key)'
        BY <1>2, <2>3, <2>8 DEF IsUnderWay
    <2>10. \A b \in ListAsks : asks[b].pc # "free" => Stays(b)
        BY <1>4, <2>4 DEF Stays
    <2>11. \A k \in AllKeys : entries'[k].value = rest[k].value
        BY <2>3, <2>4
    <2> QED
        BY <2>3, <2>5, <2>6, <2>7, <2>8, <2>9, <2>10, <2>11 DEF CachesInv
<1> QED
    BY <1>3, <1>4 DEF Awaits

LEMMA CurrentIs ==
    ASSUME CachesInv, NEW rest, IsKept(rest), entries' = rest, UNCHANGED <<listed, asks>>
    PROVE  /\ CachesInv'
           /\ \A b \in ListAsks : Stays(b)
           /\ \A k \in AllKeys : entries'[k].value = rest[k].value
<1>1. ASSUME NEW k \in AllKeys PROVE EntryWell(k, entries[k])'
    <2>1. EntryWell(k, rest[k])
        BY KeptIsWell
    <2> QED
        BY <2>1 DEF EntryWell, IsPage, IsNewer, IsUnderWay
<1>2. \A b \in ListAsks : AskWell(asks[b])'
    BY DEF CachesInv, AskWell, IsPage
<1>3. CacheTypes'
    BY DEF CacheTypes, CachesInv, IsKept
<1> QED
    BY <1>1, <1>2, <1>3 DEF CachesInv, Stays

\* An entry is not older than what it was, where it has a value.
NoneOlder == \A k \in AllKeys : NotOlder(entries'[k].value, entries[k].value)

LEMMA KeptNotOlder ==
    ASSUME CachesInv, NEW rest, IsKept(rest), \A k \in AllKeys : entries'[k].value = rest[k].value
    PROVE  NoneOlder
<1> SUFFICES ASSUME NEW k \in AllKeys PROVE NotOlder(entries'[k].value, entries[k].value)
    BY DEF NoneOlder
<1>1. entries'[k].value = NoPage \/ entries'[k].value = entries[k].value
    BY KeysAre DEF IsKept
<1>2. entries[k].value # NoPage => entries[k].value.ver \in Nat
    BY DEF CachesInv, EntryWell, IsPage, PageRec
<1> QED
    BY <1>1, <1>2 DEF NotOlder

\* The answer to a request, or its failure, is kept by the entry that waits for it.
LEMMA CommitsIs ==
    ASSUME CachesInv, NEW a \in ListAsks, Commits(a)
    PROVE  /\ CachesInv' /\ listed' = listed /\ NoneOlder
           /\ \A b \in ListAsks : b # a => Stays(b)
<1> DEFINE r == asks[a]
           entry == IF r.pc = "answered" THEN [NotCached EXCEPT !.value = r.answer]
                                         ELSE [entries[r.key] EXCEPT !.ask = Nowhere]
<1>1. /\ r.pc \in {"answered", "failed"} /\ asks' = [asks EXCEPT ![a] = NoAsk] /\ listed' = listed
      /\ entries' = IF entries[r.key].ask # a THEN entries ELSE [entries EXCEPT ![r.key] = entry]
    BY DEF Commits
<1>2. /\ entries \in [AllKeys -> EntryRec] /\ asks \in [ListAsks -> AskRec] /\ listed \in Nat \ {0}
      /\ r \in AskRec /\ r.key \in AllKeys /\ AskWell(r) /\ a # Nowhere
    BY KeysAre DEF CachesInv, CacheTypes, AskRec
<1>3. EntryWell(r.key, entries[r.key]) /\ entries[r.key] \in EntryRec
    BY <1>2 DEF CachesInv
<1>4. asks' \in [ListAsks -> AskRec] /\ \A b \in ListAsks : asks'[b] = IF b = a THEN NoAsk ELSE asks[b]
    BY <1>1, <1>2, KeysAre
<1>5. ASSUME NEW b \in ListAsks PROVE AskWell(asks[b])'
    BY <1>1, <1>4, KeysAre DEF CachesInv, AskWell, IsPage
<1>6. /\ entry \in EntryRec /\ entry.ask = Nowhere
      /\ entry.value = (IF r.pc = "answered" THEN r.answer ELSE entries[r.key].value)
      /\ entry.stale = (IF r.pc = "answered" THEN FALSE ELSE entries[r.key].stale)
    <2> DEFINE old == entries[r.key]
               answer == r.answer
    <2>1. old \in EntryRec /\ answer \in PageRec \cup {NoPage}
        BY <1>2, <1>3 DEF AskRec
    <2>2. entry = IF r.pc = "answered" THEN [NotCached EXCEPT !.value = answer] ELSE [old EXCEPT !.ask = Nowhere]
        OBVIOUS
    <2> HIDE DEF old, answer, entry, r
    <2>3. /\ entry \in EntryRec /\ entry.ask = Nowhere
          /\ entry.value = (IF r.pc = "answered" THEN answer ELSE old.value)
          /\ entry.stale = (IF r.pc = "answered" THEN FALSE ELSE old.stale)
        BY <2>1, <2>2 DEF EntryRec, NotCached
    <2> QED
        BY <2>3 DEF old, answer
<1> HIDE DEF entry
<1>7. /\ entries' \in [AllKeys -> EntryRec]
      /\ \A k \in AllKeys : entries'[k] = IF k = r.key /\ entries[k].ask = a THEN entry ELSE entries[k]
    <2>1. CASE entries[r.key].ask # a
        BY <1>1, <1>2, <2>1
    <2>2. CASE entries[r.key].ask = a
        <3>1. entries' = [entries EXCEPT ![r.key] = entry]
            BY <1>1, <2>2
        <3> HIDE DEF r
        <3> QED
            BY <1>2, <1>6, <2>2, <3>1
    <2> QED
        BY <2>1, <2>2
<1>8. ASSUME NEW k \in AllKeys
      PROVE  EntryWell(k, entries[k])' /\ NotOlder(entries'[k].value, entries[k].value)
    <2>1. EntryWell(k, entries[k]) /\ entries[k] \in EntryRec
        BY <1>2 DEF CachesInv
    <2>2. entries[k].value # NoPage => entries[k].value.ver \in Nat
        BY <2>1 DEF EntryWell, IsPage, PageRec
    <2>3. CASE k = r.key /\ entries[k].ask = a
        <3>1. entries'[k] = entry
            BY <1>7, <2>3
        <3>2. IsNewer(a, entries[k].value)
            BY <1>2, <2>1, <2>3 DEF EntryWell
        <3>3. IsPage(entry.value, k) /\ (entry.stale => entry.value # NoPage)
            BY <1>2, <1>6, <2>1, <2>3 DEF AskWell, EntryWell
        <3>4. NotOlder(entry.value, entries[k].value)
            BY <1>2, <1>6, <2>2, <2>3, <3>2 DEF NotOlder, IsNewer
        <3>5. EntryWell(k, entries[k])'
            BY <1>1, <1>6, <3>1, <3>3 DEF EntryWell, IsPage
        <3> QED
            BY <3>1, <3>4, <3>5
    <2>4. CASE ~(k = r.key /\ entries[k].ask = a)
        <3>1. entries'[k] = entries[k]
            BY <1>7, <2>4
        <3>2. entries[k].ask # Nowhere => entries[k].ask \in ListAsks \ {a}
            BY <2>1, <2>4 DEF EntryWell, IsUnderWay, EntryRec
        <3>3. EntryWell(k, entries[k])'
            BY <1>1, <1>4, <2>1, <3>1, <3>2 DEF EntryWell, IsPage, IsNewer, IsUnderWay
        <3> QED
            BY <2>2, <3>1, <3>3 DEF NotOlder
    <2> QED
        BY <2>3, <2>4
<1>9. CacheTypes'
    BY <1>1, <1>2, <1>4, <1>7 DEF CacheTypes
<1> QED
    BY <1>1, <1>4, <1>5, <1>8, <1>9 DEF CachesInv, NoneOlder, Stays

\* Nothing but requests that are over has changed for who waits.
LEMMA BrowserStays ==
    ASSUME BrowserInv, UNCHANGED <<listed, browser, listWaits>>, \A a \in listWaits : Stays(a)
    PROVE  BrowserInv'
    BY DEF BrowserInv, IsPage, IsUnderWay, IsNewer, Stays

LEMMA IndexStays ==
    ASSUME IndexInv, UNCHANGED <<listed, indexVars>>,
           indexLoad.first # Nowhere => Stays(indexLoad.first),
           indexLoad.fresh # Nowhere => Stays(indexLoad.fresh)
    PROVE  IndexInv'
<1>1. index' = index /\ indexLoad' = indexLoad
    BY DEF indexVars
<1> QED
    BY <1>1 DEF IndexInv, IsPage, IsUnderWay, IsNewer, Stays

BrowsingListsInv == CachesInv /\ BrowserInv /\ IndexInv

-----------------------------------------------------------------------------
(* Browsing a storage: the lists of the api.                                 *)

LEMMA ListsStepKeeps ==
    ASSUME BrowsingListsInv, ListsStep
    PROVE  BrowsingListsInv' /\ NoneOlder
<1>1. browser' = browser /\ listWaits' = listWaits /\ index' = index /\ indexLoad' = indexLoad
    BY DEF ListsStep, listingVars, indexVars
<1>2. /\ entries \in [AllKeys -> EntryRec] /\ asks \in [ListAsks -> AskRec] /\ listed \in Nat \ {0}
      /\ \A k \in AllKeys : EntryWell(k, entries[k])
      /\ \A b \in ListAsks : AskWell(asks[b])
    BY DEF BrowsingListsInv, CachesInv, CacheTypes
<1>3. \A leaf, key : IsPage(leaf, key) /\ leaf # NoPage => leaf.ver \in Nat
    BY DEF IsPage, PageRec
<1>4. CASE ListingChanges
    <2>1. listed' = listed + 1 /\ entries' = entries /\ asks' = asks
        BY <1>4 DEF ListingChanges
    <2>2. \A leaf, key : IsPage(leaf, key) => IsPage(leaf, key)'
        BY <1>2, <1>3, <2>1 DEF IsPage
    <2>3. CachesInv'
        BY <1>2, <2>1, <2>2 DEF CachesInv, CacheTypes, EntryWell, AskWell, IsUnderWay, IsNewer
    <2>4. BrowserInv'
        BY <1>1, <2>1, <2>2 DEF BrowsingListsInv, BrowserInv, IsUnderWay, IsNewer
    <2>5. IndexInv'
        BY <1>1, <2>1, <2>2 DEF BrowsingListsInv, IndexInv, IsUnderWay, IsNewer
    <2>6. NoneOlder
        BY <1>2, <1>3, <2>1 DEF NoneOlder, NotOlder, EntryWell
    <2> QED
        BY <2>3, <2>4, <2>5, <2>6 DEF BrowsingListsInv
<1>5. CASE ListingExpires
    <2>1. PICK k \in DOMAIN entries :
              /\ IsCurrent(entries[k]) /\ entries' = [entries EXCEPT ![k].stale = TRUE]
              /\ listed' = listed /\ asks' = asks
        BY <1>5 DEF ListingExpires
    <2> DEFINE entry == [entries[k] EXCEPT !.stale = TRUE]
    <2>2. k \in AllKeys /\ entries' = [entries EXCEPT ![k] = entry] /\ entries[k] \in EntryRec
        BY <1>2, <2>1
    <2>3. entry \in EntryRec /\ entry.value = entries[k].value /\ entry.ask = entries[k].ask /\ entry.stale
        BY <2>2 DEF EntryRec
    <2> HIDE DEF entry
    <2>4. /\ entries' \in [AllKeys -> EntryRec]
          /\ \A m \in AllKeys : entries'[m] = IF m = k THEN entry ELSE entries[m]
        BY <1>2, <2>2, <2>3
    <2>5. ASSUME NEW m \in AllKeys PROVE EntryWell(m, entries[m])'
        BY <1>2, <2>1, <2>3, <2>4 DEF EntryWell, IsPage, IsUnderWay, IsNewer, IsCurrent
    <2>6. CachesInv'
        BY <1>2, <2>1, <2>4, <2>5 DEF CachesInv, CacheTypes, AskWell, IsPage
    <2>7. \A m \in AllKeys : entries'[m].value = entries[m].value
        BY <2>3, <2>4
    <2>8. NoneOlder
        BY <2>7, EntriesAreKept, KeptNotOlder DEF BrowsingListsInv
    <2>9. BrowserInv'
        BY <1>1, <2>1, BrowserStays DEF BrowsingListsInv, Stays
    <2>10. IndexInv'
        BY <1>1, <2>1, IndexStays DEF BrowsingListsInv, Stays, indexVars
    <2> QED
        BY <2>6, <2>8, <2>9, <2>10 DEF BrowsingListsInv
<1>6. ASSUME NEW a \in ListAsks, ApiLists(a) PROVE BrowsingListsInv' /\ NoneOlder
    <2> DEFINE r == asks[a]
    <2>1. listed' = listed /\ entries' = entries /\ r.pc = "asked" /\ r \in AskRec /\ r.answer = NoPage
        BY <1>2, <1>6 DEF ApiLists, AskWell
    <2>2. \E s \in AskRec : /\ asks' = [asks EXCEPT ![a] = s] /\ s.key = r.key /\ AskWell(s)
                            /\ s.pc = "failed" \/ (s.pc = "answered" /\ s.answer.ver = listed)
        <3>1. CASE asks' = [asks EXCEPT ![a].pc = "failed"]
            <4> DEFINE s == [r EXCEPT !.pc = "failed"]
            <4>1. asks' = [asks EXCEPT ![a] = s]
                BY <1>2, <3>1
            <4>2. s \in AskRec /\ s.key = r.key /\ s.pc = "failed" /\ s.answer = NoPage
                BY <2>1 DEF AskRec
            <4> HIDE DEF s
            <4>3. AskWell(s)
                BY <4>2 DEF AskWell
            <4> QED
                BY <4>1, <4>2, <4>3
        <3>2. ASSUME NEW more \in {"none", "next", "stuck"},
                     asks' = [asks EXCEPT ![a].pc = "answered",
                                          ![a].answer = [ver |-> listed, key |-> asks[a].key, more |-> more]]
              PROVE  \E s \in AskRec : /\ asks' = [asks EXCEPT ![a] = s] /\ s.key = r.key /\ AskWell(s)
                                       /\ s.pc = "failed" \/ (s.pc = "answered" /\ s.answer.ver = listed)
            <4> DEFINE answer == [ver |-> listed, key |-> asks[a].key, more |-> more]
                       s == [r EXCEPT !.pc = "answered", !.answer = answer]
            <4>1. answer \in PageRec /\ answer.ver = listed /\ answer.key = r.key
                BY <1>2, <2>1 DEF PageRec, AskRec
            <4>2. asks' = [asks EXCEPT ![a] = s]
                BY <1>2, <3>2
            <4> HIDE DEF answer, r
            <4>3. s \in AskRec /\ s.key = r.key /\ s.pc = "answered" /\ s.answer = answer
                BY <2>1, <4>1 DEF AskRec
            <4> HIDE DEF s
            <4>4. AskWell(s)
                BY <1>2, <4>1, <4>3, KeysAre DEF AskWell, IsPage
            <4> QED
                BY <4>1, <4>2, <4>3, <4>4
        <3> QED
            BY <1>6, <3>1, <3>2 DEF ApiLists
    <2>3. PICK s \in AskRec : /\ asks' = [asks EXCEPT ![a] = s] /\ s.key = r.key /\ AskWell(s)
                              /\ s.pc = "failed" \/ (s.pc = "answered" /\ s.answer.ver = listed)
        BY <2>2
    <2>4. asks' \in [ListAsks -> AskRec] /\ \A b \in ListAsks : asks'[b] = IF b = a THEN s ELSE asks[b]
        BY <1>2, <2>3
    <2>5. ASSUME NEW b, NEW key, IsUnderWay(b, key), b \in ListAsks PROVE IsUnderWay(b, key)'
        BY <2>3, <2>4, <2>5 DEF IsUnderWay
    <2>6. ASSUME NEW b \in ListAsks, NEW leaf, NEW key, IsPage(leaf, key), IsNewer(b, leaf) PROVE IsNewer(b, leaf)'
        BY <1>2, <1>3, <2>3, <2>4, <2>6 DEF IsNewer, IsPage
    <2>7. \A leaf, key : IsPage(leaf, key) => IsPage(leaf, key)'
        BY <2>1 DEF IsPage
    <2>8. ASSUME NEW k \in AllKeys PROVE EntryWell(k, entries[k])'
        <3>1. entries'[k] = entries[k] /\ EntryWell(k, entries[k]) /\ entries[k] \in EntryRec
            BY <1>2, <2>1
        <3>2. entries[k].ask # Nowhere => entries[k].ask \in ListAsks
            BY <3>1 DEF EntryRec
        <3> QED
            BY <2>5, <2>6, <2>7, <3>1, <3>2 DEF EntryWell
    <2>9. ASSUME NEW b \in ListAsks PROVE AskWell(asks[b])'
        BY <1>2, <2>1, <2>3, <2>4 DEF AskWell, IsPage
    <2>10. CachesInv'
        BY <1>2, <2>1, <2>4, <2>8, <2>9 DEF CachesInv, CacheTypes
    <2>11. BrowserInv'
        <3>1. \A b \in listWaits : b \in ListAsks
            BY DEF BrowsingListsInv, BrowserInv
        <3> QED
            BY <1>1, <2>5, <2>6, <2>7, <3>1 DEF BrowsingListsInv, BrowserInv
    <2>12. IndexInv'
        <3>1. /\ indexLoad.first # Nowhere => indexLoad.first \in ListAsks
              /\ indexLoad.fresh # Nowhere => indexLoad.fresh \in ListAsks
            BY DEF BrowsingListsInv, IndexInv, IndexLoadRec
        <3> QED
            BY <1>1, <2>5, <2>6, <2>7, <3>1 DEF BrowsingListsInv, IndexInv
    <2>13. NoneOlder
        BY <2>1, EntriesAreKept, KeptNotOlder DEF BrowsingListsInv
    <2> QED
        BY <2>10, <2>11, <2>12, <2>13 DEF BrowsingListsInv
<1> QED
    BY <1>4, <1>5, <1>6 DEF ListsStep

-----------------------------------------------------------------------------
(* Browsing a storage: the pages of a directory.                             *)

\* load(): what is shown is of the place, or nothing, and it waits for a request of it.
LEMMA LoadsPageStep ==
    ASSUME BrowsingListsInv, NEW b \in BrowserRec, NEW rest, IsKept(rest), LoadsPage(b, rest)
    PROVE  /\ BrowsingListsInv' /\ NoneOlder
           /\ browser'.page = rest[KeyOf(b)].value
           /\ KeyOf(browser') = KeyOf(b) /\ PlaceOf(browser') = PlaceOf(b)
<1> DEFINE key == KeyOf(b)
           entry == rest[key]
           blank == [b EXCEPT !.page = entry.value, !.loading = (entry.value = NoPage),
                              !.error = FALSE, !.revalidating = entry.stale]
<1>1. key \in AllKeys
    BY KeysAre DEF AllKeys
<1>2. entry \in EntryRec /\ EntryWell(key, entry)
    <2> HIDE DEF key
    <2> QED
        BY <1>1, KeptIsWell DEF BrowsingListsInv
<1>3. browser' = blank /\ listed' = listed /\ index' = index /\ indexLoad' = indexLoad
    BY DEF LoadsPage, indexVars
<1>4. /\ browser' \in BrowserRec /\ browser'.page = entry.value /\ browser'.loading = (entry.value = NoPage)
      /\ browser'.revalidating = entry.stale
      /\ browser'.dir = b.dir /\ browser'.words = b.words /\ browser'.recursive = b.recursive /\ browser'.at = b.at
    <2> DEFINE value == entry.value
               stale == entry.stale
               none == (value = NoPage)
    <2>1. value \in PageRec \cup {NoPage} /\ stale \in BOOLEAN /\ none \in BOOLEAN
        BY <1>2 DEF EntryRec
    <2>2. browser' = [b EXCEPT !.page = value, !.loading = none, !.error = FALSE, !.revalidating = stale]
        BY <1>3
    <2> HIDE DEF value, stale, none, blank, entry
    <2>3. /\ browser' \in BrowserRec /\ browser'.page = value /\ browser'.loading = none
          /\ browser'.revalidating = stale
          /\ browser'.dir = b.dir /\ browser'.words = b.words /\ browser'.recursive = b.recursive /\ browser'.at = b.at
        BY <2>1, <2>2 DEF BrowserRec
    <2> QED
        BY <2>3 DEF value, stale, none
<1>5. KeyOf(browser') = key /\ PlaceOf(browser') = PlaceOf(b)
    BY <1>4 DEF KeyOf, PlaceOf
<1>6. IsPage(entry.value, key) /\ (entry.stale => entry.value # NoPage)
    BY <1>2 DEF EntryWell
<1> HIDE DEF blank, entry, key
<1>7. CASE IsCurrent(entry) /\ listWaits' = {} /\ entries' = rest /\ asks' = asks
    <2>1. /\ CachesInv' /\ \A c \in ListAsks : Stays(c)
          /\ \A k \in AllKeys : entries'[k].value = rest[k].value
        BY <1>3, <1>7, CurrentIs DEF BrowsingListsInv
    <2>2. NoneOlder
        BY <2>1, KeptNotOlder DEF BrowsingListsInv
    <2>3. IndexInv'
        <3>1. /\ indexLoad.first # Nowhere => indexLoad.first \in ListAsks
              /\ indexLoad.fresh # Nowhere => indexLoad.fresh \in ListAsks
            BY DEF BrowsingListsInv, IndexInv, IndexLoadRec
        <3> QED
            BY <1>3, <2>1, <3>1, IndexStays DEF BrowsingListsInv, indexVars
    <2>4. BrowserInv'
        <3>1. ~browser'.loading /\ ~browser'.revalidating
            BY <1>4, <1>7 DEF IsCurrent
        <3>2. IsPage(browser.page, KeyOf(browser))'
            BY <1>3, <1>4, <1>5, <1>6 DEF IsPage
        <3> QED
            BY <1>4, <1>7, <3>1, <3>2 DEF BrowserInv
    <2> QED
        BY <1>4, <1>5, <2>1, <2>2, <2>3, <2>4 DEF BrowsingListsInv, entry, key
<1>8. ASSUME NEW a \in ListAsks, Awaits(rest, key, a), listWaits' = {a}
      PROVE  /\ BrowsingListsInv' /\ NoneOlder
    <2>1. /\ CachesInv'
          /\ IsUnderWay(a, key)'
          /\ asks'[a].pc = "answered" /\ rest[key].value # NoPage => asks'[a].answer.ver >= rest[key].value.ver
          /\ \A c \in ListAsks : asks[c].pc # "free" => Stays(c)
          /\ \A k \in AllKeys : entries'[k].value = rest[k].value
        BY <1>1, <1>3, <1>8, AwaitsIs DEF BrowsingListsInv
    <2>2. NoneOlder
        BY <2>1, KeptNotOlder DEF BrowsingListsInv
    <2>3. IndexInv'
        <3>1. /\ indexLoad.first # Nowhere => indexLoad.first \in ListAsks /\ asks[indexLoad.first].pc # "free"
              /\ indexLoad.fresh # Nowhere => indexLoad.fresh \in ListAsks /\ asks[indexLoad.fresh].pc # "free"
            BY DEF BrowsingListsInv, IndexInv, IndexLoadRec, IsUnderWay
        <3> QED
            BY <1>3, <2>1, <3>1, IndexStays DEF BrowsingListsInv, indexVars
    <2>4. BrowserInv'
        <3>1. IsPage(browser.page, KeyOf(browser))'
            BY <1>3, <1>4, <1>5, <1>6 DEF IsPage
        <3>2. IsUnderWay(a, KeyOf(browser))' /\ IsNewer(a, browser.page)'
            BY <1>4, <1>5, <2>1 DEF IsUnderWay, IsNewer, entry
        <3> QED
            BY <1>4, <1>8, <3>1, <3>2 DEF BrowserInv
    <2> QED
        BY <2>1, <2>2, <2>3, <2>4 DEF BrowsingListsInv
<1> QED
    BY <1>4, <1>5, <1>7, <1>8 DEF LoadsPage, entry, key

\* A page of another place, or none, is not older than the one shown before.
LEMMA OtherPage ==
    ASSUME BrowsingListsInv, BrowsingListsInv', KeyOf(browser') # KeyOf(browser) \/ browser'.page = NoPage
    PROVE  NotOlder(browser'.page, browser.page)
    BY DEF BrowsingListsInv, BrowserInv, IsPage, NotOlder

\* What follows from a step of the lists, about what is shown and kept.
StepKeeps ==
    /\ BrowsingListsInv' /\ NoneOlder
    /\ NotOlder(browser'.page, browser.page) /\ NotOlder(index'.list, index.list)

\* What is told of scans stays, or the latest scan of the place one has come to is looked for.
ScansFollow ==
    /\ UNCHANGED <<jobs, banner, dialog>>
    /\ (calls' = calls /\ PlaceOf(browser') = PlaceOf(browser)) \/ LooksFor(PlaceOf(browser'))

LEMMA SameNotOlder ==
    ASSUME NEW leaf, NEW key, IsPage(leaf, key) PROVE NotOlder(leaf, leaf)
    BY DEF IsPage, NotOlder, PageRec

LEMMA IndexNotOlder == ASSUME BrowsingListsInv, UNCHANGED index PROVE NotOlder(index'.list, index.list)
    BY SameNotOlder DEF BrowsingListsInv, IndexInv

LEMMA ShowsPlaceStep ==
    ASSUME BrowsingListsInv, NEW b \in BrowserRec, ShowsPlace(b),
           \/ b.dir # browser.dir \/ b.words # browser.words \/ b.recursive # browser.recursive
    PROVE  StepKeeps /\ ScansFollow
<1> DEFINE c == [b EXCEPT !.at = 0, !.visited = 1]
<1>1. LoadsPage(c, entries) /\ UNCHANGED index
    BY DEF ShowsPlace, LoadsPage, indexVars
<1>2. c \in BrowserRec /\ c.dir = b.dir /\ c.words = b.words /\ c.recursive = b.recursive
    <2>1. 0 \in 0..MaxCursor /\ 1 \in 1..(MaxCursor + 1)
        BY BrowsingAssumption
    <2> QED
        BY <2>1 DEF BrowserRec
<1> HIDE DEF c
<1>3. /\ BrowsingListsInv' /\ NoneOlder
      /\ KeyOf(browser') = KeyOf(c) /\ PlaceOf(browser') = PlaceOf(c)
    BY <1>1, <1>2, EntriesAreKept, LoadsPageStep DEF BrowsingListsInv
<1>4. PlaceOf(c) = PlaceOf(b)
    BY <1>2 DEF PlaceOf
<1>5. KeyOf(c) # KeyOf(browser)
    BY <1>2 DEF KeyOf
<1>6. NotOlder(browser'.page, browser.page)
    BY <1>3, <1>5, OtherPage
<1>7. ScansFollow
    <2>1. PlaceOf(browser') = PlaceOf(b)
        BY <1>3, <1>4
    <2>2. /\ UNCHANGED <<jobs, banner, dialog>>
          /\ IF PlaceOf(b) = PlaceOf(browser) THEN UNCHANGED calls ELSE LooksFor(PlaceOf(b))
        BY DEF ShowsPlace
    <2> QED
        BY <2>1, <2>2, Zenon DEF ScansFollow
<1> QED
    BY <1>1, <1>3, <1>6, <1>7, IndexNotOlder DEF StepKeeps

\* Nothing of the lists has changed but what is typed.
LEMMA TypesStep ==
    ASSUME BrowsingListsInv, NEW w \in Words \cup {Nowhere}, browser' = [browser EXCEPT !.typed = w],
           UNCHANGED <<keptVars, listWaits, indexVars, scanVars>>
    PROVE  StepKeeps /\ ScansFollow
<1>1. /\ listed' = listed /\ entries' = entries /\ asks' = asks /\ listWaits' = listWaits
      /\ index' = index /\ indexLoad' = indexLoad
      /\ jobs' = jobs /\ banner' = banner /\ dialog' = dialog /\ calls' = calls
    BY DEF keptVars, indexVars, scanVars
<1>2. browser \in BrowserRec
    BY DEF BrowsingListsInv, BrowserInv
<1>3. /\ browser' \in BrowserRec /\ browser'.page = browser.page
      /\ browser'.loading = browser.loading /\ browser'.revalidating = browser.revalidating
      /\ browser'.dir = browser.dir /\ browser'.words = browser.words
      /\ browser'.recursive = browser.recursive /\ browser'.at = browser.at
    BY <1>2 DEF BrowserRec
<1>4. KeyOf(browser') = KeyOf(browser) /\ PlaceOf(browser') = PlaceOf(browser)
    BY <1>3 DEF KeyOf, PlaceOf
<1>5. CachesInv' /\ NoneOlder
    BY <1>1, EntriesAreKept, CurrentIs, KeptNotOlder DEF BrowsingListsInv
<1>6. IndexInv'
    BY <1>1, IndexStays DEF BrowsingListsInv, Stays, indexVars
<1>7. BrowserInv'
    BY <1>1, <1>3, <1>4 DEF BrowsingListsInv, BrowserInv, IsPage, IsUnderWay, IsNewer
<1>8. NotOlder(browser'.page, browser.page)
    BY <1>3, SameNotOlder DEF BrowsingListsInv, BrowserInv
<1> QED
    BY <1>1, <1>4, <1>5, <1>6, <1>7, <1>8, IndexNotOlder DEF StepKeeps, BrowsingListsInv, ScansFollow

LEMMA SubmitsStep ==
    ASSUME BrowsingListsInv, NEW words \in Words,
           Submits([browser EXCEPT !.words = words, !.typed = Nowhere])
    PROVE  StepKeeps /\ ScansFollow
<1> DEFINE b == [browser EXCEPT !.words = words, !.typed = Nowhere]
<1>1. browser \in BrowserRec
    BY DEF BrowsingListsInv, BrowserInv
<1>2. b \in BrowserRec /\ b.words = words
    BY <1>1 DEF BrowserRec
<1>3. CASE words = browser.words
    <2>1. browser' = b /\ UNCHANGED <<keptVars, listWaits, indexVars, scanVars>>
        BY <1>2, <1>3 DEF Submits
    <2>2. b = [browser EXCEPT !.typed = Nowhere]
        BY <1>1, <1>3 DEF BrowserRec
    <2> QED
        BY <2>1, <2>2, TypesStep
<1>4. CASE words # browser.words
    <2>1. ShowsPlace(b)
        BY <1>2, <1>4 DEF Submits
    <2> HIDE DEF b
    <2> QED
        BY <1>2, <1>4, <2>1, ShowsPlaceStep
<1> QED
    BY <1>3, <1>4

LEMMA BrowserOpensStep == ASSUME BrowsingListsInv, BrowserOpens PROVE StepKeeps /\ ScansFollow
<1>1. browser \in BrowserRec /\ browser.page = NoPage
    BY DEF BrowsingListsInv, BrowserInv, BrowserOpens, Mounted
<1>2. LoadsPage(browser, entries) /\ UNCHANGED index
    BY DEF BrowserOpens, LoadsPage, indexVars
<1>3. BrowsingListsInv' /\ NoneOlder /\ PlaceOf(browser') = PlaceOf(browser)
    BY <1>1, <1>2, EntriesAreKept, LoadsPageStep DEF BrowsingListsInv
<1>4. NotOlder(browser'.page, browser.page)
    BY <1>1 DEF NotOlder
<1>5. LooksFor(PlaceOf(browser)) /\ UNCHANGED <<jobs, banner, dialog>>
    BY DEF BrowserOpens
<1>6. ScansFollow
    BY <1>3, <1>5, Zenon DEF ScansFollow
<1> QED
    BY <1>2, <1>3, <1>4, <1>6, IndexNotOlder DEF StepKeeps

LEMMA EntersDirStep == ASSUME BrowsingListsInv, NEW d \in Dirs, EntersDir(d) PROVE StepKeeps /\ ScansFollow
<1> DEFINE b == [browser EXCEPT !.dir = d]
<1>1. browser \in BrowserRec /\ d # browser.dir /\ ShowsPlace(b)
    BY DEF BrowsingListsInv, BrowserInv, EntersDir
<1>2. b \in BrowserRec /\ b.dir = d
    BY <1>1 DEF BrowserRec
<1> HIDE DEF b
<1> QED
    BY <1>1, <1>2, ShowsPlaceStep

LEMMA SetsRecursiveStep == ASSUME BrowsingListsInv, SetsRecursive PROVE StepKeeps /\ ScansFollow
<1> DEFINE deep == ~browser.recursive
           b == [browser EXCEPT !.recursive = deep]
<1>1. browser \in BrowserRec /\ ShowsPlace(b)
    BY DEF BrowsingListsInv, BrowserInv, SetsRecursive
<1>2. deep \in BOOLEAN /\ deep # browser.recursive
    BY <1>1 DEF BrowserRec
<1> HIDE DEF deep
<1>3. b \in BrowserRec /\ b.recursive = deep
    BY <1>1, <1>2 DEF BrowserRec
<1> HIDE DEF b
<1> QED
    BY <1>1, <1>2, <1>3, ShowsPlaceStep

\* Another page of the same place.
LEMMA GoesToStep ==
    ASSUME BrowsingListsInv, NEW b \in BrowserRec, NEW rest, IsKept(rest), GoesTo(b, rest),
           b.at # browser.at \/ rest[KeyOf(b)].value = NoPage, b.dir = browser.dir, b.words = browser.words
    PROVE  StepKeeps /\ ScansFollow
<1> USE DEF GoesTo
<1>1. /\ BrowsingListsInv' /\ NoneOlder
      /\ browser'.page = rest[KeyOf(b)].value /\ KeyOf(browser') = KeyOf(b)
      /\ PlaceOf(browser') = PlaceOf(b)
    BY LoadsPageStep
<1>2. b.at # browser.at => KeyOf(b) # KeyOf(browser)
    BY DEF KeyOf
<1>3. NotOlder(browser'.page, browser.page)
    BY <1>1, <1>2, OtherPage
<1>4. UNCHANGED index
    BY DEF LoadsPage, indexVars
<1>5. PlaceOf(b) = PlaceOf(browser)
    BY DEF PlaceOf
<1>6. ScansFollow
    BY <1>1, <1>5 DEF ScansFollow, scanVars
<1> QED
    BY <1>1, <1>3, <1>4, <1>6, IndexNotOlder DEF StepKeeps

LEMMA NextPageStep == ASSUME BrowsingListsInv, NextPage PROVE StepKeeps /\ ScansFollow
<1> DEFINE n == browser.at + 1
           b == [browser EXCEPT !.at = n]
<1>1. browser \in BrowserRec /\ MaxCursor \in Nat
    BY BrowsingAssumption DEF BrowsingListsInv, BrowserInv
<1>2. /\ b.at <= MaxCursor
      /\ \/ b.at < b.visited /\ GoesTo(b, entries)
         \/ b.at = b.visited /\ GoesTo([b EXCEPT !.visited = @ + 1], Forgetting({KeyOf(b)}))
    BY DEF NextPage
<1>3. b.at = n /\ b.visited = browser.visited /\ n # browser.at /\ n \in Nat
      /\ b.dir = browser.dir /\ b.words = browser.words
    BY <1>1 DEF BrowserRec
<1>4. n \in 0..MaxCursor
    BY <1>1, <1>2, <1>3
<1> HIDE DEF n
<1>5. b \in BrowserRec
    BY <1>1, <1>4 DEF BrowserRec
<1> HIDE DEF b
<1>6. CASE b.at < b.visited /\ GoesTo(b, entries)
    BY <1>3, <1>5, <1>6, EntriesAreKept, GoesToStep DEF BrowsingListsInv
<1>7. CASE b.at = b.visited /\ GoesTo([b EXCEPT !.visited = @ + 1], Forgetting({KeyOf(b)}))
    <2> DEFINE m == b.visited + 1
               c == [b EXCEPT !.visited = m]
    <2>1. GoesTo(c, Forgetting({KeyOf(b)}))
        BY <1>7
    <2>2. m \in 1..(MaxCursor + 1)
        BY <1>1, <1>3, <1>4, <1>7
    <2> HIDE DEF m
    <2>3. c \in BrowserRec /\ c.at = b.at /\ c.dir = b.dir /\ c.words = b.words
        BY <1>5, <2>2 DEF BrowserRec
    <2> HIDE DEF c
    <2> QED
        BY <1>3, <2>1, <2>3, ForgettingKeeps, GoesToStep DEF BrowsingListsInv
<1> QED
    BY <1>2, <1>6, <1>7

LEMMA VisitedPageStep == ASSUME BrowsingListsInv, VisitedPage PROVE StepKeeps /\ ScansFollow
<1>1. browser \in BrowserRec /\ MaxCursor \in Nat
    BY BrowsingAssumption DEF BrowsingListsInv, BrowserInv
<1>2. PICK i \in 0..(browser.visited - 1) : i # browser.at /\ GoesTo([browser EXCEPT !.at = i], entries)
    BY DEF VisitedPage
<1> DEFINE b == [browser EXCEPT !.at = i]
<1>3. i \in 0..MaxCursor
    BY <1>1, <1>2 DEF BrowserRec
<1>4. b \in BrowserRec /\ b.at = i /\ b.dir = browser.dir /\ b.words = browser.words
    BY <1>1, <1>3 DEF BrowserRec
<1>5. GoesTo(b, entries)
    BY <1>2
<1> HIDE DEF b
<1> QED
    BY <1>2, <1>4, <1>5, EntriesAreKept, GoesToStep DEF BrowsingListsInv

LEMMA RefreshesListStep == ASSUME BrowsingListsInv, RefreshesList PROVE StepKeeps /\ ScansFollow
<1> DEFINE dropped == {k \in ListKeys : k.dir \in Beneath[browser.dir]}
           b == [browser EXCEPT !.at = 0, !.visited = 1]
           rest == Forgetting(dropped)
<1>1. browser \in BrowserRec /\ GoesTo(b, rest)
    BY DEF BrowsingListsInv, BrowserInv, RefreshesList
<1>2. b \in BrowserRec /\ b.dir = browser.dir /\ b.words = browser.words
    <2>1. 0 \in 0..MaxCursor /\ 1 \in 1..(MaxCursor + 1)
        BY BrowsingAssumption
    <2> QED
        BY <1>1, <2>1 DEF BrowserRec
<1> HIDE DEF b
<1>3. KeyOf(b) \in dropped
    <2>1. KeyOf(b).dir = browser.dir /\ KeyOf(b) \in ListKeys
        BY <1>2, KeysAre DEF KeyOf
    <2>2. browser.dir \in Beneath[browser.dir]
        BY <1>1, BrowsingAssumption DEF BrowserRec
    <2> QED
        BY <2>1, <2>2
<1> HIDE DEF dropped
<1>4. IsKept(rest) /\ rest[KeyOf(b)] = NotCached
    BY <1>2, <1>3, ForgettingKeeps, KeysAre DEF BrowsingListsInv, AllKeys
<1> HIDE DEF rest
<1> QED
    BY <1>1, <1>2, <1>4, KeysAre, GoesToStep

LEMMA PageArrivesStep ==
    ASSUME BrowsingListsInv, NEW a \in ListAsks, asks[a].key # IndexKey, PageArrives(a), UNCHANGED <<indexVars, scanVars>>
    PROVE  StepKeeps /\ ScansFollow
<1>1. Commits(a) /\ listWaits' = listWaits \ {a}
    BY DEF PageArrives
<1>2. CachesInv' /\ listed' = listed /\ NoneOlder /\ \A c \in ListAsks : c # a => Stays(c)
    BY <1>1, CommitsIs DEF BrowsingListsInv
<1>3. IndexInv'
    <2>1. /\ indexLoad.first # Nowhere => indexLoad.first \in ListAsks \ {a}
          /\ indexLoad.fresh # Nowhere => indexLoad.fresh \in ListAsks \ {a}
        BY DEF BrowsingListsInv, IndexInv, IndexLoadRec, IsUnderWay
    <2> QED
        BY <1>2, <2>1, IndexStays DEF BrowsingListsInv
<1>4. index' = index /\ jobs' = jobs /\ banner' = banner /\ dialog' = dialog /\ calls' = calls
    BY DEF indexVars, scanVars
<1>5. /\ browser \in BrowserRec /\ IsPage(browser.page, KeyOf(browser)) /\ listWaits \subseteq ListAsks
      /\ \A c \in listWaits : IsUnderWay(c, KeyOf(browser)) /\ IsNewer(c, browser.page)
      /\ AskWell(asks[a]) /\ asks[a] \in AskRec
    BY DEF BrowsingListsInv, BrowserInv, CachesInv, CacheTypes
<1>6. CASE a \notin listWaits
    <2>1. browser' = browser /\ listWaits' = listWaits
        BY <1>1, <1>6 DEF PageArrives
    <2>2. BrowserInv'
        BY <1>2, <1>5, <1>6, <2>1, BrowserStays DEF BrowsingListsInv
    <2>3. NotOlder(browser'.page, browser.page)
        BY <1>5, <2>1, SameNotOlder
    <2> QED
        BY <1>2, <1>3, <1>4, <2>2, <2>1, <2>3, IndexNotOlder DEF StepKeeps, BrowsingListsInv, ScansFollow
<1>7. CASE a \in listWaits
    <2>1. IsUnderWay(a, KeyOf(browser)) /\ IsNewer(a, browser.page)
        BY <1>5, <1>7
    <2>2. ASSUME NEW leaf \in PageRec \cup {NoPage}, IsPage(leaf, KeyOf(browser)), NotOlder(leaf, browser.page),
                 NEW error \in BOOLEAN,
                 browser' = [browser EXCEPT !.page = leaf, !.error = error, !.loading = FALSE, !.revalidating = FALSE]
          PROVE  StepKeeps /\ ScansFollow
        <3>1. /\ browser' \in BrowserRec /\ browser'.page = leaf /\ ~browser'.loading /\ ~browser'.revalidating
              /\ browser'.dir = browser.dir /\ browser'.words = browser.words
              /\ browser'.recursive = browser.recursive /\ browser'.at = browser.at
            BY <1>5, <2>2 DEF BrowserRec
        <3>2. KeyOf(browser') = KeyOf(browser) /\ PlaceOf(browser') = PlaceOf(browser)
            BY <3>1 DEF KeyOf, PlaceOf
        <3>3. listWaits' = {}
            BY <1>1, <1>7 DEF BrowsingListsInv, BrowserInv
        <3>4. IsPage(browser.page, KeyOf(browser))'
            BY <1>2, <2>2, <3>1, <3>2 DEF IsPage
        <3>5. BrowserInv'
            BY <3>1, <3>3, <3>4 DEF BrowserInv
        <3> QED
            BY <1>2, <1>3, <1>4, <2>2, <3>1, <3>2, <3>5, IndexNotOlder DEF StepKeeps, BrowsingListsInv, ScansFollow
    <2>3. CASE asks[a].pc = "answered"
        <3> DEFINE leaf == asks[a].answer
                   error == browser.error
        <3>1. browser' = [browser EXCEPT !.page = leaf, !.loading = FALSE, !.revalidating = FALSE]
            BY <1>7, <2>3 DEF PageArrives
        <3>2. /\ leaf \in PageRec \cup {NoPage} /\ IsPage(leaf, KeyOf(browser)) /\ NotOlder(leaf, browser.page)
              /\ error \in BOOLEAN
            BY <1>5, <2>1, <2>3 DEF AskRec, AskWell, IsUnderWay, IsNewer, NotOlder, BrowserRec
        <3>3. [browser EXCEPT !.error = error] = browser
            BY <1>5 DEF BrowserRec
        <3> HIDE DEF leaf
        <3>4. browser' = [[browser EXCEPT !.error = error] EXCEPT !.page = leaf, !.loading = FALSE, !.revalidating = FALSE]
            BY <3>1, <3>3
        <3> HIDE DEF error
        <3>5. browser' = [browser EXCEPT !.page = leaf, !.error = error, !.loading = FALSE, !.revalidating = FALSE]
            BY <1>5, <3>4 DEF BrowserRec
        <3> QED
            BY <2>2, <3>2, <3>5
    <2>4. CASE asks[a].pc # "answered"
        <3> DEFINE leaf == browser.page
                   error == browser.loading
        <3>1. browser' = [browser EXCEPT !.error = error, !.loading = FALSE, !.revalidating = FALSE]
            BY <1>7, <2>4 DEF PageArrives
        <3>2. leaf \in PageRec \cup {NoPage} /\ error \in BOOLEAN /\ NotOlder(leaf, browser.page)
            BY <1>5, SameNotOlder DEF BrowserRec
        <3>3. [browser EXCEPT !.page = leaf] = browser
            BY <1>5 DEF BrowserRec
        <3> HIDE DEF error
        <3>4. browser' = [[browser EXCEPT !.page = leaf] EXCEPT !.error = error, !.loading = FALSE, !.revalidating = FALSE]
            BY <3>1, <3>3
        <3>5. browser' = [browser EXCEPT !.page = leaf, !.error = error, !.loading = FALSE, !.revalidating = FALSE]
            BY <3>4
        <3> QED
            BY <1>5, <2>2, <3>2, <3>5
    <2> QED
        BY <2>3, <2>4
<1> QED
    BY <1>6, <1>7

-----------------------------------------------------------------------------
(* Browsing a storage: the list of the buckets.                              *)

LEMMA LoadsIndexStep ==
    ASSUME BrowsingListsInv, NEW shown \in IndexRec, NEW rest, IsKept(rest), LoadsIndex(shown, rest),
           shown.list = index.list, ~shown.revalidating,
           index.list = NoPage \/ rest[IndexKey] = NotCached
    PROVE  StepKeeps
<1> DEFINE entry == rest[IndexKey]
           load == [initial |-> entry.value, first |-> Nowhere, fresh |-> Nowhere,
                    favourites |-> "asked", revalidated |-> FALSE]
           reval == shown.revalidating \/ entry.stale
<1>1. IndexKey \in AllKeys /\ entry \in EntryRec /\ EntryWell(IndexKey, entry)
    BY KeptIsWell DEF BrowsingListsInv, AllKeys
<1>2. /\ index' = [shown EXCEPT !.revalidating = reval]
      /\ listed' = listed /\ browser' = browser /\ listWaits' = listWaits
    BY DEF LoadsIndex, listingVars
<1>3. entry.value \in PageRec \cup {NoPage} /\ entry.stale \in BOOLEAN /\ entry.ask \in ListAsks \cup {Nowhere}
    BY <1>1 DEF EntryRec
<1>4. IsPage(entry.value, IndexKey) /\ (entry.stale => entry.value # NoPage)
    BY <1>1 DEF EntryWell
<1>5. reval = entry.stale
    BY <1>3
<1>6. /\ load \in IndexLoadRec /\ load.initial = entry.value /\ load.first = Nowhere /\ load.fresh = Nowhere
      /\ load.favourites = "asked" /\ load.revalidated = FALSE
    BY <1>3 DEF IndexLoadRec
<1>7. index' \in IndexRec /\ index'.list = index.list /\ index'.revalidating = entry.stale
    <2> HIDE DEF reval, entry
    <2> QED
        BY <1>2, <1>3, <1>5 DEF IndexRec
<1>8. IsPage(index.list, IndexKey) /\ NotOlder(index'.list, index.list)
    BY <1>7, SameNotOlder DEF BrowsingListsInv, IndexInv
<1>9. NotOlder(browser'.page, browser.page)
    BY <1>2, SameNotOlder DEF BrowsingListsInv, BrowserInv
<1>10. index.list = NoPage \/ (entry.value = NoPage /\ entry.ask = Nowhere)
    BY KeysAre
<1> HIDE DEF load, reval, entry
<1>11. CASE IsCurrent(entry) /\ indexLoad' = load /\ entries' = rest /\ asks' = asks
    <2>1. /\ CachesInv' /\ \A c \in ListAsks : Stays(c)
          /\ \A k \in AllKeys : entries'[k].value = rest[k].value
        BY <1>2, <1>11, CurrentIs DEF BrowsingListsInv
    <2>2. NoneOlder
        BY <2>1, KeptNotOlder DEF BrowsingListsInv
    <2>3. BrowserInv'
        <3>1. \A c \in listWaits : c \in ListAsks
            BY DEF BrowsingListsInv, BrowserInv
        <3> QED
            BY <1>2, <2>1, <3>1, BrowserStays DEF BrowsingListsInv
    <2>4. IndexInv'
        <3>1. entry.value # NoPage /\ ~entry.stale /\ index.list = NoPage
            BY <1>10, <1>11 DEF IsCurrent
        <3>2. indexLoad' = load
            BY <1>11
        <3> QED
            BY <1>2, <1>4, <1>6, <1>7, <1>8, <3>1, <3>2 DEF IndexInv, IsPage
    <2> QED
        BY <1>8, <1>9, <2>1, <2>2, <2>3, <2>4 DEF StepKeeps, BrowsingListsInv
<1>12. ASSUME NEW a \in ListAsks, ~IsCurrent(entry), Awaits(rest, IndexKey, a),
              indexLoad' = IF entry.stale THEN [load EXCEPT !.fresh = a] ELSE [load EXCEPT !.first = a]
       PROVE  StepKeeps
    <2>1. /\ CachesInv' /\ IsUnderWay(a, IndexKey)'
          /\ asks'[a].pc = "answered" /\ entry.value # NoPage => asks'[a].answer.ver >= entry.value.ver
          /\ \A c \in ListAsks : asks[c].pc # "free" => Stays(c)
          /\ entry.ask = Nowhere => asks'[a].pc = "asked"
          /\ \A k \in AllKeys : entries'[k].value = rest[k].value
        BY <1>1, <1>2, <1>12, AwaitsIs DEF BrowsingListsInv, entry
    <2>2. NoneOlder
        BY <2>1, KeptNotOlder DEF BrowsingListsInv
    <2>3. BrowserInv'
        <3>1. \A c \in listWaits : c \in ListAsks /\ asks[c].pc # "free"
            BY DEF BrowsingListsInv, BrowserInv, IsUnderWay
        <3> QED
            BY <1>2, <2>1, <3>1, BrowserStays DEF BrowsingListsInv
    <2>4. IsNewer(a, index.list)'
        BY <1>7, <1>10, <2>1 DEF IsNewer
    <2>5. CASE entry.stale
        <3>1. /\ indexLoad' \in IndexLoadRec /\ indexLoad'.initial = entry.value /\ indexLoad'.first = Nowhere
              /\ indexLoad'.fresh = a /\ indexLoad'.favourites = "asked" /\ indexLoad'.revalidated = FALSE
            BY <1>6, <1>12, <2>5 DEF IndexLoadRec
        <3>2. IsNewer(a, indexLoad.initial)'
            BY <2>1, <3>1 DEF IsNewer
        <3>3. index.list = NoPage /\ entry.value # NoPage
            BY <1>4, <1>10, <2>5
        <3>4. IndexInv'
            BY <1>2, <1>4, <1>7, <1>8, <2>1, <2>4, <3>1, <3>2, <3>3, KeysAre DEF IndexInv, IsPage
        <3> QED
            BY <1>8, <1>9, <2>1, <2>2, <2>3, <3>4 DEF StepKeeps, BrowsingListsInv
    <2>6. CASE ~entry.stale
        <3>1. /\ indexLoad' \in IndexLoadRec /\ indexLoad'.initial = entry.value /\ indexLoad'.first = a
              /\ indexLoad'.fresh = Nowhere /\ indexLoad'.favourites = "asked" /\ indexLoad'.revalidated = FALSE
            BY <1>6, <1>12, <2>6 DEF IndexLoadRec
        <3>2. entry.value = NoPage
            BY <1>12, <2>6 DEF IsCurrent
        <3>3. IndexInv'
            BY <1>2, <1>4, <1>7, <1>8, <2>1, <2>4, <2>6, <3>1, <3>2, KeysAre DEF IndexInv, IsPage
        <3> QED
            BY <1>8, <1>9, <2>1, <2>2, <2>3, <3>3 DEF StepKeeps, BrowsingListsInv
    <2> QED
        BY <1>3, <2>5, <2>6
<1> QED
    BY <1>11, <1>12 DEF LoadsIndex, load, entry

LEMMA IndexOpensStep == ASSUME BrowsingListsInv, IndexOpens PROVE StepKeeps
<1>1. /\ LoadsIndex(index, entries) /\ index \in IndexRec
      /\ index.list = NoPage /\ ~index.revalidating
    BY DEF BrowsingListsInv, IndexInv, IndexOpens
<1> QED
    BY <1>1, EntriesAreKept, LoadsIndexStep DEF BrowsingListsInv

LEMMA RefreshesIndexStep == ASSUME BrowsingListsInv, RefreshesIndex PROVE StepKeeps
<1> DEFINE shown == [index EXCEPT !.refreshing = TRUE, !.error = FALSE]
           rest == Forgetting({IndexKey})
<1>1. LoadsIndex(shown, rest) /\ index \in IndexRec /\ ~index.revalidating
    BY DEF BrowsingListsInv, IndexInv, RefreshesIndex
<1>2. shown \in IndexRec /\ shown.list = index.list /\ shown.revalidating = index.revalidating
    BY <1>1 DEF IndexRec
<1>3. IsKept(rest) /\ rest[IndexKey] = NotCached
    BY ForgettingKeeps DEF BrowsingListsInv, AllKeys
<1> HIDE DEF shown, rest
<1> QED
    BY <1>1, <1>2, <1>3, LoadsIndexStep

LEMMA BothArriveIs ==
    ASSUME index \in IndexRec, NEW load \in IndexLoadRec, BothArrive(load, index)
    PROVE  /\ index' \in IndexRec /\ index'.loaded /\ ~index'.refreshing
           /\ index'.revalidating = index.revalidating
           /\ index'.list = IF load.revalidated THEN index.list ELSE load.initial
           /\ indexLoad' \in IndexLoadRec /\ indexLoad'.initial = NoPage /\ indexLoad'.favourites = "over"
           /\ indexLoad'.first = load.first /\ indexLoad'.fresh = load.fresh
           /\ indexLoad'.revalidated = load.revalidated
<1> DEFINE list == IF load.revalidated THEN index.list ELSE load.initial
<1>1. list \in PageRec \cup {NoPage}
    BY DEF IndexRec, IndexLoadRec
<1>2. /\ indexLoad' = [load EXCEPT !.initial = NoPage, !.favourites = "over"]
      /\ index' = [[index EXCEPT !.error = FALSE, !.list = list] EXCEPT !.loaded = TRUE, !.refreshing = FALSE]
    BY DEF BothArrive, Loaded
<1> HIDE DEF list
<1>3. /\ index' \in IndexRec /\ index'.loaded /\ ~index'.refreshing
      /\ index'.revalidating = index.revalidating /\ index'.list = list
    BY <1>1, <1>2 DEF IndexRec
<1>4. /\ indexLoad' \in IndexLoadRec /\ indexLoad'.initial = NoPage /\ indexLoad'.favourites = "over"
      /\ indexLoad'.first = load.first /\ indexLoad'.fresh = load.fresh
      /\ indexLoad'.revalidated = load.revalidated
    BY <1>2 DEF IndexLoadRec
<1> QED
    BY <1>3, <1>4 DEF list

LEMMA LoadedIs ==
    ASSUME NEW i \in IndexRec
    PROVE  LET j == Loaded([i EXCEPT !.error = TRUE]) IN
           j \in IndexRec /\ j.loaded /\ ~j.refreshing /\ j.revalidating = i.revalidating /\ j.list = i.list
    BY DEF Loaded, IndexRec

LEMMA FavouritesArriveStep == ASSUME BrowsingListsInv, FavouritesArrive PROVE StepKeeps
<1>1. /\ listed' = listed /\ entries' = entries /\ asks' = asks /\ browser' = browser /\ listWaits' = listWaits
      /\ indexLoad.favourites = "asked"
    BY DEF FavouritesArrive, keptVars, listingVars
<1>2. CachesInv' /\ NoneOlder
    BY <1>1, EntriesAreKept, CurrentIs, KeptNotOlder DEF BrowsingListsInv
<1>3. BrowserInv' /\ NotOlder(browser'.page, browser.page)
    BY <1>1, BrowserStays, SameNotOlder DEF BrowsingListsInv, Stays, BrowserInv
<1>4. IndexInv /\ index \in IndexRec /\ indexLoad \in IndexLoadRec
    BY DEF BrowsingListsInv, IndexInv
<1>5. \A b, leaf : IsNewer(b, leaf) => IsNewer(b, leaf)'
    BY <1>1 DEF IsNewer
<1>6. \A b, key : IsUnderWay(b, key) => IsUnderWay(b, key)'
    BY <1>1 DEF IsUnderWay
<1>7. \A leaf, key : IsPage(leaf, key) => IsPage(leaf, key)'
    BY <1>1 DEF IsPage
<1>8. CASE /\ index' = Loaded([index EXCEPT !.error = TRUE])
           /\ indexLoad' = [indexLoad EXCEPT !.favourites = "over"]
    <2>1. /\ index' \in IndexRec /\ index'.loaded /\ ~index'.refreshing
          /\ index'.revalidating = index.revalidating /\ index'.list = index.list
        BY <1>4, <1>8, LoadedIs
    <2>2. /\ indexLoad' \in IndexLoadRec /\ indexLoad'.initial = indexLoad.initial /\ indexLoad'.favourites = "over"
          /\ indexLoad'.first = indexLoad.first /\ indexLoad'.fresh = indexLoad.fresh
          /\ indexLoad'.revalidated = indexLoad.revalidated
        BY <1>4, <1>8 DEF IndexLoadRec
    <2>3. IndexInv'
        BY <1>4, <1>5, <1>6, <1>7, <2>1, <2>2 DEF IndexInv
    <2>4. NotOlder(index'.list, index.list)
        BY <1>4, <2>1, SameNotOlder DEF IndexInv
    <2> QED
        BY <1>2, <1>3, <2>3, <2>4 DEF StepKeeps, BrowsingListsInv
<1>9. CASE indexLoad.initial # NoPage /\ BothArrive(indexLoad, index)
    <2>1. /\ index' \in IndexRec /\ index'.loaded /\ ~index'.refreshing
          /\ index'.revalidating = index.revalidating
          /\ index'.list = IF indexLoad.revalidated THEN index.list ELSE indexLoad.initial
          /\ indexLoad' \in IndexLoadRec /\ indexLoad'.initial = NoPage /\ indexLoad'.favourites = "over"
          /\ indexLoad'.first = indexLoad.first /\ indexLoad'.fresh = indexLoad.fresh
          /\ indexLoad'.revalidated = indexLoad.revalidated
        BY <1>4, <1>9, BothArriveIs
    <2>2. indexLoad.first = Nowhere
        BY <1>4, <1>9 DEF IndexInv
    <2>3. NotOlder(index'.list, index.list) /\ IsPage(index'.list, IndexKey)
        <3>1. CASE indexLoad.revalidated
            BY <1>4, <2>1, <3>1, SameNotOlder DEF IndexInv
        <3>2. CASE ~indexLoad.revalidated
            BY <1>4, <1>9, <2>1, <3>2 DEF IndexInv, NotOlder
        <3> QED
            BY <3>1, <3>2
    <2>4. indexLoad.fresh # Nowhere => IsNewer(indexLoad.fresh, index'.list) /\ IsNewer(indexLoad.fresh, NoPage)
        BY <1>4, <2>1 DEF IndexInv, IsNewer
    <2>5. IsPage(NoPage, IndexKey)
        BY DEF IsPage
    <2>6. IndexInv'
        BY <1>4, <1>5, <1>6, <1>7, <2>1, <2>2, <2>3, <2>4, <2>5 DEF IndexInv
    <2> QED
        BY <1>2, <1>3, <2>3, <2>6 DEF StepKeeps, BrowsingListsInv
<1>10. CASE indexLoad.initial = NoPage /\ indexLoad' = [indexLoad EXCEPT !.favourites = "have"] /\ index' = index
    <2>1. /\ indexLoad' \in IndexLoadRec /\ indexLoad'.initial = indexLoad.initial /\ indexLoad'.favourites = "have"
          /\ indexLoad'.first = indexLoad.first /\ indexLoad'.fresh = indexLoad.fresh
          /\ indexLoad'.revalidated = indexLoad.revalidated
        BY <1>4, <1>10 DEF IndexLoadRec
    <2>2. indexLoad.first # Nowhere
        BY <1>1, <1>4, <1>10 DEF IndexInv
    <2>3. IndexInv'
        BY <1>4, <1>5, <1>6, <1>7, <1>10, <2>1, <2>2 DEF IndexInv
    <2>4. NotOlder(index'.list, index.list)
        BY <1>4, <1>10, SameNotOlder DEF IndexInv
    <2> QED
        BY <1>2, <1>3, <2>3, <2>4 DEF StepKeeps, BrowsingListsInv
<1> QED
    BY <1>8, <1>9, <1>10 DEF FavouritesArrive

LEMMA BucketsArriveStep ==
    ASSUME BrowsingListsInv, NEW a \in ListAsks, asks[a].key = IndexKey, BucketsArrive(a) PROVE StepKeeps
<1> DEFINE ok == asks[a].pc = "answered"
           answer == asks[a].answer
<1>1. Commits(a) /\ browser' = browser /\ listWaits' = listWaits
    BY DEF BucketsArrive, listingVars
<1>2. CachesInv' /\ listed' = listed /\ NoneOlder /\ \A c \in ListAsks : c # a => Stays(c)
    BY <1>1, CommitsIs DEF BrowsingListsInv
<1>3. BrowserInv' /\ NotOlder(browser'.page, browser.page)
    <2>1. browser \in BrowserRec
        BY DEF BrowsingListsInv, BrowserInv
    <2>2. KeyOf(browser) # IndexKey
        BY <2>1, KeysAre
    <2>3. \A c \in listWaits : c \in ListAsks /\ c # a
        BY <2>2 DEF BrowsingListsInv, BrowserInv, IsUnderWay
    <2> QED
        BY <1>1, <1>2, <2>3, BrowserStays, SameNotOlder DEF BrowsingListsInv, BrowserInv
<1>4. IndexInv /\ index \in IndexRec /\ indexLoad \in IndexLoadRec /\ a # Nowhere
    BY KeysAre DEF BrowsingListsInv, IndexInv
<1>5. ok => answer \in PageRec /\ IsPage(answer, IndexKey) /\ answer # NoPage
    BY DEF BrowsingListsInv, CachesInv, AskWell, IsPage
<1>6. \A c \in ListAsks \ {a} : \A leaf : IsNewer(c, leaf) => IsNewer(c, leaf)'
    BY <1>2 DEF IsNewer, Stays
<1>7. \A c \in ListAsks \ {a} : \A key : IsUnderWay(c, key) => IsUnderWay(c, key)'
    BY <1>2 DEF IsUnderWay, Stays
<1>8. \A leaf, key : IsPage(leaf, key) => IsPage(leaf, key)'
    BY <1>2 DEF IsPage
<1>9. /\ indexLoad.first # Nowhere => indexLoad.first \in ListAsks /\ indexLoad.fresh = Nowhere
      /\ indexLoad.fresh # Nowhere => indexLoad.fresh \in ListAsks /\ indexLoad.first = Nowhere
    BY <1>4 DEF IndexInv, IndexLoadRec
<1>10. IsPage(NoPage, IndexKey)
    BY DEF IsPage
<1>11. CASE /\ a = indexLoad.fresh
            /\ index' = [index EXCEPT !.list = IF ok THEN answer ELSE @, !.revalidating = FALSE]
            /\ indexLoad' = [indexLoad EXCEPT !.fresh = Nowhere, !.revalidated = ok]
    <2> DEFINE list == IF ok THEN answer ELSE index.list
               good == ok
    <2>1. list \in PageRec \cup {NoPage} /\ good \in BOOLEAN
        BY <1>4, <1>5 DEF IndexRec
    <2>2. /\ index' = [index EXCEPT !.list = list, !.revalidating = FALSE]
          /\ indexLoad' = [indexLoad EXCEPT !.fresh = Nowhere, !.revalidated = good]
        BY <1>11
    <2>3. IsPage(list, IndexKey) /\ NotOlder(list, index.list)
        <3>1. CASE ok
            <4>1. IsNewer(a, index.list)
                BY <1>4, <1>11 DEF IndexInv
            <4> QED
                BY <1>5, <3>1, <4>1 DEF IsNewer, NotOlder
        <3>2. CASE ~ok
            BY <1>4, <3>2, SameNotOlder DEF IndexInv
        <3> QED
            BY <3>1, <3>2
    <2>4. ~good => list = index.list
        OBVIOUS
    <2> HIDE DEF list, good
    <2>5. /\ index' \in IndexRec /\ index'.list = list /\ index'.revalidating = FALSE
          /\ index'.loaded = index.loaded /\ index'.refreshing = index.refreshing
          /\ indexLoad' \in IndexLoadRec /\ indexLoad'.fresh = Nowhere /\ indexLoad'.revalidated = good
          /\ indexLoad'.initial = indexLoad.initial /\ indexLoad'.first = indexLoad.first
          /\ indexLoad'.favourites = indexLoad.favourites
        BY <1>4, <2>1, <2>2 DEF IndexRec, IndexLoadRec
    <2>6. indexLoad.first = Nowhere
        BY <1>4, <1>9, <1>11
    <2>7. ~good /\ indexLoad.initial # NoPage /\ list # NoPage => indexLoad.initial.ver >= list.ver
        <3> SUFFICES ASSUME ~good, indexLoad.initial # NoPage, list # NoPage
                     PROVE  indexLoad.initial.ver >= list.ver
            OBVIOUS
        <3>1. list = index.list
            BY <2>4
        <3>2. ~indexLoad.revalidated
            BY <1>4, <1>11 DEF IndexInv
        <3> QED
            BY <1>4, <3>1, <3>2 DEF IndexInv
    <2>8. IsPage(index.list, IndexKey)' /\ IsPage(indexLoad.initial, IndexKey)'
        BY <1>4, <1>8, <2>3, <2>5 DEF IndexInv
    <2>9. indexLoad'.initial # NoPage /\ index'.list # NoPage /\ ~indexLoad'.revalidated
              => indexLoad'.initial.ver >= index'.list.ver
        BY <2>5, <2>7
    <2>10. IndexInv'
        <3>1. indexLoad.favourites \notin {"none", "have"} /\ indexLoad'.first = Nowhere
            BY <1>4, <1>9, <1>11, <2>5, <2>6 DEF IndexInv
        <3> QED
            BY <1>4, <2>5, <2>6, <2>8, <2>9, <3>1 DEF IndexInv
    <2> QED
        BY <1>2, <1>3, <2>3, <2>5, <2>10 DEF StepKeeps, BrowsingListsInv
<1>12. ASSUME a = indexLoad.first PROVE indexLoad.fresh = Nowhere /\ indexLoad.initial = NoPage /\ ~index.revalidating
    BY <1>4, <1>12 DEF IndexInv
<1>13. CASE /\ a = indexLoad.first /\ ~ok
            /\ index' = IF indexLoad.favourites = "over" THEN index ELSE Loaded([index EXCEPT !.error = TRUE])
            /\ indexLoad' = [indexLoad EXCEPT !.first = Nowhere, !.favourites = "over"]
    <2>1. /\ index' \in IndexRec /\ index'.loaded /\ ~index'.refreshing
          /\ index'.revalidating = index.revalidating /\ index'.list = index.list
        <3>1. CASE indexLoad.favourites = "over"
            BY <1>4, <1>13, <3>1 DEF IndexInv
        <3>2. CASE indexLoad.favourites # "over"
            BY <1>4, <1>13, <3>2, LoadedIs
        <3> QED
            BY <3>1, <3>2
    <2>2. /\ indexLoad' \in IndexLoadRec /\ indexLoad'.first = Nowhere /\ indexLoad'.favourites = "over"
          /\ indexLoad'.initial = indexLoad.initial /\ indexLoad'.fresh = indexLoad.fresh
          /\ indexLoad'.revalidated = indexLoad.revalidated
        BY <1>4, <1>13 DEF IndexLoadRec
    <2>3. IsPage(index.list, IndexKey)' /\ IsPage(indexLoad.initial, IndexKey)'
        BY <1>4, <1>8, <1>10, <1>12, <1>13, <2>1, <2>2 DEF IndexInv
    <2>4. IndexInv'
        BY <1>12, <1>13, <2>1, <2>2, <2>3 DEF IndexInv
    <2>5. NotOlder(index'.list, index.list)
        BY <1>4, <2>1, SameNotOlder DEF IndexInv
    <2> QED
        BY <1>2, <1>3, <2>4, <2>5 DEF StepKeeps, BrowsingListsInv
<1>14. CASE /\ a = indexLoad.first /\ ok
            /\ LET load == [indexLoad EXCEPT !.first = Nowhere, !.initial = answer] IN
               IF load.favourites = "have" THEN BothArrive(load, index)
               ELSE indexLoad' = load /\ UNCHANGED index
    <2> DEFINE load == [indexLoad EXCEPT !.first = Nowhere, !.initial = answer]
    <2>1. /\ load \in IndexLoadRec /\ load.first = Nowhere /\ load.initial = answer /\ load.fresh = indexLoad.fresh
          /\ load.favourites = indexLoad.favourites /\ load.revalidated = indexLoad.revalidated
        <3> HIDE DEF answer
        <3> QED
            BY <1>4, <1>5, <1>14 DEF IndexLoadRec
    <2>2. IF load.favourites = "have" THEN BothArrive(load, index) ELSE indexLoad' = load /\ index' = index
        BY <1>14
    <2>3. index.list # NoPage => answer.ver >= index.list.ver
        BY <1>4, <1>14 DEF IndexInv, IsNewer
    <2>4. /\ answer \in PageRec /\ IsPage(answer, IndexKey) /\ answer # NoPage
          /\ IsPage(index.list, IndexKey) /\ NotOlder(index.list, index.list)
        BY <1>4, <1>5, <1>14, SameNotOlder DEF IndexInv
    <2> HIDE DEF load, answer, ok
    <2>5. CASE indexLoad.favourites = "have"
        <3>1. /\ index' \in IndexRec /\ index'.loaded /\ ~index'.refreshing
              /\ index'.revalidating = index.revalidating
              /\ index'.list = IF load.revalidated THEN index.list ELSE load.initial
              /\ indexLoad' \in IndexLoadRec /\ indexLoad'.initial = NoPage /\ indexLoad'.favourites = "over"
              /\ indexLoad'.first = load.first /\ indexLoad'.fresh = load.fresh
              /\ indexLoad'.revalidated = load.revalidated
            BY <1>4, <2>1, <2>2, <2>5, BothArriveIs
        <3>2. IsPage(index'.list, IndexKey) /\ NotOlder(index'.list, index.list)
            BY <2>1, <2>3, <2>4, <3>1 DEF NotOlder
        <3>3. IndexInv'
            BY <1>8, <1>10, <1>12, <1>14, <2>1, <3>1, <3>2 DEF IndexInv
        <3> QED
            BY <1>2, <1>3, <3>2, <3>3 DEF StepKeeps, BrowsingListsInv
    <2>6. CASE indexLoad.favourites # "have"
        <3>1. indexLoad' = load /\ index' = index
            BY <2>1, <2>2, <2>6
        <3>2. IndexInv'
            BY <1>4, <1>8, <1>12, <1>14, <2>1, <2>3, <2>4, <2>6, <3>1 DEF IndexInv
        <3> QED
            BY <1>2, <1>3, <2>4, <3>1, <3>2 DEF StepKeeps, BrowsingListsInv
    <2> QED
        BY <2>5, <2>6
<1>15. CASE a \notin {indexLoad.fresh, indexLoad.first} /\ UNCHANGED indexVars
    <2>1. IndexInv'
        BY <1>2, <1>4, <1>9, <1>15, IndexStays
    <2>2. index' = index
        BY <1>15 DEF indexVars
    <2> QED
        BY <1>2, <1>3, <2>1, <2>2, IndexNotOlder DEF StepKeeps, BrowsingListsInv
<1> QED
    BY <1>11, <1>13, <1>14, <1>15 DEF BucketsArrive

-----------------------------------------------------------------------------
(* Browsing a storage: lists only get newer.                                 *)

LEMMA ListsStart == ASSUME BrowsingInit PROVE BrowsingListsInv
<1>1. /\ listed = 1 /\ asks = [a \in ListAsks |-> NoAsk] /\ browser = BlankBrowser /\ listWaits = {}
      /\ index = [list |-> NoPage, loaded |-> FALSE, refreshing |-> FALSE, revalidating |-> FALSE, error |-> FALSE]
      /\ indexLoad = [initial |-> NoPage, first |-> Nowhere, fresh |-> Nowhere,
                      favourites |-> "none", revalidated |-> FALSE]
    BY DEF BrowsingInit
<1>2. PICK had \in SUBSET ({IndexKey} \cup {FirstPage(d) : d \in Dirs}) :
          entries = [k \in AllKeys |-> IF k \in had THEN EarlierVisit(k) ELSE NotCached]
    BY Zenon DEF BrowsingInit, AllKeys
<1>3. ASSUME NEW k \in AllKeys
      PROVE  EarlierVisit(k) \in EntryRec /\ EntryWell(k, EarlierVisit(k)) /\ EntryWell(k, NotCached)
    <2> DEFINE leaf == [ver |-> 1, key |-> k, more |-> "none"]
    <2>1. leaf \in PageRec /\ leaf.ver = 1 /\ leaf.key = k
        BY DEF PageRec
    <2>2. EarlierVisit(k) = [NotCached EXCEPT !.value = leaf]
        BY DEF EarlierVisit
    <2> HIDE DEF leaf
    <2>3. /\ EarlierVisit(k) \in EntryRec /\ EarlierVisit(k).value = leaf
          /\ ~EarlierVisit(k).stale /\ EarlierVisit(k).ask = Nowhere
        BY <2>1, <2>2 DEF EntryRec, NotCached
    <2> QED
        BY <1>1, <2>1, <2>3, KeysAre DEF EntryWell, IsPage
<1>4. entries \in [AllKeys -> EntryRec] /\ \A k \in AllKeys : EntryWell(k, entries[k])
    BY <1>2, <1>3, KeysAre
<1>5. CachesInv
    BY <1>1, <1>4, KeysAre DEF CachesInv, CacheTypes, AskWell
<1>6. BrowserInv
    <2>1. 0 \in 0..MaxCursor /\ 1 \in 1..(MaxCursor + 1)
        BY BrowsingAssumption
    <2>2. browser \in BrowserRec
        BY <1>1, <2>1, BrowsingAssumption DEF BlankBrowser, BrowserRec
    <2> QED
        BY <1>1, <2>2 DEF BrowserInv, IsPage, BlankBrowser
<1>7. IndexInv
    <2>1. index \in IndexRec /\ indexLoad \in IndexLoadRec
        BY <1>1 DEF IndexRec, IndexLoadRec
    <2> QED
        BY <1>1, <2>1 DEF IndexInv, IsPage
<1> QED
    BY <1>5, <1>6, <1>7 DEF BrowsingListsInv

LEMMA ListsStay ==
    ASSUME BrowsingListsInv, UNCHANGED <<keptVars, listingVars, indexVars>> PROVE StepKeeps
<1>1. /\ listed' = listed /\ entries' = entries /\ asks' = asks /\ browser' = browser /\ listWaits' = listWaits
      /\ index' = index /\ indexLoad' = indexLoad
    BY DEF keptVars, listingVars, indexVars
<1>2. CachesInv' /\ NoneOlder
    BY <1>1, EntriesAreKept, CurrentIs, KeptNotOlder DEF BrowsingListsInv
<1>3. BrowserInv' /\ NotOlder(browser'.page, browser.page)
    BY <1>1, BrowserStays, SameNotOlder DEF BrowsingListsInv, Stays, BrowserInv
<1>4. IndexInv'
    BY <1>1, IndexStays DEF BrowsingListsInv, Stays, indexVars
<1> QED
    BY <1>1, <1>2, <1>3, <1>4, IndexNotOlder DEF StepKeeps, BrowsingListsInv

LEMMA BrowserStepKeeps == ASSUME BrowsingListsInv, BrowserStep PROVE StepKeeps /\ ScansFollow
<1>1. browser \in BrowserRec
    BY DEF BrowsingListsInv, BrowserInv
<1>2. CASE SubmitsWords
    <2> DEFINE words == browser.typed
    <2>1. Submits([browser EXCEPT !.words = words, !.typed = Nowhere])
        BY <1>2 DEF SubmitsWords
    <2>2. words \in Words
        BY <1>1, <1>2 DEF SubmitsWords, BrowserRec
    <2> HIDE DEF words
    <2> QED
        BY <2>1, <2>2, SubmitsStep
<1>3. CASE ClearsWords
    BY <1>3, SubmitsStep, BrowsingAssumption DEF ClearsWords
<1>4. ASSUME NEW w \in Words, TypesWords(w) PROVE StepKeeps /\ ScansFollow
    BY <1>4, TypesStep DEF TypesWords
<1>5. ASSUME NEW a \in ListAsks, asks[a].key # IndexKey, PageArrives(a), UNCHANGED <<indexVars, scanVars>>
      PROVE  StepKeeps /\ ScansFollow
    BY <1>5, PageArrivesStep
<1>6. ASSUME NEW d \in Dirs, EntersDir(d) PROVE StepKeeps /\ ScansFollow
    BY <1>6, EntersDirStep
<1>7. CASE BrowserOpens \/ SetsRecursive \/ NextPage \/ VisitedPage \/ RefreshesList
    BY <1>7, BrowserOpensStep, SetsRecursiveStep, NextPageStep, VisitedPageStep, RefreshesListStep
<1> QED
    BY <1>2, <1>3, <1>4, <1>5, <1>6, <1>7 DEF BrowserStep

LEMMA BrowsingStepKeeps ==
    ASSUME BrowsingListsInv, BrowsingNext \/ UNCHANGED browsingVars
    PROVE  StepKeeps
<1>1. CASE ListsStep
    <2>1. browser' = browser /\ index' = index
        BY <1>1 DEF ListsStep, listingVars, indexVars
    <2>2. NotOlder(browser'.page, browser.page)
        BY <2>1, SameNotOlder DEF BrowsingListsInv, BrowserInv
    <2> QED
        BY <1>1, <2>1, <2>2, ListsStepKeeps, IndexNotOlder DEF StepKeeps
<1>2. CASE BrowserStep
    BY <1>2, BrowserStepKeeps
<1>3. CASE IndexStep
    BY <1>3, IndexOpensStep, RefreshesIndexStep, FavouritesArriveStep, BucketsArriveStep DEF IndexStep
<1>4. CASE ScanStep \/ UNCHANGED browsingVars
    BY <1>4, ListsStay DEF ScanStep, browsingVars
<1> QED
    BY <1>1, <1>2, <1>3, <1>4 DEF BrowsingNext

\* However requests, refreshes and the cache come in between, no list of a directory or of
\* the buckets, shown or cached, is replaced by an older one of the same place
\* (StorageBrowser.tsx:111-158, StorageIndex.tsx:43-88, cache.ts:137-157).
THEOREM NoOlderListReturns == BrowsingSpec => ListsOnlyGetNewer
<1> DEFINE Newer == /\ NotOlder(browser'.page, browser.page)
                    /\ NotOlder(index'.list, index.list)
                    /\ \A k \in DOMAIN entries : NotOlder(entries'[k].value, entries[k].value)
<1>1. BrowsingInit => BrowsingListsInv
    BY ListsStart
<1>2. BrowsingListsInv /\ [BrowsingNext]_browsingVars => BrowsingListsInv'
    BY BrowsingStepKeeps DEF StepKeeps
<1>3. BrowsingListsInv /\ [BrowsingNext]_browsingVars => Newer
    <2> SUFFICES ASSUME BrowsingListsInv, [BrowsingNext]_browsingVars PROVE Newer
        OBVIOUS
    <2>1. StepKeeps
        BY BrowsingStepKeeps
    <2>2. DOMAIN entries = AllKeys
        BY DEF BrowsingListsInv, CachesInv, CacheTypes
    <2> QED
        BY <2>1, <2>2 DEF StepKeeps, NoneOlder
<1>4. BrowsingListsInv /\ [BrowsingNext]_browsingVars => [Newer]_browsingVars
    BY <1>3
<1> HIDE DEF Newer
<1>5. BrowsingSpec => [][Newer]_browsingVars
    BY <1>1, <1>2, <1>4, PTL DEF BrowsingSpec
<1> QED
    BY <1>5 DEF ListsOnlyGetNewer, Newer

-----------------------------------------------------------------------------
(* Browsing a storage: what is told of scans.                                *)

ScanPlaces == [dir : Dirs, words : Words]

ScanRec == [place : ScanPlaces, status : {"open", "done", "error", "canceled"}]

CallRec == [by : {"banner", "dialog", "start", "poll"}, place : ScanPlaces, job : Nat,
            answer : {"not yet", "open", "done", "error", "canceled", "none", "failed"}, mine : BOOLEAN]

BannerRec == [result : Nat, running : BOOLEAN, by : {"look", "dialog"}]

DialogRec == [open : BOOLEAN, job : Nat, running : BOOLEAN, canceled : BOOLEAN, result : Nat, error : BOOLEAN]

IsDone(j) == j \in DOMAIN jobs /\ jobs[j].status = "done"

\* A request about scans, and what it was answered.
CallWell(c) ==
    /\ c.by = "poll" \/ c.answer = "open" => c.job \in DOMAIN jobs
    /\ c.answer = "done" => IsDone(c.job)
    /\ c.by = "banner" => /\ c.place = PlaceOf(browser)
                          /\ c.answer = "done" => jobs[c.job].place = c.place
    /\ c.by = "start" => c.answer \in {"not yet", "open", "failed"}

BannerWell(b) ==
    b.result # 0 => /\ IsDone(b.result)
                    /\ \/ jobs[b.result].place = PlaceOf(browser)
                       \/ b.by = "dialog"
                       \/ \E c \in calls : c.by = "banner"

DialogWell(d) ==
    /\ d.job # 0 => d.job \in DOMAIN jobs
    /\ d.result # 0 => IsDone(d.result)

HasAsked == \E c \in calls : c.by = "start" /\ c.mine

ScanInv ==
    /\ jobs \in Seq(ScanRec) /\ calls \subseteq CallRec
    /\ banner \in BannerRec /\ dialog \in DialogRec
    /\ \A c \in calls : CallWell(c)
    /\ BannerWell(banner) /\ DialogWell(dialog)
    /\ dialog.running => dialog.job # 0 \/ HasAsked

\* Scans that are there keep their place, and those that ended well stay so.
JobsKeep ==
    /\ jobs' \in Seq(ScanRec) /\ DOMAIN jobs \subseteq DOMAIN jobs'
    /\ \A j \in DOMAIN jobs : /\ jobs'[j].place = jobs[j].place
                              /\ jobs[j].status = "done" => jobs'[j].status = "done"

LEMMA SameJobs == ASSUME ScanInv, UNCHANGED jobs PROVE JobsKeep
    BY DEF ScanInv, JobsKeep

LEMMA DoneStays == ASSUME JobsKeep, NEW j, IsDone(j) PROVE IsDone(j)' /\ jobs'[j].place = jobs[j].place
    BY DEF JobsKeep, IsDone

LEMMA CallStays ==
    ASSUME JobsKeep, NEW c, CallWell(c), PlaceOf(browser') = PlaceOf(browser) \/ c.by # "banner"
    PROVE  CallWell(c)'
<1>1. IsDone(c.job) => IsDone(c.job)' /\ jobs'[c.job].place = jobs[c.job].place
    BY DoneStays
<1>2. c.job \in DOMAIN jobs => c.job \in DOMAIN jobs'
    BY DEF JobsKeep
<1> QED
    BY <1>1, <1>2 DEF CallWell

LEMMA DialogStays == ASSUME JobsKeep, NEW d, DialogWell(d) PROVE DialogWell(d)'
<1>1. IsDone(d.result) => IsDone(d.result)'
    BY DoneStays
<1> QED
    BY <1>1 DEF DialogWell, JobsKeep

LEMMA BannerStays ==
    ASSUME JobsKeep, NEW b, BannerWell(b), PlaceOf(browser') = PlaceOf(browser),
           (\E c \in calls : c.by = "banner") => \E c \in calls' : c.by = "banner"
    PROVE  BannerWell(b)'
<1>1. IsDone(b.result) => IsDone(b.result)' /\ jobs'[b.result].place = jobs[b.result].place
    BY DoneStays
<1> QED
    BY <1>1 DEF BannerWell

LEMMA ScanEnds ==
    ASSUME ScanInv, NEW j, NEW status \in {"done", "error", "canceled"}, Ends(j, status), j \in DOMAIN jobs
    PROVE  JobsKeep
<1> DEFINE job == [jobs[j] EXCEPT !.status = status]
<1>1. /\ jobs \in Seq(ScanRec) /\ jobs[j].status = "open" /\ jobs' = [jobs EXCEPT ![j] = job]
      /\ jobs[j] \in ScanRec
    BY DEF ScanInv, Ends
<1>2. job \in ScanRec /\ job.place = jobs[j].place
    BY <1>1 DEF ScanRec
<1> HIDE DEF job
<1>3. jobs' \in Seq(ScanRec) /\ DOMAIN jobs' = DOMAIN jobs
    BY <1>1, <1>2
<1>4. \A i \in DOMAIN jobs : jobs'[i] = IF i = j THEN job ELSE jobs[i]
    BY <1>1
<1> QED
    BY <1>1, <1>2, <1>3, <1>4 DEF JobsKeep

LEMMA ScanBegins ==
    ASSUME ScanInv, NEW place \in ScanPlaces, jobs' = Append(jobs, [place |-> place, status |-> "open"])
    PROVE  JobsKeep /\ Len(jobs) + 1 \in DOMAIN jobs'
<1> DEFINE job == [place |-> place, status |-> "open"]
<1>1. jobs \in Seq(ScanRec) /\ job \in ScanRec /\ jobs' = Append(jobs, job)
    BY DEF ScanInv, ScanRec
<1> HIDE DEF job
<1>2. jobs' \in Seq(ScanRec) /\ Len(jobs') = Len(jobs) + 1 /\ \A i \in 1..Len(jobs) : jobs'[i] = jobs[i]
    BY <1>1
<1>3. DOMAIN jobs = 1..Len(jobs) /\ DOMAIN jobs' = 1..Len(jobs') /\ Len(jobs) \in Nat
    BY <1>1, <1>2
<1> QED
    BY <1>2, <1>3 DEF JobsKeep

LEMMA CallIs ==
    ASSUME NEW by \in {"banner", "dialog", "start", "poll"}, NEW place \in ScanPlaces, NEW job \in Nat
    PROVE  /\ Call(by, place, job) \in CallRec /\ Call(by, place, job).answer = "not yet"
           /\ Call(by, place, job).by = by /\ Call(by, place, job).place = place
           /\ Call(by, place, job).job = job /\ Call(by, place, job).mine = TRUE
    BY DEF Call, CallRec

LEMMA PlacesAre == ASSUME BrowsingListsInv PROVE PlaceOf(browser) \in ScanPlaces /\ PlaceOf(BlankBrowser) \in ScanPlaces
<1>1. browser \in BrowserRec
    BY DEF BrowsingListsInv, BrowserInv
<1> QED
    BY <1>1, BrowsingAssumption DEF PlaceOf, ScanPlaces, BrowserRec, BlankBrowser

LEMMA ScansStart == ASSUME BrowsingInit PROVE ScanInv
<1>1. /\ jobs = <<>> /\ banner = [result |-> 0, running |-> FALSE, by |-> "look"]
      /\ dialog = ClosedDialog /\ calls = {}
    BY DEF BrowsingInit
<1>2. banner \in BannerRec /\ dialog \in DialogRec
    BY <1>1 DEF BannerRec, DialogRec, ClosedDialog
<1> QED
    BY <1>1, <1>2 DEF ScanInv, BannerWell, DialogWell, ClosedDialog

\* One is somewhere else, and the latest scan of that place is looked for.
LEMMA ScansFollowStep ==
    ASSUME BrowsingListsInv, BrowsingListsInv', ScanInv, ScansFollow PROVE ScanInv'
<1>1. JobsKeep /\ banner' = banner /\ dialog' = dialog /\ jobs' = jobs
    BY SameJobs DEF ScansFollow
<1>2. CASE calls' = calls /\ PlaceOf(browser') = PlaceOf(browser)
    <2>1. \A c \in calls : CallWell(c)'
        BY <1>1, <1>2, CallStays DEF ScanInv
    <2>2. BannerWell(banner)' /\ DialogWell(dialog)'
        <3>1. BannerWell(banner) /\ DialogWell(dialog)
            BY DEF ScanInv
        <3>2. ASSUME NEW b, BannerWell(b) PROVE BannerWell(b)'
            BY <1>1, <1>2, <3>2, BannerStays
        <3> QED
            BY <1>1, <3>1, <3>2, DialogStays
    <2> QED
        BY <1>1, <1>2, <2>1, <2>2 DEF ScanInv, HasAsked
<1>3. CASE LooksFor(PlaceOf(browser'))
    <2> DEFINE place == PlaceOf(browser')
               who == {"banner"} \cup (IF dialog.open THEN {"dialog"} ELSE {})
               old == calls \ Looks({"banner", "dialog"})
               new == {Call(by, place, 0) : by \in who}
    <2>1. calls' = old \cup new
        BY <1>3 DEF LooksFor
    <2>2. place \in ScanPlaces
        <3>1. browser' \in BrowserRec
            BY DEF BrowsingListsInv, BrowserInv
        <3> QED
            BY <3>1 DEF PlaceOf, ScanPlaces, BrowserRec
    <2>3. ASSUME NEW c \in new
          PROVE  c \in CallRec /\ c.by \in {"banner", "dialog"} /\ c.place = place /\ c.answer = "not yet"
        <3> HIDE DEF place
        <3>1. PICK by \in {"banner", "dialog"} : c = Call(by, place, 0)
            OBVIOUS
        <3> QED
            BY <2>2, <3>1 DEF Call, CallRec
    <2>4. \E c \in new : c.by = "banner"
        <3> HIDE DEF place
        <3>1. Call("banner", place, 0) \in new /\ Call("banner", place, 0).by = "banner"
            <4>1. "banner" \in who
                OBVIOUS
            <4> QED
                BY <4>1 DEF Call
        <3> QED
            BY <3>1
    <2>5. \A c \in old : c \in calls /\ c.by \notin {"banner", "dialog"}
        BY DEF Looks
    <2>6. \A c \in calls : c.by = "start" => c \in old
        BY DEF Looks
    <2> HIDE DEF old, new, who
    <2>7. calls' \subseteq CallRec
        BY <2>1, <2>3, <2>5 DEF ScanInv
    <2>8. ASSUME NEW c \in calls' PROVE CallWell(c)'
        <3>1. CASE c \in old
            BY <1>1, <2>5, <3>1, CallStays DEF ScanInv
        <3>2. CASE c \in new
            BY <2>3, <3>2 DEF CallWell
        <3> QED
            BY <2>1, <3>1, <3>2
    <2>9. \E c \in calls' : c.by = "banner"
        BY <2>1, <2>4
    <2>10. BannerWell(banner)'
        <3>1. banner.result # 0 => IsDone(banner.result)
            BY DEF ScanInv, BannerWell
        <3>2. IsDone(banner.result) => IsDone(banner.result)'
            BY <1>1 DEF IsDone
        <3> QED
            BY <1>1, <2>9, <3>1, <3>2 DEF BannerWell
    <2>11. DialogWell(dialog)'
        BY <1>1 DEF ScanInv, DialogWell, IsDone
    <2>12. HasAsked => HasAsked'
        BY <2>1, <2>6 DEF HasAsked
    <2> QED
        BY <1>1, <2>7, <2>8, <2>10, <2>11, <2>12 DEF ScanInv
<1> QED
    BY <1>2, <1>3 DEF ScansFollow

\* A request that was there stays well; a step answers for those it adds.
LEMMA ScansAre ==
    ASSUME ScanInv, JobsKeep, browser' = browser,
           \A c \in calls' : c \in calls \/ (c \in CallRec /\ CallWell(c)'),
           banner' \in BannerRec, BannerWell(banner)',
           dialog' \in DialogRec, DialogWell(dialog)',
           dialog'.running => dialog'.job # 0 \/ HasAsked'
    PROVE  ScanInv'
<1>1. calls' \subseteq CallRec
    BY DEF ScanInv
<1>2. PlaceOf(browser') = PlaceOf(browser)
    OBVIOUS
<1>3. ASSUME NEW c \in calls' PROVE CallWell(c)'
    <2>1. CASE c \in calls
        BY <1>2, <2>1, CallStays DEF ScanInv
    <2> QED
        BY <1>3, <2>1
<1> QED
    BY <1>1, <1>3 DEF ScanInv, JobsKeep

LEMMA ScanEndsStep ==
    ASSUME ScanInv, JobsKeep, browser' = browser, UNCHANGED <<banner, dialog, calls>> PROVE ScanInv'
<1>1. BannerWell(banner) /\ DialogWell(dialog)
    BY DEF ScanInv
<1>2. PlaceOf(browser') = PlaceOf(browser)
    OBVIOUS
<1>3. ASSUME NEW b, BannerWell(b) PROVE BannerWell(b)'
    BY <1>2, <1>3, BannerStays
<1>4. BannerWell(banner)' /\ DialogWell(dialog)'
    BY <1>1, <1>3, DialogStays
<1>5. \A c \in calls : CallWell(c)'
    BY <1>2, CallStays DEF ScanInv
<1> QED
    BY <1>4, <1>5 DEF ScanInv, JobsKeep, HasAsked

\* What the banner tells stays, with a look that is under way.
LEMMA BannerTells ==
    ASSUME ScanInv, JobsKeep, browser' = browser, banner' = banner, \A c \in calls : c.by = "banner" => \E d \in calls' : d.by = "banner"
    PROVE  banner' \in BannerRec /\ BannerWell(banner)'
<1>1. PlaceOf(browser') = PlaceOf(browser) /\ BannerWell(banner)
    BY DEF ScanInv
<1>2. ASSUME NEW b, BannerWell(b) PROVE BannerWell(b)'
    BY <1>1, <1>2, BannerStays
<1> QED
    BY <1>1, <1>2 DEF ScanInv

LEMMA DialogTells ==
    ASSUME ScanInv, JobsKeep, dialog' = dialog PROVE dialog' \in DialogRec /\ DialogWell(dialog)'
    BY DialogStays DEF ScanInv

LEMMA DialogOpensStep == ASSUME BrowsingListsInv, ScanInv, browser' = browser, DialogOpens PROVE ScanInv'
<1>0. PICK c : c = Call("dialog", PlaceOf(browser), 0)
    OBVIOUS
<1>1. JobsKeep /\ calls' = calls \cup {c} /\ banner' = banner
    BY <1>0, SameJobs DEF DialogOpens
<1>2. c \in CallRec /\ c.by = "dialog" /\ c.answer = "not yet"
    BY <1>0, PlacesAre DEF Call, CallRec
<1>3. dialog' \in DialogRec /\ dialog'.job = 0 /\ dialog'.result = 0 /\ ~dialog'.running
    BY DEF DialogOpens, ClosedDialog, DialogRec
<1>4. CallWell(c)' /\ DialogWell(dialog)'
    BY <1>2, <1>3 DEF CallWell, DialogWell
<1>5. banner' \in BannerRec /\ BannerWell(banner)'
    BY <1>1, BannerTells
<1> QED
    BY <1>1, <1>2, <1>3, <1>4, <1>5, ScansAre

LEMMA DialogClosesStep == ASSUME ScanInv, browser' = browser, DialogCloses PROVE ScanInv'
<1> DEFINE left == calls \ Looks({"dialog"})
           Closes(c) == [c EXCEPT !.mine = (c.by = "banner")]
           new == {Closes(c) : c \in left}
<1>1. JobsKeep /\ calls' = new /\ banner' = banner /\ dialog' = ClosedDialog
    BY SameJobs DEF DialogCloses
<1>2. ASSUME NEW c \in left
      PROVE  /\ Closes(c) \in CallRec /\ Closes(c).by = c.by /\ Closes(c).place = c.place
             /\ Closes(c).job = c.job /\ Closes(c).answer = c.answer /\ CallWell(c)'
    <2>1. c \in CallRec /\ CallWell(c)
        BY DEF ScanInv
    <2>2. CallWell(c)'
        BY <1>1, <2>1, CallStays
    <2> DEFINE mine == (c.by = "banner")
    <2>3. Closes(c) = [c EXCEPT !.mine = mine] /\ mine \in BOOLEAN
        OBVIOUS
    <2> HIDE DEF mine, Closes
    <2> QED
        BY <2>1, <2>2, <2>3 DEF CallRec
<1> HIDE DEF Closes
<1>3. ASSUME NEW c \in new PROVE c \in CallRec /\ CallWell(c)'
    <2>1. PICK b \in left : c = Closes(b)
        OBVIOUS
    <2>2. /\ c \in CallRec /\ c.by = b.by /\ c.place = b.place /\ c.job = b.job /\ c.answer = b.answer
          /\ CallWell(b)'
        BY <1>2, <2>1
    <2> QED
        BY <2>2 DEF CallWell
<1>4. ASSUME NEW c \in calls, c.by = "banner" PROVE \E d \in calls' : d.by = "banner"
    <2>1. c \in left
        BY <1>4 DEF Looks
    <2> HIDE DEF left
    <2>2. Closes(c) \in new /\ Closes(c).by = "banner"
        BY <1>2, <1>4, <2>1
    <2> QED
        BY <1>1, <2>2
<1>5. banner' \in BannerRec /\ BannerWell(banner)'
    BY <1>1, <1>4, BannerTells
<1>6. dialog' \in DialogRec /\ DialogWell(dialog)' /\ ~dialog'.running
    BY <1>1 DEF ClosedDialog, DialogRec, DialogWell
<1> HIDE DEF new
<1> QED
    BY <1>1, <1>3, <1>5, <1>6, ScansAre

\* The polls of a scan the dialog follows.
LEMMA FollowsIs ==
    ASSUME BrowsingListsInv, ScanInv, UNCHANGED <<jobs, browser>>,
           NEW d \in DialogRec, DialogWell(d), NEW others, FollowsScan(d, others)
    PROVE  /\ dialog' = d /\ DialogWell(dialog)'
           /\ others \subseteq calls' /\ \A c \in calls' : c \in others \/ (c \in CallRec /\ CallWell(c)')
<1>1. dialog' = d
    BY DEF FollowsScan
<1>2. DialogWell(dialog)'
    BY <1>1, SameJobs, DialogStays
<1>3. CASE calls' = others
    BY <1>1, <1>2, <1>3
<1>4. CASE calls' = others \cup {Poll(d.job)} /\ d.job # 0
    <2>1. PICK c : c = Poll(d.job)
        OBVIOUS
    <2>2. c \in CallRec /\ c.by = "poll" /\ c.job = d.job /\ c.answer = "not yet"
        BY <2>1, PlacesAre DEF Poll, Call, CallRec, DialogRec
    <2>3. d.job \in DOMAIN jobs'
        BY <1>4 DEF DialogWell
    <2>4. CallWell(c)'
        BY <2>2, <2>3 DEF CallWell
    <2> QED
        BY <1>1, <1>2, <1>4, <2>1, <2>2, <2>4
<1> QED
    BY <1>3, <1>4 DEF FollowsScan

LEMMA StartsScanStep == ASSUME BrowsingListsInv, ScanInv, browser' = browser, StartsScan PROVE ScanInv'
<1> DEFINE d == [dialog EXCEPT !.error = FALSE, !.canceled = FALSE, !.running = TRUE]
<1>0. PICK c : c = Call("start", PlaceOf(browser), 0)
    OBVIOUS
<1>1. FollowsScan(d, calls \cup {c}) /\ jobs' = jobs /\ banner' = banner /\ JobsKeep
    BY <1>0, SameJobs DEF StartsScan
<1>2. c \in CallRec /\ c.by = "start" /\ c.mine /\ c.answer = "not yet"
    BY <1>0, PlacesAre DEF Call, CallRec
<1>3. d \in DialogRec /\ d.job = dialog.job /\ d.result = dialog.result
    BY DEF ScanInv, DialogRec
<1> HIDE DEF d
<1>4. DialogWell(d)
    BY <1>3 DEF ScanInv, DialogWell
<1>5. PICK others : others = calls \cup {c}
    OBVIOUS
<1>6. /\ dialog' = d /\ DialogWell(dialog)'
      /\ others \subseteq calls' /\ \A b \in calls' : b \in others \/ (b \in CallRec /\ CallWell(b)')
    BY <1>1, <1>3, <1>4, <1>5, FollowsIs
<1>7. CallWell(c)'
    BY <1>2 DEF CallWell
<1>8. banner' \in BannerRec /\ BannerWell(banner)'
    BY <1>1, <1>5, <1>6, BannerTells
<1>9. HasAsked'
    BY <1>2, <1>5, <1>6 DEF HasAsked
<1>10. \A b \in calls' : b \in calls \/ (b \in CallRec /\ CallWell(b)')
    BY <1>2, <1>5, <1>6, <1>7
<1> QED
    BY <1>1, <1>3, <1>6, <1>8, <1>9, <1>10, ScansAre

LEMMA TicksStep == ASSUME BrowsingListsInv, ScanInv, browser' = browser, Ticks PROVE ScanInv'
<1>0. PICK c : c = Poll(dialog.job)
    OBVIOUS
<1>1. /\ calls' = calls \cup {c} /\ jobs' = jobs /\ banner' = banner /\ dialog' = dialog /\ JobsKeep
      /\ dialog.job # 0
    BY <1>0, SameJobs DEF Ticks
<1>2. dialog \in DialogRec /\ dialog.job \in DOMAIN jobs'
    BY <1>1 DEF ScanInv, DialogWell
<1>3. c \in CallRec /\ c.by = "poll" /\ c.job = dialog.job /\ c.answer = "not yet"
    BY <1>0, <1>2, PlacesAre DEF Poll, Call, CallRec, DialogRec
<1>4. CallWell(c)'
    BY <1>2, <1>3 DEF CallWell
<1>5. banner' \in BannerRec /\ BannerWell(banner)'
    BY <1>1, BannerTells
<1>6. dialog' \in DialogRec /\ DialogWell(dialog)'
    BY <1>1, DialogTells
<1> QED
    BY <1>1, <1>3, <1>4, <1>5, <1>6, ScansAre

\* The answer of the api takes the place of the request.
LEMMA RepliesIs ==
    ASSUME ScanInv, JobsKeep, browser' = browser, UNCHANGED <<banner, dialog>>,
           NEW c \in calls, NEW job \in Nat,
           NEW answer \in {"open", "done", "error", "canceled", "none", "failed"}, Replies(c, job, answer),
           c.by = "poll" \/ answer = "open" => job \in DOMAIN jobs',
           answer = "done" => IsDone(job)',
           c.by = "banner" /\ answer = "done" => jobs'[job].place = c.place,
           c.by = "start" => answer \in {"open", "failed"}
    PROVE  ScanInv'
<1>1. PICK r : r = [c EXCEPT !.job = job, !.answer = answer]
    OBVIOUS
<1>2. c \in CallRec /\ CallWell(c)
    BY DEF ScanInv
<1>3. r \in CallRec /\ r.by = c.by /\ r.place = c.place /\ r.mine = c.mine /\ r.job = job /\ r.answer = answer
    BY <1>1, <1>2 DEF CallRec
<1>4. calls' = (calls \ {c}) \cup {r}
    BY <1>1 DEF Replies
<1>5. CallWell(r)'
    BY <1>2, <1>3 DEF CallWell
<1>6. ASSUME NEW b \in calls PROVE \E a \in calls' : a.by = b.by /\ a.mine = b.mine
    BY <1>3, <1>4
<1>7. \A b \in calls : b.by = "banner" => \E a \in calls' : a.by = "banner"
    BY <1>6
<1>8. HasAsked => HasAsked'
    BY <1>6 DEF HasAsked
<1>9. banner' \in BannerRec /\ BannerWell(banner)'
    BY <1>7, BannerTells
<1>10. dialog' \in DialogRec /\ DialogWell(dialog)'
    BY DialogTells
<1>11. dialog'.running => dialog'.job # 0 \/ HasAsked'
    BY <1>8 DEF ScanInv
<1> QED
    BY <1>3, <1>4, <1>5, <1>9, <1>10, <1>11, ScansAre

LEMMA JobsAre ==
    ASSUME ScanInv
    PROVE  /\ Len(jobs) \in Nat /\ DOMAIN jobs = 1..Len(jobs)
           /\ \A j \in DOMAIN jobs : j \in Nat /\ j # 0 /\ jobs[j] \in ScanRec
<1>1. jobs \in Seq(ScanRec)
    BY DEF ScanInv
<1>2. Len(jobs) \in Nat /\ DOMAIN jobs = 1..Len(jobs)
    BY <1>1
<1> QED
    BY <1>1, <1>2

LEMMA ApiRepliesStep ==
    ASSUME ScanInv, browser' = browser, NEW c \in calls, ApiReplies(c) PROVE ScanInv'
<1>1. /\ c \in CallRec /\ CallWell(c) /\ c.answer = "not yet"
      /\ banner' = banner /\ dialog' = dialog /\ jobs \in Seq(ScanRec)
    BY DEF ScanInv, ApiReplies
<1>2. c.by \in {"banner", "dialog", "start", "poll"} /\ c.job \in Nat /\ c.place \in ScanPlaces
    BY <1>1 DEF CallRec
<1>3. Len(jobs) \in Nat /\ DOMAIN jobs = 1..Len(jobs) /\ \A j \in DOMAIN jobs : j \in Nat /\ j # 0
    BY JobsAre
<1>4. CASE c.by = "start" /\ RepliesStart(c)
    <2>1. CASE \E j \in OpenJobs(c.place) : Replies(c, j, "open") /\ UNCHANGED jobs
        <3>1. PICK j \in DOMAIN jobs : Replies(c, j, "open") /\ jobs' = jobs
            BY <2>1 DEF OpenJobs
        <3> QED
            BY <1>1, <1>3, <1>4, <3>1, SameJobs, RepliesIs
    <2>2. CASE /\ jobs' = Append(jobs, [place |-> c.place, status |-> "open"])
               /\ Replies(c, Len(jobs) + 1, "open")
        <3>1. JobsKeep /\ Len(jobs) + 1 \in DOMAIN jobs'
            BY <1>2, <2>2, ScanBegins
        <3>2. PICK j \in Nat : j = Len(jobs) + 1
            BY <1>3
        <3> QED
            BY <1>1, <1>4, <2>2, <3>1, <3>2, RepliesIs
    <2> QED
        BY <1>4, <2>1, <2>2 DEF RepliesStart
<1>5. CASE c.by \in {"banner", "dialog"} /\ RepliesLatest(c) /\ jobs' = jobs
    <2>1. CASE \E j \in OpenJobs(c.place) : Replies(c, j, "open")
        <3>1. PICK j \in DOMAIN jobs : Replies(c, j, "open")
            BY <2>1 DEF OpenJobs
        <3> QED
            BY <1>1, <1>3, <1>5, <3>1, SameJobs, RepliesIs
    <2>2. CASE \E j \in DoneJobs(c.place) : Replies(c, j, "done")
        <3>1. PICK j \in DOMAIN jobs : Replies(c, j, "done") /\ jobs[j].place = c.place /\ jobs[j].status = "done"
            BY <2>2 DEF DoneJobs
        <3>2. IsDone(j)'
            BY <1>5, <3>1 DEF IsDone
        <3> QED
            BY <1>1, <1>3, <1>5, <3>1, <3>2, SameJobs, RepliesIs
    <2>3. CASE Replies(c, 0, "none")
        BY <1>1, <1>5, <2>3, SameJobs, RepliesIs
    <2> QED
        BY <1>5, <2>1, <2>2, <2>3 DEF RepliesLatest
<1>6. CASE c.by = "poll" /\ Replies(c, c.job, jobs[c.job].status) /\ jobs' = jobs
    <2>1. c.job \in DOMAIN jobs
        BY <1>1, <1>6 DEF CallWell
    <2>2. PICK status : status = jobs[c.job].status /\ status \in {"open", "done", "error", "canceled"}
        <3>1. jobs[c.job] \in ScanRec
            BY <2>1, JobsAre
        <3> QED
            BY <3>1 DEF ScanRec
    <2>3. status = "done" => IsDone(c.job)'
        BY <1>6, <2>1, <2>2 DEF IsDone
    <2>4. Replies(c, c.job, status)
        BY <1>6, <2>2
    <2>5. JobsKeep /\ c.job \in DOMAIN jobs' /\ c.by = "poll" /\ c.by # "banner" /\ c.by # "start"
        BY <1>6, <2>1, SameJobs
    <2>6. status \in {"open", "done", "error", "canceled", "none", "failed"}
        BY <2>2
    <2> QED
        BY <1>1, <1>2, <2>3, <2>4, <2>5, <2>6, RepliesIs
<1>7. CASE Replies(c, c.job, "failed") /\ jobs' = jobs
    <2>1. c.by = "poll" => c.job \in DOMAIN jobs'
        BY <1>1, <1>7 DEF CallWell
    <2> QED
        BY <1>1, <1>2, <1>7, <2>1, SameJobs, RepliesIs
<1> QED
    BY <1>4, <1>5, <1>6, <1>7 DEF ApiReplies

LEMMA BannerLookedStep ==
    ASSUME ScanInv, UNCHANGED <<jobs, browser>>, NEW c \in calls, c.by = "banner", BannerLooked(c) PROVE ScanInv'
<1>1. /\ c \in CallRec /\ CallWell(c) /\ JobsKeep /\ calls' = calls \ {c} /\ dialog' = dialog /\ jobs' = jobs
      /\ banner' = [result |-> IF c.answer = "done" THEN c.job ELSE 0, running |-> c.answer = "open", by |-> "look"]
    BY SameJobs DEF ScanInv, BannerLooked
<1>2. /\ banner' \in BannerRec
      /\ banner'.result # 0 => c.answer = "done" /\ banner'.result = c.job
    <2>1. c.job \in Nat
        BY <1>1 DEF CallRec
    <2> QED
        BY <1>1, <2>1 DEF BannerRec
<1>3. BannerWell(banner)'
    BY <1>1, <1>2 DEF BannerWell, CallWell, IsDone
<1>4. HasAsked => HasAsked'
    BY <1>1 DEF HasAsked
<1>5. dialog' \in DialogRec /\ DialogWell(dialog)'
    BY <1>1, DialogTells
<1>6. dialog'.running => dialog'.job # 0 \/ HasAsked'
    BY <1>1, <1>4 DEF ScanInv
<1> QED
    BY <1>1, <1>2, <1>3, <1>5, <1>6, ScansAre

\* What the dialog makes of an answer.
LEMMA DialogFollowsStep ==
    ASSUME BrowsingListsInv, ScanInv, UNCHANGED <<jobs, browser, banner>>,
           NEW c \in calls, c.by # "banner",
           NEW d \in DialogRec, DialogWell(d), FollowsScan(d, calls \ {c}),
           d.running => d.job # 0 \/ \E a \in calls \ {c} : a.by = "start" /\ a.mine
    PROVE  ScanInv'
<1>1. PICK others : others = calls \ {c}
    OBVIOUS
<1>2. /\ dialog' = d /\ DialogWell(dialog)' /\ others \subseteq calls'
      /\ \A b \in calls' : b \in others \/ (b \in CallRec /\ CallWell(b)')
    BY <1>1, FollowsIs
<1>3. JobsKeep /\ banner' \in BannerRec /\ BannerWell(banner)'
    BY <1>1, <1>2, SameJobs, BannerTells
<1>4. dialog'.running => dialog'.job # 0 \/ HasAsked'
    BY <1>1, <1>2 DEF HasAsked
<1> QED
    BY <1>1, <1>2, <1>3, <1>4, ScansAre

LEMMA DialogLookedStep ==
    ASSUME BrowsingListsInv, ScanInv, UNCHANGED <<jobs, browser>>, NEW c \in calls, c.by = "dialog", DialogLooked(c)
    PROVE  ScanInv'
<1> DEFINE d == CASE c.answer = "open" -> [dialog EXCEPT !.job = c.job, !.running = TRUE]
                  [] c.answer = "done" -> [dialog EXCEPT !.result = c.job]
                  [] OTHER             -> dialog
<1>1. banner' = banner /\ FollowsScan(d, calls \ {c})
    BY DEF DialogLooked
<1>2. /\ c \in CallRec /\ CallWell(c) /\ c.job \in Nat
      /\ dialog \in DialogRec /\ DialogWell(dialog) /\ (dialog.running => dialog.job # 0 \/ HasAsked)
    BY DEF ScanInv, CallRec
<1>3. HasAsked => \E a \in calls \ {c} : a.by = "start" /\ a.mine
    BY DEF HasAsked
<1>4. \A j \in DOMAIN jobs : j # 0
    BY JobsAre
<1>5. CASE c.answer = "open"
    <2> DEFINE job == c.job
    <2>1. d = [dialog EXCEPT !.job = job, !.running = TRUE] /\ job \in Nat
        BY <1>2, <1>5
    <2> HIDE DEF d, job
    <2>2. d \in DialogRec /\ d.job = job /\ d.result = dialog.result
        BY <1>2, <2>1 DEF DialogRec
    <2>3. job \in DOMAIN jobs
        BY <1>2, <1>5 DEF CallWell, job
    <2>4. DialogWell(d) /\ d.job # 0
        BY <1>2, <1>4, <2>2, <2>3 DEF DialogWell
    <2> QED
        BY <1>1, <2>2, <2>4, DialogFollowsStep
<1>6. CASE c.answer = "done"
    <2> DEFINE job == c.job
    <2>1. d = [dialog EXCEPT !.result = job] /\ job \in Nat
        BY <1>2, <1>6
    <2> HIDE DEF d, job
    <2>2. d \in DialogRec /\ d.job = dialog.job /\ d.result = job /\ d.running = dialog.running
        BY <1>2, <2>1 DEF DialogRec
    <2>3. IsDone(job)
        BY <1>2, <1>6 DEF CallWell, job
    <2>4. DialogWell(d)
        BY <1>2, <2>2, <2>3 DEF DialogWell
    <2> QED
        BY <1>1, <1>2, <1>3, <2>2, <2>4, DialogFollowsStep
<1>7. CASE c.answer \notin {"open", "done"}
    <2>1. d = dialog
        BY <1>7
    <2> HIDE DEF d
    <2> QED
        BY <1>1, <1>2, <1>3, <2>1, DialogFollowsStep
<1> QED
    BY <1>5, <1>6, <1>7

LEMMA ScanStartedStep ==
    ASSUME BrowsingListsInv, ScanInv, UNCHANGED <<jobs, browser>>,
           NEW c \in calls, c.by = "start", c.answer # "not yet", ScanStarted(c)
    PROVE  ScanInv'
<1>1. /\ c \in CallRec /\ CallWell(c) /\ c.job \in Nat
      /\ dialog \in DialogRec /\ DialogWell(dialog) /\ (dialog.running => dialog.job # 0 \/ HasAsked)
      /\ banner' = banner
    BY DEF ScanInv, CallRec, ScanStarted
<1>2. CASE ~c.mine
    <2>1. calls' = calls \ {c} /\ dialog' = dialog /\ JobsKeep
        BY <1>2, SameJobs DEF ScanStarted
    <2>2. HasAsked => HasAsked'
        BY <1>2, <2>1 DEF HasAsked
    <2>3. banner' \in BannerRec /\ BannerWell(banner)'
        BY <1>1, <2>1, BannerTells
    <2>4. dialog' \in DialogRec /\ DialogWell(dialog)'
        BY <2>1, DialogTells
    <2>5. dialog'.running => dialog'.job # 0 \/ HasAsked'
        BY <1>1, <2>1, <2>2
    <2> QED
        BY <2>1, <2>3, <2>4, <2>5, ScansAre
<1>3. CASE c.mine /\ c.answer = "failed"
    <2> DEFINE d == [dialog EXCEPT !.error = TRUE, !.running = FALSE]
    <2>1. FollowsScan(d, calls \ {c})
        BY <1>3 DEF ScanStarted
    <2>2. d \in DialogRec /\ d.job = dialog.job /\ d.result = dialog.result /\ d.running = FALSE
        BY <1>1 DEF DialogRec
    <2> HIDE DEF d
    <2>3. DialogWell(d)
        BY <1>1, <2>2 DEF DialogWell
    <2> QED
        BY <1>1, <2>1, <2>2, <2>3, DialogFollowsStep
<1>4. CASE c.mine /\ c.answer # "failed"
    <2> DEFINE job == c.job
               d == [dialog EXCEPT !.job = job]
    <2>1. FollowsScan(d, calls \ {c})
        BY <1>4 DEF ScanStarted
    <2>2. job \in DOMAIN jobs /\ job # 0 /\ job \in Nat
        BY <1>1, <1>4, JobsAre DEF CallWell
    <2> HIDE DEF job
    <2>3. d \in DialogRec /\ d.job = job /\ d.result = dialog.result
        BY <1>1, <2>2 DEF DialogRec
    <2> HIDE DEF d
    <2>4. DialogWell(d)
        BY <1>1, <2>2, <2>3 DEF DialogWell
    <2> QED
        BY <1>1, <2>1, <2>2, <2>3, <2>4, DialogFollowsStep
<1> QED
    BY <1>2, <1>3, <1>4

LEMMA JobPolledStep ==
    ASSUME ScanInv, UNCHANGED <<jobs, browser>>, NEW c \in calls, c.by = "poll", JobPolled(c) PROVE ScanInv'
<1>1. /\ c \in CallRec /\ CallWell(c) /\ c.job \in Nat /\ JobsKeep
      /\ dialog \in DialogRec /\ DialogWell(dialog) /\ (dialog.running => dialog.job # 0 \/ HasAsked)
      /\ calls' = calls \ {c}
    BY SameJobs DEF ScanInv, CallRec, JobPolled
<1>2. HasAsked => HasAsked'
    BY <1>1 DEF HasAsked
<1>3. c.answer = "done" => IsDone(c.job)
    BY <1>1 DEF CallWell
<1>4. banner' \in BannerRec /\ BannerWell(banner)'
    <2>1. CASE c.answer = "done"
        <3>1. banner' = [result |-> c.job, running |-> FALSE, by |-> "dialog"]
            BY <2>1 DEF JobPolled
        <3>2. banner' \in BannerRec /\ banner'.result = c.job /\ banner'.by = "dialog"
            BY <1>1, <3>1 DEF BannerRec
        <3> QED
            BY <1>3, <2>1, <3>2 DEF BannerWell, IsDone
    <2>2. CASE c.answer # "done"
        <3>1. banner' = banner
            BY <2>2 DEF JobPolled
        <3> QED
            BY <1>1, <3>1, BannerTells
    <2> QED
        BY <2>1, <2>2
<1>5. /\ dialog' \in DialogRec /\ dialog'.job = dialog.job
      /\ dialog'.result = dialog.result \/ (c.answer = "done" /\ dialog'.result = c.job)
      /\ dialog'.running => dialog.running
    <2> DEFINE job == c.job
    <2>1. \/ dialog' = dialog
          \/ dialog' = [dialog EXCEPT !.result = job, !.running = FALSE] /\ c.answer = "done"
          \/ dialog' = [dialog EXCEPT !.error = TRUE, !.running = FALSE]
          \/ dialog' = [dialog EXCEPT !.canceled = TRUE, !.running = FALSE]
        BY DEF JobPolled
    <2>2. job \in Nat
        BY <1>1
    <2> HIDE DEF job
    <2>3. /\ dialog' \in DialogRec /\ dialog'.job = dialog.job
          /\ dialog'.result = dialog.result \/ (c.answer = "done" /\ dialog'.result = job)
          /\ dialog'.running => dialog.running
        BY <1>1, <2>1, <2>2 DEF DialogRec
    <2> QED
        BY <2>3 DEF job
<1>6. DialogWell(dialog)'
    BY <1>1, <1>3, <1>5 DEF DialogWell, IsDone
<1>7. dialog'.running => dialog'.job # 0 \/ HasAsked'
    BY <1>1, <1>2, <1>5
<1> QED
    BY <1>1, <1>4, <1>5, <1>6, <1>7, ScansAre

LEMMA ScanStepKeeps == ASSUME BrowsingListsInv, ScanInv, ScanStep PROVE ScanInv'
<1>1. browser' = browser
    BY DEF ScanStep, listingVars
<1>2. CASE DialogOpens \/ DialogCloses \/ StartsScan \/ Ticks
    BY <1>1, <1>2, DialogOpensStep, DialogClosesStep, StartsScanStep, TicksStep
<1>3. CASE CancelsScan
    <2>1. Ends(dialog.job, "canceled") /\ dialog.job \in DOMAIN jobs /\ UNCHANGED <<banner, dialog, calls>>
        BY <1>3 DEF CancelsScan, ScanInv, DialogWell
    <2> QED
        BY <1>1, <2>1, ScanEnds, ScanEndsStep
<1>4. CASE JobEnds
    <2>1. PICK j \in DOMAIN jobs : Ends(j, "done") \/ Ends(j, "error")
        BY <1>4 DEF JobEnds
    <2>2. UNCHANGED <<banner, dialog, calls>>
        BY <1>4 DEF JobEnds
    <2> QED
        BY <1>1, <2>1, <2>2, ScanEnds, ScanEndsStep
<1>5. ASSUME NEW c \in calls, ApiReplies(c) PROVE ScanInv'
    BY <1>1, <1>5, ApiRepliesStep
<1>6. ASSUME NEW c \in calls, CallReturns(c) PROVE ScanInv'
    BY <1>1, <1>6, BannerLookedStep, DialogLookedStep, ScanStartedStep, JobPolledStep DEF CallReturns
<1> QED
    BY <1>2, <1>3, <1>4, <1>5, <1>6 DEF ScanStep

LEMMA ScansTold ==
    ASSUME BrowsingListsInv, ScanInv, BrowsingNext \/ UNCHANGED browsingVars
    PROVE  BrowsingListsInv' /\ ScanInv'
<1>1. BrowsingListsInv'
    BY BrowsingStepKeeps DEF StepKeeps
<1>2. CASE BrowserStep
    BY <1>1, <1>2, BrowserStepKeeps, ScansFollowStep
<1>3. CASE ScanStep
    BY <1>1, <1>3, ScanStepKeeps
<1>4. CASE ListsStep \/ IndexStep \/ UNCHANGED browsingVars
    <2>1. browser' = browser /\ UNCHANGED scanVars
        <3>1. CASE ListsStep \/ UNCHANGED browsingVars
            BY <3>1 DEF ListsStep, browsingVars, listingVars
        <3>2. ASSUME NEW a, BucketsArrive(a) PROVE browser' = browser
            BY <3>2 DEF BucketsArrive, listingVars
        <3>3. IndexStep => browser' = browser
            BY <3>2 DEF IndexStep, IndexOpens, RefreshesIndex, LoadsIndex, FavouritesArrive, listingVars
        <3> QED
            BY <1>4, <3>1, <3>3 DEF IndexStep
    <2>2. ScansFollow
        BY <2>1 DEF ScansFollow, scanVars
    <2> QED
        BY <1>1, <2>2, ScansFollowStep
<1> QED
    BY <1>1, <1>2, <1>3, <1>4 DEF BrowsingNext

LEMMA ScansToldAre == ASSUME BrowsingListsInv, ScanInv PROVE ShownIsOfItsPlace
<1>1. ScansAreTold
    BY DEF ScanInv, BannerWell, DialogWell, HasAsked, IsDone, ScansAreTold
<1>2. /\ browser.page # NoPage => browser.page.key = KeyOf(browser)
      /\ browser.loading \/ browser.revalidating => \E a \in listWaits : IsUnderWay(a, KeyOf(browser))
    BY DEF BrowsingListsInv, BrowserInv, IsPage
<1>3. /\ index.revalidating => IsUnderWay(indexLoad.fresh, IndexKey)
      /\ index.refreshing \/ (~index.loaded /\ indexLoad.favourites # "none") =>
            indexLoad.favourites = "asked" \/ IsUnderWay(indexLoad.first, IndexKey)
    BY DEF BrowsingListsInv, IndexInv, IndexRec, IndexLoadRec
<1> QED
    BY <1>1, <1>2, <1>3 DEF ShownIsOfItsPlace

\* Wherever one goes in directories, words, depth and pages, what is shown is of the place
\* one is at, what says that it loads waits for a request of that place, and what is told
\* of scans is of scans that ended well, of this place or brought by the dialog
\* (StorageBrowser.tsx:111-158, 270-289, ScanModal.tsx:82-141).
THEOREM PlacesShowTheirOwn == BrowsingSpec => []ShownIsOfItsPlace
<1>1. BrowsingInit => BrowsingListsInv /\ ScanInv
    BY ListsStart, ScansStart
<1>2. BrowsingListsInv /\ ScanInv /\ [BrowsingNext]_browsingVars => (BrowsingListsInv /\ ScanInv)'
    BY ScansTold
<1>3. BrowsingListsInv /\ ScanInv => ShownIsOfItsPlace
    BY ScansToldAre
<1> QED
    BY <1>1, <1>2, <1>3, PTL DEF BrowsingSpec
=============================================================================
