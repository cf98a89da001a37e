------------------------------ MODULE PlayerDeck ------------------------------
(***************************************************************************)
(* The deck at the bottom of the storage pages that plays several audio     *)
(* objects together (front/components/PlayerDeck.tsx, lib/playerDeck.tsx,   *)
(* lib/deckAudioGraph.ts, lib/driftSync.ts): one <audio> a track, all       *)
(* started, stopped and sought by one set of buttons, brought back to one   *)
(* time every second, muted one by one or by a solo, and led through the    *)
(* Web Audio API once somebody asks for its left or right channel alone.    *)
(*                                                                         *)
(* The sound of an entry of a compressed archive is fetched first, so its   *)
(* <audio> comes later than its track.  The effects of a commit run before  *)
(* the next event.  Time is whole seconds.                                  *)
(***************************************************************************)
EXTENDS Naturals, FiniteSets, FiniteSetsExt, SequencesExt

CONSTANTS
    TrackIds,
    Fetched,         \* the tracks whose sound has to be fetched
    Length,          \* of a track, in seconds
    MaxAsked         \* bound: analyses of a track under way

ASSUME DeckAssumption ==
    /\ Fetched \subseteq TrackIds
    /\ IsFiniteSet(TrackIds) /\ Length \in [TrackIds -> Nat \ {0}]
    /\ MaxAsked \in Nat \ {0}

VARIABLES
    tracks,          \* PlayerDeckProvider: a sequence of ids
    pinned,          \* there are pins, so that the dock stays without tracks
    fetch,           \* useMediaSrc of a track
    element,         \* the <audio> of a track; readyIds and durations go with it
    playing, masterTime,
    soloId, muted,
    peaks,           \* peaksById: the tracks known to be analyzed
    channels,        \* channelsById
    asked,           \* the requests of mediaAnalyze under way
    channelOf,       \* channelById
    graphs,          \* the TrackAudioGraph of a track
    context          \* the AudioContext

buttonVars == <<soloId, muted, channelOf>>
analyzeVars == <<peaks, channels, asked>>
routeVars == <<graphs, context>>
deckVars == <<tracks, pinned, fetch, element, playing, masterTime, buttonVars,
              analyzeVars, routeVars>>

NoTrack == "no track"
NoElement == [there |-> FALSE, at |-> 0, on |-> FALSE, muted |-> FALSE, known |-> FALSE]
NoGraph == [mode |-> "none", muted |-> FALSE]

Each(none) == [t \in TrackIds |-> none]

DeckInit ==
    /\ tracks = <<>> /\ pinned = FALSE
    /\ fetch = Each("none") /\ element = Each(NoElement)
    /\ playing = FALSE /\ masterTime = 0
    /\ soloId = NoTrack /\ muted = {} /\ channelOf = Each("none")
    /\ peaks = {} /\ channels = Each("none") /\ asked = Each(0)
    /\ graphs = Each(NoGraph) /\ context = "none"

\* The dock goes, and what useState and useRef kept; answers that are still to come
\* reach nobody.
DeckIsGone ==
    /\ playing' = FALSE /\ masterTime' = 0
    /\ soloId' = NoTrack /\ muted' = {} /\ channelOf' = Each("none")
    /\ peaks' = {} /\ channels' = Each("none") /\ asked' = Each(0)
    /\ graphs' = Each(NoGraph) /\ context' = "none"

-----------------------------------------------------------------------------
(* The media elements of the browser.                                       *)

In(t) == t \in ToSet(tracks)
There == {t \in TrackIds : element[t].there}
Ended(t) == element[t].known /\ element[t].at = Length[t]

\* currentTime = sec; an element that is at its end stops.
Sought(t, el, sec) ==
    LET at == IF el.known /\ sec > Length[t] THEN Length[t] ELSE sec IN
    [el EXCEPT !.at = at, !.on = @ /\ ~(el.known /\ at = Length[t])]

\* play(): from the beginning when it has ended.
Played(t, el) ==
    [el EXCEPT !.on = TRUE, !.at = IF el.known /\ @ = Length[t] THEN 0 ELSE @]

\* A second of what is heard; clocks differ.
Advance ==
    /\ \E moving \in SUBSET {t \in There : element[t].on /\ element[t].known} :
          /\ moving # {}
          /\ element' = [t \in TrackIds |->
                IF t \in moving THEN Sought(t, element[t], element[t].at + 1) ELSE element[t]]
    /\ UNCHANGED <<tracks, pinned, fetch, playing, masterTime, buttonVars, analyzeVars, routeVars>>

\* onLoadedMetadata
LoadsMetadata(t) ==
    /\ element[t].there /\ ~element[t].known
    /\ element' = [element EXCEPT ![t] = Sought(t, [@ EXCEPT !.known = TRUE], @.at)]
    /\ UNCHANGED <<tracks, pinned, fetch, playing, masterTime, buttonVars, analyzeVars, routeVars>>

-----------------------------------------------------------------------------
(* What is muted, and the effects of the deck.                              *)

EffectiveSolo == IF In(soloId) THEN soloId ELSE NoTrack

IsMuted(t) == IF EffectiveSolo # NoTrack THEN t # EffectiveSolo ELSE t \in muted

\* The mutes reach the graph of a track, or else its element.
Mutes(elements) ==
    /\ element' = [t \in TrackIds |->
          IF elements[t].there /\ graphs'[t] = NoGraph
          THEN [elements[t] EXCEPT !.muted = IsMuted(t)'] ELSE elements[t]]

RoutedMutes(routes) ==
    [t \in TrackIds |->
        IF routes[t] # NoGraph THEN [routes[t] EXCEPT !.muted = IsMuted(t)'] ELSE NoGraph]

\* The analysis of every track that is not known to be analyzed is asked for, again;
\* of the requests beyond the bound one is as good as several.
AsksAgain(before) ==
    asked' = [t \in TrackIds |->
        IF t \in ToSet(tracks') \ peaks' THEN Min({before[t] + 1, MaxAsked}) ELSE before[t]]

\* The graphs of tracks that are gone are disposed of, and the context with the last.
Reconciled ==
    /\ graphs' = RoutedMutes([t \in TrackIds |-> IF t \in ToSet(tracks') THEN graphs[t] ELSE NoGraph])
    /\ context' = IF tracks' = <<>> THEN "none" ELSE context

-----------------------------------------------------------------------------
(* Tracks come and go.                                                      *)

\* onTrackArrive; the first other track is where it goes on from.
Arrived(t, order) ==
    LET others == {i \in DOMAIN order : order[i] # t /\ element[order[i]].there}
        new == [NoElement EXCEPT !.there = TRUE]
    IN  IF ~playing THEN new
        ELSE Played(t, IF others = {} THEN new ELSE Sought(t, new, element[order[Min(others)]].at))

\* addTrack, of an object or of an entry.
AddTrack(t) ==
    /\ ~In(t)
    /\ tracks' = Append(tracks, t)
    /\ UNCHANGED <<pinned, playing, masterTime, buttonVars, peaks, channels>>
    /\ AsksAgain(asked) /\ Reconciled
    /\ fetch' = [fetch EXCEPT ![t] = IF t \in Fetched THEN "fetching" ELSE "done"]
    /\ Mutes(IF t \in Fetched THEN element ELSE [element EXCEPT ![t] = Arrived(t, tracks)])

FetchEnds(t) ==
    /\ fetch[t] = "fetching"
    /\ UNCHANGED <<tracks, pinned, playing, masterTime, buttonVars, analyzeVars, routeVars>>
    /\ \/ fetch' = [fetch EXCEPT ![t] = "failed"] /\ UNCHANGED element
       \/ /\ fetch' = [fetch EXCEPT ![t] = "done"]
          /\ Mutes([element EXCEPT ![t] = Arrived(t, tracks)])

Unmounted(gone) ==
    /\ fetch' = [t \in TrackIds |-> IF t \in gone THEN "none" ELSE fetch[t]]
    /\ Mutes([t \in TrackIds |-> IF t \in gone THEN NoElement ELSE element[t]])

WithoutGone(f, gone, none) == [t \in TrackIds |-> IF t \in gone THEN none ELSE f[t]]

\* mutant: what is known of the channels goes and the peaks stay
Forget_KeepsPeaks(gone) ==
    /\ soloId' = IF soloId \in gone THEN NoTrack ELSE soloId
    /\ muted' = muted \ gone
    /\ peaks' = peaks
    /\ channels' = WithoutGone(channels, gone, "none")
    /\ channelOf' = WithoutGone(channelOf, gone, "none")

Forget(gone) ==
    /\ soloId' = IF soloId \in gone THEN NoTrack ELSE soloId
    /\ muted' = muted \ gone
    /\ peaks' = peaks \ gone
    /\ channels' = WithoutGone(channels, gone, "none")
    /\ channelOf' = WithoutGone(channelOf, gone, "none")

\* Without tracks and pins BottomDock renders nothing, and the deck forgets everything.
Leaves == tracks' = <<>> /\ ~pinned'

\* An id is there once.
RemoveTrack(t) ==
    /\ \E i \in DOMAIN tracks : tracks[i] = t /\ tracks' = RemoveAt(tracks, i)
    /\ UNCHANGED pinned
    /\ IF Leaves THEN DeckIsGone
       ELSE /\ UNCHANGED <<playing, masterTime>>
            /\ Forget({t}) /\ AsksAgain(asked) /\ Reconciled
    /\ Unmounted({t})

Clear ==
    /\ tracks # <<>>
    /\ tracks' = <<>>
    /\ UNCHANGED pinned
    /\ IF Leaves THEN DeckIsGone
       ELSE /\ playing' = FALSE /\ masterTime' = 0
            /\ Forget(TrackIds) /\ Reconciled
            /\ UNCHANGED asked
    /\ Unmounted(TrackIds)

\* addPin, or the last pin is taken off.
TogglePins ==
    /\ pinned' = ~pinned
    /\ UNCHANGED <<tracks, fetch, element>>
    /\ IF Leaves THEN DeckIsGone
       ELSE UNCHANGED <<playing, masterTime, buttonVars, analyzeVars, routeVars>>

-----------------------------------------------------------------------------
(* The analysis tells how many channels there are.                          *)

\* Whether the track is there, is gone or is there again.
Analyzed(t) ==
    LET answered == [asked EXCEPT ![t] = @ - 1] IN
    /\ asked[t] > 0
    /\ UNCHANGED <<tracks, pinned, fetch, element, playing, masterTime, buttonVars, routeVars>>
    /\ \/ /\ \E known \in {"one", "more", "unknown"} : channels' = [channels EXCEPT ![t] = known]
          /\ peaks' = peaks \cup {t}
          /\ AsksAgain(answered)
       \/ /\ channels' = [channels EXCEPT ![t] = IF @ = "none" THEN "unknown" ELSE @]
          /\ asked' = answered
          /\ UNCHANGED peaks

-----------------------------------------------------------------------------
(* The buttons of a track.                                                  *)

ToggleSolo(t) ==
    /\ In(t)
    /\ soloId' = IF soloId = t THEN NoTrack ELSE t
    /\ UNCHANGED <<tracks, pinned, fetch, playing, masterTime, muted, channelOf, analyzeVars, context>>
    /\ graphs' = RoutedMutes(graphs) /\ Mutes(element)

ToggleMute(t) ==
    /\ In(t)
    /\ muted' = IF t \in muted THEN muted \ {t} ELSE muted \cup {t}
    /\ UNCHANGED <<tracks, pinned, fetch, playing, masterTime, soloId, channelOf, analyzeVars, context>>
    /\ graphs' = RoutedMutes(graphs) /\ Mutes(element)

\* nextChannelMode
NextMode(current, pressed) == IF current = pressed THEN "both" ELSE pressed

\* setChannel, or a graph that takes the mute over from the element.
Rerouted(t, mode) ==
    IF graphs[t] # NoGraph THEN [graphs[t] EXCEPT !.mode = mode]
    ELSE [mode |-> mode, muted |-> element[t].muted]

ToggleChannel(t, pressed) ==
    LET current == IF channelOf[t] = "none" THEN "both" ELSE channelOf[t]
        mode == NextMode(current, pressed)
    IN  /\ In(t) /\ element[t].there /\ channels[t] \in {"more", "unknown"}
        /\ graphs' = [graphs EXCEPT ![t] = Rerouted(t, mode)]
        /\ context' = "open"
        /\ channelOf' = [channelOf EXCEPT ![t] = mode]
        /\ element' = [element EXCEPT ![t].muted = graphs[t] # NoGraph /\ @]
        /\ UNCHANGED <<tracks, pinned, fetch, playing, masterTime, soloId, muted, analyzeVars>>

-----------------------------------------------------------------------------
(* The buttons of the deck.                                                 *)

MaxDuration == Max({0} \cup {Length[t] : t \in {u \in There : element[u].known}})

EachElement(F(_, _)) == [t \in TrackIds |-> IF element[t].there THEN F(t, element[t]) ELSE element[t]]

PlayAll ==
    LET again == MaxDuration > 0 /\ masterTime >= MaxDuration IN
    /\ ~playing /\ tracks # <<>>
    /\ playing' = TRUE
    /\ masterTime' = IF again THEN 0 ELSE masterTime
    /\ element' = EachElement(LAMBDA t, el : Played(t, IF again THEN Sought(t, el, 0) ELSE el))
    /\ UNCHANGED <<tracks, pinned, fetch, buttonVars, analyzeVars, routeVars>>

PauseAll ==
    /\ playing
    /\ playing' = FALSE
    /\ element' = EachElement(LAMBDA t, el : [el EXCEPT !.on = FALSE])
    /\ UNCHANGED <<tracks, pinned, fetch, masterTime, buttonVars, analyzeVars, routeVars>>

StopAll ==
    /\ tracks # <<>>
    /\ playing' = FALSE /\ masterTime' = 0
    /\ element' = EachElement(LAMBDA t, el : Sought(t, [el EXCEPT !.on = FALSE], 0))
    /\ UNCHANGED <<tracks, pinned, fetch, buttonVars, analyzeVars, routeVars>>

SeekAll(sec) ==
    /\ sec <= MaxDuration /\ MaxDuration > 0
    /\ masterTime' = sec
    /\ element' = EachElement(LAMBDA t, el :
          LET there == Sought(t, el, sec) IN
          IF playing /\ (el.known => sec < Length[t]) THEN Played(t, there) ELSE there)
    /\ UNCHANGED <<tracks, pinned, fetch, playing, buttonVars, analyzeVars, routeVars>>

\* The interval: masterTimeOf and computeDriftAdjustments.
Tick ==
    LET running == {t \in There : ~Ended(t)}
        master == Max({element[t].at : t \in running})
    IN  /\ playing /\ There # {}
        /\ IF running = {}
           THEN playing' = FALSE /\ masterTime' = MaxDuration /\ UNCHANGED element
           ELSE /\ masterTime' = master
                /\ element' = [t \in TrackIds |->
                      IF t \in running /\ (element[t].known => master < Length[t])
                      THEN Sought(t, element[t], master) ELSE element[t]]
                /\ UNCHANGED playing
        /\ UNCHANGED <<tracks, pinned, fetch, buttonVars, analyzeVars, routeVars>>

-----------------------------------------------------------------------------
DeckNext ==
    \/ \E t \in TrackIds :
          \/ AddTrack(t) \/ RemoveTrack(t) \/ FetchEnds(t) \/ LoadsMetadata(t) \/ Analyzed(t)
          \/ ToggleSolo(t) \/ ToggleMute(t)
          \/ \E side \in {"left", "right"} : ToggleChannel(t, side)
    \/ Advance \/ Tick \/ Clear \/ TogglePins \/ PlayAll \/ PauseAll \/ StopAll
    \/ \E sec \in 0 .. Max({Length[t] : t \in TrackIds}) : SeekAll(sec)

DeckSpec == DeckInit /\ [][DeckNext]_deckVars

-----------------------------------------------------------------------------
(* Properties.                                                              *)

Element == [there : BOOLEAN, at : Nat, on : BOOLEAN, muted : BOOLEAN, known : BOOLEAN]
Graph == [mode : {"none", "both", "left", "right"}, muted : BOOLEAN]

DeckTypeOK ==
    /\ tracks \in Seq(TrackIds) /\ pinned \in BOOLEAN
    /\ fetch \in [TrackIds -> {"none", "fetching", "failed", "done"}]
    /\ element \in [TrackIds -> Element]
    /\ playing \in BOOLEAN /\ masterTime \in Nat
    /\ soloId \in TrackIds \cup {NoTrack} /\ muted \subseteq TrackIds
    /\ peaks \subseteq TrackIds
    /\ channels \in [TrackIds -> {"none", "one", "more", "unknown"}]
    /\ asked \in [TrackIds -> Nat]
    /\ channelOf \in [TrackIds -> {"none", "both", "left", "right"}]
    /\ graphs \in [TrackIds -> Graph] /\ context \in {"none", "open"}

\* A track is heard through its graph once it has one, else through its element, and
\* exactly those are muted that the buttons say: whenever its sound arrived, its graph
\* was made, or others came and went.  The channel buttons show what the graphs do.
WhatIsHeard ==
    /\ \A t \in There :
          IF graphs[t] = NoGraph THEN element[t].muted = IsMuted(t)
          ELSE graphs[t].muted = IsMuted(t) /\ ~element[t].muted
    /\ \A t \in TrackIds :
          /\ graphs[t].mode = channelOf[t]
          /\ graphs[t] # NoGraph => element[t].there /\ context = "open"

\* The deck has gone past the end of a track: its time, or another track, has.
IsPast(t) == masterTime >= Length[t] \/ \E u \in There : element[u].at >= Length[t]

\* A track that has not come to its end plays when the deck does, also when its sound
\* came late or a seek brought it back; none plays on when the deck was stopped.
\* Whether one that ended plays again beside a longer one is left open here.
NobodyIsLeftBehind ==
    \A t \in There :
        /\ element[t].on => playing /\ ~Ended(t)
        /\ playing /\ ~Ended(t) /\ ~IsPast(t) => element[t].on

\* The channel buttons of a track wait for an analysis that is under way.
ButtonsComeBack ==
    \A t \in TrackIds : In(t) /\ channels[t] = "none" => asked[t] > 0

DeckIsWhole == WhatIsHeard /\ NobodyIsLeftBehind /\ ButtonsComeBack

=============================================================================
