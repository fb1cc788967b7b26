---------------------------- MODULE FixedMarkers ----------------------------
(***************************************************************************)
(* The markers of the active fixed sessions on the map.                    *)
(*                                                                         *)
(* Code: FixedMarkers, the clustering algorithm, and the overlays.  What   *)
(* is on the map is kept by hand in maps behind React's back: the markers, *)
(* whether each is clustered, the overlay drawn for a marker, the overlays *)
(* drawn for clusters.  Effects bring them in line with the sessions, the  *)
(* selected stream and the map, each triggered by its own dependencies,    *)
(* and listeners of the clusterer and of the map do so between renders.    *)
(*                                                                         *)
(* The map is a line; a marker stands for its marker and label overlays,   *)
(* which come and go together.  Outside: the MarkerClusterer of            *)
(* @googlemaps/markerclusterer, which runs the algorithm and then the      *)
(* listeners whenever its markers change, it is rendered, or the map rests.*)
(***************************************************************************)
EXTENDS Integers, FiniteSets

CONSTANTS
  Streams,
  Nothing,       \* no stream is selected
  Position,      \* of the session of a stream
  CellAt,        \* per zoom, the size of a cell of the grid
  Views          \* the stretches of the map that may be in view

Zooms == DOMAIN CellAt

\* What is asked of the constants.
NothingAssumption == Nothing \notin Streams

VARIABLES
  sessions,      \* the streams of the sessions the map shows
  selected,      \* selectedStreamId
  loaded,        \* there is a stream in fixedStream.data
  pending,       \* fixedStream.status is Pending
  zoom, view,    \* of the map
  moved,         \* it is yet to come to rest
  due,           \* what changed since the last render, if one is to come
  shown          \* what the component keeps in its refs

fetching == <<loaded, pending>>
map == <<zoom, view, moved>>
vars == <<sessions, selected, fetching, map, due, shown>>

\* Refs of a component that was just mounted.
Blank ==
  [markers |-> {},         \* markerRefs
   clustered |-> {},       \* the markers flagged so
   overlays |-> {},        \* markerOverlays and labelOverlays
   clusters |-> {},        \* clusterOverlaysRef
   clusterer |-> FALSE,    \* there is a clusterer, on the map,
   given |-> {},           \* with these markers,
   listening |-> FALSE,    \* and the listener of the effect on thresholds and sessions
   zoom |-> 0,             \* previousZoomRef
   drawn |-> 0,            \* the zoom of the last render
   again |-> FALSE]        \* there was a clusterer before that

Init ==
  /\ sessions \in SUBSET Streams
  /\ selected = Nothing
  /\ loaded = FALSE
  /\ pending = FALSE
  /\ zoom \in Zooms /\ view \in Views
  /\ moved = FALSE
  /\ due = {"data", "selection"}
  /\ shown = Blank

-----------------------------------------------------------------------------
(* Clusters. *)

\* Markers in one cell of the grid are a cluster.
Cell(s, z) == Position[s] \div CellAt[z]
clusterMarkers(markers, z) ==
  {{s \in markers : Cell(s, z) = c} : c \in {Cell(s, z) : s \in markers}}

Crowds(m) == {c \in clusterMarkers(m.given, zoom) : Cardinality(c) > 1}

InView(p) == view[1] <= p /\ p <= view[2]

\* A cluster is in the middle of its markers.
CrowdInView(c) ==
  \E s, r \in c : /\ \A q \in c : Position[s] <= Position[q] /\ Position[q] <= Position[r]
                  /\ InView((Position[s] + Position[r]) \div 2)

Grouped(m, crowds) == [m EXCEPT !.clusters = crowds, !.clustered = UNION crowds]

\* The first listener: once per zoom, and only the clusters in view.
handleClusteringEnd(m) ==
  IF zoom = m.zoom THEN m
  ELSE Grouped([m EXCEPT !.zoom = zoom], {c \in Crowds(m) : CrowdInView(c)})

\* The second one, added by an effect whenever the thresholds, the sessions or the
\* loading state change.
AllClusters(m) == IF m.listening THEN Grouped(m, Crowds(m)) ELSE m

render(m) == IF m.clusterer THEN AllClusters(handleClusteringEnd(m)) ELSE m

-----------------------------------------------------------------------------
(* The effects. *)

\* Each marker that is not clustered and in view has its overlay, and no other
\* marker has.
updateMarkerOverlays(m) ==
  [m EXCEPT !.overlays = (m.overlays \ m.markers)
                           \cup {s \in m.markers \ m.clustered : InView(Position[s])}]

Give(m, markers) == render([m EXCEPT !.given = markers])

\* Nothing is selected: all sessions get markers, and a clusterer.
ShowAll(m) ==
  LET with == [m EXCEPT !.markers = m.markers \cup sessions,
                        !.clusterer = TRUE,
                        !.listening = m.clusterer /\ m.listening]
  IN  updateMarkerOverlays(Give(Give(with, {}), with.markers))

\* Mutant of ShowSelected: the overlays of the clusters stay on the map.
SelectedAmongClusters(m) ==
  LET emptied == Give(m, {})
      rest == m.markers \cap {selected}
      new == IF rest = {} THEN {selected} \cap sessions ELSE {}
  IN  [emptied EXCEPT !.clusterer = FALSE,
                      !.listening = FALSE,
                      !.markers = rest \cup new,
                      !.clustered = emptied.clustered \cap rest,
                      !.overlays = (m.overlays \ (m.markers \ {selected})) \cup new,
                      !.clusters = m.clusters]

\* The selected stream is there: the clusterer is emptied, and goes, with all other
\* markers.  A session without a marker gets one, with an overlay.
ShowSelected(m) ==
  LET emptied == Give(m, {})
      rest == m.markers \cap {selected}
      new == IF rest = {} THEN {selected} \cap sessions ELSE {}
  IN  [emptied EXCEPT !.clusterer = FALSE,
                      !.listening = FALSE,
                      !.markers = rest \cup new,
                      !.clustered = emptied.clustered \cap rest,
                      !.overlays = (m.overlays \ (m.markers \ {selected})) \cup new,
                      !.clusters = {}]

Selection(m) ==
  IF pending THEN m
  ELSE IF selected = Nothing THEN ShowAll(m)
  ELSE IF loaded THEN ShowSelected(m)
  ELSE m

\* The sessions are there anew: markers of others go, with their overlays.
Sessions(m) ==
  LET gone == m.markers \ sessions
      fresh == {s \in sessions \ m.markers : InView(Position[s])}
      kept == [m EXCEPT !.markers = sessions,
                        !.clustered = m.clustered \ gone,
                        !.overlays = m.overlays \ gone]
      removed == IF gone = {} THEN kept ELSE Give(kept, m.given \ gone)
  IN  IF m.clusterer THEN updateMarkerOverlays(render(Give(removed, removed.given \cup fresh)))
      ELSE m

Listen(m) == [m EXCEPT !.listening = m.clusterer]

\* One render: the effects in the order of the file.  The first one runs with every
\* render, the others when what they depend on changed.
Effects(m, changed) ==
  LET first == Selection(m)
      second == IF changed \subseteq {"page"} THEN first ELSE Sessions(first)
      third == IF "data" \in changed THEN Listen(second) ELSE second
      fourth == IF changed \subseteq {"page"} THEN third ELSE updateMarkerOverlays(third)
      mode == "selection" \in changed \/ zoom # m.drawn
  IN  [IF mode /\ fourth.clusterer THEN handleClusteringEnd(render(fourth)) ELSE fourth
       EXCEPT !.drawn = zoom]

Render ==
  /\ due # {}
  /\ shown' = [Effects(shown, due) EXCEPT !.again = shown.clusterer]
  /\ due' = {}
  /\ UNCHANGED <<sessions, selected, fetching, map>>

-----------------------------------------------------------------------------
(* The page. *)

\* The sessions of the map are fetched: meanwhile the component is not there, and
\* it has left nothing behind.
clearAllMarkersAndClusters(s) ==
  /\ sessions' = s
  /\ shown' = Blank
  /\ due' = {"data", "selection"}
  /\ UNCHANGED <<selected, fetching, map>>

\* A click on a marker's overlay, or on a session of the list.  Nothing else is
\* being loaded meanwhile.
Select(s) ==
  /\ selected = Nothing
  /\ selected' = s
  /\ pending' = TRUE
  /\ due' = {"data", "selection"}
  /\ UNCHANGED <<sessions, loaded, map, shown>>

StreamAnswer(found) ==
  /\ pending
  /\ pending' = FALSE
  /\ loaded' = found
  /\ due' = {"data"}
  /\ UNCHANGED <<sessions, selected, map, shown>>

\* Closing the stream: its listeners stay as they are.
Deselect ==
  /\ selected # Nothing /\ ~pending
  /\ selected' = Nothing
  /\ loaded' = FALSE
  /\ due' = {"selection"}
  /\ UNCHANGED <<sessions, pending, map, shown>>

\* By the user, or by the page, which zooms in on the selected session.
Move(z, v) ==
  /\ zoom' = z /\ view' = v
  /\ moved' = TRUE
  /\ UNCHANGED <<sessions, selected, fetching, due, shown>>

\* The map rests: the clusterer and the component each have a listener for that.
\* On the map view the page then puts the bounds into the URL.
Idle ==
  /\ moved
  /\ moved' = FALSE
  /\ \/ shown' = updateMarkerOverlays(render(shown))
     \/ shown' = render(updateMarkerOverlays(shown))
  /\ due' = IF selected = Nothing THEN {"page"} ELSE {}
  /\ UNCHANGED <<sessions, selected, fetching, zoom, view>>

-----------------------------------------------------------------------------
\* React renders before anything else happens.
Page ==
  \/ \E s \in SUBSET Streams : clearAllMarkersAndClusters(s)
  \/ \E s \in Streams : Select(s)
  \/ \E found \in BOOLEAN : StreamAnswer(found)
  \/ Deselect
  \/ \E z \in Zooms, v \in Views : Move(z, v)
  \/ Idle

Next == Render \/ (due = {} /\ Page)

Spec == Init /\ [][Next]_vars

-----------------------------------------------------------------------------
Rests == ~moved /\ due = {} /\ ~pending

\* With the map at rest every session in view is shown, by its own overlay or in a
\* cluster; not by both, but that the render that makes the clusterer draws clusters
\* last and leaves the overlays until the next one.  With a stream open its
\* session alone is shown.  No overlay is left of a session that is gone.
EachSessionShownOnce ==
  Rests /\ (selected = Nothing \/ loaded) =>
    LET mine == IF selected = Nothing THEN sessions ELSE {selected}
        crowds == UNION shown.clusters
    IN  /\ shown.again => shown.overlays \cap crowds = {}
        /\ {s \in mine \cap sessions : InView(Position[s])} \subseteq shown.overlays \cup crowds
        /\ shown.overlays \cup crowds \subseteq mine
=============================================================================
