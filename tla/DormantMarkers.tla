--------------------------- MODULE DormantMarkers ---------------------------
(***************************************************************************)
(* The markers of the dormant fixed sessions, and the marker on the map of  *)
(* what the graph is pointed at.                                           *)
(*                                                                         *)
(* Code: DormantMarkers, HoverMarker, the callbacks of the graph's points. *)
(* One effect makes the markers and takes them all away first; another     *)
(* hides and shows them by the stream that is open.  The first one depends *)
(* on a callback that each render of the map makes anew, the second does   *)
(* not, so a render of the map alone brings hidden markers back.           *)
(***************************************************************************)
CONSTANTS
  Streams,       \* each of one session
  Nothing

VARIABLES
  sessions,      \* the streams of the sessions
  selected,      \* selectedStreamId
  loaded,        \* there is a stream in fixedStream.data
  pending,       \* fixedStream.status is Pending
  pulsating,     \* the session pointed at in the list
  hover,         \* hoverStreamId, of the graph
  due,           \* what changed since the last render, if one is to come
  onMap, pulses, \* the markers drawn, and those that pulsate
  hoverAt,       \* where HoverMarker is
  redrawn        \* history: the map rendered alone since the markers were hidden

vars == <<sessions, selected, loaded, pending, pulsating, hover, due, onMap, pulses, hoverAt, redrawn>>

All == {"page", "selection", "hover"}

Init ==
  /\ sessions \in SUBSET Streams
  /\ selected = Nothing
  /\ loaded = FALSE /\ pending = FALSE
  /\ pulsating = Nothing /\ hover = Nothing
  /\ due = All
  /\ onMap = {} /\ pulses = {}
  /\ hoverAt = Nothing
  /\ redrawn = FALSE

\* Once a stream is there the others are hidden; without its place nothing is.
handleSelectedStreamId(there) ==
  IF selected = Nothing \/ pending THEN sessions
  ELSE IF loaded THEN there \cap {selected}
  ELSE there

Render ==
  /\ due # {}
  /\ due' = {}
  /\ LET made == IF "page" \in due THEN sessions ELSE onMap
     IN  onMap' = IF "selection" \in due THEN handleSelectedStreamId(made) ELSE made
  /\ pulses' = IF "page" \in due THEN {pulsating} \cap sessions ELSE pulses
  /\ hoverAt' = IF "hover" \notin due \/ hover \notin sessions \cup {Nothing} THEN hoverAt ELSE hover
  /\ redrawn' = ("selection" \notin due /\ (redrawn \/ selected # Nothing))
  /\ UNCHANGED <<sessions, selected, loaded, pending, pulsating, hover>>

-----------------------------------------------------------------------------
Markers == <<onMap, pulses, hoverAt, redrawn>>

\* The sessions are fetched anew: meanwhile the component is gone, with its markers.
Fetched(s) ==
  /\ sessions' = s
  /\ onMap' = {} /\ pulses' = {} /\ hoverAt' = Nothing
  /\ due' = All
  /\ UNCHANGED <<selected, loaded, pending, pulsating, hover, redrawn>>

\* A session is opened from the list, or by its marker, which hides the others at
\* once.  A marker clicked while a stream is open closes that one.
Open(s) ==
  /\ ~pending
  /\ \/ s \in sessions /\ selected = Nothing /\ UNCHANGED onMap
     \/ s \in onMap /\ onMap' = {s}
  /\ selected' = IF selected = Nothing THEN s ELSE Nothing
  /\ pending' = TRUE
  /\ loaded' = FALSE
  /\ hover' = Nothing
  /\ due' = All
  /\ UNCHANGED <<sessions, pulsating, pulses, hoverAt, redrawn>>

StreamAnswer(found) ==
  /\ pending
  /\ pending' = FALSE
  /\ loaded' = found
  /\ due' = {"page", "selection"}
  /\ UNCHANGED <<sessions, selected, pulsating, hover, Markers>>

\* The graph goes with the stream, and lets go of the point.
Close ==
  /\ selected # Nothing /\ ~pending
  /\ selected' = Nothing
  /\ loaded' = FALSE
  /\ hover' = Nothing
  /\ due' = All
  /\ UNCHANGED <<sessions, pending, pulsating, Markers>>

\* The pointer enters or leaves a session of the list.
PointAtSession(s) ==
  /\ selected = Nothing
  /\ pulsating' = s
  /\ due' = {"page"}
  /\ UNCHANGED <<sessions, selected, loaded, pending, hover, Markers>>

\* handleMouseOver and handleMouseOut of a point of the graph.
PointAtGraph(s) ==
  /\ selected # Nothing /\ loaded /\ s \in {selected, Nothing}
  /\ hover' = s
  /\ due' = {"hover"}
  /\ UNCHANGED <<sessions, selected, loaded, pending, pulsating, Markers>>

\* The thresholds or the URL change.
MapRenders ==
  /\ due' = {"page"}
  /\ UNCHANGED <<sessions, selected, loaded, pending, pulsating, hover, Markers>>

\* React renders before anything else happens.
Page ==
  \/ \E s \in SUBSET Streams : Fetched(s)
  \/ \E s \in Streams : Open(s)
  \/ \E found \in BOOLEAN : StreamAnswer(found)
  \/ Close
  \/ \E s \in sessions \cup {Nothing} : PointAtSession(s) \/ PointAtGraph(s)
  \/ MapRenders

Next == Render \/ (due = {} /\ Page)

Spec == Init /\ [][Next]_vars

-----------------------------------------------------------------------------
\* Every listed session has its marker while no stream is open, and with a stream
\* open its marker alone is left, but that a render of the map brings the others
\* back.  The session pointed at pulsates; the marker of the graph's point is that
\* of the stream it belongs to, and goes with it.
DormantShownOnce ==
  due = {} /\ ~pending =>
    /\ selected = Nothing => onMap = sessions
    /\ loaded /\ selected # Nothing /\ ~redrawn => onMap = sessions \cap {selected}
    /\ pulses = sessions \cap {pulsating}
    /\ hoverAt \in {hover, Nothing}
=============================================================================
