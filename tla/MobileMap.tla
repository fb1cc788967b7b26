------------------------------ MODULE MobileMap ------------------------------
(***************************************************************************)
(* The mobile sessions on the map, the path of the one that is open, and   *)
(* the notes along it.                                                     *)
(*                                                                         *)
(* Code: MobileMarkers, StreamMarkers, CustomMarker, NotesPopover, the     *)
(* slices and selectors of mobile streams and popovers, and the parts of   *)
(* Map that open and close a session.                                      *)
(*                                                                         *)
(* The path is drawn in the next animation frame after an effect, by a     *)
(* callback that keeps the stream and the colours of its render and that   *)
(* nobody cancels.  Requests for a stream are not cancelled either.        *)
(* Outside: Google's map and the popup, which a click outside closes.      *)
(***************************************************************************)
EXTENDS Integers, Sequences, FiniteSets

CONSTANTS
  Streams,       \* each the stream of one mobile session
  Nothing,
  PointsOf,      \* the places measured at, in order of time: one at least
  NotesOf,       \* the places of the notes, by date
  Near,          \* the streams whose markers are too close, per zoom
  MaxMoves       \* BOUND: sessions opened, changes of thresholds

Zooms == DOMAIN Near

VARIABLES
  sessions,      \* of the map
  selected,      \* streamId
  data, calls,   \* mobileStream.data, and the requests under way
  thresholds,    \* their version
  zoom, due,
  list,          \* of MobileMarkers: markers and labels
  path,          \* of StreamMarkers, if it is there
  frames,        \* callbacks to come
  markersLoading,
  popover, slide,\* the open one, and its own note
  moves,
  left,          \* history: streams drawn after their component had gone
  excused        \* history: what went wrong since the session was opened, and "gone",
                 \* a session closed while its path was still to be drawn, for good

net == <<data, calls>>
notes == <<popover, slide>>
vars == <<sessions, selected, net, thresholds, zoom, due, list, path, frames, markersLoading,
          notes, moves, left, excused>>

NoPopover == [key |-> Nothing, slide |-> 1]
Blank == [points |-> <<>>, notes |-> <<>>, line |-> Nothing]

Init ==
  /\ sessions \in SUBSET Streams
  /\ selected = Nothing
  /\ data = Nothing /\ calls = {}
  /\ thresholds = 0
  /\ zoom \in Zooms
  /\ due = {"list"}
  /\ list = [markers |-> {}, labels |-> {}]
  /\ path = Nothing
  /\ frames = <<>>
  /\ markersLoading = FALSE
  /\ popover = NoPopover /\ slide = 1
  /\ moves = 0
  /\ left = {} /\ excused = {}

-----------------------------------------------------------------------------
(* Drawing. *)

mobilePoints == IF selected = Nothing THEN sessions ELSE {selected}

\* A marker whose neighbour is too close has no label.
areMarkersTooClose(s, r) == {s, r} \in Near[zoom]
updateMarkers ==
  {s \in mobilePoints : ~ \E r \in mobilePoints \ {s} : areMarkersTooClose(s, r)}
MobileMarkers == [markers |-> mobilePoints, labels |-> updateMarkers]

\* A marker and its label are clicked alike.
createMarker(s) == selected = Nothing /\ s \in list.markers

\* Of the points at one place the last one is drawn.
sortedSessions(s) ==
  {i \in DOMAIN PointsOf[s] : ~ \E j \in DOMAIN PointsOf[s] : j > i /\ PointsOf[s][j] = PointsOf[s][i]}
colour(s, i, version) == <<s, i, version>>

createOrUpdateMarker(p, s, i, version) ==
  [at |-> PointsOf[s][i], colour |-> IF i \in DOMAIN p.points THEN p.points[i].colour
                                     ELSE colour(s, i, version)]

Places(s) == {NotesOf[s][k] : k \in DOMAIN NotesOf[s]}

\* The callback: points, notes and the line of its stream, and no others.
Drawn(p, f) ==
  [points |-> [i \in sortedSessions(f.of) |-> createOrUpdateMarker(p, f.of, i, f.version)],
   notes |-> [at \in Places(f.of) |-> f.of],
   line |-> f.of]

\* Changed thresholds colour what is drawn.
Coloured(p) ==
  [p EXCEPT !.points = [i \in DOMAIN p.points |->
     IF data # Nothing /\ i \in sortedSessions(data)
     THEN [p.points[i] EXCEPT !.colour = colour(data, i, thresholds)] ELSE p.points[i]]]

\* Nothing is no stream, no place and no path.
MobileAssumption ==
  /\ Nothing \notin Streams /\ Nothing # Blank
  /\ \A s \in Streams :
       /\ NotesOf[s] \in Seq(Places(s)) /\ Nothing \notin Places(s)
       /\ Nothing \notin
            [points : [sortedSessions(s) ->
                         [at : {PointsOf[s][i] : i \in DOMAIN PointsOf[s]},
                          colour : {s} \X (DOMAIN PointsOf[s]) \X Nat]],
             notes : [Places(s) -> {s}], line : {s}]

-----------------------------------------------------------------------------
(* A render. *)

Gone(fs) == [i \in DOMAIN fs |-> [fs[i] EXCEPT !.gone = TRUE]]

\* The component of the path comes and goes with the session; while there it clears
\* the path whenever the stream changes, and draws anew.
Render ==
  /\ due # {}
  /\ due' = {}
  /\ list' = MobileMarkers
  /\ IF selected = Nothing
     THEN /\ path' = Nothing
          /\ frames' = Gone(frames)
          /\ markersLoading' = FALSE
          /\ excused' = IF frames = <<>> THEN excused ELSE excused \cup {"gone"}
     ELSE LET here == IF path = Nothing THEN Blank ELSE path
          IN  /\ UNCHANGED excused
              /\ IF "stream" \in due \/ path = Nothing
                 THEN /\ path' = Blank
                      /\ markersLoading' = (data # Nothing)
                      /\ frames' = IF data = Nothing THEN frames
                                   ELSE Append(frames, [of |-> data, version |-> thresholds, gone |-> FALSE])
                 ELSE /\ path' = IF "thresholds" \in due THEN Coloured(here) ELSE here
                      /\ UNCHANGED <<frames, markersLoading>>
  /\ slide' = IF path' = Blank THEN popover.slide ELSE slide
  /\ UNCHANGED <<sessions, selected, net, thresholds, zoom, popover, moves, left>>

\* What is drawn for a component that has gone stays on the map.
AnimationFrame ==
  /\ frames # <<>>
  /\ LET f == Head(frames)
     IN  IF f.gone THEN /\ left' = left \cup {f.of}
                        /\ UNCHANGED <<path, slide>>
         ELSE /\ path' = Drawn(path, f)
              /\ slide' = popover.slide
              /\ UNCHANGED left
  /\ frames' = Tail(frames)
  /\ markersLoading' = FALSE
  /\ UNCHANGED <<sessions, selected, net, thresholds, zoom, due, list, popover, moves, excused>>

-----------------------------------------------------------------------------
(* The stream. *)

\* Answers come in any order, and for a session that was closed.
StreamAnswer(c, found) ==
  /\ c \in calls
  /\ calls' = calls \ {c}
  /\ data' = IF found THEN c.of ELSE Nothing
  /\ due' = IF data' = data THEN {} ELSE {"stream"}
  /\ excused' = excused \cup (IF found /\ c.of = selected THEN {} ELSE {"answer"})
                        \cup (IF frames = <<>> THEN {} ELSE {"frame"})
                        \cup (IF popover = NoPopover \/ data' = data THEN {} ELSE {"popup"})
  /\ UNCHANGED <<sessions, selected, thresholds, zoom, list, path, frames, markersLoading, notes, moves, left>>

Acts == moves < MaxMoves /\ moves' = moves + 1

\* A click on a marker or a label; the session's view asks once more.
handleMarkerClick(s) ==
  /\ createMarker(s)
  /\ Acts
  /\ selected' = s
  /\ calls' = calls \cup {[of |-> s, nth |-> n] : n \in {1, 2}}
  /\ due' = {"list", "stream"}
  /\ excused' = (excused \cap {"gone"}) \cup (IF calls = {} THEN {} ELSE {"answer"})
                                        \cup (IF popover = NoPopover THEN {} ELSE {"popup"})
  /\ UNCHANGED <<sessions, data, thresholds, zoom, list, path, frames, markersLoading, notes, left>>

\* The cross, or the marker again: a click that closes the popup first.
CloseSession ==
  /\ selected # Nothing
  /\ selected' = Nothing
  /\ data' = Nothing
  /\ popover' = NoPopover
  /\ due' = {"list", "stream"}
  /\ UNCHANGED <<sessions, calls, thresholds, zoom, list, path, frames, markersLoading, slide, moves,
                 left, excused>>

\* The browser's button goes back to the URL before: stream and popup stay.
Back ==
  /\ selected # Nothing
  /\ selected' = Nothing
  /\ due' = {"list"}
  /\ UNCHANGED <<sessions, net, thresholds, zoom, list, path, frames, markersLoading, notes, moves,
                 left, excused>>

-----------------------------------------------------------------------------
(* Notes. *)

FirstAt(s, at) == CHOOSE k \in DOMAIN NotesOf[s] :
                    NotesOf[s][k] = at /\ \A j \in 1..(k - 1) : NotesOf[s][j] # at

\* Every change of the popover makes the popups anew.
openPopover(at, k) ==
  /\ popover' = [key |-> at, slide |-> k]
  /\ slide' = k

onOpen(at) ==
  /\ path # Nothing /\ at \in DOMAIN path.notes
  /\ popover.key # at
  /\ openPopover(at, FirstAt(path.notes[at], at))
  /\ UNCHANGED <<sessions, selected, net, thresholds, zoom, due, list, path, frames, markersLoading,
                 moves, left, excused>>

Open == path # Nothing /\ popover.key \in DOMAIN path.notes

\* Mutant of onSlideChange: the popup stays where it is.
SlideInPlace(k) ==
  /\ Open
  /\ k \in DOMAIN NotesOf[path.notes[popover.key]] \ {slide}
  /\ slide' = k
  /\ UNCHANGED <<sessions, selected, net, thresholds, zoom, due, list, path, frames, markersLoading,
                 popover, moves, left, excused>>

\* The next note, or the one before: at another place its popup takes over.
onSlideChange(k) ==
  /\ Open
  /\ LET all == NotesOf[path.notes[popover.key]]
     IN  /\ slide \in DOMAIN all
         /\ k \in DOMAIN all \ {slide}
         /\ IF all[k] # popover.key THEN openPopover(all[k], k)
            ELSE slide' = k /\ UNCHANGED popover
  /\ UNCHANGED <<sessions, selected, net, thresholds, zoom, due, list, path, frames, markersLoading,
                 moves, left, excused>>

closePopover ==
  /\ Open
  /\ popover' = NoPopover
  /\ UNCHANGED <<sessions, selected, net, thresholds, zoom, due, list, path, frames, markersLoading,
                 slide, moves, left, excused>>

-----------------------------------------------------------------------------
(* The rest of the page. *)

\* The sessions are fetched again.
SessionsArrive(s) ==
  /\ selected = Nothing /\ s # sessions
  /\ sessions' = s
  /\ due' = {"list"}
  /\ UNCHANGED <<selected, net, thresholds, zoom, list, path, frames, markersLoading, notes, moves,
                 left, excused>>

\* The map rests at another zoom, which a map view puts into the URL.
handleMapIdle(z) ==
  /\ z # zoom
  /\ zoom' = z
  /\ due' = {"list"}
  /\ UNCHANGED <<sessions, selected, net, thresholds, list, path, frames, markersLoading, notes, moves,
                 left, excused>>

ThresholdsChange ==
  /\ Acts
  /\ thresholds' = thresholds + 1
  /\ due' = {"list", "thresholds"}
  /\ excused' = IF frames = <<>> THEN excused ELSE excused \cup {"frame"}
  /\ UNCHANGED <<sessions, selected, net, zoom, list, path, frames, markersLoading, notes, left>>

\* React renders before anything else happens.
Page ==
  \/ AnimationFrame
  \/ \E c \in calls, found \in BOOLEAN : StreamAnswer(c, found)
  \/ \E s \in Streams : handleMarkerClick(s)
  \/ CloseSession \/ Back
  \/ \E at \in UNION {Places(s) : s \in Streams} : onOpen(at)
  \/ \E k \in UNION {DOMAIN NotesOf[s] : s \in Streams} : onSlideChange(k)
  \/ closePopover
  \/ \E s \in SUBSET Streams : SessionsArrive(s)
  \/ \E z \in Zooms : handleMapIdle(z)
  \/ ThresholdsChange

Next == Render \/ (due = {} /\ Page)

Spec == Init /\ [][Next]_vars

-----------------------------------------------------------------------------
Rests == due = {} /\ frames = <<>>

\* With nothing under way the open session's path is on the map: each place once, in
\* the colours of the thresholds as they are, with its line and its notes and
\* nothing of another stream; without one the path is gone and all sessions are
\* there.  The popup that is open stands where its note was taken.  Exceptions: an
\* answer for another stream, or one that failed; two changes in one frame; a popup
\* open when the stream changed under it; and, for good, a session that was closed
\* before the frame that draws its path came: what that frame draws nobody removes.
PathIsOfTheSession ==
  Rests =>
    /\ ~markersLoading
    /\ list = MobileMarkers
    /\ "gone" \notin excused => left = {}
    /\ selected = Nothing => path = Nothing
    /\ selected # Nothing /\ calls = {} /\ excused \subseteq {"popup", "gone"} =>
         /\ path.line = selected
         /\ DOMAIN path.points = sortedSessions(selected)
         /\ \A i \in DOMAIN path.points :
              path.points[i] = [at |-> PointsOf[selected][i], colour |-> colour(selected, i, thresholds)]
         /\ path.notes = [at \in Places(selected) |-> selected]
         /\ Open /\ "popup" \notin excused =>
              slide \in DOMAIN NotesOf[selected] /\ NotesOf[selected][slide] = popover.key
=============================================================================
