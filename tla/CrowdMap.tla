------------------------------ MODULE CrowdMap ------------------------------
(***************************************************************************)
(* The crowd map: rectangles of average values, and the information on the *)
(* one that was clicked.                                                   *)
(*                                                                         *)
(* Code: CrowdMapMarkers, CrowdMapGridSize, the slices of the crowd map    *)
(* and of the rectangle.  The rectangles are those of the sessions on the  *)
(* map, so they are fetched anew whenever the sessions have loaded; no     *)
(* request is cancelled.  Outside: the sessions (SessionLists), the        *)
(* filters (Filters), Google's map.                                        *)
(*                                                                         *)
(* A set of filters is a version.  Effects run in the order they are       *)
(* written in; those of one render see the state of that render.           *)
(***************************************************************************)
EXTENDS Integers, Sequences, SequencesExt

CONSTANTS
  Cells,         \* places of rectangles
  Nothing,
  MaxMoves       \* BOUND: changes of filters, of sessions, of zoom, and clicks

\* What is asked of the constants.
CrowdAssumption == Nothing \notin [length : Nat, drawn : Nat]

VARIABLES
  filters,       \* of the URL and the sessions: the version
  owed,          \* the sessions of the filters are yet to be asked for
  loading,       \* mobileSessionsLoading
  fetching,      \* fetchingCrowdMapData
  timers,        \* running: to fetch after a new grid size
  calls,         \* the versions asked for, in this order
  rectangles,    \* answered: of which version, and how many
  drawn, seen,   \* on the map, and what the last render saw
  markersLoading,
  due,           \* dependencies of effects that changed
  point, data,   \* the rectangle clicked, and the one known
  infoTimers, infoCalls,
  rectangleLoading,
  moves,
  excused        \* history

info == <<point, data, infoTimers, infoCalls, rectangleLoading>>
vars == <<filters, owed, loading, fetching, timers, calls, rectangles, drawn, seen, markersLoading, due,
          info, moves, excused>>

clearCrowdMap == [of |-> Nothing, n |-> 0]

Init ==
  /\ filters = 0 /\ owed = FALSE
  /\ loading \in BOOLEAN
  /\ fetching = TRUE
  /\ timers = 0 /\ calls = <<>>
  /\ rectangles = clearCrowdMap /\ drawn = clearCrowdMap
  /\ seen = Nothing
  /\ markersLoading = FALSE
  /\ due = {"tags", "fetching", "rectangles"}
  /\ point = Nothing /\ data = Nothing
  /\ infoTimers = {} /\ infoCalls = {}
  /\ rectangleLoading = FALSE
  /\ moves = 0
  /\ excused = {}

Saw == [length |-> rectangles.n, drawn |-> drawn.n]

-----------------------------------------------------------------------------
(* A render and its effects; the map renders its markers at other times, too. *)

\* Mutant of Fetches: while the sessions load nothing is asked for, and nothing after.
FetchesOnZoom == due \cap {"fetching", "zoom"} # {} /\ (~loading \/ fetching)

Fetches == due \cap {"fetching", "loading", "zoom"} # {} /\ (~loading \/ fetching)

\* Another length, or other people's sessions, is loading until all is drawn.
SetLoading ==
  LET starts == seen = Nothing \/ rectangles.n # seen.length \/ "tags" \in due
  IN  (markersLoading \/ starts) /\ ~(Saw # seen /\ drawn'.n >= rectangles.n)

Render ==
  /\ due # {} \/ Saw # seen
  /\ seen' = Saw
  /\ drawn' = IF due \cap {"rectangles", "loading", "filters", "tags"} = {} THEN drawn
              ELSE IF loading THEN clearCrowdMap ELSE rectangles
  /\ markersLoading' = SetLoading
  /\ IF Fetches
     THEN /\ point' = Nothing
          /\ rectangles' = clearCrowdMap
          /\ calls' = Append(calls, filters)
          /\ due' = {"rectangles"}
          /\ excused' = (excused \ {"failed"}) \ (IF calls = <<>> THEN {"overtaken"} ELSE {})
     ELSE due' = {} /\ UNCHANGED <<point, rectangles, calls, excused>>
  /\ UNCHANGED <<filters, owed, loading, fetching, timers, data, infoTimers, infoCalls, rectangleLoading,
                 moves>>

\* Answers come in any order.
fetchCrowdMapData(i, n) ==
  /\ i \in DOMAIN calls
  /\ calls' = RemoveAt(calls, i)
  /\ rectangles' = IF n = Nothing THEN rectangles ELSE [of |-> calls[i], n |-> n]
  /\ fetching' = FALSE
  /\ due' = (IF n = Nothing THEN {} ELSE {"rectangles"}) \cup (IF fetching THEN {"fetching"} ELSE {})
  /\ excused' = excused \cup (IF n = Nothing THEN {"failed"} ELSE {})
                        \cup (IF \E j \in 1..(i - 1) : calls[j] # calls[i] THEN {"overtaken"} ELSE {})
  /\ UNCHANGED <<filters, owed, loading, timers, drawn, seen, markersLoading, info, moves>>

-----------------------------------------------------------------------------
(* Filters, sessions and the map. *)

Acts == moves < MaxMoves /\ moves' = moves + 1
Refiltered(what) == filters' = filters + 1 /\ due' = {"filters"} \cup what

\* Times, tags and names: the sessions follow after 200 ms.
setFilter(tags) ==
  /\ Acts
  /\ Refiltered(IF tags THEN {"tags"} ELSE {})
  /\ owed' = TRUE
  /\ excused' = IF tags /\ rectangles.n = 0 THEN excused \cup {"tags"} ELSE excused
  /\ UNCHANGED <<loading, fetching, timers, calls, rectangles, drawn, seen, markersLoading, info>>

\* The size of the grid: the rectangles follow after 200 ms.
handleGridSize ==
  /\ Acts
  /\ Refiltered({})
  /\ timers' = timers + 1
  /\ UNCHANGED <<owed, loading, fetching, calls, rectangles, drawn, seen, markersLoading, info, excused>>

setFetchingCrowdMapData ==
  /\ timers > 0
  /\ timers' = timers - 1
  /\ fetching' = TRUE
  /\ due' = IF fetching THEN {} ELSE {"fetching"}
  /\ UNCHANGED <<filters, owed, loading, calls, rectangles, drawn, seen, markersLoading, info, moves, excused>>

SessionsAsked ==
  /\ ~loading
  /\ owed \/ moves < MaxMoves
  /\ moves' = IF owed THEN moves ELSE moves + 1
  /\ owed' = FALSE
  /\ loading' = TRUE
  /\ due' = {"loading"}
  /\ UNCHANGED <<filters, fetching, timers, calls, rectangles, drawn, seen, markersLoading, info, excused>>

\* Answered, or failed: the streams are others.
SessionsLoaded ==
  /\ loading
  /\ loading' = FALSE
  /\ Refiltered({"loading"})
  /\ UNCHANGED <<owed, fetching, timers, calls, rectangles, drawn, seen, markersLoading, info, moves, excused>>

\* The map rests at another zoom.
handleMapIdle ==
  /\ Acts
  /\ filters' = filters + 1
  /\ due' = {"zoom"}
  /\ UNCHANGED <<owed, loading, fetching, timers, calls, rectangles, drawn, seen, markersLoading, info, excused>>

-----------------------------------------------------------------------------
(* The rectangle that is clicked. *)

\* It is asked about after 100 ms.
handleRectangleClick(r) ==
  /\ drawn.n > 0
  /\ Acts
  /\ point' = r
  /\ data' = Nothing
  /\ infoTimers' = infoTimers \cup {r}
  /\ excused' = IF infoCalls \cup infoTimers = {} THEN excused \ {"clicks"} ELSE excused \cup {"clicks"}
  /\ UNCHANGED <<filters, owed, loading, fetching, timers, calls, rectangles, drawn, seen, markersLoading,
                 due, infoCalls, rectangleLoading>>

fetchRectangleData(r) ==
  /\ r \in infoTimers
  /\ infoTimers' = infoTimers \ {r}
  /\ infoCalls' = infoCalls \cup {r}
  /\ rectangleLoading' = TRUE
  /\ UNCHANGED <<filters, owed, loading, fetching, timers, calls, rectangles, drawn, seen, markersLoading,
                 due, point, data, moves, excused>>

RectangleAnswer(r, found) ==
  /\ r \in infoCalls
  /\ infoCalls' = infoCalls \ {r}
  /\ data' = IF found THEN r ELSE data
  /\ rectangleLoading' = FALSE
  /\ UNCHANGED <<filters, owed, loading, fetching, timers, calls, rectangles, drawn, seen, markersLoading,
                 due, point, infoTimers, moves, excused>>

\* A click elsewhere, a drag, a zoom.
useMapEventListeners ==
  /\ point # Nothing
  /\ point' = Nothing /\ data' = Nothing
  /\ UNCHANGED <<filters, owed, loading, fetching, timers, calls, rectangles, drawn, seen, markersLoading,
                 due, infoTimers, infoCalls, rectangleLoading, moves, excused>>

\* React renders before anything else happens.
Page ==
  \/ \E i \in DOMAIN calls, n \in {0, 1, Nothing} : fetchCrowdMapData(i, n)
  \/ \E tags \in BOOLEAN : setFilter(tags)
  \/ handleGridSize \/ setFetchingCrowdMapData
  \/ SessionsAsked \/ SessionsLoaded
  \/ handleMapIdle
  \/ \E r \in Cells : handleRectangleClick(r) \/ fetchRectangleData(r)
  \/ \E r \in Cells, found \in BOOLEAN : RectangleAnswer(r, found)
  \/ useMapEventListeners

Next == Render \/ (due = {} /\ Page)

Spec == Init /\ [][Next]_vars

-----------------------------------------------------------------------------
Rests == due = {} /\ calls = <<>> /\ timers = 0 /\ ~owed /\ ~loading

\* With nothing under way the rectangles on the map are those of the filters and the
\* sessions as they are, and nothing says that markers load; what is shown at a
\* rectangle is about that rectangle.  Exceptions: an answer that came after a later
\* one, or failed; tags changed while the crowd map was empty; a rectangle clicked
\* while the one before was asked about.
CrowdMapIsOfTheFilters ==
  /\ Rests /\ "overtaken" \notin excused =>
       /\ rectangles.of = filters \/ "failed" \in excused
       /\ drawn = rectangles
       /\ "tags" \notin excused => ~markersLoading
  /\ point # Nothing /\ data # Nothing /\ ~rectangleLoading /\ "clicks" \notin excused => data = point
=============================================================================
