---------------------------- MODULE StreamGraph ----------------------------
(***************************************************************************)
(* The graph of a fixed stream in the browser: which measurements are      *)
(* loaded, which are still to be asked for, and what the numbers beside    *)
(* the graph are computed over.                                            *)
(*                                                                         *)
(* Code: useMeasurementsFetcher, useChartUpdater, Graph, the event         *)
(* handlers of getXAxisOptions, the arrows of chartEvents, fixedStreamSlice *)
(* and the places that open and close a stream (Map, CalendarPage).        *)
(*                                                                         *)
(* The store outlives the graph: an answer reaches it after the stream was *)
(* closed, or another one was opened.  The fetcher lives as long as the    *)
(* graph is mounted.  Time is counted in units longer than five minutes,   *)
(* the slack the code allows between ranges; every stream spans 0..Last.   *)
(***************************************************************************)
EXTENDS Integers, FiniteSets, FiniteSetsExt

CONSTANTS
  Streams,
  Closed,         \* no stream is open, or none is loaded
  Last,           \* the end of the sessions
  Day, Week, Month,
  PointsOf,       \* per stream, the times of its measurements on the server
  RecentOf,       \* those that come with the stream itself
  Zooms,          \* the ranges a user zooms, pans or scrolls to
  MaxInFlight,    \* BOUND: requests unanswered at once
  MaxMoves        \* BOUND: what the user does

\* What is asked of the constants.
GraphAssumption ==
  /\ Closed \notin Streams
  /\ Last \in Nat /\ MaxInFlight \in Nat
  /\ {Day, Week, Month} \subseteq Nat \ {0}
  /\ PointsOf \in [Streams -> SUBSET (0..Last)]
  /\ RecentOf \in [Streams -> SUBSET (0..Last)]
  /\ Zooms \subseteq Nat \X Nat

Times == 0..Last
Ranges == {r \in Times \X Times : r[1] < r[2]}
NoRange == <<0, 0>>
Slots == 1..MaxInFlight
NoCall == [kind |-> "none", stream |-> Closed, range |-> NoRange, job |-> 0, bounds |-> NoRange]

VARIABLES
  open,       \* the stream of the mounted graph (streamId)
  data,       \* fixedStream.data: whose it is, and the measurements in it
  fetched,    \* fixedStream.fetchedTimeRanges
  numbers,    \* the measurements min, max and average were computed over
  calls,      \* requests under way
  job,        \* the fetch the fetcher waits for (isCurrentlyFetchingRef), 0 if none
  started,    \* the graph asked for its first measurements (isFirstLoadRef)
  view,       \* the extremes of the x axis
  echoes,     \* delayed updates of the numbers: the extremes each one captured
  held,       \* ranges a drag or the wheel left to be fetched later
  day,        \* the calendar day is selected
  moves,      \* actions of the user so far
  replaced    \* history: streams whose data was replaced after a range was recorded

store == <<data, fetched, numbers, replaced>>
fetcher == <<job, started>>
chart == <<view, echoes, held, day>>
vars == <<open, store, calls, fetcher, chart, moves>>

Smaller(a, b) == IF a < b THEN a ELSE b
Larger(a, b) == IF a > b THEN a ELSE b

\* A measurement carries its stream: the code keeps only its time.
Within(points, r) == {p \in points : r[1] <= p[2] /\ p[2] <= r[2]}
Served(s, r) == Within({s} \X PointsOf[s], r)

Empty == [of |-> Closed, points |-> {}]

Init ==
  /\ open = Closed
  /\ data = Empty
  /\ fetched = [s \in Streams |-> {}]
  /\ numbers = {}
  /\ calls = [i \in Slots |-> NoCall]
  /\ job = 0
  /\ started = FALSE
  /\ view = NoRange
  /\ echoes = {}
  /\ held = {}
  /\ day = FALSE
  /\ moves = 0
  /\ replaced = {}

-----------------------------------------------------------------------------
(* What is missing, and what is asked for. *)

\* The longest pieces of a range that no fetched range overlaps.
Gaps(r, have) ==
  {g \in Ranges :
     /\ g[1] = r[1] \/ (g[1] > r[1] /\ \E f \in have : f[2] = g[1])
     /\ g[2] = r[2] \/ (g[2] < r[2] /\ \E f \in have : f[1] = g[2])
     /\ \A f \in have : f[2] <= g[1] \/ g[2] <= f[1]}

\* At most a month each, counted from the end.
Chunks(g) ==
  {<<Larger(g[1], g[2] - (k + 1) * Month), g[2] - k * Month>> :
     k \in {n \in 0..(Last \div Month) : g[2] - n * Month > g[1]}}

findMissingRanges(r, have) == UNION {Chunks(g) : g \in Gaps(r, have)}

InSession(r) == <<Larger(r[1], 0), Smaller(r[2], Last)>>
Padded(r) ==
  LET pad == Smaller((r[2] - r[1]) \div 4, Day)
  IN  InSession(<<r[1] - pad, r[2] + pad>>)
LastMonth(r) == IF r[2] - r[1] > Month THEN <<r[2] - Month, r[2]>> ELSE r

\* A missing range grows to what is worth asking for at once.
Asked(r, how) ==
  LastMonth(InSession(
    CASE how = "day"  -> <<r[1] - 2 * Day, r[2] + Day>>
      [] how = "edge" -> <<r[1] - Month \div 2, r[2] + Month \div 2>>
      [] how = "view" -> r))

\* The request asks for nothing when nothing of the range itself is missing,
\* unless it is the first one; otherwise for what its padding misses.
Requests(r, how) ==
  LET bounds == InSession(r)
      have == fetched[open]
  IN  IF bounds[1] >= bounds[2] \/ (how # "edge" /\ findMissingRanges(bounds, have) = {})
      THEN {}
      ELSE {Asked(m, how) : m \in findMissingRanges(Padded(bounds), have)}

Free == {i \in Slots : calls[i] = NoCall}
Jobs == {calls[i].job : i \in Slots}

StreamCall(s) == [NoCall EXCEPT !.kind = "stream", !.stream = s]
RangeCall(r, j, bounds) ==
  [kind |-> "points", stream |-> open, range |-> r, job |-> j, bounds |-> bounds]

FreeSlots(n) == CHOOSE S \in SUBSET Free : Cardinality(S) = n
OneEach(slots, ranges) ==
  CHOOSE f \in [slots -> ranges] : \A r \in ranges : \E i \in slots : f[i] = r

\* Nothing is asked for while a fetch is under way, or when nothing is missing.
\* The calls go out together.
fetchMeasurementsIfNeeded(r, how) ==
  LET ranges == Requests(r, how)
      slots == FreeSlots(Cardinality(ranges))
      place == OneEach(slots, ranges)
      next == Min((1..(MaxInFlight + 1)) \ Jobs)
  IN  IF job # 0 \/ ranges = {}
      THEN UNCHANGED <<calls, job>>
      ELSE /\ Cardinality(ranges) <= Cardinality(Free)
           /\ calls' = [i \in Slots |->
                IF i \in slots THEN RangeCall(place[i], next, InSession(r)) ELSE calls[i]]
           /\ job' = next

-----------------------------------------------------------------------------
(* Opening and closing. *)

\* A click on a marker asks for the stream, and so does the page once the stream
\* is in its URL, if no measurements are loaded then.
Open(s, clicked) ==
  LET n == (IF clicked THEN 1 ELSE 0) + (IF data.points = {} THEN 1 ELSE 0)
  IN  /\ open = Closed
      /\ n <= Cardinality(Free)
      /\ moves < MaxMoves
      /\ moves' = moves + 1
      /\ open' = s
      /\ calls' = [i \in Slots |-> IF i \in FreeSlots(n) THEN StreamCall(s) ELSE calls[i]]
      /\ UNCHANGED <<data, fetched, numbers, replaced, fetcher, chart>>

\* resetFixedStreamState, and the graph unmounts: the fetcher and the timers of
\* the chart are gone, the calls are not.
Reset ==
  /\ open' = Closed
  /\ data' = Empty
  /\ fetched' = [s \in Streams |-> {}]
  /\ replaced' = {}
  /\ numbers' = {}
  /\ job' = 0
  /\ started' = FALSE
  /\ view' = NoRange
  /\ held' = {}
  /\ day' = FALSE
  /\ UNCHANGED echoes

Close ==
  /\ open # Closed
  /\ Reset
  /\ UNCHANGED <<calls, moves>>

\* With a stream open, a click on a marker asks for that marker's stream and
\* closes the panel.
ClickAnother(s) ==
  /\ open # Closed
  /\ Free # {}
  /\ moves < MaxMoves
  /\ moves' = moves + 1
  /\ calls' = [i \in Slots |-> IF i \in FreeSlots(1) THEN StreamCall(s) ELSE calls[i]]
  /\ Reset

\* The chart is drawn once there are measurements; it shows the last day.
ChartLoads ==
  /\ open # Closed /\ data.points # {} /\ view = NoRange
  /\ view' = <<Last - Day, Last>>
  /\ started' = TRUE
  /\ echoes' = echoes \cup {view'}
  /\ UNCHANGED <<open, store, calls, job, held, day, moves>>

\* The first fetch, of everything, unless the chart was there before it.
FirstFetch ==
  /\ open # Closed /\ data.of # Closed /\ ~started
  /\ started' = TRUE
  /\ fetchMeasurementsIfNeeded(<<0, Last>>, "edge")
  /\ UNCHANGED <<open, data, fetched, numbers, replaced, chart, moves>>

-----------------------------------------------------------------------------
(* Answers. *)

\* A drawn chart whose measurements or loading state change captures the
\* extremes, to compute the numbers over them a moment later.
Echo == echoes' = IF open # Closed /\ view # NoRange THEN echoes \cup {view} ELSE echoes

StreamAnswer(i) ==
  LET s == calls[i].stream
  IN  /\ calls[i].kind = "stream"
      /\ calls' = [calls EXCEPT ![i] = NoCall]
      /\ \/ /\ data' = [of |-> s, points |-> {s} \X RecentOf[s]]
            /\ replaced' = IF fetched[s] # {} THEN replaced \cup {s} ELSE replaced
         \/ /\ data' = Empty
            /\ UNCHANGED replaced
      /\ view' = IF data'.points = {} THEN NoRange ELSE view
      /\ Echo
      /\ UNCHANGED <<open, fetched, numbers, fetcher, held, day, moves>>

\* Measurements are merged by their time alone, and the first one stays.
Merged(points, new) == points \cup {p \in new : \A q \in points : q[2] # p[2]}

LastOfJob(i) == calls[i].job # 0 /\ \A k \in Slots \ {i} : calls[k].job # calls[i].job
Finished(i) == IF LastOfJob(i) /\ job = calls[i].job THEN 0 ELSE job

\* The range is recorded as fetched if it had any measurements.  The numbers are
\* those of the range, and those of the whole request after its last answer.
RangeAnswer(i) ==
  LET c == calls[i]
      new == Served(c.stream, c.range)
      points == Merged(data.points, new)
  IN  /\ c.kind = "points"
      /\ calls' = [calls EXCEPT ![i] = NoCall]
      /\ data' = [data EXCEPT !.points = points]
      /\ fetched' = [fetched EXCEPT ![c.stream] = IF new = {} THEN @ ELSE @ \cup {c.range}]
      /\ numbers' = IF LastOfJob(i) THEN Within(points, c.bounds)
                    ELSE IF Within(points, c.range) # {} THEN Within(points, c.range) ELSE numbers
      /\ job' = Finished(i)
      /\ Echo
      /\ UNCHANGED <<open, started, view, held, day, moves, replaced>>

\* Mutant of RangeFails: a request that fails leaves the fetcher waiting.
FailsWaiting(i) ==
  /\ calls[i].kind = "points"
  /\ calls' = [calls EXCEPT ![i] = NoCall]
  /\ Echo
  /\ UNCHANGED <<open, data, fetched, numbers, replaced, fetcher, view, held, day, moves>>

\* Mutant of RangeFails: the range is recorded when it is asked for.
FailsRecorded(i) ==
  /\ calls[i].kind = "points"
  /\ calls' = [calls EXCEPT ![i] = NoCall]
  /\ fetched' = [fetched EXCEPT ![calls[i].stream] = @ \cup {calls[i].range}]
  /\ job' = Finished(i)
  /\ Echo
  /\ UNCHANGED <<open, data, numbers, replaced, started, view, held, day, moves>>

\* The request is over with its first failure: the other calls go on alone.
RangeFails(i) ==
  /\ calls[i].kind = "points"
  /\ calls' = [k \in Slots |-> IF k = i THEN NoCall
                               ELSE IF calls[i].job # 0 /\ calls[k].job = calls[i].job
                               THEN [calls[k] EXCEPT !.job = 0]
                               ELSE calls[k]]
  /\ job' = IF job = calls[i].job THEN 0 ELSE job
  /\ Echo
  /\ UNCHANGED <<open, data, fetched, numbers, replaced, started, view, held, day, moves>>

\* Once the chart rests, the numbers follow the extremes, unless a render in the
\* meantime drops that update.
Settle ==
  /\ open # Closed /\ view # NoRange
  /\ numbers' = Within(data.points, view)
  /\ UNCHANGED <<open, data, fetched, replaced, calls, fetcher, chart, moves>>

\* useChartUpdater's timer.
Refresh(r) ==
  /\ r \in echoes
  /\ echoes' = echoes \ {r}
  /\ numbers' = Within(data.points, r)
  /\ UNCHANGED <<open, data, fetched, replaced, calls, fetcher, view, held, day, moves>>

-----------------------------------------------------------------------------
(* The user moves the range. *)

Drawn == open # Closed /\ view # NoRange

Move(r) ==
  /\ Drawn
  /\ moves < MaxMoves
  /\ moves' = moves + 1
  /\ view' = r
  /\ UNCHANGED <<open, data, fetched, replaced, started, echoes>>

Around(r) == LET pad == (r[2] - r[1]) \div 4 IN InSession(<<r[1] - pad, r[2] + pad>>)
Seen == numbers' = Within(data.points, view')

\* The buttons for a day, a week and a month before the end of the view.
handleRangeSelectorClick(length) ==
  LET end == Smaller(view[2], Last)
      r == <<Larger(end - length, 0), end>>
  IN  /\ Move(r)
      /\ Seen
      /\ fetchMeasurementsIfNeeded(IF Requests(r, "view") # {} THEN r ELSE Around(r), "view")
      /\ day' = FALSE
      /\ UNCHANGED held

Zoom(r) ==
  /\ Move(r)
  /\ Seen
  /\ fetchMeasurementsIfNeeded(Around(r), "view")
  /\ day' = FALSE
  /\ UNCHANGED held

\* The arrows move the view by a part of its width, within the measurements.
Shifted(by, dataMin, dataMax) ==
  LET width == view[2] - view[1]
  IN  IF by < 0
      THEN <<Larger(dataMin, view[1] + by), Larger(dataMin + width, view[2] + by)>>
      ELSE <<Smaller(dataMax - width, view[1] + by), Smaller(dataMax, view[2] + by)>>

Arrow(by) ==
  LET times == {p[2] : p \in data.points}
      r == Shifted(by, Min(times), Max(times))
  IN  /\ times # {} /\ r \in Ranges
      /\ Move(r)
      /\ fetchMeasurementsIfNeeded(Around(r), "view")
      /\ day' = FALSE
      /\ UNCHANGED <<numbers, held>>

\* Scrolling with the wheel, or dragging the navigator: the fetch is left for
\* when the wheel rests or the drag ends.  A render in between starts anew, and
\* what was held before stays to be fetched too.
Scroll(r) ==
  /\ Move(r)
  /\ \/ Seen                    \* the wheel
     \/ UNCHANGED numbers       \* the navigator
  /\ held' \in {{r}, held \cup {r}}
  /\ day' = FALSE
  /\ UNCHANGED <<calls, job>>

Rest(r) ==
  /\ open # Closed
  /\ r \in held
  /\ held' = held \ {r}
  /\ fetchMeasurementsIfNeeded(Around(r), "view")
  /\ UNCHANGED <<open, data, fetched, numbers, replaced, started, view, echoes, day, moves>>

\* A day of the calendar: it is fetched together with the two days before it.
PickDay(d) ==
  LET r == InSession(<<d, d + Day>>)
  IN  /\ Move(r)
      /\ Seen
      /\ fetchMeasurementsIfNeeded(r, "day")
      /\ day' = TRUE
      /\ UNCHANGED held

-----------------------------------------------------------------------------
User ==
  \/ \E s \in Streams : (\E clicked \in BOOLEAN : Open(s, clicked)) \/ ClickAnother(s)
  \/ Close
  \/ \E length \in {Day, Week, Month} : handleRangeSelectorClick(length)
  \/ \E r \in Zooms : Zoom(r) \/ Scroll(r)
  \/ \E by \in {-1, 1} : Arrow(by)
  \/ \E d \in {n \in Times : n < Last /\ n % Day = 0} : PickDay(d)

Answer(i) == StreamAnswer(i) \/ RangeAnswer(i) \/ RangeFails(i)
Page == ChartLoads \/ FirstFetch \/ Settle \/ \E r \in Ranges : Refresh(r) \/ Rest(r)

Next == User \/ Page \/ \E i \in Slots : Answer(i)

Spec == Init /\ [][Next]_vars

-----------------------------------------------------------------------------
\* The fetcher drops every request while it waits, so it may wait only for a call
\* that is still to be answered, and the overlay is shown only meanwhile.
FetcherWaitsForACall == job # 0 => \E i \in Slots : calls[i].job = job

\* What is recorded as fetched is never asked for again, so it must be loaded:
\* it is, unless the stream was loaded anew after the range was recorded, or
\* measurements of another stream were merged into the data.
RecordedRangesAreLoaded ==
  data.of \in Streams \ replaced /\ data.points \subseteq {data.of} \X Times
    => \A r \in fetched[data.of] : Served(data.of, r) \subseteq data.points
=============================================================================
