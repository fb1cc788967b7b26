------------------------------ MODULE Timelapse ------------------------------
(***************************************************************************)
(* The timelapse: the fixed sessions hour by hour, played on the map.      *)
(*                                                                         *)
(* Code: TimelapseComponent, NavigationButtons, TimeAxis, TimeRangeButtons,*)
(* TimelapseMarkers, timelapseSlice, filterTimelapseData, and the parts of *)
(* Map that open the timelapse and fetch for it.  One request at a time:   *)
(* another one is not sent while the first is under way.  The step is kept *)
(* by the component, the hour of it by the store.                          *)
(*                                                                         *)
(* Outside: the server, the sessions on the map (SessionLists), the user.  *)
(***************************************************************************)
EXTENDS Integers, Sequences, SequencesExt, Functions

CONSTANTS
  Answers,       \* what the server may say: sequences of hours by time, each with
                 \* its time t, its age in days, and the sessions at the places
  Nothing,
  MaxMoves       \* BOUND: openings, changes of range, of thresholds, of the map

TimeRanges == {1, 3, 7}

\* The hours of an answer are by time, none twice.
AnswersAssumption ==
  /\ \A a \in Answers :
       /\ a \in Seq(Range(a))
       /\ \A i, j \in DOMAIN a : i < j => a[i].t # a[j].t /\ a[i].age >= a[j].age
       /\ \A i \in DOMAIN a :
            /\ a[i].age \in Nat /\ a[i].t # Nothing
            /\ a[i].at \in [DOMAIN a[i].at -> [sessions : Nat, value : Int]]
  /\ Nothing \notin [sessions : Nat, value : Int]

VARIABLES
  view,          \* TimelapseView
  fixedPoints,   \* of the map: their version
  status, asked, \* of the request, and the points it was sent for
  data,          \* the hours, and the points they are of
  currentTimestamp,
  timeRange,
  currentStep, isPlaying,
  drag,          \* on the axis: whether, and where to
  shown,         \* the controls are there
  thresholds,    \* their version
  markers,
  due,           \* dependencies of effects that changed
  moves,
  excused        \* history

vars == <<view, fixedPoints, status, asked, data, currentTimestamp, timeRange, currentStep, isPlaying, drag,
          shown, thresholds, markers, due, moves, excused>>

NoDrag == [on |-> FALSE, to |-> Nothing]
None == <<>>

Init ==
  /\ view \in BOOLEAN
  /\ fixedPoints = 0
  /\ status = "idle" /\ asked = Nothing
  /\ data = [of |-> Nothing, hours |-> <<>>]
  /\ currentTimestamp = Nothing
  /\ timeRange = 1
  /\ currentStep = 0 /\ isPlaying = FALSE
  /\ drag = NoDrag
  /\ shown = FALSE
  /\ thresholds = 0
  /\ markers = None
  /\ due = {"view"}
  /\ moves = 0
  /\ excused = {}

\* Those of the range, the last ones since they are by time, or all if there are none.
filterTimestamps ==
  LET recent == {i \in DOMAIN data.hours : data.hours[i].age < timeRange}
  IN  IF recent = {} THEN data.hours ELSE SubSeq(data.hours, Min(recent), Len(data.hours))
totalSteps == Len(filterTimestamps)
TimeOf(step) == IF step + 1 \in DOMAIN filterTimestamps THEN filterTimestamps[step + 1].t ELSE Nothing

-----------------------------------------------------------------------------
(* Markers: a cluster where there are several sessions, else one with a label. *)

isCluster(session) == session.sessions > 1
createNewMarker(session) ==
  [cluster |-> isCluster(session), session |-> session, thresholds |-> thresholds,
   label |-> IF isCluster(session) THEN Nothing ELSE session]

updateMarker(marker, session) ==
  [marker EXCEPT !.session = session, !.thresholds = thresholds,
                 !.label = IF @ = Nothing THEN Nothing ELSE session]

\* Mutant of updateExistingMarker: markers never become clusters, nor clusters markers.
UpdateInPlace(marker, session) == updateMarker(marker, session)

updateExistingMarker(marker, session) ==
  IF isCluster(session) # marker.cluster THEN createNewMarker(session)
  ELSE updateMarker(marker, session)

Hour(t) == SelectLastInSeq(data.hours, LAMBDA h : h.t = t)

\* The markers of the hour, those of before where they were; none without an hour.
TimelapseMarkers(t) ==
  IF Hour(t) = 0 THEN None
  ELSE LET at == data.hours[Hour(t)].at
       IN  [p \in DOMAIN at |-> IF p \in DOMAIN markers THEN updateExistingMarker(markers[p], at[p])
                                ELSE createNewMarker(at[p])]

-----------------------------------------------------------------------------
(* A render with its effects, and those of what they change. *)

Asks == view /\ due \cap {"view", "points"} # {}
Restarts == view /\ due \cap {"view", "hours"} # {}

\* While hours are fetched neither controls nor markers are there; with the controls
\* it begins to play.
Render ==
  /\ due # {}
  /\ due' = {}
  /\ status' = IF Asks THEN "pending" ELSE status
  /\ asked' = IF Asks /\ status # "pending" THEN fixedPoints ELSE asked
  /\ excused' = (excused \ ((IF Asks /\ status # "pending" THEN {"dropped", "failed"} ELSE {})
                             \cup (IF Restarts /\ ~drag.on THEN {"dragged"} ELSE {})))
                  \cup (IF Asks /\ status = "pending" /\ asked # fixedPoints THEN {"dropped"} ELSE {})
  /\ currentStep' = IF Restarts THEN 0 ELSE currentStep
  /\ currentTimestamp' = IF Restarts /\ totalSteps > 0 THEN TimeOf(0) ELSE currentTimestamp
  /\ shown' = (view /\ status' # "pending")
  /\ isPlaying' = (shown' /\ (~shown \/ isPlaying))
  /\ drag' = IF shown' /\ shown THEN drag ELSE NoDrag
  /\ markers' = IF shown' THEN TimelapseMarkers(currentTimestamp') ELSE None
  /\ UNCHANGED <<view, fixedPoints, data, timeRange, thresholds, moves>>

\* A request that fails leaves the hours as they were.
fetchTimelapseData(answer) ==
  /\ status = "pending"
  /\ \/ /\ status' = "rejected"
        /\ excused' = excused \cup {"failed"}
        /\ due' = {"status"}
        /\ UNCHANGED <<data, currentTimestamp>>
     \/ /\ status' = "fulfilled"
        /\ data' = [of |-> asked, hours |-> answer]
        /\ currentTimestamp' = IF answer = <<>> THEN currentTimestamp ELSE Last(answer).t
        /\ due' = {"hours"}
        /\ UNCHANGED excused
  /\ UNCHANGED <<view, fixedPoints, asked, timeRange, currentStep, isPlaying, drag, shown, thresholds, markers, moves>>

-----------------------------------------------------------------------------
(* The controls. *)

\* The step and the hour of it; playing, range and drag are for each control to say.
handleStepChange(step) ==
  /\ currentStep' = step
  /\ currentTimestamp' = TimeOf(step)
  /\ due' = {"timestamp"}
  /\ UNCHANGED <<view, fixedPoints, status, asked, data, timeRange, shown, thresholds, markers, moves, excused>>

handleNextStep == currentStep < totalSteps - 1 /\ handleStepChange(currentStep + 1)
handlePreviousStep == currentStep > 0 /\ handleStepChange(currentStep - 1)
handleGoToStart == currentStep # 0 /\ handleStepChange(0)
handleGoToEnd == currentStep # totalSteps - 1 /\ handleStepChange(totalSteps - 1)

NavigationButtons ==
  /\ shown
  /\ handleNextStep \/ handlePreviousStep \/ handleGoToStart \/ handleGoToEnd
  /\ UNCHANGED <<isPlaying, drag>>

handlePlayPause ==
  /\ shown
  /\ isPlaying' = ~isPlaying
  /\ UNCHANGED <<view, fixedPoints, status, asked, data, currentTimestamp, timeRange, currentStep, drag, shown,
                 thresholds, markers, due, moves, excused>>

\* Every half second; at the end it stops.
Play ==
  /\ isPlaying
  /\ \/ handleNextStep /\ UNCHANGED isPlaying
     \/ /\ currentStep >= totalSteps - 1
        /\ isPlaying' = FALSE
        /\ UNCHANGED <<view, fixedPoints, status, asked, data, currentTimestamp, timeRange, currentStep, shown,
                       thresholds, markers, due, moves, excused>>
  /\ UNCHANGED drag

\* The step that is nearest.
calculateStepFromPosition == 0..(IF totalSteps = 0 THEN 0 ELSE totalSteps - 1)

handleStart ==
  /\ shown /\ ~drag.on
  /\ drag' = [on |-> TRUE, to |-> Nothing]
  /\ UNCHANGED <<view, fixedPoints, status, asked, data, currentTimestamp, timeRange, currentStep, isPlaying, shown,
                 thresholds, markers, due, moves, excused>>

\* On the way, too, and while it plays.
handleMove(step) ==
  /\ drag.on
  /\ step \in calculateStepFromPosition /\ step # drag.to
  /\ drag' = [drag EXCEPT !.to = step]
  /\ handleStepChange(step)
  /\ UNCHANGED isPlaying

\* It ends where it was, on an axis that may be another.
handleEnd ==
  /\ drag.on
  /\ drag' = NoDrag
  /\ IF drag.to # Nothing THEN handleStepChange(drag.to)
     ELSE UNCHANGED <<view, fixedPoints, status, asked, data, currentTimestamp, timeRange, currentStep, shown,
                      thresholds, markers, due, moves, excused>>
  /\ UNCHANGED isPlaying

Acts == moves < MaxMoves /\ moves' = moves + 1

onSelectTimeRange(range) ==
  /\ shown /\ range # timeRange
  /\ Acts
  /\ timeRange' = range
  /\ due' = {"hours"}
  /\ excused' = IF drag.on THEN excused \cup {"dragged"} ELSE excused
  /\ UNCHANGED <<view, fixedPoints, status, asked, data, currentTimestamp, currentStep, isPlaying, drag, shown,
                 thresholds, markers>>

-----------------------------------------------------------------------------
(* Opening, closing, and the map beneath. *)

openTimelapse ==
  /\ ~view
  /\ Acts
  /\ currentTimestamp' = Nothing
  /\ view' = TRUE
  /\ due' = {"view"}
  /\ UNCHANGED <<fixedPoints, status, asked, data, timeRange, currentStep, isPlaying, drag, shown,
                 thresholds, markers, excused>>

\* With the cross the range is forgotten, with the button or the browser's not.
closeHandler(cross) ==
  /\ view
  /\ cross => shown
  /\ view' = FALSE
  /\ currentTimestamp' = Nothing
  /\ timeRange' = IF cross THEN 1 ELSE timeRange
  /\ due' = {"view"}
  /\ UNCHANGED <<fixedPoints, status, asked, data, currentStep, isPlaying, drag, shown, thresholds, markers, moves, excused>>

\* The sessions of the map arrive.
FixedPointsArrive ==
  /\ Acts
  /\ fixedPoints' = fixedPoints + 1
  /\ due' = {"points"}
  /\ UNCHANGED <<view, status, asked, data, currentTimestamp, timeRange, currentStep, isPlaying, drag, shown,
                 thresholds, markers, excused>>

ThresholdsChange ==
  /\ Acts
  /\ thresholds' = thresholds + 1
  /\ due' = {"thresholds"}
  /\ UNCHANGED <<view, fixedPoints, status, asked, data, currentTimestamp, timeRange, currentStep, isPlaying, drag,
                 shown, markers, excused>>

\* React renders before anything else happens.
Page ==
  \/ \E answer \in Answers : fetchTimelapseData(answer)
  \/ NavigationButtons \/ handlePlayPause \/ Play
  \/ handleStart \/ handleEnd
  \/ \E step \in calculateStepFromPosition : handleMove(step)
  \/ \E range \in TimeRanges : onSelectTimeRange(range)
  \/ openTimelapse
  \/ \E cross \in BOOLEAN : closeHandler(cross)
  \/ FixedPointsArrive \/ ThresholdsChange

Next == Render \/ (due = {} /\ Page)

Spec == Init /\ [][Next]_vars

-----------------------------------------------------------------------------
\* While the timelapse is open, the map shows the hour of the step, at each place a
\* cluster or a marker as its sessions are at that hour, in the colours of the
\* thresholds as they are; a step is always one of the range that was chosen, and the
\* hours are those of the points on the map.  Closed, it leaves no marker.  Exceptions:
\* points that arrived while hours were fetched for others; a request that failed; a
\* drag on the axis that was still going on when the range changed.
TimelapseShowsItsStep ==
  due = {} =>
    /\ ~shown => markers = None
    /\ shown /\ "dropped" \notin excused /\ "failed" \notin excused => data.of = fixedPoints
    /\ shown /\ totalSteps > 0 /\ "dragged" \notin excused =>
         /\ currentStep \in 0..(totalSteps - 1)
         /\ currentTimestamp = TimeOf(currentStep)
         /\ LET at == filterTimestamps[currentStep + 1].at
            IN  markers = [p \in DOMAIN at |-> createNewMarker(at[p])]
=============================================================================
