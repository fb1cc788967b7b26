----------------------------- MODULE Thresholds -----------------------------
(***************************************************************************)
(* The thresholds of the map and of the graph, and the slider that changes *)
(* them.                                                                   *)
(*                                                                         *)
(* Code: thresholdSlice, the effects of Map on it, ThresholdSlider with     *)
(* useThresholdHandlers and the gesture handlers, the buttons for a reset   *)
(* and for a uniform distribution.                                         *)
(*                                                                         *)
(* The slider keeps a copy of its own: what the user does reaches the store *)
(* 300 ms later, what the store gets meanwhile reaches the slider at once. *)
(* A drag computes with the thresholds of its first moment.  Pixels are    *)
(* left out: a drag or a click names the value under it, which is rounded  *)
(* to a whole one, where a typed value may be any decimal.                 *)
(***************************************************************************)
EXTENDS ThresholdScale

CONSTANT MaxMoves     \* BOUND: what the user does

VARIABLES
  defaultValues, userValues,   \* thresholdSlice
  asked,                       \* sensors whose thresholds are being fetched
  first,                       \* isFirstRenderForThresholds
  thresholdValues,             \* the slider's own copy
  delayed,                     \* what the debounced update will store
  activeInput, inputValue,     \* the input with the focus, and its text
  drag,                        \* the thumb held, and the thresholds it started from
  useColorBoxStyle,            \* five fields and no thumbs, as on a phone
  crossed,                     \* history: what may put thresholds out of order
  moves

store == <<defaultValues, userValues>>
input == <<activeInput, inputValue>>
vars == <<store, asked, first, thresholdValues, delayed, input, drag, useColorBoxStyle,
          crossed, moves>>

\* selectThresholds.
Thresholds == IF userValues = Absent THEN defaultValues ELSE userValues

NoDrag == [key |-> Absent, from |-> Zeros]

\* A link's thresholds are the user's from the first render.
Init ==
  /\ defaultValues = Zeros
  /\ userValues \in FromUrl \cup {Absent}
  /\ asked = {}
  /\ first = (userValues # Absent)
  /\ thresholdValues = Thresholds
  /\ delayed = Absent
  /\ activeInput = Absent /\ inputValue = Absent
  /\ drag = NoDrag
  /\ useColorBoxStyle \in BOOLEAN
  /\ crossed = (userValues # Absent /\ ~Ascend(userValues))
  /\ moves = 0

-----------------------------------------------------------------------------
(* From the store to the slider and back. *)

\* Mutant of Follow: the slider keeps its own copy.
FollowsNot == UNCHANGED <<thresholdValues, activeInput, inputValue>>

\* The slider takes what the store has anew; an input with the focus then shows it.
Shown(t) == inputValue' = IF activeInput' = Absent THEN inputValue ELSE t[activeInput']

Follow ==
  /\ thresholdValues' = IF Thresholds' # Thresholds THEN Thresholds' ELSE thresholdValues
  /\ UNCHANGED activeInput
  /\ IF thresholdValues' # thresholdValues THEN Shown(thresholdValues') ELSE UNCHANGED inputValue

\* What the user set is stored later, unless the store has it already; then an
\* earlier update that is still to come is not taken back.
SetThresholdValues(t) ==
  /\ thresholdValues' = t
  /\ delayed' = IF t # thresholdValues /\ t # Thresholds THEN t ELSE delayed

setUserThresholdValues ==
  /\ delayed # Absent
  /\ userValues' = delayed
  /\ delayed' = Absent
  /\ Follow
  /\ UNCHANGED <<defaultValues, asked, first, drag, crossed, moves>>

-----------------------------------------------------------------------------
(* The server's thresholds. *)

Acts == moves < MaxMoves /\ moves' = moves + 1

fetchThresholds(s) ==
  /\ s \notin asked
  /\ Acts
  /\ asked' = asked \cup {s}
  /\ UNCHANGED <<store, first, thresholdValues, delayed, input, drag, crossed>>

\* New defaults replace the user's, but for the first ones after a link.
ThresholdsArrive(s) ==
  /\ s \in asked
  /\ asked' = asked \ {s}
  /\ defaultValues' = DefaultsOf[s]
  /\ userValues' = IF userValues = Absent \/ (defaultValues' # defaultValues /\ ~first)
                   THEN defaultValues' ELSE userValues
  /\ first' = FALSE
  /\ Follow
  /\ UNCHANGED <<delayed, drag, crossed, moves>>

ThresholdsFail(s) ==
  /\ s \in asked
  /\ asked' = asked \ {s}
  /\ UNCHANGED <<store, first, thresholdValues, delayed, input, drag, crossed, moves>>

-----------------------------------------------------------------------------
(* Typing. *)

validateThresholdOrder(t, key, value) ==
  CASE key = "min"    -> value <= t.low
    [] key = "low"    -> value <= t.middle /\ value >= t.min
    [] key = "middle" -> value >= t.low /\ value <= t.high
    [] key = "high"   -> value >= t.middle /\ value <= t.max
    [] key = "max"    -> value >= t.high

isValueValid(t, key, value) ==
  CASE key = "min"     -> value < t.max
    [] key = "max"     -> value > t.min
    [] key \in Thumbs  -> t.min <= value /\ value <= t.max

\* The thresholds after a value was entered; an error message leaves them.
handleInputChange(t, key, value) ==
  IF value # Absent /\ isValueValid(t, key, value) /\ validateThresholdOrder(t, key, value)
  THEN [t EXCEPT ![key] = value]
  ELSE t

handleInputFocus(key) ==
  /\ activeInput = Absent
  /\ Acts
  /\ activeInput' = key
  /\ inputValue' = thresholdValues[key]
  /\ UNCHANGED <<store, asked, first, thresholdValues, delayed, drag, crossed>>

\* The field is only changed; Absent stands for an empty one.
Type(value) ==
  /\ activeInput # Absent
  /\ Acts
  /\ inputValue' = value
  /\ UNCHANGED <<store, asked, first, thresholdValues, delayed, activeInput, drag, crossed>>

\* The fields that heed the keys: beside the slider the ends of the scale do not.
renderColorBoxSlider == IF useColorBoxStyle THEN Keys ELSE Thumbs

\* Enter takes the text, an arrow the number next to it.
handleInputKeyDown(step) ==
  /\ activeInput \in renderColorBoxSlider
  /\ Acts
  /\ UNCHANGED activeInput
  /\ LET value == IF inputValue = Absent THEN Absent ELSE inputValue + step
         t == handleInputChange(thresholdValues, activeInput, value)
     IN  /\ SetThresholdValues(t)
         /\ inputValue' = value
  /\ UNCHANGED <<store, asked, first, drag, crossed>>

handleInputBlur ==
  /\ activeInput # Absent
  /\ activeInput' = Absent
  /\ SetThresholdValues(handleInputChange(thresholdValues, activeInput, inputValue))
  /\ UNCHANGED <<store, asked, first, inputValue, drag, crossed, moves>>

-----------------------------------------------------------------------------
(* Dragging. *)

Least(a, b) == IF a < b THEN a ELSE b
Greatest(a, b) == IF a > b THEN a ELSE b

\* Mutant of Pushed: a thumb passes the others.
PassesOthers(t, key, v) == [t EXCEPT ![key] = v]

\* A thumb pushes the others before it by whole numbers, but none that is at the end
\* of the scale.
Pushed(t, key, v) ==
  CASE key = "low" ->
         [t EXCEPT !.low = v,
                   !.middle = IF v >= @ /\ @ # t.max THEN Least(v + One, t.max) ELSE @,
                   !.high = IF v >= @ /\ @ # t.max THEN Least(v + 2 * One, t.max) ELSE @]
    [] key = "middle" ->
         [t EXCEPT !.middle = v,
                   !.low = IF v <= @ /\ @ # t.min THEN Greatest(v - One, t.min) ELSE @,
                   !.high = IF v > @ /\ @ # t.max THEN Least(v + One, t.max) ELSE @]
    [] key = "high" ->
         [t EXCEPT !.high = v,
                   !.middle = IF v <= @ /\ @ # t.min THEN Greatest(v - One, t.min) ELSE @,
                   !.low = IF v <= @ /\ @ # t.min THEN Greatest(v - 2 * One, t.min) ELSE @]

\* Taking a thumb ends the typing, but the drag starts from what was there before.
\* The guard on the ends of the scale is of the model: as long as no thresholds came,
\* all five are 0, and a drag computes 0 / 0.
handleMouseDown(key) ==
  /\ drag = NoDrag /\ ~useColorBoxStyle
  /\ thresholdValues.min < thresholdValues.max
  /\ Acts
  /\ drag' = [key |-> key, from |-> thresholdValues]
  /\ activeInput' = Absent
  /\ SetThresholdValues(IF activeInput = Absent THEN thresholdValues
                        ELSE handleInputChange(thresholdValues, activeInput, inputValue))
  /\ UNCHANGED <<store, asked, first, inputValue, crossed>>

handleMouseMove(v) ==
  /\ drag # NoDrag
  /\ LET within == Greatest(Least(v, drag.from.max), drag.from.min)
     IN  SetThresholdValues(Pushed(drag.from, drag.key, within))
  /\ inputValue' = Greatest(Least(v, drag.from.max), drag.from.min)
  /\ crossed' = (crossed \/ \E thumb \in Thumbs : ~IsWhole(drag.from[thumb]))
  /\ UNCHANGED <<store, asked, first, activeInput, drag, moves>>

handleMouseUp ==
  /\ drag # NoDrag
  /\ drag' = NoDrag
  /\ UNCHANGED <<store, asked, first, thresholdValues, delayed, input, crossed, moves>>

-----------------------------------------------------------------------------
(* Clicks. *)

Distance(a, b) == IF a < b THEN b - a ELSE a - b

\* The thumb closest to the click moves there, of equally close ones the last.
closestThumb(t, v) ==
  LET nearer == IF Distance(v, t.low) < Distance(v, t.middle) THEN "low" ELSE "middle"
  IN  IF Distance(v, t[nearer]) < Distance(v, t.high) THEN nearer ELSE "high"

handleSliderClick(v) ==
  LET t == thresholdValues
      thumb == closestThumb(t, v)
  IN  /\ activeInput = Absent /\ drag = NoDrag /\ ~useColorBoxStyle
      /\ ~(thumb = "high" /\ v >= t.max) /\ ~(thumb = "low" /\ v <= t.min)
      /\ Acts
      /\ SetThresholdValues([t EXCEPT ![thumb] = v])
      /\ crossed' = (crossed \/ t.low = t.middle \/ t.middle = t.high)
      /\ UNCHANGED <<store, asked, first, input, drag>>

\* Between the least and the greatest value of the open stream, rounded outwards.
calculateUniformThresholds(lowest, highest) ==
  LET step == Greatest(One * ((highest - lowest) \div (4 * One)), One)
  IN  [min |-> lowest, low |-> lowest + step, middle |-> lowest + 2 * step,
       high |-> lowest + 3 * step, max |-> Greatest(lowest + 4 * step, highest)]

distributeThresholds(lowest, highest) ==
  /\ lowest < highest
  /\ Acts
  /\ userValues' = calculateUniformThresholds(lowest, highest)
  /\ Follow
  /\ UNCHANGED <<defaultValues, asked, first, delayed, drag, crossed>>

resetUserThresholds ==
  /\ Acts
  /\ userValues' = defaultValues
  /\ Follow
  /\ UNCHANGED <<defaultValues, asked, first, delayed, drag, crossed>>

-----------------------------------------------------------------------------
Server == \E s \in Sensors : ThresholdsArrive(s) \/ ThresholdsFail(s)

Typing ==
  \/ \E key \in Keys : handleInputFocus(key)
  \/ \E v \in Scale \cup {Absent} : Type(v)
  \/ \E step \in {-One, 0, One} : handleInputKeyDown(step)
  \/ handleInputBlur

Rounded == {v \in Scale : IsWhole(v)}

Dragging ==
  \/ \E key \in Thumbs : handleMouseDown(key)
  \/ \E v \in Rounded : handleMouseMove(v)
  \/ handleMouseUp

Clicking ==
  \/ \E s \in Sensors : fetchThresholds(s)
  \/ \E v \in Rounded : handleSliderClick(v)
  \/ \E a, b \in Rounded : distributeThresholds(a, b)
  \/ resetUserThresholds

Next ==
  /\ Server \/ Typing \/ Dragging \/ Clicking \/ setUserThresholdValues
  /\ UNCHANGED useColorBoxStyle

Spec == Init /\ [][Next]_vars

-----------------------------------------------------------------------------
(* The bands of the graph lie between these ticks; rounding keeps their order. *)
getYAxisOptions == <<Thresholds.min, Thresholds.low, Thresholds.middle, Thresholds.high, Thresholds.max>>

\* Whatever is typed, dragged, fetched, reset or distributed, and in whatever order
\* the delayed updates land, the thresholds in force ascend, so that the colours and
\* the bands of the graph do.  There are three exceptions.  A link is taken as it is.
\* The slider's click, with two thumbs on one value, moves the last of them, also to the
\* left of the others.  And a drag pushes by whole numbers: the thumb after the one it
\* pushes, when on a decimal, may be nearer than that.
ThresholdsAscend ==
  ~crossed => /\ Ascend(thresholdValues)
              /\ \A i \in 1..4 : getYAxisOptions[i] <= getYAxisOptions[i + 1]

\* Unless an update of the slider's is still on its way, it shows the thresholds by
\* which the map is coloured.
SliderAndMapAgree == delayed = Absent => thresholdValues = Thresholds
=============================================================================
