------------------------------- MODULE MCWeb -------------------------------
(***************************************************************************)
(* The browser's side for TLC: each screen under its own bounds, in one    *)
(* run.                                                                    *)
(***************************************************************************)
EXTENDS WebPage, TLC

CONSTANTS t1, t2, analytics, marketing

MovesOfScreens ==
  [s \in {"graph", "mobile", "crowd"} |-> 2] @@ [s \in {"lists", "filters", "search", "timelapse"} |-> 3]

\* Two streams with measurements at the start, in the middle and at the end, of which
\* the server sends the last with the stream, or none.
PointsOfStreams == [a |-> {0, 4, 8}, b |-> {4, 8}]
RecentOfStreams == [a |-> {8}, b |-> {}]
OneZoom == {<<0, 4>>}

\* Three sessions: the closer two share a cell at the middle zoom, all do at the first.
Positions == [a |-> 0, b |-> 3, c |-> 8]
CellsOfZooms == <<10, 5, 2>>
ThreeStretches == {<<0, 9>>, <<0, 4>>, <<2, 9>>}

Spans == [a |-> <<0, 11>>, b |-> <<3, 13>>]
DaysWithAverages == [a |-> {0, 5, 9}, b |-> {4, 13}]

\* A page of sessions and a part of one in one place, a part of one in the other.
Totals == [k \in Kinds |-> [here |-> 3, there |-> 1]]

SensorsOfTypes ==
  [fixed |-> {"Government-PM2.5", "AirBeam-PM2.5", "Government-Ozone", "OtherPM"},
   mobile |-> {"AirBeam-PM2.5", "OtherOzone", "Phone Microphone", "Meter"}]
SensorMeasures ==
  "Government-PM2.5" :> "Particulate Matter" @@ "AirBeam-PM2.5" :> "Particulate Matter"
    @@ "OtherPM" :> "Particulate Matter" @@ "Government-Ozone" :> "Ozone" @@ "OtherOzone" :> "Ozone"
    @@ "Phone Microphone" :> "Sound Level" @@ "Meter" :> "Custom"

\* A path that comes back to where it began, and two sessions too close at one zoom.
Paths == [a |-> <<1, 2, 1>>, b |-> <<2>>]
Notes == [a |-> <<1, 2>>, b |-> <<2>>]
NearAtZooms == <<{}, {{"a", "b"}}>>

\* Nothing, two hours or three, with sessions at two places.
Hours ==
  LET S(n) == [sessions |-> n, value |-> n]
  IN  <<[t |-> "0h", age |-> 5, at |-> 1 :> S(1) @@ 2 :> S(2)],
        [t |-> "1h", age |-> 2, at |-> 1 :> S(2)],
        [t |-> "2h", age |-> 0, at |-> 1 :> S(1) @@ 2 :> S(1)]>>
AnswersOfServer == {<<>>, SubSeq(Hours, 1, 2), Hours}

\* The slider, in halves: two sensors, and a link of which two thresholds coincide and
\* one is no whole number.
T(a, b, c, d, e) == [min |-> a, low |-> b, middle |-> c, high |-> d, max |-> e]
SensorDefaults == [p |-> T(0, 2, 4, 6, 8), q |-> T(0, 2, 6, 8, 12)]
LinkThresholds == {T(0, 4, 4, 9, 12)}
NoThresholds == [k \in Keys |-> 0]

\* The tabs are alike, and so are the two kinds of tags; no other model names them.
ConsentSymmetry == Permutations({t1, t2}) \cup Permutations({analytics, marketing})
=============================================================================
