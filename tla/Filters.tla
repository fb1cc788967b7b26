------------------------------ MODULE Filters -------------------------------
(***************************************************************************)
(* The panel of filters: what the URL asks for, and the fetch that follows *)
(* each change of it.                                                      *)
(*                                                                         *)
(* Code: SessionTypeToggle, ParameterFilter, SensorFilter, their custom    *)
(* lists, ProfileNamesInput, TagsInput, IndoorOutdoorSwitch, DormantToggle,*)
(* YearPickerButtons, the two panels, the setters of useMapParams, the     *)
(* slices of filters and sensors.  Views and ids are in MapViews.          *)
(*                                                                         *)
(* Parameters and sensors are chosen from the sensors loaded for the type  *)
(* of sessions; their requests are not cancelled.  Most changes set the    *)
(* flag fetchingData at once, some 200 ms later.  A write of thresholds is *)
(* delayed 300 ms and puts back the URL it was started with.               *)
(***************************************************************************)
EXTENDS Integers, FiniteSets

CONSTANTS
  SensorsOf,     \* on the server, per type of session
  Measures,      \* the parameter of each sensor
  Nothing,
  MaxMoves       \* BOUND: what the user does

Types == {"fixed", "mobile"}
UnknownSensor == "Unknown Sensor"
Government(s) == s \in {"Government-PM2.5", "Government-Ozone"}
AirBeam(s) == s = "AirBeam-PM2.5"

\* Of each kind of parameter one: basic for both types, for one of them, for none.
getBasicMeasurementTypes(type) ==
  IF type = "fixed" THEN {"Particulate Matter", "Ozone"}
  ELSE {"Particulate Matter", "Sound Level"}
DefaultSensor(parameter, type) ==
  CASE parameter = "Particulate Matter" -> IF type = "fixed" THEN "Government-PM2.5" ELSE "AirBeam-PM2.5"
    [] parameter = "Ozone" -> "Government-Ozone"
    [] parameter = "Sound Level" -> "Phone Microphone"
ParameterTypes == {"Particulate Matter", "Ozone", "Sound Level"}
getBasicSensors(parameter, type) ==
  CASE parameter = "Particulate Matter" ->
         {"AirBeam-PM2.5"} \cup (IF type = "fixed" THEN {"Government-PM2.5"} ELSE {})
    [] parameter \in ParameterTypes \ {"Particulate Matter"} -> {DefaultSensor(parameter, type)}
    [] OTHER -> {}

\* What is asked of the constants: the sensors listed as basic for a parameter measure it.
FiltersAssumption ==
  \A type \in Types, parameter \in ParameterTypes :
    \A s \in getBasicSensors(parameter, type) : Measures[s] = parameter

VARIABLES
  isMobile,      \* a phone
  url, seen,     \* the filters, and those of the last render
  panel,         \* shown
  open,          \* the lists open in it
  sensors, asked,\* those loaded, and the types whose answers are under way
  offered, offers, \* the tags to choose from, and the answers with tags under way
  dormantShown,  \* fixedSessionsType is DORMANT
  fetchingData,
  timer,         \* of 200 ms, of an input or a custom list
  late,          \* the URL the delayed write of thresholds puts back
  moves,
  fetchedWith,   \* history: the filters of the last fetch,
  early,         \* chosen from sensors of the other type,
  missed,        \* a change since the last fetch that no fetch follows,
  overtaken      \* tags that came for other filters

suggestions == <<offered, offers, overtaken>>
vars == <<isMobile, url, seen, panel, open, sensors, asked, dormantShown, fetchingData,
          timer, late, moves, fetchedWith, early, missed, suggestions>>

Lists == {"basicParameters", "customParameters", "basicSensors", "customSensors"}

updateSessionType(type) ==
  [type |-> type, parameter |-> "Particulate Matter",
   sensor |-> DefaultSensor("Particulate Matter", type),
   names |-> FALSE, tags |-> FALSE, indoor |-> FALSE, active |-> TRUE, thisYear |-> TRUE]

\* The default of either type, and a link to dormant indoor sessions.
Links ==
  {updateSessionType(type) : type \in Types} \cup
  {[updateSessionType("fixed") EXCEPT !.sensor = "AirBeam-PM2.5", !.indoor = TRUE, !.active = FALSE,
                                      !.tags = TRUE]}

Init ==
  /\ isMobile \in BOOLEAN
  /\ url \in Links /\ seen = url
  /\ panel = ~isMobile
  /\ open = {}
  /\ sensors = {} /\ asked = {url.type}
  /\ offered = "none" /\ offers = {}
  /\ dormantShown = FALSE
  /\ fetchingData = TRUE
  /\ timer = {}
  /\ late = Nothing
  /\ moves = 0
  /\ fetchedWith = url
  /\ early = FALSE /\ missed = FALSE /\ overtaken = FALSE

-----------------------------------------------------------------------------
(* The choices offered. *)

MeasuredBy(parameter) == {s \in sensors : Measures[s] = parameter}
filterCustomParameters == {Measures[s] : s \in sensors} \ getBasicMeasurementTypes(url.type)
filterCustomSensors == MeasuredBy(url.parameter) \ getBasicSensors(url.parameter, url.type)

\* The sensor that comes with a parameter: its default, if that was loaded; of a
\* parameter without one the first in the list.
setSensor(parameter) ==
  IF parameter \notin ParameterTypes THEN MeasuredBy(parameter)
  ELSE LET name == DefaultSensor(parameter, url.type)
       IN  {IF name \in MeasuredBy(parameter) THEN name ELSE UnknownSensor}

\* A phone shows one list, or the panel itself.
Main == panel /\ (isMobile => open = {})
Shown(list) ==
  /\ panel /\ list \in open
  /\ ~isMobile => /\ list = "customParameters" => "basicParameters" \in open
                  /\ list = "customSensors" => "basicSensors" \in open
Inputs(u, shown, lists) == shown /\ (isMobile => lists = {}) /\ ~Government(u.sensor)

-----------------------------------------------------------------------------
(* The effects of a render. *)

\* Tags are offered for the other filters, and forgotten when one of those changes.
SameForTags == [seen EXCEPT !.tags = url.tags] = url

Render ==
  /\ seen # url \/ fetchingData
  /\ seen' = url
  /\ fetchingData' = FALSE
  /\ dormantShown' = ~url.active
  /\ asked' = IF seen.type = url.type THEN asked ELSE asked \cup {url.type}
  /\ timer' = (timer \cap {"custom"}) \cup
              {x \in {"names", "tags"} :
                 /\ Inputs(url, panel, open)
                 /\ x \in timer \/ (Inputs(seen, panel, open) /\ seen[x] # url[x])}
  /\ IF fetchingData THEN fetchedWith' = url /\ missed' = FALSE
     ELSE UNCHANGED <<fetchedWith, missed>>
  /\ IF SameForTags
     THEN UNCHANGED suggestions
     ELSE /\ offered' = "none"
          /\ offers' = IF offers = {} THEN {} ELSE {"older"}
          /\ overtaken' = FALSE
  /\ UNCHANGED <<isMobile, url, panel, open, sensors, late, moves, early>>

TimerFires ==
  /\ timer # {}
  /\ \E x \in timer : timer' = timer \ {x}
  /\ fetchingData' = TRUE
  /\ UNCHANGED <<isMobile, suggestions, url, seen, panel, open, sensors, asked, dormantShown, late, moves,
                 fetchedWith, early, missed>>

\* fetchSensors of either type, in any order.
SensorsArrive(type) ==
  /\ type \in asked
  /\ asked' = asked \ {type}
  /\ sensors' = SensorsOf[type]
  /\ UNCHANGED <<isMobile, suggestions, url, seen, panel, open, dormantShown, fetchingData, timer, late, moves,
                 fetchedWith, early, missed>>

TagsArrive(of) ==
  /\ of \in offers
  /\ offers' = offers \ {of}
  /\ offered' = of
  /\ overtaken' = (of = "older")
  /\ UNCHANGED <<isMobile, url, seen, panel, open, sensors, asked, dormantShown, fetchingData, timer,
                 late, moves, fetchedWith, early, missed>>

\* Thresholds change, by an answer or by hand.  BOUND: one write delayed at a time.
debouncedUpdateURL ==
  /\ late = Nothing
  /\ late' = url
  /\ UNCHANGED <<isMobile, suggestions, url, seen, panel, open, sensors, asked, dormantShown, fetchingData, timer,
                 moves, fetchedWith, early, missed>>

ThresholdsWritten ==
  /\ late # Nothing
  /\ url' = late
  /\ late' = Nothing
  /\ missed' = (missed \/ url' # url)
  /\ early' = (early \/ url' # url)
  /\ UNCHANGED <<isMobile, suggestions, seen, panel, open, sensors, asked, dormantShown, fetchingData, timer, moves,
                 fetchedWith>>

-----------------------------------------------------------------------------
(* The user. *)

Acts == moves < MaxMoves /\ moves' = moves + 1

\* A filter is written and its sessions are fetched.
Write(u) ==
  /\ Acts
  /\ url' = u
  /\ fetchingData' = TRUE
  /\ UNCHANGED <<isMobile, suggestions, seen, panel, sensors, asked, timer, late, fetchedWith, missed>>

Choose(u) == Write(u) /\ open' = {} /\ UNCHANGED dormantShown
Change(u) == Write(u) /\ UNCHANGED <<open, dormantShown, early>>

SessionTypeToggle(type) ==
  /\ Main
  /\ Write(updateSessionType(type))
  /\ open' = {} /\ dormantShown' = FALSE /\ early' = FALSE

OfTheType == sensors = SensorsOf[url.type]

\* Mutant of OutdoorFor: only the switch is hidden.
IndoorStays(u) == u

OutdoorFor(u) == IF Government(u.sensor) THEN [u EXCEPT !.indoor = FALSE] ELSE u

setParameterParams(parameter) ==
  /\ Shown("basicParameters") /\ parameter \in getBasicMeasurementTypes(url.type)
  /\ \E s \in setSensor(parameter) :
       Choose(OutdoorFor([url EXCEPT !.parameter = parameter, !.sensor = s]))
  /\ early' = ~OfTheType

setSensorParams(s) ==
  /\ Shown("basicSensors") /\ s \in getBasicSensors(url.parameter, url.type)
  /\ Choose(OutdoorFor([url EXCEPT !.sensor = s]))
  /\ UNCHANGED early

\* Mutant of ChooseCustom: nothing fetches.
ChooseUnfetched(u) ==
  /\ Acts
  /\ url' = u
  /\ open' = IF isMobile THEN open ELSE {}
  /\ early' = (early \/ ~OfTheType)
  /\ UNCHANGED <<isMobile, suggestions, seen, panel, sensors, asked, dormantShown, fetchingData, timer, late,
                 fetchedWith, missed>>

\* The custom lists fetch a little later.  A phone keeps them open.
ChooseCustom(u) ==
  /\ Acts
  /\ url' = u
  /\ timer' = timer \cup {"custom"}
  /\ open' = IF isMobile THEN open ELSE {}
  /\ early' = (early \/ ~OfTheType)
  /\ UNCHANGED <<isMobile, suggestions, seen, panel, sensors, asked, dormantShown, fetchingData, late,
                 fetchedWith, missed>>

CustomParameterFilter(parameter) ==
  /\ Shown("customParameters") /\ parameter \in filterCustomParameters
  /\ \E s \in setSensor(parameter) :
       ChooseCustom([url EXCEPT !.parameter = parameter, !.sensor = s])

CustomSensorFilter(s) ==
  /\ Shown("customSensors") /\ s \in filterCustomSensors
  /\ ChooseCustom([url EXCEPT !.sensor = s])

\* Names and tags are written alone; an effect of the input fetches.
setFilter(x) ==
  /\ Main /\ Inputs(url, panel, open)
  /\ Acts
  /\ url' = [url EXCEPT ![x] = ~url[x]]
  /\ UNCHANGED <<isMobile, suggestions, seen, panel, open, sensors, asked, dormantShown, fetchingData, timer, late,
                 fetchedWith, early, missed>>

\* A profile is chosen or the last one is closed; a tag likewise, of those offered.
ProfileNamesInput == ~url.indoor /\ setFilter("names")
TagsInput == (~url.tags => offered # "none") /\ setFilter("tags")

\* When the input for tags is clicked.
fetchTags ==
  /\ Main /\ Inputs(url, panel, open)
  /\ Acts
  /\ offers' = offers \cup {"these"}
  /\ UNCHANGED <<isMobile, url, seen, panel, open, sensors, asked, dormantShown, fetchingData, timer,
                 late, fetchedWith, early, missed, offered, overtaken>>

IndoorOutdoorSwitch(indoor) ==
  /\ Main /\ url.type = "fixed" /\ AirBeam(url.sensor)
  /\ Change(IF indoor THEN [url EXCEPT !.indoor = TRUE, !.names = FALSE]
            ELSE [url EXCEPT !.indoor = FALSE])

DormantToggle ==
  /\ Main /\ url.type = "fixed"
  /\ Write([url EXCEPT !.active = ~url.active, !.thisYear = TRUE])
  /\ dormantShown' = url.active
  /\ UNCHANGED <<open, early>>

\* The years of mobile sessions, and of dormant ones.
updateTime(thisYear) ==
  /\ Main /\ (url.type = "fixed" => dormantShown)
  /\ Change([url EXCEPT !.thisYear = thisYear])

\* What is shown; an input that goes takes its timer with it.
Show(shown, lists) ==
  /\ panel' = shown /\ open' = lists
  /\ timer' = IF Inputs(url, shown, lists) THEN timer ELSE timer \cap {"custom"}
  /\ missed' = (missed \/ timer' # timer)
  /\ UNCHANGED <<isMobile, suggestions, url, seen, sensors, asked, dormantShown, fetchingData, late, fetchedWith, early>>

handleShowClick(list) ==
  /\ Main
  /\ Acts
  /\ Show(panel, IF list \in open THEN {} ELSE {list})

CustomOf(list) == IF list = "basicParameters" THEN "customParameters" ELSE "customSensors"

handleShowMoreClick(list) ==
  /\ Shown(list)
  /\ Acts
  /\ (IF list = "basicParameters" THEN filterCustomParameters ELSE filterCustomSensors) # {}
  /\ Show(panel, IF isMobile THEN {CustomOf(list)}
                 ELSE IF CustomOf(list) \in open THEN open \ {CustomOf(list)}
                 ELSE open \cup {CustomOf(list)})

\* Closing is not counted.
goBack(list) ==
  /\ isMobile
  /\ \/ Shown(list) /\ Show(panel, {})
     \/ Shown(CustomOf(list)) /\ Show(panel, {list})
  /\ UNCHANGED moves

TogglePanel == Show(~panel, open) /\ UNCHANGED moves

-----------------------------------------------------------------------------
\* React renders before anything else happens.
User ==
  \/ \E type \in Types : SessionTypeToggle(type)
  \/ \E parameter \in ParameterTypes : setParameterParams(parameter)
  \/ \E s \in {"Government-PM2.5", "AirBeam-PM2.5", "Government-Ozone", "Phone Microphone"} : setSensorParams(s)
  \/ \E parameter \in filterCustomParameters : CustomParameterFilter(parameter)
  \/ \E s \in filterCustomSensors : CustomSensorFilter(s)
  \/ ProfileNamesInput \/ TagsInput
  \/ \E b \in BOOLEAN : IndoorOutdoorSwitch(b) \/ updateTime(b)
  \/ DormantToggle
  \/ \E list \in {"basicParameters", "basicSensors"} :
       handleShowClick(list) \/ handleShowMoreClick(list) \/ goBack(list)
  \/ TogglePanel
  \/ fetchTags

Rendered == seen = url /\ ~fetchingData

Next ==
  \/ Render
  \/ Rendered /\ (\/ User \/ TimerFires \/ debouncedUpdateURL \/ ThresholdsWritten
                  \/ \E type \in Types : SensorsArrive(type)
                  \/ \E of \in offers : TagsArrive(of))

Spec == Init /\ [][Next]_vars

-----------------------------------------------------------------------------
\* However the filters are combined they make sense together: the sensor is one of
\* this type of sessions that measures the parameter, unless it was chosen while the
\* other type's sensors were loaded; no indoor sessions of a Government sensor, nor
\* of a profile; dormant ones are fixed; all others but mobile ones of this year.
\* The tags offered were asked for with these filters, unless they came too late.
FiltersAgree ==
  Rendered =>
    /\ early \/ url.sensor = UnknownSensor
       \/ /\ url.sensor \in SensorsOf[url.type] \cup getBasicSensors(url.parameter, url.type)
          /\ Measures[url.sensor] = url.parameter
    /\ url.indoor => url.type = "fixed" /\ ~Government(url.sensor) /\ ~url.names
    /\ ~url.active => url.type = "fixed"
    /\ url.active /\ url.type = "fixed" => url.thisYear
    /\ dormantShown <=> ~url.active
    /\ offered = "older" => overtaken

\* With no timer running the sessions shown were fetched with the filters shown.
\* Exceptions: a late write of thresholds that put older filters back, and an input
\* that went before its timer fired.
SessionsAreOfTheFilters ==
  Rendered /\ timer = {} /\ ~missed => fetchedWith = url
=============================================================================
