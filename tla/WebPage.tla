------------------------------ MODULE WebPage ------------------------------
(***************************************************************************)
(* The browser's side: the page shows one screen, and each screen is one   *)
(* of the models.  They do not touch each other's state, so a behaviour of *)
(* the page is one of the screen it shows, with the state of the others at *)
(* rest.                                                                   *)
(*                                                                         *)
(* Variables of the same name are shared, since one screen alone uses them; *)
(* the others keep one value meanwhile.                                    *)
(***************************************************************************)
EXTENDS Thresholds, Sequences, FiniteSets

CONSTANTS
  Nothing, Closed,
  MovesOn,                   \* BOUND: per screen, what the user does
  Opened,                    \* streams that are opened
  Last, Day, Week, Month, GraphPoints, RecentOf, GraphZooms, MaxInFlight,
  Streams, Position, CellAt, Stretches,
  SpanOf, AveragesOf, MonthLength, WeekLength, MaxVisits,
  Kinds, Queries, TotalOf, Limit,
  Centres,
  SensorsOf, Measures,
  PathOf, NotesOf, Near,
  Cells,
  Cities, Fixed, Capacity,
  Answers,
  Colors, Spots,
  Tabs, Tracking, MaxChoices,
  PopupSensors, Most, MaxChanges

VARIABLES
  screen,
  open, data, fetched, numbers, job, started, echoes, held, replaced, calls, view, day,
  sessions, selected, loaded, pending, zoom, moved, due, shown, pulsating, hover,
  pulses, hoverAt, redrawn, onMap, mobile, modal, averages, window, right, visits,
  stale, again, page, left, late, url, fetchingData, isFirstRender, realtime, net,
  wanted, excused, isMobile, timer, place, mapInstance, lost, moving, seen, panel,
  sensors, offered, offers, dormantShown, fetchedWith, early, missed, overtaken,
  thresholds, list, path, frames, popover, slide, markersLoading, filters, owed,
  loading, timers, rectangles, drawn, point, infoTimers, infoCalls, rectangleLoading,
  fetching, selectedItem, justSelected, suggestions, debounce, requests, requestId,
  picks, recents, city, map, pendingCount, handled, landing, byHand, typed, status,
  fixedPoints, currentTimestamp, timeRange, currentStep, isPlaying, markers, class,
  fields, div, registered, stored, kept, choices, by, strayed, fixed, sensor, alert, form, sent,
  address, copy, copied

-----------------------------------------------------------------------------
(* The models of the screens. *)

Graph == INSTANCE StreamGraph WITH
  Streams <- Opened, PointsOf <- GraphPoints, Zooms <- GraphZooms, MaxMoves <- MovesOn["graph"]

Markers == INSTANCE FixedMarkers WITH Views <- Stretches
Dormant == INSTANCE DormantMarkers
Calendar == INSTANCE StreamCalendar WITH Streams <- Opened
Lists == INSTANCE SessionLists WITH MaxMoves <- MovesOn["lists"]
Views == INSTANCE MapViews WITH Places <- Centres
Filter == INSTANCE Filters WITH MaxMoves <- MovesOn["filters"]

Mobile == INSTANCE MobileMap WITH
  Streams <- Opened, PointsOf <- PathOf, MaxMoves <- MovesOn["mobile"]

Crowd == INSTANCE CrowdMap WITH MaxMoves <- MovesOn["crowd"]

Search == INSTANCE CitySearch WITH
  Places <- Cities, capacity <- Capacity, MaxMoves <- MovesOn["search"], input <- typed

Lapse == INSTANCE Timelapse WITH MaxMoves <- MovesOn["timelapse"]
Overlay == INSTANCE MapOverlays WITH Places <- Spots
Cookies == INSTANCE Consent
Popup == INSTANCE Popups WITH Sensors <- PopupSensors

ASSUME WebConstants ==
  /\ Graph!GraphAssumption
  /\ Markers!NothingAssumption
  /\ Filter!FiltersAssumption
  /\ Crowd!CrowdAssumption
  /\ Lapse!AnswersAssumption
  /\ Cookies!ConsentAssumption
  /\ Popup!PopupsAssumption
  /\ Mobile!MobileAssumption
  /\ Search!SearchAssumption
  /\ Lists!ListsAssumption
  /\ Calendar!CalendarAssumption

-----------------------------------------------------------------------------
(* One screen at a time. *)

\* A variable belongs to the screens named with it and is Nothing on the others; the
\* thresholds of the slider are not, so that what is said of them can be evaluated.
Idle(screens, v) == IF screen \in screens THEN TRUE ELSE v = Nothing

OthersIdle ==
  /\ Idle({"graph", "filters"}, open) /\ Idle({"graph", "mobile", "crowd", "timelapse"}, data)
  /\ Idle({"graph"}, fetched) /\ Idle({"graph"}, numbers) /\ Idle({"graph"}, job)
  /\ Idle({"graph"}, started) /\ Idle({"graph"}, echoes) /\ Idle({"graph"}, held)
  /\ Idle({"graph"}, replaced) /\ Idle({"graph", "calendar", "mobile", "crowd"}, calls)
  /\ Idle({"graph", "markers", "search", "timelapse"}, view) /\ Idle({"graph", "calendar"}, day)
  /\ Idle({"graph", "slider", "lists", "filters", "mobile", "crowd", "search", "timelapse"}, moves)
  /\ Idle({"markers", "dormant", "mobile"}, sessions)
  /\ Idle({"markers", "dormant", "mobile"}, selected)
  /\ Idle({"markers", "dormant", "calendar"}, loaded) /\ Idle({"markers", "dormant"}, pending)
  /\ Idle({"markers", "mobile"}, zoom) /\ Idle({"markers"}, moved)
  /\ Idle({"markers", "dormant", "lists", "views", "mobile", "crowd", "timelapse"}, due)
  /\ Idle({"markers", "timelapse"}, shown) /\ Idle({"dormant"}, pulsating)
  /\ Idle({"dormant"}, hover) /\ Idle({"dormant"}, pulses) /\ Idle({"dormant"}, hoverAt)
  /\ Idle({"dormant"}, redrawn) /\ Idle({"dormant", "views", "overlays"}, onMap)
  /\ IF screen = "slider" THEN TRUE ELSE
       /\ defaultValues = Zeros /\ thresholdValues = Zeros
       /\ userValues = Absent /\ delayed = Absent /\ crossed = FALSE
  /\ Idle({"slider"}, first) /\ Idle({"slider"}, activeInput) /\ Idle({"slider"}, useColorBoxStyle)
  /\ Idle({"slider", "calendar", "filters", "search", "timelapse"}, asked)
  /\ Idle({"slider", "search"}, inputValue) /\ Idle({"slider", "timelapse"}, drag)
  /\ Idle({"calendar"}, mobile) /\ Idle({"calendar"}, modal) /\ Idle({"calendar"}, averages)
  /\ Idle({"calendar"}, window) /\ Idle({"calendar"}, right) /\ Idle({"calendar"}, visits)
  /\ Idle({"calendar"}, stale) /\ Idle({"calendar"}, again) /\ Idle({"calendar", "consent"}, page)
  /\ Idle({"calendar", "views", "mobile"}, left) /\ Idle({"calendar", "filters"}, late)
  /\ Idle({"lists", "views", "filters"}, url) /\ Idle({"lists", "filters"}, fetchingData)
  /\ Idle({"lists"}, isFirstRender) /\ Idle({"lists"}, realtime) /\ Idle({"lists"}, net)
  /\ Idle({"lists"}, wanted) /\ Idle({"lists", "mobile", "crowd", "search", "timelapse"}, excused)
  /\ Idle({"views", "filters"}, isMobile) /\ Idle({"views", "filters"}, timer)
  /\ Idle({"views"}, place) /\ Idle({"views"}, mapInstance) /\ Idle({"views"}, lost)
  /\ Idle({"views", "search"}, moving) /\ Idle({"filters", "crowd"}, seen)
  /\ Idle({"filters"}, panel) /\ Idle({"filters"}, sensors) /\ Idle({"filters"}, offered)
  /\ Idle({"filters"}, offers) /\ Idle({"filters"}, dormantShown) /\ Idle({"filters"}, fetchedWith)
  /\ Idle({"filters"}, early) /\ Idle({"filters"}, missed) /\ Idle({"filters"}, overtaken)
  /\ Idle({"mobile", "timelapse"}, thresholds) /\ Idle({"mobile", "panel", "link"}, list)
  /\ Idle({"mobile"}, path) /\ Idle({"mobile"}, frames) /\ Idle({"mobile"}, popover)
  /\ Idle({"mobile"}, slide) /\ Idle({"mobile", "crowd"}, markersLoading)
  /\ Idle({"crowd"}, filters) /\ Idle({"crowd"}, owed) /\ Idle({"crowd"}, loading)
  /\ Idle({"crowd", "search"}, timers) /\ Idle({"crowd"}, rectangles) /\ Idle({"crowd"}, drawn)
  /\ Idle({"crowd"}, point) /\ Idle({"crowd"}, infoTimers) /\ Idle({"crowd"}, infoCalls)
  /\ Idle({"crowd"}, rectangleLoading) /\ Idle({"crowd"}, fetching)
  /\ Idle({"search"}, selectedItem) /\ Idle({"search"}, justSelected)
  /\ Idle({"search"}, suggestions) /\ Idle({"search"}, debounce) /\ Idle({"search"}, requests)
  /\ Idle({"search"}, requestId) /\ Idle({"search"}, picks) /\ Idle({"search"}, recents)
  /\ Idle({"search"}, city) /\ Idle({"search"}, map) /\ Idle({"search"}, pendingCount)
  /\ Idle({"search"}, handled) /\ Idle({"search"}, landing) /\ Idle({"search"}, byHand)
  /\ Idle({"search"}, typed) /\ Idle({"search", "timelapse", "panel", "link"}, status)
  /\ Idle({"timelapse"}, fixedPoints) /\ Idle({"timelapse"}, currentTimestamp)
  /\ Idle({"timelapse"}, timeRange) /\ Idle({"timelapse"}, currentStep)
  /\ Idle({"timelapse"}, isPlaying) /\ Idle({"timelapse"}, markers) /\ Idle({"overlays"}, class)
  /\ Idle({"overlays"}, fields) /\ Idle({"overlays"}, div) /\ Idle({"overlays"}, registered)
  /\ Idle({"consent"}, stored) /\ Idle({"consent"}, kept) /\ Idle({"consent"}, choices)
  /\ Idle({"consent"}, by) /\ Idle({"consent"}, strayed) /\ Idle({"panel", "link"}, fixed)
  /\ Idle({"panel", "link"}, sensor) /\ Idle({"panel", "link"}, alert)
  /\ Idle({"panel", "link"}, form) /\ Idle({"panel", "link"}, sent)
  /\ Idle({"panel", "link"}, address) /\ Idle({"panel", "link"}, copy)
  /\ Idle({"panel", "link"}, copied)

ScreenInit ==
  \/ screen = "graph" /\ Graph!Init
  \/ screen = "markers" /\ Markers!Init
  \/ screen = "dormant" /\ Dormant!Init
  \/ screen = "slider" /\ Init
  \/ screen = "calendar" /\ Calendar!Init
  \/ screen = "lists" /\ Lists!Init
  \/ screen = "views" /\ Views!Init
  \/ screen = "filters" /\ Filter!Init
  \/ screen = "mobile" /\ Mobile!Init
  \/ screen = "crowd" /\ Crowd!Init
  \/ screen = "search" /\ Search!Init
  \/ screen = "timelapse" /\ Lapse!Init
  \/ screen = "overlays" /\ Overlay!Init
  \/ screen = "consent" /\ Cookies!Init
  \/ screen = "panel" /\ Popup!Init
  \/ screen = "link" /\ Popup!Init

WebInit == ScreenInit /\ OthersIdle

OthersStay ==
  /\ IF screen \in {"graph", "filters"} THEN TRUE ELSE UNCHANGED <<open>>
  /\ IF screen \in {"graph", "mobile", "crowd", "timelapse"} THEN TRUE ELSE UNCHANGED <<data>>
  /\ IF screen \in {"graph"} THEN TRUE
       ELSE UNCHANGED <<fetched, numbers, job, started, echoes, held, replaced>>
  /\ IF screen \in {"graph", "calendar", "mobile", "crowd"} THEN TRUE ELSE UNCHANGED <<calls>>
  /\ IF screen \in {"graph", "markers", "search", "timelapse"} THEN TRUE ELSE UNCHANGED <<view>>
  /\ IF screen \in {"graph", "calendar"} THEN TRUE ELSE UNCHANGED <<day>>
  /\ IF screen \in {"graph", "slider", "lists", "filters", "mobile", "crowd", "search", "timelapse"} THEN TRUE
       ELSE UNCHANGED <<moves>>
  /\ IF screen \in {"markers", "dormant", "mobile"} THEN TRUE ELSE UNCHANGED <<sessions, selected>>
  /\ IF screen \in {"markers", "dormant", "calendar"} THEN TRUE ELSE UNCHANGED <<loaded>>
  /\ IF screen \in {"markers", "dormant"} THEN TRUE ELSE UNCHANGED <<pending>>
  /\ IF screen \in {"markers", "mobile"} THEN TRUE ELSE UNCHANGED <<zoom>>
  /\ IF screen \in {"markers"} THEN TRUE ELSE UNCHANGED <<moved>>
  /\ IF screen \in {"markers", "dormant", "lists", "views", "mobile", "crowd", "timelapse"} THEN TRUE
       ELSE UNCHANGED <<due>>
  /\ IF screen \in {"markers", "timelapse"} THEN TRUE ELSE UNCHANGED <<shown>>
  /\ IF screen \in {"dormant"} THEN TRUE
       ELSE UNCHANGED <<pulsating, hover, pulses, hoverAt, redrawn>>
  /\ IF screen \in {"dormant", "views", "overlays"} THEN TRUE ELSE UNCHANGED <<onMap>>
  /\ IF screen \in {"slider"} THEN TRUE
       ELSE UNCHANGED <<defaultValues, userValues, first, thresholdValues, delayed, activeInput,
                        useColorBoxStyle, crossed>>
  /\ IF screen \in {"slider", "calendar", "filters", "search", "timelapse"} THEN TRUE
       ELSE UNCHANGED <<asked>>
  /\ IF screen \in {"slider", "search"} THEN TRUE ELSE UNCHANGED <<inputValue>>
  /\ IF screen \in {"slider", "timelapse"} THEN TRUE ELSE UNCHANGED <<drag>>
  /\ IF screen \in {"calendar"} THEN TRUE
       ELSE UNCHANGED <<mobile, modal, averages, window, right, visits, stale, again>>
  /\ IF screen \in {"calendar", "consent"} THEN TRUE ELSE UNCHANGED <<page>>
  /\ IF screen \in {"calendar", "views", "mobile"} THEN TRUE ELSE UNCHANGED <<left>>
  /\ IF screen \in {"calendar", "filters"} THEN TRUE ELSE UNCHANGED <<late>>
  /\ IF screen \in {"lists", "views", "filters"} THEN TRUE ELSE UNCHANGED <<url>>
  /\ IF screen \in {"lists", "filters"} THEN TRUE ELSE UNCHANGED <<fetchingData>>
  /\ IF screen \in {"lists"} THEN TRUE ELSE UNCHANGED <<isFirstRender, realtime, net, wanted>>
  /\ IF screen \in {"lists", "mobile", "crowd", "search", "timelapse"} THEN TRUE
       ELSE UNCHANGED <<excused>>
  /\ IF screen \in {"views", "filters"} THEN TRUE ELSE UNCHANGED <<isMobile, timer>>
  /\ IF screen \in {"views"} THEN TRUE ELSE UNCHANGED <<place, mapInstance, lost>>
  /\ IF screen \in {"views", "search"} THEN TRUE ELSE UNCHANGED <<moving>>
  /\ IF screen \in {"filters", "crowd"} THEN TRUE ELSE UNCHANGED <<seen>>
  /\ IF screen \in {"filters"} THEN TRUE
       ELSE UNCHANGED <<panel, sensors, offered, offers, dormantShown, fetchedWith, early, missed,
                        overtaken>>
  /\ IF screen \in {"mobile", "timelapse"} THEN TRUE ELSE UNCHANGED <<thresholds>>
  /\ IF screen \in {"mobile", "panel", "link"} THEN TRUE ELSE UNCHANGED <<list>>
  /\ IF screen \in {"mobile"} THEN TRUE ELSE UNCHANGED <<path, frames, popover, slide>>
  /\ IF screen \in {"mobile", "crowd"} THEN TRUE ELSE UNCHANGED <<markersLoading>>
  /\ IF screen \in {"crowd"} THEN TRUE
       ELSE UNCHANGED <<filters, owed, loading, rectangles, drawn, point, infoTimers,
                        infoCalls, rectangleLoading, fetching>>
  /\ IF screen \in {"crowd", "search"} THEN TRUE ELSE UNCHANGED <<timers>>
  /\ IF screen \in {"search"} THEN TRUE
       ELSE UNCHANGED <<selectedItem, justSelected, suggestions, debounce, requests, requestId,
                        picks, recents, city, map, pendingCount, handled, landing, byHand, typed>>
  /\ IF screen \in {"search", "timelapse", "panel", "link"} THEN TRUE ELSE UNCHANGED <<status>>
  /\ IF screen \in {"timelapse"} THEN TRUE
       ELSE UNCHANGED <<fixedPoints, currentTimestamp, timeRange, currentStep, isPlaying, markers>>
  /\ IF screen \in {"overlays"} THEN TRUE ELSE UNCHANGED <<class, fields, div, registered>>
  /\ IF screen \in {"consent"} THEN TRUE ELSE UNCHANGED <<stored, kept, choices, by, strayed>>
  /\ IF screen \in {"panel", "link"} THEN TRUE
       ELSE UNCHANGED <<fixed, sensor, alert, form, sent, address, copy, copied>>


On(s) == screen = s /\ UNCHANGED screen /\ OthersStay

GraphScreen == On("graph") /\ Graph!Next
MarkersScreen == On("markers") /\ Markers!Next
DormantScreen == On("dormant") /\ Dormant!Next
SliderScreen == On("slider") /\ Next
CalendarScreen == On("calendar") /\ Calendar!Next
ListsScreen == On("lists") /\ Lists!Next
ViewsScreen == On("views") /\ Views!Next
FiltersScreen == On("filters") /\ Filter!Next
MobileScreen == On("mobile") /\ Mobile!Next
CrowdScreen == On("crowd") /\ Crowd!Next
SearchScreen == On("search") /\ Search!Next
TimelapseScreen == On("timelapse") /\ Lapse!Next
OverlaysScreen == On("overlays") /\ Overlay!Next
ConsentScreen == On("consent") /\ Cookies!Next
PanelScreen == On("panel") /\ Popup!Panel
LinkScreen == On("link") /\ Popup!Link

WebNext ==
  \/ GraphScreen
  \/ MarkersScreen
  \/ DormantScreen
  \/ SliderScreen
  \/ CalendarScreen
  \/ ListsScreen
  \/ ViewsScreen
  \/ FiltersScreen
  \/ MobileScreen
  \/ CrowdScreen
  \/ SearchScreen
  \/ TimelapseScreen
  \/ OverlaysScreen
  \/ ConsentScreen
  \/ PanelScreen
  \/ LinkScreen

all == <<screen,
        open, data, fetched, numbers, job, started, echoes, held, replaced, calls, view,
        day, moves, sessions, selected, loaded, pending, zoom, moved, due, shown,
        pulsating, hover, pulses, hoverAt, redrawn, onMap, defaultValues, userValues,
        first, thresholdValues, delayed, activeInput, useColorBoxStyle, crossed, asked,
        inputValue, drag, mobile, modal, averages, window, right, visits, stale, again,
        page, left, late, url, fetchingData, isFirstRender, realtime, net, wanted,
        excused, isMobile, timer, place, mapInstance, lost, moving, seen, panel,
        sensors, offered, offers, dormantShown, fetchedWith, early, missed, overtaken,
        thresholds, list, path, frames, popover, slide, markersLoading, filters, owed,
        loading, timers, rectangles, drawn, point, infoTimers, infoCalls,
        rectangleLoading, fetching, selectedItem, justSelected, suggestions, debounce,
        requests, requestId, picks, recents, city, map, pendingCount, handled, landing,
        byHand, typed, status, fixedPoints, currentTimestamp, timeRange, currentStep,
        isPlaying, markers, class, fields, div, registered, stored, kept, choices, by, strayed,
        fixed, sensor, alert, form, sent, address, copy, copied>>

WebSpec == WebInit /\ [][WebNext]_all

-----------------------------------------------------------------------------
(* The properties of the models, each stated in its module. *)

\* With the map at rest each session in view has one marker, or is part of one cluster,
\* and an open stream alone has one: active sessions, and dormant ones.
EachSessionShownOnce ==
  /\ screen = "markers" => Markers!EachSessionShownOnce
  /\ screen = "dormant" => Dormant!DormantShownOnce

\* The fetcher of the graph never waits for a request that is over.
FetcherWaitsForACall == screen = "graph" => Graph!FetcherWaitsForACall

\* Ranges recorded as fetched are never asked for again, so their measurements are there.
RecordedRangesAreLoaded == screen = "graph" => Graph!RecordedRangesAreLoaded

\* The calendar shows the averages of the stream in the URL, each in its cell, and
\* every month with averages is within reach of its buttons.
CalendarIsOfItsStream ==
  screen = "calendar" => Calendar!CalendarShowsItsStream /\ Calendar!AveragesStayInReach

\* The list of sessions is what was asked for last, each session once and in order.
ListIsWhatWasAskedFor == screen = "lists" => Lists!ListIsWhatWasAskedFor

\* However a session was left, the map is back where the user left it.
MapGoesBack == screen = "views" => Views!MapGoesBack

\* The filters make sense together, and the sessions shown were fetched with them.
FiltersAgree ==
  screen = "filters" => Filter!FiltersAgree /\ Filter!SessionsAreOfTheFilters

\* The path, the notes and the labels of a mobile session are of the session that is open.
PathIsOfTheSession == screen = "mobile" => Mobile!PathIsOfTheSession

\* The rectangles of the crowd map are those of the filters, and what is shown of one is
\* about it.
CrowdMapIsOfTheFilters == screen = "crowd" => Crowd!CrowdMapIsOfTheFilters

\* Suggestions are for the text that was typed, and the map is at the place of the URL.
SearchIsSettled == screen = "search" => Search!SearchIsSettled

\* The markers of the timelapse are those of its step.
TimelapseShowsItsStep == screen = "timelapse" => Lapse!TimelapseShowsItsStep

\* What the page shows of an overlay is what its object was last told.
DrawnAsAsked == screen = "overlays" => Overlay!DrawnAsAsked

\* What was refused in the cookie settings is neither kept nor tracked.
RefusalIsObeyed == screen = "consent" => Cookies!RefusalIsObeyed

\* An export is of the list that is shown, within its limit; a copied link is of an address
\* the page had.
PopupsSendWhatTheyShow == screen \in {"panel", "link"} => Popup!PopupsSendWhatTheyShow
=============================================================================
