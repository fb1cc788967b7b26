------------------------------ MODULE MapViews ------------------------------
(***************************************************************************)
(* The views of the map page, the session open in one of them, and where   *)
(* the map is: all of it kept in the URL.                                  *)
(*                                                                         *)
(* Code: Map with its effects on the views, the setters of views of        *)
(* useMapParams, MapButtons, MobileHeader, CrowdmapToggle, the way to the  *)
(* calendar and back.                                                      *)
(*                                                                         *)
(* Opening a session moves the map to it; the place it was at before is    *)
(* put into the URL, and the map goes back there when a map view comes     *)
(* after the session, the list or the calendar.  A place stands for center *)
(* and zoom.  Outside: the Google map, which comes to rest after each move *)
(* and starts at the place of the URL.                                     *)
(***************************************************************************)
EXTENDS Integers

CONSTANT Places

MapView == "MapView"            CrowdMapView == "CrowdMapView"
ModalView == "ModalView"        CalendarView == "CalendarView"
FiltersView == "FiltersView"    MapLegendView == "MapLegendView"
SessionListView == "SessionListView"
TimelapseView == "TimelapseView"
UserSettings == {MapView, CrowdMapView, ModalView, CalendarView, FiltersView,
                 MapLegendView, SessionListView, TimelapseView}
MapShown == {MapView, CrowdMapView}

VARIABLES
  isMobile,      \* a phone
  url,           \* sessionType, the views, whether ids of a session, the places
  onMap,         \* the page of the map, not the calendar's
  place,         \* of the map
  mapInstance,   \* it has rested once
  moving,        \* it is yet to come to rest
  due,           \* what changed since the last render
  timer,         \* the one set after the calendar
  left,          \* history: where the user left the map
  lost           \* history: the way went through a view that does not keep the place

vars == <<isMobile, url, onMap, place, mapInstance, moving, due, timer, left, lost>>

\* A map view, or a link to a session, which a phone turns into its calendar.
Init ==
  /\ isMobile \in BOOLEAN
  /\ url \in [kind : {"fixed", "mobile"}, cur : {MapView, ModalView}, prev : {MapView},
              ids : BOOLEAN, place : Places, prevPlace : Places]
  /\ url.ids = (url.cur = ModalView)
  /\ onMap = TRUE
  /\ place = url.place
  /\ mapInstance = FALSE /\ moving = TRUE
  /\ due = {"cur", "prev"}
  /\ timer = FALSE
  /\ left = IF url.cur = ModalView THEN url.prevPlace ELSE url.place
  /\ lost = FALSE

fixedSessionTypeSelected == url.kind = "fixed"

-----------------------------------------------------------------------------
(* The places. *)

\* Mutant of setPreviousZoomOnTheMap: not for a session that was opened on the map.
OnlyFromThePanels(u, p) ==
  IF mapInstance /\ u.cur \in MapShown /\ u.prev = CalendarView THEN u.prevPlace ELSE p

setPreviousZoomOnTheMap(u, p) ==
  IF /\ mapInstance
     /\ u.cur \in MapShown
     /\ u.prev \notin {MapView, MapLegendView, FiltersView, CrowdMapView, TimelapseView}
  THEN u.prevPlace ELSE p

desktopCondition(u) == ~isMobile /\ u.cur # ModalView /\ u.prev # CalendarView
mobileCondition(u) == isMobile /\ u.cur = MapView
mobileConditionForSessionList(u) == isMobile /\ u.cur = SessionListView /\ u.prev = MapView

setPreviousZoomInTheURL(u, p) ==
  IF mapInstance /\ (desktopCondition(u) \/ mobileCondition(u) \/ mobileConditionForSessionList(u))
  THEN [u EXCEPT !.prevPlace = p] ELSE u

-----------------------------------------------------------------------------
(* The effects of a render: a phone is sent to the calendar, or a view that is   *)
(* not the session's forgets the session, and the map goes back.  After the      *)
(* calendar it goes back once more, a little later.                              *)

Redirects == isMobile /\ url.cur = ModalView /\ fixedSessionTypeSelected /\ url.ids

RedirectToCalendar ==
  /\ due # {} /\ Redirects
  /\ url' = [url EXCEPT !.prev = MapView, !.cur = CalendarView]
  /\ onMap' = FALSE
  /\ mapInstance' = FALSE /\ moving' = FALSE /\ due' = {} /\ timer' = FALSE
  /\ UNCHANGED <<isMobile, place, left, lost>>

Render ==
  /\ due # {} /\ ~Redirects
  /\ LET forgotten == IF url.cur = ModalView THEN url ELSE [url EXCEPT !.ids = FALSE]
     IN  IF "cur" \in due
         THEN /\ place' = setPreviousZoomOnTheMap(url, place)
              /\ url' = IF isMobile THEN setPreviousZoomInTheURL(forgotten, place') ELSE forgotten
         ELSE UNCHANGED <<place, url>>
  /\ moving' = (moving \/ place' # place)
  /\ timer' = IF due \cap {"prev", "map"} # {} THEN mapInstance /\ url.prev = CalendarView ELSE timer
  /\ due' = {}
  /\ UNCHANGED <<isMobile, onMap, mapInstance, left, lost>>

TimerFires ==
  /\ timer
  /\ timer' = FALSE
  /\ place' = setPreviousZoomOnTheMap(url, place)
  /\ moving' = (moving \/ place' # place)
  /\ UNCHANGED <<isMobile, url, onMap, mapInstance, due, left, lost>>

\* The map rests: a map view puts the place into the URL.
handleMapIdle ==
  /\ onMap /\ moving
  /\ moving' = FALSE
  /\ mapInstance' = TRUE
  /\ url' = IF url.cur \in MapShown THEN [url EXCEPT !.place = place] ELSE url
  /\ due' = IF mapInstance THEN {} ELSE {"map"}
  /\ UNCHANGED <<isMobile, onMap, place, timer, left, lost>>

-----------------------------------------------------------------------------
(* The user. *)

\* On a phone the place is kept on the way from the map to a session or the list, and
\* back, but not if another panel comes in between.
AboutSessions == {SessionListView, ModalView, CalendarView}
Sidesteps(view) ==
  /\ isMobile
  /\ \/ view \in AboutSessions /\ url.cur \notin AboutSessions \cup {MapView}
     \/ url.cur \in AboutSessions /\ view \notin AboutSessions \cup MapShown

\* What a change of the URL makes of the page.
Shows(u) ==
  /\ url' = u
  /\ lost' = (lost \/ Sidesteps(u.cur))
  /\ due' = (IF u.cur # url.cur THEN {"cur"} ELSE {}) \cup (IF u.prev # url.prev THEN {"prev"} ELSE {})

OnTheMap == onMap /\ mapInstance

\* By the user, or by the page, which shows the open session.  Nobody moves a map
\* back to where it was to the last digit.
Move(p) ==
  /\ OnTheMap /\ p # place /\ p # url.prevPlace
  /\ url.cur \notin {SessionListView, FiltersView}
  /\ place' = p
  /\ moving' = TRUE
  /\ left' = IF url.cur = ModalView THEN left ELSE p
  /\ lost' = (lost /\ url.cur \notin MapShown)
  /\ UNCHANGED <<isMobile, url, onMap, mapInstance, due, timer>>

Stay == UNCHANGED <<isMobile, onMap, place, mapInstance, moving, timer, left>>

goToUserSettings(view) == [url EXCEPT !.prev = url.cur, !.cur = view]

revertUserSettingsAndResetIds ==
  [url EXCEPT !.ids = FALSE,
              !.prev = url.cur,
              !.cur = IF ~isMobile /\ url.prev = CalendarView THEN MapView ELSE url.prev]

\* From a marker or a cell of the list; with a session open it is closed.
handleMarkerClick ==
  /\ OnTheMap
  /\ url.cur \in IF isMobile THEN UserSettings \ {FiltersView, TimelapseView}
                 ELSE {MapView, CrowdMapView, ModalView}
  /\ LET recorded == IF url.cur = SessionListView THEN url ELSE setPreviousZoomInTheURL(url, place)
         opened == [recorded EXCEPT !.ids = TRUE, !.prev = url.cur,
                                    !.cur = IF isMobile /\ fixedSessionTypeSelected
                                            THEN CalendarView ELSE ModalView]
     IN  IF isMobile /\ fixedSessionTypeSelected
         THEN /\ url' = opened
              /\ onMap' = FALSE
              /\ mapInstance' = FALSE /\ moving' = FALSE /\ due' = {} /\ timer' = FALSE
              /\ lost' = (lost \/ Sidesteps(CalendarView))
              /\ UNCHANGED <<isMobile, place, left>>
         ELSE /\ Shows(IF url.ids THEN revertUserSettingsAndResetIds ELSE opened)
              /\ Stay

\* The panel's cross, or the header's arrow on a phone.
CloseModal ==
  /\ OnTheMap /\ url.cur = ModalView
  /\ Shows(revertUserSettingsAndResetIds)
  /\ Stay

\* The link of the panel; the map goes.
ModalLink ==
  /\ OnTheMap /\ ~isMobile /\ url.cur = ModalView /\ fixedSessionTypeSelected
  /\ url' = goToUserSettings(CalendarView)
  /\ onMap' = FALSE
  /\ mapInstance' = FALSE /\ moving' = FALSE /\ due' = {} /\ timer' = FALSE
  /\ UNCHANGED <<isMobile, place, left, lost>>

\* Back on the map, which starts anew.
handleCalendarGoBack ==
  /\ ~onMap
  /\ url' = [url EXCEPT !.prev = url.cur, !.cur = url.prev, !.ids = ~isMobile /\ url.ids]
  /\ onMap' = TRUE
  /\ place' = url.place
  /\ moving' = TRUE
  /\ due' = {"cur", "prev"}
  /\ UNCHANGED <<isMobile, mapInstance, timer, left, lost>>

\* The buttons of a phone, there unless a session or the filters are open.
SectionButton(view) ==
  /\ OnTheMap /\ isMobile /\ url.cur \notin {ModalView, FiltersView}
  /\ Shows(goToUserSettings(view))
  /\ Stay

openTimelapse ==
  /\ OnTheMap /\ isMobile /\ fixedSessionTypeSelected /\ url.cur \notin {ModalView, FiltersView}
  /\ Shows(goToUserSettings(IF url.cur = TimelapseView THEN url.prev ELSE TimelapseView))
  /\ Stay

\* The legend and the timelapse lead back to where one came from, the list and the
\* filters to one of the map views.
ClosePanel ==
  /\ OnTheMap
  /\ url.cur \in {MapLegendView, TimelapseView, SessionListView, FiltersView}
  /\ Shows(goToUserSettings(
       IF url.cur \in {MapLegendView, TimelapseView} THEN url.prev
       ELSE IF url.prev = CrowdMapView THEN CrowdMapView ELSE MapView))
  /\ Stay

\* The buttons of a wide screen.
handleTimelapseClick ==
  /\ OnTheMap /\ ~isMobile /\ fixedSessionTypeSelected /\ url.cur # ModalView
  /\ Shows(goToUserSettings(IF url.cur = TimelapseView THEN MapView ELSE TimelapseView))
  /\ Stay

handleFilterClick ==
  /\ OnTheMap /\ ~isMobile /\ url.cur \in {CrowdMapView, TimelapseView}
  /\ Shows(goToUserSettings(IF url.cur = TimelapseView THEN MapView ELSE CrowdMapView))
  /\ Stay

\* The crowd map of the mobile sessions: in the filters of a phone it is only noted.
handleToggleClick ==
  /\ OnTheMap /\ ~fixedSessionTypeSelected
  /\ url.cur \in IF isMobile THEN {FiltersView} ELSE {MapView, CrowdMapView, ModalView}
  /\ LET isCrowdMapActive == (IF isMobile THEN url.prev ELSE url.cur) = CrowdMapView
         view == IF isCrowdMapActive THEN MapView ELSE CrowdMapView
     IN  Shows(IF isMobile THEN [url EXCEPT !.prev = view] ELSE goToUserSettings(view))
  /\ Stay

\* A wide screen leaves any session for the map, or the crowd map; on a phone, which
\* shows filters alone, one of them forgets where the filters were opened.
Filtered(kind) ==
  IF isMobile
  THEN [url EXCEPT !.kind = kind, !.prev = url.cur, !.ids = FALSE]
  ELSE [url EXCEPT !.kind = kind, !.prev = url.cur, !.ids = FALSE,
                   !.cur = IF url.cur = CrowdMapView /\ kind = url.kind THEN CrowdMapView ELSE MapView]

setFilter(kind) ==
  /\ OnTheMap
  /\ isMobile => url.cur = FiltersView
  /\ Shows(Filtered(kind))
  /\ Stay

-----------------------------------------------------------------------------
\* React renders before anything else happens, and the timer's 10 ms are over before
\* the user does anything.
User ==
  \/ \E p \in Places : Move(p)
  \/ handleMarkerClick \/ CloseModal \/ ModalLink \/ handleCalendarGoBack
  \/ \E view \in {SessionListView, MapLegendView, FiltersView} : SectionButton(view)
  \/ openTimelapse \/ ClosePanel
  \/ handleTimelapseClick \/ handleFilterClick \/ handleToggleClick
  \/ \E kind \in {"fixed", "mobile"} : setFilter(kind)

Next == Render \/ RedirectToCalendar \/ (due = {} /\ ((~timer /\ User) \/ TimerFires \/ handleMapIdle))

Spec == Init /\ [][Next]_vars

-----------------------------------------------------------------------------
Rests == due = {} /\ ~moving /\ ~timer

\* However a session was opened and left, from a marker, the list, the calendar, a
\* filter or a link, the map is then back where the user left it.  A session is open
\* exactly while its panel is.  Exception: the ways of a phone through other panels.
MapGoesBack ==
  Rests /\ onMap /\ ~lost =>
    /\ url.cur \in MapShown => place = left
    /\ url.cur = ModalView <=> url.ids
=============================================================================
