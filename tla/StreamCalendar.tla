--------------------------- MODULE StreamCalendar ---------------------------
(***************************************************************************)
(* The calendar of a fixed stream's daily averages: three months of them,  *)
(* moved a month at a time.                                                *)
(*                                                                         *)
(* Code: CalendarPage, Calendar and its hook, movingCalendarStreamSlice    *)
(* with the selectors of the months, and the ways onto the page and back.  *)
(*                                                                         *)
(* The page asks for the averages of the stream in its URL, once, with the *)
(* dates of the stream that is loaded when it can: on a phone that may     *)
(* still be the one opened before.  Days are counted from 0, all months    *)
(* and all weeks are equally long.                                         *)
(***************************************************************************)
EXTENDS Integers, FiniteSets, FiniteSetsExt

CONSTANTS
  Streams,
  Nothing,
  SpanOf,         \* first and last day of a stream
  AveragesOf,     \* the days it has averages of
  MonthLength, WeekLength,
  MaxVisits       \* BOUND: streams opened

\* An average is of measurements, which are between the first day and the last.
CalendarAssumption ==
  /\ Nothing \notin Streams
  /\ SpanOf \in [Streams -> Nat \X Nat]
  /\ AveragesOf \in [Streams -> SUBSET Nat]
  /\ \A s \in Streams : AveragesOf[s] \subseteq SpanOf[s][1]..SpanOf[s][2]
  /\ MonthLength \in Nat \ {0} /\ WeekLength \in Nat \ {0}

Days == UNION {SpanOf[s][1]..SpanOf[s][2] : s \in Streams}
NoWindow == <<0, -1>>

VARIABLES
  mobile,
  page,        \* the stream in the URL of the calendar, or Nothing: the map
  modal,       \* the stream open on the map
  loaded,      \* whose data is in fixedStream
  averages,    \* movingCalendarStream.data: whose, and the days
  calls,       \* requests under way
  asked,       \* initialDataFetched
  window,      \* visibleDateRange, while there is a calendar
  left, right, \* the buttons are disabled
  day,         \* selectedTimestamp
  visits,
  stale,       \* history: the page asked with another stream's dates,
  late,        \* left with its averages still to come,
  again        \* or had its window set anew with a button disabled

buttons == <<left, right>>
history == <<stale, late, again>>
vars == <<mobile, page, modal, loaded, averages, calls, asked, window, buttons, day, visits, history>>

NoAverages == [of |-> Nothing, days |-> {}]

Init ==
  /\ mobile \in BOOLEAN
  /\ page = Nothing /\ modal = Nothing /\ loaded = Nothing
  /\ averages = NoAverages
  /\ calls = {}
  /\ asked = FALSE
  /\ window = NoWindow
  /\ left = FALSE /\ right = FALSE
  /\ day = Nothing
  /\ visits = 0
  /\ stale = FALSE /\ late = FALSE /\ again = FALSE

-----------------------------------------------------------------------------
(* Months and weeks. *)

MonthOf(d) == d \div MonthLength
startOf(m) == m * MonthLength
endOf(m) == m * MonthLength + MonthLength - 1

Smaller(a, b) == IF a < b THEN a ELSE b
WindowTo(end) == <<startOf(MonthOf(end) - 2), end>>
getVisibleMonthsData(days, w) == {d \in days : w[1] <= d /\ d <= w[2]}

\* Whole weeks around the month: the first day of each.
getMonthWeekBoundariesForDate(m) ==
  LET weekOf(d) == d - (d % WeekLength)
  IN  {weekOf(d) : d \in startOf(m)..endOf(m)}

\* A cell has a value if its day is of the month and there is an average of it.
getMonthWeeksOfDailyAverages(m, days) ==
  [week \in getMonthWeekBoundariesForDate(m) |->
     [i \in 0..(WeekLength - 1) |->
        [day |-> week + i, value |-> MonthOf(week + i) = m /\ week + i \in days]]]

selectCalendarData(days, w) ==
  [m \in (MonthOf(w[2]) - 2)..MonthOf(w[2]) |->
     getMonthWeeksOfDailyAverages(m, getVisibleMonthsData(days, w))]

\* The months, weeks and cells in which a day has a value.
CellsWith(d) ==
  LET months == selectCalendarData(averages.days, window)
      In(m) == {<<m, week, i>> : week \in DOMAIN months[m], i \in 0..(WeekLength - 1)}
  IN  {c \in UNION {In(m) : m \in DOMAIN months} :
         months[c[1]][c[2]][c[3]] = [day |-> d, value |-> TRUE]}

-----------------------------------------------------------------------------
(* The page and its effects. *)

calendarIsVisible(at, stream, data, under) ==
  at # Nothing /\ stream # Nothing /\ (data.days # {} \/ \E c \in under : c.kind = "stream")

\* After a change of the averages or of the last day: the last three months.  A
\* calendar that just came has its buttons enabled; one that goes leaves nothing.
Shown(anew) ==
  LET visible == calendarIsVisible(page', loaded', averages', calls')
      was == calendarIsVisible(page, loaded, averages, calls)
      last == Max(averages'.days)
  IN  IF ~visible \/ (anew /\ averages'.days = {})
      THEN /\ window' = IF visible /\ was THEN window ELSE NoWindow
           /\ left' = (visible /\ was /\ left) /\ right' = (visible /\ was /\ right)
           /\ again' = (visible /\ was /\ again)
      ELSE IF anew \/ ~was
      THEN /\ window' = IF averages'.days = {} THEN NoWindow ELSE WindowTo(last)
           /\ right' = (averages'.days # {} /\ last >= SpanOf[loaded'][2])
           /\ left' = (was /\ left)
           /\ again' = (was /\ (again \/ left))
      ELSE UNCHANGED <<window, buttons, again>>

\* The averages are asked for as soon as some stream is loaded, once.
Averages(s, of) == [kind |-> "averages", stream |-> s, span |-> SpanOf[of]]
Stream(s) == [kind |-> "stream", stream |-> s, span |-> <<0, 0>>]
Asks(s, of) == IF of = Nothing THEN {} ELSE {Averages(s, of)}

\* fetchFixedStreamById by whoever opens the stream, and by the page too if no
\* measurements are there.
OpenPage(s, with, clicked) ==
  /\ visits < MaxVisits
  /\ visits' = visits + 1
  /\ page' = s
  /\ modal' = Nothing
  /\ calls' = calls \cup Asks(s, with)
                    \cup (IF clicked \/ with = Nothing THEN {Stream(s)} ELSE {})
  /\ asked' = (with # Nothing)
  /\ stale' = (with \notin {s, Nothing})
  /\ UNCHANGED <<mobile, loaded, averages, day, late>>
  /\ Shown(FALSE)

\* On a phone a click on a marker leads straight to the page, with whatever stream
\* was loaded before.
handleMarkerClickMobile(s) ==
  /\ mobile /\ page = Nothing
  /\ OpenPage(s, loaded, TRUE)

\* Elsewhere to the panel on the map, and from there by a link.
handleMarkerClick(s) ==
  /\ ~mobile /\ page = Nothing /\ modal = Nothing
  /\ modal' = s
  /\ calls' = calls \cup {Stream(s)}
  /\ UNCHANGED <<mobile, page, loaded, averages, asked, window, buttons, day, visits, history>>

ModalLink ==
  /\ modal # Nothing
  /\ OpenPage(modal, loaded, FALSE)

CloseModal ==
  /\ modal # Nothing
  /\ modal' = Nothing
  /\ loaded' = Nothing
  /\ UNCHANGED <<mobile, page, averages, calls, asked, window, buttons, day, visits, history>>

\* Mutant of handleCalendarGoBack: the averages stay.
GoBackKeepingAverages ==
  /\ page # Nothing
  /\ page' = Nothing
  /\ modal' = IF mobile THEN Nothing ELSE page
  /\ late' = (late \/ \E c \in calls : c.kind = "averages")
  /\ asked' = FALSE
  /\ window' = NoWindow /\ left' = FALSE /\ right' = FALSE /\ again' = FALSE
  /\ day' = Nothing
  /\ stale' = FALSE
  /\ UNCHANGED <<mobile, loaded, averages, calls, visits>>

\* Back to the map: the averages go, the stream stays loaded.
handleCalendarGoBack ==
  /\ page # Nothing
  /\ page' = Nothing
  /\ modal' = IF mobile THEN Nothing ELSE page
  /\ averages' = NoAverages
  /\ late' = (late \/ \E c \in calls : c.kind = "averages")
  /\ asked' = FALSE
  /\ window' = NoWindow /\ left' = FALSE /\ right' = FALSE /\ again' = FALSE
  /\ day' = Nothing
  /\ stale' = FALSE
  /\ UNCHANGED <<mobile, loaded, calls, visits>>

StreamAnswer(c, found) ==
  /\ c \in calls /\ c.kind = "stream"
  /\ loaded' = IF found THEN c.stream ELSE Nothing
  /\ LET asks == page # Nothing /\ ~asked /\ found
     IN  /\ calls' = (calls \ {c}) \cup (IF asks THEN {Averages(page, c.stream)} ELSE {})
         /\ asked' = (asked \/ asks)
         /\ stale' = (stale \/ (asks /\ c.stream # page))
  /\ UNCHANGED <<mobile, page, modal, averages, day, visits, late>>
  /\ Shown(loaded' # loaded)

\* Whatever stream they are of, and for whatever page they were asked.
AveragesAnswer(c, found) ==
  /\ c \in calls /\ c.kind = "averages"
  /\ calls' = calls \ {c}
  /\ averages' = LET days == AveragesOf[c.stream] \cap (c.span[1]..c.span[2])
                 IN  IF found /\ days # {} THEN [of |-> c.stream, days |-> days] ELSE NoAverages
  /\ UNCHANGED <<mobile, page, modal, loaded, asked, day, visits, stale, late>>
  /\ Shown(TRUE)

-----------------------------------------------------------------------------
(* The calendar. *)

Calendar == calendarIsVisible(page, loaded, averages, calls) /\ window # NoWindow

\* A window that would start before the first month is not taken: the button then
\* is disabled, and the other one is enabled all the same.
MoveTo(end) ==
  LET w == WindowTo(end)
  IN  IF MonthOf(w[1]) < MonthOf(SpanOf[loaded][1])
      THEN left' = TRUE /\ UNCHANGED window
      ELSE window' = w /\ left' = FALSE

\* Mutant of handleBackwardMovement: the other button stays as it is.
MoveBackOnly ==
  /\ Calendar /\ ~left
  /\ MoveTo(endOf(MonthOf(window[2]) - 1))
  /\ UNCHANGED <<mobile, page, modal, loaded, averages, calls, asked, right, day, visits, history>>

handleBackwardMovement ==
  /\ Calendar /\ ~left
  /\ MoveTo(endOf(MonthOf(window[2]) - 1))
  /\ right' = FALSE
  /\ UNCHANGED <<mobile, page, modal, loaded, averages, calls, asked, day, visits, history>>

handleForwardMovement ==
  /\ Calendar /\ ~right
  /\ LET end == endOf(MonthOf(window[2]) + 1)
         last == SpanOf[loaded][2]
     IN  /\ MoveTo(Smaller(end, last))
         /\ right' = (right \/ end > last)
  /\ UNCHANGED <<mobile, page, modal, loaded, averages, calls, asked, day, visits, history>>

\* Only a day with a value can be clicked; a second click takes it back.
handleDayClick(d) ==
  /\ Calendar
  /\ CellsWith(d) # {}
  /\ day' = IF day = d THEN Nothing ELSE d
  /\ UNCHANGED <<mobile, page, modal, loaded, averages, calls, asked, window, buttons, visits, history>>

-----------------------------------------------------------------------------
Next ==
  \/ \E s \in Streams : handleMarkerClickMobile(s) \/ handleMarkerClick(s)
  \/ ModalLink
  \/ CloseModal
  \/ handleCalendarGoBack
  \/ \E c \in calls, found \in BOOLEAN : StreamAnswer(c, found) \/ AveragesAnswer(c, found)
  \/ handleBackwardMovement
  \/ handleForwardMovement
  \/ \E d \in Days : handleDayClick(d)

Spec == Init /\ [][Next]_vars

-----------------------------------------------------------------------------
\* The calendar shows the averages of the stream in the URL and of no other, each day
\* in one cell.  Exceptions the code leaves open: averages of a page that was left
\* arrive on the next one (late).
CalendarShowsItsStream ==
  page # Nothing /\ ~late =>
    /\ averages.of \in {page, Nothing}
    /\ Calendar => \A d \in getVisibleMonthsData(averages.days, window) :
                      Cardinality(CellsWith(d)) = 1
    /\ day # Nothing => day \in AveragesOf[page]

\* Every average that was loaded can be brought into view: a button is disabled only
\* when there is nothing on its side.  The left one is not enabled again by a window
\* that is set anew (again), and the dates of another stream mislead both.
AveragesStayInReach ==
  Calendar /\ ~again /\ ~late /\ ~stale /\ loaded = page =>
    /\ left => \A d \in averages.days : window[1] <= d
    /\ right => \A d \in averages.days : d <= window[2]
    /\ calls = {} => averages.days = AveragesOf[page]
=============================================================================
