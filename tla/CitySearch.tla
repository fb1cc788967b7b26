----------------------------- MODULE CitySearch -----------------------------
(***************************************************************************)
(* The search for a place: suggestions while typing, places looked for     *)
(* recently, the browser's own location, and the city in the URL, which an *)
(* advertisement may bring along.                                          *)
(*                                                                         *)
(* Code: LocationSearch, useAutocompleteSuggestions, useRecentSearches,    *)
(* placeSelection, geolocation, geocodeAddress, cityPersistTimeout, and    *)
(* the city in Map.  The city stays in the URL only while the map is where *)
(* it is: every rest of the map takes it out, except as many of them as    *)
(* searches announced.  Sessions are asked for within the bounds that the  *)
(* URL has when a timer of 200 ms ends, wherever the map is by then; and   *)
(* what goes into the URL after an await goes on top of all that was in it *)
(* before.  Outside: Google's places, the map, the clocks.                 *)
(*                                                                         *)
(* A text finds the place of its name, or nothing; a place stands for its  *)
(* bounds.  Realtime updates of the map are off.                           *)
(***************************************************************************)
EXTENDS Integers, Sequences, SequencesExt, FiniteSets

CONSTANTS
  Places,
  Fixed,         \* those large countries and states whose bounds the code knows
  Nothing,
  capacity,      \* of the recent searches: 5
  MaxMoves       \* BOUND: what the user does

Elsewhere == "elsewhere"

SearchAssumption ==
  /\ Nothing \notin Places \cup {Elsewhere}
  /\ capacity \in Nat \ {0}

VARIABLES
  inputValue, input,  \* of the field, and of the suggestions
  selectedItem, justSelected,
  status, suggestions,
  debounce,      \* the timer runs
  requests, requestId,
  picks,         \* places whose details are under way, and what view was when asked
  recents,
  city,          \* of the URL
  map, moving,   \* where the map is, and where it was told to go
  pendingCount,
  handled,       \* lastHandledCityRef
  landing,       \* the city of the advertisement, being looked for or moved to
  view,          \* the bounds in the URL
  timers,        \* of 200 ms, running
  asked,         \* the bounds for which sessions were asked for last
  moves,
  byHand,        \* history: the text was typed, and did not come with an item
  excused        \* history

chosen == <<selectedItem, justSelected, byHand>>
typing == <<inputValue, input, status, suggestions, debounce, requests, requestId>>
sought == <<view, timers, asked>>
place == <<city, map, moving, pendingCount, handled, landing, sought>>
vars == <<typing, chosen, picks, recents, place, moves, excused>>

Empty == Nothing
NoLanding == [city |-> Nothing, step |-> "none", bounds |-> FALSE, view |-> Nothing]

Init ==
  /\ inputValue = Empty /\ input = Empty
  /\ selectedItem = Nothing /\ justSelected = FALSE /\ byHand = TRUE
  /\ status = "idle" /\ suggestions = Nothing
  /\ debounce = FALSE /\ requests = {} /\ requestId = 0
  /\ picks = {}
  /\ recents \in {<<>>} \cup {<<p>> : p \in Places}
  /\ city \in Places \cup {Nothing}
  /\ map = Elsewhere /\ moving = Nothing
  /\ pendingCount = 0
  /\ handled = Nothing
  /\ landing = NoLanding
  /\ view = Elsewhere /\ timers = 0
  /\ asked = IF city = Nothing THEN view ELSE Nothing
  /\ moves = 0
  /\ excused = {}

Acts == moves < MaxMoves /\ moves' = moves + 1

-----------------------------------------------------------------------------
(* Suggestions. *)

\* The effect of another text; what is under way stays under way.
setInput(text) ==
  /\ input' = text
  /\ IF text = input THEN UNCHANGED <<suggestions, status, debounce>>
     ELSE /\ debounce' = (text # Empty)
          /\ status' = IF text = Empty THEN "idle" ELSE "loading"
          /\ suggestions' = IF text = Empty THEN Nothing ELSE suggestions

Cleared(text) == IF text = Empty /\ requests # {} THEN {"cleared"} ELSE {}

\* The text that comes with an item that was selected is not searched for; the mark
\* of it waits for the next text if the field had that text already.
onInputValueChange(text) ==
  /\ justSelected' = FALSE
  /\ IF ~justSelected THEN setInput(text) /\ excused' = excused \cup Cleared(text)
     ELSE excused' = excused \cup {"ignored"} /\ UNCHANGED <<input, status, suggestions, debounce>>

Type(text) ==
  /\ text # inputValue
  /\ Acts
  /\ inputValue' = text
  /\ onInputValueChange(text)
  /\ byHand' = TRUE
  /\ UNCHANGED <<selectedItem, requests, requestId, picks, recents, place>>

handleClearInput ==
  /\ inputValue # Empty
  /\ Acts
  /\ inputValue' = Empty
  /\ setInput(Empty)
  /\ selectedItem' = Nothing
  /\ byHand' = TRUE
  /\ city' = Nothing
  /\ excused' = excused \cup Cleared(Empty)
  /\ UNCHANGED <<justSelected, requests, requestId, picks, recents, map, moving, pendingCount, handled, landing,
                 sought>>

DebounceEnds ==
  /\ debounce
  /\ debounce' = FALSE
  /\ requestId' = requestId + 1
  /\ requests' = requests \cup {[id |-> requestId + 1, text |-> input]}
  /\ UNCHANGED <<inputValue, input, status, suggestions, chosen, picks, recents, place, moves, excused>>

\* Mutant of SuggestionsArrive: an answer is taken whenever it comes.
SuggestionsArriveLate(r, found) ==
  /\ r \in requests
  /\ requests' = requests \ {r}
  /\ suggestions' = IF found = "ok" THEN r.text ELSE Nothing
  /\ status' = found
  /\ UNCHANGED <<inputValue, input, debounce, requestId, chosen, picks, recents, place, moves, excused>>

SuggestionsArrive(r, found) ==
  /\ r \in requests
  /\ requests' = requests \ {r}
  /\ IF r.id # requestId THEN UNCHANGED <<suggestions, status>>
     ELSE /\ suggestions' = IF found = "ok" THEN r.text ELSE Nothing
          /\ status' = found
  /\ UNCHANGED <<inputValue, input, debounce, requestId, chosen, picks, recents, place, moves, excused>>

-----------------------------------------------------------------------------
(* Going to a place. *)

\* Bounds of a place, if there are some: its viewport, or those the code knows.
determineZoomLevel(p, viewport) == viewport \/ p \in Fixed

\* First, and no longer where it was: it is there once at most.
addRecent(p) ==
  LET next == <<p>> \o RemoveFirst(recents, p)
  IN  recents' = SubSeq(next, 1, IF Len(next) < capacity THEN Len(next) ELSE capacity)

\* A map that is there already does not move, and so does not rest anew.
GoTo(p) == moving' = IF p = map THEN Nothing ELSE p

Unsettled == IF pendingCount > 0 \/ moving # Nothing THEN {"settling"} ELSE {}

\* v goes into the URL as its bounds, while the map is there.
WrittenBack(v, there) == IF v = there THEN {} ELSE {"stale"}

\* Mutant of applyMapNavigation: the sessions are asked for at once.
NavigationAsksAtOnce(p, v) ==
  /\ pendingCount' = pendingCount + 1
  /\ city' = p
  /\ view' = v
  /\ GoTo(p)
  /\ asked' = v
  /\ excused' = (excused \ {"stale"}) \cup Unsettled \cup WrittenBack(v, map)
  /\ UNCHANGED timers

\* City and place go into the URL, whose bounds were v, and the rest of the map to come
\* is announced.
applyMapNavigation(p, v) ==
  /\ pendingCount' = pendingCount + 1
  /\ city' = p
  /\ view' = v
  /\ GoTo(p)
  /\ timers' = timers + 1
  /\ excused' = (excused \ {"stale"}) \cup Unsettled \cup WrittenBack(v, map)
  /\ UNCHANGED asked

showingRecents == inputValue = Empty /\ recents # <<>>

\* The text of the field becomes the item's name.
Selected(p) ==
  /\ inputValue' = p
  /\ byHand' = FALSE
  /\ justSelected' = (p = inputValue)
  /\ UNCHANGED <<input, status, suggestions, debounce, requests, requestId>>

\* The one that was selected last is not selected again: only its name is typed.
SelectRecent(p) ==
  /\ showingRecents
  /\ p \in ToSet(recents)
  /\ Acts
  /\ selectedItem' = p
  /\ IF p = selectedItem
     THEN /\ inputValue' = p /\ byHand' = TRUE
          /\ onInputValueChange(p)
          /\ UNCHANGED <<requests, requestId, recents, city, moving, pendingCount, sought>>
     ELSE Selected(p) /\ applyMapNavigation(p, view) /\ addRecent(p)
  /\ UNCHANGED <<picks, map, handled, landing>>

selectSuggestion ==
  /\ ~showingRecents
  /\ status = "ok" /\ suggestions # Nothing /\ \A r \in picks : r.of # suggestions
  /\ Acts
  /\ Selected(suggestions)
  /\ selectedItem' = Nothing
  /\ picks' = picks \cup {[of |-> suggestions, view |-> view]}
  /\ UNCHANGED <<recents, place, excused>>

\* Its details, or failing them what its name is found as.
handleSelect(r) ==
  /\ r \in picks /\ r.of # Elsewhere
  /\ picks' = picks \ {r}
  /\ \/ UNCHANGED <<selectedItem, recents, place, excused>>
     \/ /\ applyMapNavigation(r.of, r.view)
        /\ addRecent(r.of)
        /\ selectedItem' = IF selectedItem = r.of THEN Nothing ELSE selectedItem
        /\ UNCHANGED <<map, handled, landing>>
  /\ UNCHANGED <<typing, justSelected, byHand, moves>>

clearRecents ==
  /\ showingRecents
  /\ Acts
  /\ recents' = <<>>
  /\ UNCHANGED <<typing, chosen, picks, place, excused>>

\* By the address of the computer: a place of no name.
getBrowserLocation == GoTo(Elsewhere)

handleBrowserLocation ==
  /\ Acts
  /\ picks' = picks \cup {[of |-> Elsewhere, view |-> view]}
  /\ UNCHANGED <<typing, chosen, recents, place, excused>>

\* The answer, if it knows.
Located(r) ==
  /\ r \in picks /\ r.of = Elsewhere
  /\ picks' = picks \ {r}
  /\ \/ UNCHANGED <<typing, byHand, place, excused>>
     \/ /\ inputValue' = Empty
        /\ setInput(Empty)
        /\ byHand' = TRUE
        /\ city' = Nothing
        /\ view' = r.view
        /\ getBrowserLocation
        /\ timers' = timers + 1
        /\ excused' = (excused \ {"stale"}) \cup Cleared(Empty) \cup Unsettled \cup WrittenBack(r.view, map)
        /\ UNCHANGED <<requests, requestId, map, pendingCount, handled, landing, asked>>
  /\ UNCHANGED <<selectedItem, justSelected, recents, moves>>

\* The sessions within the bounds of the URL are asked for: too early while the map is
\* on its way, as its own bounds come into the URL when it rests.
FetchTimerEnds ==
  /\ timers > 0
  /\ timers' = timers - 1
  /\ asked' = view
  /\ excused' = IF moving = Nothing THEN excused \ {"early", "moved"} ELSE excused \cup {"early"}
  /\ UNCHANGED <<typing, chosen, picks, recents, city, map, moving, pendingCount, handled, landing, view, moves>>

-----------------------------------------------------------------------------
(* The map rests. *)

\* One less is announced.
disarmCitySettle == pendingCount' = IF pendingCount > 0 THEN pendingCount - 1 ELSE 0

\* Mutant of handleMapIdle: the city stays.
IdleKeepingCity(there) ==
  /\ disarmCitySettle
  /\ city' = city
  /\ view' = there

\* The city goes unless a search announced the rest.
handleMapIdle(there) ==
  /\ disarmCitySettle
  /\ city' = IF pendingCount > 0 THEN city ELSE Nothing
  /\ view' = there

\* The URL of when the city was found in it comes back, with the bounds of its place, or
\* without the city if there are none.
restored == IF landing.bounds THEN landing.city ELSE landing.view

\* Asked for in the turn that makes v the bounds in the URL, sessions are within v or
\* within the bounds before it: React may render one change before the other.  Of the
\* excuses e those of earlier bounds are gone.
FetchWith(v, there, e) ==
  LET f == (e \ {"early", "moved", "stale"}) \cup WrittenBack(v, there)
  IN  /\ view' = v
      /\ \/ asked' = v /\ excused' = f
         \/ asked' = view /\ excused' = f \cup {"early"}

\* Once only, after the advertisement's move.
finalize(there, e) ==
  /\ disarmCitySettle
  /\ city' = IF landing.bounds THEN landing.city ELSE Nothing
  /\ FetchWith(restored, there, e)
  /\ landing' = NoLanding

\* e are the excuses so far.
Idle(there, e) ==
  /\ map' = there
  /\ moving' = Nothing
  /\ IF landing.step = "moving" THEN finalize(there, e)
     ELSE handleMapIdle(there) /\ excused' = e \ {"stale"} /\ UNCHANGED <<landing, asked>>
  /\ UNCHANGED <<typing, chosen, picks, recents, handled, timers>>

MapRests == moving # Nothing /\ Idle(moving, excused) /\ UNCHANGED moves

UserMoves ==
  /\ Acts
  /\ \E there \in {Elsewhere} \cup Places :
       there # map /\ Idle(there, excused \cup {"moved"} \cup Unsettled)

\* 10 s after the last one announced.
SettleTimeout ==
  /\ pendingCount > 0
  /\ pendingCount' = 0
  /\ excused' = IF moving = Nothing /\ landing = NoLanding THEN excused ELSE excused \cup {"settling"}
  /\ UNCHANGED <<typing, chosen, picks, recents, city, map, moving, handled, landing, sought, moves>>

-----------------------------------------------------------------------------
(* The city of an advertisement: a city in the URL that no search put there. *)

Lands ==
  /\ city \notin {Nothing, handled}
  /\ handled' = city
  /\ IF pendingCount > 0 THEN UNCHANGED <<pendingCount, landing>>
     ELSE /\ pendingCount' = pendingCount + 1
          /\ landing' = [city |-> city, step |-> "asked", bounds |-> FALSE, view |-> view]
  /\ UNCHANGED <<typing, chosen, picks, recents, city, map, moving, sought, moves, excused>>

\* It is found, and the map goes there.
Geocoded(viewport) ==
  /\ landing.step = "asked"
  /\ landing' = [landing EXCEPT !.step = "moving",
                                !.bounds = determineZoomLevel(landing.city, viewport)]
  /\ GoTo(landing.city)
  /\ excused' = IF map = landing.city \/ moving # Nothing THEN excused \cup {"settling"} ELSE excused
  /\ UNCHANGED <<typing, chosen, picks, recents, city, map, pendingCount, handled, sought, moves>>

\* It is not, but the browser's location is.
FellBack ==
  /\ landing.step = "asked"
  /\ landing' = [landing EXCEPT !.step = "moving"]
  /\ city' = landing.city
  /\ view' = landing.view
  /\ getBrowserLocation
  /\ excused' = (excused \ {"stale"}) \cup {"settling"} \cup WrittenBack(landing.view, map)
  /\ UNCHANGED <<typing, chosen, picks, recents, map, pendingCount, handled, timers, asked, moves>>

\* Neither is, and the city is given up.
NotFound ==
  /\ landing.step = "asked"
  /\ landing' = NoLanding
  /\ city' = Nothing
  /\ FetchWith(landing.view, map, IF moving = Nothing THEN excused ELSE excused \cup {"settling"})
  /\ UNCHANGED <<typing, chosen, picks, recents, map, moving, pendingCount, handled, timers, moves>>

Page ==
  \/ \E text \in Places \cup {Empty} : Type(text)
  \/ handleClearInput \/ DebounceEnds
  \/ \E r \in requests, found \in {"ok", "no_results", "error"} : SuggestionsArrive(r, found)
  \/ \E p \in Places : SelectRecent(p)
  \/ \E r \in picks : handleSelect(r) \/ Located(r)
  \/ selectSuggestion \/ clearRecents \/ handleBrowserLocation
  \/ FetchTimerEnds \/ MapRests \/ UserMoves \/ SettleTimeout
  \/ \E viewport \in BOOLEAN : Geocoded(viewport)
  \/ FellBack \/ NotFound

\* The effect of a city in the URL comes first.
Next == Lands \/ (city \in {Nothing, handled} /\ Page)

Spec == Init /\ [][Next]_vars

-----------------------------------------------------------------------------
Typed == ~debounce /\ requests = {} /\ excused \cap {"cleared", "ignored"} = {}
Settled ==
  /\ picks = {} /\ moving = Nothing /\ pendingCount = 0
  /\ landing.step # "asked" /\ city \in {Nothing, handled}
  /\ "settling" \notin excused

\* At rest the suggestions are those for the text that was typed, the city in the URL
\* is the one the map is at, the sessions that were asked for last are those of where
\* the map is, and the recent searches are few and each there once.
\* Exceptions to the first: a text cleared while its suggestions were under way; an item
\* selected whose name the field had already.  To the second and third: the map moved,
\* or another place gone to, before it had come to rest; a map that was at the
\* advertised city already; one sent to the browser's location for want of that city.
\* To the third: the map came to rest only after the 200 ms; the user moved it; bounds
\* from before an await came back into the URL; an advertisement's sessions were asked
\* for before its bounds were in the URL.
SearchIsSettled ==
  /\ Typed => suggestions \in {Nothing, input} /\ (byHand => input = inputValue)
  /\ Settled => city \in {Nothing, map}
  /\ Settled /\ timers = 0 /\ excused \cap {"early", "moved", "stale"} = {} => asked = map
  /\ Len(recents) =< capacity /\ IsInjective(recents)
=============================================================================
