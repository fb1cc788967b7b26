---------------------------- MODULE SessionLists ----------------------------
(***************************************************************************)
(* The sessions of the map and of its list: when they are fetched, page by *)
(* page, and what the URL remembers of it.                                 *)
(*                                                                         *)
(* Code: the fetch effects of Map, the slices of fixed, indoor and mobile  *)
(* sessions with their selectors, useHandleScrollEnd, the buttons that     *)
(* refresh the map, and the parameters limit, offset and fetchedSessions.  *)
(*                                                                         *)
(* A fetch runs in an effect, after the flag fetchingData was set; a slice *)
(* takes one request at a time.  What follows an answer writes the whole   *)
(* URL as it was when the request was made.                                *)
(***************************************************************************)
EXTENDS Integers, Sequences, FiniteSets

CONSTANTS
  Kinds,         \* the lists, of which the map shows one
  Queries,       \* the other filters, and the bounds of the map
  TotalOf,       \* sessions on the server, per list and query
  Limit,         \* sessions in a page
  MaxMoves       \* BOUND: what the user does

ListsAssumption ==
  /\ "mobile" \in Kinds /\ Kinds \subseteq {"mobile", "active", "dormant", "indoor"}
  /\ TotalOf \in [Kinds -> [Queries -> Nat]]
  /\ Limit \in Nat \ {0}

\* Indoor sessions are fetched by actions of the same names as the active fixed
\* ones: both slices take either answer.
SliceOf(k) == IF k = "mobile" THEN "mobile" ELSE "fixed"
TakenBy(k) == IF k \in {"active", "indoor"} THEN {"active", "indoor"} \cap Kinds ELSE {k}
Slices == {SliceOf(k) : k \in Kinds}

VARIABLES
  url,           \* the parameters of the page
  fetchingData, isFirstRender,
  realtime,      \* realtimeMapUpdates
  net,           \* the slices, and the requests under way
  due,           \* what changed since the last render
  moves,
  wanted,        \* history: what the last fetch was to bring,
  excused        \* and what went wrong since a fetch that brought it

history == <<wanted, excused>>
vars == <<url, fetchingData, isFirstRender, realtime, net, due, moves, history>>

Unset == 0

\* Requests of a page that was left are nothing to the new one.
Blank ==
  [lists |-> [k \in Kinds |-> <<>>],
   count |-> [s \in Slices |-> 0],        \* fetchableSessionsCount
   pending |-> {},                        \* slices with status Pending
   calls |-> {}]

Init ==
  /\ url \in [kind : Kinds, query : Queries, offset : {0}, fetched : {0}, limit : {Unset}]
  /\ fetchingData = TRUE /\ isFirstRender = TRUE
  /\ realtime = FALSE
  /\ net = Blank
  /\ due = {"flag"}
  /\ moves = 0
  /\ wanted = [kind |-> url.kind, query |-> url.query, size |-> Limit]
  /\ excused = {}

-----------------------------------------------------------------------------
(* Requests. *)

SizeOf(u) == IF u.limit = Unset THEN Limit ELSE u.limit
listSessions == net.lists[url.kind]

Call(k, offset, limit, more) ==
  [kind |-> k, query |-> url.query, offset |-> offset, limit |-> limit,
   more |-> more, at |-> url, length |-> Len(listSessions)]

UnderWay(s) == \E c \in net.calls : SliceOf(c.kind) = s

\* The condition of the thunks: a second request to a slice is dropped.
Dispatched(n, c) ==
  LET s == SliceOf(c.kind)
  IN  IF s \in n.pending THEN n
      ELSE [n EXCEPT !.pending = @ \cup {s}, !.calls = @ \cup {c}]

\* cleanSessions: the slice is as if it had never asked, but its requests are on
\* their way.  The indoor slice has nothing like it.
cleanSessions(n) ==
  [n EXCEPT !.lists = [k \in Kinds |-> IF k \in {"active", "dormant"} THEN <<>> ELSE @[k]],
            !.count = [s \in Slices |-> IF s = "fixed" THEN 0 ELSE @[s]],
            !.pending = @ \ {"fixed"}]

clearMobileSessions(n) ==
  [n EXCEPT !.lists = [k \in Kinds |-> IF k = "mobile" THEN <<>> ELSE @[k]],
            !.count = [s \in Slices |-> IF s = "mobile" THEN 0 ELSE @[s]]]

\* The first time as many mobile sessions as there were before the page was loaded
\* again; afterwards only when told to.
Restores == isFirstRender /\ url.fetched > 0 /\ url.kind = "mobile"
sizeToFetch == IF Restores THEN url.fetched ELSE SizeOf(url)
Fetched(n) ==
  IF fetchingData \/ isFirstRender
  THEN Dispatched(n, Call(url.kind, url.offset, sizeToFetch, FALSE))
  ELSE n

\* With updates in real time the fixed sessions go when the bounds change, after the
\* effect that fetches, and are fetched in the next render.
Cleans == realtime /\ due \cap {"bounds", "realtime"} # {}
Cleaned(n) ==
  IF Cleans THEN cleanSessions(IF "realtime" \in due THEN clearMobileSessions(n) ELSE n) ELSE n

Render ==
  /\ due # {}
  /\ net' = Cleaned(Fetched(net))
  /\ url' = IF Restores THEN [url EXCEPT !.limit = url.fetched] ELSE url
  /\ fetchingData' = Cleans
  /\ isFirstRender' = FALSE
  /\ due' = (IF Cleans THEN {"flag"} ELSE {}) \cup (IF Restores THEN {"url"} ELSE {})
  /\ IF fetchingData \/ isFirstRender
     THEN /\ wanted' = [kind |-> url.kind, query |-> url.query, size |-> sizeToFetch]
          /\ excused' = IF SliceOf(url.kind) \in net.pending THEN excused \cup {"dropped"}
                        ELSE IF UnderWay(SliceOf(url.kind)) THEN excused \cup {"twice"}
                        ELSE IF url.offset = 0 THEN {} ELSE excused \cup {"offset"}
     ELSE UNCHANGED history
  /\ UNCHANGED <<realtime, moves>>

-----------------------------------------------------------------------------
(* Answers. *)

Least(a, b) == IF a < b THEN a ELSE b

\* Sessions are numbered in the server's order.
Served(c) ==
  LET last == Least(c.offset + c.limit, TotalOf[c.kind][c.query])
  IN  [i \in 1..(last - c.offset) |-> <<c.kind, c.query, c.offset + i>>]

\* Mutant of Stored: a further page replaces the list.
StoredAnew(c, sessions) ==
  [net EXCEPT !.lists = [k \in Kinds |-> IF k \in TakenBy(c.kind) THEN sessions ELSE @[k]],
              !.count = [@ EXCEPT ![SliceOf(c.kind)] = TotalOf[c.kind][c.query]],
              !.pending = @ \ {SliceOf(c.kind)},
              !.calls = @ \ {c}]

Stored(c, sessions) ==
  [net EXCEPT !.lists = [k \in Kinds |-> IF k \notin TakenBy(c.kind) THEN @[k]
                                         ELSE IF c.more THEN @[k] \o sessions ELSE sessions],
              !.count = [@ EXCEPT ![SliceOf(c.kind)] = TotalOf[c.kind][c.query]],
              !.pending = @ \ {SliceOf(c.kind)},
              !.calls = @ \ {c}]

\* What updateFetchedSessions, and updateLimit before it, make of the URL: it is the
\* one of the render the request was made in.
UrlAfter(c, sessions) ==
  IF c.more THEN [c.at EXCEPT !.fetched = c.length + Len(sessions)]
  ELSE IF c.kind # "mobile" THEN url
  ELSE [c.at EXCEPT !.fetched = IF c.limit = c.at.fetched THEN @ ELSE Len(sessions)]

SameFilters(u, v) == u.kind = v.kind /\ u.query = v.query

Answer(c) ==
  /\ c \in net.calls
  /\ net' = Stored(c, Served(c))
  /\ url' = UrlAfter(c, Served(c))
  /\ due' = IF url' = url THEN {} ELSE IF url'.query = url.query THEN {"url"} ELSE {"bounds"}
  /\ excused' = excused \cup (IF SameFilters(url', url) THEN {} ELSE {"stale"})
                        \cup (IF (c.more \/ c.kind = "mobile") /\ c.at.offset > 0 THEN {"offset"} ELSE {})
                        \cup (IF c.more /\ ~SameFilters(c.at, wanted) THEN {"mixed"} ELSE {})
  /\ UNCHANGED <<fetchingData, isFirstRender, realtime, moves, wanted>>

\* The offset of a page that failed stays in the URL.
Fails(c) ==
  /\ c \in net.calls
  /\ net' = [net EXCEPT !.pending = @ \ {SliceOf(c.kind)}, !.calls = @ \ {c}]
  /\ excused' = excused \cup {"failed"}
  /\ UNCHANGED <<url, fetchingData, isFirstRender, realtime, due, moves, wanted>>

-----------------------------------------------------------------------------
(* The user. *)

Acts == moves < MaxMoves /\ moves' = moves + 1

\* A filter is written to the URL, and the sessions are to be fetched.
setFilter(k, q) ==
  /\ Acts
  /\ url' = [url EXCEPT !.kind = k, !.query = q]
  /\ fetchingData' = TRUE
  /\ due' = {"flag"} \cup (IF q = url.query THEN {} ELSE {"bounds"})
  /\ UNCHANGED <<isFirstRender, realtime, net, history>>

\* The map was moved: only its bounds are written.
handleMapIdle(q) ==
  /\ Acts
  /\ url' = [url EXCEPT !.query = q]
  /\ due' = IF q = url.query THEN {} ELSE {"bounds"}
  /\ UNCHANGED <<fetchingData, isFirstRender, realtime, net, history>>

RefreshMap ==
  /\ Acts
  /\ net' = cleanSessions(clearMobileSessions(net))
  /\ fetchingData' = TRUE
  /\ due' = {"flag"}
  /\ UNCHANGED <<url, isFirstRender, realtime, history>>

setRealtimeMapUpdates ==
  /\ Acts
  /\ realtime' = ~realtime
  /\ due' = {"realtime"}
  /\ UNCHANGED <<url, fetchingData, isFirstRender, net, history>>

\* At the end of the list more are fetched, from where the list ends: mobile ones
\* whatever the list is, and dormant ones if it is theirs.
hasMoreSessions == Len(listSessions) < net.count["mobile"]
hasMoreDormantSessions ==
  url.kind = "dormant" /\ Len(listSessions) < net.count["fixed"]

handleScrollEnd ==
  /\ hasMoreSessions \/ hasMoreDormantSessions
  /\ Acts
  /\ LET newOffset == url.offset + Len(listSessions)
         mobile == IF hasMoreSessions
                   THEN Dispatched(net, Call("mobile", newOffset, SizeOf(url), TRUE)) ELSE net
     IN  /\ url' = [url EXCEPT !.offset = newOffset]
         /\ net' = IF hasMoreDormantSessions
                   THEN Dispatched(mobile, Call("dormant", newOffset, SizeOf(url), TRUE)) ELSE mobile
         /\ excused' = IF net.pending = {} THEN excused ELSE excused \cup {"dropped"}
  /\ due' = {"url"}
  /\ UNCHANGED <<fetchingData, isFirstRender, realtime, wanted>>

\* The page is loaded again: the URL is all that is left.
Reload ==
  /\ Acts
  /\ net' = Blank
  /\ fetchingData' = TRUE /\ isFirstRender' = TRUE
  /\ realtime' = FALSE
  /\ due' = {"flag"}
  /\ UNCHANGED <<url, history>>

-----------------------------------------------------------------------------
\* React renders before anything else happens.
User ==
  \/ \E k \in Kinds, q \in Queries : setFilter(k, q)
  \/ \E q \in Queries : handleMapIdle(q)
  \/ RefreshMap
  \/ setRealtimeMapUpdates
  \/ handleScrollEnd
  \/ Reload

Next == Render \/ (due = {} /\ (User \/ \E c \in net.calls : Answer(c) \/ Fails(c)))

Spec == Init /\ [][Next]_vars

-----------------------------------------------------------------------------
Quiet == due = {} /\ net.calls = {}

\* With nothing under way the list is what was asked for last: its sessions from the
\* first one on, each once, as many as were asked for at least, and the URL says how many
\* there are for when the page is loaded again.  What the code leaves open until the
\* next fetch from the first session on is named in excused.
ListIsWhatWasAskedFor ==
  Quiet /\ excused = {} =>
    LET total == TotalOf[wanted.kind][wanted.query]
    IN  /\ listSessions = [i \in 1..Len(listSessions) |-> <<wanted.kind, wanted.query, i>>]
        /\ Len(listSessions) \in Least(wanted.size, total)..total
        /\ url.kind = "mobile" => url.fetched >= Len(listSessions)
=============================================================================
