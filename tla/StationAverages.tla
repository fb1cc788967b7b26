--------------------------- MODULE StationAverages ---------------------------
(***************************************************************************)
(* Daily averages of station streams, kept beside the station import.      *)
(*                                                                         *)
(* Code: GovernmentSources::StationStreamDailyAveragesCalculator and       *)
(* Rebuilder, StationsUpserter, StationStreamsUpdater, StationStreamFilter *)
(* and Creator, their Repository, Epa::Stations::Interactor, the workers.  *)
(*                                                                         *)
(* A day is a day of the stream's time zone, so an import that moves a     *)
(* station moves every boundary; the calculator redoes recent days of      *)
(* streams lately updated, the rebuilder the whole history of a stream.    *)
(*                                                                         *)
(* One action is one SQL statement or transaction, one read that is used   *)
(* later, or one perform_async.  A statement reads what it writes.         *)
(*                                                                         *)
(* Data abstraction.  One site with all its streams.  Its point stands for *)
(* its row of the site list; the zone is a function of the point.  An      *)
(* average is the set of measurements it was taken of.                     *)
(***************************************************************************)
EXTENDS Integers, FiniteSetsExt

CONSTANTS
  Streams,      \* the streams the site list has for the site
  Points,       \* where the list may place the site
  Nowhere,      \* the point of a station or stream that is not stored
  ZoneAt,       \* TimeZoneFinder: the zone of a point
  Offset,       \* instants a zone is ahead of UTC
  DayLength,    \* instants of a day
  Lookback,     \* DEFAULT_LOOKBACK_DAYS
  Imports,      \* runs of the import, one after the other
  Calculators,  \* runs of the calculator that may overlap
  Rebuilds,     \* BOUND: rebuild jobs pushed
  Start,        \* the instant the model starts at
  End,          \* BOUND: the last instant
  MaxVersion,   \* BOUND: corrections of a measurement
  MaxFaults     \* BOUND: exceptions and kills of jobs

Instants == 1..End
Zones == {ZoneAt[p] : p \in Points}

\* The local day of a measurement; at local midnight it is the day before.
Day(t, z) == (t + Offset[z] - 1) \div DayLength
Days == {Day(t, z) : t \in Instants, z \in Zones}
BeginningOfDay(t, z) == t - ((t + Offset[z]) % DayLength)

AveragesAssumption ==
  /\ Nowhere \notin Points
  /\ ZoneAt \in [Points -> DOMAIN Offset]
  /\ \A z \in Zones : Offset[z] \in Nat
  /\ DayLength \in Nat \ {0} /\ Lookback \in Nat \ {0}
  /\ Imports \subseteq Nat /\ Rebuilds \subseteq Nat
  /\ End \in Nat /\ Start \in Instants

VARIABLES
  now,
  station,   \* stations.location, Nowhere until the site is stored
  point,     \* station_streams.location; Nowhere: no such stream yet
  measured,  \* station_measurements: version of the value, 0 for none
  fresh,     \* updated_at: "new" no run that began since is through, "recent" or "old"
  daily,     \* station_stream_daily_averages: what the average of a day is of
  ipc,       \* where each import is
  row,       \* the point in the list it fetched
  changes,   \* streams it is about to update
  rezoned,   \* those of them whose zone changes
  cpc,       \* where each calculator is
  todo,      \* its groups of streams by time zone
  picked,    \* the streams it read that are as it read them
  rpc,       \* where each rebuild job is
  asked,     \* the streams it is for
  groups,    \* its groups of streams by time zone
  open,      \* the group whose transaction is open, if any
  doomed,    \* the rows that transaction has deleted
  misled,    \* HISTORY: streams last averaged by a zone or a history no longer theirs
  faults

importing == <<ipc, row, changes, rezoned>>
calculating == <<cpc, todo, picked>>
rebuilding == <<rpc, asked, groups, open, doomed>>
streams == <<point, fresh>>
vars == <<now, station, streams, measured, daily, importing, calculating,
          rebuilding, misled, faults>>

Stored == {s \in Streams : point[s] # Nowhere}
Zone(s) == ZoneAt[point[s]]

Init ==
  /\ now = Start
  /\ station = Nowhere
  /\ point = [s \in Streams |-> Nowhere]
  /\ measured = [s \in Streams |-> [t \in Instants |-> 0]]
  /\ fresh = [s \in Streams |-> "old"]
  /\ daily = [s \in Streams |-> [d \in Days |-> {}]]
  /\ ipc = [i \in Imports |-> "idle"]
  /\ row = [i \in Imports |-> Nowhere]
  /\ changes = [i \in Imports |-> {}]
  /\ rezoned = [i \in Imports |-> {}]
  /\ cpc = [c \in Calculators |-> "idle"]
  /\ todo = [c \in Calculators |-> {}]
  /\ picked = [c \in Calculators |-> {}]
  /\ rpc = [r \in Rebuilds |-> "none"]
  /\ asked = [r \in Rebuilds |-> {}]
  /\ groups = [r \in Rebuilds |-> {}]
  /\ open = [r \in Rebuilds |-> {}]
  /\ doomed = [r \in Rebuilds |-> {}]
  /\ misled = {}
  /\ faults = 0

-----------------------------------------------------------------------------
(* The two statements both jobs are made of. *)

\* WITH daily: the rows after since that belong to a day.
RowsAt(s, times) == {<<t, measured[s][t]>> : t \in times}
DailyRows(s, z, since, d) ==
  RowsAt(s, {t \in Instants : measured[s][t] # 0 /\ t > since /\ Day(t, z) = d})

Averaged(group, since) ==
  {entry \in group.streams \X Days : DailyRows(entry[1], group.zone, since, entry[2]) # {}}

\* upsert_station_stream_daily_averages, after a delete of the given rows.
UpsertDaily(group, since, deleted) ==
  daily' = [s \in Streams |-> [d \in Days |->
    IF <<s, d>> \in Averaged(group, since) THEN DailyRows(s, group.zone, since, d)
    ELSE IF <<s, d>> \in deleted THEN {} ELSE daily[s][d]]]

\* Streams averaged in a zone that an import has changed since it was read.
OldZone(group) == {s \in group.streams : Zone(s) # group.zone}

GroupByZone(ss) ==
  {[zone |-> z, streams |-> {s \in ss : Zone(s) = z}] : z \in {Zone(s) : s \in ss}}

\* updated_at of some streams moves: no run under way counts for them.
Touch(ss) ==
  /\ fresh' = [s \in Streams |-> IF s \in ss THEN "new" ELSE fresh[s]]
  /\ picked' = [c \in Calculators |-> picked[c] \ ss]
  /\ UNCHANGED <<cpc, todo>>

-----------------------------------------------------------------------------
(* The import. *)

\* The list is fetched, in which AirNow may have moved the site, and the station
\* read; the cron starts one import an hour.
FetchList(i) ==
  /\ ipc[i] = "idle"
  /\ \A j \in Imports : j < i => ipc[j] \in {"done", "dead"}
  /\ \E p \in Points : row' = [row EXCEPT ![i] = p]
  /\ ipc' = [ipc EXCEPT ![i] = "upserting"]
  /\ UNCHANGED <<now, station, streams, measured, daily, changes, rezoned,
                 calculating, rebuilding, misled, faults>>

\* Mutant of Changed: the streams of a station that this import moves.
MovedNow(p) == {s \in Stored : station # p}

\* StationStreamsUpdater: streams that are not where the list has them.
Changed(p) == {s \in Stored : point[s] # p}
Rezoned(p) == {s \in Changed(p) : Zone(s) # ZoneAt[p]}

\* StationsUpserter: a changed site is written.  The streams are read after that;
\* only imports write what is read of them.
UpsertStation(i) ==
  /\ ipc[i] = "upserting"
  /\ station' = row[i]
  /\ changes' = [changes EXCEPT ![i] = Changed(row[i])]
  /\ rezoned' = [rezoned EXCEPT ![i] = Rezoned(row[i])]
  /\ ipc' = [ipc EXCEPT ![i] = "updating"]
  /\ UNCHANGED <<now, streams, measured, daily, row, calculating, rebuilding, misled,
                 faults>>

UpdateStreams(i) ==
  /\ ipc[i] = "updating"
  /\ point' = [s \in Streams |-> IF s \in changes[i] THEN row[i] ELSE point[s]]
  /\ Touch(changes[i])
  /\ ipc' = [ipc EXCEPT ![i] = "pushing"]
  /\ UNCHANGED <<now, station, measured, daily, row, changes, rezoned,
                 rebuilding, misled, faults>>

Unpushed == {r \in Rebuilds : rpc[r] = "none"}

\* Its last statement before the new streams: the rebuild is pushed.
PushRebuild(i) ==
  /\ ipc[i] = "pushing"
  /\ IF rezoned[i] = {}
       THEN UNCHANGED rebuilding
       ELSE /\ Unpushed # {}
            /\ rpc' = [rpc EXCEPT ![Min(Unpushed)] = "queued"]
            /\ asked' = [asked EXCEPT ![Min(Unpushed)] = rezoned[i]]
            /\ UNCHANGED <<groups, open, doomed>>
  /\ rezoned' = [rezoned EXCEPT ![i] = {}]
  /\ changes' = [changes EXCEPT ![i] = {}]
  /\ ipc' = [ipc EXCEPT ![i] = "creating"]
  /\ UNCHANGED <<now, station, streams, measured, daily, row, calculating,
                 misled, faults>>

\* StationStreamFilter and Creator: streams that are not there are inserted.
CreateStreams(i) ==
  /\ ipc[i] = "creating"
  /\ point' = [s \in Streams |-> IF s \in Stored THEN point[s] ELSE row[i]]
  /\ Touch(Streams \ Stored)
  /\ ipc' = [ipc EXCEPT ![i] = "done"]
  /\ UNCHANGED <<now, station, measured, daily, row, changes, rezoned,
                 rebuilding, misled, faults>>

\* Its worker's one retry, should it come, is the next import.
FailImport(i) ==
  /\ ipc[i] \notin {"idle", "done", "dead"}
  /\ faults < MaxFaults
  /\ faults' = faults + 1
  /\ ipc' = [ipc EXCEPT ![i] = "dead"]
  /\ changes' = [changes EXCEPT ![i] = {}]
  /\ rezoned' = [rezoned EXCEPT ![i] = IF ipc[i] = "pushing" THEN @ ELSE {}]
  /\ UNCHANGED <<now, station, streams, measured, daily, row, calculating,
                 rebuilding, misled>>

-----------------------------------------------------------------------------
(* The calculator. *)

ReadRecent(c) ==
  LET recent == {s \in Stored : fresh[s] # "old"}
  IN  /\ cpc[c] = "idle"
      /\ recent # {}
      /\ todo' = [todo EXCEPT ![c] = GroupByZone(recent)]
      /\ picked' = [picked EXCEPT ![c] = recent]
      /\ cpc' = [cpc EXCEPT ![c] = "averaging"]
      /\ UNCHANGED <<now, station, streams, measured, daily, importing,
                     rebuilding, misled, faults>>

RecentSince(z) == BeginningOfDay(now - Lookback * DayLength, z)

\* One statement for each zone; it waits for rows a rebuild has deleted.
Average(c, group) ==
  /\ cpc[c] = "averaging"
  /\ group \in todo[c]
  /\ \A r \in Rebuilds : doomed[r] \cap Averaged(group, RecentSince(group.zone)) = {}
  /\ UpsertDaily(group, RecentSince(group.zone), {})
  /\ misled' = misled \cup OldZone(group)
  /\ todo' = [todo EXCEPT ![c] = @ \ {group}]
  /\ UNCHANGED <<now, station, streams, measured, importing, cpc, picked,
                 rebuilding, faults>>

FinishAverages(c) ==
  /\ cpc[c] = "averaging"
  /\ todo[c] = {}
  /\ fresh' = [s \in Streams |-> IF s \in picked[c] THEN "recent" ELSE fresh[s]]
  /\ picked' = [picked EXCEPT ![c] = {}]
  /\ cpc' = [cpc EXCEPT ![c] = "idle"]
  /\ UNCHANGED <<now, station, point, measured, daily, importing, todo,
                 rebuilding, misled, faults>>

\* The run is over half way; another follows within the hour.
FailCalculator(c) ==
  /\ cpc[c] # "idle"
  /\ faults < MaxFaults
  /\ faults' = faults + 1
  /\ cpc' = [cpc EXCEPT ![c] = "idle"]
  /\ todo' = [todo EXCEPT ![c] = {}]
  /\ picked' = [picked EXCEPT ![c] = {}]
  /\ UNCHANGED <<now, station, streams, measured, daily, importing, rebuilding,
                 misled>>

-----------------------------------------------------------------------------
(* The rebuilder. *)

\* StationStreams by zone, with their first_measured_at.
ReadHistory(r) ==
  /\ rpc[r] = "queued"
  /\ groups' = [groups EXCEPT ![r] =
       {[zone |-> g.zone, streams |-> g.streams,
         first |-> {t \in Instants : \E s \in g.streams : measured[s][t] # 0}] :
           g \in GroupByZone(asked[r])}]
  /\ rpc' = [rpc EXCEPT ![r] = "rebuilding"]
  /\ UNCHANGED <<now, station, streams, measured, daily, importing, calculating,
                 asked, open, doomed, misled, faults>>

\* Mutant of Deletable: the upsert alone.
DeletableNever(group) == {}

Deletable(group) == {entry \in group.streams \X Days : daily[entry[1]][entry[2]] # {}}

\* A group's transaction: its rows are deleted; nobody else sees that yet, and
\* who is to write one of them waits.  A delete that waits is taken to begin anew:
\* it then also deletes what the other inserted, which PostgreSQL would leave to
\* the upsert; they differ only if the other went by a zone no longer theirs.
DeleteHistory(r, group) ==
  /\ rpc[r] = "rebuilding"
  /\ open[r] = {}
  /\ group \in groups[r]
  /\ \A q \in Rebuilds : doomed[q] \cap Deletable(group) = {}
  /\ open' = [open EXCEPT ![r] = {group}]
  /\ doomed' = [doomed EXCEPT ![r] = Deletable(group)]
  /\ UNCHANGED <<now, station, streams, measured, daily, importing, calculating,
                 rpc, asked, groups, misled, faults>>

\* From a day before the first measurement; without one, nothing is averaged.
HistorySince(group) ==
  IF group.first = {} THEN End ELSE BeginningOfDay(Min(group.first) - DayLength, group.zone)

\* Streams whose first measurement came after the job had read of none.
SinceBegun(group) ==
  {s \in group.streams : group.first = {} /\ \E t \in Instants : measured[s][t] # 0}

\* Streams all of whose averages it has deleted are none of the misled ones.
Healed(r, group) ==
  {s \in group.streams : \A d \in Days : daily[s][d] # {} => <<s, d>> \in doomed[r]}

\* The averages are inserted, and the transaction commits.
InsertHistory(r, group) ==
  /\ group \in open[r]
  /\ \A q \in Rebuilds \ {r} : doomed[q] \cap Averaged(group, HistorySince(group)) = {}
  /\ UpsertDaily(group, HistorySince(group), doomed[r])
  /\ misled' = (misled \ Healed(r, group)) \cup OldZone(group) \cup SinceBegun(group)
  /\ open' = [open EXCEPT ![r] = {}]
  /\ doomed' = [doomed EXCEPT ![r] = {}]
  /\ groups' = [groups EXCEPT ![r] = @ \ {group}]
  /\ rpc' = [rpc EXCEPT ![r] = IF groups[r] = {group} THEN "done" ELSE @]
  /\ UNCHANGED <<now, station, streams, measured, importing, calculating, asked,
                 faults>>

\* An exception rolls the transaction back and the job runs again; a killed job
\* does not.
FailRebuild(r) ==
  /\ rpc[r] \in {"queued", "rebuilding"}
  /\ faults < MaxFaults
  /\ faults' = faults + 1
  /\ \E where \in {"queued", "dead"} : rpc' = [rpc EXCEPT ![r] = where]
  /\ groups' = [groups EXCEPT ![r] = {}]
  /\ open' = [open EXCEPT ![r] = {}]
  /\ doomed' = [doomed EXCEPT ![r] = {}]
  /\ UNCHANGED <<now, station, streams, measured, daily, importing, calculating,
                 asked, misled>>

-----------------------------------------------------------------------------
(* The neighbours. *)

\* A loader stores or corrects a measurement of the last day.
LoadMeasurement(s, t) ==
  /\ s \in Stored
  /\ t > now - DayLength /\ t <= now
  /\ measured[s][t] < MaxVersion
  /\ measured' = [measured EXCEPT ![s][t] = @ + 1]
  /\ Touch({s})
  /\ UNCHANGED <<now, station, point, daily, importing, rebuilding, misled,
                 faults>>

Quiet ==
  /\ \A i \in Imports : ipc[i] \in {"idle", "done", "dead"}
  /\ \A c \in Calculators : cpc[c] = "idle"
  /\ \A r \in Rebuilds : rpc[r] \in {"none", "done", "dead"}

Calculated == \A s \in Streams : fresh[s] # "new"

\* Hours pass.  The calculator runs twice an hour, so none does without a run
\* over everything that was touched before; no job is as slow as that.
Tick ==
  /\ Quiet /\ Calculated
  /\ now < End
  /\ now' = now + 1
  /\ fresh' = [s \in Streams |-> "old"]
  /\ UNCHANGED <<station, point, measured, daily, importing, calculating,
                 rebuilding, misled, faults>>

-----------------------------------------------------------------------------
Import(i) ==
  \/ FetchList(i)
  \/ UpsertStation(i)
  \/ UpdateStreams(i)
  \/ PushRebuild(i)
  \/ CreateStreams(i)
Calculate(c) ==
  \/ ReadRecent(c)
  \/ \E group \in todo[c] : Average(c, group)
  \/ FinishAverages(c)
Rebuild(r) ==
  \/ ReadHistory(r)
  \/ \E group \in groups[r] : DeleteHistory(r, group)
  \/ \E group \in open[r] : InsertHistory(r, group)

Next ==
  \/ \E i \in Imports : Import(i) \/ FailImport(i)
  \/ \E c \in Calculators : Calculate(c) \/ FailCalculator(c)
  \/ \E r \in Rebuilds : Rebuild(r) \/ FailRebuild(r)
  \/ \E s \in Streams, t \in Instants : LoadMeasurement(s, t)
  \/ Tick

Spec == Init /\ [][Next]_vars

-----------------------------------------------------------------------------
(* Properties. *)

\* A stream whose rebuild was never pushed, or died.
Lost ==
  (UNION {rezoned[i] : i \in {j \in Imports : ipc[j] = "dead"}}) \cup
  (UNION {asked[r] : r \in {q \in Rebuilds : rpc[q] = "dead"}})

True(s, d) == RowsAt(s, {t \in Instants : measured[s][t] # 0 /\ Day(t, Zone(s)) = d})

\* However imports, calculators, rebuilds and loads interleave and fail, the
\* averages of a stream are in the end those of its days in its zone, no date more
\* and none less, unless a job went by what it had read before and none has rebuilt
\* all of them since.  Of a stream whose rebuild was lost, the days that the last
\* calculation looked back on are still averaged, each as a whole day.
LookedBackOn(s) ==
  IF fresh[s] # "recent" THEN {}
  ELSE {d \in Days : d >= Day(RecentSince(Zone(s)) + 1, Zone(s)) /\ True(s, d) # {}}

AveragesAreTrue ==
  Quiet /\ Calculated =>
    \A s \in Stored \ misled :
      \A d \in IF s \in Lost THEN LookedBackOn(s) ELSE Days : daily[s][d] = True(s, d)

\* An import that is through has every stream of the site where its station is,
\* whatever the imports before it left half done.
StreamsSitAtTheirStation ==
  \A i \in Imports :
    ipc[i] = "done" /\ (\A j \in Imports : j > i => ipc[j] = "idle") =>
      \A s \in Streams : point[s] = station
=============================================================================
