----------------------------- MODULE Government -----------------------------
(***************************************************************************)
(* The jobs of government data: the daily averages of station streams and  *)
(* the ingest of the EEA.  They share no rows, so a behaviour is one part, *)
(* under bounds of its own: this checks and proves about each of them as   *)
(* if it ran alone.                                                        *)
(*                                                                         *)
(* Variables of the same name are shared, since one part alone uses them;  *)
(* the others keep one value meanwhile.                                    *)
(***************************************************************************)
EXTENDS Integers

CONSTANTS
  Nothing,        \* the value of the variables of the other part
  AveragesParts,  \* parts that are about the averages
  EeaParts,       \* parts that are about the EEA
  Bounds,         \* BOUND: what of the sets below a part has, and how many faults and versions
  MaxVersion,     \* BOUND: corrections of a measurement
  MaxFaults,      \* BOUND: exceptions, restarts and kills of jobs
  \* StationAverages
  Streams, Points, Nowhere, ZoneAt, Offset, DayLength, Lookback, Imports, Calculators,
  Rebuilds, Start, End,
  \* EeaIngest
  Batches, Times, MaxCopies

VARIABLES
  part,
  now, point, measured, fresh, daily, ipc, row, changes, rezoned, cpc, todo, picked, rpc,
  asked, groups, open, doomed, misled,
  published, orchestrator, status, zip, files, raw, ingested, transformed, fixed, pc,
  retried, seen, held, overtaken,
  station, faults

Averages == INSTANCE StationAverages
Eea == INSTANCE EeaIngest

ASSUME GovernmentConstants ==
  /\ Averages!AveragesAssumption
  /\ Eea!EeaAssumption
  /\ AveragesParts \cap EeaParts = {}

-----------------------------------------------------------------------------
(* One part at a time. *)

AveragesWithin ==
  /\ faults <= Bounds[part].faults
  /\ \A r \in Rebuilds \ Bounds[part].rebuilds : rpc[r] = "none"
  /\ \A s \in Streams, t \in Averages!Instants : measured[s][t] <= Bounds[part].versions
EeaWithin ==
  /\ faults <= Bounds[part].faults
  /\ \A b \in Batches \ Bounds[part].batches : orchestrator[b] = "idle"
  /\ \A t \in Times :
       published[t] <= (IF t \in Bounds[part].times THEN Bounds[part].versions ELSE 0)

EeaIdle ==
  /\ published = Nothing /\ orchestrator = Nothing /\ status = Nothing
  /\ zip = Nothing /\ files = Nothing /\ raw = Nothing /\ ingested = Nothing
  /\ transformed = Nothing /\ fixed = Nothing /\ pc = Nothing /\ retried = Nothing
  /\ seen = Nothing /\ held = Nothing /\ overtaken = Nothing
AveragesIdle ==
  /\ now = Nothing /\ point = Nothing /\ measured = Nothing /\ fresh = Nothing
  /\ daily = Nothing /\ ipc = Nothing /\ row = Nothing /\ changes = Nothing
  /\ rezoned = Nothing /\ cpc = Nothing /\ todo = Nothing /\ picked = Nothing
  /\ rpc = Nothing /\ asked = Nothing /\ groups = Nothing /\ open = Nothing
  /\ doomed = Nothing /\ misled = Nothing

GovernmentInit ==
  \/ part \in AveragesParts /\ Averages!Init /\ AveragesWithin /\ EeaIdle
  \/ part \in EeaParts /\ Eea!Init /\ EeaWithin /\ AveragesIdle

EeaStays ==
  UNCHANGED <<published, orchestrator, status, zip, files, raw, ingested, transformed,
              fixed, pc, retried, seen, held, overtaken>>
AveragesStay ==
  UNCHANGED <<now, point, measured, fresh, daily, ipc, row, changes, rezoned, cpc, todo,
              picked, rpc, asked, groups, open, doomed, misled>>

AveragesPart ==
  /\ part \in AveragesParts /\ UNCHANGED part /\ EeaStays
  /\ Averages!Next
  /\ AveragesWithin'
EeaPart ==
  /\ part \in EeaParts /\ UNCHANGED part /\ AveragesStay
  /\ Eea!Next
  /\ EeaWithin'

GovernmentNext == AveragesPart \/ EeaPart

all ==
  <<part, now, point, measured, fresh, daily, ipc, row, changes, rezoned, cpc, todo,
    picked, rpc, asked, groups, open, doomed, misled, published, orchestrator, status,
    zip, files, raw, ingested, transformed, fixed, pc, retried, seen, held, overtaken,
    station, faults>>

GovernmentSpec == GovernmentInit /\ [][GovernmentNext]_all

-----------------------------------------------------------------------------
(* The properties of the models, each stated in its module. *)

\* The averages of a stream are those of its days in its zone.
AveragesAreTrue == part \in AveragesParts => Averages!AveragesAreTrue

\* The streams of a site are where its station is.
StreamsSitAtTheirStation == part \in AveragesParts => Averages!StreamsSitAtTheirStation

\* A batch of the EEA completes or fails, or one of its jobs was lost.
BatchesSettle == part \in EeaParts => Eea!BatchesSettle

\* The newest copy of a measurement is kept and stored, however batches overlap.
NewestCopyIsStored == part \in EeaParts => Eea!NewestCopyIsStored
=============================================================================
