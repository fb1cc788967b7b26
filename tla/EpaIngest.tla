------------------------------ MODULE EpaIngest ------------------------------
(***************************************************************************)
(* The EPA (AirNow) ingest: cycles of Sidekiq jobs that extract and        *)
(* transform one file per hour and, behind a barrier, load one batch per   *)
(* measurement type.                                                       *)
(*                                                                         *)
(* Code: Epa::IngestOrchestrator, StagingBatchDispatcher, Repository and   *)
(* Epa::Measurements::Extractor, Transformer, Loader with their workers.   *)
(*                                                                         *)
(* One action is one committed statement or transaction, one read that is  *)
(* used later, or one perform_async.  Sidekiq may run a job again from the *)
(* start after any of its steps, or lose it: every job is written to be    *)
(* interrupted anywhere.                                                   *)
(*                                                                         *)
(* Data abstraction.  Two cycles share their window: the cron runs twice   *)
(* an hour and the window is cut to the hour.  The file of an hour is its  *)
(* version (0: no usable record); a version has one record per type.       *)
(***************************************************************************)
EXTENDS Integers, Sequences, FiniteSetsExt

CONSTANTS
  Cycles,      \* ids of ingest cycles, in the order they are created
  Hours,       \* the hours of the window
  Types,       \* Epa::MEASUREMENT_TYPES
  SlowFetch,   \* whether a file takes longer to fetch than the 24 dispatches
  MaxVersion,  \* BOUND: how often AirNow corrects a file
  MaxFaults,   \* BOUND: exceptions, restarts and kills of jobs
  MaxCopies    \* BOUND: jobs pushed for the same batch

ASSUME EpaAssumption ==
  /\ Cycles \subseteq Nat \ {0}
  /\ Hours \subseteq Nat /\ Hours # {} /\ IsFiniteSet(Hours)
  /\ Types # {}
  /\ SlowFetch \in BOOLEAN
  /\ MaxVersion \in Nat /\ MaxFaults \in Nat /\ MaxCopies \in Nat \ {0}

Batches == Cycles \X Hours
LoadBatches == Cycles \X Types
Versions == 0..MaxVersion

\* A job is its worker, its argument and which push of it this is.
Extracts == {"extract"} \X Batches \X (1..MaxCopies)
Transforms == {"transform"} \X Batches \X (1..MaxCopies)
Loads == {"load"} \X LoadBatches \X (1..MaxCopies)
Jobs == Extracts \cup Transforms \cup Loads

Arg(j) == j[2]
CycleOf(j) == Arg(j)[1]

VARIABLES
  published,    \* version of each hour's file on the AirNow bucket
  cycle,        \* epa_ingest_cycles.status
  orchestrator, \* where the orchestrator of each cycle is
  staging,      \* epa_staging_batches.status
  loading,      \* epa_load_batches.status
  raw,          \* epa_raw_measurements of each staging batch, by file stored
  transformed,  \* epa_transformed_measurements of each hour: value and owner
  station,      \* station_measurements of each type and hour
  pc,           \* where each job is
  retried,      \* jobs that used their one retry
  seen,         \* status of the staging batch as the job loaded it
  fetched,      \* the file an extract job holds
  rawRead,      \* the raw rows a transform job holds
  toPush,       \* load batches a transform job has still to push
  rowsRead,     \* the rows a load job holds
  faults

pipeline == <<cycle, staging, loading>>
data == <<raw, transformed, station>>
memory == <<seen, fetched, rawRead, toPush, rowsRead>>
vars == <<published, pipeline, orchestrator, data, pc, retried, memory, faults>>

NoRow == [value |-> 0, owner |-> 0]
NothingRead == [h \in Hours |-> 0]

Init ==
  /\ published = NothingRead
  /\ cycle = [c \in Cycles |-> "none"]
  /\ orchestrator = [c \in Cycles |-> "idle"]
  /\ staging = [b \in Batches |-> "none"]
  /\ loading = [l \in LoadBatches |-> "none"]
  /\ raw = [b \in Batches |-> <<>>]
  /\ transformed = [h \in Hours |-> NoRow]
  /\ station = [k \in Types \X Hours |-> 0]
  /\ pc = [j \in Jobs |-> "none"]
  /\ retried = {}
  /\ seen = [j \in Extracts \cup Transforms |-> "none"]
  /\ fetched = [j \in Extracts |-> 0]
  /\ rawRead = [j \in Transforms |-> <<>>]
  /\ toPush = [j \in Transforms |-> {}]
  /\ rowsRead = [j \in Loads |-> NothingRead]
  /\ faults = 0

-----------------------------------------------------------------------------
(* The orchestrator. *)

Undispatched(c) == {h \in Hours : staging[<<c, h>>] = "none"}
Dispatched(c) == Hours \ Undispatched(c)

\* A cycle in staging and its load batches, which nothing reads before it loads.
CreateCycle(c) ==
  /\ orchestrator[c] = "idle"
  /\ \A b \in Cycles : b < c => orchestrator[b] # "idle"
  /\ orchestrator' = [orchestrator EXCEPT ![c] = "dispatching"]
  /\ cycle' = [cycle EXCEPT ![c] = "staging"]
  /\ loading' = [l \in LoadBatches |-> IF l[1] = c THEN "queued" ELSE loading[l]]
  /\ UNCHANGED <<published, staging, data, pc, retried, memory, faults>>

\* StagingBatchDispatcher, hour by hour: first the batch,
DispatchHour(c) ==
  /\ orchestrator[c] = "dispatching"
  /\ Undispatched(c) # {}
  /\ staging' = [staging EXCEPT ![<<c, Min(Undispatched(c))>>] = "queued"]
  /\ orchestrator' = [orchestrator EXCEPT ![c] = "pushing"]
  /\ UNCHANGED <<published, cycle, loading, data, pc, retried, memory, faults>>

\* The next push of a worker's job for an argument; beyond the bound, none.
Pushes(worker, arg) == {n \in 1..MaxCopies : pc[<<worker, arg, n>>] = "none"}
Pushed(worker, arg) == <<worker, arg, Min(Pushes(worker, arg))>>

\* then its extract job.
PushExtract(c) ==
  LET b == <<c, Max(Dispatched(c))>>
  IN  /\ orchestrator[c] = "pushing"
      /\ Pushes("extract", b) # {}
      /\ pc' = [pc EXCEPT ![Pushed("extract", b)] = "queued"]
      /\ orchestrator' = [orchestrator EXCEPT
           ![c] = IF Undispatched(c) = {} THEN "done" ELSE "dispatching"]
      /\ UNCHANGED <<published, pipeline, data, retried, memory, faults>>

\* The orchestrating job is interrupted; run again, it makes a cycle of its own.
InterruptOrchestrator(c) ==
  /\ orchestrator[c] \in {"dispatching", "pushing"}
  /\ faults < MaxFaults
  /\ faults' = faults + 1
  /\ orchestrator' = [orchestrator EXCEPT ![c] = "dead"]
  /\ UNCHANGED <<published, pipeline, data, pc, retried, memory>>

-----------------------------------------------------------------------------
(* Jobs. *)

GoTo(j, where) == pc' = [pc EXCEPT ![j] = where]

\* batch.update!(status:) writes nothing when the batch was loaded with it.
Mark(j, status) ==
  staging' = IF seen[j] = status THEN staging
                                 ELSE [staging EXCEPT ![Arg(j)] = status]

\* Extractor: find the batch and fetch its file.
Fetch(j) ==
  /\ pc[j] = "queued"
  /\ SlowFetch => orchestrator[CycleOf(j)] \in {"done", "dead"}
  /\ seen' = [seen EXCEPT ![j] = staging[Arg(j)]]
  /\ fetched' = [fetched EXCEPT ![j] = published[Arg(j)[2]]]
  /\ GoTo(j, "fetched")
  /\ UNCHANGED <<published, pipeline, orchestrator, data, retried, rawRead, toPush,
                 rowsRead, faults>>

\* Its transaction: the rows are appended, whatever the batch already has.
StoreRaw(j) ==
  /\ pc[j] = "fetched"
  /\ raw' = IF fetched[j] = 0 THEN raw
                              ELSE [raw EXCEPT ![Arg(j)] = Append(@, fetched[j])]
  /\ Mark(j, "extracted")
  /\ fetched' = [fetched EXCEPT ![j] = 0]
  /\ GoTo(j, "pushing")
  /\ UNCHANGED <<published, cycle, loading, orchestrator, transformed, station,
                 retried, seen, rawRead, toPush, rowsRead, faults>>

PushTransform(j) ==
  /\ pc[j] = "pushing"
  /\ Pushes("transform", Arg(j)) # {}
  /\ pc' = [pc EXCEPT ![j] = "done", ![Pushed("transform", Arg(j))] = "queued"]
  /\ UNCHANGED <<published, pipeline, orchestrator, data, retried, memory, faults>>

\* Transformer: find the batch and read its raw rows.
ReadRaw(j) ==
  /\ pc[j] = "queued"
  /\ seen' = [seen EXCEPT ![j] = staging[Arg(j)]]
  /\ rawRead' = [rawRead EXCEPT ![j] = raw[Arg(j)]]
  /\ GoTo(j, "read")
  /\ UNCHANGED <<published, pipeline, orchestrator, data, retried, fetched, toPush,
                 rowsRead, faults>>

\* An exception out of a job: one retry, then it is dead.
Raise(j) ==
  /\ GoTo(j, IF j \in retried THEN "dead" ELSE "queued")
  /\ retried' = retried \cup {j}

\* Mutant of AfterUpsert: only the last hour of the window wakes the loaders.
AfterUpsertOfLastHour(j) == IF Arg(j)[2] = Max(Hours) THEN "starting" ELSE "done"

AfterUpsert(j) == "starting"

\* update_only value and epa_staging_batch_id: a later upsert owns the row.
TakeOver(j, row) == [value |-> rawRead[j][1], owner |-> CycleOf(j)]

\* Its transaction.  A file stored twice gives one upsert two records with the
\* same key, which PostgreSQL refuses.
Upsert(j) ==
  /\ pc[j] = "read"
  /\ \/ /\ Len(rawRead[j]) > 1
        /\ Raise(j)
        /\ UNCHANGED <<staging, transformed>>
     \/ /\ Len(rawRead[j]) <= 1
        /\ transformed' = IF rawRead[j] = <<>> THEN transformed
             ELSE [transformed EXCEPT ![Arg(j)[2]] = TakeOver(j, @)]
        /\ Mark(j, "completed")
        /\ GoTo(j, AfterUpsert(j))
        /\ UNCHANGED retried
  /\ rawRead' = [rawRead EXCEPT ![j] = <<>>]
  /\ UNCHANGED <<published, cycle, loading, orchestrator, raw, station, seen, fetched,
                 toPush, rowsRead, faults>>

\* Mutant of MayStart: without WHERE status = 'staging'.
MayStartAgain(c) ==
  \A h \in Dispatched(c) : staging[<<c, h>>] = "completed"

\* Mutant of MayStart: one staging batch is enough.
MayStartEarly(c) ==
  /\ cycle[c] = "staging"
  /\ \E h \in Dispatched(c) : staging[<<c, h>>] = "completed"

\* try_start_loading's WHERE: it looks at the staging batches there are, and the
\* status failed, which it lets pass as well, is never written.
MayStart(c) ==
  /\ cycle[c] = "staging"
  /\ \A h \in Dispatched(c) : staging[<<c, h>>] = "completed"

\* try_start_loading, then find_load_batch_ids.
TryStart(j) ==
  /\ pc[j] = "starting"
  /\ IF MayStart(CycleOf(j))
       THEN /\ cycle' = [cycle EXCEPT ![CycleOf(j)] = "loading"]
            /\ toPush' = [toPush EXCEPT ![j] = Types]
            /\ GoTo(j, "enqueuing")
       ELSE /\ GoTo(j, "done")
            /\ UNCHANGED <<cycle, toPush>>
  /\ UNCHANGED <<published, staging, loading, orchestrator, data, retried, seen,
                 fetched, rawRead, rowsRead, faults>>

PushLoad(j, t) ==
  LET l == <<CycleOf(j), t>>
  IN  /\ pc[j] = "enqueuing"
      /\ t \in toPush[j]
      /\ Pushes("load", l) # {}
      /\ toPush' = [toPush EXCEPT ![j] = @ \ {t}]
      /\ pc' = [pc EXCEPT ![j] = IF toPush[j] = {t} THEN "done" ELSE @,
                          ![Pushed("load", l)] = "queued"]
      /\ UNCHANGED <<published, pipeline, orchestrator, data, retried, seen, fetched,
                     rawRead, rowsRead, faults>>

\* Loader: loadable_measurements_data, the rows the cycle's batches own now.
ReadRows(j) ==
  /\ pc[j] = "queued"
  /\ rowsRead' = [rowsRead EXCEPT ![j] =
       [h \in Hours |-> IF transformed[h].owner = CycleOf(j)
                          THEN transformed[h].value ELSE 0]]
  /\ GoTo(j, "read")
  /\ UNCHANGED <<published, pipeline, orchestrator, data, retried, seen, fetched,
                 rawRead, toPush, faults>>

\* Mutant of StoreRows: nothing to load, nothing to do.
StoreRowsIfAny(j) ==
  /\ pc[j] = "read"
  /\ station' = [k \in Types \X Hours |->
       IF k[1] = Arg(j)[2] /\ rowsRead[j][k[2]] # 0
         THEN rowsRead[j][k[2]] ELSE station[k]]
  /\ loading' = IF rowsRead[j] = NothingRead THEN loading
                 ELSE [loading EXCEPT ![Arg(j)] = "completed"]
  /\ rowsRead' = [rowsRead EXCEPT ![j] = NothingRead]
  /\ GoTo(j, "completing")
  /\ UNCHANGED <<published, cycle, staging, orchestrator, raw, transformed, retried,
                 seen, fetched, rawRead, toPush, faults>>

\* Its transaction.
StoreRows(j) ==
  /\ pc[j] = "read"
  /\ station' = [k \in Types \X Hours |->
       IF k[1] = Arg(j)[2] /\ rowsRead[j][k[2]] # 0
         THEN rowsRead[j][k[2]] ELSE station[k]]
  /\ loading' = [loading EXCEPT ![Arg(j)] = "completed"]
  /\ rowsRead' = [rowsRead EXCEPT ![j] = NothingRead]
  /\ GoTo(j, "completing")
  /\ UNCHANGED <<published, cycle, staging, orchestrator, raw, transformed, retried,
                 seen, fetched, rawRead, toPush, faults>>

\* Mutant of MayComplete: one load batch is enough.
MayCompleteEarly(c) ==
  /\ cycle[c] = "loading"
  /\ \E t \in Types : loading[<<c, t>>] = "completed"

MayComplete(c) ==
  /\ cycle[c] = "loading"
  /\ \A t \in Types : loading[<<c, t>>] = "completed"

\* try_complete_cycle.
TryComplete(j) ==
  /\ pc[j] = "completing"
  /\ cycle' = IF MayComplete(CycleOf(j))
                THEN [cycle EXCEPT ![CycleOf(j)] = "completed"] ELSE cycle
  /\ GoTo(j, "done")
  /\ UNCHANGED <<published, staging, loading, orchestrator, data, retried, memory,
                 faults>>

\* An exception, a restart or a kill between two steps.  The transaction in
\* hand is rolled back; the job runs again from its start, or never.
Interrupt(j) ==
  /\ pc[j] \notin {"none", "done", "dead"}
  /\ faults < MaxFaults
  /\ faults' = faults + 1
  /\ \E where \in {"queued", "dead"} : GoTo(j, where)
  /\ toPush' = [i \in Transforms |-> IF i = j THEN {} ELSE toPush[i]]
  /\ UNCHANGED <<published, pipeline, orchestrator, data, retried, seen, fetched,
                 rawRead, rowsRead>>

\* AirNow publishes or corrects the file of an hour.
Publish(h) ==
  /\ published[h] < MaxVersion
  /\ published' = [published EXCEPT ![h] = @ + 1]
  /\ UNCHANGED <<pipeline, orchestrator, data, pc, retried, memory, faults>>

-----------------------------------------------------------------------------
Orchestrate(c) == DispatchHour(c) \/ PushExtract(c)
Extract(j) == Fetch(j) \/ StoreRaw(j) \/ PushTransform(j)
Transform(j) ==
  \/ ReadRaw(j)
  \/ Upsert(j)
  \/ TryStart(j)
  \/ \E t \in Types : PushLoad(j, t)
Load(j) == ReadRows(j) \/ StoreRows(j) \/ TryComplete(j)

Next ==
  \/ \E c \in Cycles :
       \/ CreateCycle(c)
       \/ Orchestrate(c)
       \/ InterruptOrchestrator(c)
  \/ \E j \in Extracts : Extract(j)
  \/ \E j \in Transforms : Transform(j)
  \/ \E j \in Loads : Load(j)
  \/ \E j \in Jobs : Interrupt(j)
  \/ \E h \in Hours : Publish(h)

Spec == Init /\ [][Next]_vars

\* Sidekiq goes on with every job it has; nothing makes the cron start a cycle,
\* AirNow publish, or a fault happen.
Fairness ==
  /\ \A c \in Cycles : WF_vars(Orchestrate(c))
  /\ \A j \in Extracts : WF_vars(Extract(j))
  /\ \A j \in Transforms : WF_vars(Transform(j))
  /\ \A j \in Loads : WF_vars(Load(j))

FairSpec == Spec /\ Fairness
-----------------------------------------------------------------------------
(* Properties. *)

CycleStatuses == {"none", "staging", "loading", "completed"}
StagingStatuses == {"none", "queued", "extracted", "completed"}
LoadStatuses == {"none", "queued", "completed"}
ExtractPhases == {"none", "queued", "fetched", "pushing", "done", "dead"}
TransformPhases == {"none", "queued", "read", "starting", "enqueuing", "done", "dead"}
LoadPhases == {"none", "queued", "read", "completing", "done", "dead"}

PipelineTypeOK ==
  /\ cycle \in [Cycles -> CycleStatuses]
  /\ orchestrator \in [Cycles -> {"idle", "dispatching", "pushing", "done", "dead"}]
  /\ staging \in [Batches -> StagingStatuses]
  /\ loading \in [LoadBatches -> LoadStatuses]

DataTypeOK ==
  /\ published \in [Hours -> Versions]
  /\ raw \in [Batches -> Seq(Versions \ {0})]
  /\ transformed \in [Hours -> [value : Versions, owner : Cycles \cup {0}]]
  /\ station \in [Types \X Hours -> Versions]

JobTypeOK ==
  /\ pc \in [Jobs -> ExtractPhases \cup TransformPhases \cup LoadPhases]
  /\ \A j \in Extracts : pc[j] \in ExtractPhases
  /\ \A j \in Transforms : pc[j] \in TransformPhases
  /\ \A j \in Loads : pc[j] \in LoadPhases
  /\ retried \in SUBSET Transforms
  /\ faults \in 0..MaxFaults

MemoryTypeOK ==
  /\ seen \in [Extracts \cup Transforms -> StagingStatuses]
  /\ fetched \in [Extracts -> Versions]
  /\ rawRead \in [Transforms -> Seq(Versions \ {0})]
  /\ toPush \in [Transforms -> SUBSET Types]
  /\ rowsRead \in [Loads -> [Hours -> Versions]]

\* Every variable has its type.
TypeOK == PipelineTypeOK /\ DataTypeOK /\ JobTypeOK /\ MemoryTypeOK

\* Whatever the jobs of a cycle do to each other and however often they run
\* again, each of its load batches is pushed at most once, and only after the
\* cycle has started to load: try_start_loading elects one transformer.
LoadPushedOnce ==
  \A l \in LoadBatches : \A m, n \in 1..MaxCopies :
    pc[<<"load", l, m>>] # "none" =>
      /\ cycle[l[1]] \in {"loading", "completed"}
      /\ pc[<<"load", l, n>>] # "none" => m = n

TransformJobs(c) == {j \in Transforms : CycleOf(j) = c}
LoadJobs(c) == {j \in Loads : CycleOf(j) = c}
JobsOf(c) == {j \in Jobs : CycleOf(j) = c}

\* Transformers that finish together do not leave a complete cycle in staging,
\* nor loaders one in loading: whoever commits last is still to test the barrier,
\* unless Sidekiq gave that job up.
NoLostWakeup ==
  \A c \in Cycles :
    /\ MayStart(c) /\ Dispatched(c) # {} =>
         \E j \in TransformJobs(c) : pc[j] \in {"queued", "read", "starting", "dead"}
    /\ MayComplete(c) =>
         \E j \in LoadJobs(c) : pc[j] \in {"queued", "read", "completing", "dead"}

\* A cycle that completes has every row it owns in station_measurements, although
\* cycles with the same window take rows from each other while they load.
CompletedCycleIsLoaded ==
  faults = 0 =>
    \A c \in Cycles, t \in Types, h \in Hours :
      cycle[c] = "completed" /\ transformed[h].owner = c => station[<<t, h>>] # 0

\* Loading starts when every hour of the window is staged (the barrier the
\* documentation describes).
LoadWaitsForAllHours ==
  [][\A c \in Cycles :
       cycle[c] = "staging" /\ cycle'[c] = "loading" =>
         \A h \in Hours : staging[<<c, h>>] = "completed"]_vars

\* A cycle nobody will ever complete: its orchestrator or one of its jobs was
\* given up, or a load job was never pushed by the transformer that started it.
Stuck(c) ==
  \/ orchestrator[c] = "dead"
  \/ \E j \in JobsOf(c) : pc[j] = "dead"
  \/ /\ cycle[c] = "loading"
     /\ \E t \in Types : \A n \in 1..MaxCopies : pc[<<"load", <<c, t>>, n>>] = "none"
     /\ \A j \in TransformJobs(c) : pc[j] # "enqueuing"

\* Every cycle completes, or a fault has left it in one of those three ways; no
\* order of its jobs alone can stop it.
CyclesSettle ==
  \A c \in Cycles :
    cycle[c] # "none" ~> cycle[c] = "completed" \/ (Stuck(c) /\ faults > 0)

\* The barrier the pipeline implements, given that no file is back before its
\* cycle is dispatched.
Barrier == INSTANCE CycleBarrier WITH
  announced <- [c \in Cycles |-> Dispatched(c)],
  closed <- {c \in Cycles : orchestrator[c] \in {"done", "dead"}},
  arrived <- [c \in Cycles |-> {h \in Hours : staging[<<c, h>>] = "completed"}],
  started <- {c \in Cycles : cycle[c] \in {"loading", "completed"}},
  loaded <- [c \in Cycles |-> {t \in Types : loading[<<c, t>>] = "completed"}],
  finished <- {c \in Cycles : cycle[c] = "completed"}

\* Every step of the jobs is a step of that barrier or invisible.
ImplementsBarrier == Barrier!Spec
=============================================================================
