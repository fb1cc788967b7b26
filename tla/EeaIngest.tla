------------------------------ MODULE EeaIngest ------------------------------
(***************************************************************************)
(* The EEA ingest: for every country and pollutant a batch that six        *)
(* Sidekiq jobs, each pushed by the one before it, download, unzip, copy,  *)
(* transform, load and clean up.                                           *)
(*                                                                         *)
(* Code: Eea::IngestOrchestrator, IngestBatchEnqueuer, ZipDownloader,      *)
(* Unzipper, Copier, Transformer, MeasurementsLoader, Loader, BatchCleanup,*)
(* MeasurementsPurger and Repository, with their workers.                  *)
(*                                                                         *)
(* One action is one committed statement or transaction, one read that is  *)
(* used later, one change of the files of a batch, or one perform_async.   *)
(* A statement is taken to read what it writes at one moment.              *)
(*                                                                         *)
(* Data abstraction.  One country and pollutant, whose windows overlap: the *)
(* cron runs twice an hour, a window is a day.  A file is the version of   *)
(* each measurement, 0 where it has no valid one; without any, the zip has *)
(* no parquet file.                                                        *)
(***************************************************************************)
EXTENDS Integers, FiniteSetsExt

CONSTANTS
  Batches,     \* ids of ingest batches, in the order they are created
  Times,       \* the measurements of the windows
  MaxVersion,  \* BOUND: how often EEA corrects a measurement
  MaxFaults,   \* BOUND: exceptions, restarts and kills of jobs
  MaxCopies    \* BOUND: jobs pushed of the same worker for the same batch

EeaAssumption ==
  /\ Batches \subseteq Nat \ {0}
  /\ Times # {}
  /\ MaxVersion \in Nat /\ MaxFaults \in Nat /\ MaxCopies \in Nat \ {0}

\* Who pushes whom, and the status each leaves the batch in.
Pushes == [download |-> "unzip", unzip |-> "copy", copy |-> "transform",
           transform |-> "load", load |-> "clean"]
Leaves == [download |-> "downloaded", unzip |-> "unzipped", copy |-> "copied",
           transform |-> "transformed", load |-> "saved", clean |-> "completed"]

\* A job is its worker, its batch and which push of it this is.
Workers == DOMAIN Leaves
Jobs == Workers \X Batches \X (1..MaxCopies)
Worker(j) == j[1]
Batch(j) == j[2]

VARIABLES
  published,    \* what EEA has of each measurement
  orchestrator, \* where the orchestrator is with each batch
  status,       \* eea_ingest_batches.status
  zip,          \* raw.zip of each batch
  files,        \* its parquet files
  raw,          \* eea_raw_measurements of each batch: copies of its files
  ingested,     \* how many copies were made: ingested_at of the last
  transformed,  \* eea_transformed_measurements: value, batch and ingested_at
  fixed,        \* fixed_measurements
  station,      \* station_measurements
  pc,           \* where each job is
  retried,      \* jobs that used their one retry
  seen,         \* the status of the batch as a job loaded it
  held,         \* the download, or the rows to load, a job has in memory
  overtaken,    \* HISTORY: measurements last stored by a loader of a stale row
  faults

disk == <<zip, files>>
staging == <<raw, ingested, transformed>>
stored == <<fixed, station, overtaken>>
memory == <<seen, held>>
vars == <<published, orchestrator, status, disk, staging, stored, pc, retried, memory,
          faults>>

NoFile == [t \in Times |-> 0]
NoRow == [value |-> 0, batch |-> 0, at |-> 0]

Init ==
  /\ published \in [Times -> {0, 1}]
  /\ orchestrator = [b \in Batches |-> "idle"]
  /\ status = [b \in Batches |-> "none"]
  /\ zip = [b \in Batches |-> NoFile]
  /\ files = [b \in Batches |-> NoFile]
  /\ raw = [b \in Batches |-> {}]
  /\ ingested = 0
  /\ transformed = [t \in Times |-> NoRow]
  /\ fixed = NoFile
  /\ station = NoFile
  /\ pc = [j \in Jobs |-> "none"]
  /\ retried = {}
  /\ seen = [j \in Jobs |-> "none"]
  /\ held = [j \in Jobs |-> NoFile]
  /\ overtaken = {}
  /\ faults = 0

-----------------------------------------------------------------------------
(* The orchestrator. *)

\* The next push of a worker's job for a batch; beyond the bound, none.
Unpushed(w, b) == {n \in 1..MaxCopies : pc[<<w, b, n>>] = "none"}
Pushed(w, b) == <<w, b, Min(Unpushed(w, b))>>

CreateBatch(b) ==
  /\ orchestrator[b] = "idle"
  /\ \A a \in Batches : a < b => orchestrator[a] # "idle"
  /\ orchestrator' = [orchestrator EXCEPT ![b] = "created"]
  /\ status' = [status EXCEPT ![b] = "queued"]
  /\ UNCHANGED <<published, disk, staging, stored, pc, retried, memory, faults>>

PushDownload(b) ==
  /\ orchestrator[b] = "created"
  /\ orchestrator' = [orchestrator EXCEPT ![b] = "done"]
  /\ pc' = [pc EXCEPT ![Pushed("download", b)] = "queued"]
  /\ UNCHANGED <<published, status, disk, staging, stored, retried, memory, faults>>

\* The orchestrating job is interrupted; run again, it creates other batches.
InterruptOrchestrator(b) ==
  /\ orchestrator[b] = "created"
  /\ faults < MaxFaults
  /\ faults' = faults + 1
  /\ orchestrator' = [orchestrator EXCEPT ![b] = "dead"]
  /\ UNCHANGED <<published, status, disk, staging, stored, pc, retried, memory>>

-----------------------------------------------------------------------------
(* What jobs have in common. *)

GoTo(j, where) == pc' = [pc EXCEPT ![j] = where]

\* batch.update!(status:) writes nothing when the batch was loaded with it.
Mark(j, s) ==
  status' = IF seen[j] = s THEN status ELSE [status EXCEPT ![Batch(j)] = s]

\* An exception out of a job: one retry, then it is dead.
Raise(j) ==
  /\ GoTo(j, IF j \in retried THEN "dead" ELSE "queued")
  /\ retried' = retried \cup {j}

\* find_ingest_batch!; the downloader then asks EEA for the file.
FindBatch(j) ==
  /\ Worker(j) # "load"
  /\ pc[j] = "queued"
  /\ seen' = [seen EXCEPT ![j] = status[Batch(j)]]
  /\ held' = [held EXCEPT ![j] = IF Worker(j) = "download" THEN published ELSE NoFile]
  /\ GoTo(j, "begun")
  /\ UNCHANGED <<published, orchestrator, status, disk, staging, stored, retried, faults>>

\* The status, once the work is done; the clean-up pushes nothing.
SetStatus(j) ==
  /\ pc[j] = "marking"
  /\ Mark(j, Leaves[Worker(j)])
  /\ GoTo(j, IF Worker(j) = "clean" THEN "done" ELSE "pushing")
  /\ UNCHANGED <<published, orchestrator, disk, staging, stored, retried, memory, faults>>

\* The next job; a job shut down right after this runs again all the same.
PushNext(j) ==
  /\ pc[j] = "pushing"
  /\ Unpushed(Pushes[Worker(j)], Batch(j)) # {}
  /\ \E shutDown \in BOOLEAN :
       /\ shutDown => faults < MaxFaults
       /\ faults' = IF shutDown THEN faults + 1 ELSE faults
       /\ pc' = [pc EXCEPT ![j] = IF shutDown THEN "queued" ELSE "done",
                           ![Pushed(Pushes[Worker(j)], Batch(j))] = "queued"]
  /\ UNCHANGED <<published, orchestrator, status, disk, staging, stored, retried, memory>>

\* An exception, a restart or a kill between two steps.  The transaction in
\* hand is rolled back; the job runs again from its start, or never.
Interrupt(j) ==
  /\ pc[j] \in {"queued", "begun", "read", "marking", "pushing"}
  /\ faults < MaxFaults
  /\ faults' = faults + 1
  /\ \E where \in {"queued", "dead"} : GoTo(j, where)
  /\ held' = [held EXCEPT ![j] = NoFile]
  /\ UNCHANGED <<published, orchestrator, status, disk, staging, stored, retried, seen>>

-----------------------------------------------------------------------------
(* The work of each. *)

\* ZipDownloader: a partial file that is renamed.
SaveZip(j) ==
  /\ Worker(j) = "download" /\ pc[j] = "begun"
  /\ zip' = [zip EXCEPT ![Batch(j)] = held[j]]
  /\ held' = [held EXCEPT ![j] = NoFile]
  /\ GoTo(j, "marking")
  /\ UNCHANGED <<published, orchestrator, status, files, staging, stored, retried, seen,
                 faults>>

\* Mutant of Unzip: nothing in the zip, nothing to do.
UnzipSilently(j) ==
  /\ Worker(j) = "unzip" /\ pc[j] = "begun"
  /\ files' = [files EXCEPT ![Batch(j)] = zip[Batch(j)]]
  /\ GoTo(j, IF zip[Batch(j)] = NoFile THEN "done" ELSE "marking")
  /\ UNCHANGED <<published, orchestrator, status, zip, staging, stored, retried, memory,
                 faults>>

\* Unzipper: a zip that is missing or has no parquet file fails the batch.
Unzip(j) ==
  /\ Worker(j) = "unzip" /\ pc[j] = "begun"
  /\ \/ /\ zip[Batch(j)] = NoFile
        /\ Mark(j, "failed")
        /\ GoTo(j, "done")
        /\ UNCHANGED files
     \/ /\ zip[Batch(j)] # NoFile
        /\ files' = [files EXCEPT ![Batch(j)] = zip[Batch(j)]]
        /\ GoTo(j, "marking")
        /\ UNCHANGED status
  /\ UNCHANGED <<published, orchestrator, zip, staging, stored, retried, memory, faults>>

\* Copier: the rows are appended, whatever the batch already has.  Without a file
\* DuckDB raises.
CopyRows(j) ==
  /\ Worker(j) = "copy" /\ pc[j] = "begun"
  /\ \/ /\ files[Batch(j)] = NoFile
        /\ Raise(j)
        /\ UNCHANGED <<raw, ingested>>
     \/ /\ files[Batch(j)] # NoFile
        /\ ingested' = ingested + 1
        /\ raw' = [raw EXCEPT ![Batch(j)] =
             @ \cup {[file |-> files[Batch(j)], at |-> ingested']}]
        /\ GoTo(j, "marking")
        /\ UNCHANGED retried
  /\ UNCHANGED <<published, orchestrator, status, disk, transformed, stored, memory, faults>>

\* ON CONFLICT DO UPDATE ... WHERE.
Newer(copy, row) == copy.at > row.at

\* The copies of a batch with a measurement that go in.
Applied(b, t) == {copy \in raw[b] : copy.file[t] # 0 /\ Newer(copy, transformed[t])}

\* A row the statement has written may not be met again by a later copy of it.
WrittenTwice(b) ==
  \E t \in Times : \E copy \in Applied(b, t), later \in raw[b] :
    copy.at < later.at /\ later.file[t] # 0

\* If the statement is not refused, one copy of a measurement at most goes in.
TheCopy(b, t) == CHOOSE copy \in Applied(b, t) : TRUE

\* Transformer: one statement over all raw rows of the batch.
Transform(j) ==
  /\ Worker(j) = "transform" /\ pc[j] = "begun"
  /\ \/ /\ WrittenTwice(Batch(j))
        /\ Raise(j)
        /\ UNCHANGED transformed
     \/ /\ ~WrittenTwice(Batch(j))
        /\ transformed' = [t \in Times |->
             IF Applied(Batch(j), t) = {} THEN transformed[t]
             ELSE [value |-> TheCopy(Batch(j), t).file[t], batch |-> Batch(j),
                   at |-> TheCopy(Batch(j), t).at]]
        /\ GoTo(j, "marking")
        /\ UNCHANGED retried
  /\ UNCHANGED <<published, orchestrator, status, disk, raw, ingested, stored, memory,
                 faults>>

\* The rows a batch owns now.
RowsOf(b) == [t \in Times |-> IF transformed[t].batch = b THEN transformed[t].value ELSE 0]
Upserted(rows, table) == [t \in Times |-> IF rows[t] # 0 THEN rows[t] ELSE table[t]]

\* MeasurementsLoader: one statement for the legacy table, before the batch is found.
LoadFixed(j) ==
  /\ Worker(j) = "load" /\ pc[j] = "queued"
  /\ fixed' = Upserted(RowsOf(Batch(j)), fixed)
  /\ GoTo(j, "begun")
  /\ UNCHANGED <<published, orchestrator, status, disk, staging, station, overtaken,
                 retried, memory, faults>>

\* Loader: the batch and its rows are read,
ReadRows(j) ==
  /\ Worker(j) = "load" /\ pc[j] = "begun"
  /\ seen' = [seen EXCEPT ![j] = status[Batch(j)]]
  /\ held' = [held EXCEPT ![j] = RowsOf(Batch(j))]
  /\ GoTo(j, "read")
  /\ UNCHANGED <<published, orchestrator, status, disk, staging, stored, retried, faults>>

\* and stored in a transaction with the status.
StoreRows(j) ==
  LET rows == {t \in Times : held[j][t] # 0}
  IN  /\ Worker(j) = "load" /\ pc[j] = "read"
      /\ station' = Upserted(held[j], station)
      /\ overtaken' = (overtaken \ rows) \cup {t \in rows : held[j][t] # transformed[t].value}
      /\ held' = [held EXCEPT ![j] = NoFile]
      /\ Mark(j, "saved")
      /\ GoTo(j, "pushing")
      /\ UNCHANGED <<published, orchestrator, disk, staging, fixed, retried, seen, faults>>

\* BatchCleanup.
RemoveFiles(j) ==
  /\ Worker(j) = "clean" /\ pc[j] = "begun"
  /\ zip' = [zip EXCEPT ![Batch(j)] = NoFile]
  /\ files' = [files EXCEPT ![Batch(j)] = NoFile]
  /\ GoTo(j, "marking")
  /\ UNCHANGED <<published, orchestrator, status, staging, stored, retried, memory, faults>>

-----------------------------------------------------------------------------
(* The neighbours. *)

JobsOf(b) == {j \in Jobs : Batch(j) = b}
Over(b) == orchestrator[b] # "created" /\ \A j \in JobsOf(b) : pc[j] \in {"none", "done", "dead"}

\* Mutant of Purge: the raw rows stay.
PurgeTransformed(at) ==
  /\ \A b \in Batches : (\E copy \in raw[b] : copy.at <= at) => Over(b)
  /\ \E t \in Times : transformed[t].at \in 1..at
  /\ transformed' = [t \in Times |-> IF transformed[t].at <= at THEN NoRow ELSE transformed[t]]
  /\ UNCHANGED <<published, orchestrator, status, disk, raw, ingested, stored, pc, retried,
                 memory, faults>>

\* MeasurementsPurger: rows copied seven days ago, by when their batches are over.
Purge(at) ==
  /\ \A b \in Batches : (\E copy \in raw[b] : copy.at <= at) => Over(b)
  /\ \E t \in Times : transformed[t].at \in 1..at
  /\ raw' = [b \in Batches |-> {copy \in raw[b] : copy.at > at}]
  /\ transformed' = [t \in Times |-> IF transformed[t].at <= at THEN NoRow ELSE transformed[t]]
  /\ UNCHANGED <<published, orchestrator, status, disk, ingested, stored, pc, retried,
                 memory, faults>>

\* EEA publishes or corrects a measurement.
Publish(t) ==
  /\ published[t] < MaxVersion
  /\ published' = [published EXCEPT ![t] = @ + 1]
  /\ UNCHANGED <<orchestrator, status, disk, staging, stored, pc, retried, memory, faults>>

-----------------------------------------------------------------------------
Work(j) ==
  \/ SaveZip(j)
  \/ Unzip(j)
  \/ CopyRows(j)
  \/ Transform(j)
  \/ LoadFixed(j)
  \/ ReadRows(j)
  \/ StoreRows(j)
  \/ RemoveFiles(j)

Next ==
  \/ \E b \in Batches : CreateBatch(b) \/ PushDownload(b) \/ InterruptOrchestrator(b)
  \/ \E j \in Jobs : FindBatch(j) \/ Work(j) \/ SetStatus(j) \/ PushNext(j) \/ Interrupt(j)
  \/ \E at \in 1..ingested : Purge(at)
  \/ \E t \in Times : Publish(t)

Spec == Init /\ [][Next]_vars

-----------------------------------------------------------------------------
(* Properties. *)

Created(b) == orchestrator[b] # "idle"
Quiet == \A b \in Batches : Over(b)
Lost(b) == orchestrator[b] = "dead" \/ \E j \in JobsOf(b) : pc[j] = "dead"

\* Whatever is interrupted, repeated or pushed twice: once no job is left a batch is
\* completed or failed, or one of its jobs was lost; the status of a batch does not
\* fall behind what was done for it.
BatchesSettle ==
  Quiet => \A b \in Batches :
    Created(b) => status[b] \in {"completed", "failed"} \/ Lost(b)

\* Batches overlap and take rows over from each other in any order.  Of what they
\* copied the newest copy of a measurement is the one that is kept and, once its
\* batch is completed, the one stored; in station_measurements unless a loader that
\* had read an older row was the last to store it.
NewestCopyIsStored ==
  Quiet => \A t \in Times : \A b \in {c \in Batches : status[c] = "completed" /\ ~Lost(c)} :
    /\ \A copy \in raw[b] : copy.file[t] # 0 => transformed[t].at >= copy.at
    /\ transformed[t].batch = b =>
         /\ fixed[t] = transformed[t].value
         /\ t \notin overtaken => station[t] = transformed[t].value
=============================================================================
