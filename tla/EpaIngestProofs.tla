--------------------------- MODULE EpaIngestProofs ---------------------------
(***************************************************************************)
(* What is proved of EpaIngest for any number of cycles, hours, types,     *)
(* faults and pushes: the first three theorems whether fetching is slow or *)
(* not, the last two given that it is.                                     *)
(***************************************************************************)
EXTENDS EpaIngest, Extrema

Started(c) == cycle[c] \in {"loading", "completed"}
Waking(j) == pc[j] \in {"queued", "read", "starting", "dead"}
Finishing(j) == pc[j] \in {"queued", "read", "completing", "dead"}

\* A cycle that is not created has nothing.
NothingBeforeCreation ==
  /\ \A c \in Cycles : orchestrator[c] = "idle" =>
       cycle[c] = "none" /\ \A h \in Hours : staging[<<c, h>>] = "none"
  /\ \A j \in Jobs : pc[j] # "none" => orchestrator[CycleOf(j)] # "idle"

\* Only a cycle that loads has loaded.
LoadedIsStarted ==
  \A c \in Cycles : \A t \in Types : loading[<<c, t>>] = "completed" => Started(c)

\* A transformer that pushes load jobs started the cycle, alone, and what it has
\* still to push nobody has pushed.
Elected(i) ==
  pc[i] = "enqueuing" =>
    /\ Started(CycleOf(i))
    /\ \A t \in toPush[i] : \A n \in 1..MaxCopies :
         pc[<<"load", <<CycleOf(i), t>>, n>>] = "none"
    /\ \A j \in Transforms : pc[j] = "enqueuing" /\ CycleOf(j) = CycleOf(i) => i = j

Election == \A i \in Transforms : Elected(i)

\* The two halves of NoLostWakeup.
StartNotLost ==
  \A c \in Cycles : MayStart(c) /\ Dispatched(c) # {} =>
    \E j \in TransformJobs(c) : Waking(j)
CompletionNotLost ==
  \A c \in Cycles : MayComplete(c) => \E j \in LoadJobs(c) : Finishing(j)

\* The inductive invariant.  LoadPushedOnce needs Election: between the UPDATE
\* that starts a cycle and its last push, what keeps a second push away is not in
\* the database but in the one transformer that won.
IInv ==
  /\ TypeOK
  /\ NothingBeforeCreation
  /\ LoadedIsStarted
  /\ Election
  /\ LoadPushedOnce
  /\ StartNotLost
  /\ CompletionNotLost

-----------------------------------------------------------------------------
(* Jobs. *)

LEMMA JobShape ==
  /\ \A j \in Extracts : j[1] = "extract" /\ Arg(j) \in Batches /\ CycleOf(j) \in Cycles
  /\ \A j \in Transforms : j[1] = "transform" /\ Arg(j) \in Batches /\ CycleOf(j) \in Cycles
  /\ \A j \in Loads : j[1] = "load" /\ Arg(j) \in LoadBatches /\ CycleOf(j) \in Cycles
BY DEF Extracts, Transforms, Loads, Arg, CycleOf, Batches, LoadBatches

\* The three kinds of jobs are disjoint.
LEMMA JobKinds ==
  /\ Extracts \cap Transforms = {}
  /\ Extracts \cap Loads = {}
  /\ Transforms \cap Loads = {}
  /\ Extracts \subseteq Jobs /\ Transforms \subseteq Jobs /\ Loads \subseteq Jobs
BY DEF Extracts, Transforms, Loads, Jobs

\* The job a push makes is a new one, of the worker and batch asked for.
LEMMA PushedJob ==
  ASSUME NEW worker, NEW arg, Pushes(worker, arg) # {}
  PROVE  /\ Pushed(worker, arg) \in {worker} \X {arg} \X (1..MaxCopies)
         /\ pc[Pushed(worker, arg)] = "none"
<1>1. Pushes(worker, arg) \in SUBSET Nat
  BY EpaAssumption DEF Pushes
<1>2. Min(Pushes(worker, arg)) \in Pushes(worker, arg)
  BY <1>1, MinOfNaturals
<1> QED
  BY <1>2 DEF Pushed, Pushes

-----------------------------------------------------------------------------
(* What does not concern a part of the invariant leaves it as it is. *)

\* Election and LoadPushedOnce are about who starts cycles and pushes load jobs.
LEMMA ElectionKept ==
  ASSUME IInv,
         \A c \in Cycles : Started(c) => Started(c)',
         \A i \in Transforms :
           pc'[i] = "enqueuing" => pc[i] = "enqueuing" /\ toPush'[i] \subseteq toPush[i],
         \A j \in Loads : pc'[j] = "none" <=> pc[j] = "none"
  PROVE  Election' /\ LoadPushedOnce'
<1>1. \A c \in Cycles, t \in Types, n \in 1..MaxCopies : <<"load", <<c, t>>, n>> \in Loads
  BY DEF Loads, LoadBatches
<1>2. ASSUME NEW i \in Transforms PROVE Elected(i)'
  <2>1. CycleOf(i) \in Cycles /\ toPush[i] \in SUBSET Types
    BY JobShape DEF IInv, TypeOK, MemoryTypeOK
  <2> QED
    BY <1>1, <2>1 DEF IInv, Election, Elected
<1>3. LoadPushedOnce'
  <2> SUFFICES ASSUME NEW l \in LoadBatches, NEW m \in 1..MaxCopies, NEW n \in 1..MaxCopies,
                      pc'[<<"load", l, m>>] # "none"
               PROVE  /\ Started(l[1])'
                      /\ pc'[<<"load", l, n>>] # "none" => m = n
    BY DEF LoadPushedOnce, Started
  <2>1. <<"load", l, m>> \in Loads /\ <<"load", l, n>> \in Loads /\ l[1] \in Cycles
    BY DEF Loads, LoadBatches
  <2> QED
    BY <2>1 DEF IInv, LoadPushedOnce, Started
<1> QED
  BY <1>2, <1>3 DEF Election

LEMMA StartKept ==
  ASSUME IInv,
         \A c \in Cycles : /\ (MayStart(c) /\ Dispatched(c) # {})'
                           => MayStart(c) /\ Dispatched(c) # {},
         \A i \in Transforms : Waking(i) => Waking(i)'
  PROVE  StartNotLost'
BY DEF IInv, StartNotLost, TransformJobs

LEMMA CompletionKept ==
  ASSUME IInv,
         \A c \in Cycles : MayComplete(c)' => MayComplete(c),
         \A j \in Loads : Finishing(j) => Finishing(j)'
  PROVE  CompletionNotLost'
BY DEF IInv, CompletionNotLost, LoadJobs

-----------------------------------------------------------------------------
(* The orchestrator's steps. *)

LEMMA CreateCycleStep == ASSUME IInv, NEW c \in Cycles, CreateCycle(c) PROVE IInv'
<1> USE DEF IInv, TypeOK, CreateCycle, memory, data
<1>1. TypeOK'
  BY DEF PipelineTypeOK, DataTypeOK, JobTypeOK, MemoryTypeOK, CycleStatuses, LoadStatuses
<1>2. cycle[c] = "none" /\ Dispatched(c)' = {}
  BY DEF NothingBeforeCreation, Dispatched, Undispatched
<1>3. \A d \in Cycles : d # c => cycle'[d] = cycle[d] /\ Dispatched(d)' = Dispatched(d)
  BY DEF PipelineTypeOK, Dispatched, Undispatched
<1>4. \A d \in Cycles : Started(d) => Started(d)'
  BY <1>2, <1>3 DEF Started
<1>5. NothingBeforeCreation'
  BY DEF NothingBeforeCreation, PipelineTypeOK
<1>6. LoadedIsStarted'
  BY <1>4 DEF LoadedIsStarted, LoadBatches, PipelineTypeOK
<1>7. Election' /\ LoadPushedOnce'
  BY <1>4, ElectionKept
<1>8. StartNotLost'
  BY <1>2, <1>3 DEF StartNotLost, MayStart, Waking, TransformJobs
<1>9. CompletionNotLost'
  <2>1. ASSUME NEW d \in Cycles, MayComplete(d)' PROVE MayComplete(d)
    <3>1. d # c
      BY <2>1 DEF MayComplete, PipelineTypeOK
    <3> QED
      BY <2>1, <1>3, <3>1 DEF MayComplete, LoadBatches
  <2> QED
    BY <2>1, CompletionKept DEF Finishing
<1> QED
  BY <1>1, <1>5, <1>6, <1>7, <1>8, <1>9

LEMMA DispatchHourStep == ASSUME IInv, NEW c \in Cycles, DispatchHour(c) PROVE IInv'
<1> USE DEF IInv, TypeOK, DispatchHour, memory, data
<1> DEFINE h == Min(Undispatched(c))
<1>1. h \in Hours
  <2>1. Undispatched(c) \in SUBSET Nat
    BY EpaAssumption DEF Undispatched
  <2> QED
    BY <2>1, MinOfNaturals DEF Undispatched
<1> HIDE DEF h
<1>2. staging' = [staging EXCEPT ![<<c, h>>] = "queued"] /\ <<c, h>> \in Batches
  BY <1>1 DEF h, Batches
<1>3. TypeOK'
  BY <1>2 DEF PipelineTypeOK, DataTypeOK, JobTypeOK, MemoryTypeOK, StagingStatuses
<1>4. ASSUME NEW d \in Cycles, (MayStart(d) /\ Dispatched(d) # {})'
      PROVE  MayStart(d) /\ Dispatched(d) # {}
  <2>1. d # c
    <3> SUFFICES ASSUME d = c PROVE FALSE
      OBVIOUS
    <3>1. staging'[<<c, h>>] = "queued"
      BY <1>2 DEF PipelineTypeOK
    <3> QED
      BY <1>1, <1>4, <3>1 DEF MayStart, Dispatched, Undispatched
  <2>2. \A k \in Hours : staging'[<<d, k>>] = staging[<<d, k>>]
    BY <1>2, <2>1 DEF PipelineTypeOK, Batches
  <2> QED
    BY <1>4, <2>2 DEF MayStart, Dispatched, Undispatched
<1>5. NothingBeforeCreation' /\ LoadedIsStarted'
  BY <1>2 DEF NothingBeforeCreation, LoadedIsStarted, PipelineTypeOK, Batches, Started
<1>6. Election' /\ LoadPushedOnce'
  BY ElectionKept DEF Started
<1>7. StartNotLost'
  BY <1>4, StartKept DEF Waking
<1>8. CompletionNotLost'
  BY CompletionKept DEF Finishing, MayComplete
<1> QED
  BY <1>3, <1>5, <1>6, <1>7, <1>8

LEMMA PushExtractStep == ASSUME IInv, NEW c \in Cycles, PushExtract(c) PROVE IInv'
<1> USE DEF IInv, TypeOK, memory, data, pipeline
<1> DEFINE b == <<c, Max(Dispatched(c))>>
           j == Pushed("extract", b)
<1>1. /\ pc' = [pc EXCEPT ![j] = "queued"] /\ pc[j] = "none" /\ j[1] = "extract"
      /\ CycleOf(j) = c
  BY PushedJob DEF PushExtract, Arg, CycleOf
<1>2. UNCHANGED <<published, cycle, staging, loading, raw, transformed, station, retried,
                  seen, fetched, rawRead, toPush, rowsRead, faults>>
  BY DEF PushExtract
<1>3. orchestrator' \in [Cycles -> {"idle", "dispatching", "pushing", "done", "dead"}]
      /\ \A d \in Cycles : orchestrator'[d] = "idle" <=> orchestrator[d] = "idle"
  BY DEF PushExtract, PipelineTypeOK
<1>4. orchestrator[c] # "idle"
  BY DEF PushExtract
<1> HIDE DEF b, j
<1>5. /\ \A i \in Jobs : pc'[i] = pc[i] \/ (i = j /\ pc'[i] = "queued")
      /\ pc' \in [Jobs -> ExtractPhases \cup TransformPhases \cup LoadPhases]
  BY <1>1 DEF JobTypeOK, ExtractPhases
<1>6. \A i \in Transforms \cup Loads : pc'[i] = pc[i]
  BY <1>1, <1>5, JobKinds, JobShape
<1>7. TypeOK'
  BY <1>2, <1>3, <1>5, <1>6, JobKinds
  DEF PipelineTypeOK, DataTypeOK, JobTypeOK, MemoryTypeOK, ExtractPhases
<1>8. NothingBeforeCreation' /\ LoadedIsStarted'
  <2>1. \A i \in Jobs : CycleOf(i) \in Cycles
    BY JobShape DEF Jobs
  <2>2. ASSUME NEW i \in Jobs, pc'[i] # "none" PROVE orchestrator[CycleOf(i)] # "idle"
    BY <1>1, <1>4, <1>5, <2>2 DEF NothingBeforeCreation
  <2>3. ASSUME NEW i \in Jobs, pc'[i] # "none" PROVE orchestrator'[CycleOf(i)] # "idle"
    BY <1>3, <2>1, <2>2, <2>3
  <2> QED
    BY <1>2, <1>3, <2>3 DEF NothingBeforeCreation, LoadedIsStarted, Started
<1>9. Election' /\ LoadPushedOnce'
  BY <1>2, <1>6, ElectionKept DEF Started
<1>10. StartNotLost'
  BY <1>2, <1>6, StartKept DEF Waking, MayStart, Dispatched, Undispatched
<1>11. CompletionNotLost'
  BY <1>2, <1>6, CompletionKept DEF Finishing, MayComplete
<1> QED
  BY <1>7, <1>8, <1>9, <1>10, <1>11

LEMMA InterruptOrchestratorStep ==
  ASSUME IInv, NEW c \in Cycles, InterruptOrchestrator(c) PROVE IInv'
<1> USE DEF IInv, TypeOK, InterruptOrchestrator, memory, data, pipeline
<1>1. TypeOK'
  BY EpaAssumption DEF PipelineTypeOK, DataTypeOK, JobTypeOK, MemoryTypeOK
<1>2. NothingBeforeCreation' /\ LoadedIsStarted'
  BY DEF NothingBeforeCreation, LoadedIsStarted, PipelineTypeOK, Started
<1>3. Election' /\ LoadPushedOnce'
  BY ElectionKept DEF Started
<1>4. StartNotLost'
  BY StartKept DEF Waking, MayStart, Dispatched, Undispatched
<1>5. CompletionNotLost'
  BY CompletionKept DEF Finishing, MayComplete
<1> QED
  BY <1>1, <1>2, <1>3, <1>4, <1>5

-----------------------------------------------------------------------------
(* The jobs' steps. *)

\* A job that goes from one place to another, neither of them "none", leaves the
\* bookkeeping as it is when cycles, dispatching and load batches stay.
LEMMA MoveKept ==
  ASSUME IInv, NEW j \in Jobs, NEW where, GoTo(j, where), pc[j] # "none",
         where # "none", where # "enqueuing",
         UNCHANGED <<cycle, loading, orchestrator>>,
         \A i \in Transforms : toPush'[i] \subseteq toPush[i],
         \A c \in Cycles, h \in Hours :
           orchestrator[c] = "idle" => staging'[<<c, h>>] = staging[<<c, h>>]
  PROVE  /\ NothingBeforeCreation' /\ LoadedIsStarted'
         /\ Election' /\ LoadPushedOnce'
<1>1. pc' = [pc EXCEPT ![j] = where] /\ pc \in [Jobs -> ExtractPhases \cup TransformPhases \cup LoadPhases]
  BY DEF GoTo, IInv, TypeOK, JobTypeOK
<1>2. \A i \in Jobs : pc'[i] = "none" <=> pc[i] = "none"
  BY <1>1
<1>3. NothingBeforeCreation'
  BY <1>2 DEF IInv, NothingBeforeCreation
<1>4. LoadedIsStarted'
  BY DEF IInv, LoadedIsStarted, Started
<1>5. Election' /\ LoadPushedOnce'
  BY <1>1, <1>2, JobKinds, ElectionKept DEF Started
<1> QED
  BY <1>3, <1>4, <1>5

\* Where a job goes is one of the places of its kind.
LEMMA GoToType ==
  ASSUME TypeOK, NEW j \in Jobs, NEW where, GoTo(j, where),
         j \in Extracts => where \in ExtractPhases,
         j \in Transforms => where \in TransformPhases,
         j \in Loads => where \in LoadPhases,
         retried' \in SUBSET Transforms, faults' \in 0..MaxFaults
  PROVE  JobTypeOK'
<1>1. pc' = [pc EXCEPT ![j] = where]
      /\ pc \in [Jobs -> ExtractPhases \cup TransformPhases \cup LoadPhases]
  BY DEF GoTo, TypeOK, JobTypeOK
<1>2. where \in ExtractPhases \cup TransformPhases \cup LoadPhases
  BY DEF Jobs
<1> QED
  BY <1>1, <1>2, JobKinds DEF TypeOK, JobTypeOK

LEMMA FetchStep == ASSUME IInv, NEW j \in Extracts, Fetch(j) PROVE IInv'
<1> USE DEF IInv, TypeOK, Fetch, data, pipeline
<1>1. j \in Jobs /\ Arg(j) \in Batches /\ Arg(j)[2] \in Hours
  BY JobKinds, JobShape DEF Batches
<1>2. TypeOK'
  BY <1>1, JobKinds
  DEF PipelineTypeOK, DataTypeOK, JobTypeOK, MemoryTypeOK, GoTo, ExtractPhases
<1>3. NothingBeforeCreation' /\ LoadedIsStarted' /\ Election' /\ LoadPushedOnce'
  BY <1>1, MoveKept
<1>4. \A i \in Transforms \cup Loads : pc'[i] = pc[i]
  BY <1>1, JobKinds DEF GoTo, JobTypeOK
<1>5. StartNotLost'
  BY <1>4, StartKept DEF Waking, MayStart, Dispatched, Undispatched
<1>6. CompletionNotLost'
  BY <1>4, CompletionKept DEF Finishing, MayComplete
<1> QED
  BY <1>2, <1>3, <1>5, <1>6

LEMMA StoreRawStep == ASSUME IInv, NEW j \in Extracts, StoreRaw(j) PROVE IInv'
<1> USE DEF IInv, TypeOK, StoreRaw
<1>1. j \in Jobs /\ Arg(j) \in Batches /\ CycleOf(j) \in Cycles
  BY JobKinds, JobShape
<1>2. /\ staging' \in [Batches -> StagingStatuses]
      /\ \A b \in Batches : staging'[b] = staging[b] \/ staging'[b] = "extracted"
  BY <1>1 DEF Mark, PipelineTypeOK, StagingStatuses
<1>3. raw' \in [Batches -> Seq(Versions \ {0})]
  <2>1. fetched[j] # 0 => Append(raw[Arg(j)], fetched[j]) \in Seq(Versions \ {0})
    BY <1>1 DEF MemoryTypeOK, DataTypeOK
  <2> QED
    BY <2>1, <1>1 DEF DataTypeOK
<1>4. fetched' \in [Extracts -> Versions]
  BY EpaAssumption DEF MemoryTypeOK, Versions
<1>5. TypeOK'
  <2>1. JobTypeOK'
    BY <1>1, JobKinds, GoToType DEF ExtractPhases, JobTypeOK
  <2> QED
    BY <2>1, <1>2, <1>3, <1>4 DEF PipelineTypeOK, DataTypeOK, MemoryTypeOK
<1>6. ASSUME NEW c \in Cycles, orchestrator[c] = "idle", NEW h \in Hours
      PROVE  staging'[<<c, h>>] = staging[<<c, h>>]
  <2>1. CycleOf(j) # c
    BY <1>1, <1>6 DEF NothingBeforeCreation
  <2> QED
    BY <1>1, <2>1 DEF Mark, CycleOf, PipelineTypeOK, Batches
<1>7. NothingBeforeCreation' /\ LoadedIsStarted' /\ Election' /\ LoadPushedOnce'
  BY <1>1, <1>6, MoveKept
<1>8. ASSUME NEW c \in Cycles, (MayStart(c) /\ Dispatched(c) # {})'
      PROVE  MayStart(c) /\ Dispatched(c) # {}
  <2>1. \A h \in Hours : staging'[<<c, h>>] # "extracted"
    BY <1>8 DEF MayStart, Dispatched, Undispatched
  <2>2. \A h \in Hours : staging'[<<c, h>>] = staging[<<c, h>>]
    BY <1>2, <2>1 DEF Batches
  <2> QED
    BY <1>8, <2>2 DEF MayStart, Dispatched, Undispatched
<1>9. \A i \in Transforms \cup Loads : pc'[i] = pc[i]
  BY <1>1, JobKinds DEF GoTo, JobTypeOK
<1>10. StartNotLost'
  BY <1>8, <1>9, StartKept DEF Waking
<1>11. CompletionNotLost'
  BY <1>9, CompletionKept DEF Finishing, MayComplete
<1> QED
  BY <1>5, <1>7, <1>10, <1>11

LEMMA PushTransformStep == ASSUME IInv, NEW j \in Extracts, PushTransform(j) PROVE IInv'
<1> USE DEF IInv, TypeOK, memory, data, pipeline
<1> DEFINE k == Pushed("transform", Arg(j))
<1>1. j \in Jobs /\ Arg(j) \in Batches /\ CycleOf(j) \in Cycles
  BY JobKinds, JobShape
<1>2. /\ pc' = [pc EXCEPT ![j] = "done", ![k] = "queued"] /\ pc[k] = "none"
      /\ pc[j] = "pushing" /\ k \in Transforms /\ CycleOf(k) = CycleOf(j)
  BY <1>1, PushedJob DEF PushTransform, Transforms, CycleOf, Arg
<1>3. UNCHANGED <<published, pipeline, orchestrator, data, retried, memory, faults>>
  BY DEF PushTransform
<1> HIDE DEF k
<1>4. /\ k # j /\ k \in Jobs /\ pc'[j] = "done" /\ pc'[k] = "queued"
      /\ \A i \in Jobs : i # j /\ i # k => pc'[i] = pc[i]
      /\ pc' \in [Jobs -> ExtractPhases \cup TransformPhases \cup LoadPhases]
  BY <1>1, <1>2, JobKinds DEF JobTypeOK, ExtractPhases, TransformPhases
<1>5. TypeOK'
  <2>1. JobTypeOK'
    <3>1. \A i \in Jobs : pc'[i] \in {pc[i], "done", "queued"}
      BY <1>4
    <3>2. \A i \in Loads : pc'[i] = pc[i]
      BY <1>2, <1>4, JobKinds
    <3> QED
      BY <3>1, <3>2, <1>3, <1>4, JobKinds DEF JobTypeOK, ExtractPhases, TransformPhases
  <2> QED
    BY <2>1, <1>3 DEF PipelineTypeOK, DataTypeOK, MemoryTypeOK
<1>6. NothingBeforeCreation' /\ LoadedIsStarted'
  BY <1>1, <1>2, <1>3, <1>4 DEF NothingBeforeCreation, LoadedIsStarted, Started
<1>7. Election' /\ LoadPushedOnce'
  BY <1>2, <1>3, <1>4, JobKinds, ElectionKept DEF Started
<1>8. StartNotLost'
  BY <1>2, <1>3, <1>4, JobKinds, StartKept DEF Waking, MayStart, Dispatched, Undispatched
<1>9. CompletionNotLost'
  BY <1>2, <1>3, <1>4, JobKinds, CompletionKept DEF Finishing, MayComplete
<1> QED
  BY <1>5, <1>6, <1>7, <1>8, <1>9

LEMMA ReadRawStep == ASSUME IInv, NEW j \in Transforms, ReadRaw(j) PROVE IInv'
<1> USE DEF IInv, TypeOK, ReadRaw, data, pipeline
<1>1. j \in Jobs /\ Arg(j) \in Batches /\ CycleOf(j) \in Cycles
  BY JobKinds, JobShape
<1>2. TypeOK'
  <2>1. JobTypeOK'
    BY <1>1, JobKinds, GoToType DEF TransformPhases, JobTypeOK
  <2> QED
    BY <2>1, <1>1 DEF PipelineTypeOK, DataTypeOK, MemoryTypeOK
<1>3. NothingBeforeCreation' /\ LoadedIsStarted' /\ Election' /\ LoadPushedOnce'
  BY <1>1, MoveKept
<1>4. pc'[j] = "read" /\ \A i \in Jobs : i # j => pc'[i] = pc[i]
  BY <1>1 DEF GoTo, JobTypeOK
<1>5. StartNotLost'
  BY <1>4, JobKinds, StartKept DEF Waking, MayStart, Dispatched, Undispatched
<1>6. CompletionNotLost'
  BY <1>4, JobKinds, CompletionKept DEF Finishing, MayComplete
<1> QED
  BY <1>2, <1>3, <1>5, <1>6

LEMMA UpsertStep == ASSUME IInv, NEW j \in Transforms, Upsert(j) PROVE IInv'
<1> USE DEF IInv, TypeOK
<1>1. j \in Jobs /\ Arg(j) \in Batches /\ CycleOf(j) \in Cycles /\ Arg(j)[2] \in Hours
      /\ Arg(j) = <<CycleOf(j), Arg(j)[2]>>
  BY JobKinds, JobShape DEF Batches, CycleOf
<1> DEFINE where == IF Len(rawRead[j]) > 1 THEN (IF j \in retried THEN "dead" ELSE "queued")
                    ELSE "starting"
<1>2. /\ pc[j] = "read" /\ GoTo(j, where)
      /\ where \in {"dead", "queued", "starting"}
      /\ retried' \in SUBSET Transforms
      /\ rawRead' = [rawRead EXCEPT ![j] = <<>>]
      /\ UNCHANGED <<published, cycle, loading, orchestrator, raw, station, seen, fetched,
                     toPush, rowsRead, faults>>
  BY DEF Upsert, Raise, AfterUpsert, JobTypeOK, MemoryTypeOK
<1>3. /\ staging' \in [Batches -> StagingStatuses]
      /\ \A b \in Batches : b # Arg(j) => staging'[b] = staging[b]
  BY <1>1 DEF Upsert, Mark, PipelineTypeOK, StagingStatuses
<1>4. transformed' \in [Hours -> [value : Versions, owner : Cycles \cup {0}]]
  <2>1. Len(rawRead[j]) <= 1 /\ rawRead[j] # <<>> => rawRead[j][1] \in Versions
    BY DEF MemoryTypeOK
  <2> QED
    BY <1>1, <2>1 DEF Upsert, TakeOver, DataTypeOK
<1> HIDE DEF where
<1>5. TypeOK'
  <2>1. JobTypeOK'
    BY <1>1, <1>2, JobKinds, GoToType DEF TransformPhases, JobTypeOK
  <2>2. rawRead' \in [Transforms -> Seq(Versions \ {0})]
    BY <1>2 DEF MemoryTypeOK
  <2> QED
    BY <2>1, <2>2, <1>2, <1>3, <1>4 DEF PipelineTypeOK, DataTypeOK, MemoryTypeOK
<1>6. ASSUME NEW c \in Cycles, orchestrator[c] = "idle", NEW h \in Hours
      PROVE  staging'[<<c, h>>] = staging[<<c, h>>]
  <2>1. CycleOf(j) # c
    BY <1>1, <1>2, <1>6 DEF NothingBeforeCreation
  <2> QED
    BY <1>1, <1>3, <2>1 DEF Batches
<1>7. NothingBeforeCreation' /\ LoadedIsStarted' /\ Election' /\ LoadPushedOnce'
  BY <1>1, <1>2, <1>6, MoveKept
<1>8. /\ pc'[j] \in {"dead", "queued", "starting"}
      /\ \A i \in Jobs : i # j => pc'[i] = pc[i]
  BY <1>1, <1>2 DEF GoTo, JobTypeOK
<1>9. StartNotLost'
  <2> SUFFICES ASSUME NEW c \in Cycles, (MayStart(c) /\ Dispatched(c) # {})'
               PROVE  \E i \in TransformJobs(c) : Waking(i)'
    BY DEF StartNotLost, TransformJobs
  <2>1. CASE c = CycleOf(j)
    BY <1>8, <2>1 DEF TransformJobs, Waking
  <2>2. CASE c # CycleOf(j)
    <3>1. \A h \in Hours : staging'[<<c, h>>] = staging[<<c, h>>]
      BY <1>1, <1>3, <2>2 DEF Batches
    <3>2. MayStart(c) /\ Dispatched(c) # {}
      BY <1>2, <3>1 DEF MayStart, Dispatched, Undispatched
    <3>3. PICK i \in TransformJobs(c) : Waking(i)
      BY <3>2 DEF StartNotLost
    <3> QED
      BY <1>8, <2>2, <3>3, JobKinds DEF TransformJobs, Waking
  <2> QED
    BY <2>1, <2>2
<1>10. CompletionNotLost'
  BY <1>1, <1>2, <1>8, JobKinds, CompletionKept DEF Finishing, MayComplete
<1> QED
  BY <1>5, <1>7, <1>9, <1>10

LEMMA TryStartStep == ASSUME IInv, NEW j \in Transforms, TryStart(j) PROVE IInv'
<1> USE DEF IInv, TypeOK, data
<1> DEFINE c == CycleOf(j)
<1>1. j \in Jobs /\ c \in Cycles /\ Arg(j) \in Batches
  BY JobKinds, JobShape
<1>2. /\ pc[j] = "starting"
      /\ UNCHANGED <<published, staging, loading, orchestrator, data, retried, seen,
                     fetched, rawRead, rowsRead, faults>>
  BY DEF TryStart
<1> HIDE DEF c
<1>3. CASE MayStart(c)
  <2>1. /\ cycle' = [cycle EXCEPT ![c] = "loading"] /\ GoTo(j, "enqueuing")
        /\ toPush' = [toPush EXCEPT ![j] = Types]
    BY <1>3 DEF TryStart, c
  <2>2. cycle[c] = "staging" /\ cycle'[c] = "loading"
        /\ \A d \in Cycles : d # c => cycle'[d] = cycle[d]
    BY <1>1, <1>3, <2>1 DEF MayStart, PipelineTypeOK
  <2>3. pc'[j] = "enqueuing" /\ \A i \in Jobs : i # j => pc'[i] = pc[i]
    BY <1>1, <2>1 DEF GoTo, JobTypeOK
  <2>4. toPush'[j] = Types /\ \A i \in Transforms : i # j => toPush'[i] = toPush[i]
    BY <2>1 DEF MemoryTypeOK
  <2>5. TypeOK'
    <3>1. JobTypeOK'
      BY <1>1, <1>2, <2>1, JobKinds, GoToType DEF TransformPhases, JobTypeOK
    <3> QED
      BY <3>1, <1>2, <2>1 DEF PipelineTypeOK, DataTypeOK, MemoryTypeOK, CycleStatuses
  <2>6. NothingBeforeCreation' /\ LoadedIsStarted'
    <3>1. orchestrator[c] # "idle"
      BY <1>1, <1>2, JobKinds DEF NothingBeforeCreation, c
    <3>2. \A i \in Jobs : pc'[i] # "none" => pc[i] # "none"
      BY <1>2, <2>3
    <3> QED
      BY <1>2, <2>2, <3>1, <3>2 DEF NothingBeforeCreation, LoadedIsStarted, Started
  <2>7. \A t \in Types, n \in 1..MaxCopies : pc[<<"load", <<c, t>>, n>>] = "none"
    <3> SUFFICES ASSUME NEW t \in Types, NEW n \in 1..MaxCopies
                 PROVE  pc[<<"load", <<c, t>>, n>>] = "none"
      OBVIOUS
    <3>1. <<c, t>> \in LoadBatches /\ <<c, t>>[1] = c
      BY <1>1 DEF LoadBatches
    <3> QED
      BY <2>2, <3>1 DEF LoadPushedOnce
  <2>8. ASSUME NEW i \in Transforms, pc[i] = "enqueuing" PROVE CycleOf(i) # c
    BY <2>2, <2>8 DEF Election, Elected, Started
  <2>9. Election'
    <3>1. \A t \in Types, n \in 1..MaxCopies : <<"load", <<c, t>>, n>> \in Loads
      BY <1>1 DEF Loads, LoadBatches
    <3>2. Elected(j)'
      BY <2>2, <2>3, <2>4, <2>7, <2>8, <3>1, JobKinds DEF Elected, Started, c
    <3>3. ASSUME NEW i \in Transforms, i # j, pc'[i] = "enqueuing" PROVE Elected(i)'
      <4>1. CycleOf(i) # c /\ CycleOf(i) \in Cycles /\ pc[i] = "enqueuing"
        BY <2>3, <2>8, <3>3, JobKinds, JobShape
      <4>2. toPush[i] \in SUBSET Types
        BY DEF MemoryTypeOK
      <4>3. \A t \in Types, n \in 1..MaxCopies : <<"load", <<CycleOf(i), t>>, n>> \in Loads
        BY <4>1 DEF Loads, LoadBatches
      <4> QED
        BY <2>2, <2>3, <2>4, <3>3, <4>1, <4>2, <4>3, JobKinds
        DEF Election, Elected, Started, c
    <3> QED
      BY <3>2, <3>3 DEF Election, Elected
  <2>10. LoadPushedOnce'
    <3> SUFFICES ASSUME NEW l \in LoadBatches, NEW m \in 1..MaxCopies, NEW n \in 1..MaxCopies,
                        pc'[<<"load", l, m>>] # "none"
                 PROVE  /\ Started(l[1])'
                        /\ pc'[<<"load", l, n>>] # "none" => m = n
      BY DEF LoadPushedOnce, Started
    <3>1. <<"load", l, m>> \in Loads /\ <<"load", l, n>> \in Loads /\ l[1] \in Cycles
      BY DEF Loads, LoadBatches
    <3> QED
      BY <2>2, <2>3, <3>1, JobKinds DEF LoadPushedOnce, Started
  <2>11. StartNotLost'
    <3> SUFFICES ASSUME NEW d \in Cycles, (MayStart(d) /\ Dispatched(d) # {})'
                 PROVE  \E i \in TransformJobs(d) : Waking(i)'
      BY DEF StartNotLost, TransformJobs
    <3>1. d # c
      BY <2>2 DEF MayStart
    <3>2. MayStart(d) /\ Dispatched(d) # {}
      BY <1>2, <2>2, <3>1 DEF MayStart, Dispatched, Undispatched
    <3>3. PICK i \in TransformJobs(d) : Waking(i)
      BY <3>2 DEF StartNotLost
    <3> QED
      BY <2>3, <3>1, <3>3, JobKinds DEF TransformJobs, Waking, c
  <2>12. CompletionNotLost'
    <3>1. ASSUME NEW d \in Cycles, MayComplete(d)' PROVE MayComplete(d)
      <4>1. d # c
        <5> SUFFICES ASSUME d = c PROVE FALSE
          OBVIOUS
        <5>1. PICK t \in Types : TRUE
          BY EpaAssumption
        <5>2. loading[<<c, t>>] = "completed"
          BY <1>2, <3>1, <5>1 DEF MayComplete
        <5> QED
          BY <1>1, <2>2, <5>1, <5>2 DEF LoadedIsStarted, Started
      <4> QED
        BY <1>2, <2>2, <3>1, <4>1 DEF MayComplete
    <3> QED
      BY <3>1, <2>3, JobKinds, CompletionKept DEF Finishing
  <2> QED
    BY <2>5, <2>6, <2>9, <2>10, <2>11, <2>12
<1>4. CASE ~ MayStart(c)
  <2>1. GoTo(j, "done") /\ UNCHANGED <<cycle, toPush>>
    BY <1>4 DEF TryStart, c
  <2>2. TypeOK'
    <3>1. JobTypeOK'
      BY <1>1, <1>2, <2>1, JobKinds, GoToType DEF TransformPhases, JobTypeOK
    <3> QED
      BY <3>1, <1>2, <2>1 DEF PipelineTypeOK, DataTypeOK, MemoryTypeOK
  <2>3. NothingBeforeCreation' /\ LoadedIsStarted' /\ Election' /\ LoadPushedOnce'
    BY <1>1, <1>2, <2>1, MoveKept
  <2>4. pc'[j] = "done" /\ \A i \in Jobs : i # j => pc'[i] = pc[i]
    BY <1>1, <2>1 DEF GoTo, JobTypeOK
  <2>5. StartNotLost'
    <3> SUFFICES ASSUME NEW d \in Cycles, (MayStart(d) /\ Dispatched(d) # {})'
                 PROVE  \E i \in TransformJobs(d) : Waking(i)'
      BY DEF StartNotLost, TransformJobs
    <3>1. MayStart(d) /\ Dispatched(d) # {}
      BY <1>2, <2>1 DEF MayStart, Dispatched, Undispatched
    <3>2. d # c
      BY <1>4, <3>1
    <3>3. PICK i \in TransformJobs(d) : Waking(i)
      BY <3>1 DEF StartNotLost
    <3> QED
      BY <2>4, <3>2, <3>3, JobKinds DEF TransformJobs, Waking, c
  <2>6. CompletionNotLost'
    BY <1>2, <2>1, <2>4, JobKinds, CompletionKept DEF Finishing, MayComplete
  <2> QED
    BY <2>2, <2>3, <2>5, <2>6
<1> QED
  BY <1>3, <1>4

LEMMA PushLoadStep ==
  ASSUME IInv, NEW j \in Transforms, NEW t \in Types, PushLoad(j, t) PROVE IInv'
<1> USE DEF IInv, TypeOK, data, pipeline
<1> DEFINE l == <<CycleOf(j), t>>
           k == Pushed("load", l)
           c == CycleOf(j)
<1>1. j \in Jobs /\ Arg(j) \in Batches /\ c \in Cycles /\ l \in LoadBatches
  BY JobKinds, JobShape DEF LoadBatches
<1>2. /\ pc[k] = "none" /\ k \in Loads /\ k \in {"load"} \X {l} \X (1..MaxCopies)
      /\ CycleOf(k) = c /\ Arg(k) = l
  BY <1>1, PushedJob DEF PushLoad, Loads, CycleOf, Arg
<1>3. /\ pc[j] = "enqueuing" /\ t \in toPush[j]
      /\ toPush' = [toPush EXCEPT ![j] = @ \ {t}]
      /\ pc' = [pc EXCEPT ![j] = IF toPush[j] = {t} THEN "done" ELSE @, ![k] = "queued"]
      /\ UNCHANGED <<published, pipeline, orchestrator, data, retried, seen, fetched,
                     rawRead, rowsRead, faults>>
  BY DEF PushLoad
<1> HIDE DEF k, l, c
<1>4. /\ k # j /\ k \in Jobs /\ pc'[j] \in {"done", "enqueuing"} /\ pc'[k] = "queued"
      /\ \A i \in Jobs : i # j /\ i # k => pc'[i] = pc[i]
      /\ pc' \in [Jobs -> ExtractPhases \cup TransformPhases \cup LoadPhases]
  BY <1>1, <1>2, <1>3, JobKinds DEF JobTypeOK, LoadPhases, TransformPhases
<1>5. /\ toPush'[j] = toPush[j] \ {t}
      /\ \A i \in Transforms : i # j => toPush'[i] = toPush[i]
      /\ toPush' \in [Transforms -> SUBSET Types]
  BY <1>3 DEF MemoryTypeOK
<1>6. TypeOK'
  <2>1. JobTypeOK'
    <3>1. \A i \in Extracts : pc'[i] = pc[i]
      BY <1>2, <1>4, JobKinds
    <3>2. \A i \in Transforms : pc'[i] \in {pc[i], "done", "enqueuing"}
      BY <1>2, <1>4, JobKinds
    <3>3. \A i \in Loads : pc'[i] \in {pc[i], "queued"}
      BY <1>2, <1>4, JobKinds
    <3> QED
      BY <3>1, <3>2, <3>3, <1>3, <1>4 DEF JobTypeOK, LoadPhases, TransformPhases
  <2> QED
    BY <2>1, <1>3, <1>5 DEF PipelineTypeOK, DataTypeOK, MemoryTypeOK
<1>7. NothingBeforeCreation' /\ LoadedIsStarted'
  <2>1. orchestrator[c] # "idle"
    BY <1>1, <1>3 DEF NothingBeforeCreation, c
  <2> QED
    BY <1>2, <1>3, <1>4, <2>1, <1>1 DEF NothingBeforeCreation, LoadedIsStarted, Started, c
<1>8. Started(c) /\ \A n \in 1..MaxCopies : pc[<<"load", l, n>>] = "none"
  BY <1>3 DEF Election, Elected, l, c
<1>9. Election'
  <2> SUFFICES ASSUME NEW i \in Transforms, pc'[i] = "enqueuing" PROVE Elected(i)'
    BY DEF Election, Elected
  <2>1. pc[i] = "enqueuing" /\ toPush'[i] \subseteq toPush[i] /\ toPush[i] \in SUBSET Types
    BY <1>2, <1>3, <1>4, <1>5, JobKinds DEF MemoryTypeOK
  <2>2. \A h \in Transforms : pc'[h] = "enqueuing" => pc[h] = "enqueuing"
    BY <1>2, <1>3, <1>4, JobKinds
  <2>3. ASSUME NEW s \in toPush'[i], NEW n \in 1..MaxCopies
        PROVE  pc'[<<"load", <<CycleOf(i), s>>, n>>] = "none"
    <3>1. <<"load", <<CycleOf(i), s>>, n>> \in Loads
      BY <2>1, JobShape DEF Loads, LoadBatches
    <3>2. pc[<<"load", <<CycleOf(i), s>>, n>>] = "none"
      BY <2>1, <2>3 DEF Election, Elected
    <3>3. <<CycleOf(i), s>> # l
      <4>1. CASE i = j
        <5>1. s # t
          BY <4>1, <1>5, <2>3
        <5> QED
          BY <5>1 DEF l
      <4>2. CASE i # j
        <5>1. CycleOf(i) # CycleOf(j)
          BY <4>2, <2>1, <1>3 DEF Election, Elected
        <5> QED
          BY <5>1 DEF l
      <4> QED BY <4>1, <4>2
    <3> QED
      BY <1>2, <1>4, <3>1, <3>2, <3>3, JobKinds
  <2>4. Started(CycleOf(i))'
    BY <2>1, <1>3 DEF Election, Elected, Started
  <2> QED
    BY <2>1, <2>2, <2>3, <2>4 DEF Election, Elected
<1>10. LoadPushedOnce'
  <2> SUFFICES ASSUME NEW q \in LoadBatches, NEW m \in 1..MaxCopies, NEW n \in 1..MaxCopies,
                      pc'[<<"load", q, m>>] # "none"
               PROVE  /\ Started(q[1])'
                      /\ pc'[<<"load", q, n>>] # "none" => m = n
    BY DEF LoadPushedOnce, Started
  <2>1. <<"load", q, m>> \in Loads /\ <<"load", q, n>> \in Loads
    BY DEF Loads
  <2>2. CASE q = l
    <3>1. \A p \in 1..MaxCopies : pc'[<<"load", l, p>>] # "none" => <<"load", l, p>> = k
      <4>1. \A p \in 1..MaxCopies : <<"load", l, p>> \in Loads
        BY <1>1 DEF Loads
      <4> QED
        BY <1>4, <1>8, <4>1, JobKinds
    <3>2. q[1] = c
      BY <2>2 DEF l, c
    <3>3. ASSUME pc'[<<"load", q, n>>] # "none" PROVE m = n
      <4>1. <<"load", l, m>> = <<"load", l, n>>
        BY <2>2, <3>1, <3>3
      <4> QED
        BY <4>1
    <3>4. Started(q[1])'
      BY <3>2, <1>3, <1>8 DEF Started
    <3> QED
      BY <3>3, <3>4
  <2>3. CASE q # l
    <3>1. <<"load", q, m>> # k /\ <<"load", q, n>> # k
      BY <1>2, <2>3
    <3>2. /\ pc'[<<"load", q, m>>] = pc[<<"load", q, m>>]
          /\ pc'[<<"load", q, n>>] = pc[<<"load", q, n>>]
      BY <1>4, <2>1, <3>1, JobKinds
    <3>3. Started(q[1])
      BY <3>2 DEF LoadPushedOnce, Started
    <3>4. pc'[<<"load", q, n>>] # "none" => m = n
      BY <3>2 DEF LoadPushedOnce
    <3> QED
      BY <1>3, <3>3, <3>4 DEF Started
  <2> QED
    BY <2>2, <2>3
<1>11. StartNotLost'
  BY <1>2, <1>3, <1>4, JobKinds, StartKept DEF Waking, MayStart, Dispatched, Undispatched
<1>12. CompletionNotLost'
  BY <1>2, <1>3, <1>4, JobKinds, CompletionKept DEF Finishing, MayComplete
<1> QED
  BY <1>6, <1>7, <1>9, <1>10, <1>11, <1>12

LEMMA ReadRowsStep == ASSUME IInv, NEW j \in Loads, ReadRows(j) PROVE IInv'
<1> USE DEF IInv, TypeOK, ReadRows, data, pipeline
<1>1. j \in Jobs /\ CycleOf(j) \in Cycles
  BY JobKinds, JobShape
<1>2. TypeOK'
  <2>1. JobTypeOK'
    BY <1>1, JobKinds, GoToType DEF LoadPhases, JobTypeOK
  <2>2. rowsRead' \in [Loads -> [Hours -> Versions]]
    BY EpaAssumption DEF MemoryTypeOK, DataTypeOK, Versions
  <2> QED
    BY <2>1, <2>2 DEF PipelineTypeOK, DataTypeOK, MemoryTypeOK
<1>3. NothingBeforeCreation' /\ LoadedIsStarted' /\ Election' /\ LoadPushedOnce'
  BY <1>1, MoveKept
<1>4. pc'[j] = "read" /\ \A i \in Jobs : i # j => pc'[i] = pc[i]
  BY <1>1 DEF GoTo, JobTypeOK
<1>5. StartNotLost'
  BY <1>4, JobKinds, StartKept DEF Waking, MayStart, Dispatched, Undispatched
<1>6. CompletionNotLost'
  BY <1>4, JobKinds, CompletionKept DEF Finishing, MayComplete
<1> QED
  BY <1>2, <1>3, <1>5, <1>6

LEMMA StoreRowsStep == ASSUME IInv, NEW j \in Loads, StoreRows(j) PROVE IInv'
<1> USE DEF IInv, TypeOK
<1> DEFINE c == CycleOf(j)
<1>1. j \in Jobs /\ c \in Cycles /\ Arg(j) \in LoadBatches /\ Arg(j) = <<c, Arg(j)[2]>>
      /\ j = <<"load", Arg(j), j[3]>> /\ j[3] \in 1..MaxCopies
  BY JobKinds, JobShape DEF LoadBatches, CycleOf, Loads, Arg
<1>2. /\ pc[j] = "read" /\ GoTo(j, "completing")
      /\ loading' = [loading EXCEPT ![Arg(j)] = "completed"]
      /\ rowsRead' = [rowsRead EXCEPT ![j] = NothingRead]
      /\ UNCHANGED <<published, cycle, staging, orchestrator, raw, transformed, retried,
                     seen, fetched, rawRead, toPush, faults>>
  BY DEF StoreRows
<1>3. Started(c)
  BY <1>1, <1>2 DEF LoadPushedOnce, Started, CycleOf
<1> HIDE DEF c
<1>4. TypeOK'
  <2>1. JobTypeOK'
    BY <1>1, <1>2, JobKinds, GoToType DEF LoadPhases, JobTypeOK
  <2>2. rowsRead' \in [Loads -> [Hours -> Versions]]
    BY <1>2, EpaAssumption DEF MemoryTypeOK, Versions, NothingRead
  <2>3. station' \in [Types \X Hours -> Versions]
    BY DEF StoreRows, DataTypeOK, MemoryTypeOK
  <2> QED
    BY <1>2, <2>1, <2>2, <2>3 DEF PipelineTypeOK, DataTypeOK, MemoryTypeOK, LoadStatuses
<1>5. \A i \in Jobs : pc'[i] = "none" <=> pc[i] = "none"
  BY <1>1, <1>2 DEF GoTo, JobTypeOK
<1>6. NothingBeforeCreation'
  BY <1>2, <1>5 DEF NothingBeforeCreation
<1>7. LoadedIsStarted'
  <2> SUFFICES ASSUME NEW d \in Cycles, NEW t \in Types, loading'[<<d, t>>] = "completed"
               PROVE  Started(d)'
    BY DEF LoadedIsStarted
  <2>1. CASE d = c
    BY <2>1, <1>2, <1>3 DEF Started
  <2>2. CASE d # c
    <3>1. <<d, t>> # Arg(j) /\ <<d, t>> \in LoadBatches
      BY <1>1, <2>2 DEF LoadBatches
    <3> QED
      BY <1>2, <3>1 DEF LoadedIsStarted, Started, PipelineTypeOK
  <2> QED
    BY <2>1, <2>2
<1>8. pc'[j] = "completing" /\ \A i \in Jobs : i # j => pc'[i] = pc[i]
  BY <1>1, <1>2 DEF GoTo, JobTypeOK
<1>9. Election' /\ LoadPushedOnce'
  BY <1>2, <1>5, <1>8, JobKinds, ElectionKept DEF Started
<1>10. StartNotLost'
  BY <1>1, <1>2, <1>8, JobKinds, StartKept DEF Waking, MayStart, Dispatched, Undispatched
<1>11. CompletionNotLost'
  <2> SUFFICES ASSUME NEW d \in Cycles, MayComplete(d)'
               PROVE  \E i \in LoadJobs(d) : Finishing(i)'
    BY DEF CompletionNotLost, LoadJobs
  <2>1. CASE d = c
    BY <1>8, <2>1 DEF LoadJobs, Finishing, c
  <2>2. CASE d # c
    <3>1. \A t \in Types : loading'[<<d, t>>] = loading[<<d, t>>]
      BY <1>1, <1>2, <2>2 DEF PipelineTypeOK, LoadBatches
    <3>2. MayComplete(d)
      BY <1>2, <3>1 DEF MayComplete
    <3>3. PICK i \in LoadJobs(d) : Finishing(i)
      BY <3>2 DEF CompletionNotLost
    <3> QED
      BY <1>8, <2>2, <3>3, JobKinds DEF LoadJobs, Finishing, c
  <2> QED
    BY <2>1, <2>2
<1> QED
  BY <1>4, <1>6, <1>7, <1>9, <1>10, <1>11

LEMMA TryCompleteStep == ASSUME IInv, NEW j \in Loads, TryComplete(j) PROVE IInv'
<1> USE DEF IInv, TypeOK, data, memory
<1> DEFINE c == CycleOf(j)
<1>1. j \in Jobs /\ c \in Cycles
  BY JobKinds, JobShape
<1>2. /\ pc[j] = "completing" /\ GoTo(j, "done")
      /\ cycle' = IF MayComplete(c) THEN [cycle EXCEPT ![c] = "completed"] ELSE cycle
      /\ UNCHANGED <<published, staging, loading, orchestrator, data, retried, memory,
                     faults>>
  BY DEF TryComplete
<1> HIDE DEF c
<1>3. /\ \A d \in Cycles : d # c => cycle'[d] = cycle[d]
      /\ MayComplete(c) => cycle[c] = "loading" /\ cycle'[c] = "completed"
      /\ ~ MayComplete(c) => cycle'[c] = cycle[c]
  BY <1>1, <1>2 DEF PipelineTypeOK, MayComplete
<1>4. TypeOK'
  <2>1. JobTypeOK'
    BY <1>1, <1>2, JobKinds, GoToType DEF LoadPhases, JobTypeOK
  <2> QED
    BY <1>2, <2>1 DEF PipelineTypeOK, DataTypeOK, MemoryTypeOK, CycleStatuses
<1>5. \A d \in Cycles : Started(d) => Started(d)'
  BY <1>3 DEF Started
<1>6. pc'[j] = "done" /\ \A i \in Jobs : i # j => pc'[i] = pc[i]
  BY <1>1, <1>2 DEF GoTo, JobTypeOK
<1>7. \A i \in Jobs : pc'[i] = "none" <=> pc[i] = "none"
  BY <1>2, <1>6
<1>8. NothingBeforeCreation'
  <2>1. orchestrator[c] # "idle"
    BY <1>1, <1>2 DEF NothingBeforeCreation, c
  <2> QED
    BY <1>2, <1>3, <1>7, <2>1 DEF NothingBeforeCreation
<1>9. LoadedIsStarted'
  BY <1>2, <1>5 DEF LoadedIsStarted
<1>10. Election' /\ LoadPushedOnce'
  BY <1>2, <1>5, <1>6, <1>7, JobKinds, ElectionKept
<1>11. StartNotLost'
  BY <1>1, <1>2, <1>3, <1>6, JobKinds, StartKept
  DEF Waking, MayStart, Dispatched, Undispatched
<1>12. CompletionNotLost'
  <2> SUFFICES ASSUME NEW d \in Cycles, MayComplete(d)'
               PROVE  \E i \in LoadJobs(d) : Finishing(i)'
    BY DEF CompletionNotLost, LoadJobs
  <2>1. MayComplete(d) /\ d # c
    BY <1>2, <1>3 DEF MayComplete
  <2>2. PICK i \in LoadJobs(d) : Finishing(i)
    BY <2>1 DEF CompletionNotLost
  <2> QED
    BY <1>6, <2>1, <2>2, JobKinds DEF LoadJobs, Finishing, c
<1> QED
  BY <1>4, <1>8, <1>9, <1>10, <1>11, <1>12

LEMMA InterruptStep == ASSUME IInv, NEW j \in Jobs, Interrupt(j) PROVE IInv'
<1> USE DEF IInv, TypeOK, data, pipeline
<1>1. PICK where \in {"queued", "dead"} : GoTo(j, where)
  BY DEF Interrupt
<1>2. /\ pc[j] \notin {"none", "done", "dead"}
      /\ faults' \in 0..MaxFaults
      /\ toPush' = [i \in Transforms |-> IF i = j THEN {} ELSE toPush[i]]
      /\ UNCHANGED <<published, pipeline, orchestrator, data, retried, seen, fetched,
                     rawRead, rowsRead>>
  BY EpaAssumption DEF Interrupt, JobTypeOK
<1>3. TypeOK'
  <2>1. JobTypeOK'
    BY <1>1, <1>2, GoToType DEF ExtractPhases, TransformPhases, LoadPhases, JobTypeOK
  <2> QED
    BY <1>2, <2>1 DEF PipelineTypeOK, DataTypeOK, MemoryTypeOK
<1>4. NothingBeforeCreation' /\ LoadedIsStarted' /\ Election' /\ LoadPushedOnce'
  BY <1>1, <1>2, MoveKept
<1>5. pc'[j] \in {"queued", "dead"} /\ \A i \in Jobs : i # j => pc'[i] = pc[i]
  BY <1>1 DEF GoTo, JobTypeOK
<1>6. StartNotLost'
  BY <1>2, <1>5, JobKinds, StartKept DEF Waking, MayStart, Dispatched, Undispatched
<1>7. CompletionNotLost'
  BY <1>2, <1>5, JobKinds, CompletionKept DEF Finishing, MayComplete
<1> QED
  BY <1>3, <1>4, <1>6, <1>7

LEMMA PublishStep == ASSUME IInv, NEW h \in Hours, Publish(h) PROVE IInv'
<1> USE DEF IInv, TypeOK, Publish, data, pipeline, memory
<1>1. TypeOK'
  BY EpaAssumption DEF PipelineTypeOK, DataTypeOK, JobTypeOK, MemoryTypeOK, Versions
<1>2. NothingBeforeCreation' /\ LoadedIsStarted'
  BY DEF NothingBeforeCreation, LoadedIsStarted, Started
<1>3. Election' /\ LoadPushedOnce'
  BY ElectionKept DEF Started
<1>4. StartNotLost'
  BY StartKept DEF Waking, MayStart, Dispatched, Undispatched
<1>5. CompletionNotLost'
  BY CompletionKept DEF Finishing, MayComplete
<1> QED
  BY <1>1, <1>2, <1>3, <1>4, <1>5

-----------------------------------------------------------------------------
LEMMA InitIsGood == Init => IInv
<1> SUFFICES ASSUME Init PROVE IInv
  OBVIOUS
<1> USE DEF Init
<1>1. TypeOK
  BY EpaAssumption, JobKinds
  DEF TypeOK, PipelineTypeOK, DataTypeOK, JobTypeOK, MemoryTypeOK, CycleStatuses,
      StagingStatuses, LoadStatuses, ExtractPhases, TransformPhases, LoadPhases,
      Versions, NoRow, NothingRead
<1>2. NothingBeforeCreation
  BY DEF NothingBeforeCreation, Batches
<1>3. LoadedIsStarted
  BY DEF LoadedIsStarted, LoadBatches
<1>4. Election
  BY JobKinds DEF Election, Elected
<1>5. LoadPushedOnce
  BY DEF LoadPushedOnce, Loads, Jobs
<1>6. StartNotLost /\ CompletionNotLost
  BY DEF StartNotLost, CompletionNotLost, MayStart, MayComplete
<1> QED
  BY <1>1, <1>2, <1>3, <1>4, <1>5, <1>6 DEF IInv

\* The invariant is inductive.
LEMMA NextKeeps == IInv /\ [Next]_vars => IInv'
<1> SUFFICES ASSUME IInv, [Next]_vars PROVE IInv'
  OBVIOUS
<1>1. ASSUME NEW c \in Cycles, CreateCycle(c) \/ Orchestrate(c) \/ InterruptOrchestrator(c)
      PROVE  IInv'
  BY <1>1, CreateCycleStep, DispatchHourStep, PushExtractStep, InterruptOrchestratorStep
  DEF Orchestrate
<1>2. ASSUME NEW j \in Extracts, Extract(j) PROVE IInv'
  BY <1>2, FetchStep, StoreRawStep, PushTransformStep DEF Extract
<1>3. ASSUME NEW j \in Transforms, Transform(j) PROVE IInv'
  BY <1>3, ReadRawStep, UpsertStep, TryStartStep, PushLoadStep DEF Transform
<1>4. ASSUME NEW j \in Loads, Load(j) PROVE IInv'
  BY <1>4, ReadRowsStep, StoreRowsStep, TryCompleteStep DEF Load
<1>5. ASSUME NEW j \in Jobs, Interrupt(j) PROVE IInv'
  BY <1>5, InterruptStep
<1>6. ASSUME NEW h \in Hours, Publish(h) PROVE IInv'
  BY <1>6, PublishStep
<1>7. CASE UNCHANGED vars
  <2> USE <1>7 DEF vars, pipeline, data, memory, IInv
  <2>1. TypeOK'
    BY DEF TypeOK, PipelineTypeOK, DataTypeOK, JobTypeOK, MemoryTypeOK
  <2>2. NothingBeforeCreation' /\ LoadedIsStarted'
    BY DEF NothingBeforeCreation, LoadedIsStarted, Started
  <2>3. Election' /\ LoadPushedOnce'
    BY ElectionKept DEF Started
  <2>4. StartNotLost'
    BY StartKept DEF Waking, MayStart, Dispatched, Undispatched
  <2>5. CompletionNotLost'
    BY CompletionKept DEF Finishing, MayComplete
  <2> QED
    BY <2>1, <2>2, <2>3, <2>4, <2>5
<1> QED
  BY <1>1, <1>2, <1>3, <1>4, <1>5, <1>6, <1>7 DEF Next

LEMMA Invariance == Spec => []IInv
<1>1. Init => IInv
  BY InitIsGood
<1>2. IInv /\ [Next]_vars => IInv'
  BY NextKeeps
<1> QED
  BY <1>1, <1>2, PTL DEF Spec

\* Every variable has its type.
THEOREM TypeCorrect == Spec => []TypeOK
<1>1. IInv => TypeOK
  BY DEF IInv
<1> QED
  BY <1>1, Invariance, PTL

\* However many transformers of a cycle finish at once, run again or die, each of
\* its load batches is pushed at most once and only once the cycle loads.
THEOREM LoadsArePushedOnce == Spec => []LoadPushedOnce
<1>1. IInv => LoadPushedOnce
  BY DEF IInv
<1> QED
  BY <1>1, Invariance, PTL

\* Neither barrier is left behind by the job that was to open it, unless that job
\* is dead.
THEOREM WakeupsAreNotLost == Spec => []NoLostWakeup
<1>1. IInv => NoLostWakeup
  BY DEF IInv, NoLostWakeup, StartNotLost, CompletionNotLost, Waking, Finishing
<1> QED
  BY <1>1, Invariance, PTL

-----------------------------------------------------------------------------
(* The barrier, when no file is back before its cycle is dispatched. *)

Settled(c) == orchestrator[c] \in {"done", "dead"}
Arrived(c) == {h \in Hours : staging[<<c, h>>] = "completed"}
LoadedTypes(c) == {t \in Types : loading[<<c, t>>] = "completed"}
Completed(c) == cycle[c] = "completed"

\* What jobs know of their cycle: a job's batch exists, and past its fetch the
\* cycle is dispatched.
BatchesExist ==
  /\ \A c \in Cycles : orchestrator[c] = "pushing" => Dispatched(c) # {}
  /\ \A j \in Extracts \cup Transforms : pc[j] # "none" => staging[Arg(j)] # "none"

FetchedIsSettled ==
  /\ \A j \in Extracts : pc[j] \in {"fetched", "pushing"} => Settled(CycleOf(j))
  /\ \A j \in Transforms : pc[j] # "none" => Settled(CycleOf(j))

\* Batches stay, and jobs go no further than their own steps take them.
LEMMA KnowledgeKept ==
  ASSUME IInv, BatchesExist, FetchedIsSettled,
         \A b \in Batches : staging[b] # "none" => staging'[b] # "none",
         \A c \in Cycles : /\ Settled(c) => Settled(c)'
                           /\ orchestrator'[c] = "pushing" => orchestrator[c] = "pushing",
         \A j \in Extracts \cup Transforms : pc'[j] # "none" => pc[j] # "none",
         \A j \in Extracts : pc'[j] \in {"fetched", "pushing"} =>
           pc[j] \in {"fetched", "pushing"} \/ Settled(CycleOf(j))
  PROVE  BatchesExist' /\ FetchedIsSettled'
<1>1. ASSUME NEW c \in Cycles, orchestrator'[c] = "pushing" PROVE Dispatched(c)' # {}
  <2>1. PICK h \in Hours : staging[<<c, h>>] # "none"
    BY <1>1 DEF BatchesExist, Dispatched, Undispatched
  <2>2. staging'[<<c, h>>] # "none"
    BY <2>1 DEF Batches
  <2> QED BY <2>2 DEF Dispatched, Undispatched
<1>2. \A j \in Extracts \cup Transforms : Arg(j) \in Batches /\ CycleOf(j) \in Cycles
  BY JobShape
<1>3. BatchesExist'
  BY <1>1, <1>2 DEF BatchesExist
<1>4. FetchedIsSettled'
  BY <1>2 DEF FetchedIsSettled
<1> QED BY <1>3, <1>4

\* Marking a batch makes it no less existing.
LEMMA MarkedExists ==
  ASSUME IInv, NEW j \in Extracts \cup Transforms, NEW status \in {"extracted", "completed"},
         Mark(j, status)
  PROVE  /\ \A b \in Batches : staging[b] # "none" => staging'[b] # "none"
         /\ \A b \in Batches : b # Arg(j) => staging'[b] = staging[b]
         /\ staging'[Arg(j)] \in {status, staging[Arg(j)]}
BY JobShape DEF Mark, IInv, TypeOK, PipelineTypeOK

\* The hours announced by a cycle that has any are in order.
LEMMA LastDispatched ==
  ASSUME NEW c \in Cycles, Dispatched(c) # {}
  PROVE  Max(Dispatched(c)) \in Dispatched(c)
<1>1. Dispatched(c) \in SUBSET Hours
  BY DEF Dispatched
<1>2. Dispatched(c) \in SUBSET Nat /\ IsFiniteSet(Dispatched(c))
  BY <1>1, EpaAssumption, FS_Subset
<1> QED BY <1>2, MaxOfFinite

LEMMA OrchestratorKnowledge ==
  ASSUME IInv, BatchesExist, FetchedIsSettled, NEW c \in Cycles,
         CreateCycle(c) \/ Orchestrate(c) \/ InterruptOrchestrator(c)
  PROVE  BatchesExist' /\ FetchedIsSettled'
<1> USE DEF IInv, TypeOK
<1>1. CASE CreateCycle(c) \/ InterruptOrchestrator(c)
  <2>1. UNCHANGED <<pc, staging>>
    BY <1>1 DEF CreateCycle, InterruptOrchestrator, pipeline
  <2>2. \A d \in Cycles : /\ Settled(d) => Settled(d)'
                          /\ orchestrator'[d] = "pushing" => orchestrator[d] = "pushing"
    BY <1>1 DEF CreateCycle, InterruptOrchestrator, PipelineTypeOK, Settled
  <2> QED BY <2>1, <2>2, KnowledgeKept
<1>2. CASE DispatchHour(c)
  <2> DEFINE h == Min(Undispatched(c))
  <2>1. h \in Undispatched(c)
    <3>1. Undispatched(c) \in SUBSET Nat
      BY EpaAssumption DEF Undispatched
    <3> QED BY <1>2, <3>1, MinOfNaturals DEF DispatchHour
  <2> HIDE DEF h
  <2>2. h \in Hours /\ <<c, h>> \in Batches /\ staging' = [staging EXCEPT ![<<c, h>>] = "queued"]
        /\ orchestrator' = [orchestrator EXCEPT ![c] = "pushing"] /\ pc' = pc
        /\ orchestrator[c] = "dispatching"
    BY <1>2, <2>1 DEF DispatchHour, h, Undispatched, Batches
  <2>3. \A b \in Batches : staging[b] # "none" => staging'[b] # "none"
    BY <2>2 DEF PipelineTypeOK
  <2>4. staging'[<<c, h>>] = "queued"
    BY <2>2 DEF PipelineTypeOK
  <2>5. Dispatched(c)' # {}
    BY <2>2, <2>4 DEF Dispatched, Undispatched
  <2>6. ASSUME NEW d \in Cycles, orchestrator'[d] = "pushing" PROVE Dispatched(d)' # {}
    <3>1. CASE d = c
      BY <2>5, <3>1
    <3>2. CASE d # c
      <4>1. PICK k \in Hours : staging[<<d, k>>] # "none"
        BY <2>2, <2>6, <3>2 DEF BatchesExist, Dispatched, Undispatched, PipelineTypeOK
      <4>2. staging'[<<d, k>>] # "none"
        BY <2>3, <4>1 DEF Batches
      <4> QED BY <4>2 DEF Dispatched, Undispatched
    <3> QED BY <3>1, <3>2
  <2>7. \A d \in Cycles : Settled(d) => Settled(d)'
    BY <2>2 DEF Settled, PipelineTypeOK
  <2> QED BY <2>2, <2>3, <2>6, <2>7, JobShape DEF BatchesExist, FetchedIsSettled
<1>3. CASE PushExtract(c)
  <2> DEFINE b == <<c, Max(Dispatched(c))>>
             j == Pushed("extract", b)
  <2>1. b \in Batches /\ staging[b] # "none"
    BY <1>3, LastDispatched DEF PushExtract, BatchesExist, Dispatched, Undispatched, Batches
  <2>2. pc' = [pc EXCEPT ![j] = "queued"] /\ j \in Extracts /\ Arg(j) = b /\ staging' = staging
    BY <1>3, <2>1, PushedJob DEF PushExtract, Extracts, Arg, pipeline
  <2>3. \A d \in Cycles : /\ Settled(d) => Settled(d)'
                          /\ orchestrator'[d] = "pushing" => orchestrator[d] = "pushing"
    BY <1>3 DEF PushExtract, PipelineTypeOK, Settled
  <2> HIDE DEF b, j
  <2>4. pc'[j] = "queued" /\ \A i \in Jobs : i # j => pc'[i] = pc[i]
    BY <2>2, JobKinds DEF JobTypeOK
  <2>5. BatchesExist'
    BY <2>1, <2>2, <2>3, <2>4, JobKinds DEF BatchesExist, Dispatched, Undispatched
  <2>6. FetchedIsSettled'
    BY <2>2, <2>3, <2>4, JobKinds, JobShape DEF FetchedIsSettled
  <2> QED BY <2>5, <2>6
<1> QED
  BY <1>1, <1>2, <1>3 DEF Orchestrate

LEMMA ExtractKnowledge ==
  ASSUME IInv, SlowFetch, BatchesExist, FetchedIsSettled, NEW j \in Extracts, Extract(j)
  PROVE  BatchesExist' /\ FetchedIsSettled'
<1> USE DEF IInv, TypeOK
<1>0. j \in Jobs /\ CycleOf(j) \in Cycles /\ Arg(j) \in Batches
  BY JobKinds, JobShape
<1>1. CASE Fetch(j)
  <2>1. pc[j] = "queued" /\ Settled(CycleOf(j)) /\ UNCHANGED <<orchestrator, staging>>
    BY <1>1 DEF Fetch, Settled, pipeline
  <2>2. pc'[j] = "fetched" /\ \A i \in Jobs : i # j => pc'[i] = pc[i]
    BY <1>0, <1>1 DEF Fetch, GoTo, JobTypeOK
  <2> QED BY <2>1, <2>2, JobKinds, KnowledgeKept DEF Settled
<1>2. CASE StoreRaw(j)
  <2>1. pc[j] = "fetched" /\ orchestrator' = orchestrator
    BY <1>2 DEF StoreRaw
  <2>2. \A b \in Batches : staging[b] # "none" => staging'[b] # "none"
    BY <1>2, MarkedExists DEF StoreRaw
  <2>3. pc'[j] = "pushing" /\ \A i \in Jobs : i # j => pc'[i] = pc[i]
    BY <1>0, <1>2 DEF StoreRaw, GoTo, JobTypeOK
  <2> QED BY <2>1, <2>2, <2>3, JobKinds, KnowledgeKept DEF Settled
<1>3. CASE PushTransform(j)
  <2> DEFINE k == Pushed("transform", Arg(j))
  <2>1. /\ pc' = [pc EXCEPT ![j] = "done", ![k] = "queued"]
        /\ pc[j] = "pushing" /\ k \in Transforms /\ Arg(k) = Arg(j) /\ CycleOf(k) = CycleOf(j)
        /\ UNCHANGED <<orchestrator, staging>>
    BY <1>0, <1>3, PushedJob DEF PushTransform, Transforms, CycleOf, Arg, pipeline
  <2> HIDE DEF k
  <2>2. Settled(CycleOf(j)) /\ staging[Arg(j)] # "none"
    BY <2>1 DEF BatchesExist, FetchedIsSettled
  <2>3. \A i \in Jobs : i # j /\ i # k => pc'[i] = pc[i]
    BY <2>1, JobKinds DEF JobTypeOK
  <2>4. pc'[j] = "done"
    BY <1>0, <2>1, JobKinds DEF JobTypeOK
  <2>5. BatchesExist'
    BY <2>1, <2>2, <2>3, JobKinds DEF BatchesExist, Dispatched, Undispatched
  <2>6. FetchedIsSettled'
    BY <2>1, <2>2, <2>3, <2>4, JobKinds DEF FetchedIsSettled, Settled
  <2> QED BY <2>5, <2>6
<1> QED
  BY <1>1, <1>2, <1>3 DEF Extract

LEMMA TransformKnowledge ==
  ASSUME IInv, BatchesExist, FetchedIsSettled, NEW j \in Transforms, Transform(j)
  PROVE  BatchesExist' /\ FetchedIsSettled'
<1> USE DEF IInv, TypeOK
<1>0. j \in Jobs /\ pc[j] # "none" /\ orchestrator' = orchestrator
  BY JobKinds DEF Transform, ReadRaw, Upsert, TryStart, PushLoad
<1>1. \A b \in Batches : staging[b] # "none" => staging'[b] # "none"
  <2>1. UNCHANGED staging \/ Mark(j, "completed")
    BY DEF Transform, ReadRaw, Upsert, TryStart, PushLoad, pipeline
  <2> QED BY <2>1, MarkedExists
<1>2. \A i \in Extracts \cup Transforms : i # j => pc'[i] = pc[i]
  <2>1. CASE \E t \in Types : PushLoad(j, t)
    <3>1. PICK t \in Types : PushLoad(j, t)
      BY <2>1
    <3> DEFINE k == Pushed("load", <<CycleOf(j), t>>)
    <3>2. k \in Loads
      BY <3>1, PushedJob, JobShape DEF PushLoad, Loads, LoadBatches
    <3>3. \E x : pc' = [pc EXCEPT ![j] = x, ![k] = "queued"]
      BY <3>1 DEF PushLoad
    <3> HIDE DEF k
    <3> QED BY <3>2, <3>3, JobKinds DEF JobTypeOK
  <2>2. CASE \E where : GoTo(j, where)
    BY <2>2, JobKinds DEF GoTo, JobTypeOK
  <2>3. ReadRaw(j) \/ Upsert(j) \/ TryStart(j) => \E where : GoTo(j, where)
    BY DEF ReadRaw, Upsert, TryStart, Raise
  <2> QED BY <2>1, <2>2, <2>3 DEF Transform
<1> QED
  BY <1>0, <1>1, <1>2, JobKinds, KnowledgeKept DEF Settled

LEMMA OthersKnowledge ==
  ASSUME IInv, BatchesExist, FetchedIsSettled,
         \/ \E j \in Loads : Load(j)
         \/ \E j \in Jobs : Interrupt(j)
         \/ \E h \in Hours : Publish(h)
         \/ UNCHANGED vars
  PROVE  BatchesExist' /\ FetchedIsSettled'
<1> USE DEF IInv, TypeOK
<1>1. UNCHANGED <<orchestrator, staging>>
  BY DEF Load, ReadRows, StoreRows, TryComplete, Interrupt, Publish, vars, pipeline
<1>2. \A i \in Extracts \cup Transforms :
        pc'[i] = pc[i] \/ (pc[i] # "none" /\ pc'[i] \in {"queued", "dead"})
  <2>1. ASSUME NEW j \in Loads, Load(j)
        PROVE  \A i \in Extracts \cup Transforms : pc'[i] = pc[i]
    <3>1. \E where : GoTo(j, where)
      BY <2>1 DEF Load, ReadRows, StoreRows, TryComplete
    <3> QED BY <3>1, JobKinds DEF GoTo, JobTypeOK
  <2>2. ASSUME NEW j \in Jobs, Interrupt(j)
        PROVE  \A i \in Extracts \cup Transforms :
                 pc'[i] = pc[i] \/ (pc[i] # "none" /\ pc'[i] \in {"queued", "dead"})
    <3>1. pc[j] # "none" /\ \E where \in {"queued", "dead"} : GoTo(j, where)
      BY <2>2 DEF Interrupt
    <3> QED BY <3>1, JobKinds DEF GoTo, JobTypeOK
  <2>3. ASSUME NEW h \in Hours, Publish(h) PROVE pc' = pc
    BY <2>3 DEF Publish
  <2>4. UNCHANGED vars => pc' = pc
    BY DEF vars
  <2> QED BY <2>1, <2>2, <2>3, <2>4
<1> QED
  BY <1>1, <1>2, JobKinds, KnowledgeKept DEF Settled

LEMMA NextKeepsKnowledge ==
  ASSUME IInv, SlowFetch, BatchesExist, FetchedIsSettled, [Next]_vars
  PROVE  BatchesExist' /\ FetchedIsSettled'
BY OrchestratorKnowledge, ExtractKnowledge, TransformKnowledge, OthersKnowledge DEF Next

LEMMA KnowledgeInvariance ==
  ASSUME SlowFetch
  PROVE  Spec => [](BatchesExist /\ FetchedIsSettled)
<1>1. Init => BatchesExist /\ FetchedIsSettled
  BY JobKinds DEF Init, BatchesExist, FetchedIsSettled
<1>2. IInv /\ (BatchesExist /\ FetchedIsSettled) /\ [Next]_vars
        => (BatchesExist /\ FetchedIsSettled)'
  BY NextKeepsKnowledge
<1> QED
  BY <1>1, <1>2, Invariance, PTL DEF Spec

\* What the barrier sees of the six things it keeps.
LEMMA Invisible ==
  ASSUME \A c \in Cycles : /\ Dispatched(c)' = Dispatched(c)
                           /\ Arrived(c)' = Arrived(c)
                           /\ LoadedTypes(c)' = LoadedTypes(c)
                           /\ Settled(c)' <=> Settled(c)
                           /\ Started(c)' <=> Started(c)
                           /\ Completed(c)' <=> Completed(c)
  PROVE  UNCHANGED Barrier!vars
BY DEF Barrier!vars, Arrived, LoadedTypes, Settled, Started, Completed

LEMMA CreationIsInvisible ==
  ASSUME IInv, NEW c \in Cycles, CreateCycle(c) PROVE UNCHANGED Barrier!vars
<1> USE DEF IInv, TypeOK
<1>1. orchestrator[c] = "idle" /\ cycle[c] = "none"
  BY DEF CreateCycle, NothingBeforeCreation
<1>2. /\ staging' = staging
      /\ orchestrator' = [orchestrator EXCEPT ![c] = "dispatching"]
      /\ cycle' = [cycle EXCEPT ![c] = "staging"]
      /\ loading' = [l \in LoadBatches |-> IF l[1] = c THEN "queued" ELSE loading[l]]
  BY DEF CreateCycle
<1>3. ASSUME NEW d \in Cycles
      PROVE  /\ Settled(d)' <=> Settled(d)
             /\ Started(d)' <=> Started(d)
             /\ Completed(d)' <=> Completed(d)
  BY <1>1, <1>2 DEF Settled, Started, Completed, PipelineTypeOK
<1>4. ASSUME NEW d \in Cycles PROVE LoadedTypes(d)' = LoadedTypes(d)
  <2>1. \A t \in Types : loading'[<<d, t>>] = IF d = c THEN "queued" ELSE loading[<<d, t>>]
    BY <1>2 DEF LoadBatches
  <2>2. \A t \in Types : loading[<<c, t>>] # "completed"
    BY <1>1 DEF LoadedIsStarted, Started
  <2> QED BY <2>1, <2>2 DEF LoadedTypes
<1> QED
  BY <1>2, <1>3, <1>4, Invisible DEF Dispatched, Undispatched, Arrived

LEMMA DispatchAnnounces ==
  ASSUME IInv, NEW c \in Cycles, DispatchHour(c) PROVE Barrier!Next
<1> USE DEF IInv, TypeOK
<1> DEFINE h == Min(Undispatched(c))
<1>1. h \in Undispatched(c)
  <2>1. Undispatched(c) \in SUBSET Nat
    BY EpaAssumption DEF Undispatched
  <2> QED BY <2>1, MinOfNaturals DEF DispatchHour
<1>2. /\ orchestrator[c] = "dispatching"
      /\ staging' = [staging EXCEPT ![<<c, h>>] = "queued"]
      /\ orchestrator' = [orchestrator EXCEPT ![c] = "pushing"]
      /\ UNCHANGED <<cycle, loading>>
  BY DEF DispatchHour
<1> HIDE DEF h
<1>3. h \in Hours /\ staging[<<c, h>>] = "none"
  BY <1>1 DEF Undispatched
<1>4. \A d \in Cycles, k \in Hours :
        staging'[<<d, k>>] = IF d = c /\ k = h THEN "queued" ELSE staging[<<d, k>>]
  BY <1>2, <1>3 DEF PipelineTypeOK, Batches
<1>5. \A d \in Cycles : Dispatched(d)' = IF d = c THEN Dispatched(d) \cup {h} ELSE Dispatched(d)
  BY <1>3, <1>4 DEF Dispatched, Undispatched
<1>6. \A d \in Cycles : Arrived(d)' = Arrived(d)
  BY <1>3, <1>4 DEF Arrived
<1>7. \A d \in Cycles : Settled(d)' <=> Settled(d)
  BY <1>2 DEF PipelineTypeOK, Settled
<1>8. Barrier!Announce(c, h)
  BY <1>2, <1>5, <1>6, <1>7 DEF Barrier!Announce, Arrived, Settled
<1> QED
  BY <1>3, <1>8 DEF Barrier!Next

\* The last push and the end of an interrupted orchestrator close the cycle.
LEMMA OrchestratorCloses ==
  ASSUME IInv, NEW c \in Cycles, PushExtract(c) \/ InterruptOrchestrator(c)
  PROVE  Barrier!Next \/ UNCHANGED Barrier!vars
<1> USE DEF IInv, TypeOK
<1>1. /\ ~Settled(c) /\ UNCHANGED <<cycle, staging, loading>>
      /\ \A d \in Cycles : d # c => orchestrator'[d] = orchestrator[d]
  BY DEF PushExtract, InterruptOrchestrator, pipeline, Settled, PipelineTypeOK
<1>2. CASE Settled(c)'
  <2>1. Barrier!Close(c)
    BY <1>1, <1>2 DEF Barrier!Close, Settled, Dispatched, Undispatched
  <2> QED BY <2>1 DEF Barrier!Next
<1>3. CASE ~Settled(c)'
  BY <1>1, <1>3, Invisible
     DEF Settled, Dispatched, Undispatched, Arrived, LoadedTypes, Started, Completed
<1> QED BY <1>2, <1>3

\* Marking an existing batch completed is an arrival, marking it extracted again
\* takes the hour back.
LEMMA MarkArrives ==
  ASSUME IInv, NEW j \in Extracts \cup Transforms, NEW status \in {"extracted", "completed"},
         Mark(j, status), staging[Arg(j)] # "none", UNCHANGED <<cycle, loading, orchestrator>>
  PROVE  Barrier!Next \/ UNCHANGED Barrier!vars
<1> USE DEF IInv, TypeOK
<1>1. PICK c \in Cycles, h \in Hours : Arg(j) = <<c, h>>
  BY JobShape DEF Batches
<1>2. /\ \A b \in Batches : b # <<c, h>> => staging'[b] = staging[b]
      /\ staging'[<<c, h>>] \in {status, staging[<<c, h>>]}
      /\ staging[<<c, h>>] # "none"
  BY <1>1, MarkedExists
<1>3. \A d \in Cycles, k \in Hours : <<d, k>> # <<c, h>> => staging'[<<d, k>>] = staging[<<d, k>>]
  BY <1>2 DEF Batches
<1>4. \A d \in Cycles : Dispatched(d)' = Dispatched(d)
  BY <1>2, <1>3 DEF Dispatched, Undispatched
<1>5. \A d \in Cycles : d # c => Arrived(d)' = Arrived(d)
  BY <1>3 DEF Arrived
<1>6. CASE staging'[<<c, h>>] = staging[<<c, h>>]
  BY <1>3, <1>4, <1>6, Invisible DEF Arrived, LoadedTypes, Settled, Started, Completed
<1>7. CASE staging'[<<c, h>>] = "completed"
  <2>1. Arrived(c)' = Arrived(c) \cup {h}
    BY <1>3, <1>7 DEF Arrived
  <2>2. h \in Dispatched(c)
    BY <1>2 DEF Dispatched, Undispatched
  <2>3. Barrier!Arrive(c, h)
    BY <1>4, <1>5, <2>1, <2>2 DEF Barrier!Arrive, Arrived
  <2> QED BY <2>3 DEF Barrier!Next
<1>8. CASE staging'[<<c, h>>] = "extracted"
  <2>1. Arrived(c)' = Arrived(c) \ {h}
    BY <1>3, <1>8 DEF Arrived
  <2>2. Barrier!Redo(c, h)
    BY <1>4, <1>5, <2>1 DEF Barrier!Redo, Arrived
  <2> QED BY <2>2 DEF Barrier!Next
<1> QED BY <1>2, <1>6, <1>7, <1>8

\* The transformer that finds everything staged starts the cycle, and by then the
\* cycle is closed: that is where slow fetching counts.
LEMMA TransformerStarts ==
  ASSUME IInv, BatchesExist, FetchedIsSettled, NEW j \in Transforms, TryStart(j)
  PROVE  Barrier!Next \/ UNCHANGED Barrier!vars
<1> USE DEF IInv, TypeOK
<1> DEFINE c == CycleOf(j)
<1>1. c \in Cycles /\ pc[j] # "none" /\ UNCHANGED <<staging, loading, orchestrator>>
  BY JobShape DEF TryStart
<1>2. MayStart(c) => cycle' = [cycle EXCEPT ![c] = "loading"]
  BY DEF TryStart
<1>3. ~MayStart(c) => cycle' = cycle
  BY DEF TryStart
<1>4. PICK b \in Cycles, h \in Hours : Arg(j) = <<b, h>>
  BY JobShape DEF Batches
<1>5. b = c /\ h \in Dispatched(c) /\ Settled(c)
  BY <1>1, <1>4 DEF BatchesExist, FetchedIsSettled, Dispatched, Undispatched, CycleOf
<1> HIDE DEF c
<1>6. CASE MayStart(c)
  <2>1. Arrived(c) = Dispatched(c)
    BY <1>6 DEF MayStart, Arrived, Dispatched, Undispatched
  <2>2. \A d \in Cycles : /\ Started(d)' <=> Started(d) \/ d = c
                          /\ Completed(d)' <=> Completed(d)
    BY <1>1, <1>2, <1>6 DEF MayStart, Started, Completed, PipelineTypeOK
  <2>3. ~Started(c)
    BY <1>6 DEF MayStart, Started
  <2>4. Barrier!Start(c)
    BY <1>1, <1>5, <2>1, <2>2, <2>3
       DEF Barrier!Start, Arrived, Dispatched, Undispatched, Settled, Started, Completed
  <2> QED BY <1>1, <2>4 DEF Barrier!Next
<1>7. CASE ~MayStart(c)
  BY <1>1, <1>3, <1>7, Invisible
     DEF Dispatched, Undispatched, Arrived, LoadedTypes, Settled, Started, Completed
<1> QED BY <1>6, <1>7

LEMMA StoringLoads ==
  ASSUME IInv, NEW j \in Loads, StoreRows(j) PROVE Barrier!Next
<1> USE DEF IInv, TypeOK
<1>1. PICK c \in Cycles, t \in Types, n \in 1..MaxCopies : j = <<"load", <<c, t>>, n>>
  BY DEF Loads, LoadBatches
<1>2. /\ pc[j] = "read" /\ loading' = [loading EXCEPT ![<<c, t>>] = "completed"]
      /\ UNCHANGED <<cycle, staging, orchestrator>>
  BY <1>1 DEF StoreRows, Arg
<1>3. c \in {d \in Cycles : cycle[d] \in {"loading", "completed"}}
  BY <1>1, <1>2 DEF LoadPushedOnce, LoadBatches
<1>4. \A d \in Cycles, s \in Types :
        loading'[<<d, s>>] = IF d = c /\ s = t THEN "completed" ELSE loading[<<d, s>>]
  BY <1>1, <1>2 DEF PipelineTypeOK, LoadBatches
<1>5. \A d \in Cycles : LoadedTypes(d)' =
        IF d = c THEN LoadedTypes(d) \cup {t} ELSE LoadedTypes(d)
  BY <1>4 DEF LoadedTypes
<1>6. Barrier!Load(c, t)
  BY <1>2, <1>3, <1>5 DEF Barrier!Load, LoadedTypes, Dispatched, Undispatched
<1> QED BY <1>1, <1>6 DEF Barrier!Next

LEMMA LoaderFinishes ==
  ASSUME IInv, NEW j \in Loads, TryComplete(j)
  PROVE  Barrier!Next \/ UNCHANGED Barrier!vars
<1> USE DEF IInv, TypeOK
<1> DEFINE c == CycleOf(j)
<1>1. c \in Cycles /\ UNCHANGED <<staging, loading, orchestrator>>
  BY JobShape DEF TryComplete
<1>2. /\ MayComplete(c) => cycle' = [cycle EXCEPT ![c] = "completed"]
      /\ ~MayComplete(c) => cycle' = cycle
  BY DEF TryComplete
<1> HIDE DEF c
<1>3. CASE MayComplete(c)
  <2>1. LoadedTypes(c) = Types /\ Started(c)
    BY <1>3 DEF MayComplete, LoadedTypes, Started
  <2>2. \A d \in Cycles : /\ Started(d)' <=> Started(d)
                          /\ Completed(d)' <=> Completed(d) \/ d = c
    BY <1>1, <1>2, <1>3 DEF MayComplete, Started, Completed, PipelineTypeOK
  <2>3. Barrier!Finish(c)
    BY <1>1, <2>1, <2>2
       DEF Barrier!Finish, LoadedTypes, Started, Completed, Dispatched, Undispatched
  <2> QED BY <1>1, <2>3 DEF Barrier!Next
<1>4. CASE ~MayComplete(c)
  BY <1>1, <1>2, <1>4, Invisible
     DEF Dispatched, Undispatched, Arrived, LoadedTypes, Settled, Started, Completed
<1> QED BY <1>3, <1>4

LEMMA NextIsABarrierStep ==
  ASSUME IInv, BatchesExist, FetchedIsSettled, [Next]_vars
  PROVE  [Barrier!Next]_Barrier!vars
<1>1. ASSUME UNCHANGED <<cycle, staging, loading, orchestrator>> PROVE UNCHANGED Barrier!vars
  BY <1>1, Invisible
     DEF Dispatched, Undispatched, Arrived, LoadedTypes, Settled, Started, Completed
<1>2. ASSUME NEW j \in Extracts, Extract(j) PROVE [Barrier!Next]_Barrier!vars
  <2>1. CASE StoreRaw(j)
    <3>1. staging[Arg(j)] # "none" /\ Mark(j, "extracted")
          /\ UNCHANGED <<cycle, loading, orchestrator>>
      BY <2>1 DEF StoreRaw, BatchesExist
    <3> QED BY <3>1, MarkArrives
  <2>2. CASE Fetch(j) \/ PushTransform(j)
    BY <1>1, <2>2 DEF Fetch, PushTransform, pipeline
  <2> QED BY <1>2, <2>1, <2>2 DEF Extract
<1>3. ASSUME NEW j \in Transforms, Transform(j) PROVE [Barrier!Next]_Barrier!vars
  <2>1. CASE Upsert(j)
    <3>1. staging[Arg(j)] # "none" /\ UNCHANGED <<cycle, loading, orchestrator>>
          /\ (UNCHANGED staging \/ Mark(j, "completed"))
      BY <2>1 DEF Upsert, BatchesExist
    <3> QED BY <1>1, <3>1, MarkArrives
  <2>2. CASE ReadRaw(j) \/ \E t \in Types : PushLoad(j, t)
    BY <1>1, <2>2 DEF ReadRaw, PushLoad, pipeline
  <2>3. CASE TryStart(j)
    BY <2>3, TransformerStarts
  <2> QED BY <1>3, <2>1, <2>2, <2>3 DEF Transform
<1>4. ASSUME NEW j \in Loads, Load(j) PROVE [Barrier!Next]_Barrier!vars
  <2>1. CASE ReadRows(j)
    BY <1>1, <2>1 DEF ReadRows, pipeline
  <2> QED BY <1>4, <2>1, StoringLoads, LoaderFinishes DEF Load
<1>5. ASSUME \/ \E j \in Jobs : Interrupt(j)
             \/ \E h \in Hours : Publish(h)
             \/ UNCHANGED vars
      PROVE  [Barrier!Next]_Barrier!vars
  BY <1>1, <1>5 DEF Interrupt, Publish, vars, pipeline
<1>6. ASSUME NEW c \in Cycles, CreateCycle(c) \/ Orchestrate(c) \/ InterruptOrchestrator(c)
      PROVE  [Barrier!Next]_Barrier!vars
  BY <1>6, CreationIsInvisible, DispatchAnnounces, OrchestratorCloses DEF Orchestrate
<1> QED
  BY <1>2, <1>3, <1>4, <1>5, <1>6 DEF Next

\* Given that no file is back before its cycle is dispatched, the jobs implement
\* the barrier the pipeline is documented to have, whatever they do to each other
\* and wherever they are interrupted.
THEOREM TheJobsAreABarrier ==
  ASSUME SlowFetch
  PROVE  Spec => ImplementsBarrier
<1>1. Init => Barrier!Init
  BY DEF Init, Barrier!Init, Dispatched, Undispatched, Batches, LoadBatches
<1>2. IInv /\ BatchesExist /\ FetchedIsSettled /\ [Next]_vars => [Barrier!Next]_Barrier!vars
  BY NextIsABarrierStep
<1> QED
  BY <1>1, <1>2, Invariance, KnowledgeInvariance, PTL DEF Spec, ImplementsBarrier, Barrier!Spec

-----------------------------------------------------------------------------
(* What a cycle that completes has loaded, while nothing fails. *)

\* While nothing has failed, a batch has one job that is not through with it, the
\* batch is completed only after its last one, and what a cycle has started to
\* load is staged for good.
StagingJobs == Extracts \cup Transforms
Busy(j) == pc[j] \in {"queued", "fetched", "pushing", "read"}

InOrder ==
  \A c \in Cycles : \A h \in Dispatched(c), k \in Undispatched(c) : h < k
AloneOnBatch ==
  \A i, j \in StagingJobs : Busy(i) /\ Busy(j) /\ Arg(i) = Arg(j) => i = j
StagedIsOver ==
  \A j \in StagingJobs : Busy(j) => staging[Arg(j)] # "completed"
BeforeFirstPush ==
  \A c \in Cycles : orchestrator[c] = "pushing" =>
    LET b == <<c, Max(Dispatched(c))>>
    IN  staging[b] # "completed" /\ \A j \in StagingJobs : Arg(j) = b => pc[j] = "none"
DoneIsWhole ==
  \A c \in Cycles : /\ orchestrator[c] # "dead"
                    /\ orchestrator[c] = "done" => Undispatched(c) = {}
StartedIsStaged ==
  \A c \in Cycles : Started(c) => \A h \in Hours : staging[<<c, h>>] = "completed"

Calm ==
  /\ InOrder /\ AloneOnBatch /\ StagedIsOver
  /\ BeforeFirstPush /\ DoneIsWhole /\ StartedIsStaged

\* The rows a started cycle still owns are in the hands of each of its loaders,
\* and stored once that loader is through.
RowsHaveValues ==
  \A h \in Hours : transformed[h].owner # 0 => transformed[h].value # 0
ReadersHoldTheRows ==
  \A j \in Loads, h \in Hours :
    pc[j] = "read" /\ transformed[h].owner = CycleOf(j) => rowsRead[j][h] # 0
LoadedIsStored ==
  \A c \in Cycles, t \in Types, h \in Hours :
    loading[<<c, t>>] = "completed" /\ transformed[h].owner = c => station[<<t, h>>] # 0
CompletedIsLoaded ==
  \A c \in Cycles : cycle[c] = "completed" =>
    \A t \in Types : loading[<<c, t>>] = "completed"

RowsFollow == RowsHaveValues /\ ReadersHoldTheRows /\ LoadedIsStored /\ CompletedIsLoaded

\* Steps that stage nothing and push no staging job.
LEMMA CalmKept ==
  ASSUME IInv, Calm, staging' = staging,
         \A c \in Cycles : /\ orchestrator'[c] # "dead"
                           /\ orchestrator'[c] \in {"pushing", "done"} =>
                                orchestrator[c] = orchestrator'[c]
                           /\ Started(c)' => Started(c),
         \A j \in StagingJobs : /\ Busy(j)' => Busy(j)
                                /\ pc'[j] # "none" => pc[j] # "none"
  PROVE  Calm'
<1> USE DEF Calm
<1>1. \A c \in Cycles : Dispatched(c)' = Dispatched(c) /\ Undispatched(c)' = Undispatched(c)
  BY DEF Dispatched, Undispatched
<1>2. InOrder' /\ DoneIsWhole'
  BY <1>1 DEF InOrder, DoneIsWhole
<1>3. AloneOnBatch' /\ StagedIsOver'
  BY DEF AloneOnBatch, StagedIsOver
<1>4. BeforeFirstPush'
  <2> SUFFICES ASSUME NEW c \in Cycles, orchestrator'[c] = "pushing"
               PROVE  LET b == <<c, Max(Dispatched(c)')>>
                      IN  /\ staging'[b] # "completed"
                          /\ \A j \in StagingJobs : Arg(j) = b => pc'[j] = "none"
    BY DEF BeforeFirstPush
  <2>1. orchestrator[c] = "pushing" /\ Max(Dispatched(c)') = Max(Dispatched(c))
    BY <1>1
  <2> QED BY <2>1 DEF BeforeFirstPush
<1>5. StartedIsStaged'
  BY DEF StartedIsStaged
<1> QED BY <1>2, <1>3, <1>4, <1>5

LEMMA DispatchKeepsCalm ==
  ASSUME IInv, BatchesExist, FetchedIsSettled, Calm, NEW c \in Cycles, DispatchHour(c)
  PROVE  Calm'
<1> USE DEF IInv, TypeOK, Calm
<1> DEFINE h == Min(Undispatched(c))
<1>1. h \in Undispatched(c) /\ \A k \in Undispatched(c) : h <= k
  <2>1. Undispatched(c) \in SUBSET Nat
    BY EpaAssumption DEF Undispatched
  <2> QED BY <2>1, MinOfNaturals DEF DispatchHour
<1>2. /\ orchestrator[c] = "dispatching"
      /\ staging' = [staging EXCEPT ![<<c, h>>] = "queued"]
      /\ orchestrator' = [orchestrator EXCEPT ![c] = "pushing"]
      /\ UNCHANGED <<cycle, pc>>
  BY DEF DispatchHour
<1> HIDE DEF h
<1>3. h \in Hours /\ staging[<<c, h>>] = "none"
  BY <1>1 DEF Undispatched
<1>4. \A d \in Cycles, k \in Hours :
        staging'[<<d, k>>] = IF d = c /\ k = h THEN "queued" ELSE staging[<<d, k>>]
  BY <1>2, <1>3 DEF PipelineTypeOK, Batches
<1>5. \A d \in Cycles :
        /\ Dispatched(d)' = IF d = c THEN Dispatched(d) \cup {h} ELSE Dispatched(d)
        /\ Undispatched(d)' = IF d = c THEN Undispatched(d) \ {h} ELSE Undispatched(d)
  BY <1>3, <1>4 DEF Dispatched, Undispatched
<1>6. InOrder'
  <2>1. \A k \in Undispatched(c) : k \in Nat /\ (k # h => h < k)
    BY <1>1, EpaAssumption DEF Undispatched
  <2> QED BY <1>5, <2>1 DEF InOrder
<1>7. \A j \in StagingJobs : \E d \in Cycles, k \in Hours : Arg(j) = <<d, k>>
  BY JobShape DEF StagingJobs, Batches
<1>8. AloneOnBatch' /\ StagedIsOver'
  BY <1>2, <1>4, <1>7 DEF AloneOnBatch, StagedIsOver, Busy
<1>9. BeforeFirstPush'
  <2> SUFFICES ASSUME NEW d \in Cycles, orchestrator'[d] = "pushing"
               PROVE  LET b == <<d, Max(Dispatched(d)')>>
                      IN  /\ staging'[b] # "completed"
                          /\ \A j \in StagingJobs : Arg(j) = b => pc'[j] = "none"
    BY DEF BeforeFirstPush
  <2>1. CASE d = c
    <3> DEFINE S == Dispatched(c) \cup {h}
    <3>1. S \in SUBSET Hours
      BY <1>3 DEF Dispatched
    <3>2. S \in SUBSET Nat /\ S # {} /\ IsFiniteSet(S) /\ h \in S
      BY <3>1, EpaAssumption, FS_Subset
    <3> HIDE DEF S
    <3>3. Max(S) \in S /\ h <= Max(S)
      BY <3>2, MaxOfFinite
    <3>4. \A k \in S : k <= h
      BY <1>1, <3>2 DEF InOrder, S
    <3>5. Max(S) = h
      <4>1. Max(S) \in Nat /\ h \in Nat /\ Max(S) <= h /\ h <= Max(S)
        BY <3>2, <3>3, <3>4
      <4> QED BY <4>1
    <3>6. Dispatched(c)' = S
      BY <1>5 DEF S
    <3>7. \A j \in StagingJobs : Arg(j) = <<c, h>> => pc[j] = "none"
      BY <1>3 DEF BatchesExist, StagingJobs
    <3> QED BY <1>2, <1>3, <1>4, <2>1, <3>5, <3>6, <3>7
  <2>2. CASE d # c
    <3>1. orchestrator[d] = "pushing" /\ Dispatched(d)' = Dispatched(d)
      BY <1>2, <1>5, <2>2 DEF PipelineTypeOK
    <3>2. Max(Dispatched(d)) \in Hours
      BY <3>1, LastDispatched DEF BatchesExist, Dispatched
    <3> QED BY <1>2, <1>4, <2>2, <3>1, <3>2 DEF BeforeFirstPush
  <2> QED BY <2>1, <2>2
<1>10. DoneIsWhole' /\ StartedIsStaged'
  BY <1>2, <1>3, <1>4, <1>5 DEF DoneIsWhole, StartedIsStaged, Started, PipelineTypeOK
<1> QED
  BY <1>6, <1>8, <1>9, <1>10

LEMMA PushExtractKeepsCalm ==
  ASSUME IInv, BatchesExist, FetchedIsSettled, Calm, NEW c \in Cycles, PushExtract(c)
  PROVE  Calm'
<1> USE DEF IInv, TypeOK, Calm
<1> DEFINE b == <<c, Max(Dispatched(c))>>
           j == Pushed("extract", b)
<1>1. /\ orchestrator[c] = "pushing" /\ UNCHANGED <<cycle, staging>>
      /\ pc' = [pc EXCEPT ![j] = "queued"]
      /\ orchestrator' = [orchestrator EXCEPT
           ![c] = IF Undispatched(c) = {} THEN "done" ELSE "dispatching"]
  BY DEF PushExtract, pipeline
<1>2. Max(Dispatched(c)) \in Hours
  BY <1>1, LastDispatched DEF BatchesExist, Dispatched
<1>3. b \in Batches
  BY <1>2 DEF Batches
<1>4. j \in Extracts /\ Arg(j) = b
  BY <1>3, PushedJob DEF PushExtract, Extracts, Arg
<1>5. staging[b] # "completed" /\ \A i \in StagingJobs : Arg(i) = b => pc[i] = "none"
  BY <1>1 DEF BeforeFirstPush
<1>6. \A d \in Cycles : d # c => b # <<d, Max(Dispatched(d))>>
  OBVIOUS
<1> HIDE DEF b, j
<1>7. \A i \in StagingJobs : i # j => pc'[i] = pc[i]
  BY <1>1, JobKinds DEF StagingJobs, JobTypeOK
<1>8. \A d \in Cycles : Dispatched(d)' = Dispatched(d) /\ Undispatched(d)' = Undispatched(d)
  BY <1>1 DEF Dispatched, Undispatched
<1>9. \A d \in Cycles : d # c => orchestrator'[d] = orchestrator[d]
  BY <1>1 DEF PipelineTypeOK
<1>10. orchestrator'[c] = IF Undispatched(c) = {} THEN "done" ELSE "dispatching"
  BY <1>1 DEF PipelineTypeOK
<1>11. InOrder' /\ DoneIsWhole' /\ StartedIsStaged'
  BY <1>1, <1>8, <1>9, <1>10 DEF InOrder, DoneIsWhole, StartedIsStaged, Started
<1>12. AloneOnBatch' /\ StagedIsOver'
  BY <1>1, <1>4, <1>5, <1>7 DEF AloneOnBatch, StagedIsOver, Busy
<1>13. BeforeFirstPush'
  <2> SUFFICES ASSUME NEW d \in Cycles, orchestrator'[d] = "pushing"
               PROVE  LET e == <<d, Max(Dispatched(d)')>>
                      IN  /\ staging'[e] # "completed"
                          /\ \A i \in StagingJobs : Arg(i) = e => pc'[i] = "none"
    BY DEF BeforeFirstPush
  <2>1. d # c /\ orchestrator[d] = "pushing" /\ Dispatched(d)' = Dispatched(d)
    BY <1>8, <1>9, <1>10
  <2> QED BY <1>1, <1>4, <1>6, <1>7, <2>1 DEF BeforeFirstPush
<1> QED
  BY <1>11, <1>12, <1>13

\* The one busy job of a batch marks it: extracted if it goes on, completed if it
\* is over.
LEMMA MarkKeepsCalm ==
  ASSUME IInv, BatchesExist, Calm, NEW j \in StagingJobs, Busy(j),
         NEW status \in {"extracted", "completed"}, Mark(j, status),
         status = "completed" => ~Busy(j)',
         \A i \in StagingJobs : i # j => pc'[i] = pc[i],
         UNCHANGED <<cycle, orchestrator>>
  PROVE  Calm'
<1> USE DEF IInv, TypeOK, Calm
<1>1. Arg(j) \in Batches /\ staging[Arg(j)] \notin {"none", "completed"}
  BY JobShape DEF StagingJobs, BatchesExist, StagedIsOver, Busy
<1>2. /\ \A b \in Batches : b # Arg(j) => staging'[b] = staging[b]
      /\ staging'[Arg(j)] \in {status, staging[Arg(j)]}
  BY MarkedExists DEF StagingJobs
<1>3. \A b \in Batches : staging'[b] = "none" <=> staging[b] = "none"
  BY <1>1, <1>2
<1>4. \A d \in Cycles : Dispatched(d)' = Dispatched(d) /\ Undispatched(d)' = Undispatched(d)
  BY <1>3 DEF Dispatched, Undispatched, Batches
<1>5. InOrder' /\ DoneIsWhole'
  BY <1>4 DEF InOrder, DoneIsWhole
<1>6. \A i \in StagingJobs : Arg(i) \in Batches
  BY JobShape DEF StagingJobs
<1>7. \A i \in StagingJobs : Busy(i)' => Busy(i)
  BY DEF Busy
<1>8. AloneOnBatch'
  BY <1>7 DEF AloneOnBatch
<1>9. StagedIsOver'
  BY <1>1, <1>2, <1>6, <1>7 DEF AloneOnBatch, StagedIsOver
<1>10. BeforeFirstPush'
  <2> SUFFICES ASSUME NEW d \in Cycles, orchestrator'[d] = "pushing"
               PROVE  LET e == <<d, Max(Dispatched(d)')>>
                      IN  /\ staging'[e] # "completed"
                          /\ \A i \in StagingJobs : Arg(i) = e => pc'[i] = "none"
    BY DEF BeforeFirstPush
  <2> DEFINE e == <<d, Max(Dispatched(d))>>
  <2>1. orchestrator[d] = "pushing" /\ Dispatched(d)' = Dispatched(d)
    BY <1>4
  <2>2. e \in Batches
    BY <2>1, LastDispatched DEF BatchesExist, Dispatched, Batches
  <2>3. staging[e] # "completed" /\ \A i \in StagingJobs : Arg(i) = e => pc[i] = "none"
    BY <2>1 DEF BeforeFirstPush
  <2>4. Arg(j) # e
    BY <2>3 DEF Busy
  <2> HIDE DEF e
  <2>5. staging'[e] = staging[e] /\ \A i \in StagingJobs : Arg(i) = e => pc'[i] = "none"
    BY <1>2, <2>2, <2>3, <2>4
  <2> QED BY <2>1, <2>3, <2>5 DEF e
<1>11. StartedIsStaged'
  BY <1>1, <1>2 DEF StartedIsStaged, Started, Batches
<1> QED
  BY <1>5, <1>8, <1>9, <1>10, <1>11

LEMMA CalmExtract ==
  ASSUME IInv, BatchesExist, Calm, NEW j \in Extracts, Extract(j)
  PROVE  Calm'
<1> USE DEF IInv, TypeOK
<1>0. j \in Jobs /\ j \in StagingJobs /\ Arg(j) \in Batches
  BY JobKinds, JobShape DEF StagingJobs
<1>1. CASE Fetch(j)
  <2>1. /\ pc[j] = "queued" /\ pc'[j] = "fetched"
        /\ \A i \in Jobs : i # j => pc'[i] = pc[i]
        /\ UNCHANGED <<cycle, staging, orchestrator>>
    BY <1>0, <1>1 DEF Fetch, GoTo, JobTypeOK, pipeline
  <2> QED BY <2>1, JobKinds, CalmKept DEF StagingJobs, Busy, Started, Calm, DoneIsWhole
<1>2. CASE StoreRaw(j)
  <2>1. /\ pc[j] = "fetched" /\ Mark(j, "extracted")
        /\ \A i \in Jobs : i # j => pc'[i] = pc[i]
        /\ UNCHANGED <<cycle, orchestrator>>
    BY <1>0, <1>2 DEF StoreRaw, GoTo, JobTypeOK
  <2> QED BY <1>0, <2>1, JobKinds, MarkKeepsCalm DEF StagingJobs, Busy
<1>3. CASE PushTransform(j)
  <2> DEFINE k == Pushed("transform", Arg(j))
  <2>1. /\ pc' = [pc EXCEPT ![j] = "done", ![k] = "queued"] /\ pc[j] = "pushing"
        /\ k \in Transforms /\ Arg(k) = Arg(j)
        /\ UNCHANGED <<cycle, staging, orchestrator>>
    BY <1>0, <1>3, PushedJob DEF PushTransform, Transforms, Arg, pipeline
  <2> HIDE DEF k
  <2>2. Busy(j) /\ ~Busy(j)' /\ \A i \in StagingJobs : i # j /\ i # k => pc'[i] = pc[i]
    BY <1>0, <2>1, JobKinds DEF JobTypeOK, Busy, StagingJobs
  <2>3. \A c \in Cycles : Dispatched(c)' = Dispatched(c) /\ Undispatched(c)' = Undispatched(c)
    BY <2>1 DEF Dispatched, Undispatched
  <2>4. InOrder' /\ DoneIsWhole' /\ StartedIsStaged'
    BY <2>1, <2>3 DEF Calm, InOrder, DoneIsWhole, StartedIsStaged, Started
  <2>5. AloneOnBatch' /\ StagedIsOver'
    BY <1>0, <2>1, <2>2 DEF Calm, AloneOnBatch, StagedIsOver, Busy
  <2>6. BeforeFirstPush'
    <3> SUFFICES ASSUME NEW c \in Cycles, orchestrator'[c] = "pushing"
                 PROVE  LET b == <<c, Max(Dispatched(c)')>>
                        IN  /\ staging'[b] # "completed"
                            /\ \A i \in StagingJobs : Arg(i) = b => pc'[i] = "none"
      BY DEF BeforeFirstPush
    <3>1. orchestrator[c] = "pushing" /\ Dispatched(c)' = Dispatched(c)
      BY <2>1, <2>3
    <3> QED BY <1>0, <2>1, <2>2, <3>1 DEF Calm, BeforeFirstPush
  <2> QED BY <2>4, <2>5, <2>6 DEF Calm
<1> QED
  BY <1>1, <1>2, <1>3 DEF Extract

\* A cycle that starts is dispatched to the end and staged.
LEMMA CalmTransform ==
  ASSUME IInv, BatchesExist, FetchedIsSettled, Calm, NEW j \in Transforms, Transform(j)
  PROVE  Calm'
<1> USE DEF IInv, TypeOK
<1>0. j \in Jobs /\ j \in StagingJobs /\ Arg(j) \in Batches /\ CycleOf(j) \in Cycles
  BY JobKinds, JobShape DEF StagingJobs
<1>1. CASE ReadRaw(j)
  <2>1. /\ pc[j] = "queued" /\ pc'[j] = "read"
        /\ \A i \in Jobs : i # j => pc'[i] = pc[i]
        /\ UNCHANGED <<cycle, staging, orchestrator>>
    BY <1>0, <1>1 DEF ReadRaw, GoTo, JobTypeOK, pipeline
  <2> QED BY <2>1, JobKinds, CalmKept DEF StagingJobs, Busy, Started, Calm, DoneIsWhole
<1>2. CASE Upsert(j)
  <2>1. /\ pc[j] = "read" /\ \A i \in Jobs : i # j => pc'[i] = pc[i]
        /\ UNCHANGED <<cycle, orchestrator>>
    BY <1>0, <1>2 DEF Upsert, Raise, GoTo, JobTypeOK
  <2>2. CASE UNCHANGED staging
    BY <2>1, <2>2, JobKinds, CalmKept DEF StagingJobs, Busy, Started, Calm, DoneIsWhole
  <2>3. CASE Mark(j, "completed") /\ GoTo(j, AfterUpsert(j))
    <3>1. pc'[j] = "starting"
      BY <1>0, <2>3 DEF GoTo, AfterUpsert, JobTypeOK
    <3> QED BY <1>0, <2>1, <2>3, <3>1, JobKinds, MarkKeepsCalm DEF StagingJobs, Busy
  <2> QED BY <1>2, <2>2, <2>3 DEF Upsert
<1>3. CASE TryStart(j)
  <2> DEFINE c == CycleOf(j)
  <2>1. /\ pc[j] = "starting" /\ pc'[j] \in {"enqueuing", "done"}
        /\ \A i \in Jobs : i # j => pc'[i] = pc[i]
        /\ UNCHANGED <<staging, orchestrator>>
    BY <1>0, <1>3 DEF TryStart, GoTo, JobTypeOK
  <2>2. /\ MayStart(c) => cycle' = [cycle EXCEPT ![c] = "loading"]
        /\ ~MayStart(c) => cycle' = cycle
    BY <1>3 DEF TryStart
  <2>3. orchestrator[c] = "done" /\ Undispatched(c) = {}
    BY <1>0, <2>1 DEF FetchedIsSettled, Settled, Calm, DoneIsWhole
  <2> HIDE DEF c
  <2>4. StartedIsStaged'
    <3>1. CASE MayStart(c)
      <4>1. \A h \in Hours : staging[<<c, h>>] = "completed"
        BY <2>3, <3>1 DEF MayStart, Dispatched
      <4> QED BY <2>1, <2>2, <3>1, <4>1
              DEF Calm, StartedIsStaged, Started, PipelineTypeOK
    <3>2. CASE ~MayStart(c)
      BY <2>1, <2>2, <3>2 DEF Calm, StartedIsStaged, Started
    <3> QED BY <3>1, <3>2
  <2>5. \A i \in StagingJobs : (Busy(i)' => Busy(i)) /\ (pc'[i] # "none" => pc[i] # "none")
    BY <2>1, JobKinds DEF StagingJobs, Busy
  <2>6. \A d \in Cycles : Dispatched(d)' = Dispatched(d) /\ Undispatched(d)' = Undispatched(d)
    BY <2>1 DEF Dispatched, Undispatched
  <2>7. InOrder' /\ DoneIsWhole' /\ AloneOnBatch' /\ StagedIsOver'
    BY <2>1, <2>5, <2>6 DEF Calm, InOrder, DoneIsWhole, AloneOnBatch, StagedIsOver
  <2>8. BeforeFirstPush'
    <3> SUFFICES ASSUME NEW d \in Cycles, orchestrator'[d] = "pushing"
                 PROVE  LET b == <<d, Max(Dispatched(d)')>>
                        IN  /\ staging'[b] # "completed"
                            /\ \A i \in StagingJobs : Arg(i) = b => pc'[i] = "none"
      BY DEF BeforeFirstPush
    <3>1. orchestrator[d] = "pushing" /\ Dispatched(d)' = Dispatched(d)
      BY <2>1, <2>6
    <3> QED BY <2>1, <2>5, <3>1 DEF Calm, BeforeFirstPush
  <2> QED BY <2>4, <2>7, <2>8 DEF Calm
<1>4. CASE \E t \in Types : PushLoad(j, t)
  <2>1. PICK t \in Types : PushLoad(j, t)
    BY <1>4
  <2> DEFINE k == Pushed("load", <<CycleOf(j), t>>)
  <2>2. k \in Loads
    BY <1>0, <2>1, PushedJob DEF PushLoad, Loads, LoadBatches
  <2>3. /\ pc[j] = "enqueuing" /\ UNCHANGED <<cycle, staging, orchestrator>>
        /\ \E x \in {"done", "enqueuing"} : pc' = [pc EXCEPT ![j] = x, ![k] = "queued"]
    BY <2>1 DEF PushLoad, pipeline
  <2> HIDE DEF k
  <2>4. \A i \in StagingJobs : (Busy(i)' => Busy(i)) /\ (pc'[i] # "none" => pc[i] # "none")
    BY <2>2, <2>3, JobKinds DEF StagingJobs, Busy, JobTypeOK
  <2> QED BY <2>3, <2>4, CalmKept DEF Started, Calm, DoneIsWhole
<1> QED
  BY <1>1, <1>2, <1>3, <1>4 DEF Transform

LEMMA CalmOthers ==
  ASSUME IInv, Calm, faults' = 0,
         \/ \E c \in Cycles : CreateCycle(c) \/ InterruptOrchestrator(c)
         \/ \E j \in Loads : Load(j)
         \/ \E j \in Jobs : Interrupt(j)
         \/ \E h \in Hours : Publish(h)
         \/ UNCHANGED vars
  PROVE  Calm'
<1> USE DEF IInv, TypeOK
<1>1. faults \in Nat
  BY DEF JobTypeOK
<1>2. ASSUME NEW c \in Cycles, CreateCycle(c) PROVE Calm'
  <2>1. /\ orchestrator' = [orchestrator EXCEPT ![c] = "dispatching"]
        /\ cycle' = [cycle EXCEPT ![c] = "staging"]
        /\ UNCHANGED <<staging, pc>>
    BY <1>2 DEF CreateCycle
  <2>2. \A d \in Cycles : /\ orchestrator'[d] # "dead"
                          /\ orchestrator'[d] \in {"pushing", "done"} =>
                               orchestrator[d] = orchestrator'[d]
                          /\ Started(d)' => Started(d)
    BY <2>1 DEF Calm, DoneIsWhole, Started, PipelineTypeOK
  <2> QED BY <2>1, <2>2, CalmKept DEF Busy
<1>3. ASSUME NEW j \in Loads, Load(j) PROVE Calm'
  <2>1. \E where : GoTo(j, where)
    BY <1>3 DEF Load, ReadRows, StoreRows, TryComplete
  <2>2. \A i \in StagingJobs : pc'[i] = pc[i]
    BY <2>1, JobKinds DEF GoTo, JobTypeOK, StagingJobs
  <2>3. UNCHANGED <<staging, orchestrator>>
    BY <1>3 DEF Load, ReadRows, StoreRows, TryComplete, pipeline
  <2>4. \A c \in Cycles : Started(c)' => Started(c)
    <3>1. UNCHANGED cycle \/ TryComplete(j)
      BY <1>3 DEF Load, ReadRows, StoreRows, pipeline
    <3> QED BY <3>1, JobShape DEF TryComplete, MayComplete, Started, PipelineTypeOK
  <2> QED BY <2>2, <2>3, <2>4, CalmKept DEF Busy, Calm, DoneIsWhole
<1>4. CASE (\E h \in Hours : Publish(h)) \/ UNCHANGED vars
  <2>1. UNCHANGED <<cycle, staging, orchestrator, pc>>
    BY <1>4 DEF Publish, vars, pipeline
  <2> QED BY <2>1, CalmKept DEF Busy, Started, Calm, DoneIsWhole
<1>5. ~ (\E c \in Cycles : InterruptOrchestrator(c)) /\ ~ (\E j \in Jobs : Interrupt(j))
  BY <1>1 DEF InterruptOrchestrator, Interrupt
<1> QED
  BY <1>2, <1>3, <1>4, <1>5

LEMMA NextKeepsCalm ==
  ASSUME IInv, BatchesExist, FetchedIsSettled, Calm, [Next]_vars, faults' = 0
  PROVE  Calm'
BY DispatchKeepsCalm, PushExtractKeepsCalm, CalmExtract, CalmTransform, CalmOthers
   DEF Next, Orchestrate

\* Steps that move no row and no reader, and complete nothing.
LEMMA RowsKept ==
  ASSUME IInv, RowsFollow, UNCHANGED <<transformed, station, rowsRead>>,
         \A j \in Loads : pc'[j] = "read" => pc[j] = "read",
         \A l \in LoadBatches : loading'[l] = "completed" => loading[l] = "completed",
         \A c \in Cycles : cycle'[c] = "completed" =>
           \A t \in Types : loading'[<<c, t>>] = "completed"
  PROVE  RowsFollow'
<1>1. RowsHaveValues' /\ CompletedIsLoaded'
  BY DEF RowsFollow, RowsHaveValues, CompletedIsLoaded
<1>2. ReadersHoldTheRows'
  BY DEF RowsFollow, ReadersHoldTheRows
<1>3. LoadedIsStored'
  BY DEF RowsFollow, LoadedIsStored, LoadBatches
<1> QED BY <1>1, <1>2, <1>3 DEF RowsFollow

\* A row is taken over only by a cycle that has not started to load.
LEMMA UpsertKeepsRows ==
  ASSUME IInv, Calm, RowsFollow, NEW j \in Transforms, Upsert(j)
  PROVE  RowsFollow'
<1> USE DEF IInv, TypeOK
<1>0. j \in Jobs /\ j \in StagingJobs
  BY JobKinds DEF StagingJobs
<1>1. PICK c \in Cycles, k \in Hours : Arg(j) = <<c, k>> /\ CycleOf(j) = c
  BY JobShape DEF Batches, CycleOf
<1>2. /\ pc[j] = "read" /\ UNCHANGED <<cycle, loading, station, rowsRead>>
      /\ \E where : GoTo(j, where)
  BY DEF Upsert, Raise
<1>3. ~Started(c)
  BY <1>0, <1>1, <1>2 DEF Calm, StagedIsOver, StartedIsStaged, Busy
<1>4. \A i \in Loads : pc'[i] = pc[i]
  BY <1>2, JobKinds DEF GoTo, JobTypeOK
<1>5. \A i \in Loads : CycleOf(i) = c => pc[i] = "none"
  <2> SUFFICES ASSUME NEW i \in Loads, CycleOf(i) = c, pc[i] # "none" PROVE FALSE
    OBVIOUS
  <2>1. PICK l \in LoadBatches, n \in 1..MaxCopies : i = <<"load", l, n>>
    BY DEF Loads
  <2> QED BY <1>3, <2>1 DEF LoadPushedOnce, Started, CycleOf, Arg
<1>6. \A t \in Types : loading[<<c, t>>] # "completed"
  BY <1>3 DEF LoadedIsStarted
<1>7. \A d \in Cycles : cycle'[d] = "completed" =>
        \A t \in Types : loading'[<<d, t>>] = "completed"
  BY <1>2 DEF RowsFollow, CompletedIsLoaded
<1>8. CASE transformed' = transformed
  BY <1>2, <1>4, <1>7, <1>8, RowsKept
<1>9. CASE rawRead[j] # <<>> /\ Len(rawRead[j]) <= 1
           /\ transformed' = [transformed EXCEPT ![k] = TakeOver(j, @)]
  <2>1. rawRead[j][1] \in Versions \ {0}
    <3>1. rawRead[j] \in Seq(Versions \ {0})
      BY DEF MemoryTypeOK
    <3> QED BY <1>9, <3>1
  <2>2. transformed'[k] = [value |-> rawRead[j][1], owner |-> c]
    BY <1>1, <1>9 DEF TakeOver, DataTypeOK
  <2>3. \A h \in Hours : h # k => transformed'[h] = transformed[h]
    BY <1>9 DEF DataTypeOK
  <2>4. RowsHaveValues'
    BY <2>1, <2>2, <2>3 DEF RowsFollow, RowsHaveValues
  <2>5. ReadersHoldTheRows'
    BY <1>2, <1>4, <1>5, <2>2, <2>3 DEF RowsFollow, ReadersHoldTheRows
  <2>6. LoadedIsStored'
    BY <1>2, <1>6, <2>2, <2>3 DEF RowsFollow, LoadedIsStored
  <2> QED BY <1>7, <2>4, <2>5, <2>6 DEF RowsFollow, CompletedIsLoaded
<1> QED
  BY <1>1, <1>8, <1>9 DEF Upsert

LEMMA ReadRowsKeepsRows ==
  ASSUME IInv, RowsFollow, NEW j \in Loads, ReadRows(j)
  PROVE  RowsFollow'
<1> USE DEF IInv, TypeOK
<1>1. /\ UNCHANGED <<cycle, loading, transformed, station>>
      /\ rowsRead' = [rowsRead EXCEPT ![j] =
           [h \in Hours |-> IF transformed[h].owner = CycleOf(j)
                              THEN transformed[h].value ELSE 0]]
      /\ GoTo(j, "read")
  BY DEF ReadRows, pipeline, data
<1>2. \A i \in Loads : i # j => pc'[i] = pc[i] /\ rowsRead'[i] = rowsRead[i]
  BY <1>1, JobKinds DEF GoTo, JobTypeOK, MemoryTypeOK
<1>3. \A h \in Hours : transformed[h].owner = CycleOf(j) => rowsRead'[j][h] = transformed[h].value
  BY <1>1 DEF MemoryTypeOK
<1>4. CycleOf(j) # 0
  BY JobShape, EpaAssumption
<1>5. ReadersHoldTheRows'
  <2> SUFFICES ASSUME NEW i \in Loads, NEW h \in Hours, pc'[i] = "read",
                      transformed[h].owner = CycleOf(i)
               PROVE  rowsRead'[i][h] # 0
    BY <1>1 DEF ReadersHoldTheRows
  <2>1. CASE i = j
    BY <1>3, <1>4, <2>1 DEF RowsFollow, RowsHaveValues
  <2>2. CASE i # j
    BY <1>2, <2>2 DEF RowsFollow, ReadersHoldTheRows
  <2> QED BY <2>1, <2>2
<1> QED
  BY <1>1, <1>5 DEF RowsFollow, RowsHaveValues, LoadedIsStored, CompletedIsLoaded

LEMMA StoreRowsKeepsRows ==
  ASSUME IInv, RowsFollow, NEW j \in Loads, StoreRows(j)
  PROVE  RowsFollow'
<1> USE DEF IInv, TypeOK
<1>1. PICK c \in Cycles, t \in Types, n \in 1..MaxCopies : j = <<"load", <<c, t>>, n>>
  BY DEF Loads, LoadBatches
<1>2. /\ pc[j] = "read" /\ UNCHANGED <<cycle, transformed>>
      /\ loading' = [loading EXCEPT ![<<c, t>>] = "completed"]
      /\ rowsRead' = [rowsRead EXCEPT ![j] = NothingRead]
      /\ GoTo(j, "completing")
  BY <1>1 DEF StoreRows, Arg
<1>3. \A s \in Types, h \in Hours :
        station'[<<s, h>>] = IF s = t /\ rowsRead[j][h] # 0
                               THEN rowsRead[j][h] ELSE station[<<s, h>>]
  BY <1>1 DEF StoreRows, Arg
<1>4. \A d \in Cycles, s \in Types :
        loading'[<<d, s>>] = IF d = c /\ s = t THEN "completed" ELSE loading[<<d, s>>]
  BY <1>1, <1>2 DEF PipelineTypeOK, LoadBatches
<1>5. ReadersHoldTheRows'
  <2> SUFFICES ASSUME NEW i \in Loads, NEW h \in Hours, pc'[i] = "read",
                      transformed[h].owner = CycleOf(i)
               PROVE  rowsRead'[i][h] # 0
    BY <1>2 DEF ReadersHoldTheRows
  <2>1. i # j /\ pc[i] = "read" /\ rowsRead'[i] = rowsRead[i]
    BY <1>2, JobKinds DEF GoTo, JobTypeOK, MemoryTypeOK
  <2> QED BY <2>1 DEF RowsFollow, ReadersHoldTheRows
<1>6. LoadedIsStored'
  <2> SUFFICES ASSUME NEW d \in Cycles, NEW s \in Types, NEW h \in Hours,
                      loading'[<<d, s>>] = "completed", transformed[h].owner = d
               PROVE  station'[<<s, h>>] # 0
    BY <1>2 DEF LoadedIsStored
  <2>1. CASE d = c /\ s = t
    <3>1. rowsRead[j][h] # 0
      BY <1>1, <1>2, <2>1 DEF RowsFollow, ReadersHoldTheRows, CycleOf, Arg
    <3> QED BY <1>3, <2>1, <3>1
  <2>2. CASE ~ (d = c /\ s = t)
    BY <1>3, <1>4, <2>2 DEF RowsFollow, LoadedIsStored
  <2> QED BY <2>1, <2>2
<1>7. CompletedIsLoaded'
  BY <1>2, <1>4 DEF RowsFollow, CompletedIsLoaded
<1> QED
  BY <1>2, <1>5, <1>6, <1>7 DEF RowsFollow, RowsHaveValues

LEMMA NextKeepsRows ==
  ASSUME IInv, Calm, RowsFollow, [Next]_vars, faults' = 0
  PROVE  RowsFollow'
<1> USE DEF IInv, TypeOK
<1>1. ASSUME NEW c \in Cycles, CreateCycle(c) PROVE RowsFollow'
  <2>1. /\ cycle' = [cycle EXCEPT ![c] = "staging"]
        /\ loading' = [l \in LoadBatches |-> IF l[1] = c THEN "queued" ELSE loading[l]]
        /\ UNCHANGED <<transformed, station, pc, rowsRead>>
    BY <1>1 DEF CreateCycle, data, memory
  <2>2. \A d \in Cycles : d # c =>
          cycle'[d] = cycle[d] /\ \A t \in Types : loading'[<<d, t>>] = loading[<<d, t>>]
    BY <2>1 DEF PipelineTypeOK, LoadBatches
  <2>3. cycle'[c] = "staging"
    BY <2>1 DEF PipelineTypeOK
  <2> QED BY <2>1, <2>2, <2>3, RowsKept DEF RowsFollow, CompletedIsLoaded
<1>2. ASSUME NEW c \in Cycles, Orchestrate(c) \/ InterruptOrchestrator(c) PROVE RowsFollow'
  <2>1. UNCHANGED <<cycle, loading, transformed, station, rowsRead>>
    BY <1>2 DEF Orchestrate, DispatchHour, PushExtract, InterruptOrchestrator, pipeline,
                data, memory
  <2>2. \A j \in Loads : pc'[j] = pc[j]
    <3>1. CASE PushExtract(c)
      <4>1. pc' = [pc EXCEPT ![Pushed("extract", <<c, Max(Dispatched(c))>>)] = "queued"]
        BY <3>1 DEF PushExtract
      <4>2. Pushed("extract", <<c, Max(Dispatched(c))>>)[1] = "extract"
        BY DEF Pushed
      <4> QED BY <4>1, <4>2, JobShape, JobKinds DEF JobTypeOK
    <3>2. CASE ~PushExtract(c)
      BY <1>2, <3>2 DEF Orchestrate, DispatchHour, InterruptOrchestrator
    <3> QED BY <3>1, <3>2
  <2> QED BY <2>1, <2>2, RowsKept DEF RowsFollow, CompletedIsLoaded
<1>3. ASSUME NEW j \in Extracts, Extract(j) PROVE RowsFollow'
  <2>1. UNCHANGED <<cycle, loading, transformed, station, rowsRead>>
    BY <1>3 DEF Extract, Fetch, StoreRaw, PushTransform, pipeline, data, memory
  <2>2. \A i \in Loads : pc'[i] = pc[i]
    <3>1. CASE PushTransform(j)
      <4> DEFINE k == Pushed("transform", Arg(j))
      <4>1. k[1] = "transform" /\ pc' = [pc EXCEPT ![j] = "done", ![k] = "queued"]
        BY <3>1 DEF PushTransform, Pushed
      <4> HIDE DEF k
      <4> QED BY <4>1, JobShape, JobKinds DEF JobTypeOK
    <3>2. CASE Fetch(j) \/ StoreRaw(j)
      BY <3>2, JobKinds DEF Fetch, StoreRaw, GoTo, JobTypeOK
    <3> QED BY <1>3, <3>1, <3>2 DEF Extract
  <2> QED BY <2>1, <2>2, RowsKept DEF RowsFollow, CompletedIsLoaded
<1>4. ASSUME NEW j \in Transforms, Transform(j) PROVE RowsFollow'
  <2>1. CASE ReadRaw(j) \/ TryStart(j)
    <3>1. UNCHANGED <<loading, transformed, station, rowsRead>> /\ \E where : GoTo(j, where)
      BY <2>1 DEF ReadRaw, TryStart, pipeline, data, memory
    <3>2. \A i \in Loads : pc'[i] = pc[i]
      BY <3>1, JobKinds DEF GoTo, JobTypeOK
    <3>3. \A c \in Cycles : cycle'[c] = "completed" => cycle[c] = "completed"
      BY <2>1, JobShape DEF ReadRaw, TryStart, pipeline, PipelineTypeOK
    <3> QED BY <3>1, <3>2, <3>3, RowsKept DEF RowsFollow, CompletedIsLoaded
  <2>2. CASE \E t \in Types : PushLoad(j, t)
    <3>1. PICK t \in Types : PushLoad(j, t)
      BY <2>2
    <3> DEFINE k == Pushed("load", <<CycleOf(j), t>>)
    <3>2. \E x : pc' = [pc EXCEPT ![j] = x, ![k] = "queued"]
      BY <3>1 DEF PushLoad
    <3>3. UNCHANGED <<cycle, loading, transformed, station, rowsRead>>
      BY <3>1 DEF PushLoad, pipeline, data
    <3> HIDE DEF k
    <3>4. \A i \in Loads : pc'[i] = "read" => pc[i] = "read"
      BY <3>2, JobKinds DEF JobTypeOK
    <3> QED BY <3>3, <3>4, RowsKept DEF RowsFollow, CompletedIsLoaded
  <2> QED BY <1>4, <2>1, <2>2, UpsertKeepsRows DEF Transform
<1>5. ASSUME NEW j \in Loads, Load(j) PROVE RowsFollow'
  <2>1. CASE TryComplete(j)
    <3>1. UNCHANGED <<loading, transformed, station, rowsRead>> /\ GoTo(j, "done")
      BY <2>1 DEF TryComplete, data, memory
    <3>2. \A i \in Loads : pc'[i] = "read" => pc[i] = "read"
      BY <3>1, JobKinds DEF GoTo, JobTypeOK
    <3>3. \A c \in Cycles : cycle'[c] = "completed" => cycle[c] = "completed" \/ MayComplete(c)
      BY <2>1, JobShape DEF TryComplete, PipelineTypeOK
    <3> QED BY <3>1, <3>2, <3>3, RowsKept DEF RowsFollow, CompletedIsLoaded, MayComplete
  <2> QED BY <1>5, <2>1, ReadRowsKeepsRows, StoreRowsKeepsRows DEF Load
<1>6. CASE (\E h \in Hours : Publish(h)) \/ UNCHANGED vars
  <2>1. UNCHANGED <<cycle, loading, transformed, station, rowsRead, pc>>
    BY <1>6 DEF Publish, vars, pipeline, data, memory
  <2> QED BY <2>1, RowsKept DEF RowsFollow, CompletedIsLoaded
<1>7. ~ (\E j \in Jobs : Interrupt(j))
  BY DEF Interrupt, JobTypeOK
<1> QED
  BY <1>1, <1>2, <1>3, <1>4, <1>5, <1>6, <1>7 DEF Next

LEMMA FaultsOnlyGrow ==
  ASSUME IInv, [Next]_vars, faults' = 0 PROVE faults = 0
<1>1. faults \in Nat
  BY DEF IInv, TypeOK, JobTypeOK
<1>2. ASSUME NEW c \in Cycles, CreateCycle(c) \/ Orchestrate(c) \/ InterruptOrchestrator(c)
      PROVE  faults' \in {faults, faults + 1}
  BY <1>2 DEF CreateCycle, Orchestrate, DispatchHour, PushExtract, InterruptOrchestrator
<1>3. ASSUME NEW j \in Extracts, Extract(j) PROVE faults' = faults
  BY <1>3 DEF Extract, Fetch, StoreRaw, PushTransform
<1>4. ASSUME NEW j \in Transforms, Transform(j) PROVE faults' = faults
  BY <1>4 DEF Transform, ReadRaw, Upsert, TryStart, PushLoad
<1>5. ASSUME NEW j \in Loads, Load(j) PROVE faults' = faults
  BY <1>5 DEF Load, ReadRows, StoreRows, TryComplete
<1>6. ASSUME NEW j \in Jobs, Interrupt(j) PROVE faults' = faults + 1
  BY <1>6 DEF Interrupt
<1>7. ASSUME (\E h \in Hours : Publish(h)) \/ UNCHANGED vars PROVE faults' = faults
  BY <1>7 DEF Publish, vars
<1>8. faults' \in {faults, faults + 1}
  BY <1>2, <1>3, <1>4, <1>5, <1>6, <1>7 DEF Next
<1> QED BY <1>1, <1>8

\* Given that no file is back before its cycle is dispatched, a cycle that
\* completes without a fault has all the rows it still owns in
\* station_measurements, although cycles with the same window take rows over
\* while it loads: none is taken over by a cycle that has started to load.
THEOREM CompletedCyclesAreLoaded ==
  ASSUME SlowFetch
  PROVE  Spec => []CompletedCycleIsLoaded
<1> DEFINE I == faults = 0 => Calm /\ RowsFollow
<1>1. Init => I
  <2> SUFFICES ASSUME Init PROVE Calm /\ RowsFollow
    OBVIOUS
  <2>1. \A c \in Cycles : Dispatched(c) = {}
    BY DEF Init, Dispatched, Undispatched, Batches
  <2>2. \A j \in StagingJobs : ~Busy(j)
    BY JobKinds DEF Init, StagingJobs, Busy
  <2>3. Calm
    BY <2>1, <2>2 DEF Init, Calm, InOrder, AloneOnBatch, StagedIsOver, BeforeFirstPush,
                      DoneIsWhole, StartedIsStaged, Started
  <2>4. RowsFollow
    BY JobKinds DEF Init, RowsFollow, RowsHaveValues, ReadersHoldTheRows, LoadedIsStored,
                    CompletedIsLoaded, NoRow, LoadBatches
  <2> QED BY <2>3, <2>4
<1>2. IInv /\ (BatchesExist /\ FetchedIsSettled) /\ I /\ [Next]_vars => I'
  <2> SUFFICES ASSUME IInv, BatchesExist, FetchedIsSettled, I, [Next]_vars, faults' = 0
               PROVE  (Calm /\ RowsFollow)'
    OBVIOUS
  <2>1. faults = 0
    BY FaultsOnlyGrow
  <2> QED BY <2>1, NextKeepsCalm, NextKeepsRows
<1>3. I => CompletedCycleIsLoaded
  BY DEF CompletedCycleIsLoaded, RowsFollow, LoadedIsStored, CompletedIsLoaded
<1> HIDE DEF I
<1> QED
  BY <1>1, <1>2, <1>3, Invariance, KnowledgeInvariance, PTL DEF Spec
=============================================================================
