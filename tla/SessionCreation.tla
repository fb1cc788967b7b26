-------------------------- MODULE SessionCreation --------------------------
(***************************************************************************)
(* Session creations racing for one uuid and for one device row.           *)
(*                                                                         *)
(* Code: MobileSessions::Creator, FixedSessions::Creator and the legacy    *)
(* SessionBuilder, the unique indexes on LOWER(sessions.uuid) and on       *)
(* devices (user_id, mac_address), and the validations that look before    *)
(* those indexes do.                                                       *)
(*                                                                         *)
(* One action is one statement at READ COMMITTED.  A row that is inserted  *)
(* or updated but not committed is visible to nobody; it is known by its   *)
(* holder, the transaction every rival statement on the same key waits     *)
(* for.  A sessions row never changes here, so it is represented by the    *)
(* request that created it: owner, type, device, token and streams are     *)
(* those of that request.  uuids are taken in their lower-case form, which *)
(* both the validation and the index compare.                              *)
(***************************************************************************)
EXTENDS Naturals, FiniteSets

CONSTANTS
  Requests,      \* creations, sent once each
  Users,
  UuidNames,
  Macs,
  LabelNames,    \* the model and name a request gives its device
  Recordings,    \* the title, times, tags, ... a legacy upload carries
  None,          \* a device, label or recording there is not
  Mixes,         \* what the requests may be, together
  Registered,    \* what the devices table may hold at first
  MaxDeletes,    \* BOUND: how many sessions are deleted meanwhile
  MaxCrashes     \* BOUND: how many requests die

Nobody == "nobody"
V3 == {"mobile", "fixed"}

\* The two v3 endpoints name a device; the two legacy ones carry a recording.
Creations ==
  [endpoint : V3, user : Users, uuid : UuidNames, mac : Macs, label : LabelNames,
   recording : {None}]
  \cup [endpoint : {"legacy_mobile", "legacy_fixed"}, user : Users, uuid : UuidNames,
        mac : {None}, label : {None}, recording : Recordings]

ASSUME CreationAssumption ==
  /\ Nobody \notin Requests
  /\ None \notin Macs \cup LabelNames \cup Recordings
  /\ Mixes \subseteq [Requests -> Creations]
  /\ Registered \subseteq [Users \X Macs -> LabelNames \cup {None}]
  /\ MaxDeletes \in Nat
  /\ MaxCrashes \in Nat

Devices == Users \X Macs
Labels == LabelNames \cup {None}

VARIABLES
  sent,          \* what each request is
  row,           \* per uuid, the request whose sessions row is committed
  device,        \* per device, the committed label
  rowHolder,     \* per uuid, the transaction that inserted it last, uncommitted
  deviceHolder,  \* per device, the transaction that wrote it last, uncommitted
  pc,            \* where each request is
  known,         \* the device label a request found
  found,         \* the session a request that lost the race found
  answer,        \* what a request was answered
  given,         \* the session it was given
  jobs,          \* per session, how often its measurements were queued
  deletes,       \* deletions so far
  wasFree,       \* history: the uuid had no session when the request began
  committed      \* history: the sessions that were ever committed

db == <<row, device>>
holders == <<rowHolder, deviceHolder>>
vars == <<sent, db, holders, pc, known, found, answer, given, jobs, deletes, wasFree, committed>>

IsV3(r) == sent[r].endpoint \in V3
IsLegacy(r) == ~ IsV3(r)
UuidOf(r) == sent[r].uuid
LabelOf(r) == sent[r].label
DeviceOf(r) == <<sent[r].user, sent[r].mac>>
TypeOf(r) ==
  IF sent[r].endpoint \in {"mobile", "legacy_mobile"} THEN "MobileSession" ELSE "FixedSession"

Init ==
  /\ sent \in Mixes
  /\ row = [u \in UuidNames |-> Nobody]
  /\ device \in Registered
  /\ rowHolder = [u \in UuidNames |-> Nobody]
  /\ deviceHolder = [d \in Devices |-> Nobody]
  /\ pc = [r \in Requests |-> "idle"]
  /\ known = [r \in Requests |-> None]
  /\ found = [r \in Requests |-> Nobody]
  /\ answer = [r \in Requests |-> "none"]
  /\ given = [r \in Requests |-> Nobody]
  /\ jobs = [r \in Requests |-> 0]
  /\ deletes = 0
  /\ wasFree = [r \in Requests |-> TRUE]
  /\ committed = {}

-----------------------------------------------------------------------------
GoTo(r, where) == pc' = [pc EXCEPT ![r] = where]

Respond(r, what) ==
  /\ GoTo(r, "answered")
  /\ answer' = [answer EXCEPT ![r] = what]

\* The end of a transaction, either way.
Release(r) ==
  /\ rowHolder' = [u \in UuidNames |-> IF rowHolder[u] = r THEN Nobody ELSE rowHolder[u]]
  /\ deviceHolder' = [d \in Devices |-> IF deviceHolder[d] = r THEN Nobody ELSE deviceHolder[d]]

\* What the request held in memory is gone once it is answered.
Forget(r) ==
  /\ known' = [known EXCEPT ![r] = None]
  /\ found' = [found EXCEPT ![r] = Nobody]

\* Mutant of Refuse: the refusal is answered from within the transaction, which stays
\* open with the rows it wrote.
RefuseHolding(r, what) ==
  /\ Respond(r, what)
  /\ Forget(r)
  /\ UNCHANGED <<sent, db, holders, given, jobs, deletes, wasFree, committed>>

\* The transaction is rolled back and the request refused.
Refuse(r, what) ==
  /\ Release(r)
  /\ Respond(r, what)
  /\ Forget(r)
  /\ UNCHANGED <<sent, db, given, jobs, deletes, wasFree, committed>>

\* RecordNotUnique: the transaction is rolled back, and the winner looked for.
LoseRace(r) ==
  /\ Release(r)
  /\ GoTo(r, "recovering")
  /\ Forget(r)
  /\ UNCHANGED <<sent, db, answer, given, jobs, deletes, wasFree, committed>>

\* Only the v3 endpoints tell one refusal from another: a legacy upload is
\* answered 400 for all of them.
Error(r, what) == IF IsLegacy(r) THEN "bad_request" ELSE what

-----------------------------------------------------------------------------
(* The device. *)

Begin(r) ==
  /\ pc[r] = "idle"
  /\ wasFree' = [wasFree EXCEPT ![r] = row[UuidOf(r)] = Nobody]
  /\ GoTo(r, IF IsV3(r) THEN "finding" ELSE "validating")
  /\ UNCHANGED <<sent, db, holders, known, found, answer, given, jobs, deletes, committed>>

\* find_or_initialize_by
FindDevice(r) ==
  /\ pc[r] = "finding"
  /\ known' = [known EXCEPT ![r] = device[DeviceOf(r)]]
  /\ GoTo(r, IF device[DeviceOf(r)] = None THEN "checking" ELSE "saving")
  /\ UNCHANGED <<sent, db, holders, found, answer, given, jobs, deletes, wasFree, committed>>

\* The uniqueness validation of a new device, which finds one that was committed
\* since FindDevice: RecordInvalid of a Device, an internal error.
CheckDevice(r) ==
  /\ pc[r] = "checking"
  /\ \/ /\ device[DeviceOf(r)] = None
        /\ GoTo(r, "saving")
        /\ UNCHANGED <<sent, db, holders, known, found, answer, given, jobs, deletes, wasFree, committed>>
     \/ /\ device[DeviceOf(r)] # None
        /\ Refuse(r, "internal_error")

\* device.save!: an INSERT, an UPDATE, or nothing when nothing is dirty.
SaveDevice(r) ==
  /\ pc[r] = "saving"
  /\ \/ /\ known[r] = LabelOf(r)
        /\ GoTo(r, "validating")
        /\ UNCHANGED <<sent, db, holders, known, found, answer, given, jobs, deletes, wasFree, committed>>
     \/ /\ known[r] # LabelOf(r)
        /\ deviceHolder[DeviceOf(r)] = Nobody
        /\ known[r] = None => device[DeviceOf(r)] = None
        /\ deviceHolder' = [deviceHolder EXCEPT ![DeviceOf(r)] = r]
        /\ GoTo(r, "validating")
        /\ UNCHANGED <<sent, db, rowHolder, known, found, answer, given, jobs, deletes, wasFree, committed>>
     \/ /\ known[r] = None
        /\ deviceHolder[DeviceOf(r)] = Nobody
        /\ device[DeviceOf(r)] # None
        /\ LoseRace(r)

-----------------------------------------------------------------------------
(* The session. *)

\* The uniqueness validation of the uuid, over all users.
ValidateUuid(r) ==
  /\ pc[r] = "validating"
  /\ \/ /\ row[UuidOf(r)] = Nobody
        /\ GoTo(r, "inserting")
        /\ UNCHANGED <<sent, db, holders, known, found, answer, given, jobs, deletes, wasFree, committed>>
     \/ /\ row[UuidOf(r)] # Nobody
        /\ Refuse(r, Error(r, "uuid_taken"))

\* INSERT INTO sessions: waits for a rival's uncommitted entry in the index, and
\* is refused by a committed one.
InsertSession(r) ==
  /\ pc[r] = "inserting"
  /\ rowHolder[UuidOf(r)] = Nobody
  /\ \/ /\ row[UuidOf(r)] = Nobody
        /\ rowHolder' = [rowHolder EXCEPT ![UuidOf(r)] = r]
        /\ GoTo(r, "committing")
        /\ UNCHANGED <<sent, db, deviceHolder, known, found, answer, given, jobs, deletes, wasFree, committed>>
     \/ /\ row[UuidOf(r)] # Nobody
        /\ LoseRace(r)

\* create_streams finds no thresholds, or too many custom sensors.
RefuseStreams(r) ==
  /\ pc[r] = "committing"
  /\ Refuse(r, Error(r, "validation_error"))

\* COMMIT. A v3 create is answered at once; a legacy upload has its measurements
\* still to queue.
Commit(r) ==
  /\ pc[r] = "committing"
  /\ row' = [row EXCEPT ![UuidOf(r)] = r]
  /\ device' = [d \in Devices |-> IF deviceHolder[d] = r THEN LabelOf(r) ELSE device[d]]
  /\ Release(r)
  /\ given' = [given EXCEPT ![r] = r]
  /\ IF IsV3(r)
       THEN Respond(r, "created")
       ELSE GoTo(r, "queueing") /\ UNCHANGED answer
  /\ Forget(r)
  /\ committed' = committed \cup {r}
  /\ UNCHANGED <<sent, jobs, deletes, wasFree>>

\* MeasurementsCreator for every stream of the transaction's own session.
QueueMeasurements(r) ==
  /\ pc[r] = "queueing"
  /\ jobs' = [jobs EXCEPT ![r] = @ + 1]
  /\ Respond(r, "created")
  /\ UNCHANGED <<sent, db, holders, known, found, given, deletes, wasFree, committed>>

-----------------------------------------------------------------------------
(* The recovery of the request that lost. *)

\* reusable_session: the user's session of this uuid and type.
FindWinner(r) ==
  LET s == row[UuidOf(r)]
  IN  /\ pc[r] = "recovering"
      /\ \/ /\ s # Nobody /\ sent[s].user = sent[r].user /\ TypeOf(s) = TypeOf(r)
            /\ found' = [found EXCEPT ![r] = s]
            /\ GoTo(r, "comparing")
            /\ UNCHANGED <<sent, db, holders, known, answer, given, jobs, deletes, wasFree, committed>>
         \/ /\ ~ (s # Nobody /\ sent[s].user = sent[r].user /\ TypeOf(s) = TypeOf(r))
            /\ Refuse(r, Error(r, "internal_error"))

\* Mutant of Reusable: the device of the winner is not compared.
ReusableByAnyDevice(r, s) ==
  IF IsV3(r) THEN IsV3(s) /\ row[UuidOf(r)] = s
              ELSE IsLegacy(s) /\ sent[s].recording = sent[r].recording

\* Only a row this endpoint could have produced, for this device or of this
\* recording. A v3 row is known by the sensor_type_id of its streams, which are
\* read after the session and are gone if it was deleted in between; a legacy
\* upload compares the recording, and the device a v3 row has and its own lacks.
Reusable(r, s) ==
  IF IsV3(r) THEN IsV3(s) /\ row[UuidOf(r)] = s /\ sent[s].mac = sent[r].mac
              ELSE IsLegacy(s) /\ sent[s].recording = sent[r].recording

\* Mutant of Recover: the jobs of the rolled-back attempt are run all the same.
RecoverAndQueue(r) ==
  /\ pc[r] = "comparing"
  /\ Reusable(r, found[r])
  /\ given' = [given EXCEPT ![r] = found[r]]
  /\ jobs' = [jobs EXCEPT ![found[r]] = @ + (IF IsV3(r) THEN 0 ELSE 1)]
  /\ Respond(r, "created")
  /\ Forget(r)
  /\ UNCHANGED <<sent, db, holders, deletes, wasFree, committed>>

\* Mutant of Recover: the answer is built from the request's own attempt.
RecoverOwn(r) ==
  /\ pc[r] = "comparing"
  /\ Reusable(r, found[r])
  /\ given' = [given EXCEPT ![r] = IF IsV3(r) THEN r ELSE found[r]]
  /\ Respond(r, "created")
  /\ Forget(r)
  /\ UNCHANGED <<sent, db, holders, jobs, deletes, wasFree, committed>>

\* The winner's session, its token and its streams; nothing of the request's own.
Recover(r) ==
  /\ pc[r] = "comparing"
  /\ \/ /\ Reusable(r, found[r])
        /\ given' = [given EXCEPT ![r] = found[r]]
        /\ Respond(r, "created")
        /\ Forget(r)
        /\ UNCHANGED <<sent, db, holders, jobs, deletes, wasFree, committed>>
     \/ /\ ~ Reusable(r, found[r])
        /\ Refuse(r, Error(r, "internal_error"))

-----------------------------------------------------------------------------
(* What ends a wait, and what else happens. *)

\* The transaction whose uncommitted row the request's next statement waits for.
Rival(r) ==
  IF pc[r] = "saving" /\ known[r] # LabelOf(r) THEN deviceHolder[DeviceOf(r)]
  ELSE IF pc[r] = "inserting" THEN rowHolder[UuidOf(r)]
  ELSE Nobody

\* SET LOCAL lock_timeout = '3s', the first statement of the transaction.
LockTimeout(r) ==
  /\ Rival(r) # Nobody
  /\ Refuse(r, Error(r, "try_again_later"))

\* The process dies: PostgreSQL rolls the transaction back, nobody is answered.
Crash(r) ==
  /\ Cardinality({x \in Requests : pc[x] = "dead"}) < MaxCrashes
  /\ pc[r] \notin {"idle", "answered", "dead"}
  /\ Release(r)
  /\ GoTo(r, "dead")
  /\ Forget(r)
  /\ UNCHANGED <<sent, db, answer, given, jobs, deletes, wasFree, committed>>

\* The session is deleted (MobileUpload has the steps of it), and the uuid free.
Delete(u) ==
  /\ deletes < MaxDeletes
  /\ row[u] # Nobody
  /\ row' = [row EXCEPT ![u] = Nobody]
  /\ deletes' = deletes + 1
  /\ UNCHANGED <<sent, device, holders, pc, known, found, answer, given, jobs, wasFree, committed>>

-----------------------------------------------------------------------------
Step(r) ==
  \/ Begin(r)
  \/ FindDevice(r)
  \/ CheckDevice(r)
  \/ SaveDevice(r)
  \/ ValidateUuid(r)
  \/ InsertSession(r)
  \/ RefuseStreams(r)
  \/ Commit(r)
  \/ QueueMeasurements(r)
  \/ FindWinner(r)
  \/ Recover(r)
  \/ LockTimeout(r)
  \/ Crash(r)

Next == (\E r \in Requests : Step(r)) \/ (\E u \in UuidNames : Delete(u))

Spec == Init /\ [][Next]_vars

\* While a request that came can go on, some request does. Nothing is assumed of the
\* turns they take, of the lock timeout, nor of when a request comes, a process dies
\* or a session is deleted.
Advance(r) ==
  \/ FindDevice(r) \/ CheckDevice(r) \/ SaveDevice(r)
  \/ ValidateUuid(r) \/ InsertSession(r) \/ RefuseStreams(r)
  \/ Commit(r) \/ QueueMeasurements(r)
  \/ FindWinner(r) \/ Recover(r)

FairSpec == Spec /\ WF_vars(\E r \in Requests : Advance(r))
-----------------------------------------------------------------------------
(* Properties. *)

Phases == {"idle", "finding", "checking", "saving", "validating", "inserting",
           "committing", "queueing", "recovering", "comparing", "answered", "dead"}

V3Answers == {"none", "created", "uuid_taken", "validation_error", "try_again_later",
              "internal_error"}
LegacyAnswers == {"none", "created", "bad_request"}

\* Every variable has its type, and each endpoint its vocabulary of answers.
TypeOK ==
  /\ sent \in [Requests -> Creations]
  /\ row \in [UuidNames -> Requests \cup {Nobody}]
  /\ device \in [Devices -> Labels]
  /\ rowHolder \in [UuidNames -> Requests \cup {Nobody}]
  /\ deviceHolder \in [Devices -> Requests \cup {Nobody}]
  /\ pc \in [Requests -> Phases]
  /\ known \in [Requests -> Labels]
  /\ found \in [Requests -> Requests \cup {Nobody}]
  /\ answer \in [Requests -> V3Answers \cup LegacyAnswers]
  /\ \A r \in Requests : answer[r] \in (IF IsV3(r) THEN V3Answers ELSE LegacyAnswers)
  /\ given \in [Requests -> Requests \cup {Nobody}]
  /\ jobs \in [Requests -> Nat]
  /\ deletes \in 0..MaxDeletes
  /\ wasFree \in [Requests -> BOOLEAN]
  /\ committed \in SUBSET Requests

\* Nobody is given a session that was never committed: whatever a request that
\* lost the race hands out (token, stream ids) is not of its rolled-back attempt.
GivenWasCommitted ==
  \A r \in Requests :
    /\ answer[r] = "created" => given[r] # Nobody
    /\ given[r] # Nobody => given[r] \in committed

\* One session never serves two devices, two users or two recordings: whoever is
\* given a session sent what it was created from (creator.rb:98-101).
NoMixing ==
  \A r \in Requests :
    LET s == given[r]
    IN  answer[r] = "created" =>
          /\ sent[s].user = sent[r].user /\ UuidOf(s) = UuidOf(r) /\ TypeOf(s) = TypeOf(r)
          /\ sent[s].mac = sent[r].mac
          /\ IsLegacy(r) => sent[s].recording = sent[r].recording

\* However many uploads of one recording race, its measurements are queued once,
\* for a session that was committed; and whoever is told of the session is told of
\* one whose measurements are queued or about to be, unless its creator died first.
MeasurementsQueuedOnce ==
  /\ \A s \in Requests : jobs[s] <= 1 /\ (jobs[s] > 0 => IsLegacy(s) /\ s \in committed)
  /\ \A r \in Requests :
       LET s == given[r]
       IN  IsLegacy(r) /\ answer[r] = "created" =>
             jobs[s] = 1 \/ pc[s] \in {"queueing", "dead"}

\* Creations never wait for each other in a circle: the device row is always taken
\* before the uuid is, and whatever ends a transaction frees both. So every creation
\* is answered, unless its process dies, also where no wait is ever timed out: a chain
\* of requests, each waiting for the row the next one holds, resolves from its end.
EveryCreationEnds ==
  []<>(\A r \in Requests : pc[r] \in {"idle", "answered", "dead"})

\* "Creating the same uuid twice concurrently yields one session; both callers are
\* answered with it": a create that began while the uuid was free is not refused
\* because of the uuid or of the device.
ConcurrentCreatesAreAnswered ==
  \A r \in Requests : wasFree[r] => answer[r] \notin {"uuid_taken", "internal_error"}
=============================================================================
