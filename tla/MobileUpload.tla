---------------------------- MODULE MobileUpload ----------------------------
(***************************************************************************)
(* Binary measurement uploads to one mobile session, racing each other, a  *)
(* finish and a delete of that session.                                    *)
(*                                                                         *)
(* Code: MobileSessions::BinaryProtocol::Ingester, MeasurementCutoff,      *)
(* MobileSessions::Finisher, MobileSessions::Destroyer and the v3          *)
(* controllers that call them.                                             *)
(*                                                                         *)
(* Every request runs on a PostgreSQL connection of its own at READ        *)
(* COMMITTED.  One action is one statement (or one run of statements that  *)
(* takes no new lock and reads nothing another request may write).  A      *)
(* transaction's writes stay in the request's local state, together with   *)
(* the locks that protect them, until its commit publishes them.           *)
(*                                                                         *)
(* Data abstraction.  A frame is a pair <<sensor type, epoch>>; its value  *)
(* is its identity.  The phone's position is one coordinate that depends   *)
(* on the epoch only: longitude is handled like latitude.  An average is   *)
(* represented by the multiset of epochs it is the average of.             *)
(***************************************************************************)
EXTENDS Integers, FiniteSetsExt

CONSTANTS
  Uploads,      \* POST .../measurements requests
  Deletions,    \* DELETE .../:uuid requests
  Finishes,     \* POST .../:uuid/finish requests
  SensorTypes,  \* sensor_type_ids a payload may name
  Streams,      \* those the session has a stream for; the id order is their order
  Epochs,       \* UTC instants, positive
  Wall,         \* local wall clock of an instant in the session's time zone
  Position,     \* where the phone was at an instant
  Seed,         \* the point MobileSessions::Creator gave the bounding box
  Payloads,     \* the sets of frames an upload may carry
  MaxSends      \* BOUND: how often a client sends the same payload

Requests == Uploads \cup Deletions \cup Finishes
Nobody == "nobody"
Null == 0
NoPoint == -1

ASSUME UploadAssumption ==
  /\ Uploads \cap Deletions = {}
  /\ Uploads \cap Finishes = {}
  /\ Deletions \cap Finishes = {}
  /\ Nobody \notin Requests
  /\ Streams # {} /\ Streams \subseteq SensorTypes /\ IsFiniteSet(Streams)
  /\ SensorTypes \subseteq Nat
  /\ Epochs \subseteq Nat \ {Null} /\ IsFiniteSet(Epochs)
  /\ Wall \in [Epochs -> Nat \ {Null}]
  /\ Position \in [Epochs -> Nat]
  /\ Seed \in Nat
  /\ Payloads \subseteq (SUBSET (SensorTypes \X Epochs)) \ {{}}
  /\ MaxSends \in Nat

Stored == Streams \X Epochs

VARIABLES
  session,      \* the sessions row
  streams,      \* ids of the streams rows that exist
  stats,        \* aggregate columns of each streams row
  rows,         \* how many measurements rows a frame has
  tombstone,    \* whether deleted_sessions has the uuid
  advisory,     \* holder of pg_advisory_xact_lock(MEAS, stream id)
  rowLock,      \* transaction holding the streams row
  sessionLock,  \* transaction holding the sessions row
  pc,           \* where each request is
  answer,       \* what it was answered
  sends,        \* how often an upload was sent
  payload,      \* the frames it carries
  finishSeen,   \* finished_at of the session object the upload loaded
  todo,         \* streams the request has still to visit
  copy,         \* the Stream objects an upload holds in memory
  inserted,     \* measurements rows the transaction inserted
  doomed        \* measurements rows the transaction deleted

db == <<session, streams, stats, rows, tombstone>>
locks == <<advisory, rowLock, sessionLock>>
local == <<sends, payload, finishSeen, todo, copy, inserted, doomed>>
vars == <<db, locks, pc, answer, local>>

NoRows == [f \in Stored |-> 0]
NoneAveraged == [e \in Epochs |-> 0]

\* A stream as MobileSessions::Creator leaves it: no measurements, the box
\* collapsed to the one point the request named.
SeedStats ==
  [count |-> 0, mean |-> NoneAveraged, low |-> Seed, high |-> Seed, start |-> NoPoint]

NothingHeld == [s \in Streams |-> SeedStats]

Init ==
  /\ session = [live |-> TRUE, finishedAt |-> Null, version |-> 1,
                from |-> Null, to |-> Null]
  /\ streams = Streams
  /\ stats = NothingHeld
  /\ rows = NoRows
  /\ tombstone = FALSE
  /\ advisory = [s \in Streams |-> Nobody]
  /\ rowLock = [s \in Streams |-> Nobody]
  /\ sessionLock = Nobody
  /\ pc = [r \in Requests |-> "idle"]
  /\ answer = [r \in Requests |-> "none"]
  /\ sends = [u \in Uploads |-> 0]
  /\ payload \in [Uploads -> Payloads]
  /\ finishSeen = [u \in Uploads |-> Null]
  /\ todo = [r \in Uploads \cup Deletions |-> {}]
  /\ copy = [u \in Uploads |-> NothingHeld]
  /\ inserted = [u \in Uploads |-> {}]
  /\ doomed = [d \in Deletions |-> NoRows]

-----------------------------------------------------------------------------
(* Common to the requests. *)

GoTo(r, where) == pc' = [pc EXCEPT ![r] = where]

ReleaseLocks(r) ==
  /\ advisory' = [s \in Streams |-> IF advisory[s] = r THEN Nobody ELSE advisory[s]]
  /\ rowLock' = [s \in Streams |-> IF rowLock[s] = r THEN Nobody ELSE rowLock[s]]
  /\ sessionLock' = IF sessionLock = r THEN Nobody ELSE sessionLock

Respond(r, what) ==
  /\ GoTo(r, "answered")
  /\ answer' = [answer EXCEPT ![r] = what]

\* What the request held in memory is gone once it is answered.
ForgetUpload(u) ==
  /\ todo' = [todo EXCEPT ![u] = {}]
  /\ copy' = [copy EXCEPT ![u] = NothingHeld]
  /\ inserted' = [inserted EXCEPT ![u] = {}]
  /\ UNCHANGED <<sends, payload, finishSeen, doomed>>

\* ROLLBACK: nothing the transaction wrote was visible, so only the locks and
\* the request's memory go.
RollBackUpload(u, what) ==
  /\ ReleaseLocks(u)
  /\ Respond(u, what)
  /\ ForgetUpload(u)
  /\ UNCHANGED db

-----------------------------------------------------------------------------
(* Upload. *)

\* Mutant of Kept: the cutoff drops the frame of the finish instant itself.
KeptStrictlyBefore(u) ==
  {f \in payload[u] : finishSeen[u] = Null \/ f[2] < finishSeen[u]}

\* Frames recorded after the finish the request knows of are dropped.
Kept(u) ==
  {f \in payload[u] : finishSeen[u] = Null \/ f[2] <= finishSeen[u]}

\* MeasurementsController#create: the session is looked up by uuid once and its
\* finished_at stays as loaded.
LoadSession(u) ==
  /\ pc[u] = "idle"
  /\ sends[u] < MaxSends
  /\ sends' = [sends EXCEPT ![u] = @ + 1]
  /\ IF session.live
       THEN /\ finishSeen' = [finishSeen EXCEPT ![u] = session.finishedAt]
            /\ GoTo(u, "loaded")
            /\ UNCHANGED answer
       ELSE /\ Respond(u, "not_found")
            /\ UNCHANGED finishSeen
  /\ UNCHANGED <<db, locks, payload, todo, copy, inserted, doomed>>

\* Cutoff, then one lookup per sensor type; a type without a stream refuses the
\* whole upload, and so does a session deleted since it was loaded.
ResolveStreams(u) ==
  LET types == {f[1] : f \in Kept(u)}
  IN  /\ pc[u] = "loaded"
      /\ \/ /\ types = {}
            /\ Respond(u, "ok")
            /\ UNCHANGED todo
         \/ /\ types # {}
            /\ ~ types \subseteq streams
            /\ Respond(u, "unsupported")
            /\ UNCHANGED todo
         \/ /\ types # {}
            /\ types \subseteq streams
            /\ todo' = [todo EXCEPT ![u] = types]
            /\ GoTo(u, "locking")
            /\ UNCHANGED answer
      /\ UNCHANGED <<db, locks, sends, payload, finishSeen, copy, inserted, doomed>>

\* Mutant of Current: the order in which a payload lists its streams.
CurrentAsListed(u) == IF Cardinality(payload[u]) > 2 THEN Max(todo[u]) ELSE Min(todo[u])

\* ordered_by_stream_id: the lowest id first.
Current(u) == Min(todo[u])

\* Where the loop over streams goes after the current one.
AfterStream(u) ==
  /\ todo' = [todo EXCEPT ![u] = @ \ {Current(u)}]
  /\ GoTo(u, IF todo[u] # {Current(u)} THEN "locking" ELSE "bounding")

\* Mutant of LockStream: the advisory lock is not taken.
LockStreamUnserialized(u) ==
  /\ pc[u] = "locking"
  /\ Current(u) \in streams
  /\ copy' = [copy EXCEPT ![u][Current(u)] = stats[Current(u)]]
  /\ GoTo(u, "reloaded")
  /\ UNCHANGED <<db, locks, answer, sends, payload, finishSeen, todo, inserted, doomed>>

\* Mutant of LockStream: the stream is not reloaded under the lock.
LockStreamStale(u) ==
  /\ pc[u] = "locking"
  /\ advisory[Current(u)] = Nobody
  /\ Current(u) \in streams
  /\ advisory' = [advisory EXCEPT ![Current(u)] = u]
  /\ GoTo(u, "reloaded")
  /\ UNCHANGED <<db, rowLock, sessionLock, answer, local>>

\* lock_stream, then stream.reload: a row that is gone raises RecordNotFound.
LockStream(u) ==
  /\ pc[u] = "locking"
  /\ advisory[Current(u)] = Nobody
  /\ \/ /\ Current(u) \in streams
        /\ advisory' = [advisory EXCEPT ![Current(u)] = u]
        /\ copy' = [copy EXCEPT ![u][Current(u)] = stats[Current(u)]]
        /\ GoTo(u, "reloaded")
        /\ UNCHANGED <<db, rowLock, sessionLock, answer, sends, payload,
                       finishSeen, todo, inserted, doomed>>
     \/ /\ Current(u) \notin streams
        /\ RollBackUpload(u, "not_found")

\* The frames of the current stream whose wall clock no stored row has:
\* `measurements.time` holds the wall clock, and reject_existing compares that.
Absent(u) ==
  {f \in Kept(u) :
     /\ f[1] = Current(u)
     /\ \A g \in Stored : g[1] = f[1] /\ rows[g] > 0 => Wall[g[2]] # Wall[f[2]]}

\* reject_existing and import.
ImportRows(u) ==
  /\ pc[u] = "reloaded"
  /\ inserted' = [inserted EXCEPT ![u] = @ \cup Absent(u)]
  /\ IF Absent(u) = {}
       THEN AfterStream(u)
       ELSE GoTo(u, "imported") /\ UNCHANGED todo
  /\ UNCHANGED <<db, locks, answer, sends, payload, finishSeen, copy, doomed>>

\* The epochs a transaction inserted into stream s.
Batch(u, s) == {e \in Epochs : <<s, e>> \in inserted[u]}

\* The rows of s a transaction sees: the committed ones and its own.
Visible(u, s) == {e \in Epochs : rows[<<s, e>>] > 0} \cup Batch(u, s)

\* The row whose wall clock comes first gives the start coordinates; between
\* equal clocks ORDER BY time leaves the choice open.
Earliest(E) == {e \in E : \A x \in E : Wall[e] <= Wall[x]}

\* bounding_box, running_average and start_coordinates over the copy loaded in
\* LockStream; measurements_count is incremented in SQL.
Aggregated(u, s, first) ==
  LET batch == Batch(u, s)
      held == copy[u][s]
      places == {Position[e] : e \in batch}
      widen == held.count > 0
  IN  [count |-> stats[s].count + Cardinality(batch),
       mean |-> [e \in Epochs |-> (IF widen THEN held.mean[e] ELSE 0)
                                    + (IF e \in batch THEN 1 ELSE 0)],
       low |-> Min(IF widen THEN places \cup {held.low} ELSE places),
       high |-> Max(IF widen THEN places \cup {held.high} ELSE places),
       start |-> Position[first]]

\* stream.update! and update_counters: the row lock is waited for, and an
\* UPDATE that finds the row deleted changes nothing and raises nothing.
UpdateStream(u) ==
  /\ pc[u] = "imported"
  /\ rowLock[Current(u)] = Nobody
  /\ IF Current(u) \in streams
       THEN /\ rowLock' = [rowLock EXCEPT ![Current(u)] = u]
            /\ \E first \in Earliest(Visible(u, Current(u))) :
                 copy' = [copy EXCEPT ![u][Current(u)] = Aggregated(u, Current(u), first)]
       ELSE UNCHANGED <<rowLock, copy>>
  /\ AfterStream(u)
  /\ UNCHANGED <<db, advisory, sessionLock, answer, sends, payload, finishSeen,
                 inserted, doomed>>

\* Mutant of LockSession: with_lock on a vanished row is not noticed.
LockSessionUnchecked(u) ==
  /\ pc[u] = "bounding"
  /\ sessionLock = Nobody
  /\ sessionLock' = IF inserted[u] = {} THEN Nobody ELSE u
  /\ GoTo(u, "committing")
  /\ UNCHANGED <<db, advisory, rowLock, answer, local>>

\* apply_session_times: session.lock! unless nothing was inserted.
LockSession(u) ==
  /\ pc[u] = "bounding"
  /\ \/ /\ inserted[u] = {}
        /\ GoTo(u, "committing")
        /\ UNCHANGED <<db, locks, answer, local>>
     \/ /\ inserted[u] # {}
        /\ sessionLock = Nobody
        /\ session.live
        /\ sessionLock' = u
        /\ GoTo(u, "committing")
        /\ UNCHANGED <<db, advisory, rowLock, answer, local>>
     \/ /\ inserted[u] # {}
        /\ sessionLock = Nobody
        /\ ~ session.live
        /\ RollBackUpload(u, "not_found")

\* Mutant of NewStart: only the first upload sets the start.
NewStartOnce(clocks) == IF session.from = Null THEN Min(clocks) ELSE session.from

\* The start and end of the session, widened by the clocks of new rows.
NewStart(clocks) ==
  IF session.from = Null THEN Min(clocks) ELSE Min(clocks \cup {session.from})

NewEnd(clocks) ==
  IF session.to = Null THEN Max(clocks) ELSE Max(clocks \cup {session.to})

\* The session's bounds, and COMMIT.
Commit(u) ==
  LET clocks == {Wall[f[2]] : f \in inserted[u]}
  IN  /\ pc[u] = "committing"
      /\ IF inserted[u] = {}
           THEN UNCHANGED session
           ELSE session' = [session EXCEPT !.from = NewStart(clocks),
                                           !.to = NewEnd(clocks)]
      /\ rows' = [f \in Stored |-> rows[f] + (IF f \in inserted[u] THEN 1 ELSE 0)]
      /\ stats' = [s \in Streams |-> IF rowLock[s] = u THEN copy[u][s] ELSE stats[s]]
      /\ ReleaseLocks(u)
      /\ Respond(u, "ok")
      /\ ForgetUpload(u)
      /\ UNCHANGED <<streams, tombstone>>

\* The lock an upload is waiting for, and who has it.
Holder(u) ==
  IF pc[u] = "locking" THEN advisory[Current(u)]
  ELSE IF pc[u] = "imported" THEN rowLock[Current(u)]
  ELSE IF pc[u] = "bounding" /\ inserted[u] # {} THEN sessionLock
  ELSE Nobody

\* Mutant of LockTimeout: the timeout covers the advisory lock only.
LockTimeoutOfAdvisory(u) ==
  /\ pc[u] = "locking"
  /\ Holder(u) # Nobody
  /\ RollBackUpload(u, "try_again_later")

\* SET LOCAL lock_timeout: a wait ends after one second with LockWaitTimeout.
LockTimeout(u) ==
  /\ Holder(u) # Nobody
  /\ RollBackUpload(u, "try_again_later")

InTransaction(u) == pc[u] \in {"locking", "reloaded", "imported", "bounding", "committing"}

\* Deadlock victim, cancelled statement, lost connection.
FailUpload(u) ==
  /\ InTransaction(u)
  /\ RollBackUpload(u, "internal_error")

\* The client re-sends: its answer was a refusal, or was lost on the way.
Resend(u) ==
  /\ pc[u] = "answered"
  /\ sends[u] < MaxSends
  /\ GoTo(u, "idle")
  /\ answer' = [answer EXCEPT ![u] = "none"]
  /\ UNCHANGED <<db, locks, local>>

-----------------------------------------------------------------------------
(* Delete. *)

\* The controller's lookup; a uuid with a tombstone was deleted by this user.
LoadForDelete(d) ==
  /\ pc[d] = "idle"
  /\ IF session.live
       THEN GoTo(d, "found") /\ UNCHANGED answer
       ELSE Respond(d, IF tombstone THEN "gone" ELSE "not_found")
  /\ UNCHANGED <<db, locks, local>>

\* The transaction's pluck of the stream ids; without any there are no children.
PluckStreams(d) ==
  /\ pc[d] = "found"
  /\ todo' = [todo EXCEPT ![d] = streams]
  /\ GoTo(d, IF streams = {} THEN "destroying" ELSE "deleting")
  /\ UNCHANGED <<db, locks, answer, sends, payload, finishSeen, copy, inserted, doomed>>

\* Mutant of LockStreamRow: the rows are deleted without being locked first.
PassStreamRow(d, s) ==
  /\ pc[d] = "deleting"
  /\ s \in todo[d]
  /\ todo' = [todo EXCEPT ![d] = @ \ {s}]
  /\ UNCHANGED <<db, locks, pc, answer, sends, payload, finishSeen, copy, inserted, doomed>>

\* UPDATE streams SET last_hourly_average_id = NULL: takes the row locks, in
\* whatever order the scan meets the rows, passing over rows already deleted.
LockStreamRow(d, s) ==
  /\ pc[d] = "deleting"
  /\ s \in todo[d]
  /\ rowLock[s] = Nobody
  /\ rowLock' = IF s \in streams THEN [rowLock EXCEPT ![s] = d] ELSE rowLock
  /\ todo' = [todo EXCEPT ![d] = @ \ {s}]
  /\ UNCHANGED <<db, advisory, sessionLock, pc, answer, sends, payload, finishSeen,
                 copy, inserted, doomed>>

\* delete_stream_children and Stream.delete_all: only the rows committed by now.
DeleteChildren(d) ==
  /\ pc[d] = "deleting"
  /\ todo[d] = {}
  /\ doomed' = [doomed EXCEPT ![d] = rows]
  /\ GoTo(d, "destroying")
  /\ UNCHANGED <<db, locks, answer, sends, payload, finishSeen, todo, copy, inserted>>

ForgetDeletion(d) ==
  /\ todo' = [todo EXCEPT ![d] = {}]
  /\ doomed' = [doomed EXCEPT ![d] = NoRows]
  /\ UNCHANGED <<sends, payload, finishSeen, copy, inserted>>

\* session.destroy!, its after_destroy tombstone, and COMMIT.
DestroySession(d) ==
  /\ pc[d] = "destroying"
  /\ sessionLock = Nobody
  /\ session' = [session EXCEPT !.live = FALSE, !.from = Null, !.to = Null]
  /\ streams' = {}
  /\ stats' = NothingHeld
  /\ rows' = [f \in Stored |-> rows[f] - doomed[d][f]]
  /\ tombstone' = TRUE
  /\ ReleaseLocks(d)
  /\ Respond(d, "gone")
  /\ ForgetDeletion(d)

RollBackDeletion(d) ==
  /\ ReleaseLocks(d)
  /\ Respond(d, "internal_error")
  /\ ForgetDeletion(d)
  /\ UNCHANGED db

\* A delete has no lock_timeout, but PostgreSQL aborts a member of a set of
\* transactions that wait only for each other's rows.
BreakDeadlock(d) ==
  /\ \E S \in SUBSET Deletions :
       /\ d \in S
       /\ \A e \in S : /\ pc[e] = "deleting"
                       /\ todo[e] # {}
                       /\ \A s \in todo[e] : rowLock[s] \in S
  /\ RollBackDeletion(d)

\* Cancelled statement, lost connection.
FailDeletion(d) ==
  /\ pc[d] \in {"found", "deleting", "destroying"}
  /\ RollBackDeletion(d)

-----------------------------------------------------------------------------
(* Finish. *)

LoadForFinish(n) ==
  /\ pc[n] = "idle"
  /\ IF session.live
       THEN GoTo(n, "finishing") /\ UNCHANGED answer
       ELSE Respond(n, "not_found")
  /\ UNCHANGED <<db, locks, local>>

\* Mutant of Finish: without WHERE finished_at IS NULL.
FinishAgain(n, instant) ==
  /\ pc[n] = "finishing"
  /\ sessionLock = Nobody
  /\ session' = IF session.live
                  THEN [session EXCEPT !.finishedAt = instant, !.version = @ + 1]
                  ELSE session
  /\ Respond(n, IF session.live THEN "ok" ELSE "internal_error")
  /\ UNCHANGED <<streams, stats, rows, tombstone, locks, local>>

\* One UPDATE ... WHERE finished_at IS NULL, at the instant the phone declared
\* (or the server's own); a lookup after it finds no session if a delete won.
Finish(n, instant) ==
  /\ pc[n] = "finishing"
  /\ sessionLock = Nobody
  /\ session' = IF session.live /\ session.finishedAt = Null
                  THEN [session EXCEPT !.finishedAt = instant, !.version = @ + 1]
                  ELSE session
  /\ Respond(n, IF session.live THEN "ok" ELSE "internal_error")
  /\ UNCHANGED <<streams, stats, rows, tombstone, locks, local>>

-----------------------------------------------------------------------------
UploadStep(u) ==
  \/ ResolveStreams(u)
  \/ LockStream(u)
  \/ ImportRows(u)
  \/ UpdateStream(u)
  \/ LockSession(u)
  \/ Commit(u)
  \/ LockTimeout(u)

DeletionStep(d) ==
  \/ PluckStreams(d)
  \/ \E s \in Streams : LockStreamRow(d, s)
  \/ DeleteChildren(d)
  \/ DestroySession(d)
  \/ BreakDeadlock(d)

FinishStep(n) == \E instant \in Epochs : Finish(n, instant)

Next ==
  \/ \E u \in Uploads :
       \/ LoadSession(u)
       \/ UploadStep(u)
       \/ FailUpload(u)
       \/ Resend(u)
  \/ \E d \in Deletions :
       \/ LoadForDelete(d)
       \/ DeletionStep(d)
       \/ FailDeletion(d)
  \/ \E n \in Finishes :
       \/ LoadForFinish(n)
       \/ FinishStep(n)

Spec == Init /\ [][Next]_vars

\* A request the server has taken on keeps running; nothing makes a client send
\* one, and nothing makes a database error happen.
Fairness ==
  /\ \A u \in Uploads : WF_vars(UploadStep(u))
  /\ \A d \in Deletions : WF_vars(DeletionStep(d))
  /\ \A n \in Finishes : WF_vars(FinishStep(n))

FairSpec == Spec /\ Fairness
-----------------------------------------------------------------------------
(* Properties. *)

Stats == [count : Nat, mean : [Epochs -> Nat], low : Nat, high : Nat,
          start : Nat \cup {NoPoint}]

Answers == {"none", "ok", "gone", "not_found", "unsupported", "try_again_later",
            "internal_error"}

DatabaseTypeOK ==
  /\ session \in [live : BOOLEAN, finishedAt : Epochs \cup {Null}, version : Nat,
                  from : Nat, to : Nat]
  /\ streams \in SUBSET Streams
  /\ stats \in [Streams -> Stats]
  /\ rows \in [Stored -> Nat]
  /\ tombstone \in BOOLEAN

LockTypeOK ==
  /\ advisory \in [Streams -> Uploads \cup {Nobody}]
  /\ rowLock \in [Streams -> Uploads \cup Deletions \cup {Nobody}]
  /\ sessionLock \in Uploads \cup {Nobody}

UploadPhases == {"idle", "loaded", "locking", "reloaded", "imported", "bounding",
                 "committing", "answered"}
DeletionPhases == {"idle", "found", "deleting", "destroying", "answered"}
FinishPhases == {"idle", "finishing", "answered"}

PhaseTypeOK ==
  /\ pc \in [Requests -> UploadPhases \cup DeletionPhases \cup FinishPhases]
  /\ \A u \in Uploads : pc[u] \in UploadPhases
  /\ \A d \in Deletions : pc[d] \in DeletionPhases
  /\ \A n \in Finishes : pc[n] \in FinishPhases
  /\ answer \in [Requests -> Answers]

LocalTypeOK ==
  /\ sends \in [Uploads -> 0..MaxSends]
  /\ payload \in [Uploads -> Payloads]
  /\ finishSeen \in [Uploads -> Epochs \cup {Null}]
  /\ todo \in [Uploads \cup Deletions -> SUBSET Streams]
  /\ copy \in [Uploads -> [Streams -> Stats]]
  /\ inserted \in [Uploads -> SUBSET Stored]
  /\ doomed \in [Deletions -> [Stored -> Nat]]

\* Every variable has its type.
TypeOK == DatabaseTypeOK /\ LockTypeOK /\ PhaseTypeOK /\ LocalTypeOK

\* The streams go with their session (the destroyer's transaction).
StreamsGoWithSession == streams = IF session.live THEN Streams ELSE {}

\* The loop over streams has a current one, whose advisory lock it holds from
\* the reload on; rows were inserted into it before it is updated.
CurrentIsLocked(u) ==
  /\ pc[u] \in {"locking", "reloaded", "imported"} => todo[u] # {}
  /\ pc[u] \in {"reloaded", "imported"} => advisory[Current(u)] = u
  /\ pc[u] = "imported" => Batch(u, Current(u)) # {}

\* What an upload has inserted is not stored yet, and nobody else can store it.
InsertedIsAbsent(u) ==
  /\ ~ InTransaction(u) => inserted[u] = {}
  /\ \A f \in inserted[u] : advisory[f[1]] = u /\ rows[f] = 0

\* It has updated, hence locked, the stream of every frame it inserted that is
\* not the current one's, unless a delete took that stream away.
InsertedIsHeld(u) ==
  /\ \A f \in inserted[u] :
       f[1] \in streams /\ ~ (pc[u] = "imported" /\ f[1] = Current(u)) => rowLock[f[1]] = u
  /\ pc[u] = "committing" /\ inserted[u] # {} => sessionLock = u /\ session.live

\* A delete holds every stream it has passed, and from then on takes with it
\* exactly the rows there are.
DeletionHolds(d) ==
  /\ pc[d] = "deleting" => \A s \in streams \ todo[d] : rowLock[s] = d
  /\ pc[d] = "destroying" => doomed[d] = rows /\ \A s \in streams : rowLock[s] = d
  /\ pc[d] # "destroying" => doomed[d] = NoRows

\* The locks of the requests in flight cover what they are about to write: this
\* is the reason the locks are where they are, and why the rows come out right.
LockDiscipline ==
  /\ StreamsGoWithSession
  /\ \A u \in Uploads : CurrentIsLocked(u) /\ InsertedIsAbsent(u) /\ InsertedIsHeld(u)
  /\ \A d \in Deletions : DeletionHolds(d)

\* Ingest is idempotent (ingester.rb:6): however often and however
\* concurrently a frame is sent, measurements holds at most one row for it.
NoDuplicateRows == \A f \in Stored : rows[f] <= 1

\* Deleting a session leaves no measurements row behind, although measurements
\* has no foreign key onto streams and a delete takes no advisory lock: an upload
\* in flight either committed before the delete looked or is rolled back.
NoOrphanRows == \A f \in Stored : f[1] \notin streams => rows[f] = 0

\* The epochs stream s has rows for.
Recorded(s) == {e \in Epochs : rows[<<s, e>>] > 0}

\* The aggregates of a stream are those of the rows it has, in whatever order
\* and from however many uploads they came: the read-modify-write of
\* apply_stream_aggregates loses no batch, and the seeded point leaves the box.
AggregatesMatchRows ==
  \A s \in streams :
    IF Recorded(s) = {}
      THEN stats[s] = SeedStats
      ELSE /\ stats[s].count = Cardinality(Recorded(s))
           /\ stats[s].mean = [e \in Epochs |-> rows[<<s, e>>]]
           /\ stats[s].low = Min({Position[e] : e \in Recorded(s)})
           /\ stats[s].high = Max({Position[e] : e \in Recorded(s)})
           /\ stats[s].start \in {Position[e] : e \in Earliest(Recorded(s))}

\* The session's start and end are the first and last wall clock of its rows,
\* although uploads for different streams share no advisory lock.
BoundsMatchRows ==
  LET clocks == {Wall[f[2]] : f \in {g \in Stored : rows[g] > 0}}
  IN  session.live =>
        IF clocks = {} THEN session.from = Null /\ session.to = Null
                       ELSE session.from = Min(clocks) /\ session.to = Max(clocks)

\* What is stored beside the rows to spare reading them: the aggregates of each
\* stream and the bounds of the session are those of the rows.
SummariesMatchRows == AggregatesMatchRows /\ BoundsMatchRows

\* A 200 is the device's leave to trim its buffer: every frame of the payload
\* recorded up to the finish is then in the database while the session is.
AckedFramesAreStored ==
  \A u \in Uploads :
    pc[u] = "answered" /\ answer[u] = "ok" /\ session.live =>
      \A f \in payload[u] :
        session.finishedAt = Null \/ f[2] <= session.finishedAt =>
          f \in Stored /\ rows[f] > 0

\* Uploads do not deadlock among themselves: no set of them waits only for locks
\* held inside the set (ordered_by_stream_id, then the session row last).
UploadsNeverDeadlock ==
  ~ \E S \in SUBSET Uploads : S # {} /\ \A u \in S : Holder(u) \in S

\* The first finish is final: neither a repeated finish nor an upload that loaded
\* the session before it moves finished_at or version again.
FinishIsFinal ==
  [][session.finishedAt # Null =>
       /\ session'.finishedAt = session.finishedAt
       /\ session'.version = session.version]_vars

\* What MeasurementCutoff promises: once a session is finished, nothing recorded
\* after the finish is stored any more.
NothingAfterFinishIsStored ==
  [][\A f \in Stored :
       rows'[f] > rows[f] =>
         session.finishedAt = Null \/ f[2] <= session.finishedAt]_vars

\* No request waits for ever: every upload, delete and finish the server took on
\* is answered, although a delete locks rows in an order of its own.
EveryRequestAnswered ==
  \A r \in Requests : pc[r] # "idle" ~> pc[r] = "answered"

\* What all this implements: a session whose frames are stored, finished and
\* deleted in atomic steps.
Store == INSTANCE StoredSession WITH
  Frames <- Stored, Instants <- Epochs, NotFinished <- Null,
  live <- session.live,
  stored <- {f \in Stored : rows[f] > 0},
  finished <- session.finishedAt

\* Every step of the requests is one of those atomic steps or invisible.
ImplementsStoredSession == Store!Spec
=============================================================================
