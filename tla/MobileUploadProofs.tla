------------------------- MODULE MobileUploadProofs -------------------------
(***************************************************************************)
(* What is proved of MobileUpload for any number of uploads, deletes and   *)
(* finishes, any streams, any payloads and any time zone.                  *)
(***************************************************************************)
EXTENDS MobileUpload, Extrema

\* The inductive invariant.  NoDuplicateRows and NoOrphanRows are not inductive
\* without LockDiscipline, and TypeOK needs it too: that rows stay natural
\* numbers depends on deletes taking only what is there.
IInv == TypeOK /\ LockDiscipline /\ NoDuplicateRows /\ NoOrphanRows

-----------------------------------------------------------------------------
(* The operators of the model. *)

\* The current stream is one the upload still has to visit.
LEMMA CurrentInTodo ==
  ASSUME TypeOK, NEW u \in Uploads, todo[u] # {}
  PROVE  Current(u) \in todo[u] /\ Current(u) \in Streams
<1>1. todo[u] \in SUBSET Streams /\ todo[u] \in SUBSET Nat
  BY UploadAssumption DEF TypeOK, DatabaseTypeOK, LocalTypeOK
<1> QED
  BY <1>1, MinOfNaturals DEF Current

\* The frames an import adds are storable, and no row has them yet.
LEMMA AbsentType ==
  ASSUME TypeOK, NEW u \in Uploads, todo[u] # {}
  PROVE  /\ Absent(u) \subseteq Stored
         /\ \A f \in Absent(u) : f[1] = Current(u) /\ rows[f] = 0
<1>1. Current(u) \in Streams
  BY CurrentInTodo
<1>2. payload[u] \subseteq SensorTypes \X Epochs
  BY UploadAssumption DEF TypeOK, DatabaseTypeOK, LocalTypeOK
<1>3. ASSUME NEW f \in Absent(u)
      PROVE  f \in Stored /\ f[1] = Current(u) /\ rows[f] = 0
  <2>1. f \in SensorTypes \X Epochs /\ f[1] = Current(u)
    BY <1>2, <1>3 DEF Absent, Kept
  <2>2. f \in Stored
    BY <1>1, <2>1 DEF Stored
  <2>3. ~ (rows[f] > 0)
    BY <1>3, <2>2 DEF Absent
  <2>4. rows[f] \in Nat
    BY <2>2 DEF TypeOK, DatabaseTypeOK, LocalTypeOK
  <2> QED
    BY <2>1, <2>2, <2>3, <2>4
<1> QED
  BY <1>3

\* The columns apply_stream_aggregates writes have their types.
LEMMA AggregatedType ==
  ASSUME TypeOK, NEW u \in Uploads, NEW s \in Streams, Batch(u, s) # {},
         NEW first \in Epochs
  PROVE  Aggregated(u, s, first) \in Stats
<1> DEFINE batch == Batch(u, s)
           held == copy[u][s]
           places == {Position[e] : e \in batch}
<1>1. batch \in SUBSET Epochs /\ IsFiniteSet(batch)
  BY UploadAssumption, FS_Subset DEF Batch
<1>2. Cardinality(batch) \in Nat
  BY <1>1, FS_CardinalityType
<1>3. held \in Stats /\ stats[s] \in Stats
  BY DEF TypeOK, DatabaseTypeOK, LocalTypeOK
<1>4. Position \in [Epochs -> Nat]
  BY UploadAssumption
<1>5. places \in SUBSET Nat /\ places # {} /\ IsFiniteSet(places)
  BY <1>1, <1>4, FiniteImage
<1>6. places \cup {held.low} \in SUBSET Nat /\ places \cup {held.high} \in SUBSET Nat
      /\ IsFiniteSet(places \cup {held.high})
  <2>1. held.low \in Nat /\ held.high \in Nat
    BY <1>3 DEF Stats
  <2> HIDE DEF places, held
  <2> QED BY <1>5, <2>1, FS_AddElement
<1> HIDE DEF places, held, batch
<1>7. Min(places) \in Nat /\ Max(places) \in Nat
  BY <1>5, MinOfNaturals, MaxOfFinite
<1>8. Min(places \cup {held.low}) \in Nat
  <2>1. places \cup {held.low} # {}
    OBVIOUS
  <2> QED BY <1>6, <2>1, MinOfNaturals
<1>9. Max(places \cup {held.high}) \in Nat
  <2>1. places \cup {held.high} # {}
    OBVIOUS
  <2> QED BY <1>6, <2>1, MaxOfFinite
<1>10. stats[s].count + Cardinality(batch) \in Nat
  BY <1>2, <1>3 DEF Stats
<1>11. [e \in Epochs |-> (IF held.count > 0 THEN held.mean[e] ELSE 0)
                           + (IF e \in batch THEN 1 ELSE 0)] \in [Epochs -> Nat]
  BY <1>3 DEF Stats
<1> QED
  BY <1>4, <1>7, <1>8, <1>9, <1>10, <1>11 DEF Aggregated, Stats, places, held, batch

\* The bounds of the session stay instants.
LEMMA BoundType ==
  ASSUME TypeOK, NEW u \in Uploads, inserted[u] # {}
  PROVE  LET clocks == {Wall[f[2]] : f \in inserted[u]}
         IN  NewStart(clocks) \in Nat /\ NewEnd(clocks) \in Nat
<1> DEFINE instants == {f[2] : f \in inserted[u]}
           clocks == {Wall[f[2]] : f \in inserted[u]}
<1>1. instants \in SUBSET Epochs
  BY DEF TypeOK, DatabaseTypeOK, LocalTypeOK, Stored
<1>2. IsFiniteSet(instants)
  BY <1>1, UploadAssumption, FS_Subset
<1>3. Wall \in [Epochs -> Nat]
  BY UploadAssumption
<1>4. clocks = {Wall[e] : e \in instants}
  OBVIOUS
<1>5. clocks \in SUBSET Nat /\ clocks # {} /\ IsFiniteSet(clocks)
  <2>1. clocks \in SUBSET Nat /\ clocks # {}
    BY <1>1, <1>3
  <2>2. IsFiniteSet({Wall[e] : e \in instants})
    <3> HIDE DEF instants
    <3> QED BY <1>1, <1>2, <1>3, FiniteImage
  <2> QED BY <2>1, <2>2, <1>4
<1>6. session.from \in Nat /\ session.to \in Nat
  BY DEF TypeOK, DatabaseTypeOK, LocalTypeOK
<1> HIDE DEF clocks
<1>7. /\ clocks \cup {session.from} \in SUBSET Nat
      /\ clocks \cup {session.from} # {}
      /\ clocks \cup {session.to} \in SUBSET Nat
      /\ clocks \cup {session.to} # {}
      /\ IsFiniteSet(clocks \cup {session.to})
  BY <1>5, <1>6, FS_AddElement
<1>8. Min(clocks) \in Nat /\ Max(clocks) \in Nat
  BY <1>5, MinOfNaturals, MaxOfFinite
<1>9. Min(clocks \cup {session.from}) \in Nat
  BY <1>7, MinOfNaturals
<1>10. Max(clocks \cup {session.to}) \in Nat
  BY <1>7, MaxOfFinite
<1>11. NewStart(clocks) \in Nat /\ NewEnd(clocks) \in Nat
  BY <1>8, <1>9, <1>10 DEF NewStart, NewEnd
<1> QED
  BY <1>11 DEF clocks

-----------------------------------------------------------------------------
(* A request that does not move is disturbed by nothing the others do. *)

Undisturbed(v) ==
  /\ pc'[v] = pc[v] /\ todo'[v] = todo[v] /\ inserted'[v] = inserted[v]
  /\ \A s \in Streams : advisory[s] = v => advisory'[s] = v
  /\ \A s \in Streams : rowLock[s] = v => rowLock'[s] = v
  /\ sessionLock = v /\ session.live => sessionLock' = v /\ session'.live
  /\ streams' \subseteq streams
  /\ \A f \in inserted[v] : rows'[f] = 0

UndisturbedDelete(d) ==
  /\ pc'[d] = pc[d] /\ todo'[d] = todo[d] /\ doomed'[d] = doomed[d]
  /\ \A s \in Streams : rowLock[s] = d => rowLock'[s] = d
  /\ streams' \subseteq streams
  /\ pc[d] = "destroying" => rows' = rows

UploadDiscipline(v) == CurrentIsLocked(v) /\ InsertedIsAbsent(v) /\ InsertedIsHeld(v)

\* The lock discipline of an upload survives the steps of the others.
LEMMA UploadKeeps ==
  ASSUME TypeOK, NEW v \in Uploads, UploadDiscipline(v), Undisturbed(v)
  PROVE  UploadDiscipline(v)'
<1>1. todo[v] # {} => Current(v) \in Streams
  BY CurrentInTodo
<1>2. \A f \in inserted[v] : f[1] \in Streams
  BY DEF TypeOK, LocalTypeOK, Stored
<1>3. CurrentIsLocked(v)'
  BY <1>1 DEF UploadDiscipline, Undisturbed, CurrentIsLocked, Current, Batch
<1>4. InsertedIsAbsent(v)'
  BY <1>2 DEF UploadDiscipline, Undisturbed, InsertedIsAbsent, InTransaction
<1>5. InsertedIsHeld(v)'
  BY <1>2 DEF UploadDiscipline, Undisturbed, InsertedIsHeld, Current
<1> QED
  BY <1>3, <1>4, <1>5 DEF UploadDiscipline

\* So does that of a delete.
LEMMA DeletionKeeps ==
  ASSUME TypeOK, NEW d \in Deletions, DeletionHolds(d), UndisturbedDelete(d)
  PROVE  DeletionHolds(d)'
BY DEF TypeOK, DatabaseTypeOK, DeletionHolds, UndisturbedDelete

\* Moving one upload on disturbs the phase of no other request.
LEMMA PhaseOfUpload ==
  ASSUME PhaseTypeOK, NEW u \in Uploads, NEW p \in UploadPhases, NEW a \in Answers,
         GoTo(u, p), answer' = answer \/ answer' = [answer EXCEPT ![u] = a]
  PROVE  /\ PhaseTypeOK'
         /\ pc'[u] = p
         /\ \A r \in Requests \ {u} : pc'[r] = pc[r]
<1>1. u \in Requests /\ u \notin Deletions /\ u \notin Finishes
  BY UploadAssumption DEF Requests
<1>2. pc'[u] = p /\ \A r \in Requests \ {u} : pc'[r] = pc[r]
  BY <1>1 DEF PhaseTypeOK, GoTo
<1>3. pc' \in [Requests -> UploadPhases \cup DeletionPhases \cup FinishPhases]
  BY <1>1 DEF PhaseTypeOK, GoTo
<1>4. answer' \in [Requests -> Answers]
  BY <1>1 DEF PhaseTypeOK
<1> QED
  BY <1>1, <1>2, <1>3, <1>4 DEF PhaseTypeOK, Requests

\* An upload outside its transaction owes nothing.
LEMMA OutsideTransaction ==
  ASSUME NEW u \in Uploads, pc'[u] \in {"idle", "loaded", "answered"}, inserted'[u] = {}
  PROVE  UploadDiscipline(u)'
BY DEF UploadDiscipline, CurrentIsLocked, InsertedIsAbsent, InsertedIsHeld, InTransaction

\* The rows an upload inserted stay absent as long as no row is added.
LEMMA StillAbsent ==
  ASSUME IInv, NEW v \in Uploads, rows' = rows
  PROVE  \A f \in inserted[v] : rows'[f] = 0
BY DEF IInv, LockDiscipline, InsertedIsAbsent

-----------------------------------------------------------------------------
(* The steps of an upload. *)

\* Rolling an upload back leaves the database alone and takes only its own locks.
LEMMA RollBackUploadStep ==
  ASSUME IInv, NEW u \in Uploads, NEW what \in Answers, RollBackUpload(u, what)
  PROVE  IInv'
<1> USE UploadAssumption DEF IInv, RollBackUpload, ReleaseLocks, Respond, ForgetUpload,
        GoTo, db
<1>1. DatabaseTypeOK'
  BY DEF TypeOK, DatabaseTypeOK
<1>2. LockTypeOK'
  BY DEF TypeOK, LockTypeOK
<1>3. PhaseTypeOK'
  BY DEF TypeOK, PhaseTypeOK, Requests, UploadPhases, DeletionPhases, FinishPhases
<1>4. LocalTypeOK'
  <2>1. NothingHeld \in [Streams -> Stats]
    BY DEF NothingHeld, SeedStats, NoneAveraged, Stats, NoPoint
  <2> QED BY <2>1 DEF TypeOK, LocalTypeOK
<1>5. StreamsGoWithSession'
  BY DEF LockDiscipline, StreamsGoWithSession
<1>6. ASSUME NEW v \in Uploads PROVE UploadDiscipline(v)'
  <2>1. CASE v = u
    BY <2>1 DEF TypeOK, PhaseTypeOK, LocalTypeOK, Requests, UploadDiscipline,
                CurrentIsLocked, InsertedIsAbsent, InsertedIsHeld, InTransaction
  <2>2. CASE v # u
    <3>1. Undisturbed(v)
      BY <2>2, StillAbsent
      DEF TypeOK, PhaseTypeOK, LocalTypeOK, LockTypeOK, Requests, Undisturbed
    <3> QED
      BY <3>1, UploadKeeps DEF LockDiscipline, UploadDiscipline
  <2> QED BY <2>1, <2>2
<1>7. ASSUME NEW d \in Deletions PROVE DeletionHolds(d)'
  <2>1. UndisturbedDelete(d)
    BY DEF TypeOK, PhaseTypeOK, LocalTypeOK, LockTypeOK, Requests, UndisturbedDelete
  <2> QED
    BY <2>1, DeletionKeeps DEF LockDiscipline
<1>8. NoDuplicateRows' /\ NoOrphanRows'
  BY DEF NoDuplicateRows, NoOrphanRows
<1> QED
  BY <1>1, <1>2, <1>3, <1>4, <1>5, <1>6, <1>7, <1>8
  DEF TypeOK, LockDiscipline, UploadDiscipline

\* Loading a session, or not finding one.
LEMMA LoadSessionStep ==
  ASSUME IInv, NEW u \in Uploads, LoadSession(u)
  PROVE  IInv'
<1> USE UploadAssumption DEF IInv, LoadSession, db, locks
<1>1. DatabaseTypeOK'
  BY DEF TypeOK, DatabaseTypeOK
<1>2. LockTypeOK'
  BY DEF TypeOK, LockTypeOK
<1>3. PhaseTypeOK' /\ \A r \in Requests \ {u} : pc'[r] = pc[r]
  <2>1. CASE session.live
    BY <2>1, PhaseOfUpload DEF UploadPhases, Answers, Respond, TypeOK
  <2>2. CASE ~ session.live
    BY <2>2, PhaseOfUpload DEF UploadPhases, Answers, Respond, TypeOK
  <2> QED BY <2>1, <2>2
<1>4. LocalTypeOK'
  <2>1. sends[u] + 1 \in 0..MaxSends /\ session.finishedAt \in Epochs \cup {Null}
    BY DEF TypeOK, DatabaseTypeOK, LocalTypeOK
  <2>2. sends' \in [Uploads -> 0..MaxSends]
    BY <2>1 DEF TypeOK, LocalTypeOK
  <2>3. finishSeen' \in [Uploads -> Epochs \cup {Null}]
    BY <2>1 DEF TypeOK, LocalTypeOK
  <2> QED BY <2>2, <2>3 DEF TypeOK, LocalTypeOK
<1>5. StreamsGoWithSession'
  BY DEF LockDiscipline, StreamsGoWithSession
<1>6. ASSUME NEW v \in Uploads PROVE UploadDiscipline(v)'
  <2>1. CASE v = u
    <3>1. pc'[u] \in {"loaded", "answered"}
      BY DEF TypeOK, PhaseTypeOK, Requests, GoTo, Respond
    <3>2. inserted'[u] = {}
      BY DEF LockDiscipline, InsertedIsAbsent, InTransaction
    <3> QED BY <2>1, <3>1, <3>2, OutsideTransaction
  <2>2. CASE v # u
    <3>1. Undisturbed(v)
      BY <2>2, <1>3, StillAbsent DEF TypeOK, LocalTypeOK, LockTypeOK, Requests, Undisturbed
    <3> QED
      BY <3>1, UploadKeeps DEF LockDiscipline, UploadDiscipline
  <2> QED BY <2>1, <2>2
<1>7. ASSUME NEW d \in Deletions PROVE DeletionHolds(d)'
  <2>1. UndisturbedDelete(d)
    BY <1>3 DEF TypeOK, LocalTypeOK, LockTypeOK, Requests, UndisturbedDelete
  <2> QED
    BY <2>1, DeletionKeeps DEF LockDiscipline
<1>8. NoDuplicateRows' /\ NoOrphanRows'
  BY DEF NoDuplicateRows, NoOrphanRows
<1> QED
  BY <1>1, <1>2, <1>3, <1>4, <1>5, <1>6, <1>7, <1>8
  DEF TypeOK, LockDiscipline, UploadDiscipline

\* Resolving the streams of a payload: the transaction starts with work to do.
LEMMA ResolveStreamsStep ==
  ASSUME IInv, NEW u \in Uploads, ResolveStreams(u)
  PROVE  IInv'
<1> USE UploadAssumption DEF IInv, ResolveStreams, db, locks
<1>1. DatabaseTypeOK'
  BY DEF TypeOK, DatabaseTypeOK
<1>2. LockTypeOK'
  BY DEF TypeOK, LockTypeOK
<1>3. PhaseTypeOK' /\ \A r \in Requests \ {u} : pc'[r] = pc[r]
  <2>1. CASE Respond(u, "ok")
    BY <2>1, PhaseOfUpload DEF UploadPhases, Answers, Respond, TypeOK
  <2>2. CASE Respond(u, "unsupported")
    BY <2>2, PhaseOfUpload DEF UploadPhases, Answers, Respond, TypeOK
  <2>3. CASE GoTo(u, "locking") /\ answer' = answer
    BY <2>3, PhaseOfUpload DEF UploadPhases, Answers, Respond, TypeOK
  <2> QED BY <2>1, <2>2, <2>3
<1>4. LocalTypeOK'
  <2> DEFINE types == {f[1] : f \in Kept(u)}
  <2>1. todo' = todo \/ (types \subseteq streams /\ todo' = [todo EXCEPT ![u] = types])
    OBVIOUS
  <2> HIDE DEF types
  <2> QED BY <2>1 DEF TypeOK, DatabaseTypeOK, LocalTypeOK
<1>5. StreamsGoWithSession'
  BY DEF LockDiscipline, StreamsGoWithSession
<1>6. ASSUME NEW v \in Uploads PROVE UploadDiscipline(v)'
  <2>1. CASE v = u
    <3>1. inserted'[u] = {}
      BY DEF LockDiscipline, InsertedIsAbsent, InTransaction
    <3>2. CASE pc'[u] = "answered"
      BY <2>1, <3>1, <3>2, OutsideTransaction
    <3>3. CASE pc'[u] = "locking" /\ todo'[u] # {}
      BY <2>1, <3>1, <3>3
      DEF UploadDiscipline, CurrentIsLocked, InsertedIsAbsent, InsertedIsHeld, InTransaction
    <3>4. pc'[u] = "answered" \/ (pc'[u] = "locking" /\ todo'[u] # {})
      <4>1. u \in Requests /\ u \in Uploads \cup Deletions
        BY DEF Requests
      <4> QED BY <4>1 DEF TypeOK, PhaseTypeOK, LocalTypeOK, GoTo, Respond
    <3> QED BY <3>2, <3>3, <3>4
  <2>2. CASE v # u
    <3>1. Undisturbed(v)
      BY <2>2, <1>3, StillAbsent DEF TypeOK, LocalTypeOK, LockTypeOK, Requests, Undisturbed
    <3> QED
      BY <3>1, UploadKeeps DEF LockDiscipline, UploadDiscipline
  <2> QED BY <2>1, <2>2
<1>7. ASSUME NEW d \in Deletions PROVE DeletionHolds(d)'
  <2>1. UndisturbedDelete(d)
    BY <1>3 DEF TypeOK, LocalTypeOK, LockTypeOK, Requests, UndisturbedDelete
  <2> QED
    BY <2>1, DeletionKeeps DEF LockDiscipline
<1>8. NoDuplicateRows' /\ NoOrphanRows'
  BY DEF NoDuplicateRows, NoOrphanRows
<1> QED
  BY <1>1, <1>2, <1>3, <1>4, <1>5, <1>6, <1>7, <1>8
  DEF TypeOK, LockDiscipline, UploadDiscipline

\* Sending the same payload again.
LEMMA ResendStep ==
  ASSUME IInv, NEW u \in Uploads, Resend(u)
  PROVE  IInv'
<1> USE UploadAssumption DEF IInv, Resend, db, locks, local
<1>1. DatabaseTypeOK'
  BY DEF TypeOK, DatabaseTypeOK
<1>2. LockTypeOK'
  BY DEF TypeOK, LockTypeOK
<1>3. PhaseTypeOK' /\ \A r \in Requests \ {u} : pc'[r] = pc[r]
  BY PhaseOfUpload DEF UploadPhases, Answers, Respond, TypeOK
<1>4. LocalTypeOK'
  BY DEF TypeOK, LocalTypeOK
<1>5. StreamsGoWithSession'
  BY DEF LockDiscipline, StreamsGoWithSession
<1>6. ASSUME NEW v \in Uploads PROVE UploadDiscipline(v)'
  <2>1. CASE v = u
    <3>1. inserted'[u] = {}
      BY DEF LockDiscipline, InsertedIsAbsent, InTransaction
    <3>2. pc'[u] = "idle"
      BY DEF TypeOK, PhaseTypeOK, Requests, GoTo
    <3> QED BY <2>1, <3>1, <3>2, OutsideTransaction
  <2>2. CASE v # u
    <3>1. Undisturbed(v)
      BY <2>2, <1>3, StillAbsent DEF TypeOK, LocalTypeOK, LockTypeOK, Requests, Undisturbed
    <3> QED
      BY <3>1, UploadKeeps DEF LockDiscipline, UploadDiscipline
  <2> QED BY <2>1, <2>2
<1>7. ASSUME NEW d \in Deletions PROVE DeletionHolds(d)'
  <2>1. UndisturbedDelete(d)
    BY <1>3 DEF TypeOK, LocalTypeOK, LockTypeOK, Requests, UndisturbedDelete
  <2> QED
    BY <2>1, DeletionKeeps DEF LockDiscipline
<1>8. NoDuplicateRows' /\ NoOrphanRows'
  BY DEF NoDuplicateRows, NoOrphanRows
<1> QED
  BY <1>1, <1>2, <1>3, <1>4, <1>5, <1>6, <1>7, <1>8
  DEF TypeOK, LockDiscipline, UploadDiscipline

\* Locking and reloading the current stream.
LEMMA LockStreamStep ==
  ASSUME IInv, NEW u \in Uploads, LockStream(u), Current(u) \in streams
  PROVE  IInv'
<1> USE UploadAssumption DEF IInv, LockStream, db
<1>0. todo[u] # {} /\ Current(u) \in todo[u] /\ Current(u) \in Streams
  BY CurrentInTodo DEF LockDiscipline, CurrentIsLocked
<1>1. DatabaseTypeOK'
  BY DEF TypeOK, DatabaseTypeOK
<1>2. LockTypeOK'
  BY <1>0 DEF TypeOK, LockTypeOK
<1>3. PhaseTypeOK' /\ \A r \in Requests \ {u} : pc'[r] = pc[r]
  <2>1. GoTo(u, "reloaded") /\ answer' = answer
    OBVIOUS
  <2> QED BY <2>1, PhaseOfUpload DEF UploadPhases, Answers, TypeOK
<1>4. LocalTypeOK'
  <2>1. copy' = [copy EXCEPT ![u][Current(u)] = stats[Current(u)]]
        /\ stats[Current(u)] \in Stats
    BY <1>0 DEF TypeOK, DatabaseTypeOK
  <2>2. copy' \in [Uploads -> [Streams -> Stats]]
    BY <1>0, <2>1 DEF TypeOK, LocalTypeOK
  <2> QED BY <2>2 DEF TypeOK, LocalTypeOK
<1>5. StreamsGoWithSession'
  BY DEF LockDiscipline, StreamsGoWithSession
<1>6. ASSUME NEW v \in Uploads PROVE UploadDiscipline(v)'
  <2>1. CASE v = u
    <3>1. pc'[u] = "reloaded" /\ advisory'[Current(u)] = u
      BY <1>0 DEF TypeOK, PhaseTypeOK, LockTypeOK, Requests, GoTo
    <3>2. \A f \in inserted[u] : f[1] \in Streams /\ advisory'[f[1]] = u
      BY <1>0 DEF TypeOK, LocalTypeOK, LockTypeOK, Stored, LockDiscipline, InsertedIsAbsent
    <3> QED
      BY <2>1, <3>1, <3>2
      DEF UploadDiscipline, LockDiscipline, CurrentIsLocked, InsertedIsAbsent, InsertedIsHeld,
          InTransaction, Current, Batch
  <2>2. CASE v # u
    <3>1. \A s \in Streams : advisory[s] = v => advisory'[s] = v
      BY <1>0, <2>2 DEF TypeOK, LockTypeOK, Requests
    <3>2. Undisturbed(v)
      BY <2>2, <3>1, <1>3, StillAbsent DEF TypeOK, LocalTypeOK, Requests, Undisturbed
    <3> QED
      BY <3>2, UploadKeeps DEF LockDiscipline, UploadDiscipline
  <2> QED BY <2>1, <2>2
<1>7. ASSUME NEW d \in Deletions PROVE DeletionHolds(d)'
  <2>1. UndisturbedDelete(d)
    BY <1>3 DEF TypeOK, LocalTypeOK, LockTypeOK, Requests, UndisturbedDelete
  <2> QED
    BY <2>1, DeletionKeeps DEF LockDiscipline
<1>8. NoDuplicateRows' /\ NoOrphanRows'
  BY DEF NoDuplicateRows, NoOrphanRows
<1> QED
  BY <1>1, <1>2, <1>3, <1>4, <1>5, <1>6, <1>7, <1>8
  DEF TypeOK, LockDiscipline, UploadDiscipline

\* Importing the frames no row has yet: they are the current stream's.
LEMMA ImportRowsStep ==
  ASSUME IInv, NEW u \in Uploads, ImportRows(u)
  PROVE  IInv'
<1> USE UploadAssumption DEF IInv, ImportRows, db, locks
<1>0. todo[u] # {} /\ Current(u) \in todo[u] /\ Current(u) \in Streams
  BY CurrentInTodo DEF LockDiscipline, CurrentIsLocked
<1>9. Absent(u) \subseteq Stored /\ \A f \in Absent(u) : f[1] = Current(u) /\ rows[f] = 0
  BY <1>0, AbsentType
<1>1. DatabaseTypeOK'
  BY DEF TypeOK, DatabaseTypeOK
<1>2. LockTypeOK'
  BY DEF TypeOK, LockTypeOK
<1>3. PhaseTypeOK' /\ \A r \in Requests \ {u} : pc'[r] = pc[r]
  <2>1. CASE Absent(u) = {}
    BY <2>1, PhaseOfUpload DEF AfterStream, UploadPhases, Answers, Respond, TypeOK
  <2>2. CASE Absent(u) # {}
    BY <2>2, PhaseOfUpload DEF UploadPhases, Answers, Respond, TypeOK
  <2> QED BY <2>1, <2>2
<1>4. LocalTypeOK'
  <2>1. inserted' \in [Uploads -> SUBSET Stored]
    BY <1>9 DEF TypeOK, LocalTypeOK
  <2>2. todo' \in [Uploads \cup Deletions -> SUBSET Streams]
    BY DEF TypeOK, LocalTypeOK, AfterStream
  <2> QED BY <2>1, <2>2 DEF TypeOK, LocalTypeOK
<1>5. StreamsGoWithSession'
  BY DEF LockDiscipline, StreamsGoWithSession
<1>6. ASSUME NEW v \in Uploads PROVE UploadDiscipline(v)'
  <2>1. CASE v = u
    <3>1. u \in Requests /\ u \in Uploads \cup Deletions
      BY DEF Requests
    <3>2. inserted'[u] = inserted[u] \cup Absent(u)
      BY DEF TypeOK, LocalTypeOK
    <3>3. /\ \A f \in inserted'[u] : advisory'[f[1]] = u /\ rows'[f] = 0
          /\ \A f \in inserted[u] : f[1] \in streams => rowLock[f[1]] = u
      BY <1>9, <3>2
      DEF LockDiscipline, CurrentIsLocked, InsertedIsAbsent, InsertedIsHeld
    <3>4. CASE Absent(u) = {}
      <4>1. \/ pc'[u] = "locking" /\ todo'[u] # {}
            \/ pc'[u] = "bounding"
        BY <1>0, <3>1, <3>4 DEF TypeOK, PhaseTypeOK, LocalTypeOK, AfterStream, GoTo
      <4> QED
        BY <2>1, <3>2, <3>3, <3>4, <4>1
        DEF UploadDiscipline, CurrentIsLocked, InsertedIsAbsent, InsertedIsHeld, InTransaction
    <3>5. CASE Absent(u) # {}
      <4>1. pc'[u] = "imported" /\ todo'[u] = todo[u]
        BY <3>1, <3>5 DEF TypeOK, PhaseTypeOK, GoTo
      <4>2. Current(u)' = Current(u)
        BY <4>1 DEF Current
      <4>3. PICK f \in Absent(u) : TRUE
        BY <3>5
      <4>4. f = <<Current(u), f[2]>> /\ f[2] \in Epochs
        BY <1>9 DEF Stored
      <4>5. Batch(u, Current(u))' # {}
        BY <3>2, <4>2, <4>4 DEF Batch
      <4>6. CurrentIsLocked(u)'
        BY <1>0, <4>1, <4>2, <4>5 DEF LockDiscipline, CurrentIsLocked
      <4>7. InsertedIsAbsent(u)' /\ InsertedIsHeld(u)'
        BY <1>9, <3>2, <3>3, <4>1, <4>2 DEF InsertedIsAbsent, InsertedIsHeld, InTransaction
      <4> QED BY <2>1, <4>6, <4>7 DEF UploadDiscipline
    <3> QED BY <3>4, <3>5
  <2>2. CASE v # u
    <3>1. todo'[v] = todo[v] /\ inserted'[v] = inserted[v]
      BY <2>2 DEF TypeOK, LocalTypeOK, AfterStream
    <3>2. Undisturbed(v)
      BY <2>2, <3>1, <1>3, StillAbsent DEF Requests, Undisturbed
    <3> QED
      BY <3>2, UploadKeeps DEF LockDiscipline, UploadDiscipline
  <2> QED BY <2>1, <2>2
<1>7. ASSUME NEW d \in Deletions PROVE DeletionHolds(d)'
  <2>1. todo'[d] = todo[d]
    BY DEF TypeOK, LocalTypeOK, AfterStream
  <2>2. UndisturbedDelete(d)
    BY <1>3, <2>1 DEF Requests, UndisturbedDelete
  <2> QED
    BY <2>2, DeletionKeeps DEF LockDiscipline
<1>8. NoDuplicateRows' /\ NoOrphanRows'
  BY DEF NoDuplicateRows, NoOrphanRows
<1> QED
  BY <1>1, <1>2, <1>3, <1>4, <1>5, <1>6, <1>7, <1>8
  DEF TypeOK, LockDiscipline, UploadDiscipline

\* Updating the current stream's row, or finding it deleted.
LEMMA UpdateStreamStep ==
  ASSUME IInv, NEW u \in Uploads, UpdateStream(u)
  PROVE  IInv'
<1> USE UploadAssumption DEF IInv, UpdateStream, db
<1>0. todo[u] # {} /\ Current(u) \in todo[u] /\ Current(u) \in Streams
  BY CurrentInTodo DEF LockDiscipline, CurrentIsLocked
<1>9. u \in Requests /\ u \in Uploads \cup Deletions /\ u \notin Deletions
  BY DEF Requests
<1>10. pc'[u] = (IF todo[u] # {Current(u)} THEN "locking" ELSE "bounding")
       /\ todo'[u] = todo[u] \ {Current(u)}
  BY <1>9 DEF TypeOK, PhaseTypeOK, LocalTypeOK, AfterStream, GoTo
<1>11. /\ \A s \in Streams : rowLock[s] # Nobody => rowLock'[s] = rowLock[s]
       /\ Current(u) \in streams => rowLock'[Current(u)] = u
  BY <1>0 DEF TypeOK, LockTypeOK
<1>1. DatabaseTypeOK'
  BY DEF TypeOK, DatabaseTypeOK
<1>2. LockTypeOK'
  BY <1>0 DEF TypeOK, LockTypeOK
<1>3. PhaseTypeOK' /\ \A r \in Requests \ {u} : pc'[r] = pc[r]
  BY PhaseOfUpload DEF AfterStream, UploadPhases, Answers, Respond, TypeOK
<1>4. LocalTypeOK'
  <2>1. copy' \in [Uploads -> [Streams -> Stats]]
    <3>1. CASE Current(u) \in streams
      <4>1. PICK first \in Earliest(Visible(u, Current(u))) :
              copy' = [copy EXCEPT ![u][Current(u)] = Aggregated(u, Current(u), first)]
        BY <3>1
      <4>2. first \in Epochs
        BY DEF Earliest, Visible, Batch
      <4>3. Aggregated(u, Current(u), first) \in Stats
        BY <1>0, <4>2, AggregatedType DEF LockDiscipline, CurrentIsLocked
      <4> QED BY <1>0, <4>1, <4>3 DEF TypeOK, LocalTypeOK
    <3>2. CASE Current(u) \notin streams
      BY <3>2 DEF TypeOK, LocalTypeOK
    <3> QED BY <3>1, <3>2
  <2>2. todo' \in [Uploads \cup Deletions -> SUBSET Streams]
    BY DEF TypeOK, LocalTypeOK, AfterStream
  <2> QED BY <2>1, <2>2 DEF TypeOK, LocalTypeOK
<1>5. StreamsGoWithSession'
  BY DEF LockDiscipline, StreamsGoWithSession
<1>6. ASSUME NEW v \in Uploads PROVE UploadDiscipline(v)'
  <2>1. CASE v = u
    <3>1. \A f \in inserted[u] : f[1] \in Streams /\ advisory[f[1]] = u /\ rows[f] = 0
      BY DEF TypeOK, LocalTypeOK, Stored, LockDiscipline, InsertedIsAbsent
    <3>2. \A f \in inserted[u] : f[1] \in streams => rowLock'[f[1]] = u
      BY <1>9, <1>11, <3>1 DEF LockDiscipline, InsertedIsHeld, Requests
    <3>3. CurrentIsLocked(u)'
      BY <1>0, <1>10 DEF CurrentIsLocked
    <3>4. InsertedIsAbsent(u)' /\ InsertedIsHeld(u)'
      BY <1>10, <3>1, <3>2 DEF InsertedIsAbsent, InsertedIsHeld, InTransaction
    <3> QED BY <2>1, <3>3, <3>4 DEF UploadDiscipline
  <2>2. CASE v # u
    <3>1. todo'[v] = todo[v]
      BY <2>2 DEF TypeOK, LocalTypeOK, AfterStream
    <3>2. Undisturbed(v)
      BY <2>2, <3>1, <1>3, <1>11, StillAbsent DEF Requests, Undisturbed
    <3> QED
      BY <3>2, UploadKeeps DEF LockDiscipline, UploadDiscipline
  <2> QED BY <2>1, <2>2
<1>7. ASSUME NEW d \in Deletions PROVE DeletionHolds(d)'
  <2>1. todo'[d] = todo[d]
    BY DEF TypeOK, LocalTypeOK, AfterStream
  <2>2. UndisturbedDelete(d)
    BY <1>3, <1>9, <1>11, <2>1 DEF Requests, UndisturbedDelete
  <2> QED
    BY <2>2, DeletionKeeps DEF LockDiscipline
<1>8. NoDuplicateRows' /\ NoOrphanRows'
  BY DEF NoDuplicateRows, NoOrphanRows
<1> QED
  BY <1>1, <1>2, <1>3, <1>4, <1>5, <1>6, <1>7, <1>8
  DEF TypeOK, LockDiscipline, UploadDiscipline

\* Locking the session: everything inserted is then held.
LEMMA LockSessionStep ==
  ASSUME IInv, NEW u \in Uploads, LockSession(u), inserted[u] = {} \/ session.live
  PROVE  IInv'
<1> USE UploadAssumption DEF IInv, LockSession, db, locks, local
<1>1. DatabaseTypeOK'
  BY DEF TypeOK, DatabaseTypeOK
<1>2. LockTypeOK'
  BY DEF TypeOK, LockTypeOK
<1>3. PhaseTypeOK' /\ \A r \in Requests \ {u} : pc'[r] = pc[r]
  <2>1. GoTo(u, "committing") /\ answer' = answer
    OBVIOUS
  <2> QED BY <2>1, PhaseOfUpload DEF UploadPhases, Answers, TypeOK
<1>4. LocalTypeOK'
  BY DEF TypeOK, LocalTypeOK
<1>5. StreamsGoWithSession'
  BY DEF LockDiscipline, StreamsGoWithSession
<1>6. ASSUME NEW v \in Uploads PROVE UploadDiscipline(v)'
  <2>1. CASE v = u
    <3>1. pc'[u] = "committing"
      BY DEF TypeOK, PhaseTypeOK, Requests, GoTo
    <3>2. CurrentIsLocked(u)'
      BY <3>1 DEF CurrentIsLocked
    <3>3. InsertedIsAbsent(u)'
      BY <3>1 DEF LockDiscipline, InsertedIsAbsent, InTransaction
    <3>4. InsertedIsHeld(u)'
      BY <3>1 DEF LockDiscipline, InsertedIsHeld
    <3> QED BY <2>1, <3>2, <3>3, <3>4 DEF UploadDiscipline
  <2>2. CASE v # u
    <3>1. Undisturbed(v)
      BY <2>2, <1>3, StillAbsent DEF TypeOK, LocalTypeOK, LockTypeOK, Requests, Undisturbed
    <3> QED
      BY <3>1, UploadKeeps DEF LockDiscipline, UploadDiscipline
  <2> QED BY <2>1, <2>2
<1>7. ASSUME NEW d \in Deletions PROVE DeletionHolds(d)'
  <2>1. UndisturbedDelete(d)
    BY <1>3 DEF TypeOK, LocalTypeOK, LockTypeOK, Requests, UndisturbedDelete
  <2> QED
    BY <2>1, DeletionKeeps DEF LockDiscipline
<1>8. NoDuplicateRows' /\ NoOrphanRows'
  BY DEF NoDuplicateRows, NoOrphanRows
<1> QED
  BY <1>1, <1>2, <1>3, <1>4, <1>5, <1>6, <1>7, <1>8
  DEF TypeOK, LockDiscipline, UploadDiscipline

\* The commit: what it adds is absent, on streams it holds, of a session that is live.
LEMMA CommitStep ==
  ASSUME IInv, NEW u \in Uploads, Commit(u)
  PROVE  IInv'
<1> USE UploadAssumption DEF IInv, Commit, ReleaseLocks, Respond, ForgetUpload
<1>9. \A f \in inserted[u] : /\ f \in Stored /\ rows[f] = 0 /\ f[1] \in streams
                             /\ advisory[f[1]] = u /\ rowLock[f[1]] = u
                             /\ sessionLock = u /\ session.live
  BY DEF TypeOK, LocalTypeOK, Stored, LockDiscipline, InsertedIsAbsent, InsertedIsHeld,
         StreamsGoWithSession
<1>10. \A f \in Stored : rows'[f] = IF f \in inserted[u] THEN 1 ELSE rows[f]
  BY <1>9 DEF TypeOK, DatabaseTypeOK
<1>11. session'.live = session.live
  BY DEF TypeOK, DatabaseTypeOK
<1>1. DatabaseTypeOK'
  <2>1. rows' \in [Stored -> Nat]
    BY DEF TypeOK, DatabaseTypeOK
  <2>2. stats' \in [Streams -> Stats]
    BY DEF TypeOK, DatabaseTypeOK, LocalTypeOK
  <2>3. session' \in [live : BOOLEAN, finishedAt : Epochs \cup {Null}, version : Nat,
                      from : Nat, to : Nat]
    <3>1. CASE inserted[u] = {}
      BY <3>1 DEF TypeOK, DatabaseTypeOK
    <3>2. CASE inserted[u] # {}
      <4> DEFINE clocks == {Wall[f[2]] : f \in inserted[u]}
      <4>1. NewStart(clocks) \in Nat /\ NewEnd(clocks) \in Nat
        BY <3>2, BoundType
      <4>2. session' = [session EXCEPT !.from = NewStart(clocks), !.to = NewEnd(clocks)]
        BY <3>2
      <4> HIDE DEF clocks
      <4> QED BY <4>1, <4>2 DEF TypeOK, DatabaseTypeOK
    <3> QED BY <3>1, <3>2
  <2> QED BY <2>1, <2>2, <2>3 DEF TypeOK, DatabaseTypeOK
<1>2. LockTypeOK'
  BY DEF TypeOK, LockTypeOK
<1>3. PhaseTypeOK' /\ \A r \in Requests \ {u} : pc'[r] = pc[r]
  BY PhaseOfUpload DEF UploadPhases, Answers, Respond, TypeOK
<1>4. LocalTypeOK'
  <2>1. NothingHeld \in [Streams -> Stats]
    BY DEF NothingHeld, SeedStats, NoneAveraged, Stats, NoPoint
  <2> QED BY <2>1 DEF TypeOK, LocalTypeOK
<1>5. StreamsGoWithSession'
  BY <1>11 DEF LockDiscipline, StreamsGoWithSession
<1>6. ASSUME NEW v \in Uploads PROVE UploadDiscipline(v)'
  <2>1. CASE v = u
    <3>1. pc'[u] = "answered" /\ inserted'[u] = {}
      BY DEF TypeOK, PhaseTypeOK, LocalTypeOK, Requests, GoTo
    <3> QED BY <2>1, <3>1, OutsideTransaction
  <2>2. CASE v # u
    <3>1. \A f \in inserted[v] : f \in Stored /\ f \notin inserted[u] /\ rows[f] = 0
      <4>1. \A f \in inserted[v] : advisory[f[1]] = v /\ rows[f] = 0
        BY DEF LockDiscipline, InsertedIsAbsent
      <4>2. \A f \in inserted[u] : advisory[f[1]] # v
        BY <1>9, <2>2
      <4>3. inserted[v] \subseteq Stored
        BY DEF TypeOK, LocalTypeOK
      <4> QED BY <4>1, <4>2, <4>3
    <3>2. \A f \in inserted[v] : rows'[f] = 0
      BY <1>10, <3>1
    <3>3. /\ todo'[v] = todo[v] /\ inserted'[v] = inserted[v]
          /\ \A s \in Streams : /\ advisory[s] = v => advisory'[s] = v
                              /\ rowLock[s] = v => rowLock'[s] = v
          /\ sessionLock = v => sessionLock' = v
      BY <2>2 DEF TypeOK, LocalTypeOK, LockTypeOK
    <3>4. Undisturbed(v)
      BY <2>2, <1>3, <1>11, <3>2, <3>3 DEF Requests, Undisturbed
    <3> QED
      BY <3>4, UploadKeeps DEF LockDiscipline, UploadDiscipline
  <2> QED BY <2>1, <2>2
<1>7. ASSUME NEW d \in Deletions PROVE DeletionHolds(d)'
  <2>1. pc[d] = "destroying" => rows' = rows
    <3>1. pc[d] = "destroying" => inserted[u] = {}
      BY <1>9 DEF LockDiscipline, DeletionHolds
    <3> QED BY <3>1, <1>10 DEF TypeOK, DatabaseTypeOK
  <2>2. /\ todo'[d] = todo[d] /\ doomed'[d] = doomed[d] /\ d # u
        /\ \A s \in Streams : rowLock[s] = d => rowLock'[s] = d
    BY DEF TypeOK, LocalTypeOK, LockTypeOK
  <2>3. UndisturbedDelete(d)
    BY <1>3, <2>1, <2>2 DEF Requests, UndisturbedDelete
  <2> QED
    BY <2>3, DeletionKeeps DEF LockDiscipline
<1>8. NoDuplicateRows' /\ NoOrphanRows'
  BY <1>9, <1>10 DEF NoDuplicateRows, NoOrphanRows
<1> QED
  BY <1>1, <1>2, <1>3, <1>4, <1>5, <1>6, <1>7, <1>8
  DEF TypeOK, LockDiscipline, UploadDiscipline

-----------------------------------------------------------------------------
(* The steps of a delete. *)

\* Moving one delete on disturbs the phase of no other request.
LEMMA PhaseOfDeletion ==
  ASSUME PhaseTypeOK, NEW d \in Deletions, NEW p \in DeletionPhases, NEW a \in Answers,
         GoTo(d, p), answer' = answer \/ answer' = [answer EXCEPT ![d] = a]
  PROVE  /\ PhaseTypeOK'
         /\ pc'[d] = p
         /\ \A r \in Requests \ {d} : pc'[r] = pc[r]
<1>1. d \in Requests /\ d \notin Uploads /\ d \notin Finishes
  BY UploadAssumption DEF Requests
<1>2. pc'[d] = p /\ \A r \in Requests \ {d} : pc'[r] = pc[r]
  BY <1>1 DEF PhaseTypeOK, GoTo
<1>3. pc' \in [Requests -> UploadPhases \cup DeletionPhases \cup FinishPhases]
  BY <1>1 DEF PhaseTypeOK, GoTo
<1>4. answer' \in [Requests -> Answers]
  BY <1>1 DEF PhaseTypeOK
<1> QED
  BY <1>1, <1>2, <1>3, <1>4 DEF PhaseTypeOK, Requests

\* No rows are left once the streams are gone, so NoRows describes them.
LEMMA NothingLeft ==
  ASSUME IInv, streams = {}
  PROVE  rows = NoRows
<1>1. \A f \in Stored : rows[f] = 0
  BY DEF IInv, NoOrphanRows
<1>2. rows \in [Stored -> Nat]
  BY DEF IInv, TypeOK, DatabaseTypeOK
<1> QED
  BY <1>1, <1>2 DEF NoRows


\* Rolling a delete back leaves the database alone and takes only its own locks.
LEMMA RollBackDeletionStep ==
  ASSUME IInv, NEW d \in Deletions, RollBackDeletion(d)
  PROVE  IInv'
<1> USE UploadAssumption DEF IInv, RollBackDeletion, ReleaseLocks, Respond, ForgetDeletion, db
<1>1. DatabaseTypeOK'
  BY DEF TypeOK, DatabaseTypeOK
<1>2. LockTypeOK'
  BY DEF TypeOK, LockTypeOK
<1>3. PhaseTypeOK' /\ \A r \in Requests \ {d} : pc'[r] = pc[r]
  BY PhaseOfDeletion DEF DeletionPhases, Answers, Respond, TypeOK
<1>4. LocalTypeOK'
  <2>1. NoRows \in [Stored -> Nat]
    BY DEF NoRows
  <2> QED BY <2>1 DEF TypeOK, LocalTypeOK
<1>5. StreamsGoWithSession'
  BY DEF LockDiscipline, StreamsGoWithSession
<1>6. ASSUME NEW v \in Uploads PROVE UploadDiscipline(v)'
  <2>1. Undisturbed(v)
    BY <1>3, StillAbsent DEF TypeOK, LocalTypeOK, LockTypeOK, Requests, Undisturbed
  <2> QED
    BY <2>1, UploadKeeps DEF LockDiscipline, UploadDiscipline
<1>7. ASSUME NEW e \in Deletions PROVE DeletionHolds(e)'
  <2>1. CASE e = d
    <3>1. pc'[d] = "answered" /\ doomed'[d] = NoRows
      BY DEF TypeOK, PhaseTypeOK, LocalTypeOK, Requests, GoTo
    <3> QED BY <2>1, <3>1 DEF DeletionHolds
  <2>2. CASE e # d
    <3>1. UndisturbedDelete(e)
      BY <2>2, <1>3 DEF TypeOK, LocalTypeOK, LockTypeOK, Requests, UndisturbedDelete
    <3> QED
      BY <3>1, DeletionKeeps DEF LockDiscipline
  <2> QED BY <2>1, <2>2
<1>8. NoDuplicateRows' /\ NoOrphanRows'
  BY DEF NoDuplicateRows, NoOrphanRows
<1> QED
  BY <1>1, <1>2, <1>3, <1>4, <1>5, <1>6, <1>7, <1>8
  DEF TypeOK, LockDiscipline, UploadDiscipline

\* Looking up the session to delete.
LEMMA LoadForDeleteStep ==
  ASSUME IInv, NEW d \in Deletions, LoadForDelete(d)
  PROVE  IInv'
<1> USE UploadAssumption DEF IInv, LoadForDelete, db, locks, local
<1>1. DatabaseTypeOK'
  BY DEF TypeOK, DatabaseTypeOK
<1>2. LockTypeOK'
  BY DEF TypeOK, LockTypeOK
<1>3. PhaseTypeOK' /\ \A r \in Requests \ {d} : pc'[r] = pc[r]
  <2>1. CASE session.live
    BY <2>1, PhaseOfDeletion DEF DeletionPhases, Answers, Respond, TypeOK
  <2>2. CASE ~ session.live
    BY <2>2, PhaseOfDeletion DEF DeletionPhases, Answers, Respond, TypeOK
  <2> QED BY <2>1, <2>2
<1>4. LocalTypeOK'
  BY DEF TypeOK, LocalTypeOK
<1>5. StreamsGoWithSession'
  BY DEF LockDiscipline, StreamsGoWithSession
<1>6. ASSUME NEW v \in Uploads PROVE UploadDiscipline(v)'
  <2>1. Undisturbed(v)
    BY <1>3, StillAbsent DEF TypeOK, LocalTypeOK, LockTypeOK, Requests, Undisturbed
  <2> QED
    BY <2>1, UploadKeeps DEF LockDiscipline, UploadDiscipline
<1>7. ASSUME NEW e \in Deletions PROVE DeletionHolds(e)'
  <2>1. CASE e = d
    <3>1. pc'[d] \in {"found", "answered"}
      BY DEF TypeOK, PhaseTypeOK, Requests, GoTo, Respond
    <3> QED BY <2>1, <3>1 DEF LockDiscipline, DeletionHolds
  <2>2. CASE e # d
    <3>1. UndisturbedDelete(e)
      BY <2>2, <1>3 DEF TypeOK, LocalTypeOK, LockTypeOK, Requests, UndisturbedDelete
    <3> QED
      BY <3>1, DeletionKeeps DEF LockDiscipline
  <2> QED BY <2>1, <2>2
<1>8. NoDuplicateRows' /\ NoOrphanRows'
  BY DEF NoDuplicateRows, NoOrphanRows
<1> QED
  BY <1>1, <1>2, <1>3, <1>4, <1>5, <1>6, <1>7, <1>8
  DEF TypeOK, LockDiscipline, UploadDiscipline

\* Plucking the streams: without any, there is nothing to take along.
LEMMA PluckStreamsStep ==
  ASSUME IInv, NEW d \in Deletions, PluckStreams(d)
  PROVE  IInv'
<1> USE UploadAssumption DEF IInv, PluckStreams, db, locks
<1>1. DatabaseTypeOK'
  BY DEF TypeOK, DatabaseTypeOK
<1>2. LockTypeOK'
  BY DEF TypeOK, LockTypeOK
<1>3. PhaseTypeOK' /\ \A r \in Requests \ {d} : pc'[r] = pc[r]
  <2>1. CASE streams = {}
    BY <2>1, PhaseOfDeletion DEF DeletionPhases, Answers, Respond, TypeOK
  <2>2. CASE streams # {}
    BY <2>2, PhaseOfDeletion DEF DeletionPhases, Answers, Respond, TypeOK
  <2> QED BY <2>1, <2>2
<1>4. LocalTypeOK'
  BY DEF TypeOK, DatabaseTypeOK, LocalTypeOK
<1>5. StreamsGoWithSession'
  BY DEF LockDiscipline, StreamsGoWithSession
<1>6. ASSUME NEW v \in Uploads PROVE UploadDiscipline(v)'
  <2>1. Undisturbed(v)
    BY <1>3, StillAbsent DEF TypeOK, LocalTypeOK, LockTypeOK, Requests, Undisturbed
  <2> QED
    BY <2>1, UploadKeeps DEF LockDiscipline, UploadDiscipline
<1>7. ASSUME NEW e \in Deletions PROVE DeletionHolds(e)'
  <2>1. CASE e = d
    <3>1. d \in Requests /\ d \in Uploads \cup Deletions
      BY DEF Requests
    <3>2. doomed[d] = NoRows
      BY DEF LockDiscipline, DeletionHolds
    <3>3. CASE streams = {}
      <4>1. pc'[d] = "destroying"
        BY <3>1, <3>3 DEF TypeOK, PhaseTypeOK, GoTo
      <4> QED BY <2>1, <3>2, <3>3, <4>1, NothingLeft DEF DeletionHolds
    <3>4. CASE streams # {}
      <4>1. pc'[d] = "deleting" /\ todo'[d] = streams
        BY <3>1, <3>4 DEF TypeOK, PhaseTypeOK, LocalTypeOK, GoTo
      <4> QED BY <2>1, <3>2, <4>1 DEF DeletionHolds
    <3> QED BY <3>3, <3>4
  <2>2. CASE e # d
    <3>1. UndisturbedDelete(e)
      BY <2>2, <1>3 DEF TypeOK, LocalTypeOK, LockTypeOK, Requests, UndisturbedDelete
    <3> QED
      BY <3>1, DeletionKeeps DEF LockDiscipline
  <2> QED BY <2>1, <2>2
<1>8. NoDuplicateRows' /\ NoOrphanRows'
  BY DEF NoDuplicateRows, NoOrphanRows
<1> QED
  BY <1>1, <1>2, <1>3, <1>4, <1>5, <1>6, <1>7, <1>8
  DEF TypeOK, LockDiscipline, UploadDiscipline

\* Locking one of the rows the scan meets.
LEMMA LockStreamRowStep ==
  ASSUME IInv, NEW d \in Deletions, NEW s \in Streams, LockStreamRow(d, s)
  PROVE  IInv'
<1> USE UploadAssumption DEF IInv, LockStreamRow, db
<1>1. DatabaseTypeOK'
  BY DEF TypeOK, DatabaseTypeOK
<1>2. LockTypeOK'
  BY DEF TypeOK, LockTypeOK
<1>3. PhaseTypeOK' /\ \A r \in Requests \ {d} : pc'[r] = pc[r]
  BY DEF TypeOK, PhaseTypeOK
<1>4. LocalTypeOK'
  BY DEF TypeOK, LocalTypeOK
<1>5. StreamsGoWithSession'
  BY DEF LockDiscipline, StreamsGoWithSession
<1>6. ASSUME NEW v \in Uploads PROVE UploadDiscipline(v)'
  <2>1. /\ todo'[v] = todo[v] /\ v \in Requests /\ v # d
        /\ \A x \in Streams : rowLock[x] = v => rowLock'[x] = v
    BY DEF TypeOK, LocalTypeOK, LockTypeOK, Requests
  <2>2. Undisturbed(v)
    BY <1>3, <2>1, StillAbsent DEF Undisturbed
  <2> QED
    BY <2>2, UploadKeeps DEF LockDiscipline, UploadDiscipline
<1>7. ASSUME NEW e \in Deletions PROVE DeletionHolds(e)'
  <2>1. CASE e = d
    <3>1. todo'[d] = todo[d] \ {s}
      BY DEF TypeOK, LocalTypeOK
    <3>2. s \in streams => rowLock'[s] = d
      BY DEF TypeOK, LockTypeOK
    <3>3. \A x \in Streams : rowLock[x] = d => rowLock'[x] = d
      BY DEF TypeOK, LockTypeOK
    <3>4. streams \subseteq Streams
      BY DEF TypeOK, DatabaseTypeOK
    <3> QED BY <2>1, <3>1, <3>2, <3>3, <3>4 DEF LockDiscipline, DeletionHolds
  <2>2. CASE e # d
    <3>1. /\ todo'[e] = todo[e] /\ e \in Requests
          /\ \A x \in Streams : rowLock[x] = e => rowLock'[x] = e
      BY <2>2 DEF TypeOK, LocalTypeOK, LockTypeOK, Requests
    <3>2. UndisturbedDelete(e)
      BY <2>2, <1>3, <3>1 DEF UndisturbedDelete
    <3> QED
      BY <3>2, DeletionKeeps DEF LockDiscipline
  <2> QED BY <2>1, <2>2
<1>8. NoDuplicateRows' /\ NoOrphanRows'
  BY DEF NoDuplicateRows, NoOrphanRows
<1> QED
  BY <1>1, <1>2, <1>3, <1>4, <1>5, <1>6, <1>7, <1>8
  DEF TypeOK, LockDiscipline, UploadDiscipline

\* Deleting the rows: with every stream held, they are all there will be.
LEMMA DeleteChildrenStep ==
  ASSUME IInv, NEW d \in Deletions, DeleteChildren(d)
  PROVE  IInv'
<1> USE UploadAssumption DEF IInv, DeleteChildren, db, locks
<1>1. DatabaseTypeOK'
  BY DEF TypeOK, DatabaseTypeOK
<1>2. LockTypeOK'
  BY DEF TypeOK, LockTypeOK
<1>3. PhaseTypeOK' /\ \A r \in Requests \ {d} : pc'[r] = pc[r]
  BY PhaseOfDeletion DEF DeletionPhases, Answers, Respond, TypeOK
<1>4. LocalTypeOK'
  BY DEF TypeOK, DatabaseTypeOK, LocalTypeOK
<1>5. StreamsGoWithSession'
  BY DEF LockDiscipline, StreamsGoWithSession
<1>6. ASSUME NEW v \in Uploads PROVE UploadDiscipline(v)'
  <2>1. Undisturbed(v)
    BY <1>3, StillAbsent DEF TypeOK, LocalTypeOK, LockTypeOK, Requests, Undisturbed
  <2> QED
    BY <2>1, UploadKeeps DEF LockDiscipline, UploadDiscipline
<1>7. ASSUME NEW e \in Deletions PROVE DeletionHolds(e)'
  <2>1. CASE e = d
    <3>1. pc'[d] = "destroying" /\ doomed'[d] = rows
      BY DEF TypeOK, PhaseTypeOK, LocalTypeOK, Requests, GoTo
    <3>2. \A s \in streams : rowLock[s] = d
      BY DEF LockDiscipline, DeletionHolds
    <3> QED BY <2>1, <3>1, <3>2 DEF DeletionHolds
  <2>2. CASE e # d
    <3>1. UndisturbedDelete(e)
      BY <2>2, <1>3 DEF TypeOK, LocalTypeOK, LockTypeOK, Requests, UndisturbedDelete
    <3> QED
      BY <3>1, DeletionKeeps DEF LockDiscipline
  <2> QED BY <2>1, <2>2
<1>8. NoDuplicateRows' /\ NoOrphanRows'
  BY DEF NoDuplicateRows, NoOrphanRows
<1> QED
  BY <1>1, <1>2, <1>3, <1>4, <1>5, <1>6, <1>7, <1>8
  DEF TypeOK, LockDiscipline, UploadDiscipline

\* Committing the delete: every row goes, or had gone before.
LEMMA DestroySessionStep ==
  ASSUME IInv, NEW d \in Deletions, DestroySession(d)
  PROVE  IInv'
<1> USE UploadAssumption DEF IInv, DestroySession, ReleaseLocks, Respond, ForgetDeletion
<1>1. DatabaseTypeOK'
  <2>1. \A f \in Stored : rows'[f] = 0
    BY DEF TypeOK, DatabaseTypeOK, LockDiscipline, DeletionHolds
  <2>2. NothingHeld \in [Streams -> Stats]
    BY DEF NothingHeld, SeedStats, NoneAveraged, Stats, NoPoint
  <2>3. rows' \in [Stored -> Nat]
    BY <2>1
  <2>4. session' \in [live : BOOLEAN, finishedAt : Epochs \cup {Null}, version : Nat,
                      from : Nat, to : Nat]
    BY DEF TypeOK, DatabaseTypeOK, Null
  <2> QED BY <2>2, <2>3, <2>4 DEF TypeOK, DatabaseTypeOK
<1>9. \A f \in Stored : rows'[f] = 0
  BY DEF TypeOK, DatabaseTypeOK, LockDiscipline, DeletionHolds
<1>10. ~ session'.live
  BY DEF TypeOK, DatabaseTypeOK
<1>2. LockTypeOK'
  BY DEF TypeOK, LockTypeOK
<1>3. PhaseTypeOK' /\ \A r \in Requests \ {d} : pc'[r] = pc[r]
  BY PhaseOfDeletion DEF DeletionPhases, Answers, Respond, TypeOK
<1>4. LocalTypeOK'
  <2>1. NoRows \in [Stored -> Nat]
    BY DEF NoRows
  <2> QED BY <2>1 DEF TypeOK, LocalTypeOK
<1>5. StreamsGoWithSession'
  BY <1>10 DEF StreamsGoWithSession
<1>6. ASSUME NEW v \in Uploads PROVE UploadDiscipline(v)'
  <2>1. /\ \A f \in inserted[v] : rows'[f] = 0
        /\ todo'[v] = todo[v] /\ v \in Requests /\ v # d
        /\ \A x \in Streams : rowLock[x] = v => rowLock'[x] = v
        /\ \A x \in Streams : advisory[x] = v => advisory'[x] = v
        /\ sessionLock # v
    BY <1>9 DEF TypeOK, LocalTypeOK, LockTypeOK, Requests
  <2>2. Undisturbed(v)
    BY <1>3, <2>1 DEF Undisturbed
  <2> QED
    BY <2>2, UploadKeeps DEF LockDiscipline, UploadDiscipline
<1>7. ASSUME NEW e \in Deletions PROVE DeletionHolds(e)'
  <2>1. CASE e = d
    <3>1. pc'[d] = "answered" /\ doomed'[d] = NoRows
      BY DEF TypeOK, PhaseTypeOK, LocalTypeOK, Requests, GoTo
    <3> QED BY <2>1, <3>1 DEF DeletionHolds
  <2>2. CASE e # d
    <3>1. pc[e] = "destroying" => streams = {}
      BY <2>2 DEF TypeOK, DatabaseTypeOK, LockDiscipline, DeletionHolds
    <3>2. pc[e] = "destroying" => rows' = rows
      <4>1. streams = {} => \A f \in Stored : rows[f] = 0
        BY DEF NoOrphanRows
      <4>2. rows \in [Stored -> Nat] /\ rows' \in [Stored -> Nat]
        BY <1>1 DEF TypeOK, DatabaseTypeOK
      <4> QED BY <1>9, <3>1, <4>1, <4>2
    <3>3. /\ todo'[e] = todo[e] /\ e \in Requests /\ doomed'[e] = doomed[e]
          /\ \A x \in Streams : rowLock[x] = e => rowLock'[x] = e
      BY <2>2 DEF TypeOK, LocalTypeOK, LockTypeOK, Requests
    <3>4. UndisturbedDelete(e)
      BY <2>2, <1>3, <3>2, <3>3 DEF UndisturbedDelete
    <3> QED
      BY <3>4, DeletionKeeps DEF LockDiscipline
  <2> QED BY <2>1, <2>2
<1>8. NoDuplicateRows' /\ NoOrphanRows'
  BY <1>9 DEF NoDuplicateRows, NoOrphanRows
<1> QED
  BY <1>1, <1>2, <1>3, <1>4, <1>5, <1>6, <1>7, <1>8
  DEF TypeOK, LockDiscipline, UploadDiscipline

-----------------------------------------------------------------------------
(* The steps of a finish, and the theorems. *)

\* A step that changes only the session's finish and one finish request.
LEMMA FinishStepKeeps ==
  ASSUME IInv, NEW n \in Finishes, NEW p \in FinishPhases, NEW a \in Answers,
         GoTo(n, p), answer' = answer \/ answer' = [answer EXCEPT ![n] = a],
         DatabaseTypeOK', session'.live = session.live,
         UNCHANGED <<streams, stats, rows, tombstone, locks, local>>
  PROVE  IInv'
<1> USE UploadAssumption DEF IInv, locks, local
<1>1. n \in Requests /\ n \notin Uploads /\ n \notin Deletions
  BY DEF Requests
<1>2. LockTypeOK' /\ LocalTypeOK'
  BY DEF TypeOK, LockTypeOK, LocalTypeOK
<1>3. PhaseTypeOK' /\ \A r \in Requests \ {n} : pc'[r] = pc[r]
  <2>1. pc'[n] = p /\ \A r \in Requests \ {n} : pc'[r] = pc[r]
    BY <1>1 DEF TypeOK, PhaseTypeOK, GoTo
  <2>2. pc' \in [Requests -> UploadPhases \cup DeletionPhases \cup FinishPhases]
    BY <1>1 DEF TypeOK, PhaseTypeOK, GoTo
  <2>3. answer' \in [Requests -> Answers]
    BY <1>1 DEF TypeOK, PhaseTypeOK
  <2> QED
    BY <1>1, <2>1, <2>2, <2>3 DEF TypeOK, PhaseTypeOK, Requests
<1>4. StreamsGoWithSession'
  BY DEF LockDiscipline, StreamsGoWithSession
<1>5. ASSUME NEW v \in Uploads PROVE UploadDiscipline(v)'
  <2>1. Undisturbed(v)
    BY <1>1, <1>3, StillAbsent DEF Requests, Undisturbed
  <2> QED
    BY <2>1, UploadKeeps DEF LockDiscipline, UploadDiscipline
<1>6. ASSUME NEW d \in Deletions PROVE DeletionHolds(d)'
  <2>1. UndisturbedDelete(d)
    BY <1>1, <1>3 DEF Requests, UndisturbedDelete
  <2> QED
    BY <2>1, DeletionKeeps DEF LockDiscipline
<1>7. NoDuplicateRows' /\ NoOrphanRows'
  BY DEF NoDuplicateRows, NoOrphanRows
<1> QED
  BY <1>2, <1>3, <1>4, <1>5, <1>6, <1>7 DEF TypeOK, LockDiscipline, UploadDiscipline

\* Looking up the session to finish.
LEMMA LoadForFinishStep ==
  ASSUME IInv, NEW n \in Finishes, LoadForFinish(n)
  PROVE  IInv'
<1>1. DatabaseTypeOK' /\ session' = session
  BY DEF IInv, TypeOK, DatabaseTypeOK, LoadForFinish, db
<1>2. CASE session.live
  BY <1>1, <1>2, FinishStepKeeps DEF LoadForFinish, FinishPhases, Answers, db
<1>3. CASE ~ session.live
  BY <1>1, <1>3, FinishStepKeeps DEF LoadForFinish, Respond, FinishPhases, Answers, db
<1> QED
  BY <1>2, <1>3

\* Finishing it, at whatever instant.
LEMMA FinishStepStep ==
  ASSUME IInv, NEW n \in Finishes, NEW instant \in Epochs, Finish(n, instant)
  PROVE  IInv'
<1>1. DatabaseTypeOK' /\ session'.live = session.live
  <2>1. session' = session \/ session' = [session EXCEPT !.finishedAt = instant, !.version = @ + 1]
    BY DEF Finish
  <2>2. session' \in [live : {session.live}, finishedAt : Epochs \cup {Null}, version : Nat,
                      from : Nat, to : Nat]
    <3>1. session \in [live : {session.live}, finishedAt : Epochs \cup {Null}, version : Nat,
                       from : Nat, to : Nat]
      BY DEF IInv, TypeOK, DatabaseTypeOK
    <3>2. session.version + 1 \in Nat
      BY <3>1
    <3>3. CASE session' = session
      BY <3>1, <3>3
    <3>4. CASE session' = [session EXCEPT !.finishedAt = instant, !.version = session.version + 1]
      BY <3>1, <3>2, <3>4
    <3> QED BY <2>1, <3>3, <3>4
  <2>3. UNCHANGED <<streams, stats, rows, tombstone>>
    BY DEF Finish
  <2> QED BY <2>2, <2>3 DEF IInv, TypeOK, DatabaseTypeOK
<1>2. CASE session.live
  BY <1>1, <1>2, FinishStepKeeps DEF Finish, Respond, FinishPhases, Answers
<1>3. CASE ~ session.live
  BY <1>1, <1>3, FinishStepKeeps DEF Finish, Respond, FinishPhases, Answers
<1> QED
  BY <1>2, <1>3

\* A session starts empty, with nothing under way.
LEMMA InitIsGood == Init => IInv
<1> SUFFICES ASSUME Init PROVE IInv
  OBVIOUS
<1> USE UploadAssumption DEF Init
<1>1. NothingHeld \in [Streams -> Stats] /\ NoRows \in [Stored -> Nat]
  BY DEF NothingHeld, SeedStats, NoneAveraged, Stats, NoPoint, NoRows
<1>2. DatabaseTypeOK
  BY <1>1 DEF DatabaseTypeOK, Null
<1>3. LockTypeOK
  BY DEF LockTypeOK
<1>4. PhaseTypeOK
  BY DEF PhaseTypeOK, UploadPhases, DeletionPhases, FinishPhases, Answers, Requests
<1>5. LocalTypeOK
  BY <1>1 DEF LocalTypeOK
<1>6. StreamsGoWithSession
  BY DEF StreamsGoWithSession
<1>7. ASSUME NEW u \in Uploads PROVE CurrentIsLocked(u) /\ InsertedIsAbsent(u) /\ InsertedIsHeld(u)
  BY DEF CurrentIsLocked, InsertedIsAbsent, InsertedIsHeld, InTransaction, Requests
<1>8. ASSUME NEW d \in Deletions PROVE DeletionHolds(d)
  BY DEF DeletionHolds, Requests
<1>9. NoDuplicateRows /\ NoOrphanRows
  BY DEF NoDuplicateRows, NoOrphanRows, NoRows
<1> QED
  BY <1>2, <1>3, <1>4, <1>5, <1>6, <1>7, <1>8, <1>9 DEF IInv, TypeOK, LockDiscipline

\* An upload's steps keep the invariant.
LEMMA UploadNext ==
  ASSUME IInv, NEW u \in Uploads,
         LoadSession(u) \/ UploadStep(u) \/ FailUpload(u) \/ Resend(u)
  PROVE  IInv'
<1>1. CASE LoadSession(u)
  BY <1>1, LoadSessionStep
<1>2. CASE ResolveStreams(u)
  BY <1>2, ResolveStreamsStep
<1>3. CASE LockStream(u)
  <2>1. CASE Current(u) \in streams
    BY <1>3, <2>1, LockStreamStep
  <2>2. CASE Current(u) \notin streams
    BY <1>3, <2>2, RollBackUploadStep DEF LockStream, Answers
  <2> QED BY <2>1, <2>2
<1>4. CASE ImportRows(u)
  BY <1>4, ImportRowsStep
<1>5. CASE UpdateStream(u)
  BY <1>5, UpdateStreamStep
<1>6. CASE LockSession(u)
  <2>1. CASE inserted[u] = {} \/ session.live
    BY <1>6, <2>1, LockSessionStep
  <2>2. CASE ~ (inserted[u] = {} \/ session.live)
    BY <1>6, <2>2, RollBackUploadStep DEF LockSession, Answers
  <2> QED BY <2>1, <2>2
<1>7. CASE Commit(u)
  BY <1>7, CommitStep
<1>8. CASE LockTimeout(u)
  BY <1>8, RollBackUploadStep DEF LockTimeout, Answers
<1>9. CASE FailUpload(u)
  BY <1>9, RollBackUploadStep DEF FailUpload, Answers
<1>10. CASE Resend(u)
  BY <1>10, ResendStep
<1> QED
  BY <1>1, <1>2, <1>3, <1>4, <1>5, <1>6, <1>7, <1>8, <1>9, <1>10 DEF UploadStep

\* A delete's steps keep the invariant.
LEMMA DeletionNext ==
  ASSUME IInv, NEW d \in Deletions,
         LoadForDelete(d) \/ DeletionStep(d) \/ FailDeletion(d)
  PROVE  IInv'
<1>1. CASE LoadForDelete(d)
  BY <1>1, LoadForDeleteStep
<1>2. CASE PluckStreams(d)
  BY <1>2, PluckStreamsStep
<1>3. CASE \E s \in Streams : LockStreamRow(d, s)
  BY <1>3, LockStreamRowStep
<1>4. CASE DeleteChildren(d)
  BY <1>4, DeleteChildrenStep
<1>5. CASE DestroySession(d)
  BY <1>5, DestroySessionStep
<1>6. CASE BreakDeadlock(d)
  BY <1>6, RollBackDeletionStep DEF BreakDeadlock
<1>7. CASE FailDeletion(d)
  BY <1>7, RollBackDeletionStep DEF FailDeletion
<1> QED
  BY <1>1, <1>2, <1>3, <1>4, <1>5, <1>6, <1>7 DEF DeletionStep

\* The invariant is inductive.
LEMMA NextKeeps == IInv /\ [Next]_vars => IInv'
<1> SUFFICES ASSUME IInv, [Next]_vars PROVE IInv'
  OBVIOUS
<1>1. ASSUME NEW u \in Uploads,
             LoadSession(u) \/ UploadStep(u) \/ FailUpload(u) \/ Resend(u)
      PROVE  IInv'
  BY <1>1, UploadNext
<1>2. ASSUME NEW d \in Deletions,
             LoadForDelete(d) \/ DeletionStep(d) \/ FailDeletion(d)
      PROVE  IInv'
  BY <1>2, DeletionNext
<1>3. ASSUME NEW n \in Finishes, LoadForFinish(n) \/ FinishStep(n)
      PROVE  IInv'
  BY <1>3, LoadForFinishStep, FinishStepStep DEF FinishStep
<1>4. CASE UNCHANGED vars
  <2> USE <1>4 DEF vars, db, locks, local, IInv
  <2>1. TypeOK'
    BY DEF TypeOK, DatabaseTypeOK, LockTypeOK, PhaseTypeOK, LocalTypeOK
  <2>2. ASSUME NEW v \in Uploads PROVE UploadDiscipline(v)'
    <3>1. Undisturbed(v)
      BY StillAbsent DEF Undisturbed
    <3> QED BY <3>1, UploadKeeps DEF LockDiscipline, UploadDiscipline
  <2>3. ASSUME NEW d \in Deletions PROVE DeletionHolds(d)'
    <3>1. UndisturbedDelete(d)
      BY DEF UndisturbedDelete
    <3> QED BY <3>1, DeletionKeeps DEF LockDiscipline
  <2>4. StreamsGoWithSession' /\ NoDuplicateRows' /\ NoOrphanRows'
    BY DEF LockDiscipline, StreamsGoWithSession, NoDuplicateRows, NoOrphanRows
  <2> QED
    BY <2>1, <2>2, <2>3, <2>4 DEF LockDiscipline, UploadDiscipline
<1> QED
  BY <1>1, <1>2, <1>3, <1>4 DEF Next

LEMMA Invariance == Spec => []IInv
<1>1. Init => IInv
  BY InitIsGood
<1>2. IInv /\ [Next]_vars => IInv'
  BY NextKeeps
<1> QED
  BY <1>1, <1>2, PTL DEF Spec

\* Every variable has its type (the columns, locks and memory of every request).
THEOREM TypeCorrect == Spec => []TypeOK
<1>1. IInv => TypeOK
  BY DEF IInv
<1> QED
  BY <1>1, Invariance, PTL

\* The locks of the requests in flight cover what they are about to write.
THEOREM LocksCoverWrites == Spec => []LockDiscipline
<1>1. IInv => LockDiscipline
  BY DEF IInv
<1> QED
  BY <1>1, Invariance, PTL

\* However many uploads carry a frame, and however they interleave with each
\* other, with deletes and with failures, measurements has one row for it.
THEOREM IngestIsIdempotent == Spec => []NoDuplicateRows
<1>1. IInv => NoDuplicateRows
  BY DEF IInv
<1> QED
  BY <1>1, Invariance, PTL

\* However a delete interleaves with uploads and with other deletes, it leaves no
\* row behind.
THEOREM DeleteLeavesNothing == Spec => []NoOrphanRows
<1>1. IInv => NoOrphanRows
  BY DEF IInv
<1> QED
  BY <1>1, Invariance, PTL

\* No step of any request moves a finish that has been made.
THEOREM FinishIsMadeOnce == Spec => FinishIsFinal
<1> DEFINE Final == session.finishedAt # Null =>
                      /\ session'.finishedAt = session.finishedAt
                      /\ session'.version = session.version
<1>1. TypeOK /\ [Next]_vars => [Final]_vars
  <2> SUFFICES ASSUME TypeOK, Next, session.finishedAt # Null, session' # session
               PROVE  /\ session'.finishedAt = session.finishedAt
                      /\ session'.version = session.version
    BY DEF vars, db
  <2> USE DEF TypeOK, DatabaseTypeOK
  <2>1. ASSUME NEW u \in Uploads,
               LoadSession(u) \/ UploadStep(u) \/ FailUpload(u) \/ Resend(u)
        PROVE  Commit(u)
    BY <2>1
    DEF UploadStep, LoadSession, ResolveStreams, LockStream, ImportRows, UpdateStream,
        LockSession, LockTimeout, FailUpload, Resend, RollBackUpload, db
  <2>2. ASSUME NEW u \in Uploads, Commit(u)
        PROVE  \E a, b : session' = [session EXCEPT !.from = a, !.to = b]
    BY <2>2 DEF Commit
  <2>3. ASSUME NEW d \in Deletions,
               LoadForDelete(d) \/ DeletionStep(d) \/ FailDeletion(d)
        PROVE  session' = [session EXCEPT !.live = FALSE, !.from = Null, !.to = Null]
    BY <2>3
    DEF DeletionStep, LoadForDelete, PluckStreams, LockStreamRow, DeleteChildren,
        DestroySession, BreakDeadlock, FailDeletion, RollBackDeletion, db
  <2>4. ASSUME NEW n \in Finishes, LoadForFinish(n) \/ FinishStep(n)
        PROVE  FALSE
    BY <2>4 DEF LoadForFinish, FinishStep, Finish, db
  <2> QED
    BY <2>1, <2>2, <2>3, <2>4 DEF Next
<1> QED
  BY <1>1, TypeCorrect, PTL DEF Spec, FinishIsFinal

-----------------------------------------------------------------------------
(* The order of the locks. *)

\* Which locks an upload may hold where: none outside its transaction, the
\* session row only at its end, and in its loop over streams those of streams it
\* has passed, the row lock of a stream under its advisory lock.
OrderOf(u) ==
  /\ sessionLock = u => pc[u] = "committing"
  /\ \A s \in Streams :
       /\ rowLock[s] = u => advisory[s] = u
       /\ advisory[s] = u => InTransaction(u)
       /\ advisory[s] = u /\ pc[u] = "locking" => \A t \in todo[u] : s < t
       /\ advisory[s] = u /\ pc[u] \in {"reloaded", "imported"} =>
            \A t \in todo[u] : s <= t
       /\ rowLock[s] = u /\ pc[u] \in {"reloaded", "imported"} => s \notin todo[u]

LockOrder == \A u \in Uploads : OrderOf(u)

\* A request that does not move takes no lock and keeps those it has.
SameLocks(v) ==
  /\ pc'[v] = pc[v] /\ todo'[v] = todo[v]
  /\ \A s \in Streams : /\ advisory'[s] = v <=> advisory[s] = v
                        /\ rowLock'[s] = v <=> rowLock[s] = v
  /\ sessionLock' = v => sessionLock = v

LEMMA OrderKeeps ==
  ASSUME NEW v \in Uploads, OrderOf(v), SameLocks(v)
  PROVE  OrderOf(v)'
BY DEF OrderOf, SameLocks, InTransaction

\* An upload without locks has nothing to order.
LEMMA OrderOfNothing ==
  ASSUME NEW u \in Uploads, sessionLock' # u,
         \A s \in Streams : advisory'[s] # u /\ rowLock'[s] # u
  PROVE  OrderOf(u)'
BY DEF OrderOf

\* Dropping the current stream from the list leaves later ones only.
LEMMA NextStream ==
  ASSUME TypeOK, NEW u \in Uploads, todo[u] # {}, AfterStream(u)
  PROVE  /\ \A t \in todo'[u] : t \in todo[u] /\ Current(u) < t
         /\ pc'[u] \in {"locking", "bounding"}
<1>1. todo[u] \in SUBSET Nat /\ u \in Requests
  BY UploadAssumption DEF TypeOK, LocalTypeOK, Requests
<1>2. Current(u) \in Nat /\ \A t \in todo[u] : Current(u) <= t
  BY <1>1, MinOfNaturals DEF Current
<1>3. todo'[u] = todo[u] \ {Current(u)}
  BY DEF TypeOK, LocalTypeOK, AfterStream
<1>4. pc'[u] \in {"locking", "bounding"}
  BY <1>1 DEF TypeOK, PhaseTypeOK, AfterStream, GoTo
<1> QED
  BY <1>1, <1>2, <1>3, <1>4

\* An upload's own steps keep its order.
LEMMA OwnOrder ==
  ASSUME IInv, LockOrder, NEW u \in Uploads,
         LoadSession(u) \/ UploadStep(u) \/ FailUpload(u) \/ Resend(u)
  PROVE  OrderOf(u)'
<1> USE UploadAssumption DEF IInv
<1>0. OrderOf(u) /\ u \in Requests /\ u # Nobody
  BY DEF LockOrder, Requests
<1>1. ASSUME NEW what \in Answers, RollBackUpload(u, what) PROVE OrderOf(u)'
  <2>1. sessionLock' # u /\ \A s \in Streams : advisory'[s] # u /\ rowLock'[s] # u
    BY <1>0, <1>1 DEF RollBackUpload, ReleaseLocks
  <2> QED BY <2>1, OrderOfNothing
<1>2. CASE Commit(u)
  <2>1. sessionLock' # u /\ \A s \in Streams : advisory'[s] # u /\ rowLock'[s] # u
    BY <1>0, <1>2 DEF Commit, ReleaseLocks
  <2> QED BY <2>1, OrderOfNothing
<1>3. CASE LoadSession(u) \/ Resend(u) \/ ResolveStreams(u)
  <2>1. ~ InTransaction(u) /\ UNCHANGED locks
    BY <1>3 DEF LoadSession, Resend, ResolveStreams, InTransaction
  <2>2. sessionLock # u /\ \A s \in Streams : advisory[s] # u /\ rowLock[s] # u
    BY <1>0, <2>1 DEF OrderOf, InTransaction
  <2> QED BY <2>1, <2>2, OrderOfNothing DEF locks
<1>4. CASE LockStream(u) /\ Current(u) \in streams
  <2>1. todo[u] # {} /\ Current(u) \in Streams
    BY <1>4, CurrentInTodo DEF LockStream, LockDiscipline, CurrentIsLocked
  <2>2. todo[u] \in SUBSET Nat
    BY DEF TypeOK, LocalTypeOK
  <2>3. \A t \in todo[u] : Current(u) <= t
    BY <2>1, <2>2, MinOfNaturals DEF Current
  <2>4. pc'[u] = "reloaded" /\ todo'[u] = todo[u]
        /\ rowLock' = rowLock /\ sessionLock' = sessionLock
    BY <1>0, <1>4 DEF LockStream, RollBackUpload, TypeOK, DatabaseTypeOK, PhaseTypeOK, GoTo
  <2>5. \A s \in Streams : advisory'[s] = IF s = Current(u) THEN u ELSE advisory[s]
    BY <1>4, <2>1 DEF LockStream, TypeOK, LockTypeOK
  <2>6. pc[u] = "locking" /\ advisory[Current(u)] = Nobody
    BY <1>4 DEF LockStream
  <2>7. \A s \in Streams : advisory[s] = u => \A t \in todo[u] : s < t
    BY <1>0, <2>6 DEF OrderOf
  <2>8. Streams \subseteq Nat
    OBVIOUS
  <2> QED BY <1>0, <2>1, <2>2, <2>3, <2>4, <2>5, <2>6, <2>7, <2>8 DEF OrderOf, InTransaction
<1>5. CASE ImportRows(u) \/ UpdateStream(u)
  <2>1. todo[u] # {} /\ Current(u) \in Streams /\ advisory[Current(u)] = u
    BY <1>5, CurrentInTodo DEF ImportRows, UpdateStream, LockDiscipline, CurrentIsLocked
  <2>2. advisory' = advisory /\ sessionLock' = sessionLock
    BY <1>5 DEF ImportRows, UpdateStream, locks
  <2>3. pc[u] \in {"reloaded", "imported"}
    BY <1>5 DEF ImportRows, UpdateStream
  <2>4. \A s \in Streams : advisory[s] = u => s <= Current(u)
    BY <1>0, <2>1, <2>3, CurrentInTodo DEF OrderOf
  <2>5. \A s \in Streams : rowLock'[s] = u => rowLock[s] = u \/ s = Current(u)
    BY <1>5, <2>1 DEF ImportRows, UpdateStream, locks, TypeOK, LockTypeOK
  <2>6. Streams \subseteq Nat /\ todo[u] \subseteq Nat
    BY DEF TypeOK, LocalTypeOK
  <2>7. CASE AfterStream(u)
    <3>1. \A t \in todo'[u] : t \in todo[u] /\ Current(u) < t
      BY <2>1, <2>7, NextStream
    <3>2. pc'[u] \in {"locking", "bounding"}
      BY <2>1, <2>7, NextStream
    <3>3. \A s \in Streams : rowLock'[s] = u => advisory'[s] = u
      BY <1>0, <2>1, <2>2, <2>5 DEF OrderOf
    <3>4. \A s \in Streams : advisory'[s] = u => \A t \in todo'[u] : s < t
      <4> SUFFICES ASSUME NEW s \in Streams, advisory[s] = u, NEW t \in todo'[u] PROVE s < t
        BY <2>2
      <4>1. s <= Current(u) /\ Current(u) < t
        BY <2>4, <3>1
      <4>2. s \in Nat /\ t \in Nat /\ Current(u) \in Nat
        BY <2>1, <2>6, <3>1
      <4> QED BY <4>1, <4>2
    <3>5. sessionLock' # u
      BY <1>0, <2>2, <2>3 DEF OrderOf
    <3> QED BY <3>2, <3>3, <3>4, <3>5 DEF OrderOf, InTransaction
  <2>8. CASE ~ AfterStream(u)
    <3>1. pc'[u] = "imported" /\ todo' = todo /\ rowLock' = rowLock
      BY <1>0, <1>5, <2>8 DEF ImportRows, UpdateStream, GoTo, locks, TypeOK, PhaseTypeOK
    <3> QED BY <1>0, <2>2, <2>3, <3>1 DEF OrderOf, InTransaction
  <2> QED BY <2>7, <2>8
<1>6. CASE LockSession(u) /\ (inserted[u] = {} \/ session.live)
  <2>1. pc[u] = "bounding" /\ pc'[u] = "committing" /\ UNCHANGED <<todo, advisory, rowLock>>
    BY <1>0, <1>6 DEF LockSession, GoTo, local, locks, TypeOK, PhaseTypeOK
  <2> QED BY <1>0, <2>1 DEF OrderOf, InTransaction
<1> QED
  BY <1>1, <1>2, <1>3, <1>4, <1>5, <1>6
  DEF UploadStep, LockStream, LockSession, LockTimeout, FailUpload, Answers

\* The steps of an upload give no other upload a lock and take none from it.
LEMMA OthersOrder ==
  ASSUME IInv, NEW u \in Uploads, NEW v \in Uploads, v # u,
         LoadSession(u) \/ UploadStep(u) \/ FailUpload(u) \/ Resend(u)
  PROVE  SameLocks(v)
<1> USE UploadAssumption DEF IInv
<1>0. u \in Requests /\ v \in Requests /\ v # Nobody
  BY DEF Requests
<1>1. pc'[v] = pc[v]
  BY <1>0 DEF TypeOK, PhaseTypeOK, UploadStep, LoadSession, ResolveStreams, LockStream,
     ImportRows, UpdateStream, LockSession, Commit, LockTimeout, FailUpload, Resend,
     RollBackUpload, Respond, GoTo, AfterStream
<1>2. todo'[v] = todo[v]
  BY DEF TypeOK, LocalTypeOK, UploadStep, LoadSession, ResolveStreams, LockStream,
     ImportRows, UpdateStream, LockSession, Commit, LockTimeout, FailUpload, Resend,
     RollBackUpload, ForgetUpload, AfterStream, local
<1>3. \A s \in Streams : advisory'[s] = v <=> advisory[s] = v
  <2>1. \/ advisory' = advisory
        \/ ReleaseLocks(u)
        \/ /\ advisory[Current(u)] = Nobody
           /\ advisory' = [advisory EXCEPT ![Current(u)] = u]
    BY DEF UploadStep, LoadSession, ResolveStreams, LockStream,
       ImportRows, UpdateStream, LockSession, Commit, LockTimeout, FailUpload, Resend,
       RollBackUpload, locks
  <2> QED BY <1>0, <2>1 DEF ReleaseLocks, TypeOK, LockTypeOK
<1>4. \A s \in Streams : rowLock'[s] = v <=> rowLock[s] = v
  <2>1. \/ rowLock' = rowLock
        \/ ReleaseLocks(u)
        \/ /\ rowLock[Current(u)] = Nobody
           /\ rowLock' = [rowLock EXCEPT ![Current(u)] = u]
    BY DEF UploadStep, LoadSession, ResolveStreams, LockStream,
       ImportRows, UpdateStream, LockSession, Commit, LockTimeout, FailUpload, Resend,
       RollBackUpload, locks
  <2> QED BY <1>0, <2>1 DEF ReleaseLocks, TypeOK, LockTypeOK
<1>5. sessionLock' = v => sessionLock = v
  <2>1. sessionLock' = sessionLock \/ sessionLock' = u \/ ReleaseLocks(u)
    BY DEF UploadStep, LoadSession, ResolveStreams, LockStream,
       ImportRows, UpdateStream, LockSession, Commit, LockTimeout, FailUpload, Resend,
       RollBackUpload, locks
  <2> QED BY <1>0, <2>1 DEF ReleaseLocks
<1> QED
  BY <1>1, <1>2, <1>3, <1>4, <1>5 DEF SameLocks

\* Nor do those of a delete.
LEMMA DeletionsKeepLocks ==
  ASSUME IInv, NEW d \in Deletions, NEW v \in Uploads,
         LoadForDelete(d) \/ DeletionStep(d) \/ FailDeletion(d)
  PROVE  SameLocks(v)
<1> USE UploadAssumption DEF IInv
<1>0. d \in Requests /\ v \in Requests /\ v # Nobody /\ v # d
  BY DEF Requests
<1>1. pc'[v] = pc[v]
  BY <1>0 DEF TypeOK, PhaseTypeOK, DeletionStep, LoadForDelete, PluckStreams, LockStreamRow,
     DeleteChildren, DestroySession, BreakDeadlock, FailDeletion, RollBackDeletion,
     Respond, GoTo
<1>2. todo'[v] = todo[v]
  BY <1>0 DEF TypeOK, LocalTypeOK, DeletionStep, LoadForDelete, PluckStreams, LockStreamRow,
     DeleteChildren, DestroySession, BreakDeadlock, FailDeletion, RollBackDeletion,
     ForgetDeletion, local
<1>3. advisory' = advisory \/ ReleaseLocks(d)
  BY DEF DeletionStep, LoadForDelete, PluckStreams, LockStreamRow,
     DeleteChildren, DestroySession, BreakDeadlock, FailDeletion, RollBackDeletion, locks
<1>4. \/ rowLock' = rowLock
      \/ ReleaseLocks(d)
      \/ \E s \in Streams : rowLock[s] = Nobody /\ rowLock' = [rowLock EXCEPT ![s] = d]
  BY DEF DeletionStep, LoadForDelete, PluckStreams, LockStreamRow,
     DeleteChildren, DestroySession, BreakDeadlock, FailDeletion, RollBackDeletion, locks
<1>5. sessionLock' = sessionLock \/ ReleaseLocks(d)
  BY DEF DeletionStep, LoadForDelete, PluckStreams, LockStreamRow,
     DeleteChildren, DestroySession, BreakDeadlock, FailDeletion, RollBackDeletion, locks
<1>6. \A s \in Streams : advisory'[s] = v <=> advisory[s] = v
  BY <1>0, <1>3 DEF ReleaseLocks
<1>7. \A s \in Streams : rowLock'[s] = v <=> rowLock[s] = v
  BY <1>0, <1>4 DEF ReleaseLocks, TypeOK, LockTypeOK
<1>8. sessionLock' = v => sessionLock = v
  BY <1>0, <1>5 DEF ReleaseLocks
<1> QED
  BY <1>1, <1>2, <1>6, <1>7, <1>8 DEF SameLocks

\* The order of the locks is kept by every step.
LEMMA NextKeepsOrder == IInv /\ LockOrder /\ [Next]_vars => LockOrder'
<1> SUFFICES ASSUME IInv, LockOrder, [Next]_vars, NEW v \in Uploads PROVE OrderOf(v)'
  BY DEF LockOrder
<1> USE DEF LockOrder
<1>1. ASSUME NEW u \in Uploads,
             LoadSession(u) \/ UploadStep(u) \/ FailUpload(u) \/ Resend(u)
      PROVE  OrderOf(v)'
  <2>1. CASE v = u
    BY <1>1, <2>1, OwnOrder
  <2>2. CASE v # u
    BY <1>1, <2>2, OthersOrder, OrderKeeps
  <2> QED BY <2>1, <2>2
<1>2. ASSUME NEW d \in Deletions,
             LoadForDelete(d) \/ DeletionStep(d) \/ FailDeletion(d)
      PROVE  OrderOf(v)'
  BY <1>2, DeletionsKeepLocks, OrderKeeps
<1>3. ASSUME NEW n \in Finishes, LoadForFinish(n) \/ FinishStep(n)
      PROVE  OrderOf(v)'
  <2>1. pc'[v] = pc[v] /\ UNCHANGED <<locks, todo>>
    <3>1. v \in Requests /\ v # n
      BY UploadAssumption DEF Requests
    <3>2. CASE LoadForFinish(n)
      <4>1. GoTo(n, "finishing") \/ GoTo(n, "answered")
        BY <3>2 DEF LoadForFinish, Respond
      <4>2. UNCHANGED <<locks, todo>>
        BY <3>2 DEF LoadForFinish, local
      <4> QED BY <3>1, <4>1, <4>2 DEF IInv, TypeOK, PhaseTypeOK, GoTo
    <3>3. ASSUME NEW instant \in Epochs, Finish(n, instant)
          PROVE  pc'[v] = pc[v] /\ UNCHANGED <<locks, todo>>
      <4>1. GoTo(n, "answered") /\ UNCHANGED <<locks, todo>>
        BY <3>3 DEF Finish, Respond, local
      <4> QED BY <3>1, <4>1 DEF IInv, TypeOK, PhaseTypeOK, GoTo
    <3> QED
      BY <1>3, <3>2, <3>3 DEF FinishStep
  <2> QED BY <2>1, OrderKeeps DEF SameLocks, locks
<1>4. CASE UNCHANGED vars
  BY <1>4, OrderKeeps DEF SameLocks, vars, locks, local
<1> QED
  BY <1>1, <1>2, <1>3, <1>4 DEF Next

\* In a set of uploads that wait only for each other, all wait for the advisory
\* lock of a stream: who waits for a stream row holds the advisory lock that the
\* holder of the row would need, and the session row is held by no one who waits.
LEMMA WaitersWaitForAdvisory ==
  ASSUME IInv, LockOrder, NEW S \in SUBSET Uploads, \A u \in S : Holder(u) \in S,
         NEW u \in S
  PROVE  /\ pc[u] = "locking" /\ todo[u] # {} /\ Current(u) \in Streams
         /\ advisory[Current(u)] \in S
<1> USE DEF IInv
<1>1. \A v \in S : Holder(v) # Nobody /\ OrderOf(v)
  BY UploadAssumption DEF Requests, LockOrder
<1>2. sessionLock \notin S
  <2> SUFFICES ASSUME sessionLock \in S PROVE FALSE
    OBVIOUS
  <2>1. pc[sessionLock] = "committing"
    BY <1>1 DEF OrderOf
  <2> QED BY <1>1, <2>1 DEF Holder
<1>3. pc[u] \in {"locking", "imported"}
  BY <1>1, <1>2 DEF Holder
<1>4. todo[u] # {} /\ Current(u) \in todo[u] /\ Current(u) \in Streams
  BY <1>3, CurrentInTodo DEF LockDiscipline, CurrentIsLocked
<1>5. pc[u] # "imported"
  <2> SUFFICES ASSUME pc[u] = "imported" PROVE FALSE
    OBVIOUS
  <2>1. rowLock[Current(u)] \in S
    BY DEF Holder
  <2>2. advisory[Current(u)] = rowLock[Current(u)]
    BY <1>1, <1>4, <2>1 DEF OrderOf
  <2>3. advisory[Current(u)] = u
    BY DEF LockDiscipline, CurrentIsLocked
  <2> QED BY <1>1, <1>4, <2>2, <2>3 DEF OrderOf
<1> QED
  BY <1>3, <1>4, <1>5 DEF Holder

\* The holder of the lock the upload waits for is further down the streams.
LEMMA HolderIsAhead ==
  ASSUME IInv, LockOrder, NEW S \in SUBSET Uploads, \A u \in S : Holder(u) \in S,
         NEW u \in S
  PROVE  Holder(u) \in S /\ Current(u) < Current(Holder(u))
<1> DEFINE v == advisory[Current(u)]
<1>1. v = Holder(u) /\ v \in S /\ Current(u) \in Streams
  BY WaitersWaitForAdvisory DEF Holder
<1>2. pc[v] = "locking" /\ todo[v] # {} /\ v \in Uploads
  BY <1>1, WaitersWaitForAdvisory
<1>3. Current(v) \in todo[v]
  BY <1>2, CurrentInTodo DEF IInv
<1>4. Current(u) < Current(v)
  BY <1>1, <1>2, <1>3 DEF LockOrder, OrderOf
<1> QED
  BY <1>1, <1>4

\* The upload whose current stream is the highest would wait for a higher one.
LEMMA NoCycle == IInv /\ LockOrder => UploadsNeverDeadlock
<1> SUFFICES ASSUME IInv, LockOrder, NEW S \in SUBSET Uploads, S # {},
                    \A u \in S : Holder(u) \in S
             PROVE  FALSE
  BY DEF UploadsNeverDeadlock
<1> DEFINE At == {Current(u) : u \in S}
<1>1. At \in SUBSET Streams /\ At # {}
  BY WaitersWaitForAdvisory
<1>2. At \in SUBSET Nat /\ IsFiniteSet(At)
  BY <1>1, UploadAssumption, FS_Subset
<1>3. Max(At) \in At /\ \A y \in At : y <= Max(At)
  <2> HIDE DEF At
  <2> QED BY <1>1, <1>2, MaxOfFinite
<1>4. PICK u \in S : Current(u) = Max(At)
  BY <1>3
<1>5. Holder(u) \in S /\ Current(u) < Current(Holder(u))
  BY HolderIsAhead
<1>6. Current(Holder(u)) \in At /\ Current(u) \in At
  BY <1>5
<1>7. Current(Holder(u)) <= Current(u)
  BY <1>3, <1>4, <1>6
<1> HIDE DEF At
<1>8. Current(Holder(u)) \in Nat /\ Current(u) \in Nat
  BY <1>2, <1>6
<1> QED
  BY <1>5, <1>7, <1>8

LEMMA OrderInvariance == Spec => []LockOrder
<1>1. Init => LockOrder
  <2> SUFFICES ASSUME Init, NEW u \in Uploads PROVE OrderOf(u)
    BY DEF LockOrder
  <2>1. u # Nobody
    BY UploadAssumption DEF Requests
  <2> QED BY <2>1 DEF Init, OrderOf
<1> QED
  BY <1>1, NextKeepsOrder, Invariance, PTL DEF Spec

\* However many uploads race over however many streams, no set of them waits only
\* for locks held inside the set.
THEOREM LockOrderPreventsDeadlock == Spec => []UploadsNeverDeadlock
BY NoCycle, Invariance, OrderInvariance, PTL

-----------------------------------------------------------------------------
(* The bounds of the session. *)

StoredClocks == {Wall[f[2]] : f \in {g \in Stored : rows[g] > 0}}

\* The wall clocks of a set of frames are naturals other than 0, finitely many.
LEMMA ClocksType ==
  ASSUME NEW F \in SUBSET Stored
  PROVE  /\ {Wall[f[2]] : f \in F} \in SUBSET (Nat \ {Null})
         /\ {Wall[f[2]] : f \in F} \in SUBSET Nat
         /\ IsFiniteSet({Wall[f[2]] : f \in F})
<1> DEFINE instants == {f[2] : f \in F}
<1>1. instants \in SUBSET Epochs
  BY DEF Stored
<1>2. IsFiniteSet(instants)
  BY <1>1, UploadAssumption, FS_Subset
<1>3. Wall \in [Epochs -> Nat \ {Null}]
  BY UploadAssumption
<1>4. {Wall[f[2]] : f \in F} = {Wall[e] : e \in instants}
  OBVIOUS
<1>5. {Wall[e] : e \in instants} \in SUBSET (Nat \ {Null})
  BY <1>1, <1>3
<1>6. IsFiniteSet({Wall[e] : e \in instants})
  <2> HIDE DEF instants
  <2> QED BY <1>1, <1>2, <1>3, FiniteImage
<1> QED
  BY <1>4, <1>5, <1>6

\* A commit adds the frames it inserted, and nothing else, to those with rows.
LEMMA CommitAddsInserted ==
  ASSUME IInv, NEW u \in Uploads, Commit(u)
  PROVE  /\ \A f \in inserted[u] : f \in Stored /\ rows[f] = 0 /\ session.live
         /\ \A f \in Stored : rows'[f] > 0 <=> rows[f] > 0 \/ f \in inserted[u]
         /\ \A f \in Stored : rows'[f] = IF f \in inserted[u] THEN 1 ELSE rows[f]
<1>1. \A f \in inserted[u] : f \in Stored /\ rows[f] = 0 /\ session.live
  BY DEF IInv, TypeOK, LocalTypeOK, LockDiscipline, InsertedIsAbsent, InsertedIsHeld, Commit
<1>2. \A f \in Stored : rows[f] \in Nat
  BY DEF IInv, TypeOK, DatabaseTypeOK
<1>3. \A f \in Stored : rows'[f] = rows[f] + (IF f \in inserted[u] THEN 1 ELSE 0)
  BY DEF Commit
<1> QED
  BY <1>1, <1>2, <1>3

\* The commit of an upload widens the bounds by the clocks of its new rows.
LEMMA CommitWidensBounds ==
  ASSUME IInv, BoundsMatchRows, NEW u \in Uploads, Commit(u)
  PROVE  BoundsMatchRows'
<1> DEFINE old == StoredClocks
           new == {Wall[f[2]] : f \in inserted[u]}
<1>1. /\ \A f \in inserted[u] : f \in Stored /\ rows[f] = 0 /\ session.live
      /\ \A f \in Stored : rows'[f] > 0 <=> rows[f] > 0 \/ f \in inserted[u]
  BY CommitAddsInserted
<1>2. StoredClocks' = new \cup old
  BY <1>1 DEF StoredClocks
<1>3. /\ old \in SUBSET (Nat \ {Null}) /\ old \in SUBSET Nat /\ IsFiniteSet(old)
      /\ new \in SUBSET Nat /\ IsFiniteSet(new)
  <2>1. inserted[u] \in SUBSET Stored
    BY <1>1
  <2>2. {g \in Stored : rows[g] > 0} \in SUBSET Stored
    OBVIOUS
  <2> QED BY <2>1, <2>2, ClocksType DEF StoredClocks
<1>4. session.live => IF old = {} THEN session.from = Null /\ session.to = Null
                                  ELSE session.from = Min(old) /\ session.to = Max(old)
  BY DEF BoundsMatchRows, StoredClocks
<1>5. BoundsMatchRows' = (session'.live =>
         IF StoredClocks' = {}
           THEN session'.from = Null /\ session'.to = Null
           ELSE session'.from = Min(StoredClocks') /\ session'.to = Max(StoredClocks'))
  BY DEF BoundsMatchRows, StoredClocks
<1>6. CASE inserted[u] = {}
  <2>1. session' = session /\ StoredClocks' = old
    BY <1>2, <1>6 DEF Commit
  <2> HIDE DEF old, new
  <2> QED BY <2>1, <1>4, <1>5
<1>7. CASE inserted[u] # {}
  <2>1. session.live /\ new # {}
    BY <1>1, <1>7
  <2>2. /\ session'.from = NewStart(new) /\ session'.to = NewEnd(new)
    BY <1>7 DEF Commit, IInv, TypeOK, DatabaseTypeOK
  <2>3. CASE old = {}
    <3>1. NewStart(new) = Min(new) /\ NewEnd(new) = Max(new) /\ StoredClocks' = new
      BY <1>2, <1>4, <2>1, <2>3 DEF NewStart, NewEnd
    <3> HIDE DEF old, new
    <3> QED BY <1>5, <2>1, <2>2, <3>1
  <2>4. CASE old # {}
    <3>1. session.from = Min(old) /\ session.to = Max(old)
      BY <1>4, <2>1, <2>4
    <3> HIDE DEF old, new
    <3>2. session.from # Null /\ session.to # Null
      <4>1. Min(old) \in old /\ Max(old) \in old
        BY <1>3, <2>4, MinOfNaturals, MaxOfFinite
      <4> QED BY <1>3, <3>1, <4>1
    <3>3. Min(new \cup {Min(old)}) = Min(new \cup old)
      BY <1>3, <2>1, <2>4, MinOfUnion
    <3>4. Max(new \cup {Max(old)}) = Max(new \cup old)
      BY <1>3, <2>1, <2>4, MaxOfUnion
    <3>5. NewStart(new) = Min(StoredClocks') /\ NewEnd(new) = Max(StoredClocks')
      BY <1>2, <3>1, <3>2, <3>3, <3>4 DEF NewStart, NewEnd
    <3> QED BY <1>2, <1>5, <2>1, <2>2, <3>5
  <2> QED BY <2>3, <2>4
<1> QED
  BY <1>6, <1>7

\* A step that leaves the rows and the bounds alone leaves them matching.
LEMMA BoundsUntouched ==
  ASSUME BoundsMatchRows, rows' = rows,
         session'.live = session.live,
         session'.from = session.from, session'.to = session.to
  PROVE  BoundsMatchRows'
BY DEF BoundsMatchRows

LEMMA NextKeepsBounds == IInv /\ BoundsMatchRows /\ [Next]_vars => BoundsMatchRows'
<1> SUFFICES ASSUME IInv, BoundsMatchRows, [Next]_vars PROVE BoundsMatchRows'
  OBVIOUS
<1>1. ASSUME NEW u \in Uploads,
             LoadSession(u) \/ UploadStep(u) \/ FailUpload(u) \/ Resend(u)
      PROVE  BoundsMatchRows'
  <2>1. CASE Commit(u)
    BY <2>1, CommitWidensBounds
  <2>2. CASE ~ Commit(u)
    <3>1. UNCHANGED <<session, rows>>
      BY <1>1, <2>2
      DEF UploadStep, LoadSession, ResolveStreams, LockStream, ImportRows, UpdateStream,
          LockSession, LockTimeout, FailUpload, Resend, RollBackUpload, db
    <3> QED BY <3>1, BoundsUntouched
  <2> QED BY <2>1, <2>2
<1>2. ASSUME NEW d \in Deletions,
             LoadForDelete(d) \/ DeletionStep(d) \/ FailDeletion(d)
      PROVE  BoundsMatchRows'
  <2>1. CASE DestroySession(d)
    <3>1. ~ session'.live
      BY <2>1 DEF DestroySession, IInv, TypeOK, DatabaseTypeOK
    <3> QED BY <3>1 DEF BoundsMatchRows
  <2>2. CASE ~ DestroySession(d)
    <3>1. UNCHANGED <<session, rows>>
      BY <1>2, <2>2
      DEF DeletionStep, LoadForDelete, PluckStreams, LockStreamRow, DeleteChildren,
          BreakDeadlock, FailDeletion, RollBackDeletion, db
    <3> QED BY <3>1, BoundsUntouched
  <2> QED BY <2>1, <2>2
<1>3. ASSUME NEW n \in Finishes, LoadForFinish(n) \/ FinishStep(n)
      PROVE  BoundsMatchRows'
  <2>1. CASE LoadForFinish(n)
    BY <2>1, BoundsUntouched DEF LoadForFinish, db
  <2>2. ASSUME NEW instant \in Epochs, Finish(n, instant) PROVE BoundsMatchRows'
    <3>1. rows' = rows
      BY <2>2 DEF Finish
    <3>2. \/ session' = session
          \/ session' = [session EXCEPT !.finishedAt = instant, !.version = @ + 1]
      BY <2>2 DEF Finish
    <3>3. /\ session'.live = session.live
          /\ session'.from = session.from /\ session'.to = session.to
      BY <3>2 DEF IInv, TypeOK, DatabaseTypeOK
    <3> QED BY <3>1, <3>3, BoundsUntouched
  <2> QED BY <1>3, <2>1, <2>2 DEF FinishStep
<1>4. CASE UNCHANGED vars
  BY <1>4, BoundsUntouched DEF vars, db
<1> QED
  BY <1>1, <1>2, <1>3, <1>4 DEF Next

\* The session starts and ends with its first and last row, whatever uploads
\* committed in whatever order.
THEOREM BoundsAreThoseOfTheRows == Spec => []BoundsMatchRows
<1>1. Init => BoundsMatchRows
  <2> SUFFICES ASSUME Init PROVE BoundsMatchRows
    OBVIOUS
  <2>1. {g \in Stored : rows[g] > 0} = {}
    BY DEF Init, NoRows
  <2>2. session.from = Null /\ session.to = Null
    BY DEF Init
  <2> QED BY <2>1, <2>2 DEF BoundsMatchRows
<1> QED
  BY <1>1, NextKeepsBounds, Invariance, PTL DEF Spec

-----------------------------------------------------------------------------
(* The aggregates of the streams. *)

\* The columns a stream has when the epochs of its rows are E.
Describes(columns, E) ==
  /\ E # {}
  /\ columns.count = Cardinality(E)
  /\ columns.mean = [e \in Epochs |-> IF e \in E THEN 1 ELSE 0]
  /\ columns.low = Min({Position[e] : e \in E})
  /\ columns.high = Max({Position[e] : e \in E})
  /\ columns.start \in {Position[e] : e \in Earliest(E)}

ColumnsMatch(s) ==
  IF Recorded(s) = {} THEN stats[s] = SeedStats ELSE Describes(stats[s], Recorded(s))

\* What an upload holds of its current stream is what is stored, and what it
\* wrote to a stream it locked is right once its own rows are committed.
HeldIsTrue(u) ==
  /\ pc[u] \in {"reloaded", "imported"} /\ Current(u) \in streams =>
       copy[u][Current(u)] = stats[Current(u)]
  /\ \A s \in streams :
       rowLock[s] = u => Describes(copy[u][s], Recorded(s) \cup Batch(u, s))

AggregateInv ==
  /\ \A s \in streams : ColumnsMatch(s)
  /\ \A u \in Uploads : HeldIsTrue(u)

\* A stream's rows are one per recorded epoch, so the two ways to say what its
\* average is of agree.
LEMMA ColumnsAreAggregates ==
  ASSUME IInv, \A s \in streams : ColumnsMatch(s)
  PROVE  AggregatesMatchRows
<1> SUFFICES ASSUME NEW s \in streams, Recorded(s) # {}
             PROVE  stats[s].mean = [e \in Epochs |-> rows[<<s, e>>]]
  BY DEF AggregatesMatchRows, ColumnsMatch, Describes
<1>1. stats[s].mean = [e \in Epochs |-> IF e \in Recorded(s) THEN 1 ELSE 0]
  BY DEF ColumnsMatch, Describes
<1>2. \A e \in Epochs : rows[<<s, e>>] = IF e \in Recorded(s) THEN 1 ELSE 0
  <2> TAKE e \in Epochs
  <2>1. <<s, e>> \in Stored
    BY DEF IInv, TypeOK, DatabaseTypeOK, Stored
  <2>2. rows[<<s, e>>] \in Nat /\ rows[<<s, e>>] <= 1
    BY <2>1 DEF IInv, TypeOK, DatabaseTypeOK, NoDuplicateRows
  <2> QED BY <2>2 DEF Recorded
<1> QED
  BY <1>1, <1>2

\* apply_stream_aggregates, from columns that are right for the rows there are:
\* the columns it writes are right for those and the batch together.
LEMMA AggregationIsTrue ==
  ASSUME IInv, NEW u \in Uploads, NEW s \in Streams, ColumnsMatch(s),
         copy[u][s] = stats[s], Batch(u, s) # {},
         NEW first \in Earliest(Visible(u, s))
  PROVE  Describes(Aggregated(u, s, first), Recorded(s) \cup Batch(u, s))
<1> DEFINE R == Recorded(s)
           B == Batch(u, s)
           held == stats[s]
           placesR == {Position[e] : e \in R}
           placesB == {Position[e] : e \in B}
<1>1. R \in SUBSET Epochs /\ IsFiniteSet(R) /\ B \in SUBSET Epochs /\ IsFiniteSet(B)
  BY UploadAssumption, FS_Subset DEF Batch, Recorded
<1>2. R \cap B = {}
  <2> SUFFICES ASSUME NEW e \in B PROVE e \notin R
    OBVIOUS
  <2>1. <<s, e>> \in inserted[u]
    BY DEF Batch
  <2>2. rows[<<s, e>>] = 0
    BY <2>1 DEF IInv, LockDiscipline, InsertedIsAbsent
  <2> QED BY <2>2 DEF Recorded
<1>3. Position \in [Epochs -> Nat]
  BY UploadAssumption
<1>4. /\ placesR \in SUBSET Nat /\ IsFiniteSet(placesR) /\ (R # {} => placesR # {})
      /\ placesB \in SUBSET Nat /\ IsFiniteSet(placesB) /\ placesB # {}
  <2>1. placesR \in SUBSET Nat /\ placesB \in SUBSET Nat /\ placesB # {}
        /\ (R # {} => placesR # {})
    BY <1>1, <1>3
  <2> HIDE DEF R, B
  <2> QED BY <1>1, <1>3, <2>1, FiniteImage
<1>5. {Position[e] : e \in R \cup B} = placesB \cup placesR
  OBVIOUS
<1>6. Cardinality(R) \in Nat /\ Cardinality(B) \in Nat
      /\ (Cardinality(R) = 0 <=> R = {})
      /\ Cardinality(R \cup B) = Cardinality(R) + Cardinality(B)
  <2> HIDE DEF R, B
  <2>1. Cardinality(R) \in Nat /\ Cardinality(B) \in Nat
    BY <1>1, FS_CardinalityType
  <2>2. Cardinality(R \cup B) = Cardinality(R) + Cardinality(B) - Cardinality(R \cap B)
    BY <1>1, FS_Union
  <2>3. Cardinality(R \cap B) = 0
    BY <1>2, FS_EmptySet
  <2>4. Cardinality(R) = 0 <=> R = {}
    BY <1>1, FS_EmptySet
  <2> QED BY <2>1, <2>2, <2>3, <2>4
<1>7. held.count = Cardinality(R)
  <2>1. CASE R = {}
    <3>1. held.count = 0
      BY <2>1 DEF ColumnsMatch, SeedStats
    <3> QED BY <1>6, <2>1, <3>1
  <2>2. CASE R # {}
    BY <2>2 DEF ColumnsMatch, Describes
  <2> QED BY <2>1, <2>2
<1>8. held.count > 0 <=> R # {}
  <2> HIDE DEF R, held
  <2> QED BY <1>6, <1>7
<1>9. /\ Aggregated(u, s, first).count = held.count + Cardinality(B)
      /\ Aggregated(u, s, first).mean =
           [e \in Epochs |-> (IF held.count > 0 THEN held.mean[e] ELSE 0)
                               + (IF e \in B THEN 1 ELSE 0)]
      /\ Aggregated(u, s, first).low =
           Min(IF held.count > 0 THEN placesB \cup {held.low} ELSE placesB)
      /\ Aggregated(u, s, first).high =
           Max(IF held.count > 0 THEN placesB \cup {held.high} ELSE placesB)
      /\ Aggregated(u, s, first).start = Position[first]
  BY DEF Aggregated
<1>10. R # {} => /\ held.mean = [e \in Epochs |-> IF e \in R THEN 1 ELSE 0]
                 /\ held.low = Min(placesR) /\ held.high = Max(placesR)
  BY DEF ColumnsMatch, Describes
<1>11. first \in Earliest(R \cup B)
  BY DEF Visible, Recorded
<1>12. Position[first] \in {Position[e] : e \in Earliest(R \cup B)}
  BY <1>11
<1> HIDE DEF R, B, held, placesR, placesB
<1>13. Aggregated(u, s, first).count = Cardinality(R \cup B)
  BY <1>6, <1>7, <1>9
<1>14. Aggregated(u, s, first).mean = [e \in Epochs |-> IF e \in R \cup B THEN 1 ELSE 0]
  <2>1. \A e \in Epochs : (IF held.count > 0 THEN held.mean[e] ELSE 0)
                            + (IF e \in B THEN 1 ELSE 0)
                          = IF e \in R \cup B THEN 1 ELSE 0
    <3>1. CASE R = {}
      BY <1>8, <3>1
    <3>2. CASE R # {}
      <4>1. \A e \in Epochs : held.mean[e] = IF e \in R THEN 1 ELSE 0
        BY <1>10, <3>2
      <4> QED BY <1>2, <1>8, <3>2, <4>1
    <3> QED BY <3>1, <3>2
  <2> QED BY <1>9, <2>1
<1>15. /\ Aggregated(u, s, first).low = Min(placesB \cup placesR)
       /\ Aggregated(u, s, first).high = Max(placesB \cup placesR)
  <2>1. CASE R = {}
    <3>1. placesB \cup placesR = placesB
      BY <2>1 DEF placesR
    <3> QED BY <1>8, <1>9, <2>1, <3>1
  <2>2. CASE R # {}
    <3>1. /\ Min(placesB \cup {Min(placesR)}) = Min(placesB \cup placesR)
          /\ Max(placesB \cup {Max(placesR)}) = Max(placesB \cup placesR)
      BY <1>4, <2>2, MinOfUnion, MaxOfUnion
    <3> QED BY <1>8, <1>9, <1>10, <2>2, <3>1
  <2> QED BY <2>1, <2>2
<1>16. R \cup B # {}
  BY DEF B
<1>17. Describes(Aggregated(u, s, first), R \cup B)
  BY <1>5, <1>9, <1>12, <1>13, <1>14, <1>15, <1>16 DEF Describes
<1> QED
  BY <1>17 DEF R, B

\* What an upload holds stays true while it does not move: under its advisory lock
\* nobody else changes the stream.
LEMMA HeldKeeps ==
  ASSUME IInv, NEW v \in Uploads, OrderOf(v), HeldIsTrue(v), SameLocks(v),
         copy'[v] = copy[v], inserted'[v] = inserted[v], streams' \subseteq streams,
         \A s \in streams' : advisory[s] = v =>
            stats'[s] = stats[s] /\ \A e \in Epochs : rows'[<<s, e>>] = rows[<<s, e>>]
  PROVE  HeldIsTrue(v)'
<1> USE DEF IInv, SameLocks
<1>1. streams \subseteq Streams
  BY DEF TypeOK, DatabaseTypeOK
<1>2. Current(v)' = Current(v)
  BY DEF Current
<1>3. \A s \in streams' : advisory[s] = v => Recorded(s)' = Recorded(s)
  BY DEF Recorded
<1>4. \A s : Batch(v, s)' = Batch(v, s)
  BY DEF Batch
<1>5. ASSUME pc[v] \in {"reloaded", "imported"}, Current(v) \in streams'
      PROVE  copy'[v][Current(v)] = stats'[Current(v)]
  BY <1>5 DEF HeldIsTrue, LockDiscipline, CurrentIsLocked
<1>6. ASSUME NEW s \in streams', rowLock'[s] = v
      PROVE  Describes(copy'[v][s], (Recorded(s) \cup Batch(v, s))')
  <2>1. s \in Streams /\ rowLock[s] = v /\ advisory[s] = v
    BY <1>1, <1>6 DEF OrderOf
  <2> QED BY <1>3, <1>4, <2>1 DEF HeldIsTrue
<1> QED
  BY <1>2, <1>5, <1>6 DEF HeldIsTrue, Describes, Earliest

\* An upload that is not in its loop and has locked no row holds nothing.
LEMMA HoldsNothing ==
  ASSUME NEW u \in Uploads, pc'[u] \notin {"reloaded", "imported"},
         \A s \in streams' : rowLock'[s] # u
  PROVE  HeldIsTrue(u)'
BY DEF HeldIsTrue

\* The own steps of an upload, up to its commit, keep what it holds true.
LEMMA OwnHeld ==
  ASSUME IInv, LockOrder, AggregateInv, NEW u \in Uploads,
         LoadSession(u) \/ UploadStep(u) \/ FailUpload(u) \/ Resend(u)
  PROVE  HeldIsTrue(u)'
<1> USE UploadAssumption DEF IInv
<1>0. /\ OrderOf(u) /\ HeldIsTrue(u) /\ u \in Requests /\ u # Nobody
      /\ streams \subseteq Streams
  BY DEF LockOrder, AggregateInv, Requests, TypeOK, DatabaseTypeOK
<1>1. ASSUME NEW what, RollBackUpload(u, what) PROVE HeldIsTrue(u)'
  <2>1. pc'[u] = "answered"
    BY <1>0, <1>1 DEF RollBackUpload, Respond, GoTo, TypeOK, PhaseTypeOK
  <2>2. streams' = streams /\ \A s \in Streams : rowLock'[s] # u
    BY <1>0, <1>1 DEF RollBackUpload, ReleaseLocks, db
  <2> QED BY <1>0, <2>1, <2>2, HoldsNothing
<1>2. CASE Commit(u)
  <2>1. pc'[u] = "answered"
    BY <1>0, <1>2 DEF Commit, Respond, GoTo, TypeOK, PhaseTypeOK
  <2>2. streams' = streams /\ \A s \in Streams : rowLock'[s] # u
    BY <1>0, <1>2 DEF Commit, ReleaseLocks
  <2> QED BY <1>0, <2>1, <2>2, HoldsNothing
<1>3. CASE LoadSession(u) \/ Resend(u) \/ ResolveStreams(u)
  <2>1. ~ InTransaction(u) /\ UNCHANGED <<locks, streams>>
    BY <1>3 DEF LoadSession, Resend, ResolveStreams, InTransaction, db
  <2>2. pc'[u] \notin {"reloaded", "imported"}
    BY <1>0, <1>3
    DEF LoadSession, Resend, ResolveStreams, Respond, GoTo, TypeOK, PhaseTypeOK
  <2>3. \A s \in Streams : rowLock[s] # u
    BY <1>0, <2>1 DEF OrderOf
  <2> QED BY <1>0, <2>1, <2>2, <2>3, HoldsNothing DEF locks
<1>4. CASE LockStream(u) /\ Current(u) \in streams
  <2>1. todo[u] # {} /\ Current(u) \in todo[u] /\ Current(u) \in Streams
    BY <1>4, CurrentInTodo DEF LockStream, LockDiscipline, CurrentIsLocked
  <2>2. /\ pc[u] = "locking" /\ UNCHANGED <<streams, stats, rows, rowLock, todo, inserted>>
        /\ copy' = [copy EXCEPT ![u][Current(u)] = stats[Current(u)]]
    BY <1>4 DEF LockStream, db, RollBackUpload
  <2>3. \A s \in Streams : copy'[u][s] = IF s = Current(u) THEN stats[s] ELSE copy[u][s]
    BY <2>1, <2>2 DEF TypeOK, LocalTypeOK
  <2>4. \A s \in streams : rowLock[s] = u => s # Current(u)
    BY <1>0, <2>1, <2>2 DEF OrderOf
  <2>5. \A s \in streams : (Recorded(s) \cup Batch(u, s))' = Recorded(s) \cup Batch(u, s)
    BY <2>2 DEF Recorded, Batch
  <2>6. Current(u)' = Current(u)
    BY <2>2 DEF Current
  <2>7. \A s \in streams' :
          rowLock'[s] = u => Describes(copy'[u][s], (Recorded(s) \cup Batch(u, s))')
    BY <1>0, <2>2, <2>3, <2>4, <2>5 DEF HeldIsTrue
  <2> QED BY <1>0, <2>1, <2>2, <2>3, <2>6, <2>7 DEF HeldIsTrue, Describes, Earliest
<1>5. CASE ImportRows(u)
  <2>1. todo[u] # {} /\ Current(u) \in todo[u] /\ Current(u) \in Streams
    BY <1>5, CurrentInTodo DEF ImportRows, LockDiscipline, CurrentIsLocked
  <2>2. /\ pc[u] = "reloaded" /\ UNCHANGED <<streams, stats, rows, rowLock, copy>>
        /\ inserted'[u] = inserted[u] \cup Absent(u)
    BY <1>5 DEF ImportRows, db, locks, TypeOK, LocalTypeOK
  <2>3. \A s \in streams : rowLock[s] = u => s # Current(u)
    BY <1>0, <2>1, <2>2 DEF OrderOf
  <2>4. \A f \in Absent(u) : f[1] = Current(u)
    BY DEF Absent
  <2>5. \A s \in streams : rowLock[s] = u =>
          (Recorded(s) \cup Batch(u, s))' = Recorded(s) \cup Batch(u, s)
    <3> SUFFICES ASSUME NEW s \in streams, rowLock[s] = u
                 PROVE  Batch(u, s)' = Batch(u, s) /\ Recorded(s)' = Recorded(s)
      OBVIOUS
    <3>1. \A e \in Epochs : <<s, e>> \notin Absent(u)
      BY <2>3, <2>4
    <3> QED BY <2>2, <3>1 DEF Batch, Recorded
  <2>6. \A s \in streams' :
          rowLock'[s] = u => Describes(copy'[u][s], (Recorded(s) \cup Batch(u, s))')
    BY <1>0, <2>2, <2>5 DEF HeldIsTrue
  <2>7. pc'[u] \in {"reloaded", "imported"} => Current(u)' = Current(u)
    <3>1. CASE AfterStream(u)
      BY <2>1, <3>1, NextStream
    <3>2. CASE UNCHANGED todo
      BY <3>2 DEF Current
    <3> QED BY <1>5, <3>1, <3>2 DEF ImportRows
  <2> QED BY <1>0, <2>2, <2>6, <2>7 DEF HeldIsTrue, Describes, Earliest
<1>6. CASE UpdateStream(u)
  <2>1. /\ todo[u] # {} /\ Current(u) \in todo[u] /\ Current(u) \in Streams
        /\ Batch(u, Current(u)) # {}
    BY <1>6, CurrentInTodo DEF UpdateStream, LockDiscipline, CurrentIsLocked
  <2>2. pc[u] = "imported" /\ UNCHANGED <<streams, stats, rows, inserted>>
    BY <1>6 DEF UpdateStream, db
  <2>3. pc'[u] \notin {"reloaded", "imported"}
    BY <1>6, <2>1, NextStream DEF UpdateStream
  <2>4. \A s \in streams : (Recorded(s) \cup Batch(u, s))' = Recorded(s) \cup Batch(u, s)
    BY <2>2 DEF Recorded, Batch
  <2>5. ASSUME NEW s \in streams, rowLock'[s] = u
        PROVE  Describes(copy'[u][s], Recorded(s) \cup Batch(u, s))
    <3>1. CASE s = Current(u)
      <4>1. PICK first \in Earliest(Visible(u, s)) :
              copy' = [copy EXCEPT ![u][s] = Aggregated(u, s, first)]
        BY <1>6, <3>1 DEF UpdateStream
      <4>2. copy'[u][s] = Aggregated(u, s, first)
        BY <2>1, <3>1, <4>1 DEF TypeOK, LocalTypeOK
      <4>3. copy[u][s] = stats[s] /\ ColumnsMatch(s)
        BY <1>0, <2>2, <3>1 DEF HeldIsTrue, AggregateInv
      <4> QED BY <1>0, <2>1, <3>1, <4>2, <4>3, AggregationIsTrue
    <3>2. CASE s # Current(u)
      <4>1. copy'[u][s] = copy[u][s] /\ rowLock[s] = u
        BY <1>0, <1>6, <2>1, <2>5, <3>2
        DEF UpdateStream, TypeOK, LocalTypeOK, LockTypeOK
      <4> QED BY <1>0, <4>1 DEF HeldIsTrue
    <3> QED BY <3>1, <3>2
  <2>6. \A s \in streams' :
          rowLock'[s] = u => Describes(copy'[u][s], (Recorded(s) \cup Batch(u, s))')
    BY <2>2, <2>4, <2>5
  <2> QED BY <2>3, <2>6 DEF HeldIsTrue, Describes, Earliest
<1>7. CASE LockSession(u) /\ (inserted[u] = {} \/ session.live)
  <2>1. pc'[u] = "committing" /\ UNCHANGED <<streams, rows, rowLock, copy, inserted>>
    BY <1>0, <1>7 DEF LockSession, GoTo, local, locks, db, TypeOK, PhaseTypeOK
  <2>2. \A s \in streams : (Recorded(s) \cup Batch(u, s))' = Recorded(s) \cup Batch(u, s)
    BY <2>1 DEF Recorded, Batch
  <2>3. \A s \in streams' :
          rowLock'[s] = u => Describes(copy'[u][s], (Recorded(s) \cup Batch(u, s))')
    BY <1>0, <2>1, <2>2 DEF HeldIsTrue
  <2> QED BY <2>1, <2>3 DEF HeldIsTrue, Describes, Earliest
<1> QED
  BY <1>1, <1>2, <1>3, <1>4, <1>5, <1>6, <1>7
  DEF UploadStep, LockStream, LockSession, LockTimeout, FailUpload

\* An upload's commit leaves the streams of the others as they are, ...
LEMMA CommitSpares ==
  ASSUME IInv, LockOrder, NEW u \in Uploads, Commit(u), NEW s \in streams, rowLock[s] # u
  PROVE  stats'[s] = stats[s] /\ \A e \in Epochs : rows'[<<s, e>>] = rows[<<s, e>>]
<1>1. s \in Streams
  BY DEF IInv, TypeOK, DatabaseTypeOK
<1>2. stats'[s] = stats[s]
  BY <1>1 DEF Commit
<1>3. \A f \in inserted[u] : f[1] # s
  BY DEF IInv, LockDiscipline, InsertedIsHeld, Commit
<1>4. \A e \in Epochs : <<s, e>> \in Stored /\ <<s, e>> \notin inserted[u]
  BY <1>1, <1>3 DEF Stored
<1> QED
  BY <1>2, <1>4, CommitAddsInserted

\* ... and its own with the columns it computed for them.
LEMMA CommitMatches ==
  ASSUME IInv, LockOrder, AggregateInv, NEW u \in Uploads, Commit(u), NEW s \in streams'
  PROVE  ColumnsMatch(s)'
<1>1. s \in streams /\ s \in Streams
  BY DEF Commit, IInv, TypeOK, DatabaseTypeOK
<1>2. CASE rowLock[s] # u
  <2>1. stats'[s] = stats[s] /\ Recorded(s)' = Recorded(s)
    BY <1>1, <1>2, CommitSpares DEF Recorded
  <2>2. ColumnsMatch(s)
    BY <1>1 DEF AggregateInv
  <2> QED BY <2>1, <2>2 DEF ColumnsMatch, Describes, Earliest
<1>3. CASE rowLock[s] = u
  <2>1. stats'[s] = copy[u][s]
    BY <1>1, <1>3 DEF Commit
  <2>2. Recorded(s)' = Recorded(s) \cup Batch(u, s)
    <3>1. \A e \in Epochs : <<s, e>> \in Stored
      BY <1>1 DEF Stored
    <3>2. \A e \in Epochs : rows'[<<s, e>>] > 0 <=> rows[<<s, e>>] > 0 \/ <<s, e>> \in inserted[u]
      BY <3>1, CommitAddsInserted
    <3> QED BY <3>2 DEF Recorded, Batch
  <2>3. Describes(copy[u][s], Recorded(s) \cup Batch(u, s))
    BY <1>1, <1>3 DEF AggregateInv, HeldIsTrue
  <2>4. Describes(stats'[s], Recorded(s)')
    BY <2>1, <2>2, <2>3
  <2>5. Recorded(s)' # {}
    BY <2>4 DEF Describes
  <2> QED BY <2>4, <2>5 DEF ColumnsMatch, Describes, Earliest
<1> QED
  BY <1>2, <1>3

\* Where neither rows nor columns change, they go on matching.
LEMMA ColumnsUntouched ==
  ASSUME AggregateInv, UNCHANGED <<stats, rows>>, streams' \subseteq streams,
         NEW s \in streams'
  PROVE  ColumnsMatch(s)'
<1>1. Recorded(s)' = Recorded(s)
  BY DEF Recorded
<1> QED
  BY <1>1 DEF AggregateInv, ColumnsMatch, Describes, Earliest

\* An upload's steps keep the columns right.
LEMMA UploadKeepsAggregates ==
  ASSUME IInv, LockOrder, AggregateInv, NEW u \in Uploads,
         LoadSession(u) \/ UploadStep(u) \/ FailUpload(u) \/ Resend(u)
  PROVE  AggregateInv'
<1>1. streams' = streams
  BY DEF UploadStep, LoadSession, ResolveStreams, LockStream, ImportRows, UpdateStream,
     LockSession, Commit, LockTimeout, FailUpload, Resend, RollBackUpload, db
<1>2. Commit(u) \/ UNCHANGED <<stats, rows>>
  BY DEF UploadStep, LoadSession, ResolveStreams, LockStream, ImportRows, UpdateStream,
     LockSession, LockTimeout, FailUpload, Resend, RollBackUpload, db
<1>3. ASSUME NEW s \in streams' PROVE ColumnsMatch(s)'
  BY <1>1, <1>2, CommitMatches, ColumnsUntouched
<1>4. ASSUME NEW v \in Uploads PROVE HeldIsTrue(v)'
  <2>1. CASE v = u
    BY <2>1, OwnHeld
  <2>2. CASE v # u
    <3>1. SameLocks(v) /\ OrderOf(v) /\ OrderOf(u) /\ HeldIsTrue(v)
      BY <2>2, OthersOrder DEF LockOrder, AggregateInv
    <3>2. copy'[v] = copy[v] /\ inserted'[v] = inserted[v]
      BY <2>2 DEF IInv, TypeOK, LocalTypeOK, UploadStep, LoadSession, ResolveStreams,
         LockStream, ImportRows, UpdateStream, LockSession, Commit, LockTimeout, FailUpload,
         Resend, RollBackUpload, ForgetUpload, local
    <3>3. \A s \in streams' : advisory[s] = v =>
            stats'[s] = stats[s] /\ \A e \in Epochs : rows'[<<s, e>>] = rows[<<s, e>>]
      <4> SUFFICES ASSUME NEW s \in streams', advisory[s] = v
                   PROVE  /\ stats'[s] = stats[s]
                          /\ \A e \in Epochs : rows'[<<s, e>>] = rows[<<s, e>>]
        OBVIOUS
      <4>1. rowLock[s] # u
        BY <1>1, <2>2, <3>1 DEF OrderOf, IInv, TypeOK, DatabaseTypeOK
      <4> QED BY <1>1, <1>2, <4>1, CommitSpares
    <3> QED BY <1>1, <3>1, <3>2, <3>3, HeldKeeps
  <2> QED BY <2>1, <2>2
<1> QED
  BY <1>3, <1>4 DEF AggregateInv

\* A delete takes the streams with their rows or leaves both.
LEMMA DeletionKeepsAggregates ==
  ASSUME IInv, LockOrder, AggregateInv, NEW d \in Deletions,
         LoadForDelete(d) \/ DeletionStep(d) \/ FailDeletion(d)
  PROVE  AggregateInv'
<1>1. streams' = {} \/ UNCHANGED <<streams, stats, rows>>
  BY DEF DeletionStep, LoadForDelete, PluckStreams, LockStreamRow, DeleteChildren,
     DestroySession, BreakDeadlock, FailDeletion, RollBackDeletion, db
<1>2. UNCHANGED <<copy, inserted>>
  BY DEF DeletionStep, LoadForDelete, PluckStreams, LockStreamRow, DeleteChildren,
     DestroySession, BreakDeadlock, FailDeletion, RollBackDeletion, ForgetDeletion, local
<1>3. ASSUME NEW s \in streams' PROVE ColumnsMatch(s)'
  BY <1>1, ColumnsUntouched
<1>4. ASSUME NEW v \in Uploads PROVE HeldIsTrue(v)'
  <2>1. SameLocks(v) /\ OrderOf(v) /\ HeldIsTrue(v)
    BY DeletionsKeepLocks DEF LockOrder, AggregateInv
  <2> QED BY <1>1, <1>2, <2>1, HeldKeeps
<1> QED
  BY <1>3, <1>4 DEF AggregateInv

LEMMA NextKeepsAggregates == IInv /\ LockOrder /\ AggregateInv /\ [Next]_vars => AggregateInv'
<1> SUFFICES ASSUME IInv, LockOrder, AggregateInv, [Next]_vars PROVE AggregateInv'
  OBVIOUS
<1>1. ASSUME NEW u \in Uploads,
             LoadSession(u) \/ UploadStep(u) \/ FailUpload(u) \/ Resend(u)
      PROVE  AggregateInv'
  BY <1>1, UploadKeepsAggregates
<1>2. ASSUME NEW d \in Deletions,
             LoadForDelete(d) \/ DeletionStep(d) \/ FailDeletion(d)
      PROVE  AggregateInv'
  BY <1>2, DeletionKeepsAggregates
<1>3. CASE \E n \in Finishes : LoadForFinish(n) \/ FinishStep(n)
  <2>1. PICK n \in Finishes : LoadForFinish(n) \/ FinishStep(n)
    BY <1>3
  <2>2. n \in Requests /\ n \notin Uploads
    BY UploadAssumption DEF Requests
  <2>3. CASE LoadForFinish(n)
    <3>1. GoTo(n, "finishing") \/ GoTo(n, "answered")
      BY <2>3 DEF LoadForFinish, Respond
    <3>2. \A v \in Uploads : pc'[v] = pc[v]
      BY <2>2, <3>1 DEF GoTo, IInv, TypeOK, PhaseTypeOK, Requests
    <3>3. UNCHANGED <<streams, stats, rows, locks, local>>
      BY <2>3 DEF LoadForFinish, db
    <3>4. ASSUME NEW v \in Uploads PROVE HeldIsTrue(v)'
      BY <3>2, <3>3, HeldKeeps DEF AggregateInv, LockOrder, SameLocks, locks, local
    <3>5. ASSUME NEW s \in streams' PROVE ColumnsMatch(s)'
      BY <3>3, ColumnsUntouched
    <3> QED BY <3>4, <3>5 DEF AggregateInv
  <2>4. CASE FinishStep(n)
    <3>1. PICK instant \in Epochs : Finish(n, instant)
      BY <2>4 DEF FinishStep
    <3>2. GoTo(n, "answered") /\ UNCHANGED <<streams, stats, rows, locks, local>>
      BY <3>1 DEF Finish, Respond
    <3>3. \A v \in Uploads : pc'[v] = pc[v]
      BY <2>2, <3>2 DEF GoTo, IInv, TypeOK, PhaseTypeOK, Requests
    <3>4. ASSUME NEW v \in Uploads PROVE HeldIsTrue(v)'
      BY <3>2, <3>3, HeldKeeps DEF AggregateInv, LockOrder, SameLocks, locks, local
    <3>5. ASSUME NEW s \in streams' PROVE ColumnsMatch(s)'
      BY <3>2, ColumnsUntouched
    <3> QED BY <3>4, <3>5 DEF AggregateInv
  <2> QED BY <2>1, <2>3, <2>4
<1>4. CASE UNCHANGED vars
  <2>1. UNCHANGED <<streams, stats, rows, pc, locks, local>>
    BY <1>4 DEF vars, db
  <2>2. ASSUME NEW v \in Uploads PROVE HeldIsTrue(v)'
    BY <2>1, HeldKeeps DEF AggregateInv, LockOrder, SameLocks, locks, local
  <2>3. ASSUME NEW s \in streams' PROVE ColumnsMatch(s)'
    BY <2>1, ColumnsUntouched
  <2> QED BY <2>2, <2>3 DEF AggregateInv
<1> QED
  BY <1>1, <1>2, <1>3, <1>4 DEF Next

\* Between commits the count, the average, the box and the start coordinates of a
\* stream are those of its rows: no batch is lost to a stale read-modify-write.
THEOREM AggregatesAreThoseOfTheRows == Spec => []AggregatesMatchRows
<1>1. Init => AggregateInv
  <2> SUFFICES ASSUME Init PROVE AggregateInv
    OBVIOUS
  <2>1. \A s \in streams : ColumnsMatch(s)
    BY DEF Init, NoRows, NothingHeld, ColumnsMatch, Recorded, Stored
  <2>2. \A u \in Uploads : HeldIsTrue(u)
    <3> TAKE u \in Uploads
    <3>1. u # Nobody /\ u \in Requests
      BY UploadAssumption DEF Requests
    <3> QED BY <3>1 DEF Init, HeldIsTrue
  <2> QED BY <2>1, <2>2 DEF AggregateInv
<1>2. IInv /\ AggregateInv => AggregatesMatchRows
  BY ColumnsAreAggregates DEF AggregateInv
<1> QED
  BY <1>1, <1>2, NextKeepsAggregates, Invariance, OrderInvariance, PTL DEF Spec

\* Neither the aggregates of a stream nor the bounds of the session ever differ from
\* those of the rows, however uploads interleave.
THEOREM SummariesAreThoseOfTheRows == Spec => []SummariesMatchRows
<1>1. AggregatesMatchRows /\ BoundsMatchRows => SummariesMatchRows
  BY DEF SummariesMatchRows
<1> QED
  BY <1>1, AggregatesAreThoseOfTheRows, BoundsAreThoseOfTheRows, PTL

-----------------------------------------------------------------------------
(* The abstract session. *)

\* A step that leaves the session's life and finish and the rows alone is
\* invisible.
LEMMA Invisible ==
  ASSUME rows' = rows, session'.live = session.live,
         session'.finishedAt = session.finishedAt
  PROVE  UNCHANGED Store!vars
BY DEF Store!vars

\* A commit stores what the upload inserted, all at once.
LEMMA CommitStores ==
  ASSUME IInv, NEW u \in Uploads, Commit(u)
  PROVE  [Store!Next]_Store!vars
<1>1. /\ \A f \in inserted[u] : f \in Stored /\ rows[f] = 0 /\ session.live
      /\ \A f \in Stored : rows'[f] > 0 <=> rows[f] > 0 \/ f \in inserted[u]
  BY CommitAddsInserted
<1>2. session'.live = session.live /\ session'.finishedAt = session.finishedAt
  BY DEF Commit, IInv, TypeOK, DatabaseTypeOK
<1>3. {f \in Stored : rows'[f] > 0} = {f \in Stored : rows[f] > 0} \cup inserted[u]
  BY <1>1
<1>4. CASE inserted[u] = {}
  <2>1. {f \in Stored : rows'[f] > 0} = {f \in Stored : rows[f] > 0}
    BY <1>3, <1>4
  <2> QED BY <1>2, <2>1 DEF Store!vars
<1>5. CASE inserted[u] # {}
  <2>1. session.live /\ inserted[u] \in SUBSET Stored
    BY <1>1, <1>5
  <2>2. inserted[u] \cap {f \in Stored : rows[f] > 0} = {}
    BY <1>1
  <2>3. PICK F \in SUBSET Stored : F = inserted[u]
    BY <2>1
  <2>4. Store!StoreFrames(F)
    BY <1>2, <1>3, <1>5, <2>1, <2>2, <2>3 DEF Store!StoreFrames
  <2> QED BY <2>4 DEF Store!Next
<1> QED
  BY <1>4, <1>5

\* The delete that finds the session takes every row; a later one finds nothing.
LEMMA DestroyDeletes ==
  ASSUME IInv, NEW d \in Deletions, DestroySession(d)
  PROVE  [Store!Next]_Store!vars
<1>1. doomed[d] = rows
  BY DEF DestroySession, IInv, LockDiscipline, DeletionHolds
<1>2. \A f \in Stored : rows'[f] = 0
  BY <1>1 DEF DestroySession, IInv, TypeOK, DatabaseTypeOK
<1>3. session'.live = FALSE /\ session'.finishedAt = session.finishedAt
  BY DEF DestroySession, IInv, TypeOK, DatabaseTypeOK
<1>4. {f \in Stored : rows'[f] > 0} = {}
  BY <1>2
<1>5. CASE session.live
  <2>1. Store!Delete
    BY <1>3, <1>4, <1>5 DEF Store!Delete
  <2> QED BY <2>1 DEF Store!Next
<1>6. CASE ~ session.live
  <2>1. \A f \in Stored : rows[f] = 0
    BY <1>6 DEF IInv, LockDiscipline, StreamsGoWithSession, NoOrphanRows
  <2>2. {f \in Stored : rows[f] > 0} = {}
    BY <2>1
  <2>3. session.live = FALSE
    BY <1>6 DEF IInv, TypeOK, DatabaseTypeOK
  <2> QED BY <1>3, <1>4, <2>2, <2>3 DEF Store!vars
<1> QED
  BY <1>5, <1>6

\* The first finish is the session's; another changes nothing.
LEMMA FinishFinishes ==
  ASSUME IInv, NEW n \in Finishes, NEW instant \in Epochs, Finish(n, instant)
  PROVE  [Store!Next]_Store!vars
<1>1. rows' = rows
  BY DEF Finish
<1>2. CASE session.live /\ session.finishedAt = Null
  <2>1. session' = [session EXCEPT !.finishedAt = instant, !.version = @ + 1]
    BY <1>2 DEF Finish
  <2>2. session'.live = session.live /\ session'.finishedAt = instant
    BY <2>1 DEF IInv, TypeOK, DatabaseTypeOK
  <2>3. Store!FinishAt(instant)
    BY <1>1, <1>2, <2>2 DEF Store!FinishAt
  <2> QED BY <2>3 DEF Store!Next
<1>3. CASE ~ (session.live /\ session.finishedAt = Null)
  <2>1. session' = session
    BY <1>3 DEF Finish
  <2> QED BY <1>1, <2>1, Invisible
<1> QED
  BY <1>2, <1>3

LEMMA StepsImplementStore == IInv /\ [Next]_vars => [Store!Next]_Store!vars
<1> SUFFICES ASSUME IInv, [Next]_vars PROVE [Store!Next]_Store!vars
  OBVIOUS
<1>1. ASSUME NEW u \in Uploads,
             LoadSession(u) \/ UploadStep(u) \/ FailUpload(u) \/ Resend(u)
      PROVE  [Store!Next]_Store!vars
  <2>1. CASE ~ Commit(u)
    <3>1. UNCHANGED <<session, rows>>
      BY <1>1, <2>1
      DEF UploadStep, LoadSession, ResolveStreams, LockStream, ImportRows, UpdateStream,
          LockSession, LockTimeout, FailUpload, Resend, RollBackUpload, db
    <3> QED BY <3>1, Invisible
  <2> QED BY <2>1, CommitStores
<1>2. ASSUME NEW d \in Deletions,
             LoadForDelete(d) \/ DeletionStep(d) \/ FailDeletion(d)
      PROVE  [Store!Next]_Store!vars
  <2>1. CASE ~ DestroySession(d)
    <3>1. UNCHANGED <<session, rows>>
      BY <1>2, <2>1
      DEF DeletionStep, LoadForDelete, PluckStreams, LockStreamRow, DeleteChildren,
          BreakDeadlock, FailDeletion, RollBackDeletion, db
    <3> QED BY <3>1, Invisible
  <2> QED BY <2>1, DestroyDeletes
<1>3. ASSUME NEW n \in Finishes, LoadForFinish(n) \/ FinishStep(n)
      PROVE  [Store!Next]_Store!vars
  <2>1. CASE LoadForFinish(n)
    BY <2>1, Invisible DEF LoadForFinish, db
  <2> QED BY <1>3, <2>1, FinishFinishes DEF FinishStep
<1>4. CASE UNCHANGED vars
  BY <1>4, Invisible DEF vars, db
<1> QED
  BY <1>1, <1>2, <1>3, <1>4 DEF Next

\* Behind all the interleavings, locks and failures there is a session whose frames
\* are stored, and which is finished and deleted, in atomic steps.
THEOREM SessionIsAtomic == Spec => ImplementsStoredSession
<1>1. Init => Store!Init
  <2> SUFFICES ASSUME Init PROVE Store!Init
    OBVIOUS
  <2>1. {f \in Stored : rows[f] > 0} = {}
    BY DEF Init, NoRows
  <2>2. session.live = TRUE /\ session.finishedAt = Null
    BY DEF Init
  <2> QED BY <2>1, <2>2 DEF Store!Init
<1> QED
  BY <1>1, StepsImplementStore, Invariance, PTL DEF Spec, ImplementsStoredSession, Store!Spec

-----------------------------------------------------------------------------
(* What a 200 promises, in a zone whose clock does not fall back. *)

WallIsInjective == \A d, e \in Epochs : Wall[d] = Wall[e] => d = e

\* The frames of its payload that upload u knows to be in the database.
Safe(u, f) == rows[f] > 0 \/ f \in inserted[u]

\* Where the kept frames of a payload are, while their session exists: in streams
\* still to be visited, in the upload's transaction, or stored.
Owed(u) ==
  /\ finishSeen[u] # Null => session.finishedAt = finishSeen[u]
  /\ pc[u] \in {"bounding", "committing"} => todo[u] = {}
  /\ session.live /\ InTransaction(u) =>
       \A f \in Kept(u) : f \in Stored /\ (f[1] \in todo[u] \/ Safe(u, f))
  /\ session.live /\ pc[u] = "imported" =>
       \A f \in Kept(u) : f[1] = Current(u) => Safe(u, f)
  /\ session.live /\ pc[u] = "answered" /\ answer[u] = "ok" =>
       \A f \in Kept(u) : f \in Stored /\ rows[f] > 0

\* What is owed to a client covers what it was promised.
LEMMA OwedIsPromised ==
  ASSUME IInv, NEW u \in Uploads, Owed(u),
         pc[u] = "answered", answer[u] = "ok", session.live,
         NEW f \in payload[u], session.finishedAt = Null \/ f[2] <= session.finishedAt
  PROVE  f \in Stored /\ rows[f] > 0
<1>1. f \in Kept(u)
  BY DEF Owed, Kept
<1> QED
  BY <1>1 DEF Owed

\* While the session exists its rows stay, and its finish is final.
LEMMA RowsStay ==
  ASSUME IInv, [Next]_vars
  PROVE  /\ session.finishedAt # Null => session'.finishedAt = session.finishedAt
         /\ session'.live => /\ session.live
                             /\ \A f \in Stored : rows[f] > 0 => rows'[f] > 0
<1>1. [Store!Next]_Store!vars
  BY StepsImplementStore
<1>2. \/ UNCHANGED Store!vars
      \/ \E F \in SUBSET Stored : Store!StoreFrames(F)
      \/ \E instant \in Epochs : Store!FinishAt(instant)
      \/ Store!Delete
  BY <1>1 DEF Store!Next
<1> QED
  BY <1>2 DEF Store!vars, Store!StoreFrames, Store!FinishAt, Store!Delete

\* A request that does not move is owed what it was owed.
LEMMA OwedKeeps ==
  ASSUME IInv, [Next]_vars, NEW v \in Uploads, Owed(v),
         pc'[v] = pc[v], answer'[v] = answer[v], payload'[v] = payload[v],
         finishSeen'[v] = finishSeen[v], todo'[v] = todo[v], inserted'[v] = inserted[v]
  PROVE  Owed(v)'
<1>1. Kept(v)' = Kept(v) /\ Current(v)' = Current(v) /\ InTransaction(v)' = InTransaction(v)
  BY DEF Kept, Current, InTransaction
<1>2. session.finishedAt # Null => session'.finishedAt = session.finishedAt
  BY RowsStay
<1>3. session'.live => session.live /\ \A f \in Stored : rows[f] > 0 => rows'[f] > 0
  BY RowsStay
<1>4. InTransaction(v) /\ session'.live =>
        \A f \in Kept(v) : f \in Stored /\ (f[1] \in todo[v] \/ Safe(v, f)')
  BY <1>3 DEF Owed, Safe
<1>5. pc[v] = "imported" /\ session'.live =>
        \A f \in Kept(v) : f[1] = Current(v) => Safe(v, f)'
  <2> SUFFICES ASSUME pc[v] = "imported", session'.live, NEW f \in Kept(v), f[1] = Current(v)
               PROVE  Safe(v, f)'
    OBVIOUS
  <2>1. Safe(v, f) /\ f \in Stored
    BY <1>3 DEF Owed, InTransaction
  <2> QED BY <1>3, <2>1 DEF Safe
<1> QED
  BY <1>1, <1>2, <1>3, <1>4, <1>5 DEF Owed

\* An import leaves no kept frame of the current stream behind.
LEMMA ImportIsComplete ==
  ASSUME IInv, WallIsInjective, NEW u \in Uploads, ImportRows(u),
         NEW f \in Kept(u), f \in Stored, f[1] = Current(u)
  PROVE  Safe(u, f)'
<1>1. inserted'[u] = inserted[u] \cup Absent(u) /\ rows' = rows
  BY DEF ImportRows, db, IInv, TypeOK, LocalTypeOK
<1>2. CASE f \in Absent(u)
  BY <1>1, <1>2 DEF Safe
<1>3. CASE f \notin Absent(u)
  <2>1. PICK g \in Stored : g[1] = f[1] /\ rows[g] > 0 /\ Wall[g[2]] = Wall[f[2]]
    BY <1>3 DEF Absent
  <2>2. g[2] = f[2]
    BY <2>1 DEF WallIsInjective, Stored
  <2>3. g = f
    BY <2>1, <2>2 DEF Stored
  <2> QED BY <1>1, <2>1, <2>3 DEF Safe
<1> QED
  BY <1>2, <1>3

\* Passing on to the next stream, when the current one's frames are safe.
LEMMA PassingOn ==
  ASSUME IInv, NEW u \in Uploads, todo[u] # {}, AfterStream(u),
         rows' = rows, session' = session, inserted[u] \subseteq inserted'[u],
         UNCHANGED <<payload, finishSeen>>, Owed(u), InTransaction(u),
         session.live => \A f \in Kept(u) : f[1] = Current(u) => Safe(u, f)'
  PROVE  Owed(u)'
<1>1. todo'[u] = todo[u] \ {Current(u)} /\ pc'[u] \in {"locking", "bounding"}
  BY NextStream DEF IInv, AfterStream, TypeOK, LocalTypeOK
<1>2. pc'[u] = "bounding" => todo'[u] = {}
  <2>1. u \in Requests
    BY DEF Requests
  <2> QED BY <1>1, <2>1 DEF AfterStream, GoTo, IInv, TypeOK, PhaseTypeOK
<1>3. Kept(u)' = Kept(u)
  BY DEF Kept
<1>4. session.live => \A f \in Kept(u) : f \in Stored /\ (f[1] \in todo'[u] \/ Safe(u, f)')
  <2> SUFFICES ASSUME session.live, NEW f \in Kept(u)
               PROVE  f \in Stored /\ (f[1] \in todo'[u] \/ Safe(u, f)')
    OBVIOUS
  <2>1. f \in Stored /\ (f[1] \in todo[u] \/ Safe(u, f))
    BY DEF Owed
  <2>2. Safe(u, f) => Safe(u, f)'
    BY DEF Safe
  <2> QED BY <1>1, <2>1, <2>2
<1> QED
  BY <1>1, <1>2, <1>3, <1>4 DEF Owed

\* An upload's own steps keep what it owes.
LEMMA OwnOwed ==
  ASSUME IInv, [Next]_vars, WallIsInjective, NEW u \in Uploads, Owed(u),
         LoadSession(u) \/ UploadStep(u) \/ FailUpload(u) \/ Resend(u)
  PROVE  Owed(u)'
<1> USE UploadAssumption DEF IInv
<1>0. u \in Requests /\ streams \subseteq Streams /\ payload' = payload
  BY DEF Requests, TypeOK, DatabaseTypeOK, UploadStep, LoadSession, ResolveStreams,
     LockStream, ImportRows, UpdateStream, LockSession, Commit, LockTimeout, FailUpload,
     Resend, RollBackUpload, ForgetUpload, local
<1>1. ASSUME NEW what \in Answers \ {"ok"}, RollBackUpload(u, what) PROVE Owed(u)'
  <2>1. pc'[u] = "answered" /\ answer'[u] = what
    BY <1>0, <1>1 DEF RollBackUpload, Respond, GoTo, TypeOK, PhaseTypeOK
  <2>2. session' = session /\ finishSeen' = finishSeen
    BY <1>1 DEF RollBackUpload, ForgetUpload, db
  <2> QED BY <2>1, <2>2 DEF Owed, InTransaction
<1>2. CASE LoadSession(u)
  <2>1. /\ pc'[u] = "loaded" \/ (pc'[u] = "answered" /\ answer'[u] = "not_found")
        /\ finishSeen'[u] \in {finishSeen[u], session.finishedAt} /\ session' = session
    BY <1>0, <1>2 DEF LoadSession, Respond, GoTo, db, TypeOK, PhaseTypeOK, LocalTypeOK
  <2> QED BY <2>1 DEF Owed, InTransaction
<1>3. CASE Resend(u)
  <2>1. pc'[u] = "idle" /\ session' = session /\ finishSeen' = finishSeen
    BY <1>0, <1>3 DEF Resend, GoTo, db, local, TypeOK, PhaseTypeOK
  <2> QED BY <2>1 DEF Owed, InTransaction
<1>4. CASE ResolveStreams(u)
  <2> DEFINE types == {f[1] : f \in Kept(u)}
  <2>1. session' = session /\ finishSeen' = finishSeen
    BY <1>4 DEF ResolveStreams, db
  <2>2. Kept(u)' = Kept(u)
    BY <1>0, <2>1 DEF Kept
  <2>3. CASE types = {} /\ Respond(u, "ok")
    <3>1. pc'[u] = "answered" /\ Kept(u) = {}
      BY <1>0, <2>3 DEF Respond, GoTo, TypeOK, PhaseTypeOK
    <3> QED BY <2>1, <2>2, <3>1 DEF Owed, InTransaction
  <2>4. CASE Respond(u, "unsupported")
    <3>1. pc'[u] = "answered" /\ answer'[u] = "unsupported"
      BY <1>0, <2>4 DEF Respond, GoTo, TypeOK, PhaseTypeOK
    <3> QED BY <2>1, <3>1 DEF Owed, InTransaction
  <2>5. CASE /\ types \subseteq streams /\ GoTo(u, "locking")
             /\ todo' = [todo EXCEPT ![u] = types]
    <3>1. pc'[u] = "locking" /\ todo'[u] = types
      BY <1>0, <2>5 DEF GoTo, TypeOK, PhaseTypeOK, LocalTypeOK
    <3>2. \A f \in Kept(u) : f \in Stored /\ f[1] \in types
      <4> TAKE f \in Kept(u)
      <4>1. f[1] \in Streams /\ f \in SensorTypes \X Epochs
        BY <1>0, <2>5 DEF Kept, TypeOK, LocalTypeOK
      <4> QED BY <4>1 DEF Stored
    <3> HIDE DEF types
    <3> QED BY <2>1, <2>2, <3>1, <3>2 DEF Owed, InTransaction
  <2> QED BY <1>4, <2>3, <2>4, <2>5 DEF ResolveStreams
<1>5. CASE LockStream(u) /\ Current(u) \in streams
  <2>1. pc[u] = "locking" /\ pc'[u] = "reloaded"
    BY <1>0, <1>5 DEF LockStream, RollBackUpload, GoTo, TypeOK, PhaseTypeOK
  <2>2. UNCHANGED <<session, rows, finishSeen, todo, inserted>>
    BY <1>5 DEF LockStream, RollBackUpload, db
  <2>3. Kept(u)' = Kept(u) /\ \A f : Safe(u, f)' = Safe(u, f)
    BY <1>0, <2>2 DEF Kept, Safe
  <2> QED BY <2>1, <2>2, <2>3 DEF Owed, InTransaction
<1>6. CASE ImportRows(u)
  <2>1. todo[u] # {} /\ InTransaction(u) /\ UNCHANGED <<session, rows, finishSeen>>
    BY <1>6
    DEF ImportRows, LockDiscipline, CurrentIsLocked, InTransaction, db
  <2>2. inserted[u] \subseteq inserted'[u]
    BY <1>6 DEF ImportRows, TypeOK, LocalTypeOK
  <2>3. session.live => \A f \in Kept(u) : f[1] = Current(u) => Safe(u, f)'
    BY <1>6, <2>1, ImportIsComplete DEF Owed
  <2>4. CASE AfterStream(u)
    BY <1>0, <2>1, <2>2, <2>3, <2>4, PassingOn
  <2>5. CASE GoTo(u, "imported") /\ todo' = todo
    <3>1. pc'[u] = "imported"
      BY <1>0, <2>5 DEF GoTo, TypeOK, PhaseTypeOK
    <3>2. Kept(u)' = Kept(u) /\ Current(u)' = Current(u)
      BY <1>0, <2>1, <2>5 DEF Kept, Current
    <3>3. \A f : Safe(u, f) => Safe(u, f)'
      BY <2>1, <2>2 DEF Safe
    <3> QED BY <2>1, <2>3, <2>5, <3>1, <3>2, <3>3 DEF Owed, InTransaction
  <2> QED BY <1>6, <2>4, <2>5 DEF ImportRows
<1>7. CASE UpdateStream(u)
  <2>1. /\ todo[u] # {} /\ InTransaction(u) /\ AfterStream(u) /\ pc[u] = "imported"
        /\ UNCHANGED <<session, rows, finishSeen, inserted>>
    BY <1>7
    DEF UpdateStream, LockDiscipline, CurrentIsLocked, InTransaction, db
  <2>2. session.live => \A f \in Kept(u) : f[1] = Current(u) => Safe(u, f)'
    BY <2>1 DEF Owed, Safe
  <2> QED BY <1>0, <2>1, <2>2, PassingOn
<1>8. CASE LockSession(u) /\ (inserted[u] = {} \/ session.live)
  <2>1. pc[u] = "bounding" /\ pc'[u] = "committing"
    BY <1>0, <1>8 DEF LockSession, GoTo, TypeOK, PhaseTypeOK
  <2>2. UNCHANGED <<session, rows, finishSeen, todo, inserted>>
    BY <1>8 DEF LockSession, db, local
  <2>3. Kept(u)' = Kept(u) /\ \A f : Safe(u, f)' = Safe(u, f)
    BY <1>0, <2>2 DEF Kept, Safe
  <2> QED BY <2>1, <2>2, <2>3 DEF Owed, InTransaction
<1>9. CASE Commit(u)
  <2>1. pc[u] = "committing" /\ pc'[u] = "answered" /\ finishSeen' = finishSeen
    BY <1>0, <1>9 DEF Commit, Respond, GoTo, ForgetUpload, TypeOK, PhaseTypeOK
  <2>2. session'.live = session.live /\ session'.finishedAt = session.finishedAt
    BY <1>9 DEF Commit, TypeOK, DatabaseTypeOK
  <2>3. \A f \in Stored : rows'[f] > 0 <=> Safe(u, f)
    BY <1>9, CommitAddsInserted DEF Safe
  <2>4. Kept(u)' = Kept(u)
    BY <1>0, <2>1 DEF Kept
  <2>5. session.live => \A f \in Kept(u) : f \in Stored /\ rows'[f] > 0
    BY <2>1, <2>3 DEF Owed, InTransaction
  <2> QED BY <2>1, <2>2, <2>4, <2>5 DEF Owed, InTransaction
<1> QED
  BY <1>1, <1>2, <1>3, <1>4, <1>5, <1>6, <1>7, <1>8, <1>9
  DEF UploadStep, LockStream, LockSession, LockTimeout, FailUpload, Answers

\* A step of another request does not move an upload.
LEMMA OthersOwed ==
  ASSUME IInv, [Next]_vars, NEW v \in Uploads, Owed(v),
         ~ (LoadSession(v) \/ UploadStep(v) \/ FailUpload(v) \/ Resend(v))
  PROVE  Owed(v)'
<1> USE UploadAssumption DEF IInv
<1>0. v \in Requests
  BY DEF Requests
<1>1. ASSUME NEW u \in Uploads \ {v},
             LoadSession(u) \/ UploadStep(u) \/ FailUpload(u) \/ Resend(u)
      PROVE  Owed(v)'
  <2>1. SameLocks(v)
    BY <1>1, OthersOrder
  <2>2. answer'[v] = answer[v]
    BY <1>0, <1>1
    DEF TypeOK, PhaseTypeOK, UploadStep, LoadSession, ResolveStreams, LockStream,
        ImportRows, UpdateStream, LockSession, Commit, LockTimeout, FailUpload, Resend,
        RollBackUpload, Respond
  <2>3. payload' = payload /\ finishSeen'[v] = finishSeen[v] /\ inserted'[v] = inserted[v]
    BY <1>1
    DEF TypeOK, LocalTypeOK, UploadStep, LoadSession, ResolveStreams, LockStream,
        ImportRows, UpdateStream, LockSession, Commit, LockTimeout, FailUpload, Resend,
        RollBackUpload, ForgetUpload, local
  <2> QED BY <2>1, <2>2, <2>3, OwedKeeps DEF SameLocks
<1>2. ASSUME NEW d \in Deletions,
             LoadForDelete(d) \/ DeletionStep(d) \/ FailDeletion(d)
      PROVE  Owed(v)'
  <2>1. SameLocks(v)
    BY <1>2, DeletionsKeepLocks
  <2>2. v # d /\ answer'[v] = answer[v]
    BY <1>0, <1>2
    DEF TypeOK, PhaseTypeOK, DeletionStep, LoadForDelete, PluckStreams, LockStreamRow,
        DeleteChildren, DestroySession, BreakDeadlock, FailDeletion, RollBackDeletion,
        Respond
  <2>3. UNCHANGED <<payload, finishSeen, inserted>>
    BY <1>2
    DEF DeletionStep, LoadForDelete, PluckStreams, LockStreamRow, DeleteChildren,
        DestroySession, BreakDeadlock, FailDeletion, RollBackDeletion, ForgetDeletion,
        local
  <2> QED BY <2>1, <2>2, <2>3, OwedKeeps DEF SameLocks
<1>3. ASSUME NEW n \in Finishes, LoadForFinish(n) \/ FinishStep(n)
      PROVE  Owed(v)'
  <2>1. v # n /\ v \in Requests
    BY <1>0
  <2>2. CASE LoadForFinish(n)
    <3>1. /\ GoTo(n, "finishing") \/ GoTo(n, "answered")
          /\ answer' = answer \/ answer' = [answer EXCEPT ![n] = "not_found"]
          /\ UNCHANGED local
      BY <2>2 DEF LoadForFinish, Respond
    <3>2. pc'[v] = pc[v] /\ answer'[v] = answer[v]
      BY <2>1, <3>1 DEF GoTo, TypeOK, PhaseTypeOK
    <3> QED BY <3>1, <3>2, OwedKeeps DEF local
  <2>3. ASSUME NEW instant \in Epochs, Finish(n, instant) PROVE Owed(v)'
    <3>1. \E what : Respond(n, what)
      BY <2>3 DEF Finish
    <3>2. pc'[v] = pc[v] /\ answer'[v] = answer[v]
      BY <2>1, <3>1 DEF Respond, GoTo, TypeOK, PhaseTypeOK
    <3>3. UNCHANGED local
      BY <2>3 DEF Finish
    <3> QED BY <3>2, <3>3, OwedKeeps DEF local
  <2> QED BY <1>3, <2>2, <2>3 DEF FinishStep
<1>4. CASE UNCHANGED vars
  BY <1>4, OwedKeeps DEF vars, local
<1> QED
  BY <1>1, <1>2, <1>3, <1>4 DEF Next

\* A device that trims its buffer on a 200 loses no frame recorded up to the finish,
\* in a zone whose clock never reads the same twice.  Where it does, a frame of the
\* repeated hour passes for one that is stored, and the property fails.
THEOREM AcknowledgedIsKept ==
  ASSUME WallIsInjective
  PROVE  Spec => []AckedFramesAreStored
<1> DEFINE AllOwed == \A u \in Uploads : Owed(u)
<1>1. Init => AllOwed
  <2> SUFFICES ASSUME Init, NEW u \in Uploads PROVE Owed(u)
    OBVIOUS
  <2>1. u \in Requests
    BY DEF Requests
  <2> QED BY <2>1 DEF Init, Owed, InTransaction
<1>2. IInv /\ AllOwed /\ [Next]_vars => AllOwed'
  BY OwnOwed, OthersOwed
<1>3. IInv /\ AllOwed => AckedFramesAreStored
  BY OwedIsPromised DEF AckedFramesAreStored
<1> HIDE DEF AllOwed
<1> QED
  BY <1>1, <1>2, <1>3, Invariance, PTL DEF Spec
=============================================================================
