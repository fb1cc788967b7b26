----------------------- MODULE SessionCreationProofs -----------------------
(***************************************************************************)
(* What is proved of SessionCreation for any number of creations of any    *)
(* kinds, any users, uuids, devices and recordings.                        *)
(***************************************************************************)
EXTENDS SessionCreation, FiniteSetTheorems, TLAPS

\* Two creations that name the same session: same owner, uuid and type.
Alike(r, s) ==
  sent[s].user = sent[r].user /\ UuidOf(s) = UuidOf(r) /\ TypeOf(s) = TypeOf(r)

\* They may be given the same session.
Fits(r, s) ==
  /\ Alike(r, s)
  /\ IsV3(s) <=> IsV3(r)
  /\ sent[s].mac = sent[r].mac
  /\ IsLegacy(r) => sent[s].recording = sent[r].recording

\* A committed sessions row stands under the uuid of its creator.
RowsAreCommitted ==
  \A u \in UuidNames : row[u] # Nobody => row[u] \in committed /\ UuidOf(row[u]) = u

\* What a request has found, been given and been told.
Honest(r) ==
  /\ pc[r] \in {"finding", "checking", "saving"} => IsV3(r)
  /\ answer[r] # "none" => pc[r] = "answered"
  /\ answer[r] = "created" \/ pc[r] = "queueing" => given[r] # Nobody
  /\ given[r] # Nobody => given[r] \in committed /\ Fits(r, given[r])
  /\ found[r] # Nobody => found[r] \in committed /\ Alike(r, found[r])
  /\ pc[r] = "comparing" => found[r] # Nobody

\* What has become of the session a request creates, and of its measurements.
Accounted(s) ==
  /\ s \in committed => pc[s] \in {"queueing", "answered", "dead"}
  /\ pc[s] = "queueing" => s \in committed /\ IsLegacy(s) /\ jobs[s] = 0
  /\ jobs[s] <= 1
  /\ jobs[s] > 0 => IsLegacy(s) /\ s \in committed
  /\ s \in committed /\ IsLegacy(s) => jobs[s] = 1 \/ pc[s] \in {"queueing", "dead"}

\* The inductive invariant. A request may be given only what it has found, and it
\* finds only committed rows: so what it is given was committed, and fits.
IInv ==
  /\ TypeOK
  /\ RowsAreCommitted
  /\ \A r \in Requests : Honest(r) /\ Accounted(r)

-----------------------------------------------------------------------------
(* The operators of the model. *)

\* A request is of one of the two shapes of creations.
LEMMA Shape ==
  ASSUME TypeOK, NEW r \in Requests
  PROVE  /\ UuidOf(r) \in UuidNames
         /\ IsV3(r) => DeviceOf(r) \in Devices /\ LabelOf(r) \in LabelNames
         /\ LabelOf(r) \in Labels
         /\ IsLegacy(r) => sent[r].mac = None
BY DEF TypeOK, Creations, UuidOf, DeviceOf, LabelOf, Devices, Labels, IsV3, IsLegacy, V3

\* The variables a step of request r leaves alone, for the others.
Untouched(r) ==
  \A v \in Requests \ {r} :
    /\ pc'[v] = pc[v] /\ answer'[v] = answer[v] /\ given'[v] = given[v]
    /\ found'[v] = found[v] /\ jobs'[v] = jobs[v]

\* Whichever way a transaction ends, its rows are nobody's.
LEMMA ReleaseType ==
  ASSUME TypeOK, NEW r \in Requests, Release(r)
  PROVE  /\ rowHolder' \in [UuidNames -> Requests \cup {Nobody}]
         /\ deviceHolder' \in [Devices -> Requests \cup {Nobody}]
BY DEF TypeOK, Release

\* A refusal in the vocabulary of the endpoint keeps every variable's type.
LEMMA RefuseType ==
  ASSUME TypeOK, NEW r \in Requests, NEW what, Refuse(r, what),
         what \in (IF IsV3(r) THEN V3Answers ELSE LegacyAnswers)
  PROVE  TypeOK'
<1>1. sent' = sent /\ answer' = [answer EXCEPT ![r] = what] /\ pc' = [pc EXCEPT ![r] = "answered"]
  BY DEF Refuse, Respond, GoTo
<1>2. \A v \in Requests : answer'[v] \in (IF IsV3(v)' THEN V3Answers ELSE LegacyAnswers)
  BY <1>1 DEF TypeOK, IsV3
<1>3. answer' \in [Requests -> V3Answers \cup LegacyAnswers] /\ pc' \in [Requests -> Phases]
  BY <1>1 DEF TypeOK, Phases
<1>4. known' \in [Requests -> Labels] /\ found' \in [Requests -> Requests \cup {Nobody}]
  BY DEF TypeOK, Refuse, Forget, Labels
<1> QED
  BY <1>1, <1>2, <1>3, <1>4, ReleaseType DEF TypeOK, Refuse, db

\* The codes the actions refuse with are in those vocabularies.
LEMMA ErrorType ==
  ASSUME NEW r, NEW what \in V3Answers \ {"created", "none"}
  PROVE  /\ Error(r, what) \in (IF IsV3(r) THEN V3Answers ELSE LegacyAnswers)
         /\ Error(r, what) \notin {"created", "none"}
BY DEF Error, IsLegacy, V3Answers, LegacyAnswers

\* Losing the race keeps every variable's type.
LEMMA LoseRaceType ==
  ASSUME TypeOK, NEW r \in Requests, LoseRace(r)
  PROVE  TypeOK'
<1>1. sent' = sent /\ answer' = answer /\ pc' = [pc EXCEPT ![r] = "recovering"]
  BY DEF LoseRace, GoTo
<1>2. \A v \in Requests : answer'[v] \in (IF IsV3(v)' THEN V3Answers ELSE LegacyAnswers)
  BY <1>1 DEF TypeOK, IsV3
<1>3. pc' \in [Requests -> Phases]
  BY <1>1 DEF TypeOK, Phases
<1>4. known' \in [Requests -> Labels] /\ found' \in [Requests -> Requests \cup {Nobody}]
  BY DEF TypeOK, LoseRace, Forget, Labels
<1> QED
  BY <1>1, <1>2, <1>3, <1>4, ReleaseType DEF TypeOK, LoseRace, db

-----------------------------------------------------------------------------
(* Every step keeps the types. *)

\* A step that neither answers nor changes what is sent keeps each endpoint to its
\* vocabulary.
LEMMA VocabularyKept ==
  ASSUME TypeOK, sent' = sent, answer' = answer
  PROVE  \A v \in Requests : answer'[v] \in (IF IsV3(v)' THEN V3Answers ELSE LegacyAnswers)
BY DEF TypeOK, IsV3

\* And so does one that answers "created".
LEMMA VocabularyOfCreated ==
  ASSUME TypeOK, sent' = sent, NEW r \in Requests, answer' = [answer EXCEPT ![r] = "created"]
  PROVE  /\ \A v \in Requests : answer'[v] \in (IF IsV3(v)' THEN V3Answers ELSE LegacyAnswers)
         /\ answer' \in [Requests -> V3Answers \cup LegacyAnswers]
BY DEF TypeOK, IsV3, V3Answers, LegacyAnswers

\* The types are kept by every step: a device is looked up by v3 requests only,
\* which name one.
LEMMA TypeStep ==
  ASSUME IInv, [Next]_vars
  PROVE  TypeOK'
<1>0. TypeOK /\ \A r \in Requests : Honest(r) /\ Accounted(r)
  BY DEF IInv
<1> SUFFICES ASSUME Next PROVE TypeOK'
  BY <1>0 DEF vars, db, holders, TypeOK, IsV3
<1>1. ASSUME NEW r \in Requests, Begin(r) PROVE TypeOK'
  BY <1>0, <1>1, VocabularyKept DEF Begin, TypeOK, GoTo, Phases, db, holders
<1>2. ASSUME NEW r \in Requests, FindDevice(r) PROVE TypeOK'
  <2>1. DeviceOf(r) \in Devices
    BY <1>0, <1>2, Shape DEF FindDevice, Honest
  <2>2. known' \in [Requests -> Labels]
    BY <1>0, <1>2, <2>1 DEF FindDevice, TypeOK
  <2> QED
    BY <1>0, <1>2, <2>2, VocabularyKept DEF FindDevice, TypeOK, GoTo, Phases, db, holders
<1>3. ASSUME NEW r \in Requests, CheckDevice(r) PROVE TypeOK'
  <2>1. IsV3(r)
    BY <1>0, <1>3 DEF CheckDevice, Honest
  <2>2. CASE Refuse(r, "internal_error")
    BY <1>0, <2>1, <2>2, RefuseType DEF V3Answers
  <2>3. CASE GoTo(r, "saving")
    BY <1>0, <1>3, <2>3, VocabularyKept
    DEF CheckDevice, Refuse, Respond, TypeOK, GoTo, Phases, db, holders
  <2> QED
    BY <1>3, <2>2, <2>3 DEF CheckDevice
<1>4. ASSUME NEW r \in Requests, SaveDevice(r) PROVE TypeOK'
  <2>1. DeviceOf(r) \in Devices
    BY <1>0, <1>4, Shape DEF SaveDevice, Honest
  <2>2. CASE LoseRace(r)
    BY <1>0, <2>2, LoseRaceType
  <2>3. CASE GoTo(r, "validating") /\ UNCHANGED holders
    BY <1>0, <1>4, <2>3, VocabularyKept
    DEF SaveDevice, LoseRace, TypeOK, GoTo, Phases, db, holders
  <2>4. CASE GoTo(r, "validating") /\ deviceHolder' = [deviceHolder EXCEPT ![DeviceOf(r)] = r]
    BY <1>0, <1>4, <2>1, <2>4, VocabularyKept
    DEF SaveDevice, LoseRace, TypeOK, GoTo, Phases, db, holders
  <2> QED
    BY <1>4, <2>2, <2>3, <2>4 DEF SaveDevice
<1>5. ASSUME NEW r \in Requests, ValidateUuid(r) PROVE TypeOK'
  <2>1. CASE Refuse(r, Error(r, "uuid_taken"))
    BY <1>0, <2>1, RefuseType, ErrorType DEF V3Answers
  <2>2. CASE GoTo(r, "inserting")
    BY <1>0, <1>5, <2>2, VocabularyKept
    DEF ValidateUuid, Refuse, Respond, TypeOK, GoTo, Phases, db, holders
  <2> QED
    BY <1>5, <2>1, <2>2 DEF ValidateUuid
<1>6. ASSUME NEW r \in Requests, InsertSession(r) PROVE TypeOK'
  <2>1. UuidOf(r) \in UuidNames
    BY <1>0, Shape
  <2>2. CASE LoseRace(r)
    BY <1>0, <2>2, LoseRaceType
  <2>3. CASE rowHolder' = [rowHolder EXCEPT ![UuidOf(r)] = r] /\ GoTo(r, "committing")
    BY <1>0, <1>6, <2>1, <2>3, VocabularyKept
    DEF InsertSession, LoseRace, TypeOK, GoTo, Phases, db, holders
  <2> QED
    BY <1>6, <2>2, <2>3 DEF InsertSession
<1>7. ASSUME NEW r \in Requests, RefuseStreams(r) PROVE TypeOK'
  BY <1>0, <1>7, RefuseType, ErrorType DEF RefuseStreams, V3Answers
<1>8. ASSUME NEW r \in Requests, Commit(r) PROVE TypeOK'
  <2>1. UuidOf(r) \in UuidNames /\ LabelOf(r) \in Labels
    BY <1>0, Shape
  <2>2. /\ row' \in [UuidNames -> Requests \cup {Nobody}]
        /\ device' \in [Devices -> Labels]
        /\ given' \in [Requests -> Requests \cup {Nobody}]
        /\ committed' \in SUBSET Requests
    BY <1>0, <1>8, <2>1 DEF Commit, TypeOK
  <2>3. known' \in [Requests -> Labels] /\ found' \in [Requests -> Requests \cup {Nobody}]
    BY <1>0, <1>8 DEF Commit, Forget, TypeOK, Labels
  <2>4. pc' \in [Requests -> Phases]
    BY <1>0, <1>8 DEF Commit, Respond, GoTo, TypeOK, Phases
  <2>5. /\ answer' \in [Requests -> V3Answers \cup LegacyAnswers]
        /\ \A v \in Requests : answer'[v] \in (IF IsV3(v)' THEN V3Answers ELSE LegacyAnswers)
    <3>1. sent' = sent
      BY <1>8 DEF Commit
    <3>2. CASE answer' = answer
      BY <1>0, <3>1, <3>2, VocabularyKept DEF TypeOK
    <3>3. CASE answer' = [answer EXCEPT ![r] = "created"]
      BY <1>0, <3>1, <3>3, VocabularyOfCreated
    <3> QED
      BY <1>8, <3>2, <3>3 DEF Commit, Respond
  <2> QED
    BY <1>0, <1>8, <2>2, <2>3, <2>4, <2>5, ReleaseType DEF Commit, TypeOK
<1>9. ASSUME NEW r \in Requests, QueueMeasurements(r) PROVE TypeOK'
  <2>1. jobs' \in [Requests -> Nat]
    BY <1>0, <1>9 DEF QueueMeasurements, TypeOK
  <2> QED
    BY <1>0, <1>9, <2>1, VocabularyOfCreated
    DEF QueueMeasurements, Respond, GoTo, TypeOK, Phases, db, holders
<1>10. ASSUME NEW r \in Requests, FindWinner(r) PROVE TypeOK'
  <2>1. CASE Refuse(r, Error(r, "internal_error"))
    BY <1>0, <2>1, RefuseType, ErrorType DEF V3Answers
  <2>2. CASE found' = [found EXCEPT ![r] = row[UuidOf(r)]] /\ GoTo(r, "comparing")
    <3>1. row[UuidOf(r)] \in Requests \cup {Nobody}
      BY <1>0, Shape DEF TypeOK
    <3> QED
      BY <1>0, <1>10, <2>2, <3>1, VocabularyKept
      DEF FindWinner, Refuse, Respond, TypeOK, GoTo, Phases, db, holders
  <2> QED
    BY <1>10, <2>1, <2>2 DEF FindWinner
<1>11. ASSUME NEW r \in Requests, Recover(r) PROVE TypeOK'
  <2>1. CASE Refuse(r, Error(r, "internal_error"))
    BY <1>0, <2>1, RefuseType, ErrorType DEF V3Answers
  <2>2. CASE Respond(r, "created") /\ given' = [given EXCEPT ![r] = found[r]] /\ Forget(r)
             /\ UNCHANGED <<sent, db, holders, jobs, deletes, wasFree, committed>>
    <3>1. given' \in [Requests -> Requests \cup {Nobody}]
      BY <1>0, <2>2 DEF TypeOK
    <3>2. known' \in [Requests -> Labels] /\ found' \in [Requests -> Requests \cup {Nobody}]
      BY <1>0, <2>2 DEF Forget, TypeOK, Labels
    <3> QED
      BY <1>0, <2>2, <3>1, <3>2, VocabularyOfCreated
      DEF Respond, GoTo, TypeOK, Phases, db, holders
  <2> QED
    BY <1>11, <2>1, <2>2 DEF Recover
<1>12. ASSUME NEW r \in Requests, LockTimeout(r) PROVE TypeOK'
  BY <1>0, <1>12, RefuseType, ErrorType DEF LockTimeout, V3Answers
<1>13. ASSUME NEW r \in Requests, Crash(r) PROVE TypeOK'
  <2>1. known' \in [Requests -> Labels] /\ found' \in [Requests -> Requests \cup {Nobody}]
    BY <1>0, <1>13 DEF Crash, Forget, TypeOK, Labels
  <2> QED
    BY <1>0, <1>13, <2>1, ReleaseType, VocabularyKept DEF Crash, GoTo, TypeOK, Phases, db
<1>14. ASSUME NEW u \in UuidNames, Delete(u) PROVE TypeOK'
  <2>1. row' \in [UuidNames -> Requests \cup {Nobody}] /\ deletes' \in 0..MaxDeletes
    BY <1>0, <1>14, CreationAssumption DEF Delete, TypeOK
  <2> QED
    BY <1>0, <1>14, <2>1, VocabularyKept DEF Delete, TypeOK, holders
<1> QED
  BY <1>1, <1>2, <1>3, <1>4, <1>5, <1>6, <1>7, <1>8, <1>9, <1>10, <1>11, <1>12, <1>13, <1>14
  DEF Next, Step

-----------------------------------------------------------------------------
(* What a step of one request does to the others. *)

\* A step leaves what is sent alone, and every other request where it is.
LEMMA Frame ==
  ASSUME TypeOK, NEW r \in Requests, Step(r)
  PROVE  /\ Untouched(r)
         /\ sent' = sent
         /\ committed \subseteq committed'
         /\ committed' \subseteq committed \cup {r}
<1>1. ASSUME NEW what, Refuse(r, what)
      PROVE  Untouched(r) /\ sent' = sent /\ committed' = committed
  BY <1>1 DEF Refuse, Respond, GoTo, Forget, Untouched, TypeOK
<1>2. ASSUME LoseRace(r) PROVE Untouched(r) /\ sent' = sent /\ committed' = committed
  BY <1>2 DEF LoseRace, GoTo, Forget, Untouched, TypeOK
<1>3. CASE Begin(r)
  BY <1>3 DEF Begin, GoTo, Untouched, TypeOK
<1>4. CASE FindDevice(r)
  BY <1>4 DEF FindDevice, GoTo, Untouched, TypeOK
<1>5. CASE CheckDevice(r)
  BY <1>1, <1>5 DEF CheckDevice, GoTo, Untouched, TypeOK
<1>6. CASE SaveDevice(r)
  BY <1>2, <1>6 DEF SaveDevice, GoTo, Untouched, TypeOK
<1>7. CASE ValidateUuid(r)
  BY <1>1, <1>7 DEF ValidateUuid, GoTo, Untouched, TypeOK
<1>8. CASE InsertSession(r)
  BY <1>2, <1>8 DEF InsertSession, GoTo, Untouched, TypeOK
<1>9. CASE RefuseStreams(r)
  BY <1>1, <1>9 DEF RefuseStreams
<1>10. CASE Commit(r)
  BY <1>10 DEF Commit, Respond, GoTo, Forget, Untouched, TypeOK
<1>11. CASE QueueMeasurements(r)
  BY <1>11 DEF QueueMeasurements, Respond, GoTo, Untouched, TypeOK
<1>12. CASE FindWinner(r)
  BY <1>1, <1>12 DEF FindWinner, GoTo, Untouched, TypeOK
<1>13. CASE Recover(r)
  BY <1>1, <1>13 DEF Recover, Respond, GoTo, Forget, Untouched, TypeOK
<1>14. CASE LockTimeout(r)
  BY <1>1, <1>14 DEF LockTimeout
<1>15. CASE Crash(r)
  BY <1>15 DEF Crash, GoTo, Forget, Untouched, TypeOK
<1> QED
  BY <1>3, <1>4, <1>5, <1>6, <1>7, <1>8, <1>9, <1>10, <1>11, <1>12, <1>13, <1>14, <1>15 DEF Step

\* So the others stay as honest and as accounted for as they were: committed only
\* grows, and by nobody but the request that steps.
LEMMA OthersKept ==
  ASSUME IInv, NEW r \in Requests, Step(r), NEW v \in Requests \ {r}
  PROVE  Honest(v)' /\ Accounted(v)'
<1>1. TypeOK /\ Honest(v) /\ Accounted(v)
  BY DEF IInv
<1>2. /\ pc'[v] = pc[v] /\ answer'[v] = answer[v] /\ given'[v] = given[v]
      /\ found'[v] = found[v] /\ jobs'[v] = jobs[v]
      /\ sent' = sent /\ committed \subseteq committed' /\ (v \in committed' <=> v \in committed)
  BY <1>1, Frame DEF Untouched
<1>3. Honest(v)'
  BY <1>1, <1>2 DEF Honest, Fits, Alike, IsV3, IsLegacy, UuidOf, TypeOf
<1>4. Accounted(v)'
  BY <1>1, <1>2 DEF Accounted, IsV3, IsLegacy
<1> QED
  BY <1>3, <1>4

-----------------------------------------------------------------------------
(* What a step does to the request that takes it. *)

\* A request that has not committed, and is not answered.
Underway(r) == pc[r] \notin {"queueing", "answered", "dead"}

\* Moving on before the commit: nothing is answered, given or committed, and a
\* session that was found is forgotten or kept.
LEMMA MovingOn ==
  ASSUME IInv, NEW r \in Requests, Underway(r),
         NEW where \in Phases \ {"queueing", "comparing", "answered"},
         pc' = [pc EXCEPT ![r] = where],
         where \in {"finding", "checking", "saving"} => IsV3(r),
         UNCHANGED <<sent, answer, given, jobs, committed>>,
         found'[r] \in {found[r], Nobody}
  PROVE  Honest(r)' /\ Accounted(r)'
<1>1. TypeOK /\ Honest(r) /\ Accounted(r)
  BY DEF IInv
<1>2. pc'[r] = where /\ answer'[r] = "none"
  BY <1>1 DEF TypeOK, Honest, Underway
<1>3. Honest(r)'
  BY <1>1, <1>2 DEF Honest, Fits, Alike, IsV3, IsLegacy, UuidOf, TypeOf
<1>4. Accounted(r)'
  BY <1>1, <1>2 DEF Accounted, IsV3, IsLegacy, Underway
<1> QED
  BY <1>3, <1>4

\* A refusal before the commit: the request has nothing, and is told so.
LEMMA Refusal ==
  ASSUME IInv, NEW r \in Requests, Underway(r), NEW what, what # "created", Refuse(r, what)
  PROVE  Honest(r)' /\ Accounted(r)'
<1>1. TypeOK /\ Honest(r) /\ Accounted(r)
  BY DEF IInv
<1>2. pc'[r] = "answered" /\ answer'[r] # "created" /\ found'[r] = Nobody
  BY <1>1 DEF TypeOK, Refuse, Respond, GoTo, Forget
<1>3. UNCHANGED <<sent, given, jobs, committed>>
  BY DEF Refuse
<1>4. Honest(r)'
  BY <1>1, <1>2, <1>3 DEF Honest, Fits, Alike, IsV3, IsLegacy, UuidOf, TypeOf
<1>5. Accounted(r)'
  BY <1>1, <1>2, <1>3 DEF Accounted, IsV3, IsLegacy, Underway
<1> QED
  BY <1>4, <1>5

\* Losing the race is moving on to the recovery.
LEMMA Losing ==
  ASSUME IInv, NEW r \in Requests, Underway(r), LoseRace(r)
  PROVE  Honest(r)' /\ Accounted(r)'
<1>1. /\ pc' = [pc EXCEPT ![r] = "recovering"]
      /\ UNCHANGED <<sent, answer, given, jobs, committed>>
      /\ found'[r] = Nobody
  BY DEF LoseRace, GoTo, Forget, IInv, TypeOK
<1> QED
  BY <1>1, MovingOn DEF Phases

\* The commit gives the request the session it asked for, now committed; it was
\* not before, so that its measurements have not been queued.
LEMMA Committing ==
  ASSUME IInv, NEW r \in Requests, Commit(r)
  PROVE  Honest(r)' /\ Accounted(r)'
<1>1. TypeOK /\ Honest(r) /\ Accounted(r) /\ r # Nobody
  BY CreationAssumption DEF IInv
<1>2. /\ sent' = sent /\ jobs' = jobs /\ r \in committed' /\ r \notin committed
      /\ given'[r] = r /\ found'[r] = Nobody
  BY <1>1 DEF Commit, Forget, TypeOK, Accounted
<1>3. \/ IsV3(r) /\ pc'[r] = "answered" /\ answer'[r] = "created"
      \/ ~ IsV3(r) /\ pc'[r] = "queueing" /\ answer'[r] = "none"
  BY <1>1 DEF Commit, Respond, GoTo, TypeOK, Honest
<1>4. jobs[r] = 0
  BY <1>1, <1>2 DEF Accounted, TypeOK
<1>5. Honest(r)'
  BY <1>1, <1>2, <1>3 DEF Honest, Fits, Alike, IsV3, IsLegacy, UuidOf, TypeOf
<1>6. Accounted(r)'
  BY <1>1, <1>2, <1>3, <1>4 DEF Accounted, IsV3, IsLegacy
<1> QED
  BY <1>5, <1>6

\* The measurements of a committed legacy session are queued once.
LEMMA Queueing ==
  ASSUME IInv, NEW r \in Requests, QueueMeasurements(r)
  PROVE  Honest(r)' /\ Accounted(r)'
<1>1. TypeOK /\ Honest(r) /\ Accounted(r)
  BY DEF IInv
<1>2. /\ UNCHANGED <<sent, given, found, committed>>
      /\ pc'[r] = "answered" /\ answer'[r] = "created" /\ jobs'[r] = 1
      /\ r \in committed /\ IsLegacy(r)
  BY <1>1 DEF QueueMeasurements, Respond, GoTo, TypeOK, Accounted
<1>3. Honest(r)'
  <2>1. pc[r] = "queueing"
    BY DEF QueueMeasurements
  <2> QED
    BY <1>1, <1>2, <2>1 DEF Honest, Fits, Alike, IsV3, IsLegacy, UuidOf, TypeOf
<1>4. Accounted(r)'
  BY <1>1, <1>2 DEF Accounted, IsV3, IsLegacy
<1> QED
  BY <1>3, <1>4

\* A committed row of the request's uuid, owner and type is found.
LEMMA Finding ==
  ASSUME IInv, NEW r \in Requests, FindWinner(r)
  PROVE  Honest(r)' /\ Accounted(r)'
<1>1. TypeOK /\ Honest(r) /\ Accounted(r) /\ RowsAreCommitted /\ UuidOf(r) \in UuidNames
  BY Shape DEF IInv
<1>2. Underway(r)
  BY DEF FindWinner, Underway
<1>3. CASE Refuse(r, Error(r, "internal_error"))
  BY <1>2, <1>3, Refusal, ErrorType DEF V3Answers
<1>4. CASE ~ Refuse(r, Error(r, "internal_error"))
  <2> DEFINE s == row[UuidOf(r)]
  <2>1. /\ s # Nobody /\ Alike(r, s) /\ s \in committed
        /\ found'[r] = s /\ pc'[r] = "comparing"
        /\ UNCHANGED <<sent, answer, given, jobs, committed>>
    BY <1>1, <1>4 DEF FindWinner, GoTo, TypeOK, Alike, RowsAreCommitted
  <2>2. answer[r] = "none"
    BY <1>1, <1>2 DEF Honest, Underway
  <2> HIDE DEF s
  <2>3. Honest(r)'
    BY <1>1, <2>1, <2>2 DEF Honest, Fits, Alike, IsV3, IsLegacy, UuidOf, TypeOf
  <2>4. Accounted(r)'
    BY <1>1, <1>2, <2>1 DEF Accounted, IsV3, IsLegacy, Underway
  <2> QED
    BY <2>3, <2>4
<1> QED
  BY <1>3, <1>4

\* What was found is alike; what is reusable fits: a v3 create compares the device,
\* a legacy upload the recording, and the device neither legacy row has.
LEMMA ReusableFits ==
  ASSUME TypeOK, NEW r \in Requests, NEW s \in Requests, Alike(r, s), Reusable(r, s)
  PROVE  Fits(r, s)
<1>1. CASE IsV3(r)
  BY <1>1 DEF Reusable, Fits, IsLegacy
<1>2. CASE IsLegacy(r)
  <2>1. sent[s].mac = None /\ sent[r].mac = None
    BY <1>2, Shape DEF Reusable
  <2> QED
    BY <1>2, <2>1 DEF Reusable, Fits, IsLegacy
<1> QED
  BY <1>1, <1>2 DEF IsLegacy

\* The request that lost is given what it found, if that fits.
LEMMA Recovering ==
  ASSUME IInv, NEW r \in Requests, Recover(r)
  PROVE  Honest(r)' /\ Accounted(r)'
<1>1. TypeOK /\ Honest(r) /\ Accounted(r)
  BY DEF IInv
<1>2. Underway(r) /\ pc[r] = "comparing"
  BY DEF Recover, Underway
<1>3. CASE Refuse(r, Error(r, "internal_error"))
  BY <1>2, <1>3, Refusal, ErrorType DEF V3Answers
<1>4. CASE ~ Refuse(r, Error(r, "internal_error"))
  <2> DEFINE s == found[r]
  <2>1. s # Nobody /\ s \in Requests /\ s \in committed /\ Alike(r, s)
    BY <1>1, <1>2 DEF Honest, TypeOK
  <2>2. Fits(r, s)
    BY <1>1, <1>4, <2>1, ReusableFits DEF Recover
  <2>3. /\ given'[r] = s /\ found'[r] = Nobody
        /\ pc'[r] = "answered" /\ answer'[r] = "created"
        /\ UNCHANGED <<sent, jobs, committed>>
    BY <1>1, <1>4 DEF Recover, Respond, GoTo, Forget, TypeOK
  <2> HIDE DEF s
  <2>4. Honest(r)'
    BY <1>1, <2>1, <2>2, <2>3 DEF Honest, Fits, Alike, IsV3, IsLegacy, UuidOf, TypeOf
  <2>5. Accounted(r)'
    BY <1>1, <1>2, <2>3 DEF Accounted, IsV3, IsLegacy, Underway
  <2> QED
    BY <2>4, <2>5
<1> QED
  BY <1>3, <1>4

\* A dead request has been answered nothing.
LEMMA Dying ==
  ASSUME IInv, NEW r \in Requests, Crash(r)
  PROVE  Honest(r)' /\ Accounted(r)'
<1>1. TypeOK /\ Honest(r) /\ Accounted(r)
  BY DEF IInv
<1>2. /\ UNCHANGED <<sent, answer, given, jobs, committed>>
      /\ pc'[r] = "dead" /\ found'[r] = Nobody /\ answer[r] = "none"
  BY <1>1 DEF Crash, GoTo, Forget, TypeOK, Honest
<1>3. Honest(r)'
  BY <1>1, <1>2 DEF Honest, Fits, Alike, IsV3, IsLegacy, UuidOf, TypeOf
<1>4. Accounted(r)'
  BY <1>1, <1>2 DEF Accounted, IsV3, IsLegacy
<1> QED
  BY <1>3, <1>4

\* Whatever step a request takes, it stays honest and accounted for.
LEMMA ActorKept ==
  ASSUME IInv, NEW r \in Requests, Step(r)
  PROVE  Honest(r)' /\ Accounted(r)'
<1>0. TypeOK /\ Honest(r) /\ Accounted(r)
  BY DEF IInv
<1>1. CASE Begin(r)
  BY <1>1, MovingOn DEF Begin, GoTo, Underway, Phases
<1>2. CASE FindDevice(r)
  BY <1>0, <1>2, MovingOn DEF FindDevice, GoTo, Underway, Phases, Honest
<1>3. CASE CheckDevice(r)
  <2>1. Underway(r) /\ IsV3(r)
    BY <1>0, <1>3 DEF CheckDevice, Underway, Honest
  <2>2. CASE Refuse(r, "internal_error")
    BY <2>1, <2>2, Refusal
  <2>3. CASE ~ Refuse(r, "internal_error")
    BY <1>3, <2>1, <2>3, MovingOn DEF CheckDevice, GoTo, Phases
  <2> QED
    BY <2>2, <2>3
<1>4. CASE SaveDevice(r)
  <2>1. Underway(r)
    BY <1>4 DEF SaveDevice, Underway
  <2>2. CASE LoseRace(r)
    BY <2>1, <2>2, Losing
  <2>3. CASE ~ LoseRace(r)
    BY <1>4, <2>1, <2>3, MovingOn DEF SaveDevice, GoTo, Phases
  <2> QED
    BY <2>2, <2>3
<1>5. CASE ValidateUuid(r)
  <2>1. Underway(r)
    BY <1>5 DEF ValidateUuid, Underway
  <2>2. CASE Refuse(r, Error(r, "uuid_taken"))
    BY <2>1, <2>2, Refusal, ErrorType DEF V3Answers
  <2>3. CASE ~ Refuse(r, Error(r, "uuid_taken"))
    BY <1>5, <2>1, <2>3, MovingOn DEF ValidateUuid, GoTo, Phases
  <2> QED
    BY <2>2, <2>3
<1>6. CASE InsertSession(r)
  <2>1. Underway(r)
    BY <1>6 DEF InsertSession, Underway
  <2>2. CASE LoseRace(r)
    BY <2>1, <2>2, Losing
  <2>3. CASE ~ LoseRace(r)
    BY <1>6, <2>1, <2>3, MovingOn DEF InsertSession, GoTo, Phases
  <2> QED
    BY <2>2, <2>3
<1>7. CASE RefuseStreams(r)
  BY <1>7, Refusal, ErrorType DEF RefuseStreams, Underway, V3Answers
<1>8. CASE LockTimeout(r)
  <2>1. Underway(r)
    BY <1>8 DEF LockTimeout, Rival, Underway
  <2> QED
    BY <1>8, <2>1, Refusal, ErrorType DEF LockTimeout, V3Answers
<1> QED
  BY <1>1, <1>2, <1>3, <1>4, <1>5, <1>6, <1>7, <1>8,
     Committing, Queueing, Finding, Recovering, Dying DEF Step

\* Only a commit writes a sessions row, under the uuid of its request; a deletion
\* leaves the history of commits alone.
LEMMA RowsKept ==
  ASSUME IInv, [Next]_vars
  PROVE  RowsAreCommitted'
<1>0. TypeOK /\ RowsAreCommitted
  BY DEF IInv
<1>1. ASSUME NEW r \in Requests, Commit(r) PROVE RowsAreCommitted'
  <2>1. UuidOf(r) \in UuidNames
    BY <1>0, Shape
  <2> QED
    BY <1>0, <1>1, <2>1 DEF Commit, RowsAreCommitted, UuidOf, TypeOK
<1>2. ASSUME NEW u \in UuidNames, Delete(u) PROVE RowsAreCommitted'
  BY <1>0, <1>2 DEF Delete, RowsAreCommitted, UuidOf, TypeOK
<1>3. ASSUME NEW r \in Requests, Step(r), ~ Commit(r) PROVE row' = row
  BY <1>3 DEF Step, Begin, FindDevice, CheckDevice, SaveDevice, ValidateUuid, InsertSession,
              RefuseStreams, QueueMeasurements, FindWinner, Recover, LockTimeout, Crash,
              Refuse, LoseRace, db
<1>4. ASSUME NEW r \in Requests, Step(r), ~ Commit(r) PROVE RowsAreCommitted'
  BY <1>0, <1>3, <1>4, Frame DEF RowsAreCommitted, UuidOf
<1>5. ASSUME UNCHANGED vars PROVE RowsAreCommitted'
  BY <1>0, <1>5 DEF vars, db, RowsAreCommitted, UuidOf
<1> QED
  BY <1>1, <1>2, <1>4, <1>5 DEF Next

-----------------------------------------------------------------------------
(* The invariant, and what follows from it. *)

\* Nothing has happened yet when the requests are about to be sent.
LEMMA InitIInv == Init => IInv
<1> SUFFICES ASSUME Init PROVE IInv
  OBVIOUS
<1>1. TypeOK
  BY CreationAssumption
  DEF Init, TypeOK, Devices, Labels, Phases, V3Answers, LegacyAnswers
<1>2. RowsAreCommitted
  BY DEF Init, RowsAreCommitted
<1>3. ASSUME NEW r \in Requests PROVE Honest(r) /\ Accounted(r)
  BY DEF Init, Honest, Accounted
<1> QED
  BY <1>1, <1>2, <1>3 DEF IInv

\* Every step keeps the invariant.
LEMMA StepIInv == IInv /\ [Next]_vars => IInv'
<1> SUFFICES ASSUME IInv, [Next]_vars PROVE IInv'
  OBVIOUS
<1>1. TypeOK' /\ RowsAreCommitted'
  BY TypeStep, RowsKept
<1>2. ASSUME NEW v \in Requests PROVE Honest(v)' /\ Accounted(v)'
  <2>1. ASSUME NEW r \in Requests, Step(r) PROVE Honest(v)' /\ Accounted(v)'
    BY <2>1, ActorKept, OthersKept
  <2>2. CASE UNCHANGED vars \/ \E u \in UuidNames : Delete(u)
    <3>1. UNCHANGED <<sent, pc, answer, given, found, jobs, committed>>
      BY <2>2 DEF vars, Delete
    <3>2. Honest(v) /\ Accounted(v)
      BY DEF IInv
    <3>3. Honest(v)'
      BY <3>1, <3>2 DEF Honest, Fits, Alike, IsV3, IsLegacy, UuidOf, TypeOf
    <3>4. Accounted(v)'
      BY <3>1, <3>2 DEF Accounted, IsV3, IsLegacy
    <3> QED
      BY <3>3, <3>4
  <2> QED
    BY <2>1, <2>2 DEF Next
<1> QED
  BY <1>1, <1>2 DEF IInv

\* The invariant holds in every reachable state.
LEMMA Invariance == Spec => []IInv
BY InitIInv, StepIInv, PTL DEF Spec

\* Every variable has its type, and each endpoint its vocabulary of answers: a
\* legacy upload is answered 200 or 400, whatever went wrong.
THEOREM TypeCorrect == Spec => []TypeOK
<1>1. IInv => TypeOK
  BY DEF IInv
<1> QED
  BY <1>1, Invariance, PTL

\* Whoever is answered "created" is given a session that was committed: the token
\* and the streams handed out are never those of a rolled-back attempt.
THEOREM GivenIsCommitted == Spec => []GivenWasCommitted
<1>1. IInv => GivenWasCommitted
  BY DEF IInv, Honest, GivenWasCommitted
<1> QED
  BY <1>1, Invariance, PTL

\* One session never serves two devices, two users or two recordings.
THEOREM SessionsAreNotMixed == Spec => []NoMixing
<1>1. IInv => NoMixing
  BY DEF IInv, Honest, Fits, Alike, NoMixing
<1> QED
  BY <1>1, Invariance, PTL

\* The measurements of a recording are queued at most once, and never for a session
\* that was rolled back; who is told of the session is told of one whose
\* measurements are queued, about to be, or lost with the process that held them.
THEOREM MeasurementsAreQueuedOnce == Spec => []MeasurementsQueuedOnce
<1>1. IInv => MeasurementsQueuedOnce
  <2> SUFFICES ASSUME IInv PROVE MeasurementsQueuedOnce
    OBVIOUS
  <2>1. ASSUME NEW s \in Requests
        PROVE  jobs[s] <= 1 /\ (jobs[s] > 0 => IsLegacy(s) /\ s \in committed)
    BY DEF IInv, Accounted
  <2>2. ASSUME NEW r \in Requests, IsLegacy(r), answer[r] = "created"
        PROVE  jobs[given[r]] = 1 \/ pc[given[r]] \in {"queueing", "dead"}
    <3>1. given[r] \in Requests /\ given[r] \in committed /\ IsLegacy(given[r])
      BY <2>2 DEF IInv, TypeOK, Honest, Fits, IsLegacy
    <3> QED
      BY <3>1 DEF IInv, Accounted
  <2> QED
    BY <2>1, <2>2 DEF MeasurementsQueuedOnce
<1> QED
  BY <1>1, Invariance, PTL
=============================================================================
