------------------------- MODULE SessionSyncProofs -------------------------
(***************************************************************************)
(* What is proved of SessionSync for any number of apps, edits, titles,    *)
(* notes and deletions.                                                    *)
(***************************************************************************)
EXTENDS SessionSync, FiniteSetTheorems, TLAPS

\* How many edits are through.
Spent == Cardinality({e \in Edits : pc[e] = "done"})

\* No version that was written, loaded or downloaded exceeds what those edits account for.
Bounded ==
  /\ version <= 1 + Spent
  /\ \A e \in Edits : seen[e].version <= 1 + Spent
  /\ \A a \in Apps :
       /\ copy[a] # None => copy[a].version <= 1 + Spent
       /\ phase[a] = "reading" => half[a].version <= 1 + Spent

Rows == [version : Versions, title : Titles, finished : BOOLEAN]

\* An app does one thing at a time: it holds a row while it reads the notes, has no
\* lists while it syncs, and uploads only what it has and is not told to drop.
Orderly ==
  \A a \in Apps :
    /\ phase[a] = "reading" => half[a] \in Rows
    /\ phase[a] = "comparing" => answer[a] = {}
    /\ "upload" \in answer[a] => copy[a] # None /\ "deleted" \notin answer[a]

\* Until the session is deleted or an increment is lost, every copy of it and every
\* row an app is about to complete is the session as it is, or has an older version.
Sees ==
  ~ staleWrite /\ ~ tombstone =>
    /\ ~ stored => version = 1
    /\ \A a \in Apps :
         /\ copy[a] # None => Current(a) \/ (stored /\ Outdated(a))
         /\ phase[a] = "reading" => stored /\ (half[a] = Row \/ half[a].version < version)

\* The inductive invariant.
IInv == TypeOK /\ Bounded /\ Orderly /\ Sees

-----------------------------------------------------------------------------
(* Counting the edits. *)

\* No more edits are through than there are.
LEMMA SpentType ==
  /\ Spent \in Nat /\ Cardinality(Edits) \in Nat
  /\ Spent <= Cardinality(Edits)
<1> DEFINE D == {e \in Edits : pc[e] = "done"}
<1>1. IsFiniteSet(Edits) /\ D \subseteq Edits
  BY SyncAssumption
<1>2. IsFiniteSet(D) /\ Cardinality(D) <= Cardinality(Edits)
  BY <1>1, FS_Subset
<1> QED
  BY <1>1, <1>2, FS_CardinalityType DEF Spent

\* Committing an edit makes it one more.
LEMMA SpentCommit ==
  ASSUME TypeOK, NEW e \in Edits, pc[e] = "loaded", pc' = [pc EXCEPT ![e] = "done"]
  PROVE  Spent' = Spent + 1 /\ Spent' <= Cardinality(Edits)
<1> DEFINE D == {x \in Edits : pc[x] = "done"}
<1>1. {x \in Edits : pc'[x] = "done"} = D \cup {e} /\ e \notin D
  BY DEF TypeOK
<1>2. IsFiniteSet(D)
  BY SyncAssumption, FS_Subset
<1>3. Cardinality(D \cup {e}) = Cardinality(D) + 1
  BY <1>1, <1>2, FS_AddElement
<1>4. Cardinality(D \cup {e}) <= Cardinality(Edits)
  BY SyncAssumption, FS_Subset
<1> QED
  BY <1>1, <1>3, <1>4 DEF Spent

\* Loading one, and whatever the apps do, leaves the count alone.
LEMMA SpentKept ==
  ASSUME TypeOK,
         pc' = pc \/ (\E e \in Edits : pc[e] = "idle" /\ pc' = [pc EXCEPT ![e] = "loaded"])
  PROVE  Spent' = Spent
<1>1. {e \in Edits : pc'[e] = "done"} = {e \in Edits : pc[e] = "done"}
  BY DEF TypeOK
<1> QED
  BY <1>1 DEF Spent

-----------------------------------------------------------------------------
(* The values the actions compute. *)

\* Notes after an edit are notes, and the title a title.
LEMMA AfterType ==
  ASSUME TypeOK, NEW e \in Edits, Kind(e) # "finish"
  PROVE  NotesAfter(e) \in Pages /\ TitleAfter(e) \in Titles
<1>1. plan[e] \in Changes /\ notes \in Pages /\ seen[e].notes \in Pages /\ title \in Titles
  BY DEF TypeOK
<1>2. Kind(e) \in {"add", "retext"} => plan[e].text \in Texts
  BY <1>1 DEF Changes, EditsOf, Kind
<1>3. Kind(e) \in {"title", "legacy"} => plan[e].title \in Titles
  BY <1>1 DEF Changes, EditsOf, Kind
<1>4. NotesAfter(e) \in Pages
  <2>1. CASE Kind(e) = "add"
    BY <1>1, <1>2, <2>1 DEF NotesAfter, Pages
  <2>2. CASE Kind(e) = "retext"
    BY <1>1, <1>2, <2>2 DEF NotesAfter, Pages
  <2>3. CASE Kind(e) = "remove"
    BY <1>1, <2>3 DEF NotesAfter, Pages
  <2>4. CASE Kind(e) = "legacy"
    BY <1>1, <2>4 DEF NotesAfter
  <2>5. CASE Kind(e) \notin {"add", "retext", "remove", "legacy"}
    BY <1>1, <2>5 DEF NotesAfter
  <2> QED
    BY <2>1, <2>2, <2>3, <2>4, <2>5
<1>5. TitleAfter(e) \in Titles
  BY <1>1, <1>3 DEF TitleAfter
<1> QED
  BY <1>4, <1>5

\* An edit that does not raise the version changes nothing.
LEMMA UnchangedStays ==
  ASSUME TypeOK, NEW e \in Edits, Kind(e) # "finish", ~ Changed(e)
  PROVE  NotesAfter(e) = notes /\ TitleAfter(e) = title
<1>1. Kind(e) \in {"title", "retext"}
  BY DEF Changed
<1> QED
  BY <1>1 DEF Changed, NotesAfter, TitleAfter

\* What stands for a session that was not loaded has its types, too.
LEMMA FirstValues ==
  /\ 1 \in Versions
  /\ NoNotes \in Pages
  /\ Unloaded \in [version : Versions, title : Titles \cup {None}, finished : BOOLEAN,
                   notes : Pages, life : Nat]
<1>1. 1 \in Versions
  BY SpentType DEF Versions
<1>2. NoNotes \in Pages
  BY DEF NoNotes, Pages
<1> QED
  BY <1>1, <1>2 DEF Unloaded

-----------------------------------------------------------------------------
(* An edit commits. *)

\* The session after the commit: it keeps its types, its version is at most one
\* more than any before, and if it changed, the version was raised or the increment
\* was lost.
LEMMA Committed ==
  ASSUME TypeOK, Bounded, NEW e \in Edits, Commit(e)
  PROVE  /\ version' \in Nat /\ version' >= 1 /\ version' <= 2 + Spent
         /\ title' \in Titles /\ notes' \in Pages /\ finished' \in BOOLEAN
         /\ stored' = stored /\ life' = life /\ tombstone' = tombstone
         /\ staleWrite' \in BOOLEAN /\ (staleWrite => staleWrite')
         /\ staleWrite' \/ version' > version
              \/ (version' = version /\ title' = title /\ notes' = notes /\ finished' = finished)
         /\ ~ stored => version' = version
<1>1. /\ version \in Nat /\ version >= 1 /\ seen[e].version \in Nat /\ seen[e].version >= 1
      /\ Spent \in Nat /\ version <= 1 + Spent /\ seen[e].version <= 1 + Spent
  BY SpentType DEF TypeOK, Bounded, Versions
<1>2. tombstone' = tombstone
  BY DEF Commit
<1>3. CASE Write(e)
  <2>1. NotesAfter(e) \in Pages /\ TitleAfter(e) \in Titles
    BY <1>3, AfterType DEF Write
  <2>2. UNCHANGED <<stored, finished, life>> /\ title' = TitleAfter(e) /\ notes' = NotesAfter(e)
    BY <1>3 DEF Write
  <2>3. version' = IF Changed(e) THEN seen[e].version + 1 ELSE version
    BY <1>3 DEF Write
  <2>4. staleWrite' = (staleWrite \/ (Changed(e) /\ version' <= version))
    BY <1>3 DEF Write
  <2>5. /\ staleWrite' \in BOOLEAN /\ (staleWrite => staleWrite')
    BY <2>4
  <2>6. CASE Changed(e)
    <3>1. version' = seen[e].version + 1
      BY <2>3, <2>6
    <3>2. version' <= version => staleWrite'
      BY <2>4, <2>6
    <3>3. stored
      BY <1>3 DEF Write, Meets
    <3> QED
      BY <1>1, <1>2, <2>1, <2>2, <2>5, <3>1, <3>2, <3>3 DEF TypeOK
  <2>7. CASE ~ Changed(e)
    <3>1. version' = version /\ title' = title /\ notes' = notes
      BY <1>3, <2>2, <2>3, <2>7, UnchangedStays DEF Write
    <3> QED
      BY <1>1, <1>2, <2>1, <2>2, <2>5, <3>1 DEF TypeOK
  <2> QED
    BY <2>6, <2>7
<1>4. CASE Finish(e)
  <2>1. stored /\ finished' = TRUE /\ version' = version + 1
    BY <1>4 DEF Finish, Meets
  <2>2. UNCHANGED <<stored, title, notes, life>>
    BY <1>4 DEF Finish
  <2>3. staleWrite' = staleWrite /\ staleWrite \in BOOLEAN
    BY <1>4 DEF Finish, TypeOK
  <2>4. title \in Titles /\ notes \in Pages
    BY DEF TypeOK
  <2>5. /\ version' \in Nat /\ version' >= 1 /\ version' <= 2 + Spent
        /\ version' > version
    BY <1>1, <2>1
  <2>6. finished' \in BOOLEAN
    BY <2>1
  <2>7. stored' = stored /\ (staleWrite => staleWrite') /\ staleWrite' \in BOOLEAN
    BY <2>2, <2>3
  <2> QED
    BY <1>2, <2>1, <2>2, <2>4, <2>5, <2>6, <2>7
<1>5. CASE ~ Write(e) /\ ~ Finish(e)
  <2>1. UNCHANGED <<session, staleWrite>>
    BY <1>5 DEF Commit
  <2>2. UNCHANGED <<stored, version, title, finished, notes, life>>
    BY <2>1 DEF session
  <2>3. staleWrite' = staleWrite /\ staleWrite \in BOOLEAN
    BY <2>1 DEF TypeOK
  <2> QED
    BY <1>1, <1>2, <2>2, <2>3 DEF TypeOK
<1> QED
  BY <1>3, <1>4, <1>5

\* A commit keeps the invariant.
LEMMA CommitStep ==
  ASSUME IInv, NEW e \in Edits, Commit(e)
  PROVE  IInv'
<1>1. TypeOK /\ Bounded /\ Orderly /\ Sees
  BY DEF IInv
<1>2. /\ pc[e] = "loaded" /\ pc' = [pc EXCEPT ![e] = "done"]
      /\ seen' = [seen EXCEPT ![e] = Unloaded]
      /\ UNCHANGED <<plan, tombstone, deletes>>
      /\ UNCHANGED <<copy, marked, phase, heard, half, answer>>
  BY DEF Commit, app
<1>3. Spent' = Spent + 1 /\ Spent \in Nat
  BY <1>1, <1>2, SpentCommit, SpentType
<1>4. Spent' <= Cardinality(Edits) /\ Cardinality(Edits) \in Nat
  BY <1>1, <1>2, SpentCommit, SpentType
<1>5. version' \in Versions /\ version' <= 1 + Spent'
  BY <1>1, <1>3, <1>4, Committed DEF Versions
<1>6. TypeOK'
  <2>1. seen' \in [Edits -> [version : Versions, title : Titles \cup {None}, finished : BOOLEAN,
                             notes : Pages, life : Nat]]
    BY <1>1, <1>2, FirstValues DEF TypeOK
  <2>2. pc' \in [Edits -> {"idle", "loaded", "done"}]
    BY <1>1, <1>2 DEF TypeOK
  <2>3. /\ title' \in Titles /\ notes' \in Pages /\ finished' \in BOOLEAN
        /\ stored' = stored /\ life' = life /\ staleWrite' \in BOOLEAN
    BY <1>1, Committed
  <2> QED
    BY <1>1, <1>2, <1>5, <2>1, <2>2, <2>3 DEF TypeOK
<1>7. Bounded'
  <2>1. \A x \in Edits : seen'[x].version <= 1 + Spent'
    <3>1. ASSUME NEW x \in Edits PROVE seen'[x].version <= 1 + Spent'
      <4>1. CASE x = e
        BY <1>1, <1>2, <1>3, <4>1 DEF TypeOK, Unloaded
      <4>2. CASE x # e
        <5>1. seen'[x] = seen[x] /\ seen[x].version \in Nat /\ seen[x].version <= 1 + Spent
          BY <1>1, <1>2, <4>2 DEF TypeOK, Bounded, Versions
        <5> QED
          BY <1>3, <5>1
      <4> QED
        BY <4>1, <4>2
    <3> QED
      BY <3>1
  <2>2. ASSUME NEW a \in Apps
        PROVE  /\ copy[a] # None => copy[a].version <= 1 + Spent'
               /\ phase[a] = "reading" => half[a].version <= 1 + Spent'
    <3>1. copy[a] # None => copy[a].version \in Nat
      BY <1>1 DEF TypeOK, Copies, Versions
    <3>2. phase[a] = "reading" => half[a].version \in Nat
      BY <1>1 DEF Orderly, Rows, Versions
    <3> QED
      BY <1>1, <1>3, <3>1, <3>2 DEF Bounded
  <2> QED
    BY <1>2, <1>5, <2>1, <2>2 DEF Bounded
<1>8. Orderly'
  BY <1>1, <1>2 DEF Orderly, Rows, Versions
<1>9. Sees'
  <2> SUFFICES ASSUME ~ staleWrite', ~ tombstone'
               PROVE  /\ ~ stored' => version' = 1
                      /\ \A a \in Apps :
                           /\ copy'[a] # None => Current(a)' \/ (stored' /\ Outdated(a)')
                           /\ phase'[a] = "reading" =>
                                stored' /\ (half'[a] = Row' \/ half'[a].version < version')
    BY DEF Sees
  <2>1. ~ staleWrite /\ ~ tombstone /\ stored' = stored
    BY <1>1, Committed
  <2>2. \/ version' > version
        \/ version' = version /\ title' = title /\ notes' = notes /\ finished' = finished
    BY <1>1, Committed
  <2>3. version \in Nat /\ version' \in Nat
    BY <1>1, Committed DEF TypeOK, Versions
  <2>4. ~ stored => version' = version
    BY <1>1, Committed
  <2>5. ASSUME NEW a \in Apps, copy[a] # None PROVE Current(a)' \/ (stored' /\ Outdated(a)')
    <3>1. copy[a].version \in Nat
      BY <1>1, <2>5 DEF TypeOK, Copies, Versions
    <3>2. Current(a) \/ (stored /\ Outdated(a))
      BY <1>1, <2>1, <2>5 DEF Sees
    <3>3. Current(a) => copy[a].version = version
      BY DEF Current, Full, Row
    <3>4. CASE version' > version
      BY <1>2, <2>1, <2>3, <2>4, <3>1, <3>2, <3>3, <3>4 DEF Outdated
    <3>5. CASE version' = version /\ title' = title /\ notes' = notes /\ finished' = finished
      BY <1>2, <2>1, <3>2, <3>5 DEF Outdated, Current, Full, Row
    <3> QED
      BY <2>2, <3>4, <3>5
  <2>6. ASSUME NEW a \in Apps, phase[a] = "reading"
        PROVE  stored' /\ (half'[a] = Row' \/ half'[a].version < version')
    <3>1. stored /\ (half[a] = Row \/ half[a].version < version)
      BY <1>1, <2>1, <2>6 DEF Sees
    <3>2. half[a].version \in Nat /\ (half[a] = Row => half[a].version = version)
      BY <1>1, <2>6 DEF Orderly, Rows, Versions, Row
    <3> QED
      BY <1>2, <2>1, <2>2, <2>3, <3>1, <3>2 DEF Row
  <2> QED
    BY <1>1, <1>2, <2>1, <2>4, <2>5, <2>6 DEF Sees
<1> QED
  BY <1>6, <1>7, <1>8, <1>9 DEF IInv

-----------------------------------------------------------------------------
(* The other steps. *)

\* An edit loads the session, or the notes of a copy of it, within the bound.
LEMMA LoadStep ==
  ASSUME IInv, NEW e \in Edits, Load(e)
  PROVE  IInv'
<1>1. TypeOK /\ Bounded /\ Orderly /\ Sees
  BY DEF IInv
<1>2. /\ pc[e] = "idle" /\ pc' = [pc EXCEPT ![e] = "loaded"]
      /\ UNCHANGED <<plan, tombstone, deletes, staleWrite>>
      /\ UNCHANGED <<stored, version, title, finished, notes, life>>
      /\ UNCHANGED <<copy, marked, phase, heard, half, answer>>
  BY DEF Load, session, app
<1>3. PICK pages \in Pages : seen' = [seen EXCEPT ![e] = Loaded(pages)]
  <2>1. CASE Kind(e) = "legacy"
    <3>1. PICK a \in Apps : copy[a] # None /\ seen' = [seen EXCEPT ![e] = Loaded(copy[a].notes)]
      BY <2>1 DEF Load
    <3>2. copy[a].notes \in Pages
      BY <1>1, <3>1 DEF TypeOK, Copies
    <3> QED
      BY <3>1, <3>2
  <2>2. CASE Kind(e) # "legacy"
    BY <1>1, <2>2 DEF Load, TypeOK
  <2> QED
    BY <2>1, <2>2
<1>4. Loaded(pages) \in [version : Versions, title : Titles \cup {None}, finished : BOOLEAN,
                         notes : Pages, life : Nat]
  BY <1>1 DEF Loaded, TypeOK
<1>5. Spent' = Spent
  BY <1>1, <1>2, SpentKept
<1>6. TypeOK'
  <2>1. seen' \in [Edits -> [version : Versions, title : Titles \cup {None}, finished : BOOLEAN,
                             notes : Pages, life : Nat]]
    BY <1>1, <1>3, <1>4 DEF TypeOK
  <2>2. pc' \in [Edits -> {"idle", "loaded", "done"}]
    BY <1>1, <1>2 DEF TypeOK
  <2> QED
    BY <1>1, <1>2, <2>1, <2>2 DEF TypeOK
<1>7. Bounded'
  <2>1. ASSUME NEW x \in Edits PROVE seen'[x].version <= 1 + Spent
    BY <1>1, <1>3 DEF TypeOK, Bounded, Loaded
  <2> QED
    BY <1>1, <1>2, <1>5, <2>1 DEF Bounded
<1>8. Orderly' /\ Sees'
  BY <1>1, <1>2 DEF Orderly, Sees, Rows, Versions, Current, Outdated, Full, Row
<1> QED
  BY <1>6, <1>7, <1>8 DEF IInv

\* A step that leaves the session alone keeps the invariant, if a copy is only kept,
\* dropped or completed, and a download begins with the row as it is.
LEMMA QuietStep ==
  ASSUME IInv,
         UNCHANGED <<plan, stored, version, title, finished, notes, life>>,
         UNCHANGED <<tombstone, pc, seen, staleWrite>>,
         copy' \in [Apps -> Copies \cup {None}],
         marked' \in [Apps -> BOOLEAN],
         phase' \in [Apps -> {"idle", "comparing", "reading"}],
         heard' \in [Apps -> BOOLEAN],
         half' \in [Apps -> Rows \cup {None}],
         answer' \in [Apps -> SUBSET {"upload", "download", "deleted"}],
         deletes' \in 0..MaxDeletes,
         \A a \in Apps :
           /\ copy'[a] \in {copy[a], None}
                \/ (phase[a] = "reading" /\ copy'[a] = Full(half[a], notes))
           /\ phase'[a] = "reading" =>
                \/ phase[a] = "reading" /\ half'[a] = half[a]
                \/ stored /\ half'[a] = Row
           /\ phase'[a] = "comparing" => answer'[a] = {}
           /\ "upload" \in answer'[a] => copy'[a] # None /\ "deleted" \notin answer'[a]
  PROVE  IInv'
<1>1. TypeOK /\ Bounded /\ Orderly /\ Sees
  BY DEF IInv
<1>2. Spent' = Spent
  BY <1>1, SpentKept
<1>3. Row \in Rows /\ Row.version = version /\ version <= 1 + Spent
  BY <1>1 DEF TypeOK, Bounded, Row, Rows
<1>4. TypeOK'
  BY <1>1 DEF TypeOK, Rows
<1>5. Orderly'
  BY <1>1, <1>3 DEF Orderly, Rows, Versions
<1>6. Bounded'
  <2>1. ASSUME NEW a \in Apps
        PROVE  /\ copy'[a] # None => copy'[a].version <= 1 + Spent
               /\ phase'[a] = "reading" => half'[a].version <= 1 + Spent
    BY <1>1, <1>3 DEF Bounded, Full
  <2> QED
    BY <1>1, <1>2, <2>1 DEF Bounded
<1>7. Sees'
  <2> SUFFICES ASSUME ~ staleWrite, ~ tombstone, NEW a \in Apps
               PROVE  /\ ~ stored => version = 1
                      /\ copy'[a] # None => Current(a)' \/ (stored /\ Outdated(a)')
                      /\ phase'[a] = "reading" => stored /\ (half'[a] = Row \/ half'[a].version < version)
    BY <1>1 DEF Sees, Row
  <2>1. /\ ~ stored => version = 1
        /\ copy[a] # None => Current(a) \/ (stored /\ Outdated(a))
        /\ phase[a] = "reading" => stored /\ (half[a] = Row \/ half[a].version < version)
    BY <1>1 DEF Sees
  <2>2. phase'[a] = "reading" => stored /\ (half'[a] = Row \/ half'[a].version < version)
    BY <2>1
  <2>3. CASE copy'[a] \in {copy[a], None}
    BY <2>1, <2>3 DEF Current, Outdated, Full, Row
  <2>4. CASE phase[a] = "reading" /\ copy'[a] = Full(half[a], notes)
    <3>1. half[a].version \in Nat /\ version \in Nat
      BY <1>1, <2>4 DEF Orderly, Rows, Versions, TypeOK
    <3> QED
      BY <2>1, <2>4, <3>1 DEF Current, Outdated, Full, Row
  <2> QED
    BY <2>1, <2>2, <2>3, <2>4
<1> QED
  BY <1>4, <1>5, <1>6, <1>7 DEF IInv

\* Once the session is deleted, and remembered, its row may be anything.
LEMMA GoneStep ==
  ASSUME IInv, Erase, tombstone' = TRUE,
         UNCHANGED <<plan, pc, seen, copy, marked, half, answer, staleWrite>>,
         heard' \in [Apps -> BOOLEAN],
         phase' \in [Apps -> {"idle", "comparing", "reading"}],
         deletes' \in 0..MaxDeletes,
         \A a \in Apps : \/ phase'[a] = phase[a]
                         \/ phase'[a] = "comparing" /\ answer[a] = {}
  PROVE  IInv'
<1>1. TypeOK /\ Bounded /\ Orderly
  BY DEF IInv
<1>2. Spent' = Spent /\ Spent \in Nat
  BY <1>1, SpentKept, SpentType
<1>3. /\ stored' = FALSE /\ version' = 1 /\ title' = FirstTitle /\ finished' = FALSE
      /\ notes' = NoNotes /\ life' = life
  BY DEF Erase
<1>4. TypeOK'
  <2>1. version' \in Versions /\ title' \in Titles /\ notes' \in Pages
    BY <1>3, FirstValues, SyncAssumption
  <2>2. stored' \in BOOLEAN /\ finished' \in BOOLEAN /\ tombstone' \in BOOLEAN
    BY <1>3
  <2> QED
    BY <1>1, <1>3, <2>1, <2>2 DEF TypeOK
<1>5. Bounded'
  <2>1. version' <= 1 + Spent
    BY <1>2, <1>3
  <2>2. \A a \in Apps : phase'[a] = "reading" => phase[a] = "reading"
    OBVIOUS
  <2> QED
    BY <1>1, <1>2, <2>1, <2>2 DEF Bounded
<1>6. Orderly'
  BY <1>1 DEF Orderly, Rows, Versions
<1>7. Sees'
  BY DEF Sees
<1> QED
  BY <1>4, <1>5, <1>6, <1>7 DEF IInv

\* An upload stores what the app has, which is what every copy of a session that was
\* never stored is.
LEMMA UploadStep ==
  ASSUME IInv, NEW a \in Apps, Upload(a)
  PROVE  IInv'
<1>1. TypeOK /\ Bounded /\ Orderly /\ Sees
  BY DEF IInv
<1>2. /\ UNCHANGED <<plan, tombstone, pc, seen, copy, marked, phase, heard, half, deletes, staleWrite>>
      /\ answer' \in [Apps -> SUBSET {"upload", "download", "deleted"}]
      /\ \A x \in Apps : answer'[x] \subseteq answer[x]
  BY <1>1 DEF Upload, Done, editing, TypeOK
<1>3. copy[a] # None /\ copy[a] \in Copies
  BY <1>1 DEF Upload, Orderly, TypeOK
<1>4. CASE stored
  <2>1. UNCHANGED <<stored, version, title, finished, notes, life>>
    BY <1>4 DEF Upload, session
  <2>2. half \in [Apps -> Rows \cup {None}]
    BY <1>1 DEF TypeOK, Rows
  <2> QED
    BY <1>1, <1>2, <2>1, <2>2, QuietStep DEF TypeOK, Orderly
<1>5. CASE ~ stored
  <2>1. /\ stored' = TRUE /\ version' \in {1, copy[a].version} /\ title' = copy[a].title
        /\ finished' = copy[a].finished /\ notes' = copy[a].notes /\ life' = life + 1
    BY <1>5 DEF Upload
  <2>2. Spent' = Spent /\ Spent \in Nat
    BY <1>1, <1>2, SpentKept, SpentType
  <2>3. version' \in Versions /\ version' <= 1 + Spent
    BY <1>1, <1>3, <2>1, <2>2, FirstValues DEF Bounded, Copies
  <2>4. TypeOK'
    <3>1. title' \in Titles /\ finished' \in BOOLEAN /\ notes' \in Pages /\ life' \in Nat
      BY <1>1, <1>3, <2>1 DEF Copies, TypeOK
    <3>2. stored' \in BOOLEAN
      BY <2>1
    <3> QED
      BY <1>1, <1>2, <2>3, <3>1, <3>2 DEF TypeOK
  <2>5. Bounded'
    BY <1>1, <1>2, <2>2, <2>3 DEF Bounded
  <2>6. Orderly'
    BY <1>1, <1>2 DEF Orderly, Rows, Versions
  <2>7. Sees'
    <3> SUFFICES ASSUME ~ staleWrite, ~ tombstone PROVE Sees'
      BY <1>2 DEF Sees
    <3>1. version = 1 /\ \A x \in Apps : (copy[x] # None => Current(x)) /\ phase[x] # "reading"
      BY <1>1, <1>5 DEF Sees
    <3>2. copy[a] = Full(Row, notes)
      BY <1>3, <3>1 DEF Current
    <3>3. version' = version /\ title' = title /\ finished' = finished /\ notes' = notes
      BY <2>1, <3>1, <3>2 DEF Full, Row
    <3> QED
      BY <1>2, <2>1, <3>1, <3>3 DEF Sees, Current, Full, Row
  <2> QED
    BY <2>4, <2>5, <2>6, <2>7 DEF IInv
<1> QED
  BY <1>4, <1>5

\* What is the same before and after a step that is an app's own affair.
Quiet ==
  /\ UNCHANGED <<plan, stored, version, title, finished, notes, life>>
  /\ UNCHANGED <<tombstone, pc, seen, staleWrite>>

\* Everything else an app does is quiet, or deletes the session.
LEMMA AppKept ==
  ASSUME IInv, NEW a \in Apps, AppStep(a) \/ Mark(a)
  PROVE  IInv'
<1>1. TypeOK /\ Bounded /\ Orderly /\ Sees
  BY DEF IInv
<1>2. /\ copy \in [Apps -> Copies \cup {None}] /\ marked \in [Apps -> BOOLEAN]
      /\ phase \in [Apps -> {"idle", "comparing", "reading"}]
      /\ heard \in [Apps -> BOOLEAN] /\ half \in [Apps -> Rows \cup {None}]
      /\ answer \in [Apps -> SUBSET {"upload", "download", "deleted"}]
      /\ deletes \in 0..MaxDeletes
  BY <1>1 DEF TypeOK, Rows
<1>3. \A x \in Apps :
        /\ phase[x] = "comparing" => answer[x] = {}
        /\ "upload" \in answer[x] => copy[x] # None /\ "deleted" \notin answer[x]
  BY <1>1 DEF Orderly
<1>4. CASE SyncDelete(a)
  <2>1. /\ phase' = [phase EXCEPT ![a] = "comparing"] /\ answer[a] = {} /\ phase[a] = "idle"
        /\ UNCHANGED <<plan, pc, seen, copy, marked, half, answer, deletes, staleWrite>>
    BY <1>4 DEF SyncDelete, editing
  <2>2. CASE marked[a]
    <3>1. Erase /\ tombstone' = TRUE
      BY <1>4, <2>2 DEF SyncDelete
    <3>2. heard' \in [Apps -> BOOLEAN]
      <4>1. heard' = [heard EXCEPT ![a] = copy[a] # None /\ tombstone']
        BY <1>4 DEF SyncDelete
      <4> QED
        BY <1>2, <4>1
    <3>3. phase' \in [Apps -> {"idle", "comparing", "reading"}]
      BY <1>2, <2>1
    <3>4. \A x \in Apps : phase'[x] = phase[x] \/ (phase'[x] = "comparing" /\ answer[x] = {})
      BY <1>2, <2>1
    <3> QED
      BY <1>2, <2>1, <3>1, <3>2, <3>3, <3>4, GoneStep
  <2>3. CASE ~ marked[a]
    <3>1. Quiet
      BY <1>4, <2>1, <2>3 DEF SyncDelete, Quiet, session
    <3>2. heard' \in [Apps -> BOOLEAN]
      <4>1. heard' = [heard EXCEPT ![a] = copy[a] # None /\ tombstone']
        BY <1>4 DEF SyncDelete
      <4> QED
        BY <1>2, <4>1
    <3>3. phase' \in [Apps -> {"idle", "comparing", "reading"}]
      BY <1>2, <2>1
    <3>4. \A x \in Apps :
            /\ copy'[x] = copy[x] /\ half'[x] = half[x] /\ answer'[x] = answer[x]
            /\ phase'[x] = phase[x] \/ (phase'[x] = "comparing" /\ answer[x] = {})
      BY <1>2, <2>1
    <3> QED
      BY <1>2, <1>3, <2>1, <3>1, <3>2, <3>3, <3>4, QuietStep DEF Quiet
  <2> QED
    BY <2>2, <2>3
<1>5. CASE SyncCompare(a)
  <2>1. /\ Quiet /\ UNCHANGED <<copy, marked, half, deletes>>
        /\ answer' = [answer EXCEPT ![a] = Lists(a)]
        /\ phase' = [phase EXCEPT ![a] = "idle"] /\ heard' = [heard EXCEPT ![a] = FALSE]
    BY <1>5 DEF SyncCompare, Quiet, session, editing
  <2>2. /\ Lists(a) \in SUBSET {"upload", "download", "deleted"}
        /\ "upload" \in Lists(a) => copy[a] # None /\ "deleted" \notin Lists(a)
    BY DEF Lists
  <2>3. /\ answer' \in [Apps -> SUBSET {"upload", "download", "deleted"}]
        /\ phase' \in [Apps -> {"idle", "comparing", "reading"}] /\ heard' \in [Apps -> BOOLEAN]
    BY <1>2, <2>1, <2>2
  <2>4. \A x \in Apps :
          /\ copy'[x] = copy[x] /\ half'[x] = half[x]
          /\ phase'[x] = "reading" => phase[x] = "reading"
          /\ phase'[x] = "comparing" => answer'[x] = {}
          /\ "upload" \in answer'[x] => copy[x] # None /\ "deleted" \notin answer'[x]
    BY <1>2, <1>3, <2>1, <2>2
  <2> QED
    BY <1>2, <2>1, <2>3, <2>4, QuietStep DEF Quiet
<1>6. CASE Drop(a)
  <2>1. /\ Quiet /\ UNCHANGED <<phase, heard, half, deletes>>
        /\ "deleted" \in answer[a] /\ answer' = [answer EXCEPT ![a] = @ \ {"deleted"}]
        /\ copy' = [copy EXCEPT ![a] = None] /\ marked' = [marked EXCEPT ![a] = FALSE]
    BY <1>6 DEF Drop, Done, Quiet, session, editing
  <2>2. /\ answer' \in [Apps -> SUBSET {"upload", "download", "deleted"}]
        /\ copy' \in [Apps -> Copies \cup {None}] /\ marked' \in [Apps -> BOOLEAN]
    BY <1>2, <2>1
  <2>3. \A x \in Apps :
          /\ copy'[x] \in {copy[x], None} /\ half'[x] = half[x] /\ phase'[x] = phase[x]
          /\ phase[x] = "comparing" => answer'[x] = {}
          /\ "upload" \in answer'[x] => copy'[x] # None /\ "deleted" \notin answer'[x]
    BY <1>2, <1>3, <2>1
  <2> QED
    BY <1>2, <2>1, <2>2, <2>3, QuietStep DEF Quiet
<1>7. CASE Upload(a)
  BY <1>7, UploadStep
<1>8. CASE ReadRow(a)
  <2>1. /\ Quiet /\ UNCHANGED <<copy, marked, heard, deletes>>
        /\ phase[a] = "idle"
    BY <1>8 DEF ReadRow, Quiet, session, editing
  <2>2. CASE stored
    <3>1. /\ half' = [half EXCEPT ![a] = Row] /\ phase' = [phase EXCEPT ![a] = "reading"]
          /\ answer' = answer
      BY <1>8, <2>2 DEF ReadRow
    <3>2. Row \in Rows
      BY <1>1 DEF TypeOK, Row, Rows
    <3>3. half' \in [Apps -> Rows \cup {None}] /\ phase' \in [Apps -> {"idle", "comparing", "reading"}]
      BY <1>2, <3>1, <3>2
    <3>4. \A x \in Apps :
            /\ copy'[x] = copy[x] /\ answer'[x] = answer[x]
            /\ phase'[x] = "reading" =>
                 (phase[x] = "reading" /\ half'[x] = half[x]) \/ (stored /\ half'[x] = Row)
            /\ phase'[x] = "comparing" => phase[x] = "comparing"
      BY <1>2, <2>1, <2>2, <3>1
    <3> QED
      BY <1>2, <1>3, <2>1, <3>1, <3>3, <3>4, QuietStep DEF Quiet
  <2>3. CASE ~ stored
    <3>1. half' = half /\ phase' = phase /\ answer' = [answer EXCEPT ![a] = @ \ {"download"}]
      BY <1>8, <2>3 DEF ReadRow, Done
    <3>2. answer' \in [Apps -> SUBSET {"upload", "download", "deleted"}]
      BY <1>2, <3>1
    <3>3. \A x \in Apps :
            /\ copy'[x] = copy[x] /\ half'[x] = half[x] /\ phase'[x] = phase[x]
            /\ answer'[x] \subseteq answer[x]
      BY <1>2, <2>1, <3>1
    <3> QED
      BY <1>2, <1>3, <2>1, <3>1, <3>2, <3>3, QuietStep DEF Quiet
  <2> QED
    BY <2>2, <2>3
<1>9. CASE ReadNotes(a)
  <2>1. /\ Quiet /\ UNCHANGED <<marked, heard, deletes>>
        /\ phase[a] = "reading"
        /\ copy' = [copy EXCEPT ![a] = Full(half[a], notes)]
        /\ half' = [half EXCEPT ![a] = None] /\ phase' = [phase EXCEPT ![a] = "idle"]
        /\ answer' = [answer EXCEPT ![a] = @ \ {"download"}]
    BY <1>9 DEF ReadNotes, Done, Quiet, session, editing
  <2>2. Full(half[a], notes) \in Copies
    BY <1>1, <2>1 DEF Orderly, Rows, Full, Copies, TypeOK
  <2>3. /\ copy' \in [Apps -> Copies \cup {None}] /\ half' \in [Apps -> Rows \cup {None}]
        /\ phase' \in [Apps -> {"idle", "comparing", "reading"}]
        /\ answer' \in [Apps -> SUBSET {"upload", "download", "deleted"}]
    BY <1>2, <2>1, <2>2
  <2>4. copy'[a] # None
    BY <1>2, <2>1, <2>2, SyncAssumption
  <2>5. \A x \in Apps :
          /\ copy'[x] = copy[x] \/ (x = a /\ copy'[x] = Full(half[a], notes))
          /\ phase'[x] = "reading" => phase[x] = "reading" /\ half'[x] = half[x]
          /\ phase'[x] = "comparing" => phase[x] = "comparing"
          /\ answer'[x] \subseteq answer[x]
    BY <1>2, <2>1
  <2>6. \A x \in Apps :
          /\ phase'[x] = "comparing" => answer'[x] = {}
          /\ "upload" \in answer'[x] => copy'[x] # None /\ "deleted" \notin answer'[x]
    BY <1>3, <2>4, <2>5
  <2> QED
    BY <1>2, <2>1, <2>3, <2>5, <2>6, QuietStep DEF Quiet
<1>10. CASE Mark(a)
  <2>1. /\ Quiet /\ UNCHANGED <<copy, phase, heard, half, answer>>
        /\ marked' = [marked EXCEPT ![a] = TRUE]
        /\ deletes < MaxDeletes /\ deletes' = deletes + 1
    BY <1>10 DEF Mark, Quiet, session, editing
  <2>2. marked' \in [Apps -> BOOLEAN] /\ deletes' \in 0..MaxDeletes
    BY <1>2, <2>1, SyncAssumption
  <2> QED
    BY <1>2, <1>3, <2>1, <2>2, QuietStep DEF Quiet
<1> QED
  BY <1>4, <1>5, <1>6, <1>7, <1>8, <1>9, <1>10 DEF AppStep

-----------------------------------------------------------------------------
(* The invariant, and what follows from it. *)

\* The recorder has the session as it is, and nobody else has anything.
LEMMA InitIInv == Init => IInv
<1> SUFFICES ASSUME Init PROVE IInv
  OBVIOUS
<1>1. /\ version = 1 /\ stored \in BOOLEAN /\ finished \in BOOLEAN /\ life \in Nat
      /\ title = FirstTitle /\ notes = NoNotes
  BY DEF Init
<1>2. Row \in Rows /\ Full(Row, NoNotes) \in Copies
  BY <1>1, FirstValues, SyncAssumption DEF Row, Rows, Full, Copies
<1>3. TypeOK
  <2>1. copy \in [Apps -> Copies \cup {None}]
    BY <1>2 DEF Init
  <2>2. plan \in [Edits -> Changes]
    BY SyncAssumption DEF Init
  <2>3. /\ tombstone \in BOOLEAN /\ staleWrite \in BOOLEAN
        /\ marked \in [Apps -> BOOLEAN] /\ heard \in [Apps -> BOOLEAN]
    BY DEF Init
  <2>4. /\ phase \in [Apps -> {"idle", "comparing", "reading"}]
        /\ answer \in [Apps -> SUBSET {"upload", "download", "deleted"}]
        /\ half \in [Apps -> Rows \cup {None}]
    BY DEF Init
  <2>5. /\ pc \in [Edits -> {"idle", "loaded", "done"}]
        /\ seen \in [Edits -> [version : Versions, title : Titles \cup {None}, finished : BOOLEAN,
                               notes : Pages, life : Nat]]
    BY FirstValues DEF Init
  <2>6. version \in Versions /\ title \in Titles /\ notes \in Pages /\ deletes \in 0..MaxDeletes
    BY <1>1, FirstValues, SyncAssumption DEF Init
  <2> QED
    BY <1>1, <2>1, <2>2, <2>3, <2>4, <2>5, <2>6 DEF TypeOK, Rows
<1>4. Bounded
  <2>1. Spent \in Nat
    BY SpentType
  <2>2. \A e \in Edits : seen[e].version = 1
    BY DEF Init, Unloaded
  <2>3. \A a \in Apps : (copy[a] # None => copy[a].version = 1) /\ phase[a] # "reading"
    BY <1>1 DEF Init, Full, Row
  <2> QED
    BY <1>1, <2>1, <2>2, <2>3 DEF Bounded
<1>5. Orderly
  BY DEF Init, Orderly
<1>6. Sees
  BY <1>1 DEF Init, Sees, Current
<1> QED
  BY <1>3, <1>4, <1>5, <1>6 DEF IInv

\* Every step keeps the invariant.
LEMMA StepIInv == IInv /\ [Next]_vars => IInv'
<1> SUFFICES ASSUME IInv, [Next]_vars PROVE IInv'
  OBVIOUS
<1>1. ASSUME NEW e \in Edits, Load(e) \/ Commit(e) PROVE IInv'
  BY <1>1, LoadStep, CommitStep
<1>2. ASSUME NEW a \in Apps, AppStep(a) \/ Mark(a) PROVE IInv'
  BY <1>2, AppKept
<1>3. CASE Destroy
  <2>1. /\ Erase /\ tombstone' = TRUE /\ deletes' \in 0..MaxDeletes
        /\ UNCHANGED <<plan, pc, seen, copy, marked, phase, heard, half, answer, staleWrite>>
    BY <1>3, SyncAssumption DEF Destroy, editing, app, IInv, TypeOK
  <2> QED
    BY <2>1, GoneStep DEF IInv, TypeOK
<1>4. CASE UNCHANGED vars
  <2>1. /\ Quiet /\ UNCHANGED <<copy, marked, phase, heard, half, answer, deletes>>
    BY <1>4 DEF vars, Quiet, session, editing, app
  <2>2. /\ copy \in [Apps -> Copies \cup {None}] /\ marked \in [Apps -> BOOLEAN]
        /\ phase \in [Apps -> {"idle", "comparing", "reading"}]
        /\ heard \in [Apps -> BOOLEAN] /\ half \in [Apps -> Rows \cup {None}]
        /\ answer \in [Apps -> SUBSET {"upload", "download", "deleted"}]
        /\ deletes \in 0..MaxDeletes
    BY DEF IInv, TypeOK, Rows
  <2>3. \A a \in Apps :
          /\ phase[a] = "comparing" => answer[a] = {}
          /\ "upload" \in answer[a] => copy[a] # None /\ "deleted" \notin answer[a]
    BY DEF IInv, Orderly
  <2> QED
    BY <2>1, <2>2, <2>3, QuietStep DEF Quiet
<1> QED
  BY <1>1, <1>2, <1>3, <1>4 DEF Next

\* The invariant holds in every reachable state.
LEMMA Invariance == Spec => []IInv
BY InitIInv, StepIInv, PTL DEF Spec

\* Every variable has its type; the version counts at most the edits.
THEOREM TypeCorrect == Spec => []TypeOK
<1>1. IInv => TypeOK
  BY DEF IInv
<1> QED
  BY <1>1, Invariance, PTL

\* As long as every write raises the version, no copy that is not the session as it
\* is passes for current: an edit goes unseen only if its increment was lost.
THEOREM NothingIsMissed == Spec => []SeenUnlessOverwritten
<1>1. IInv => SeenUnlessOverwritten
  BY DEF IInv, Sees, SeenUnlessOverwritten, EveryChangeIsSeen
<1> QED
  BY <1>1, Invariance, PTL

\* A finished session stays finished, and finishing it again does not move its
\* version, whatever was loaded before and is written now.
THEOREM FinishIsFinal == Spec => FinishStands
<1> DEFINE Stands ==
      stored /\ finished /\ stored' /\ life' = life =>
        /\ finished'
        /\ \A e \in Edits : Kind(e) = "finish" /\ pc'[e] # pc[e] => version' = version
<1>1. ASSUME IInv, [Next]_vars PROVE Stands
  <2> SUFFICES ASSUME stored, finished, stored', life' = life
               PROVE  /\ finished'
                      /\ \A e \in Edits : Kind(e) = "finish" /\ pc'[e] # pc[e] => version' = version
    OBVIOUS
  <2>1. ASSUME NEW x \in Edits, Commit(x)
        PROVE  /\ finished'
               /\ \A e \in Edits : Kind(e) = "finish" /\ pc'[e] # pc[e] => version' = version
    <3>1. ~ Finish(x)
      BY DEF Finish
    <3>2. CASE Write(x)
      <4>1. finished' = finished /\ Kind(x) # "finish"
        BY <3>2 DEF Write
      <4>2. \A e \in Edits : e # x => pc'[e] = pc[e]
        BY <1>1, <2>1 DEF Commit, IInv, TypeOK
      <4> QED
        BY <4>1, <4>2
    <3>3. CASE ~ Write(x)
      BY <2>1, <3>1, <3>3 DEF Commit, session
    <3> QED
      BY <3>2, <3>3
  <2>2. ASSUME NEW x \in Edits, Load(x) PROVE finished' = finished /\ version' = version
    BY <2>2 DEF Load, session
  <2>3. ASSUME NEW a \in Apps, AppStep(a) \/ Mark(a) PROVE finished' = finished /\ version' = version
    BY <2>3 DEF AppStep, Mark, SyncDelete, SyncCompare, Drop, Upload, ReadRow, ReadNotes, session, Erase
  <2>4. ~ Destroy
    BY DEF Destroy, Erase
  <2>5. CASE UNCHANGED vars
    BY <2>5 DEF vars, session
  <2> QED
    BY <1>1, <2>1, <2>2, <2>3, <2>4, <2>5 DEF Next
<1>2. IInv /\ [Next]_vars => [Stands]_vars
  BY <1>1
<1> QED
  BY <1>2, Invariance, PTL DEF Spec, FinishStands

\* A note is lost to its own removal or to a legacy update, never to an edit of
\* something else.
THEOREM NotesAreKept == Spec => NotesStand
<1> DEFINE Kept ==
      \A n \in NoteIds :
        stored /\ stored' /\ life' = life /\ notes[n] # None /\ notes'[n] = None =>
          \E e \in Edits :
            /\ pc[e] = "loaded" /\ pc'[e] = "done"
            /\ Kind(e) = "legacy" \/ (Kind(e) = "remove" /\ Note(e) = n)
<1>1. ASSUME IInv, [Next]_vars PROVE Kept
  <2> SUFFICES ASSUME NEW n \in NoteIds,
                      stored, stored', life' = life, notes[n] # None, notes'[n] = None
               PROVE  \E e \in Edits :
                        /\ pc[e] = "loaded" /\ pc'[e] = "done"
                        /\ Kind(e) = "legacy" \/ (Kind(e) = "remove" /\ Note(e) = n)
    OBVIOUS
  <2>1. ASSUME NEW x \in Edits, Commit(x)
        PROVE  /\ pc[x] = "loaded" /\ pc'[x] = "done"
               /\ Kind(x) = "legacy" \/ (Kind(x) = "remove" /\ Note(x) = n)
    <3>1. pc[x] = "loaded" /\ pc'[x] = "done"
      BY <1>1, <2>1 DEF Commit, IInv, TypeOK
    <3>2. Write(x)
      BY <2>1 DEF Commit, Finish, session
    <3>3. notes' = NotesAfter(x)
      BY <3>2 DEF Write
    <3>4. plan[x] \in Changes /\ notes \in Pages
      BY <1>1 DEF IInv, TypeOK
    <3>5. Kind(x) \in {"add", "retext"} => plan[x].text \in Texts /\ plan[x].text # None
      BY <3>4, SyncAssumption DEF Changes, EditsOf, Kind
    <3>6. Kind(x) \notin {"add", "retext"}
      BY <3>3, <3>4, <3>5 DEF NotesAfter, Pages
    <3> QED
      BY <3>1, <3>3, <3>4, <3>6 DEF NotesAfter, Pages
  <2>2. ASSUME NEW x \in Edits, Load(x) PROVE notes' = notes
    BY <2>2 DEF Load, session
  <2>3. ASSUME NEW a \in Apps, AppStep(a) \/ Mark(a) PROVE notes' = notes
    BY <2>3 DEF AppStep, Mark, SyncDelete, SyncCompare, Drop, Upload, ReadRow, ReadNotes, session, Erase
  <2>4. ~ Destroy
    BY DEF Destroy, Erase
  <2>5. CASE UNCHANGED vars
    BY <2>5 DEF vars, session
  <2> QED
    BY <1>1, <2>1, <2>2, <2>3, <2>4, <2>5 DEF Next
<1>2. IInv /\ [Next]_vars => [Kept]_vars
  BY <1>1
<1> QED
  BY <1>2, Invariance, PTL DEF Spec, NotesStand

\* No edit, upload or sync undoes a finish or takes a note that it did not see.
THEOREM EditsUndoNothing == Spec => NothingIsUndone
  BY FinishIsFinal, NotesAreKept, PTL DEF NothingIsUndone
=============================================================================
