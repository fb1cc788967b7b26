---------------------------- MODULE SessionSync ----------------------------
(***************************************************************************)
(* What the apps of one account know of a session, while it is edited,     *)
(* uploaded and deleted.                                                   *)
(*                                                                         *)
(* Code: UserSessionsSyncing (the diff an app gets for its list of uuids   *)
(* and versions), the edits that bump sessions.version -- the Updaters,    *)
(* the Notes services, the Finishers and the legacy Session#sync -- and    *)
(* the reads an app downloads a session with.  The uuids of an account are *)
(* independent of each other, so the model follows one.                    *)
(*                                                                         *)
(* An edit reads the session before its transaction and writes the columns *)
(* it changed in it; the row lock of that UPDATE orders the transactions,  *)
(* so one is two steps, Load and Commit.  Tags change like the title, and  *)
(* a note's photo like its text.  A note is known by its id: the numbers   *)
(* legacy updates match notes by are taken to be distinct.                 *)
(***************************************************************************)
EXTENDS Naturals, FiniteSets

CONSTANTS
  Apps,         \* the phones of the account
  Recorder,     \* the one that recorded the session
  Edits,        \* requests to change it, sent once each
  Plans,        \* what the edits may be, together
  Titles,
  FirstTitle,
  NoteIds,
  Texts,
  None,         \* a copy, note, text or title there is not
  MaxDeletes    \* BOUND: how often the session is deleted

Pages == [NoteIds -> Texts \cup {None}]   \* the notes of a session
NoNotes == [n \in NoteIds |-> None]
Versions == 1..(1 + Cardinality(Edits))

\* What an app may have of the session.
Copies == [version : Versions, title : Titles, finished : BOOLEAN, notes : Pages]

EditsOf(kind, titles, ids, texts) ==
  [kind : {kind}, title : titles, note : ids, text : texts]

Changes ==
  EditsOf("title", Titles, {None}, {None}) \cup EditsOf("add", {None}, NoteIds, Texts)
    \cup EditsOf("retext", {None}, NoteIds, Texts) \cup EditsOf("remove", {None}, NoteIds, {None})
    \cup EditsOf("finish", {None}, {None}, {None}) \cup EditsOf("legacy", Titles, {None}, {None})

ASSUME SyncAssumption ==
  /\ Recorder \in Apps
  /\ IsFiniteSet(Edits)
  /\ Plans \subseteq [Edits -> Changes]
  /\ FirstTitle \in Titles
  /\ None \notin Titles \cup NoteIds \cup Texts
  /\ None \notin Copies
  /\ MaxDeletes \in Nat

VARIABLES
  plan,        \* what each edit is
  stored,      \* there is a sessions row of the uuid
  version,     \* its columns
  title,
  finished,
  notes,       \* its notes
  tombstone,   \* there is a deleted_sessions row of the uuid
  life,        \* which of the rows the uuid has had this is
  pc,          \* where each edit is
  seen,        \* the session as the edit loaded it
  copy,        \* per app, its copy of the session
  marked,      \* the user deleted it in the app
  phase,       \* what the app is waiting for
  heard,       \* whether the sync under way lists it as deleted
  half,        \* the row of the download under way
  answer,      \* the lists of the last sync the session is in
  deletes,     \* deletions so far
  staleWrite   \* history: a write did not raise the version

session == <<stored, version, title, finished, notes, life>>
editing == <<pc, seen>>
app == <<copy, marked, phase, heard, half, answer>>
vars == <<plan, session, tombstone, editing, app, deletes, staleWrite>>

Row == [version |-> version, title |-> title, finished |-> finished]
Full(row, pages) ==
  [version |-> row.version, title |-> row.title, finished |-> row.finished, notes |-> pages]
Unloaded == [version |-> 1, title |-> None, finished |-> FALSE, notes |-> NoNotes, life |-> 0]

\* Recorded by a phone that has yet to upload it (a mobile recording is over by
\* then), or created by the v3 endpoint and running.
Init ==
  /\ plan \in Plans
  /\ stored \in BOOLEAN
  /\ version = 1
  /\ title = FirstTitle
  /\ finished \in (IF stored THEN {FALSE} ELSE BOOLEAN)
  /\ notes = NoNotes
  /\ tombstone = FALSE
  /\ life = IF stored THEN 1 ELSE 0
  /\ pc = [e \in Edits |-> "idle"]
  /\ seen = [e \in Edits |-> Unloaded]
  /\ copy = [a \in Apps |-> IF a = Recorder THEN Full(Row, NoNotes) ELSE None]
  /\ marked = [a \in Apps |-> FALSE]
  /\ phase = [a \in Apps |-> "idle"]
  /\ heard = [a \in Apps |-> FALSE]
  /\ half = [a \in Apps |-> None]
  /\ answer = [a \in Apps |-> {}]
  /\ deletes = 0
  /\ staleWrite = FALSE

-----------------------------------------------------------------------------
(* The edits. *)

Kind(e) == plan[e].kind
Note(e) == plan[e].note

\* What an edit works on: the session, and for a legacy update the notes of the
\* copy it is made on.
Loaded(pages) ==
  [version |-> version, title |-> title, finished |-> finished, notes |-> pages, life |-> life]

\* An edit of a session, or of a note, that there is not is refused.
Load(e) ==
  /\ pc[e] = "idle"
  /\ stored
  /\ Kind(e) \in {"retext", "remove"} => notes[Note(e)] # None
  /\ IF Kind(e) = "legacy"
       THEN \E a \in Apps : copy[a] # None /\ seen' = [seen EXCEPT ![e] = Loaded(copy[a].notes)]
       ELSE seen' = [seen EXCEPT ![e] = Loaded(notes)]
  /\ pc' = [pc EXCEPT ![e] = "loaded"]
  /\ UNCHANGED <<plan, session, tombstone, app, deletes, staleWrite>>

\* Mutant of Changed: only what the sessions row itself holds counts.
ChangedRow(e) ==
  CASE Kind(e) = "title" -> seen[e].title # plan[e].title
    [] OTHER -> Kind(e) = "legacy"

\* Whether the edit changes anything, as far as it can tell from what it loaded:
\* only then is the version raised.
Changed(e) ==
  CASE Kind(e) = "title" -> seen[e].title # plan[e].title
    [] Kind(e) = "retext" -> seen[e].notes[Note(e)] # plan[e].text
    [] OTHER -> TRUE

\* Mutant of NotesAfter: the declarative-full notes array PATCH once carried.
NotesAfterPatch(e) ==
  CASE Kind(e) = "add" -> [notes EXCEPT ![Note(e)] = plan[e].text]
    [] Kind(e) = "retext" -> [notes EXCEPT ![Note(e)] = IF @ = None THEN None ELSE plan[e].text]
    [] Kind(e) = "remove" -> [notes EXCEPT ![Note(e)] = None]
    [] OTHER -> seen[e].notes

\* The notes after it. One is added; or rewritten, if its text is not the one that
\* was loaded and it is still there; or removed. A legacy update leaves exactly the
\* notes it carries.
NotesAfter(e) ==
  CASE Kind(e) = "add" -> [notes EXCEPT ![Note(e)] = plan[e].text]
    [] Kind(e) = "retext" ->
         IF seen[e].notes[Note(e)] = plan[e].text \/ notes[Note(e)] = None
           THEN notes ELSE [notes EXCEPT ![Note(e)] = plan[e].text]
    [] Kind(e) = "remove" -> [notes EXCEPT ![Note(e)] = None]
    [] Kind(e) = "legacy" -> seen[e].notes
    [] OTHER -> notes

\* The title after it: written only if it is not the one that was loaded.
TitleAfter(e) ==
  IF Kind(e) \in {"title", "legacy"} /\ seen[e].title # plan[e].title
    THEN plan[e].title ELSE title

\* The session the edit loaded is still there: an UPDATE of it meets a row.
Meets(e) == stored /\ seen[e].life = life

\* Mutant of Write: every column is written as it was loaded.
WriteAll(e) ==
  /\ Kind(e) # "finish" /\ Meets(e)
  /\ version' = IF Changed(e) THEN seen[e].version + 1 ELSE version
  /\ title' = TitleAfter(e)
  /\ finished' = seen[e].finished
  /\ notes' = NotesAfter(e)
  /\ staleWrite' = (staleWrite \/ (Changed(e) /\ version' <= version))
  /\ UNCHANGED <<stored, life>>

\* UPDATE of the columns that changed. The version becomes one more than was loaded.
Write(e) ==
  /\ Kind(e) # "finish" /\ Meets(e)
  /\ version' = IF Changed(e) THEN seen[e].version + 1 ELSE version
  /\ title' = TitleAfter(e)
  /\ notes' = NotesAfter(e)
  /\ staleWrite' = (staleWrite \/ (Changed(e) /\ version' <= version))
  /\ UNCHANGED <<stored, finished, life>>

\* The Finisher's one UPDATE, which matches a session that is not finished.
Finish(e) ==
  /\ Kind(e) = "finish" /\ Meets(e) /\ ~ finished
  /\ finished' = TRUE
  /\ version' = version + 1
  /\ UNCHANGED <<stored, title, notes, life, staleWrite>>

Commit(e) ==
  /\ pc[e] = "loaded"
  /\ \/ Write(e)
     \/ Finish(e)
     \/ /\ Meets(e) => Kind(e) = "finish" /\ finished
        /\ UNCHANGED <<session, staleWrite>>
  /\ pc' = [pc EXCEPT ![e] = "done"]
  /\ seen' = [seen EXCEPT ![e] = Unloaded]
  /\ UNCHANGED <<plan, tombstone, app, deletes>>

-----------------------------------------------------------------------------
(* Deletions. *)

\* The session and its notes are gone, and remembered.
Erase ==
  /\ stored' = FALSE
  /\ version' = 1
  /\ title' = FirstTitle
  /\ finished' = FALSE
  /\ notes' = NoNotes
  /\ life' = life

\* The DELETE endpoints, from an app or the web.
Destroy ==
  /\ stored
  /\ deletes < MaxDeletes
  /\ deletes' = deletes + 1
  /\ Erase
  /\ tombstone' = TRUE
  /\ UNCHANGED <<plan, editing, app, staleWrite>>

\* The user deletes the session in an app, which sends that with its next sync.
Mark(a) ==
  /\ phase[a] = "idle" /\ copy[a] # None /\ ~ marked[a]
  /\ deletes < MaxDeletes
  /\ deletes' = deletes + 1
  /\ marked' = [marked EXCEPT ![a] = TRUE]
  /\ UNCHANGED <<plan, session, tombstone, editing, copy, phase, heard, half, answer, staleWrite>>

-----------------------------------------------------------------------------
(* The sync: one transaction, whose statements each see what is committed. *)

\* DeletingHandler: what the app deleted is deleted and remembered, and what is
\* remembered of its list is read back.
SyncDelete(a) ==
  /\ phase[a] = "idle" /\ answer[a] = {}
  /\ IF marked[a] THEN Erase /\ tombstone' = TRUE ELSE UNCHANGED <<session, tombstone>>
  /\ heard' = [heard EXCEPT ![a] = copy[a] # None /\ tombstone']
  /\ phase' = [phase EXCEPT ![a] = "comparing"]
  /\ UNCHANGED <<plan, editing, copy, marked, half, answer, deletes, staleWrite>>

\* Mutant of Outdated: a copy one version behind is taken to be current.
OutdatedByTwo(a) == version > copy[a].version + 1

\* The copy is older than the row.
Outdated(a) == version > copy[a].version

\* UploadingDownloadingHandler: the app's list without what was just told deleted,
\* against the sessions of the user.
Lists(a) ==
  LET listed == copy[a] # None /\ ~ heard[a]
  IN  (IF heard[a] THEN {"deleted"} ELSE {})
        \cup (IF listed /\ ~ stored THEN {"upload"} ELSE {})
        \cup (IF stored /\ (listed => Outdated(a)) THEN {"download"} ELSE {})

SyncCompare(a) ==
  /\ phase[a] = "comparing"
  /\ answer' = [answer EXCEPT ![a] = Lists(a)]
  /\ phase' = [phase EXCEPT ![a] = "idle"]
  /\ heard' = [heard EXCEPT ![a] = FALSE]
  /\ UNCHANGED <<plan, session, tombstone, editing, copy, marked, half, deletes, staleWrite>>

-----------------------------------------------------------------------------
(* What an app does with the answer. *)

Done(a, what) == answer' = [answer EXCEPT ![a] = @ \ {what}]

Drop(a) ==
  /\ "deleted" \in answer[a]
  /\ Done(a, "deleted")
  /\ copy' = [copy EXCEPT ![a] = None]
  /\ marked' = [marked EXCEPT ![a] = FALSE]
  /\ UNCHANGED <<plan, session, tombstone, editing, phase, heard, half, deletes, staleWrite>>

\* SessionBuilder, refused when the uuid is taken. The version is the app's if it
\* sends one, and the app may never hear that it was stored.
Upload(a) ==
  /\ "upload" \in answer[a]
  /\ IF stored
       THEN UNCHANGED session /\ Done(a, "upload")
       ELSE /\ stored' = TRUE
            /\ version' \in {1, copy[a].version}
            /\ title' = copy[a].title
            /\ finished' = copy[a].finished
            /\ notes' = copy[a].notes
            /\ life' = life + 1
            /\ Done(a, "upload") \/ UNCHANGED answer
  /\ UNCHANGED <<plan, tombstone, editing, copy, marked, phase, heard, half, deletes, staleWrite>>

\* The show endpoints read the row, then the notes.
ReadRow(a) ==
  /\ phase[a] = "idle" /\ "download" \in answer[a] /\ "deleted" \notin answer[a]
  /\ IF stored
       THEN /\ half' = [half EXCEPT ![a] = Row]
            /\ phase' = [phase EXCEPT ![a] = "reading"]
            /\ UNCHANGED answer
       ELSE UNCHANGED <<half, phase>> /\ Done(a, "download")
  /\ UNCHANGED <<plan, session, tombstone, editing, copy, marked, heard, deletes, staleWrite>>

ReadNotes(a) ==
  /\ phase[a] = "reading"
  /\ copy' = [copy EXCEPT ![a] = Full(half[a], notes)]
  /\ half' = [half EXCEPT ![a] = None]
  /\ phase' = [phase EXCEPT ![a] = "idle"]
  /\ Done(a, "download")
  /\ UNCHANGED <<plan, session, tombstone, editing, marked, heard, deletes, staleWrite>>

-----------------------------------------------------------------------------
AppStep(a) ==
  \/ SyncDelete(a)
  \/ SyncCompare(a)
  \/ Drop(a)
  \/ Upload(a)
  \/ ReadRow(a)
  \/ ReadNotes(a)

Next ==
  \/ \E e \in Edits : Load(e) \/ Commit(e)
  \/ \E a \in Apps : AppStep(a) \/ Mark(a)
  \/ Destroy

Spec == Init /\ [][Next]_vars

\* The apps keep syncing, and do what they are told.
FairSpec == Spec /\ \A a \in Apps : WF_vars(AppStep(a))
-----------------------------------------------------------------------------
(* Properties. *)

\* Every variable has its type; the version counts at most the edits.
TypeOK ==
  /\ plan \in [Edits -> Changes]
  /\ stored \in BOOLEAN
  /\ version \in Versions
  /\ title \in Titles
  /\ finished \in BOOLEAN
  /\ notes \in Pages
  /\ tombstone \in BOOLEAN
  /\ life \in Nat
  /\ pc \in [Edits -> {"idle", "loaded", "done"}]
  /\ seen \in [Edits -> [version : Versions, title : Titles \cup {None}, finished : BOOLEAN,
                         notes : Pages, life : Nat]]
  /\ copy \in [Apps -> Copies \cup {None}]
  /\ marked \in [Apps -> BOOLEAN]
  /\ phase \in [Apps -> {"idle", "comparing", "reading"}]
  /\ heard \in [Apps -> BOOLEAN]
  /\ half \in [Apps -> [version : Versions, title : Titles, finished : BOOLEAN] \cup {None}]
  /\ answer \in [Apps -> SUBSET {"upload", "download", "deleted"}]
  /\ deletes \in 0..MaxDeletes
  /\ staleWrite \in BOOLEAN

\* The app has the session as it is.
Current(a) == copy[a] = Full(Row, notes)

\* "version is what tells every other device to re-download the session": a copy
\* that is not the session as it is has an older version, or is about to be
\* dropped.
EveryChangeIsSeen ==
  \A a \in Apps :
    stored /\ ~ tombstone /\ copy[a] # None => Current(a) \/ Outdated(a)

\* A lost increment is the only way a change goes unseen: as long as every write
\* raises the version, whatever overlaps whatever, no copy is taken to be current
\* that is not -- not one whose row was read before an edit and its notes after it,
\* either.
SeenUnlessOverwritten == ~ staleWrite => EveryChangeIsSeen

\* A finished session stays finished whatever was loaded before it was, and
\* finishing it again does not move its version.
FinishStands ==
  [][stored /\ finished /\ stored' /\ life' = life =>
       /\ finished'
       /\ \A e \in Edits : Kind(e) = "finish" /\ pc'[e] # pc[e] => version' = version]_vars

\* A note of a session is lost to its own removal or to a legacy update, never to
\* an edit of something else.
NotesStand ==
  [][\A n \in NoteIds :
       stored /\ stored' /\ life' = life /\ notes[n] # None /\ notes'[n] = None =>
         \E e \in Edits :
           /\ pc[e] = "loaded" /\ pc'[e] = "done"
           /\ Kind(e) = "legacy" \/ (Kind(e) = "remove" /\ Note(e) = n)]_vars

\* No edit undoes what it did not see.
NothingIsUndone == FinishStands /\ NotesStand

\* If no increment was lost, and no upload brought a deleted session back, every
\* app ends up with the session as it is, or without it once it is gone.
Converges ==
  []~ staleWrite /\ <>[]~ (stored /\ tombstone)
    => <>[](\A a \in Apps : IF stored THEN Current(a) ELSE copy[a] = None)
=============================================================================
