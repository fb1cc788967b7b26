--------------------------- MODULE StoredSession ---------------------------
(***************************************************************************)
(* What the users of a mobile session see of it, whatever happens on the   *)
(* way: a set of stored frames that only grows, one finish, and a delete   *)
(* that takes everything and is never undone.                              *)
(***************************************************************************)
CONSTANTS
  Frames,       \* what can be stored
  Instants,     \* when a session can be finished
  NotFinished   \* the finish of a session still recording

VARIABLES
  live,         \* the session exists
  stored,       \* its frames
  finished      \* when it was finished

vars == <<live, stored, finished>>

Init ==
  /\ live = TRUE
  /\ stored = {}
  /\ finished = NotFinished

\* An upload adds frames the session does not have, all of them at once.
StoreFrames(F) ==
  /\ live
  /\ F # {}
  /\ F \cap stored = {}
  /\ stored' = stored \cup F
  /\ UNCHANGED <<live, finished>>

FinishAt(instant) ==
  /\ live
  /\ finished = NotFinished
  /\ finished' = instant
  /\ UNCHANGED <<live, stored>>

Delete ==
  /\ live
  /\ live' = FALSE
  /\ stored' = {}
  /\ UNCHANGED finished

Next ==
  \/ \E F \in SUBSET Frames : StoreFrames(F)
  \/ \E instant \in Instants : FinishAt(instant)
  \/ Delete

Spec == Init /\ [][Next]_vars
=============================================================================
