---------------------------- MODULE CycleBarrier ----------------------------
(***************************************************************************)
(* What an EPA ingest cycle promises: the hours it announces are staged in *)
(* any order; loading starts once, when the announcing is over and every   *)
(* announced hour is in; the cycle finishes when every type is loaded.     *)
(***************************************************************************)
CONSTANTS Cycles, Hours, Types

VARIABLES
  announced,  \* the hours of a cycle that have a staging batch
  closed,     \* cycles that announce no more hours
  arrived,    \* the hours staged
  started,    \* cycles that load
  loaded,     \* the types loaded
  finished    \* cycles that are over

vars == <<announced, closed, arrived, started, loaded, finished>>

Init ==
  /\ announced = [c \in Cycles |-> {}]
  /\ closed = {}
  /\ arrived = [c \in Cycles |-> {}]
  /\ started = {}
  /\ loaded = [c \in Cycles |-> {}]
  /\ finished = {}

Announce(c, h) ==
  /\ c \notin closed
  /\ announced' = [announced EXCEPT ![c] = @ \cup {h}]
  /\ UNCHANGED <<closed, arrived, started, loaded, finished>>

Close(c) ==
  /\ closed' = closed \cup {c}
  /\ UNCHANGED <<announced, arrived, started, loaded, finished>>

Arrive(c, h) ==
  /\ h \in announced[c]
  /\ arrived' = [arrived EXCEPT ![c] = @ \cup {h}]
  /\ UNCHANGED <<announced, closed, started, loaded, finished>>

\* An hour whose job is run again counts as not staged until it is through.
Redo(c, h) ==
  /\ arrived' = [arrived EXCEPT ![c] = @ \ {h}]
  /\ UNCHANGED <<announced, closed, started, loaded, finished>>

Start(c) ==
  /\ c \in closed
  /\ c \notin started
  /\ announced[c] # {}
  /\ arrived[c] = announced[c]
  /\ started' = started \cup {c}
  /\ UNCHANGED <<announced, closed, arrived, loaded, finished>>

Load(c, t) ==
  /\ c \in started
  /\ loaded' = [loaded EXCEPT ![c] = @ \cup {t}]
  /\ UNCHANGED <<announced, closed, arrived, started, finished>>

Finish(c) ==
  /\ c \in started
  /\ loaded[c] = Types
  /\ finished' = finished \cup {c}
  /\ UNCHANGED <<announced, closed, arrived, started, loaded>>

Next ==
  \E c \in Cycles :
    \/ \E h \in Hours : Announce(c, h) \/ Arrive(c, h) \/ Redo(c, h)
    \/ \E t \in Types : Load(c, t)
    \/ Close(c)
    \/ Start(c)
    \/ Finish(c)

Spec == Init /\ [][Next]_vars
=============================================================================
