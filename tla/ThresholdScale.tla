--------------------------- MODULE ThresholdScale ---------------------------
(***************************************************************************)
(* The five thresholds by which values are coloured, and what the constants *)
(* of Thresholds have to satisfy.  A field takes decimals and so does a    *)
(* link, so values are counted in fractions of which One make up a whole.  *)
(***************************************************************************)
EXTENDS Integers

CONSTANTS
  One,            \* the whole number one
  Scale,          \* BOUND for TLC: the values a threshold is typed or dragged to
  Sensors,
  DefaultsOf,     \* the thresholds the server has for a sensor
  FromUrl,        \* thresholds a link to the map may carry
  Absent,         \* no thresholds of the user's, no input, nothing pending
  Zeros           \* before any thresholds came

Keys == {"min", "low", "middle", "high", "max"}
Thumbs == {"low", "middle", "high"}

IsWhole(v) == v % One = 0

Ascend(t) == t.min <= t.low /\ t.low <= t.middle /\ t.middle <= t.high /\ t.high <= t.max

\* The server's thresholds are in order; those of a link need not be.
ASSUME ScaleAssumption ==
  /\ One \in Nat \ {0}
  /\ Scale \subseteq Int
  /\ DefaultsOf \in [Sensors -> [Keys -> Int]]
  /\ FromUrl \subseteq [Keys -> Int]
  /\ Zeros = [k \in Keys |-> 0]
  /\ \A s \in Sensors : Ascend(DefaultsOf[s])
  /\ Absent \notin [Keys -> Int] /\ Absent \notin Keys /\ Absent \notin Int
=============================================================================
