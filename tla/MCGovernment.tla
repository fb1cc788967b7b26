---------------------------- MODULE MCGovernment ----------------------------
(***************************************************************************)
(* The jobs of government data for TLC: the daily averages without and     *)
(* with failures, the EEA ingest of one batch with them and of two that    *)
(* overlap, one part chosen at the start.                                  *)
(***************************************************************************)
EXTENDS Government, TLC

\* Days of two instants, two zones half a day apart, a site that moves between two
\* points and back.
PointZones == [p |-> "west", q |-> "east"]
ZoneOffsets == [west |-> 0, east |-> 1]

\* Nothing fails and there are two rebuilds, or any one job does, at any of its steps;
\* one batch of the EEA, with an exception, a restart or a kill anywhere, or two over
\* the same measurements.
PartBounds ==
  [averages |-> [faults |-> 0, versions |-> 1, rebuilds |-> {1, 2}],
   failures |-> [faults |-> 1, versions |-> 1, rebuilds |-> {1}],
   eea |-> [faults |-> 1, versions |-> 1, batches |-> {1}, times |-> {1}],
   overlap |-> [faults |-> 0, versions |-> 2, batches |-> {1, 2}, times |-> {1, 2}]]
=============================================================================
