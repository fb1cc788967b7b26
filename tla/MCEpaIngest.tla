---------------------------- MODULE MCEpaIngest ----------------------------
(***************************************************************************)
(* Instances of EpaIngest for TLC: two hours and two measurement types are *)
(* enough for jobs to meet at both barriers; two cycles share the rows.    *)
(***************************************************************************)
EXTENDS EpaIngest, TLC

CONSTANTS t1, t2

TypeSymmetry == Permutations(Types)
=============================================================================
