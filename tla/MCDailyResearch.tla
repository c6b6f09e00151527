--------------------------- MODULE MCDailyResearch ---------------------------
(***************************************************************************)
(* An instance of DailyResearch for TLC: two attempts, one final, by any   *)
(* of two calculations and on any of three days, with two mishaps and an   *)
(* import.                                                                 *)
(***************************************************************************)
EXTENDS DailyResearch, TLC

CONSTANTS a1, a2

Interchangeable == Permutations(Digest)
=============================================================================
