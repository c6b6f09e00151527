---------------------------- MODULE MCIdxFilings ----------------------------
(***************************************************************************)
(* Instances of IdxFilings for TLC: three runs, two shards, and two        *)
(* filings that are merged together or one after the other.                *)
(***************************************************************************)
EXTENDS IdxFilings, TLC

CONSTANTS r1, r2, r3, f1, f2, s1, s2

MCShardOf == (f1 :> s1) @@ (f2 :> s2)

RunSymmetry == Permutations(Run)
=============================================================================
