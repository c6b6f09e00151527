-------------------------- MODULE MCManifestReview --------------------------
(***************************************************************************)
(* One issuer with a quarter and an annual report, versions 1 and 2, and   *)
(* two spellings of its ticker.                                            *)
(***************************************************************************)
EXTENDS ManifestReview

Hand(period, version, provenance, spelling, sound) ==
    [issuer |-> "BBCA", period |-> period, version |-> version, provenance |-> provenance,
     spelling |-> spelling, sound |-> sound]

MCHandRow ==
    {Hand(1, 1, "first", "BBCA", TRUE), Hand(1, 1, "first", "bbca.jk", TRUE),
     Hand(1, 1, "second", "BBCA", TRUE), Hand(1, 2, "second", "BBCA", TRUE),
     Hand(9, 1, "first", "BBCA", FALSE), Hand(9, 0, "first", "BBCA", TRUE)}

MCSourceRow == {[id |-> "lq45", sound |-> TRUE], [id |-> "lq45", sound |-> FALSE]}
=============================================================================
