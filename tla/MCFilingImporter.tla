-------------------------- MODULE MCFilingImporter --------------------------
(***************************************************************************)
(* Instances of FilingImporter for TLC: two overlapping runs of one filing *)
(* with a pinned checksum, and for the finding one worker of it.           *)
(***************************************************************************)
EXTENDS FilingImporter, TLC

CONSTANTS f1, i1, u1, u2, c1, c2, r1, r2, w1, w2

Row(u, c) == [url |-> u, expected |-> c]
MCIssuerOf == [f \in Filing |-> i1]
MCReported == [f \in Filing |-> [c \in Checksum |-> {<<f, "flow">>}]]
MCRetryErrors == {Provider} \cup
    {Storage(s) : s \in {"DATABASE_UNAVAILABLE", "VALIDATION_FAILED", "SCHEMA_INVALID"}}
MCQuarantineErrors == {Invalid, SchemaInvalid, ArtifactMismatch}
MCRunOf == [w \in Worker |-> IF w = w1 THEN r1 ELSE r2]

\* Overlapping runs.
Pinned == f1 :> Row(u1, c1)
OverlapManifests == {Pinned}
OverlapManifestOf == [w \in Worker |-> Pinned]
OverlapShard == [w \in Worker |-> <<f1>>]
=============================================================================
