--------------------------- MODULE MCFilingLedger ---------------------------
(***************************************************************************)
(* Instances of FilingLedger for TLC: two filings of one issuer that may   *)
(* share a url or a document, two documents that report earlier periods    *)
(* besides their own, a period that is never reviewed, and manifests that  *)
(* agree, overlap and conflict.                                            *)
(***************************************************************************)
EXTENDS FilingLedger, TLC

CONSTANTS f0, f1, f2, i1, u1, u2, c1, c2, r1, r2

MCIssuerOf == [f \in {f0, f1, f2} |-> i1]

\* f2 is the later period: its second document repeats the figure of f1, and
\* both filings may report the balance of f0.
MCReported == [f \in Filing |-> [c \in Checksum |->
    CASE f = f1 /\ c = c1 -> {<<f1, "flow">>}
      [] f = f1 /\ c = c2 -> {<<f1, "flow">>, <<f0, "balance">>}
      [] f = f2 /\ c = c1 -> {<<f2, "flow">>}
      [] f = f2 /\ c = c2 -> {<<f2, "flow">>, <<f1, "flow">>, <<f0, "balance">>}
      [] OTHER -> {}]]

Row(u, c) == [url |-> u, expected |-> c]

\* Same source for both; a pinned checksum; a conflicting url for f2.
MCManifests == {(f1 :> Row(u1, Null)) @@ (f2 :> Row(u1, Null)),
                (f1 :> Row(u1, Null)) @@ (f2 :> Row(u2, c2))}

MCRetryErrors == {[class |-> "PROVIDER", summary |-> "PROVIDER_UNAVAILABLE"],
                  [class |-> "DATABASE", summary |-> "VALIDATION_FAILED"]}
MCQuarantineErrors == {[class |-> "VALIDATION", summary |-> "VALIDATION_FAILED"],
                       ArtifactMismatch}
=============================================================================
