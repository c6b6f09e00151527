---------------------------- MODULE QuantRelease ----------------------------
(***************************************************************************)
(* The life of a quant release: a candidate file is built from reviewed    *)
(* evidence, passes the readiness gate or an operator's approval, becomes  *)
(* a signed file and a row of quant_research_snapshots, may rest on a      *)
(* validation run, and is read by the daily scan.                          *)
(*                                                                         *)
(* Each command is a process of its own: it may die between writing its    *)
(* file and publishing, and an operator runs it again.  Writes of one      *)
(* transaction are one step.                                               *)
(***************************************************************************)
EXTENDS QuantRules

CONSTANTS
    Issuer,        \* tickers
    Evidence,      \* kinds of evidence about an issuer
    Candidate,     \* candidate files, by their snapshot_id
    Panel,         \* inputs of a validation, by their checksum
    RunId,         \* ids of validation runs
    Base,          \* what the market says of an issuer
    MinUniverse,   \* min_universe
    HoldoutChecks, \* the checks of assess_holdout
    MaxWrites      \* bound of the model on publications and validations

ASSUME ReleaseAssumption ==
    /\ IsFiniteSet(Issuer) /\ Cardinality(Issuer) = Expected
    /\ Null # "FAVORABLE_ENTRY" /\ Null \notin RunId /\ Null \notin [id : RunId, passed : BOOLEAN]
    /\ \A I \in SUBSET Issuer : \A frame \in [I -> Evidence] : \A i \in I : Ranking(i, frame) # Null
    /\ \A b \in Base :
          /\ {b.atr, b.support, b.current, b.resistance} \subseteq Nat
          /\ DOMAIN b.bands = {"PE", "PBV"}
          /\ \A m \in DOMAIN b.bands :
                b.bands[m] # Null => {b.bands[m].low, b.bands[m].high} \subseteq Nat
    /\ {MinUniverse, MaxWrites} \subseteq Nat

Status == {"SHADOW", "VALIDATED_RESEARCH"}

VARIABLES
    rows,      \* the rankings of each candidate file
    approved,  \* the signed file made of each candidate
    snapshots, \* quant_research_snapshots
    model,     \* model_versions.status of the one model
    runs,      \* validation_runs, by input_checksum
    gated,     \* candidates that publish_reviewed_shadow has let through
    passed,    \* runs that were ever PASSED
    writes     \* publications and validations so far

releaseVars == <<rows, approved, snapshots, model, runs, gated, passed, writes>>

Init ==
    /\ rows = [c \in Candidate |-> Null]
    /\ approved = [c \in Candidate |-> Null]
    /\ snapshots = {}
    /\ model = Null
    /\ runs = [p \in Panel |-> Null]
    /\ gated = {} /\ passed = {}
    /\ writes = 0

\* build_snapshot, with or without the columns of an issuer.
BuildSnapshot(c, frame) ==
    /\ rows[c] = Null
    /\ Cardinality(DOMAIN frame) >= MinUniverse
    /\ rows' = [rows EXCEPT ![c] = [i \in DOMAIN frame |-> Ranking(i, frame)]]
    /\ UNCHANGED <<approved, snapshots, model, runs, gated, passed, writes>>

\* approve_snapshot: the signed file replaces the one at its path.
ApproveSnapshot(c, status, run) ==
    /\ rows[c] # Null
    /\ status = "VALIDATED_RESEARCH" => run # Null
    /\ approved' = [approved EXCEPT ![c] = [status |-> status, run |-> run]]
    /\ UNCHANGED <<rows, snapshots, model, runs, gated, passed, writes>>

\* The check of publish_quant_snapshot, and the trigger of its table: the run
\* that the file names has passed.
MayPublish(file) ==
    file.status = "VALIDATED_RESEARCH" =>
        \E p \in Panel : runs[p] # Null /\ runs[p].id = file.run /\ runs[p].passed

FaultInsertsAgain(c, file) ==
    snapshots' = snapshots \cup {[candidate |-> c, status |-> file.status, run |-> file.run]}

\* INSERT ... ON CONFLICT (checksum) DO NOTHING.  The same candidate under
\* another status has the same id and another checksum: the insert fails.
InsertSnapshot(c, file) ==
    LET row == [candidate |-> c, status |-> file.status, run |-> file.run] IN
    /\ \A s \in snapshots : s.candidate = c => s = row
    /\ snapshots' = snapshots \cup {row}

\* publish_quant_snapshot: the model's row follows the newest publication, also
\* when its snapshot is there already.
PublishQuantSnapshot(c, file) ==
    /\ writes < MaxWrites
    /\ writes' = writes + 1
    /\ MayPublish(file)
    /\ InsertSnapshot(c, file)
    /\ model' = file.status

\* publish-snapshot: the operator's path, which reads no candidate gate.
PublishSnapshot(c) ==
    /\ approved[c] # Null
    /\ PublishQuantSnapshot(c, approved[c])
    /\ UNCHANGED <<rows, approved, runs, gated, passed>>

MayRelease(c) == rows[c] # Null /\ Ready(rows[c], "CANDIDATE")

\* publish_reviewed_shadow: the gate, the signed file, the publication.  The
\* publication may fail after the file is written.
PublishReviewedShadow(c) ==
    /\ MayRelease(c)
    /\ approved' = [approved EXCEPT ![c] = [status |-> "SHADOW", run |-> Null]]
    /\ \/ /\ PublishQuantSnapshot(c, approved'[c])
          /\ gated' = gated \cup {c}
       \/ UNCHANGED <<snapshots, model, writes, gated>>
    /\ UNCHANGED <<rows, runs, passed>>

\* assess_holdout: the frozen acceptance policy.
Accepted(held) == held = HoldoutChecks

FaultLosesTheId(p, id, verdict) ==
    runs' = [runs EXCEPT ![p] = [id |-> IF @ = Null THEN Null ELSE @.id, passed |-> verdict]]

\* save_validation_run: a panel that was validated before keeps its id, and its
\* row takes the new verdict.
SaveValidationRun(p, id, verdict) ==
    runs' = [runs EXCEPT ![p] = [id |-> IF @ = Null THEN id ELSE @.id, passed |-> verdict]]

\* validate-quant --persist.  The costs and --deterministic-rebuild come from
\* outside the panel, so a panel may be judged differently the next time.
ValidateQuant(p, id, held) ==
    /\ writes < MaxWrites
    /\ writes' = writes + 1
    /\ \A o \in Panel : runs[o] # Null => runs[o].id # id
    /\ SaveValidationRun(p, id, Accepted(held))
    /\ model' = IF model = Null THEN "SHADOW" ELSE model
    /\ passed' = IF held = HoldoutChecks THEN passed \cup {runs'[p].id} ELSE passed
    /\ UNCHANGED <<rows, approved, snapshots, gated>>

\* How many issuers of the session the scan may rank by a snapshot.
Hits(session, ranking) ==
    Cardinality({i \in session \cap DOMAIN ranking : RowEligible(ranking[i])})

Primary(session, ranking) == Hits(session, ranking) >= RequiredEligible

\* build_full_lq45_scan on a session's issuers and a snapshot, of which it reads
\* nothing when it is stale: the entry state of one base, Null when excluded.
\* The scan writes nothing here.
Scan(s, i, b, session, fresh) ==
    LET ranking == IF fresh THEN rows[s.candidate] ELSE [j \in {} |-> Null]
        row     == IF i \in DOMAIN ranking THEN ranking[i] ELSE Null
        primary == Primary(session, ranking)
    IN IF Scored(b, row, primary) THEN EntryState(b, row, primary) ELSE Null

Next ==
    \/ \E c \in Candidate :
          \/ \E I \in SUBSET Issuer : \E frame \in [I -> Evidence] : BuildSnapshot(c, frame)
          \/ \E status \in Status, run \in RunId \cup {Null} : ApproveSnapshot(c, status, run)
          \/ PublishSnapshot(c)
          \/ PublishReviewedShadow(c)
    \/ \E p \in Panel, id \in RunId, held \in SUBSET HoldoutChecks : ValidateQuant(p, id, held)

Spec == Init /\ [][Next]_releaseVars
----------------------------------------------------------------------------
(* Properties *)

\* Every file, row and verdict holds a value of its type.
TypeOK ==
    /\ DOMAIN rows = Candidate /\ DOMAIN approved = Candidate /\ DOMAIN runs = Panel
    /\ \A c \in Candidate : rows[c] # Null => DOMAIN rows[c] \subseteq Issuer
    /\ \A c \in Candidate :
          approved[c] # Null => approved[c] \in [status : Status, run : RunId \cup {Null}]
    /\ snapshots \subseteq [candidate : Candidate, status : Status, run : RunId \cup {Null}]
    /\ model \in Status \cup {Null}
    /\ \A p \in Panel : runs[p] # Null => runs[p] \in [id : RunId, passed : BOOLEAN]
    /\ gated \subseteq Candidate /\ passed \subseteq RunId

\* What the readiness gate lets through, the scan can use: on a complete session
\* the scan's own gate, written a second time, ranks enough of its issuers for a
\* PRIMARY scan, every profile is verified and enough businesses are scored.
ReleaseFeedsTheScan ==
    \A c \in gated :
        /\ Primary(Issuer, rows[c])
        /\ \A i \in Issuer : i \in DOMAIN rows[c] /\ ProfileVerified(rows[c][i])
        /\ Cardinality({i \in DOMAIN rows[c] : rows[c][i].business}) >= RequiredEligible

\* A favorable entry can be carried out and is earned: the release is fresh, its
\* issuer passed the quant gate under a known accounting model, and the levels,
\* each on the price fraction of its band, lie around the market: the stop below
\* the buy zone and at least three ticks below the entry, the entry less than a
\* tick below the price, the target above it.
FavorableIsExecutable ==
    \A s \in snapshots, i \in Issuer, b \in Base, fresh \in BOOLEAN :
        Scan(s, i, b, Issuer, fresh) = "FAVORABLE_ENTRY" =>
            LET plan == Setup(b)
                r    == rows[s.candidate][i]
            IN /\ fresh /\ r.business /\ QuantEligible(r) /\ r.profile \in Known
               /\ \A price \in {plan.entry, plan.stop, plan.target} : price % Tick(price) = 0
               /\ plan.stop < plan.zone.low
               /\ plan.entry <= b.current /\ b.current < plan.target
               /\ b.current - plan.entry < Tick(plan.entry)
               /\ plan.entry - plan.stop >= 3 * Tick(plan.entry)

\* Retries, lost answers and competing approvals leave one release of a
\* candidate, and one that claims validation names a run of its model that met
\* every check of the holdout policy, also when the panel was judged again.
ReleasesAreBacked ==
    \A s \in snapshots :
        /\ \A o \in snapshots : o.candidate = s.candidate => o = s
        /\ s.status = "VALIDATED_RESEARCH" => s.run \in passed
=============================================================================
