---------------------------- MODULE FilingLedger ----------------------------
(***************************************************************************)
(* The filing-work ledger of storage/repository.py and of migrations 007   *)
(* and 008: one work item per reviewed filing, one attempt row per lease,  *)
(* and the transaction that publishes a filing's artifact, statement facts *)
(* and issuer profile together with the item's final state.                *)
(*                                                                         *)
(* A document reports more than the period it was filed for: it repeats    *)
(* the figures of earlier periods.  Each fact is stored under the header   *)
(* of its own period, so accepting one filing writes headers and facts of  *)
(* others, whatever the ledger has decided about those.                    *)
(*                                                                         *)
(* An action is one committed transaction, except that a completion, which *)
(* checks its lease twice, is two: StartCompletion is the first check,     *)
(* after which it holds the row lock, CompleteAccepted and                 *)
(* CompleteQuarantined the second check and the commit.  A call that       *)
(* raises or returns None without having written rolls back and is a       *)
(* stuttering step here; FilingImporter models what its caller does next.  *)
(* Any worker may call with any lease token that was ever issued: workers  *)
(* stall, lose their connection and come back after their lease was given  *)
(* away.                                                                   *)
(***************************************************************************)
EXTENDS Integers, FiniteSets

CONSTANTS
    Filing,          \* filing identities (issuer, type, period, restatement),
                     \* reviewed or only mentioned by other documents
    Issuer,          \* listed companies
    IssuerOf,        \* the issuer of each filing
    Url,             \* source provenance: url, publication time, audit status
    Checksum,        \* content hashes of downloaded bodies
    Concept,         \* normalized concepts of statement facts
    Instant,         \* those at a date: they have no period_start
    Reported,        \* the lines that parsing a body for a filing returns
    Run,             \* workflow runs, which are also the lease owners
    Null,            \* SQL NULL, and a row that does not exist
    Manifests,       \* the reviewed manifests: partial maps Filing -> Provenance
    RetryErrors,     \* the errors callers give with a RETRYABLE outcome
    QuarantineErrors,\* the errors callers give with a QUARANTINED outcome
    MaxAttempts,     \* FilingImportPolicy.max_attempts
    LeaseTerm,       \* lease_seconds, in ticks of the database clock
    MaxClock         \* bound of the model on the database clock

ErrorClass == {"TRANSIENT", "PROVIDER", "DATABASE", "VALIDATION", "SCHEMA",
               "PROVENANCE", "CONFLICT", "UNKNOWN"}
ErrorSummary == {"LEASE_EXPIRED", "PROVIDER_UNAVAILABLE", "DATABASE_UNAVAILABLE",
                 "VALIDATION_FAILED", "SCHEMA_INVALID", "PROVENANCE_CONFLICT",
                 "ARTIFACT_MISMATCH", "UNKNOWN_FAILURE"}
Error == [class : ErrorClass, summary : ErrorSummary]
LeaseExpired == [class |-> "TRANSIENT", summary |-> "LEASE_EXPIRED"]
ArtifactMismatch == [class |-> "PROVENANCE", summary |-> "ARTIFACT_MISMATCH"]

\* The errors a retryable filing may be claimed again after.
RetryableErrors == {LeaseExpired,
                    [class |-> "PROVIDER", summary |-> "PROVIDER_UNAVAILABLE"],
                    [class |-> "DATABASE", summary |-> "DATABASE_UNAVAILABLE"]}

Provenance == [url : Url, expected : Checksum \cup {Null}]

Terminal == {"ACCEPTED", "QUARANTINED"}
Outcome == Terminal \cup {"RETRYABLE"}
Token == 1..MaxAttempts          \* uuid4 lease tokens, numbered in order of issue
NoToken == 0

Item == [state    : Outcome \cup {"ABSENT", "PENDING", "RUNNING"},
         attempts : 0..MaxAttempts,
         token    : Token \cup {NoToken},
         owner    : Run \cup {Null},
         expiry   : Nat,
         error    : Error \cup {Null},
         artifact : Checksum \cup {Null}]

Attempt == [outcome  : Outcome \cup {"OPEN"},  \* OPEN: finished_at IS NULL
            token    : Token,
            run      : Run,
            error    : Error \cup {Null},
            artifact : Checksum \cup {Null}]

Artifact == [url : Url, status : Terminal \cup {"PENDING"}]

\* A line is a figure of one period: the filing whose header it goes under,
\* and its concept.  A fact is a line stored from an accepted filing; the
\* header of a period remembers the first filing that reported it, and the
\* last, whose url, object and availability it shows.
Line == Filing \X Concept
Fact == [line : Line, source : Filing]
Header == [first : Filing, latest : Filing]

ProfileType == {"general", "bank"}
Label == ProfileType \cup {"none", "unusable"}
IssueCode == ErrorSummary \cup {"ISSUER_PROFILE_REVIEW_REQUIRED"}

ASSUME ConstantsAssumption ==
    /\ IssuerOf \in [Filing -> Issuer]
    /\ Null \notin Checksum \cup Run
    /\ Null \notin Provenance
    /\ Null \notin Error
    /\ Null \notin Artifact
    /\ Null \notin Header
    /\ Instant \subseteq Concept
    /\ Reported \in [Filing -> [Checksum -> SUBSET Line]]
    /\ \A f \in Filing, c \in Checksum : \A l \in Reported[f][c] : IssuerOf[l[1]] = IssuerOf[f]
    /\ Null \notin Attempt
    /\ Null \notin [verdict : Terminal, document : Checksum, by : 0..MaxAttempts]
    /\ MaxAttempts \in Nat \ {0}
    /\ LeaseTerm \in Nat \ {0}
    /\ MaxClock \in Nat
    /\ RetryErrors \subseteq Error
    /\ QuarantineErrors \subseteq Error
    /\ \A m \in Manifests : /\ DOMAIN m \subseteq Filing
                            /\ IsFiniteSet(DOMAIN m)
                            /\ \A f \in DOMAIN m : m[f] \in Provenance

VARIABLES
    now,       \* clock_timestamp() of the database
    reviewed,  \* the immutable provenance columns of each item
    item,      \* the mutable columns of filing_work_items
    attempt,   \* filing_work_attempts, by attempt number
    artifact,  \* source_artifacts, by checksum
    facts,     \* statement_facts
    header,    \* filings
    profile,   \* the verified issuer type of each issuer
    issues,    \* ingestion_issues
    locked     \* the lease whose completion holds the row lock of an item

ledgerVars == <<now, reviewed, item, attempt, artifact, facts, header, profile, issues, locked>>

----------------------------------------------------------------------------
(* Helpers *)

\* Definitions named Fault... are mutants: what the definition that follows
\* would be with a plausible bug.  Nothing uses them; each breaks a property.
LeaseHeld(f, t) ==
    /\ item[f].state = "RUNNING"
    /\ item[f].token = t
    /\ item[f].expiry > now

Lapsed(f) == item[f].state = "RUNNING" /\ item[f].expiry <= now

\* A completion of f is in progress.
Locked(f) == locked[f] # NoToken

FaultKeepsOwner(f) == [item[f] EXCEPT !.state = "RETRYABLE", !.token = NoToken,
                                      !.expiry = 0, !.error = LeaseExpired]

\* The item a lapsed lease leaves behind, and the item a claim starts from.
AfterLapse(f) == [item[f] EXCEPT !.state = "RETRYABLE", !.token = NoToken,
                                 !.owner = Null, !.expiry = 0,
                                 !.error = LeaseExpired]
Recovered(f) == IF Lapsed(f) THEN AfterLapse(f) ELSE item[f]

\* The attempt rows of f once the open one of lease t is finished.
Finish(f, t, outcome, error, c) ==
    [n \in Token |->
        IF attempt[f][n] # Null /\ attempt[f][n].token = t /\ attempt[f][n].outcome = "OPEN"
        THEN [attempt[f][n] EXCEPT !.outcome = outcome, !.error = error,
                                   !.artifact = c]
        ELSE attempt[f][n]]

FaultLeavesAttemptOpen(f) == attempt[f]
FinishLapsed(f) == Finish(f, item[f].token, "RETRYABLE", LeaseExpired, Null)

FaultIgnoresBudget(f) ==
    /\ Recovered(f).state \in {"PENDING", "RETRYABLE"}
    /\ Recovered(f).state = "RETRYABLE" => Recovered(f).error \in RetryableErrors

Claimable(f) ==
    /\ Recovered(f).state \in {"PENDING", "RETRYABLE"}
    /\ Recovered(f).attempts < MaxAttempts
    /\ Recovered(f).state = "RETRYABLE" => Recovered(f).error \in RetryableErrors

\* source_artifacts has one row per checksum: a second registration of the
\* same bytes finds the first row, with the url it was first seen under.
Registered(f, c) ==
    IF artifact[c] = Null
    THEN [url |-> reviewed[f].url, status |-> "PENDING"]
    ELSE artifact[c]

\* The trigger on source_artifacts rejects a status change of an artifact
\* that some finished filing rests on.
DriftBlocked(f, c, status) ==
    /\ Registered(f, c).status # status
    /\ \E g \in Filing : item[g].state \in Terminal /\ item[g].artifact = c

ChecksumDiffers(f, c) ==
    reviewed[f].expected # Null /\ reviewed[f].expected # c

\* finalize_filing_work refuses an artifact that is not the reviewed one.
\* Only a quarantine that says so may carry other bytes, and it must.
ProvenanceRefused(f, c, error) ==
    \/ Registered(f, c).url # reviewed[f].url
    \/ ChecksumDiffers(f, c) # (error = ArtifactMismatch)

FaultInsertsAgain(f, c) == Reported[f][c]

\* statement_facts has one row per header, concept, period_start and unit, and
\* the first one stays.  The period_start of an instant is NULL, which equals
\* nothing: an instant is inserted again by every document that reports it.
NewLines(f, c) ==
    {l \in Reported[f][c] : l[2] \in Instant \/ \A e \in facts : e.line # l}

\* The filings whose headers the facts of a document go under.
Mentioned(f, c) == {l[1] : l \in Reported[f][c]}
Headed(g, f) == [first |-> IF header[g] = Null THEN f ELSE header[g].first, latest |-> f]

ProfileConflict(f, label) ==
    \/ label = "unusable"
    \/ /\ label \in ProfileType
       /\ profile[IssuerOf[f]] \in ProfileType \ {label}

----------------------------------------------------------------------------
(* Transactions *)

Init ==
    /\ now = 0
    /\ reviewed = [f \in Filing |-> Null]
    /\ item = [f \in Filing |->
                 [state |-> "ABSENT", attempts |-> 0, token |-> NoToken,
                  owner |-> Null, expiry |-> 0, error |-> Null,
                  artifact |-> Null]]
    /\ attempt = [f \in Filing |-> [n \in Token |-> Null]]
    /\ artifact = [c \in Checksum |-> Null]
    /\ facts = {}
    /\ header = [f \in Filing |-> Null]
    /\ profile = [i \in Issuer |-> "UNVERIFIED"]
    /\ issues = {}
    /\ locked = [f \in Filing |-> NoToken]

\* The database clock advances, up to the bound MaxClock of the model.
Tick ==
    /\ now < MaxClock
    /\ now' = now + 1
    /\ UNCHANGED <<reviewed, item, attempt, artifact, facts, header, profile, issues, locked>>

\* sync_reviewed_filings: insert what is missing, and refuse the whole batch
\* when one row of it disagrees with the provenance already stored.
FaultSyncOverwrites(m) == TRUE
SyncAccepts(m) == \A f \in DOMAIN m : reviewed[f] \in {Null, m[f]}

SyncReviewed(m) ==
    /\ SyncAccepts(m)
    /\ reviewed' = [f \in Filing |-> IF f \in DOMAIN m THEN m[f] ELSE reviewed[f]]
    /\ item' = [f \in Filing |->
                  IF f \in DOMAIN m /\ item[f].state = "ABSENT"
                  THEN [item[f] EXCEPT !.state = "PENDING"] ELSE item[f]]
    /\ UNCHANGED <<now, attempt, artifact, facts, header, profile, issues, locked>>

\* claim_filing_work that returns a lease.  A lapsed lease is first turned
\* into a retryable failure and its attempt closed, in the same transaction.
\* A locked row is skipped.
Claim(f, r) ==
    /\ ~Locked(f)
    /\ Claimable(f)
    /\ LET t == item[f].attempts + 1
           rows == IF Lapsed(f) THEN FinishLapsed(f) ELSE attempt[f]
       IN /\ item' = [item EXCEPT ![f] =
                        [Recovered(f) EXCEPT !.state = "RUNNING", !.attempts = t,
                                             !.token = t, !.owner = r,
                                             !.expiry = now + LeaseTerm]]
          /\ attempt' = [attempt EXCEPT ![f] =
                           [rows EXCEPT ![t] =
                              [outcome |-> "OPEN", token |-> t, run |-> r,
                               error |-> Null, artifact |-> Null]]]
    /\ UNCHANGED <<now, reviewed, artifact, facts, header, profile, issues, locked>>

\* claim_filing_work that recovers a lapsed lease but may not claim again:
\* it returns None and the recovery commits.
ClaimSpent(f) ==
    /\ ~Locked(f)
    /\ Lapsed(f)
    /\ ~Claimable(f)
    /\ item' = [item EXCEPT ![f] = AfterLapse(f)]
    /\ attempt' = [attempt EXCEPT ![f] = FinishLapsed(f)]
    /\ UNCHANGED <<now, reviewed, artifact, facts, header, profile, issues, locked>>

\* renew_filing_work; it waits for a row lock.
Renew(f, t) ==
    /\ ~Locked(f)
    /\ LeaseHeld(f, t)
    /\ item' = [item EXCEPT ![f].expiry = now + LeaseTerm]
    /\ UNCHANGED <<now, reviewed, attempt, artifact, facts, header, profile, issues, locked>>

FaultTrustsRowLock(f, t, outcome, error, c) ==
    /\ item[f].state = "RUNNING" /\ item[f].token = t
    /\ item' = [item EXCEPT ![f] =
                  [@ EXCEPT !.state = outcome, !.token = NoToken, !.owner = Null,
                            !.expiry = 0, !.error = error, !.artifact = c]]
    /\ attempt' = [attempt EXCEPT ![f] = Finish(f, t, outcome, error, c)]

\* finalize_filing_work as a part of the caller's transaction: the lease must
\* still be live.
Finalize(f, t, outcome, error, c) ==
    /\ LeaseHeld(f, t)
    /\ item' = [item EXCEPT ![f] =
                  [@ EXCEPT !.state = outcome, !.token = NoToken, !.owner = Null,
                            !.expiry = 0, !.error = error, !.artifact = c]]
    /\ attempt' = [attempt EXCEPT ![f] = Finish(f, t, outcome, error, c)]

\* finalize_filing_work called on its own, with a RETRYABLE outcome.
FinalizeRetryable(f, t, error) ==
    /\ ~Locked(f)
    /\ Finalize(f, t, "RETRYABLE", error, Null)
    /\ UNCHANGED <<now, reviewed, artifact, facts, header, profile, issues, locked>>

\* complete_filing_import up to its first check, SELECT ... FOR UPDATE.  What
\* it writes from here to its commit is seen by nobody else.
StartCompletion(f, t) ==
    /\ ~Locked(f)
    /\ LeaseHeld(f, t)
    /\ locked' = [locked EXCEPT ![f] = t]
    /\ UNCHANGED <<now, reviewed, item, attempt, artifact, facts, header, profile, issues>>

\* An error on the way, or a lost connection, undoes a completion.
RollBack(f) ==
    /\ Locked(f)
    /\ locked' = [locked EXCEPT ![f] = NoToken]
    /\ UNCHANGED <<now, reviewed, item, attempt, artifact, facts, header, profile, issues>>

\* complete_filing_import, state ACCEPTED: artifact row, statement facts with
\* their headers, issuer profile (or the issue that replaces it), artifact
\* status and item commit together.
CompleteAccepted(f, t, c, label) ==
    /\ locked[f] = t
    /\ locked' = [locked EXCEPT ![f] = NoToken]
    /\ Reported[f][c] # {}
    /\ ~DriftBlocked(f, c, "ACCEPTED")
    /\ ~ProvenanceRefused(f, c, Null)
    /\ Finalize(f, t, "ACCEPTED", Null, c)
    /\ artifact' = [artifact EXCEPT ![c] =
                      [url |-> Registered(f, c).url, status |-> "ACCEPTED"]]
    /\ facts' = facts \cup [line : NewLines(f, c), source : {f}]
    /\ header' = [g \in Filing |-> IF g \in Mentioned(f, c) THEN Headed(g, f) ELSE header[g]]
    /\ profile' = IF label \in ProfileType /\ ~ProfileConflict(f, label)
                  THEN [profile EXCEPT ![IssuerOf[f]] = label] ELSE profile
    /\ issues' = IF ProfileConflict(f, label)
                 THEN issues \cup {<<c, "ISSUER_PROFILE_REVIEW_REQUIRED">>} ELSE issues
    /\ UNCHANGED <<now, reviewed>>

\* complete_filing_import, state QUARANTINED: the artifact and the reason
\* are kept, no fact is written.
CompleteQuarantined(f, t, c, error) ==
    /\ locked[f] = t
    /\ locked' = [locked EXCEPT ![f] = NoToken]
    /\ ~DriftBlocked(f, c, "QUARANTINED")
    /\ ~ProvenanceRefused(f, c, error)
    /\ Finalize(f, t, "QUARANTINED", error, c)
    /\ artifact' = [artifact EXCEPT ![c] =
                      [url |-> Registered(f, c).url, status |-> "QUARANTINED"]]
    /\ issues' = issues \cup {<<c, error.summary>>}
    /\ UNCHANGED <<now, reviewed, facts, header, profile>>

\* expire_filing_work_leases: the lapsed leases it could lock, in one batch.
ExpireLeases(F) ==
    /\ F # {}
    /\ \A f \in F : ~Locked(f) /\ Lapsed(f)
    /\ item' = [f \in Filing |-> IF f \in F THEN AfterLapse(f) ELSE item[f]]
    /\ attempt' = [f \in Filing |-> IF f \in F THEN FinishLapsed(f) ELSE attempt[f]]
    /\ UNCHANGED <<now, reviewed, artifact, facts, header, profile, issues, locked>>

Next ==
    \/ Tick
    \/ \E m \in Manifests : SyncReviewed(m)
    \/ \E f \in Filing, r \in Run : Claim(f, r)
    \/ \E f \in Filing : ClaimSpent(f)
    \/ \E f \in Filing, t \in Token : Renew(f, t)
    \/ \E f \in Filing, t \in Token, e \in RetryErrors : FinalizeRetryable(f, t, e)
    \/ \E f \in Filing, t \in Token : StartCompletion(f, t)
    \/ \E f \in Filing : RollBack(f)
    \/ \E f \in Filing, t \in Token, c \in Checksum, l \in Label :
          CompleteAccepted(f, t, c, l)
    \/ \E f \in Filing, t \in Token, c \in Checksum, e \in QuarantineErrors :
          CompleteQuarantined(f, t, c, e)
    \/ \E F \in SUBSET Filing : ExpireLeases(F)

Spec == Init /\ [][Next]_ledgerVars
----------------------------------------------------------------------------
(* Durable progress of a manifest, as aggregate_filing_progress reports it *)

AcceptedInRun(f, r) ==
    \E n \in Token :
        /\ attempt[f][n] # Null
        /\ attempt[f][n].run = r
        /\ attempt[f][n].outcome = "ACCEPTED"

Progress(F, r) ==
    [manifest        |-> Cardinality(F),
     accepted        |-> Cardinality({f \in F : item[f].state = "ACCEPTED" /\ AcceptedInRun(f, r)}),
     skippedAccepted |-> Cardinality({f \in F : item[f].state = "ACCEPTED" /\ ~AcceptedInRun(f, r)}),
     quarantined     |-> Cardinality({f \in F : item[f].state = "QUARANTINED"}),
     retryable       |-> Cardinality({f \in F : item[f].state = "RETRYABLE"}),
     leasedElsewhere |-> Cardinality({f \in F : item[f].state = "RUNNING" /\ ~Lapsed(f)}),
     remaining       |-> Cardinality({f \in F : item[f].state # "ACCEPTED"})]

----------------------------------------------------------------------------
(* The table constraints and triggers of migrations 007 and 008.  They are *)
(* not conjuncts of the transactions above: that the repository's own      *)
(* statements never trip them is a property.                               *)

\* CHECK constraints of filing_work_items.
RowConstraints(row) ==
    /\ (row.state = "RUNNING") <=> (row.token # NoToken /\ row.owner # Null /\ row.expiry # 0)
    /\ row.state \in Terminal => row.artifact # Null
    /\ row.state = "QUARANTINED" => row.error # Null

\* enforce_initial_filing_work_state and enforce_filing_work_item_transition.
TransitionAllowed(old, new) ==
    /\ old.state = "ABSENT" => new.state \in {"ABSENT", "PENDING"}
    /\ old.state \in Terminal => new = old
    /\ old.state \in {"PENDING", "RETRYABLE"} =>
          \/ new = old
          \/ new.state = "RUNNING" /\ new.attempts = old.attempts + 1
    /\ old.state = "RUNNING" =>
          IF new.state = "RUNNING"
          THEN /\ new = [old EXCEPT !.expiry = new.expiry]
               /\ new = old \/ new.expiry > old.expiry
          ELSE new.state \in Outcome /\ new.attempts = old.attempts
    /\ new.state # "RUNNING" => new.token = NoToken /\ new.owner = Null
    /\ new.state = "RETRYABLE" => new.error # Null

\* enforce_filing_work_acceptance as migration 008 leaves it.
AcceptanceAllowed(row, source, document) ==
    row.state \in Terminal =>
        /\ document.status = row.state
        /\ document.url = source.url
        /\ (source.expected # Null /\ source.expected # row.artifact)
              <=> (row.state = "QUARANTINED" /\ row.error = ArtifactMismatch)

\* enforce_filing_work_attempt_insert and enforce_filing_work_attempt_update,
\* for the n-th attempt of an item and the rows that its item has in the
\* transaction: an attempt is opened for the lease its item has just got, and
\* finished once, as its item is, with nothing else of it changed.
AttemptAllowed(old, new, n, rows) ==
    \/ new = old
    \/ /\ old = Null
       /\ new.outcome = "OPEN"
       /\ \E row \in rows : row.state = "RUNNING" /\ row.attempts = n /\ row.token = new.token
    \/ /\ old # Null /\ old.outcome = "OPEN"
       /\ \E row \in rows :
             /\ row.state \in Outcome /\ row.attempts = n
             /\ new = [old EXCEPT !.outcome = row.state, !.error = row.error,
                                  !.artifact = row.artifact]

----------------------------------------------------------------------------
(* Properties *)

\* Every column holds a value of its declared type.
TypeOK ==
    /\ now \in Nat
    /\ reviewed \in [Filing -> Provenance \cup {Null}]
    /\ item \in [Filing -> Item]
    /\ attempt \in [Filing -> [Token -> Attempt \cup {Null}]]
    /\ artifact \in [Checksum -> Artifact \cup {Null}]
    /\ facts \subseteq Fact
    /\ header \in [Filing -> Header \cup {Null}]
    /\ profile \in [Issuer -> ProfileType \cup {"UNVERIFIED"}]
    /\ issues \subseteq Checksum \X IssueCode
    /\ locked \in [Filing -> Token \cup {NoToken}]

OpenLease(f, n) == item[f].state = "RUNNING" /\ item[f].attempts = n

\* The attempt history is exact: attempts 1..attempt_count exist, each for a
\* lease of its own; the only unfinished one is the lease of a running item;
\* and the last finished one tells the same story as the item.
AttemptsFollowLeases ==
    \A f \in Filing :
        /\ \A n \in Token :
              /\ (attempt[f][n] # Null) <=> (n <= item[f].attempts)
              /\ attempt[f][n] # Null => attempt[f][n].token = n
              /\ attempt[f][n] # Null =>
                    (attempt[f][n].outcome = "OPEN" <=> OpenLease(f, n))
        /\ item[f].state = "RUNNING" =>
              /\ item[f].attempts \in Token
              /\ item[f].token = item[f].attempts
              /\ item[f].owner = attempt[f][item[f].attempts].run
        /\ item[f].state \in Outcome =>
              /\ item[f].attempts \in Token
              /\ attempt[f][item[f].attempts].outcome = item[f].state
              /\ attempt[f][item[f].attempts].error = item[f].error
              /\ attempt[f][item[f].attempts].artifact = item[f].artifact
        /\ item[f].state \in {"ABSENT", "PENDING"} => item[f].attempts = 0
        /\ (item[f].state = "ABSENT") <=> (reviewed[f] = Null)

\* A claim over a lapsed lease updates the row twice in one transaction.
Intermediate(f, new) == IF Lapsed(f) /\ new # item[f] THEN AfterLapse(f) ELSE item[f]

\* No transaction of the repository is rejected by the triggers and CHECK
\* constraints that guard the ledger tables against it.
GuardsNeverTrip ==
    [][\A f \in Filing :
          /\ RowConstraints(item'[f])
          /\ TransitionAllowed(item[f], Intermediate(f, item'[f]))
          /\ TransitionAllowed(Intermediate(f, item'[f]), item'[f])
          /\ \A n \in Token : AttemptAllowed(attempt[f][n], attempt'[f][n], n,
                                            {Intermediate(f, item'[f]), item'[f]})
          /\ item'[f] # item[f] =>
                AcceptanceAllowed(item'[f], reviewed'[f], artifact'[item'[f].artifact])]_ledgerVars

\* The lines that the document of an accepted filing reports.
Accepted(f) == item[f].state = "ACCEPTED"
Evidence(f) == Reported[f][item[f].artifact]

\* Every stored fact was reported by the document of an accepted filing: a
\* completion that fails half way or comes too late leaves none, and neither
\* does a quarantined document.  The filing it is stored under may be another
\* one, undecided or quarantined.
FactsAreAccepted ==
    \A e \in facts : Accepted(e.source) /\ e.line \in Evidence(e.source)

\* All lines of an accepted document are stored: an instant as this filing
\* reports it, a figure over a period as the first filing did.
AcceptedFactsAreStored ==
    /\ \A f \in Filing : Accepted(f) =>
          \A l \in Evidence(f) :
              \E e \in facts : e.line = l /\ (l[2] \in Instant => e.source = f)
    /\ \A d, e \in facts : d.line = e.line /\ d.line[2] \notin Instant => d = e

\* Facts have a header, and a header shows accepted filings that mention it.
HeadersAreAccepted ==
    /\ \A e \in facts : header[e.line[1]] # Null
    /\ \A g \in Filing : header[g] # Null =>
          \A s \in {header[g].first, header[g].latest} :
              Accepted(s) /\ g \in Mentioned(s, item[s].artifact)

\* A finished filing rests on a stored document with its own verdict, its
\* reviewed url and the reviewed bytes, unless it is quarantined because the
\* bytes differ.  Other filings may share the document.
EvidenceMatchesReview ==
    \A f \in Filing :
        item[f].state \in Terminal =>
            /\ item[f].artifact # Null
            /\ artifact[item[f].artifact] # Null
            /\ AcceptanceAllowed(item[f], reviewed[f], artifact[item[f].artifact])

\* Evidence and verdicts belong together, across filings whose documents
\* report each other's periods.
EvidenceIsSound ==
    /\ FactsAreAccepted
    /\ AcceptedFactsAreStored
    /\ HeadersAreAccepted
    /\ EvidenceMatchesReview

\* A quarantine is always explained by an ingestion issue of its document.
QuarantineExplained ==
    \A f \in Filing :
        item[f].state = "QUARANTINED" => <<item[f].artifact, item[f].error.summary>> \in issues

\* An issuer's profile is verified only by an accepted filing of that issuer.
ProfileFromAcceptedFiling ==
    \A i \in Issuer :
        profile[i] # "UNVERIFIED" =>
            \E f \in Filing : IssuerOf[f] = i /\ item[f].state = "ACCEPTED"

\* The batch report adds up: each accepted filing is credited to exactly one
\* run, and what is not accepted remains.
ProgressAddsUp ==
    \A F \in SUBSET {f \in Filing : reviewed[f] # Null} :
        /\ \A r \in Run :
              /\ Progress(F, r).accepted + Progress(F, r).skippedAccepted
                    + Progress(F, r).remaining = Progress(F, r).manifest
              /\ Progress(F, r).quarantined + Progress(F, r).retryable
                    + Progress(F, r).leasedElsewhere <= Progress(F, r).remaining
        /\ \A f \in F : item[f].state = "ACCEPTED" =>
              Cardinality({r \in Run : Progress({f}, r).accepted = 1}) = 1

\* What a completion, a claim and a recovery write to the other tables agrees
\* with the item: attempts, issues, profiles and the report of a batch.
LedgerAddsUp ==
    /\ AttemptsFollowLeases
    /\ QuarantineExplained
    /\ ProfileFromAcceptedFiling
    /\ ProgressAddsUp

\* What a decided filing rests on: its row and its document.
Kept(f) ==
    /\ item'[f] = item[f]
    /\ artifact'[item[f].artifact] = artifact[item[f].artifact]

Accepts(f) == ~Accepted(f) /\ item'[f].state = "ACCEPTED"

\* A filing is decided only under a lease that is live at the commit, whoever
\* still holds an older one and however long ago its completion started, and
\* for good.  Stored facts are never changed or removed.  Facts are added, and
\* a header shows another document, only in the step that accepts the filing
\* they come from; the header's first document stays.  A verified issuer type
\* is never turned into the other one.
SettledForever ==
    [][/\ \A f \in Filing :
             /\ item[f].state \in Terminal => Kept(f)
             /\ item[f].state \notin Terminal /\ item'[f].state \in Terminal =>
                   item[f].state = "RUNNING" /\ item[f].expiry > now
             /\ header'[f] # header[f] =>
                   /\ \E s \in Filing : header'[f].latest = s /\ Accepts(s)
                   /\ header[f] # Null => header'[f].first = header[f].first
             /\ (\E e \in facts' \ facts : e.source = f) => Accepts(f)
       /\ facts \subseteq facts'
       /\ \A i \in Issuer :
             profile[i] # "UNVERIFIED" => profile'[i] = profile[i]]_ledgerVars
----------------------------------------------------------------------------
(* The ledger implements FilingDecision *)

DecisionOf(f) ==
    IF item[f].state \in Terminal
    THEN [verdict |-> item[f].state, document |-> item[f].artifact, by |-> item[f].attempts]
    ELSE Null

Decision == INSTANCE FilingDecision WITH
    granted <- [f \in Filing |-> item[f].attempts],
    decision <- [f \in Filing |-> DecisionOf(f)],
    evidence <- facts,
    shown <- [f \in Filing |-> IF header[f] = Null THEN Null ELSE header[f].latest]

\* Leases, retries, expiry, shared documents and documents that report each
\* other's periods implement deciding each reviewed filing at most once, with
\* its evidence, by its newest worker.
ImplementsDecision == Decision!Spec
=============================================================================
