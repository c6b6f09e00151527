--------------------------- MODULE CanonicalStore ---------------------------
(***************************************************************************)
(* The canonical evidence tables: the ingestion of reviewed interchange    *)
(* files, the refresh of market bars, and the point-in-time questions that *)
(* research asks of them.                                                  *)
(*                                                                         *)
(* Every canonical table is a part of `store`, a set of rows with the keys *)
(* of its table.  What differs between the tables is what a second row of  *)
(* the same key does: nothing, an overwrite, or, for statement facts, a    *)
(* new header over the facts that are kept.                                *)
(*                                                                         *)
(* An ingestion and a refresh do not overlap: both commands run under the  *)
(* production lock in its exclusive mode (ProductionDbLock).               *)
(*                                                                         *)
(* Time is counted in evenings: session d closes at d.  Abstracted: the    *)
(* columns of a row are one value; one concept over a period stands for    *)
(* all the concepts of a filing; validity ends (effective_to, active_to)   *)
(* are open; of the lists in the diagnostics, the periods.                 *)
(***************************************************************************)
EXTENDS Integers, FiniteSets, FiniteSetsExt

\* Definitions named Fault... are mutants of the definition that follows them:
\* plausible bugs, each of which breaks a property.  Nothing uses them.

CONSTANTS
    Ticker,       \* the issuers of the universe
    Session,      \* trading days, as the evening they close; other days are holidays
    Close,        \* the prices a provider may answer for a session
    File,         \* the artifacts of the source manifest: [kind, rows, wellFormed]
    Accepted,     \* files that were ingested before
    MonthLength,  \* evenings in a month
    MaxTime,      \* bound of the model on time
    MaxIngests,   \* bound of the model on ingestions
    MaxGap,       \* bound of the model on the sessions missing in a history
    MAX_DIAGNOSTIC_ITEMS, \* how many values a list of the diagnostics may have
    MaxRefreshes  \* bound of the model on market refreshes

InsertOnly == {"market_bars_csv", "corporate_actions_csv", "disclosure_events_csv"}
IssuerFree == {"fx_rates_csv", "market_sessions_csv", "policy_rates_csv"}
PerIssuer == {"issuer_profiles_csv", "lq45_constituents_csv", "shares_history_csv"}
SCHEMAS == InsertOnly \cup IssuerFree \cup PerIssuer \cup {"statement_facts_csv"}

SameKey(r, s) == /\ r.kind = s.kind /\ r.ticker = s.ticker
                 /\ r.key = s.key /\ r.version = s.version

RowOf(f, r) == [kind |-> f.kind, ticker |-> r.ticker, key |-> r.key, version |-> r.version,
                value |-> r.value, available |-> r.available, header |-> r.available]

RowsOf(F) == UNION {{RowOf(f, r) : r \in f.rows} : f \in F}

Members(F) == {r.ticker : r \in UNION {f.rows : f \in {x \in F : x.kind = "lq45_constituents_csv"}}}

ASSUME StoreAssumption ==
    /\ Session \subseteq 1..MaxTime
    /\ MonthLength \in Nat \ {0}
    /\ {MaxTime, MaxIngests, MaxGap, MaxRefreshes, MAX_DIAGNOSTIC_ITEMS} \subseteq Nat
    /\ IsFiniteSet(Ticker) /\ IsFiniteSet(Accepted)
    /\ Members(File \cup Accepted) \subseteq Ticker

\* What the files hold: a well-formed file has one row of a key, and only
\* sessions have prices.
ASSUME FileAssumption ==
    \A f \in File \cup Accepted :
        /\ f.wellFormed \in BOOLEAN /\ IsFiniteSet(f.rows)
        /\ f.wellFormed =>
              /\ \A r \in f.rows : {r.key, r.version, r.available} \subseteq Nat
              /\ \A r, s \in f.rows : SameKey(RowOf(f, r), RowOf(f, s)) => r = s
              /\ f.kind = "market_bars_csv" => \A r \in f.rows : r.key \in Session

\* The files that were ingested before were imported one by one, and none has
\* revised another.
ASSUME SeedAssumption ==
    /\ \A f \in Accepted : f.wellFormed
    /\ \A r \in RowsOf(Accepted) : /\ r.kind \in SCHEMAS
                                   /\ r.kind \notin IssuerFree => r.ticker \in Members(Accepted)
    /\ \A r, s \in RowsOf(Accepted) : SameKey(r, s) => r = s

VARIABLES
    now,       \* the evening it is
    issuers,   \* tickers with a row in issuers
    store,     \* the rows of the canonical tables
    artifacts, \* parse_status of each file's source_artifacts row, or "none"
    issues,    \* files with an ingestion_issues row
    ingest,    \* the source that ingest-manifest works on, and where it is
    ingests,   \* how many sources were ingested
    refresh,   \* the market refresh: its stage, `observed` and the sessions it got
    refreshes  \* how many refreshes there were

storeVars == <<now, issuers, store, artifacts, issues, ingest, ingests, refresh, refreshes>>

Idle == [stage |-> "idle", observed |-> 0, bars |-> {}]

Init ==
    /\ now = 0
    /\ issuers = Members(Accepted)
    /\ store = RowsOf(Accepted)
    /\ artifacts = [f \in File |-> IF f \in Accepted THEN "ACCEPTED" ELSE "none"]
    /\ issues = {}
    /\ ingest = <<>>
    /\ ingests = 0
    /\ refresh = Idle
    /\ refreshes = 0

Tick == /\ now < MaxTime
        /\ now' = now + 1
        /\ UNCHANGED <<issuers, store, artifacts, issues, ingest, ingests, refresh, refreshes>>

----------------------------------------------------------------------------
(* Point-in-time questions *)

Rows(kind, t) == {r \in store : r.kind = kind /\ r.ticker = t}

\* Rights without a ratio or a subscription price are stored under quarantine.
Quarantined(r) == r.kind = "corporate_actions_csv" /\ r.value = "rights without terms"

\* The WHERE clause the as-of queries share.  `header` is the available_at of
\* the filing a fact belongs to, and of other rows their own.
KnownAt(r, asOf) == r.available <= asOf /\ r.header <= asOf /\ ~Quarantined(r)

Known(kind, t, asOf) == {r \in Rows(kind, t) : KnownAt(r, asOf)}

\* DISTINCT ON (key) ... ORDER BY version DESC
Latest(rows) == {r \in rows : \A s \in rows : s.key = r.key => s.version <= r.version}

\* ORDER BY key DESC LIMIT 1
Newest(rows) == {r \in rows : \A s \in rows : s.key <= r.key}

MarketBarsAsOf(t, asOf) == Latest(Known("market_bars_csv", t, asOf))
FactsAsOf(t, asOf) == Latest(Known("statement_facts_csv", t, asOf))
CorporateActionsAsOf(t, asOf) == Known("corporate_actions_csv", t, asOf)
SharesAsOf(t, asOf) ==
    Newest({r \in Known("shares_history_csv", t, asOf) : r.key <= asOf})

\* The direct rate of a currency into the issuers' one, else the inverse of the
\* opposite rate unless that is zero.
FxRateAsOf(rateDate, asOf) ==
    LET rate(pair) == Newest({r \in Known("fx_rates_csv", pair, asOf) : r.key <= rateDate})
    IN  IF rate("USDIDR") # {} THEN rate("USDIDR")
        ELSE {r \in rate("IDRUSD") : r.value # "zero"}

ConstituentsAsOf(day) ==
    {t \in issuers : \E r \in Rows("lq45_constituents_csv", t) : r.key <= day}

\* Facts in a currency without a rate leave the issuer without usable facts.
UsableFacts(t, asOf) ==
    IF \E f \in FactsAsOf(t, asOf) : f.value = "usd" /\ FxRateAsOf(f.key, asOf) = {}
    THEN {}
    ELSE FactsAsOf(t, asOf)

\* build_factor_inputs takes the profile from the constituents' rows, and calls
\* it verified as soon as profile_verified_at is set.
FactorProfile(t) == Rows("issuer_profiles_csv", t)

\* The facts behind the readiness diagnostics, selected by a query of their own,
\* and the periods it returns of them: the first ones, up to one more than the
\* diagnostics may list.
EligibleFacts(t, asOf) ==
    {r \in Rows("statement_facts_csv", t) : r.header <= asOf /\ r.available <= asOf}

FaultRowLimit == MAX_DIAGNOSTIC_ITEMS

RowLimit == MAX_DIAGNOSTIC_ITEMS + 1

FirstOf(S, n) == {x \in S : Cardinality({y \in S : y < x}) < n}

PeriodEvidence(t, asOf) == FirstOf({r.key : r \in EligibleFacts(t, asOf)}, RowLimit)

\* The report of an issuer lists all of the periods, or none and an error.
PeriodsValid(t, asOf) == Cardinality(PeriodEvidence(t, asOf)) <= MAX_DIAGNOSTIC_ITEMS

DiagnosticPeriods(t, asOf) ==
    IF PeriodsValid(t, asOf) THEN PeriodEvidence(t, asOf) ELSE {}

ReadinessProfile(t, asOf) == {r \in Rows("issuer_profiles_csv", t) : r.available <= asOf}

\* Every row that decides one issuer's row of the factor frame.
FactorInputs(t, asOf) ==
    UNION {UsableFacts(t, asOf), MarketBarsAsOf(t, asOf), CorporateActionsAsOf(t, asOf),
           SharesAsOf(t, asOf), FactorProfile(t)}

----------------------------------------------------------------------------
(* The session calendar *)

Status(day) == {r.value : r \in {s \in Rows("market_sessions_csv", "IDX") : s.key = day}}

FaultCountsCompleted(session, onDate) ==
    Cardinality({d \in session + 1 .. onDate : Status(d) = {"COMPLETED"}})

TradingDays(session, onDate) ==
    Cardinality({d \in session + 1 .. onDate : Status(d) \in {{"SCHEDULED"}, {"COMPLETED"}}})

CalendarKnown == \E d \in 1..MaxTime : Status(d) \in {{"SCHEDULED"}, {"HOLIDAY"}, {"HALTED"}}

\* expected_session_age, and the estimate of its callers when there is no
\* calendar: every weekday counts.
SessionAge(session, onDate) ==
    IF CalendarKnown THEN TradingDays(session, onDate)
    ELSE Cardinality(session + 1 .. onDate)

Month(d) == (d - 1) \div MonthLength

CompletedMonthEnds ==
    LET completed == {d \in 1..MaxTime : Status(d) = {"COMPLETED"}}
    IN  {d \in completed : \A e \in completed : Month(e) = Month(d) => e <= d}

\* rebuild_monthly_panel: the issuers and month ends that get a factor row.
MonthlyPanel == {td \in Ticker \X CompletedMonthEnds : td[1] \in ConstituentsAsOf(td[2])}

----------------------------------------------------------------------------
(* Ingestion of a source: acquire, register, archive, parse, import, accept *)

\* parse_canonical_csv: a registered schema, its columns, a record, valid dates.
WellFormed(f) == f.kind \in SCHEMAS /\ f.rows # {} /\ f.wellFormed

\* The rows of a file the import accepts; one that it refuses rolls all back.
FaultSkipsUnknown(f, r) == f.kind \in SCHEMAS

RowAccepted(f, r) ==
    /\ f.kind \in SCHEMAS
    /\ f.kind \notin IssuerFree \cup {"lq45_constituents_csv"} => r.ticker \in issuers
    /\ f.kind = "issuer_profiles_csv" => r.value \in {"general", "bank"}

FaultOverwrites(old, new) == new

\* What ON CONFLICT makes of the stored row.
OnConflict(old, new) ==
    CASE new.kind \in InsertOnly -> old
      [] new.kind = "statement_facts_csv" -> [old EXCEPT !.header = new.available]
      [] OTHER -> new

Upserted(rows) ==
    {IF \E n \in rows : SameKey(n, r) THEN OnConflict(r, CHOOSE n \in rows : SameKey(n, r)) ELSE r
        : r \in store}
    \cup {n \in rows : ~\E r \in store : SameKey(n, r)}

\* parse_canonical_csv and import_canonical_records, in one transaction.
ImportCanonicalRecords(f) ==
    /\ WellFormed(f)
    /\ \A r \in f.rows : RowAccepted(f, r)
    /\ store' = Upserted({RowOf(f, r) : r \in f.rows})
    /\ issuers' = IF f.kind = "lq45_constituents_csv"
                  THEN issuers \cup {r.ticker : r \in f.rows} ELSE issuers

\* The manifest lists what has been published: no row of a source is from the
\* future.  An artifact that is already known keeps its status.
RegisterSource(f) ==
    /\ ingest = <<>> /\ refresh.stage = "idle"
    /\ ingests < MaxIngests
    /\ \A r \in f.rows : r.available <= now
    /\ ingests' = ingests + 1
    /\ ingest' = <<f, "registered">>
    /\ artifacts' = [artifacts EXCEPT ![f] = IF @ = "none" THEN "PENDING" ELSE @]
    /\ UNCHANGED <<now, issuers, store, issues, refresh, refreshes>>

ImportSource(f) ==
    /\ ingest = <<f, "registered">>
    /\ ImportCanonicalRecords(f)
    /\ ingest' = <<f, "imported">>
    /\ UNCHANGED <<now, artifacts, issues, ingests, refresh, refreshes>>

AcceptSource(f) ==
    /\ ingest = <<f, "imported">>
    /\ artifacts' = [artifacts EXCEPT ![f] = "ACCEPTED"]
    /\ ingest' = <<>>
    /\ UNCHANGED <<now, issuers, store, issues, ingests, refresh, refreshes>>

\* Any failure after the registration: of the archive, of the parser, of the
\* import, of its commit's answer or of the status.
QuarantineSource(f) ==
    /\ ingest \in {<<f, "registered">>, <<f, "imported">>}
    /\ artifacts' = [artifacts EXCEPT ![f] = "QUARANTINED"]
    /\ ingest' = <<f, "quarantined">>
    /\ UNCHANGED <<now, issuers, store, issues, ingests, refresh, refreshes>>

RecordIngestionIssue(f) ==
    /\ ingest = <<f, "quarantined">>
    /\ issues' = issues \cup {f}
    /\ ingest' = <<>>
    /\ UNCHANGED <<now, issuers, store, artifacts, ingests, refresh, refreshes>>

IngestionDies ==
    /\ ingest # <<>>
    /\ ingest' = <<>>
    /\ UNCHANGED <<now, issuers, store, artifacts, issues, ingests, refresh, refreshes>>

----------------------------------------------------------------------------
(* The market refresh *)

Closed == {d \in Session : d <= now}

\* `observed` is taken before the providers are asked.
StartRefresh ==
    /\ refresh.stage = "idle" /\ ingest = <<>>
    /\ refreshes < MaxRefreshes
    /\ ConstituentsAsOf(now) = Ticker
    /\ refreshes' = refreshes + 1
    /\ refresh' = [stage |-> "fetching", observed |-> now, bars |-> {}]
    /\ UNCHANGED <<now, issuers, store, artifacts, issues, ingest, ingests>>

\* A retrieved history: the closes of the sessions in S, which may have gaps.
History(T, S, close) == {[ticker |-> t, key |-> d, value |-> close] : t \in T, d \in S}

\* A row whose checksum is the one of the newest version is skipped, another
\* becomes the next version.
Stored(b) == {r \in Rows("market_bars_csv", b.ticker) : r.key = b.key}

FaultFirstVersion(b) == 1

NextVersion(b) == Max({r.version : r \in Stored(b)} \cup {0}) + 1

Unchanged(b) == \E r \in Stored(b) : r.version = NextVersion(b) - 1 /\ r.value = b.value

NewVersions(bars, at) ==
    {[kind |-> "market_bars_csv", ticker |-> b.ticker, key |-> b.key, version |-> NextVersion(b),
      value |-> b.value, available |-> at, header |-> at] : b \in {x \in bars : ~Unchanged(x)}}

\* The histories that arrive before the timeout are stored before any gate, and
\* stamped with the time the refresh started.
ImportYahooMarketHistories(T, S, close) ==
    /\ refresh.stage = "fetching"
    /\ S \subseteq Closed
    /\ Cardinality(Closed \ S) <= MaxGap
    /\ store' = store \cup NewVersions(History(T, S, close), refresh.observed)
    /\ refresh' = [refresh EXCEPT !.stage = "stored",
                      !.bars = {[ticker |-> t, key |-> d] : t \in T, d \in S}]
    /\ UNCHANGED <<now, issuers, artifacts, issues, ingest, ingests, refreshes>>

\* The gates of the refresh: every history ends in the same session, and not
\* more than one trading day has gone by.
RefreshReady ==
    LET last == {d \in Session : \A t \in Ticker : \E b \in refresh.bars : b.ticker = t /\ b.key = d}
    IN  {d \in last : (\A e \in last : e <= d) /\ SessionAge(d, refresh.observed) <= 1}

RecordCompletedMarketSession(d) ==
    /\ refresh.stage = "stored"
    /\ d \in RefreshReady
    /\ store' = Upserted({[kind |-> "market_sessions_csv", ticker |-> "IDX", key |-> d,
                           version |-> 1, value |-> "COMPLETED", available |-> 0, header |-> 0]})
    /\ refresh' = Idle
    /\ UNCHANGED <<now, issuers, artifacts, issues, ingest, ingests, refreshes>>

\* A refresh that is not ready, fails or dies.
RefreshEnds ==
    /\ refresh.stage # "idle"
    /\ refresh' = Idle
    /\ UNCHANGED <<now, issuers, store, artifacts, issues, ingest, ingests, refreshes>>

StoreNext ==
    \/ Tick
    \/ \E f \in File : \/ RegisterSource(f) \/ ImportSource(f) \/ AcceptSource(f)
                       \/ QuarantineSource(f) \/ RecordIngestionIssue(f)
    \/ IngestionDies
    \/ StartRefresh
    \/ \E T \in SUBSET Ticker, S \in SUBSET Session, close \in Close :
          ImportYahooMarketHistories(T, S, close)
    \/ \E d \in Session : RecordCompletedMarketSession(d)
    \/ RefreshEnds

----------------------------------------------------------------------------
(* Properties *)

\* Types of the ingestion and the refresh; every row belongs to a table, and no
\* two rows share a key.
StoreTypeOK ==
    /\ now \in 0..MaxTime
    /\ issuers \subseteq Ticker
    /\ \A r \in store : r.kind \in SCHEMAS
    /\ \A r, s \in store : SameKey(r, s) => r = s
    /\ artifacts \in [File -> {"none", "PENDING", "ACCEPTED", "QUARANTINED"}]
    /\ issues \subseteq File
    /\ refresh.stage \in {"idle", "fetching", "stored"}
    /\ refresh.observed \in 0..now
    /\ ingests \in 0..MaxIngests /\ refreshes \in 0..MaxRefreshes

\* An accepted source left a row for every key it has, of a known issuer: a
\* file is imported whole or not at all, whatever failed around the import
\* (ingest_manifest, import_canonical_records).
AcceptedIsStored ==
    \A f \in File : artifacts[f] = "ACCEPTED" =>
        \A r \in f.rows :
            /\ \E s \in store : SameKey(RowOf(f, r), s)
            /\ f.kind \notin IssuerFree => r.ticker \in issuers

\* What was knowable of an issuer's prices and corporate actions at a past time
\* is not changed by rows that became available later: revisions are new
\* versions, and an import never replaces a stored one (market_bars_as_of,
\* corporate_actions_as_of).
PastPricesAreFixed ==
    [][store' # store => \A t \in Ticker, asOf \in 0..MaxTime :
          (\A r \in store' \ store : r.available > asOf)
             => /\ MarketBarsAsOf(t, asOf)' = MarketBarsAsOf(t, asOf)
                /\ CorporateActionsAsOf(t, asOf)' = CorporateActionsAsOf(t, asOf)]_store

\* The calendar files of the manifest agree on which days are sessions: they
\* differ in whether a session is over yet.
CalendarAgrees ==
    \A f \in {x \in File \cup Accepted : x.kind = "market_sessions_csv"} : \A r \in f.rows :
        /\ r.version = 1
        /\ r.value \in {"SCHEDULED", "COMPLETED"} <=> r.key \in Session

\* While a calendar is known, no ingestion and no refresh makes a session look
\* more recent than it did: the source manifest is ingested again with every
\* import run and lists as scheduled the sessions that are completed by now
\* (expected_session_age, record_completed_market_session).
ReingestNeverFreshens ==
    [][(store' # store /\ CalendarKnown) =>
          \A d \in Session, on \in 0..MaxTime : SessionAge(d, on)' >= SessionAge(d, on)]_store

\* The diagnostics of a blocked candidate list the periods of the facts that the
\* factor frame of the same cutoff was built from, and no others, though the two
\* are separate queries; the frame may also have had none, for want of a rate.  A
\* list that the query cut short is never passed off as whole: it is reported as
\* an error, and only when there are too many periods to list
\* (readiness_evidence_as_of, merge_readiness_evidence, build_factor_inputs).
DiagnosticsMatchFacts ==
    \A t \in Ticker, asOf \in 0..now :
        LET known == {r.key : r \in FactsAsOf(t, asOf)}
            used == {r.key : r \in UsableFacts(t, asOf)}
            valid == PeriodsValid(t, asOf)
        IN  /\ valid <=> Cardinality(known) <= MAX_DIAGNOSTIC_ITEMS
            /\ valid => DiagnosticPeriods(t, asOf) = known
            /\ used \in {{}, known}

\* "No evidence becomes eligible before its `available_at`"
\* (docs/architecture/data-lifecycle.md): the factor row of a month end rests on
\* what was available then, and names a profile that the diagnostics of that
\* cutoff name too (rebuild_monthly_panel, build_factor_inputs).
NoLookAhead ==
    \A td \in MonthlyPanel :
        /\ \A r \in FactorInputs(td[1], td[2]) : r.available <= td[2]
        /\ FactorProfile(td[1]) = ReadinessProfile(td[1], td[2])
=============================================================================
