# PastiCuan: a TLA+ verification of the research pipeline

PastiCuan collects filings and prices of Indonesian listed companies, turns
them into signed research snapshots, and serves those through a Telegram bot.
This directory models the parts of the program where actors interleave, fail
and retry, checks them with TLC on small instances and proves the most
important results with TLAPS for every value of the constants.  Every
definition is translated from the Python and SQL sources; `PROJECT.json`
names the lines.

## The system

GitHub Actions workflows run command-line jobs against one PostgreSQL
database (Supabase) and one object store (R2).  The bot only reads.  Jobs
interact through the database alone: tables, row locks and advisory locks.

| component | state | operations | what is hard | what makes it correct |
|---|---|---|---|---|
| Filing-work ledger (`storage/repository.py`, migrations 007, 008) | one work item per reviewed filing, one attempt per lease, artifacts, facts, issuer profiles, issues | sync, claim, renew, finalize, complete, expire, progress | leases that lapse under a running worker, half-done completions, shared documents, documents that repeat earlier periods, database triggers | each filing is decided once, by the holder of the newest lease, with evidence that matches its review |
| Filing importer (`data/idx_filing_importer.py`) | worker-local rows, snapshot of the states, retry loop, report; a session lock per filing | download, archive, parse, complete, retry, report | stale snapshots, lost answers, lost sessions, a dozen exits of one loop | the report says what is durable; every import ends; nothing is left behind |
| Production lock (`operations/production_db_lock.py`) | advisory lock of a session, one child process | acquire, poll, run, release | the lock ends with the session, not with the child | incompatible writers are serialized, or the overlap is reported |
| Import workflow (`.github/workflows/idx-filings.yml`) | job results of one run | prepare, eight shards, aggregate, request a refresh | partial runs, re-runs with the same run id | a refresh only follows a complete import |
| Filing manifest (`data/filing_manifest.py`, `data/idx_reports.py`, `scripts/ci/validate_manifest.py`) | two JSON files on main, a rolling branch, pull requests | discover, merge the draft, validate, review, squash | drafts and requests that are merged in any order, one rule written in two programs | main always passes its own validators; what discovery collected stays mergeable |
| Canonical ingestion (`operations/research_cli.py`, `storage/repository.py`, `data/parsers.py`, `data/idx_xbrl.py`) | canonical tables, artifacts, issues | ingest-manifest, import records, refresh prices, the as-of queries | re-ingestion, revisions, refreshes that commit late, parts of one file in separate transactions | what was knowable at a time does not change afterwards; what is accepted is stored |
| Signal outcomes (`analysis/outcomes.py`) | outcomes per signal and horizon | evaluate | two evaluations of one signal from different versions of its bars | an outcome is judged when it is ripe, once |
| Daily research (`operations/research_cli.py`, `job_outcomes.py`) | job record, stages, exit code | preflight, market refresh, quant, scan, outcomes | three scheduled attempts, two publications in two transactions, crashes between them | nothing is published that failed a gate; the exit code says what happened |
| Publication (`storage/repository.py`, `analysis/signing.py`) | quant and scan snapshots, model versions, validation runs | build, judge, approve, publish, validate | retried and competing approvals, gates written twice, a run judged again | one release of a candidate; a validated one names a run that passed |
| Analytics (`analysis/*`) | none | scores, ratings, buy ranges, entry states | thresholds, price fractions; floating point | a favorable entry can be carried out and is earned |
| Readiness diagnostics (`operations/readiness_diagnostics.py`) | none | explain a blocked candidate | a second query, with limits of its own | they describe the evidence that was judged, and do not pass a part for the whole |
| Snapshot caches (`analysis/snapshots.py`, `scan_snapshots.py`) | last good snapshot, time to live | get, refresh | database failures, ageing while cached | a reader is told what was published, and lags by one interval |
| Delivery (`bot.py`, `bot_webhook.py`) | seen update ids | webhook, commands, health check | redelivery, failures, restarts | an update is acknowledged only when it was taken, and in the end |
| Providers, other CI gates, `health.py`, alerts | none | HTTP, static checks, read-only queries | | not modelled |

## Modules

### FilingLedger, and its promise FilingDecision

`FilingLedger` has one variable per table (`item`, `attempt`, `artifact`,
`facts`, `header`, `profile`, `issues`), `reviewed` for the provenance columns
that no statement updates, `now` for the database clock and `locked` for the row
lock of a completion.  An action is one committed transaction of
`SnapshotRepository`: `SyncReviewed`, `Claim`, `ClaimSpent` (the claim that
recovers a lapsed lease and grants nothing), `Renew`, `FinalizeRetryable`,
`ExpireLeases`.  A call that raises has rolled back and is a stuttering step.
The callers are unconstrained: any run may present any lease token that was
ever issued, at any time, which covers every stalled, restarted or duplicated
worker.

A completion tests its lease twice, and is two steps.  `StartCompletion` is the
first test, `SELECT ... FOR UPDATE`: from then on the row is locked, so that
claims and expiries skip it (`SKIP LOCKED`) and renewals and other completions
wait.  The clock goes on, and so do the transactions of other filings.
`CompleteAccepted` and `CompleteQuarantined` are the final update with its second
test, and the commit that makes all evidence visible; `RollBack` ends the
transaction without a trace.

A document reports the periods of its comparative columns besides its own:
`Reported[f][c]` is the set of lines that parsing document `c` for filing `f`
returns, each a period and a concept.  As in `import_canonical_records`, every
line is stored under the filing of *its* period, in `facts`, and the header of
that filing is created or turned to the new document (`header`), whatever the
ledger has decided about it, and also when the ledger has never heard of it.  A
figure over a period stays as its first document gave it.  A figure at a date has
no `period_start`, and NULL equals nothing in a unique key, so each document that
reports it stores it again (`Instant`, `NewLines`).  `facts` is a set: two rows
with the same line of the same filing are one element.

Tokens are uuids and are numbered in order of issue.  Documents are identified
by their checksum, as `source_artifacts` does.  Values, units, the schema checks
and the wording of errors are abstracted to their outcome.

The triggers and CHECK constraints of the migrations are modelled twice.
Where the code relies on one to refuse a call (the drift trigger, the
provenance of a finished filing) it is part of the action's guard.  The
others are stated as predicates (`RowConstraints`, `TransitionAllowed`,
`AcceptanceAllowed`, `AttemptAllowed`) and `GuardsNeverTrip` checks that no
transaction of the repository ever depends on them.  What the deferred trigger on
attempts asks of a commit is `AttemptsFollowLeases`, a part of `LedgerAddsUp`.

`FilingDecision` is what a user of the ledger may believe: a filing is
decided at most once, by the newest worker it was granted to; evidence, of
whatever filing, appears completely in the step that accepts the filing it comes
from and nowhere else, and is never taken back; a header shows the last accepted
filing that mentions it; and filings that share a document agree.  The refinement
mapping takes the attempt count for the number of grants, the stored facts for
the evidence and the newest source of each header for what is shown.

### FilingImporter

`import_filings` as concurrent workers over the ledger.  `pc` follows the
control flow of one row: `pick`, `gate` (budget and fence), `claim`, `renew`,
`fetch`, `parse`, `complete`, `commit`, `abort`, `release`.  Each database call of
the code is one step, a completion two (`Begin` takes its row lock), so other
workers, time, crashes and lost sessions come
between any two of them.  `seen` is the snapshot of states the importer takes
once, `task` the local variables of one try, `report` the list of entries,
`fence` the session locks.  A call may fail before or after its transaction
committed (`RenewFails`, `NotGranted`, `CompleteFails`, `AbortFails`), a
worker may crash and its run be repeated, and PostgreSQL may end the session
that holds a fence.  The database may notice late that a completion's client is
gone, and keeps the row locked until it rolls back (`Abandoned`).  Those are the mishaps; `MaxMishaps` bounds their number.

### ProductionDbLock

`run_with_production_db_lock` for several jobs.  `holders` is the set of
sessions that hold the advisory lock; it shrinks when a session is lost while
the `phase` of the wrapper, which does not notice, stays `running`.
`overlap` is a history variable: the pairs of incompatible children that were
alive together.

### DailyResearch

`run_daily_research` for several attempts.  `phase` is the call that comes
next: `preflight`, `market`, `complete` (record the completed session),
`current` (is the active scan current), `quant`, `approve` (approve and
publish the quant), `scan`, `publish`, `outcomes`, `report`, `record`.  Each
call is one transaction or none.  `Interrupt` is an exception before a call
takes effect, `Then` adds the exception after it did, and `Die` ends the
runner where no handler runs.  `inTry` distinguishes the job record inside the
try block, whose failure becomes a new verdict, from the one in an exception
handler, whose failure is swallowed.

The tables are `quant` and `scan`, one row per attempt that published, `job`
and `file` (the report).  `ActiveQuant` and `ActiveScan` are the queries the
readers use.  `clock` orders `effective_at` and `published_at`.  What the
providers offer, whether the candidate passes the policy, and whether enough
issuers are eligible are choices; the gates on these outcomes are the code's.
An attempt starts when the production lock is free, which `ProductionDbLock`
shows to be so when nobody works or who works has lost the session; `LoseLock`
is one of the mishaps, after which attempts and imports overlap.

### IdxFilings

The `idx-filings` workflow.  `runs` holds the workflow runs, each with the
manifest of its commit and the results of its shard jobs; `ledger` is the
decision about each filing.  `Queue` models the concurrency group: one run
runs, one waits, and a newer one displaces the one that waits.  `Rerun` is the
manual re-run of failed jobs, which keeps the shards that succeeded and the
run id.  Jobs may fail at any point; `aggregate` starts whatever became of the
shards, and its verification step is allowed to fail.

### CanonicalStore, and SignalOutcomes over it

`store` holds the rows of all canonical tables, with the keys and versions of
their tables; `artifacts` and `issues` are the rows of `source_artifacts` and
`ingestion_issues`.  `ingest-manifest` registers a file, imports it and
accepts it in three transactions (`RegisterSource`, `ImportSource`,
`AcceptSource`), or quarantines it and records the issue in two, and may die
between any of them.  What a second row of the same key does differs by table
(`OnConflict`): bars, corporate actions and disclosures keep the first one;
calendars, rates, profiles, constituents and shares overwrite; statement facts
keep the fact and move the filing's header.  A price refresh is stamped when
it starts and stores new versions when it commits.  The questions research
asks are operators: `MarketBarsAsOf`, `FactsAsOf`, `SharesAsOf`, `FxRateAsOf`,
`SessionAge`, and from them the factor inputs of a cutoff.

The readiness diagnostics ask the store a second time (`EligibleFacts`).  Their
list of periods is modelled with both of its limits: the query returns one period
more than may be listed (`RowLimit`, the code's `ordinal <= 21`), and a list longer
than `MAX_DIAGNOSTIC_ITEMS` is dropped and marked as not valid (`PeriodsValid`).
The lists of documents and urls are limited in the same way and are not modelled.

`SignalOutcomes` adds the signals that published scans leave, and evaluators
that read all pending windows in one step and save outcome by outcome in
later ones (`batch`).  Two evaluators overlap when the session that held the
production lock was lost.

### QuantRules and QuantRelease

`QuantRules` has no state: the coverage rules of factors and business models,
the candidate gate (`Checks`, `Ready`), the gate by which the scan uses a row
(`RowEligible`), the buy range, the price
fractions of the exchange and the entry state.  A percentile is the class its
thresholds put it in (`merit`), a field is present or missing; prices are
whole rupiah and the price fractions are the real ones.  The valuation bands of a
price setup (`b.bands`) are any bands or none, and stand for whichever source the
range was built from: the repository's, or those of the live engine, whose range
the scan keeps when the repository has no bands.

`QuantRelease` is the life of a release.  `rows` are the candidate files,
`approved` the signed files, `snapshots`, `model` and `runs` the tables.
`publish-reviewed-shadow` judges, approves and publishes; `approve-snapshot`
and `publish-snapshot` do it without the gate; `validate-quant` saves a run
that a validated release must name (the trigger of migration 002, `MayPublish`).
Commands may die after writing their file, and are repeated.

### BotDelivery

The bot process: `quant` and `scan` are the caches of the two managers, as
positions in the tables `quants` and `scans` with the age verified at the
load; `seen` is the webhook's memory of updates; `running` counts handlers
that have not returned; `telegram` is what Telegram knows of each update.
Each command handler is an operator that gives the kind of its answer and the
caches it leaves.  A handler's answer is one step: its snapshots are read
without an await between them.  The database fails and recovers, the process
dies, and snapshots are published at any time.  `telegram_webhook` remembers an
update before its handler runs; one that is remembered is acknowledged at once,
also while that handler is running.  The answer to Telegram may be lost after the
handler returned (`HandlerReturns`), and the update is then sent again.

### ManifestReview

`main` holds the two reviewed manifests, `request` a pull request made by hand
and `branch` the rolling branch of the weekly discovery, each with the head of
main it was updated from.  `Discover` drafts from the catalog of IDX, merges
the draft by `data/filing_manifest.py` into the branch with main merged in,
and pushes; `MergeRequest` and `MergeBranch` pass the checks of
`scripts/ci/validate_manifest.py` and squash.  The validators are operators
named after their steps.  The repository's ruleset (a head must hold the
current main) is external and stated in `docs/specs/ci-cd-contract.md`; the
model assumes it (`MayMerge`), so no property is about it.  What depends on the
code is whether the head that took main in passes the review, and
`BranchStaysMergeable` says that of the rolling branch, which no human edits.

## What the runs check

| run | instance | question |
|---|---|---|
| `ledger` | 2 filings of one issuer and a period that is never reviewed, 2 documents of which one repeats the others' figures, a figure over a period and one at a date, 2 urls, 2 runs, 2 manifests of which one conflicts with the other, 2 attempts, leases of one tick, clock to 2 | do the tables stay consistent, and implement `FilingDecision`, whatever the callers do |
| `importer` | 2 overlapping runs of one pinned filing, 2 attempts, 2 mishaps, with fairness | are reports true and credit unique; is every step a ledger step; does every import end and every filing close |
| `importer_retryable_not_eligible` | 1 worker, violation | see the findings |
| `db_lock` | 2 shared jobs, 1 exclusive, 2 polls, 2 mishaps | are writers serialized or the overlap reported; is waiting bounded |
| `daily_research` | 2 attempts, one of them final, each by either of 2 calculations; 3 market dates; 2 mishaps; 1 import | are gates, job rows and exit codes right, also when the lock is lost; while it held, are the published releases |
| `idx_filings` | 3 runs, 2 filings in 2 shards, 1 re-run; runs are symmetric | does a refresh follow complete imports only |
| `store` | 1 issuer, 3 sessions, 2 prices (the provider's and the official one), 4 files (calendar, official bars of a first and a second version, facts of up to 4 periods in a currency with and without a rate, facts of an unknown issuer), diagnostics of 2 periods, 1 ingestion, 2 refreshes that may miss a session, 2 horizons, 2 evaluators | is the past fixed, is what is accepted stored, are diagnostics those of the frame, are outcomes ripe and final |
| `look_ahead` | as `store` with a profile file and 3 ingestions, violation | see the findings |
| `bot` | 2 updates and memory for 1; a production bot or a local one; 1 member; 2 scans and 1 quant published; ttl and session of 1 tick, clock to 2; 2 handlers at once, of one update or of two; 1 mishap | are answers sound, caches monotonic, updates taken and in the end acknowledged |
| `stale_guard` | as `bot`, violation | see the findings |
| `release` | 3 issuers of 6 kinds of evidence, 2 needed; 1 candidate, 2 panels, 2 run ids, 3 writes; price setups around 200 and 500 | do the gates agree, can entries be carried out, are releases unique and backed |
| `review` | 1 issuer, a quarter and an annual report, 2 provenances, 2 spellings, versions 0 to 2, 2 releases, 2 edits | does main pass its validators, do drafts and a rolling branch that main overtook pass the review |

Why the bounds are enough.  Two filings and two documents give every way of
sharing an artifact; two attempts give a lease that was lost and one that
succeeded it, and an exhausted budget; a lease of one tick can lapse between
any two steps; two runs give every overlap of a stale worker with its
successor.  Two mishaps let a failure meet a recovery from another.  Filings
interact only through documents, their issuer and the periods their documents
report: the second document of `f2` reports `f1`, which may be undecided, accepted
or quarantined then, and `f0`, which is never reviewed, so a third reviewed filing
adds no new pair.  The importer is checked with one filing: two of them meet in the ledger
only, where every caller is already allowed, and `UsesLedger` says that an
importer is such a caller.  Two attempts of daily research let the second
repair, replace or overlap what the first left behind; three market dates are
needed for a quant too old to reuse (`MaxQuantAge` is 1); two mishaps can hit
any two calls, a lost lock and a failure of the attempt that lost it included.
Three runs of the import workflow are one that runs, one that waits and one
that displaces it.

In `store` two refreshes and a file of official bars at another price store a
session, revise it and revise it back in every order, a late commit included,
and horizons of one and two sessions in three give a window that ends within,
at and beyond what is stored.  With
`MAX_DIAGNOSTIC_ITEMS` 2 for the code's 20, the facts reach one period, two and
more than may be listed at the cutoffs of the run.  In `bot`
`StaleAfter` is 0 for the code's 2 and `Remembered` 1 for its 500: the
smallest values at which a cached scan becomes stale and an update is
forgotten while Telegram still sends it.  Two handlers at once are two deliveries
of one update, or two updates of which the second makes the webhook forget the
first while it is handled.  A cache interval of one tick in a clock of two
expires before, at and after the other events.  The second scan lets a newer one
replace the one served; scans are PRIMARY here, and the fallback stands for a
degraded reader.  In `release` the code's 41 of 45
issuers, 5 of a cohort and 10 of a universe are 2 of 3, 2 and 2; the six kinds
of evidence take every branch of the factor, business and profile rules, and a
bank alone in its cohort is never scored.  The prices cross both price
fractions that change below a target, at 200 and at 500.  In `review` one
issuer suffices, since rows of different issuers meet only in the uniqueness
check.

The properties worth reading first:

- `ImplementsDecision`, `EvidenceIsSound`, `SettledForever`: the ledger's
  promise.  `LedgerAddsUp` is that of its attempts, quarantines and progress.
- `GuardsNeverTrip`: the repository never runs into the database's own guards,
  two updates of one row in one transaction included.
- `ReportIsTrue`: one entry per row, each of which says what is durable, and an
  accepted filing credited once, whatever answers were lost.
- `UsesLedger`: the importer refines the ledger, so everything checked and
  proved of the ledger holds of overlapping, crashing importers.
- `ReleaseIsCoherent`: the scan reads the newest quant from the database and not
  the one its attempt chose; this says that it is the same one, and fresh.
- `AttemptIsHonest`: the job row, the exit code and the report claim no more than
  the attempt did, after every mishap, with and without the lock; while it held,
  exit 0 also names the scan and quant that readers can get.
- `NoNeedlessRepublication`: attempts that repeat a day publish once.
- `RefreshOnlyWhenComplete`: also for re-runs that skip shards an earlier try
  imported.
- `NoSilentOverlap`: two incompatible writers that ran together are never both
  reported as successes, because the wrapper that lost its session fails when
  it unlocks.
- `PastPricesAreFixed`: a revision of a bar is a new version, so what was
  knowable at a past time is not changed by rows that became available later.
- `ReingestNeverFreshens`: a calendar ingested again lists completed sessions
  as scheduled; no session looks more recent for it.
- `DiagnosticsMatchFacts`: the diagnostics are a second query, with limits; they
  list the periods of the frame's facts or say that they cannot.
- `ReleaseFeedsTheScan`: a quant that passed the candidate gate leaves the scan
  enough issuers, though the scan's gate is written again.
- `FavorableIsExecutable`: levels that are floored to price fractions still lie
  around the market, with three ticks of risk.
- `ReleasesAreBacked`: repeated and competing approvals leave one release.
- `MergePassesReview`, `BranchStaysMergeable`: in any order of discoveries, edits,
  updates and merges.  The second one has two exceptions, both of them a row that
  a hand-made request brought to main: a newer version of a filing that the branch
  adds, and the same version with another provenance.
- `AnswersAreSound`, `ServedNeverGoesBack`, `AcknowledgedIsTaken`,
  `EveryUpdateIsAcknowledged`: the bot through outages and restarts.

Every property has a mutant: a definition named `Fault...` that stands just
before the one it changes the way a plausible bug would, and under which TLC
finds the property violated.  Nothing uses these definitions.

### Fairness

`FairImporterSpec` assumes that a worker that has something to do goes on
(its process is scheduled, and each call of the code returns or raises), that
runs are repeated (the workflow is started by every manifest change and by
hand), that time passes, and that the database rolls back a transaction whose
client is gone.  Nothing is assumed of which way a call goes.
`FairLockSpec` assumes only that a wrapper goes on polling and releasing; a
child may hang.  The specification of `BotDelivery` assumes that Telegram sends
an update until it is acknowledged, that a request starts a process where none
runs, and that a handler returns unless its process is stopped; the database
need not recover.

### Findings

- `importer_retryable_not_eligible`: `docs/specs/ingestion-contract.md:17`
  calls RETRYABLE "eligible for bounded retry".  When the completion that
  would quarantine an invalid document meets a database failure, the importer
  stores RETRYABLE with the class DATABASE and the code VALIDATION_FAILED (or
  SCHEMA_INVALID), a pair that is not on the allowlist of
  `filing_work_policy.py`, and the filing is never claimed again.
- `look_ahead`: `docs/architecture/data-lifecycle.md:28` says "No evidence
  becomes eligible before its `available_at`", and the docstring of
  `rebuild_monthly_panel` "exclusively from facts available at each cutoff".
  `build_factor_inputs` takes a profile as verified once `profile_verified_at`
  is set, whatever the cutoff, so a rebuilt panel ranks past month ends under a
  profile that became available later.  The readiness query of the same cutoff
  does compare the two.
- `stale_guard`: `docs/runbooks/stale-snapshot.md:7` says that the guard
  "intentionally removes current-use candidate rows after the configured
  completed-session limit".  The guard's age is computed when a scan is loaded,
  and a scan that is kept because the database does not answer keeps it: its
  candidates are shown as current for as long as the outage lasts.

Known behaviour that the models show, and that a reader of the code may not
expect:

- Accepting a filing adds facts to filings that are undecided, quarantined or
  decided, and turns their headers (`available_at`, `source_url`, `object_key`) to
  the new document: a header names the last document that mentions its period, not
  the one the filing was decided on.  Balances at a date are stored once per
  document that reports them.
- An expired lease of the last attempt stays RUNNING: later runs report the row
  as EXHAUSTED before they would claim it.
- A failure after `publish_scan_snapshot` ends the attempt with exit 40 and its
  new scan active.
- A refresh requested after an import of the same session compares session and
  calculation only: it ends as NOOP, or reuses the quant.
- Evidence imported between two attempts of a day is not in the quant that the
  second one reuses.  Bars are stamped when their refresh starts and committed when
  it ends: a cutoff between the two has one answer before the commit and another
  one after it, which `PastPricesAreFixed` excludes by its premise.
- An import that waits in the concurrency group is displaced by a discovery
  queued behind it, until somebody re-runs it or merges again.
- An official bar for a session that the provider's refresh already stored is
  dropped while its file is ACCEPTED; ingesting statement facts again moves the
  filing's header; an ingestion that fails after its import leaves the artifact
  QUARANTINED with its rows served.
- `approve-snapshot` with `publish-snapshot` publishes without the readiness
  gate; publishing a SHADOW again sets the model's status back; a panel that is
  judged again keeps its run id and may turn it from PASSED to FAILED after a
  release named it.
- An update that is delivered again while its first handler runs is
  acknowledged at once, and lost if that handler then raises or the process dies.
- A `/status` during an outage replaces the cached quant by the fallback; the
  chart command looks at the stored mode of a scan and not at its age.
- A restatement, or another attachment, that is reviewed by hand for a filing the
  rolling branch carries makes the review of that branch fail until its row is
  removed from it.
- Discovery always writes restatement version 1, so a replaced attachment makes
  the merge of the draft fail, with every other new filing of that week, until
  somebody reviews the new version by hand.

## What is proved

Every safety property of the runs, invariant or action property, is a theorem
of its specification, for every value of the constants that their assumptions
allow; so is the refinement of `FilingDecision` by `FilingLedger`, and of the
ledger by the importer.  The theorems are in eight modules, `FilingProofs` (the
ledger and the importer over it), `ProductionDbLockProofs`, `DailyResearchProofs`,
`IdxFilingsProofs`, `SignalOutcomesProofs` (the canonical store and the signals
over it), `QuantReleaseProofs`, `ManifestReviewProofs` and `BotDeliveryProofs`.

Each of them goes the same way: an invariant that is inductive, kept by each
action in a lemma of its own, and the properties that follow from it.

### The ledger: `FilingProofs`

- `TypeCorrect`.  `TypeOK` is not inductive by itself: the url of a new artifact
  row is the reviewed one, which must exist.  `ReviewedFirst` says that a filing
  has a work item exactly when it was reviewed.
- `EvidenceSound`: `EvidenceIsSound`.  A completion is the only step that touches
  evidence (`QuietOrComplete`); the drift guard keeps the documents of other
  finished filings (`DocumentsKept`); the provenance check gives the new filing's
  own document (`CompleteEvidence`).  What acceptance stores, under any filings, is
  `LinesStored`: a line is new, or was stored before from a filing that is accepted
  and stays so.
- `Settled`: a decided filing is kept (`DecidedKept`), a decision needs a lease
  that has not lapsed at the commit (`DecidedUnderLease`), facts and headers change
  in no step but the acceptance of their source (`StoredOnAcceptance`), a verified
  profile stays (`ProfileKept`).
- `RowsInvariant`, `AttemptsExact` and `TriggersNeverTrip`: every action is, on
  the rows of one filing, one of six moves (`RowStep`), and each of these passes
  the database's own guards, those on items (`RowsAllowed`) and those on attempts
  (`AttemptsStep`).  The takeover of a lapsed lease passes them as the two updates
  it is made of.
- `LedgerConsistent`: `LedgerAddsUp`.  An earlier attempt failed for the time
  being (`EarlierFailed`), so a spent item's attempts are all accounted for; and
  only finitely many filings are ever reviewed, since a manifest is a file, which
  is what lets the report of a batch be counted.
- `LedgerDecides`: `ImplementsDecision`.  The initial states map to initial ones
  and each action to a step of `FilingDecision` or to a stutter; `AcceptancePublishes`
  is the part about the evidence and the headers.

### The importer: `FilingProofs`

- `ImporterTypeCorrect`, from `ShapeOf`: what a worker holds fits the place it is
  at.
- `ImporterUsesLedger`: `UsesLedger`, every step of a worker is one ledger
  transaction or none.  The ledger's invariants follow for the importer from
  its theorems, and are not proved again.
- `ReportsCanBeTrusted`: `ReportIsTrue`.  A snapshot is old, but what is final
  in it still holds (`SnapshotsHold`); what an entry claims is so in the ledger
  when it is written and stays so, because decisions are settled.
- `AtMostOneLiveWorker`: `OneLiveWorker`.  Until a mishap the fence of a filing
  in work is its worker's (`FenceInv`); after one, a lease was issued to one
  worker alone, and the ledger records its run (`LeaseInv`).

### The lock: `ProductionDbLockProofs`

- `Serialized`: types and `WritersSerialized`, with `LockCoversChild`: a session
  holds the lock for its child only, and covers it while no session was lost.
- `NoOverlapIsSilent`: the invariant `Condemned` calls a job sound when it holds
  the lock or has ended with 0, and says that of an overlapping pair one is not
  sound; a started job that is not sound never becomes sound again.

### The daily research: `DailyResearchProofs`

The invariant `Everything` has a part for each thing that can go wrong: `Shape`
(local variables), `Honest` (what an attempt published at the place it is at),
`Jobs` (the job row), `Times` (sessions, days and the order of publication),
`NewestExist` (the queries find a row), and `Release`: while no lock was lost,
one attempt is between its choice of a quant and its published scan, nothing
newer was published since, and `ActiveQuant` is the one it chose.

- `AttemptsAreHonest` needs all but the last part, and holds with the lock lost;
  `ReleasesAreCoherent` and `RetriesPublishOnce` need `Release`.

### The import workflow: `IdxFilingsProofs`

- `RefreshesAreEarned`: `RefreshOnlyWhenComplete`.  The invariant `RunOf` says
  that a run that may request a refresh has its whole manifest accepted.  It need
  not say so of each shard: the aggregate asks the ledger, and acceptance is for
  good.  The number of requests is bounded by the re-runs, with one more for a
  try that has ended.

### The canonical store and the signals: `SignalOutcomesProofs`

- `StoreSound`: a file is held from the moment its import commits, not only once
  it is accepted; `AcceptedIsStored` alone does not survive the step between.
  No two rows share a key, and prices lie on sessions.
- `PastPricesStay`, `DiagnosticsListTheFacts` and `SessionsNeverFreshen` compare
  two queries, or one query before and after a step, row by row.  The greatest
  version, the latest date and the count of sessions are facts about finite sets
  of numbers; `FirstOfWhole` says when the first `n` of such a set are all of it.
- `OutcomesSound`: an outcome is judged when its window was evaluated, before it
  is saved, so `NeverJudgedEarly` has to hold of the evaluators' batches too.
  Among the stored prices that end a window lie as many sessions as the horizon
  asks, each of them a trading session, whatever gaps the prices have.

### Rules and releases: `QuantReleaseProofs`

- `ReleasesBacked` from `FilesSound` (what was published, signed or let through
  rests on a candidate file) and `VerdictsSound` (an id that ever passed stays
  the id of one panel).  `VerdictsAreTraceable` states the latter by itself.
- `GatedFeedsTheScan`: the two gates, as operators on a candidate of any size
  (`ReadyGates`).
- `FavorableEntriesExecutable`: integer arithmetic on the price fractions, for
  any prices and bands.

### Manifests: `ManifestReviewProofs`

- `MergeAgreesWithReview`: whatever `merge_manifests` accepts, its result passes
  `validate_manifest.py`: two programs, one rule.
- `MergesPassReview` follows from `MergesReviewed`: a merged head passed the review
  against the main it replaces, since a head must hold the current main.
  `DraftIsValid` says that the conditions on the draft alone,
  under which the merge raises, never hold.

- `BranchIsMergeable`: `BranchStaysMergeable`.  The invariant `Rolling` says that
  the branch keeps the rows of the main it took in, that what it adds (`Added`) is a
  valid draft, and that only a row written by hand can have an identity in common
  with that.  It survives the three-way merge with any main (`BranchTakesMain`) and
  a further draft; the review then fails only for the two exceptions of the property
  (`BranchReviewed`).

### The bot: `BotDeliveryProofs`

The invariant `BotOK` relates each cache to the tables it was read from.  `KnownScan`
says that every scan published after the cached one came after its load, and that
the age it carries is the one its session had then, unless the database was down
since; an answer is therefore late by one interval or by an outage, and by nothing
else.  `DeliveryOK` says that an update in the webhook's memory was handled by this
process or is being handled, and that the memory holds no update twice, which is
what makes forgetting one complete.

- `UsersAreToldSoundly`: `AnswersAreSound`.  A lemma over the fourteen commands
  (`RepliesAreBacked`) says which answers rest on which snapshot;
  `ServedInTime` turns the age of a scan into a time, by division with the
  length of a session.
- `ScansOnlyAdvance`: `ServedNeverGoesBack`; `NothingIsDropped`:
  `AcknowledgedIsTaken`.

### What the proofs assume

The assumptions are named in the modules, and TLC evaluates them in the runs.
Most say that constants have their types and that NULL is no value.  The others:

- `ImporterAssumption`: a worker's shard lies in its manifest (the importer filters
  the rows it was given with `filing_shard`), and the errors it names are those of
  `filing_work_policy.py`.
- `DailyResearch!ConstantsAssumption`: `MaxQuantAge >= 1`.  The market refresh
  lets a session be a day old; a bound of 0 would refuse the quant the same
  attempt has just built.  The code's `MAX_QUANT_AGE_COMPLETED_BUSINESS_DAYS` is 1.
- `ReleaseAssumption`: there are as many issuers as the gate expects (the
  effective universe is the LQ45), and prices are whole rupiah.
- `FileAssumption`: a well-formed file has one row of a key.  A file with two is
  imported in its order by the code, which the store, a set of rows, does not
  model.  `SeedAssumption`: the files ingested before the model starts are of
  that kind and have not revised each other.
- `ReviewAssumption`: rows written by hand are rows, of any content.
- `CalendarAgrees` is a hypothesis of `SessionsNeverFreshen` alone: the calendar
  files list the same days as sessions, and differ in which of them are over.  A
  file that turned a session into a holiday would make every later session count
  for less, and the code lets it.  The `store` run checks it of its files.

### What the proofs corrected

- `FavorableIsExecutable` said that the stop lies below the support.  It need
  not: a valuation band can lift the buy zone away from the support, and the stop
  is computed from the zone.  The property now says that it lies below the zone,
  and the run has a band (PBV 200 to 210, no PE) that lifts it.
- The forgetting of an update was modelled as the removal of every entry; the
  code pops one key of an ordered dictionary.  Both agree because keys are
  unique, which is now part of the invariant.
- The instances of `ManifestReview` and `SignalOutcomes` left open what rows
  and files may hold; the assumptions above say it.

### What is only model-checked

Liveness: `ImportingGetsDone`, `WaitIsBounded` and `EveryUpdateIsAcknowledged`.
Fairness and ENABLED are beyond TLAPS here.  The three violations are runs of
TLC as well: a counterexample needs no proof.

## Not modelled, and why

- Parsing, XBRL contexts and units, provider calls and the object store: their
  result is a nondeterministic outcome.
- Statistics: factor values, percentiles, technical indicators, seasonality,
  backtests, portfolio weights, the language model.  What the rules do with the
  classes of their results is `QuantRules`.
- The live analysis a bot without `BOT_SNAPSHOT_ONLY` runs, wording and charts of
  its answers.
- Signatures: a signed file is what `approve-snapshot` made.
- Alerts: `reserve_alert` and `AlertEngine` have no caller.
- `build-daily-scan`, the older command that publishes without gates, and the
  optional archive of a scan.
- Cancelling a running workflow by hand, and the concurrency group of the
  daily workflow.
- `health.py` (read-only), the migration, workflow and security checks of CI
  (static checks of the repository's text), the backup.

## Plan

Done: the ledger and its promise, the importer, the production lock, the daily
research with its publications, the import workflow, the canonical store and its
signals, the rules and life of a release, the bot, the manifests.  What is left
to model is the composition of `IdxFilings` with `DailyResearch` (a requested
attempt, the concurrency group of the daily workflow) and of `DailyResearch` with
`CanonicalStore` (a calculation whose evidence is rows rather than a digest).

What is left to prove:

1. The two compositions above, once they are modelled: that a refresh requested by
   a complete import meets a release of the same evidence.
2. Facts about the operators that the properties do not name yet: merging a draft
   twice is merging it once, a better percentile class in `QuantRules` never lowers
   a verdict.
3. Implementation of smaller promises in the manner of `FilingDecision`: the lock as
   a readers-writers lock, the workflow as a single decision of each run.
