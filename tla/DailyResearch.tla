---------------------------- MODULE DailyResearch ----------------------------
(***************************************************************************)
(* run_daily_research of operations/research_cli.py: attempts that refresh *)
(* the market history, gate and publish a quant snapshot, build a scan on  *)
(* the newest published quant, publish it, and report what they did by an  *)
(* exit code, a report file and a row of research_job_runs.                *)
(*                                                                         *)
(* An attempt is a sequence of calls, each its own transaction.  A call    *)
(* may raise before it takes effect, or take effect and then raise because *)
(* its answer was lost; an attempt may die between any two calls.          *)
(*                                                                         *)
(* Abstracted: prices, scores and the contents of snapshots (a gate is a   *)
(* choice of its outcome), the report's wording, the optional archive, and *)
(* the rows evaluate_signal_outcomes adds, which nothing here reads.  Days *)
(* are trading days.                                                       *)
(***************************************************************************)
EXTENDS Integers, FiniteSets

CONSTANTS
    Attempt,     \* executions of run-daily-research
    FinalAttempt,\* those started with --final-attempt
    Digest,      \* calculation digests
    Null,        \* no row
    MaxQuantAge, \* MAX_QUANT_AGE_COMPLETED_BUSINESS_DAYS
    MaxDay,      \* bound of the model on the market date
    MaxImports,  \* bound of the model on completed filing imports
    MaxFaults    \* bound of the model on exceptions, lost answers, lost locks and deaths

Day == 0..MaxDay
Verdict == {"SUCCEEDED", "NOOP", "WAITING", "UNAVAILABLE", "POLICY_GATE", "INFRASTRUCTURE"}

ExitCode == [v \in Verdict |->
    CASE v \in {"SUCCEEDED", "NOOP"} -> 0
      [] v = "WAITING" -> 10
      [] v = "UNAVAILABLE" -> 20
      [] v = "POLICY_GATE" -> 30
      [] v = "INFRASTRUCTURE" -> 40]

PersistedStatus == [v \in Verdict |->
    IF v \in {"SUCCEEDED", "NOOP"} THEN "SUCCEEDED"
    ELSE IF v \in {"WAITING", "UNAVAILABLE"} THEN "DEGRADED" ELSE "FAILED"]

\* Calls inside the try block, by the call that comes next.
Trying == {"preflight", "market", "complete", "current", "quant", "approve",
           "scan", "publish", "outcomes"}
\* Calls that report a verdict already reached.
Reporting == {"report", "record"}

State == [phase    : Trying \cup Reporting \cup {"idle", "ended", "dead"},
          locked   : BOOLEAN,                 \* its production lock was not lost
          digest   : Digest \cup {Null},      \* the calculation of its checkout
          at       : Nat,                     \* observed, the effective_at of its quant
          day      : Day,                     \* market date of observed
          imported : Nat,                     \* imports complete when it started
          session  : Day,                     \* session_date, once the gates are open
          evidence : Nat,                     \* imports its candidate was built from
          quant    : Attempt \cup {Null},     \* the quant_snapshot_id it reports
          basis    : Attempt \cup {Null},     \* the quant its scan is built on
          verdict  : Verdict \cup {Null},
          inTry    : BOOLEAN]                 \* a failing record is caught and reclassified

Quant == [digest : Digest, session : Day, day : Day, at : Nat, evidence : Nat]
Scan == [digest : Digest, session : Day, quant : Attempt, at : Nat]

ASSUME ConstantsAssumption ==
    /\ FinalAttempt \subseteq Attempt
    /\ Null \notin Attempt \cup Digest \cup Verdict
    /\ Null \notin {"RUNNING", "SUCCEEDED", "DEGRADED", "FAILED"}
    /\ Null \notin Quant
    /\ Null \notin Scan
    /\ {MaxQuantAge, MaxDay, MaxImports, MaxFaults} \subseteq Nat
    /\ MaxQuantAge >= 1     \* as old as the market refresh lets a session be

\* Definitions named Fault... are mutants of the definition that follows them:
\* plausible bugs, each of which breaks a property.  Nothing uses them.

VARIABLES
    today,     \* the market date
    clock,     \* orders effective_at and published_at
    imports,   \* completed filing imports
    faults,    \* mishaps so far
    bars,      \* sessions with stored market bars
    completed, \* sessions recorded as completed
    quant,     \* quant_research_snapshots, by the attempt that published the row
    scan,      \* scan_research_snapshots, likewise; all are PRIMARY
    job,       \* status of research_job_runs, by attempt
    file,      \* the outcome in the report file of each attempt
    att        \* the attempts

dailyVars == <<today, clock, imports, faults, bars, completed, quant, scan, job, file, att>>
market == <<today, imports, bars, completed>>
snapshots == <<clock, quant, scan>>

----------------------------------------------------------------------------
(* What the repository's queries return *)

QuantRows == {r \in Attempt : quant[r] # Null}
ScanRows == {r \in Attempt : scan[r] # Null}

\* latest_approved_quant_snapshot: the newest effective_at.
ActiveQuant ==
    IF QuantRows = {} THEN Null
    ELSE CHOOSE r \in QuantRows : \A o \in QuantRows : quant[o].at <= quant[r].at

\* latest_scan_snapshot: the newest session, then the newest published_at.
NotOlder(a, b) == a.session > b.session \/ (a.session = b.session /\ a.at >= b.at)

ActiveScan ==
    IF ScanRows = {} THEN Null
    ELSE CHOOSE r \in ScanRows : \A o \in ScanRows : NotOlder(scan[r], scan[o])

\* _quant_is_fresh, by the date the quant was built.
Fresh(q, day) == quant[q].day <= day /\ day - quant[q].day <= MaxQuantAge

\* The active scan already covers the attempt's session with its calculation.
ScanIsCurrent(r) ==
    /\ ActiveScan # Null
    /\ scan[ActiveScan].session = att[r].session
    /\ scan[ActiveScan].digest = att[r].digest

FaultReuseAnySession(r) ==
    ActiveQuant # Null /\ quant[ActiveQuant].digest = att[r].digest

FaultNeverReuse(r) == FALSE

QuantIsReusable(r) ==
    /\ ActiveQuant # Null
    /\ quant[ActiveQuant].session = att[r].session
    /\ quant[ActiveQuant].digest = att[r].digest

\* What the providers offer on a day: is the membership complete, the session
\* most issuers agree on, and how many of them do.
View(day) ==
    {v \in [complete : BOOLEAN, session : 0..day, coverage : {"none", "partial", "full"}] :
        /\ ~v.complete => v.coverage = "none"
        /\ v.coverage = "none" => v.session = day}

\* The coverage gate and the age gate of the market refresh.
Ready(v, day) == v.coverage = "full" /\ day - v.session <= 1

FaultWaitsOnFinalAttempt(v, r) ==
    v.complete /\ v.session = att[r].day /\ v.coverage = "partial"

\* _is_genuine_current_session_wait, on an attempt that is not the last one.
MayWait(v, r) ==
    r \notin FinalAttempt /\ v.complete /\ v.session = att[r].day /\ v.coverage = "partial"

----------------------------------------------------------------------------
(* Steps of an attempt *)

Idle == [phase |-> "idle", locked |-> TRUE, digest |-> Null, at |-> 0,
         day |-> 0,
         imported |-> 0, session |-> 0, evidence |-> 0, quant |-> Null,
         basis |-> Null, verdict |-> Null, inTry |-> FALSE]

Active(r) == att[r].phase \in Trying \cup Reporting

\* The production lock is free: nobody works, or who works has lost it.
LockIsFree == \A o \in Attempt : Active(o) => ~att[o].locked

Concluded(a, verdict, inTry) ==
    [a EXCEPT !.phase = "report", !.verdict = verdict, !.inTry = inTry]
Interrupted(a) == Concluded(a, "INFRASTRUCTURE", FALSE)

Becomes(r, a) == att' = [att EXCEPT ![r] = a]

Fault == faults < MaxFaults /\ faults' = faults + 1

\* A call that took effect: the attempt goes on as a, or sees an exception.
Then(r, a) ==
    \/ Becomes(r, a) /\ UNCHANGED faults
    \/ Becomes(r, Interrupted(att[r])) /\ Fault

Init ==
    /\ today = 0 /\ clock = 0 /\ imports = 0 /\ faults = 0
    /\ bars = {} /\ completed = {}
    /\ quant = [r \in Attempt |-> Null]
    /\ scan = [r \in Attempt |-> Null]
    /\ job = [r \in Attempt |-> Null]
    /\ file = [r \in Attempt |-> Null]
    /\ att = [r \in Attempt |-> Idle]

\* A scheduled, pushed or dispatched workflow gets the production lock.
Start(r, digest) ==
    /\ att[r].phase = "idle"
    /\ LockIsFree
    /\ clock' = clock + 1
    /\ Becomes(r, [Idle EXCEPT !.phase = "preflight", !.digest = digest, !.at = clock + 1,
                               !.day = today, !.imported = imports])
    /\ UNCHANGED <<market, faults, quant, scan, job, file>>

\* Any call of the try block raises before it takes effect.  A missing
\* setting or migration is such a failure of the preflight.
Interrupt(r) ==
    /\ att[r].phase \in Trying
    /\ Becomes(r, Interrupted(att[r]))
    /\ Fault
    /\ UNCHANGED <<market, snapshots, job, file>>

\* The preflight passes and the job row is inserted.
Preflight(r) ==
    /\ att[r].phase = "preflight"
    /\ job' = [job EXCEPT ![r] = "RUNNING"]
    /\ Then(r, [att[r] EXCEPT !.phase = "market"])
    /\ UNCHANGED <<market, snapshots, file>>

FaultStoresTodayOnly(r, v) ==
    IF v.session # att[r].day THEN bars ELSE bars \cup 0..v.session

\* Every usable history is imported, and it holds the sessions before its last.
StoredBars(r, v) == IF v.coverage = "none" THEN bars ELSE bars \cup 0..v.session

\* refresh_lq45_market_history: usable bars are stored whatever follows; then
\* the freshness gates decide whether the session may be completed.
Refresh(r, v) ==
    /\ att[r].phase = "market"
    /\ bars' = StoredBars(r, v)
    /\ Then(r, IF Ready(v, att[r].day)
               THEN [att[r] EXCEPT !.phase = "complete", !.session = v.session]
               ELSE Concluded(att[r], IF MayWait(v, r) THEN "WAITING" ELSE "UNAVAILABLE", TRUE))
    /\ UNCHANGED <<today, imports, completed, snapshots, job, file>>

\* record_completed_market_session
CompleteSession(r) ==
    /\ att[r].phase = "complete"
    /\ completed' = completed \cup {att[r].session}
    /\ Then(r, [att[r] EXCEPT !.phase = "current"])
    /\ UNCHANGED <<today, imports, bars, snapshots, job, file>>

\* latest_scan_snapshot decides between NOOP and a new publication.
CheckCurrent(r) ==
    /\ att[r].phase = "current"
    /\ Becomes(r, IF ScanIsCurrent(r)
                  THEN [att[r] EXCEPT !.phase = "outcomes", !.verdict = "NOOP",
                                      !.quant = scan[ActiveScan].quant]
                  ELSE [att[r] EXCEPT !.phase = "quant"])
    /\ UNCHANGED <<market, snapshots, faults, job, file>>

ReuseQuant(r) ==
    /\ att[r].phase = "quant"
    /\ QuantIsReusable(r)
    /\ Becomes(r, [att[r] EXCEPT !.phase = "scan", !.quant = ActiveQuant])
    /\ UNCHANGED <<market, snapshots, faults, job, file>>

\* build_snapshot_from_database and candidate_readiness: no evidence, evidence
\* that the policy rejects, or a candidate that may be approved.
BuildQuant(r, found) ==
    /\ att[r].phase = "quant"
    /\ ~QuantIsReusable(r)
    /\ Becomes(r, CASE found = "nothing" -> Concluded(att[r], "UNAVAILABLE", FALSE)
                    [] found = "rejected" -> Concluded(att[r], "POLICY_GATE", FALSE)
                    [] found = "ready" -> [att[r] EXCEPT !.phase = "approve",
                                                         !.evidence = imports])
    /\ UNCHANGED <<market, snapshots, faults, job, file>>

\* approve_snapshot and publish_quant_snapshot
PublishQuant(r) ==
    /\ att[r].phase = "approve"
    /\ quant' = [quant EXCEPT ![r] =
                   [digest |-> att[r].digest, session |-> att[r].session, day |-> att[r].day,
                    at |-> att[r].at, evidence |-> att[r].evidence]]
    /\ Then(r, [att[r] EXCEPT !.phase = "scan", !.quant = r])
    /\ UNCHANGED <<market, clock, scan, job, file>>

\* build_full_lq45_scan reads the newest quant again.  The scan is PRIMARY iff
\* that quant is fresh and enough issuers of the session are eligible in it.
BuildScan(r, enough) ==
    /\ att[r].phase = "scan"
    /\ Becomes(r, IF ActiveQuant # Null /\ Fresh(ActiveQuant, att[r].day) /\ enough
                  THEN [att[r] EXCEPT !.phase = "publish", !.basis = ActiveQuant]
                  ELSE Concluded(att[r], "POLICY_GATE", FALSE))
    /\ UNCHANGED <<market, snapshots, faults, job, file>>

\* publish_scan_snapshot.  The scan carries the release of its quant.
PublishScan(r) ==
    /\ att[r].phase = "publish"
    /\ clock' = clock + 1
    /\ scan' = [scan EXCEPT ![r] =
                  [digest |-> quant[att[r].basis].digest, session |-> att[r].session,
                   quant |-> att[r].basis, at |-> clock + 1]]
    /\ Then(r, [att[r] EXCEPT !.phase = "outcomes", !.verdict = "SUCCEEDED"])
    /\ UNCHANGED <<market, quant, job, file>>

\* evaluate_signal_outcomes, after a publication and after finding none needed.
EvaluateOutcomes(r) ==
    /\ att[r].phase = "outcomes"
    /\ Becomes(r, Concluded(att[r], att[r].verdict, TRUE))
    /\ UNCHANGED <<market, snapshots, faults, job, file>>

\* _write_job_report, or _report_write_failure when it returns False.
WriteReport(r) ==
    /\ att[r].phase = "report"
    /\ \/ /\ file' = [file EXCEPT ![r] = att[r].verdict]
          /\ Becomes(r, [att[r] EXCEPT !.phase = "record"])
          /\ UNCHANGED faults
       \/ /\ Becomes(r, [Interrupted(att[r]) EXCEPT !.phase = "record"])
          /\ Fault
          /\ UNCHANGED file
    /\ UNCHANGED <<market, snapshots, job>>

\* An exception of record_research_job.  Inside the try block it becomes a
\* verdict of its own; in an exception handler it is ignored.
RecordRaised(a) == IF a.inTry THEN Interrupted(a) ELSE [a EXCEPT !.phase = "ended"]

\* record_research_job with the verdict; the process exits with its code.
RecordJob(r) ==
    /\ att[r].phase = "record"
    /\ \/ /\ Becomes(r, [att[r] EXCEPT !.phase = "ended"])
          /\ job' = [job EXCEPT ![r] = PersistedStatus[att[r].verdict]]
          /\ UNCHANGED faults
       \/ /\ Becomes(r, RecordRaised(att[r]))
          /\ job' \in {job, [job EXCEPT ![r] = PersistedStatus[att[r].verdict]]}
          /\ Fault
    /\ UNCHANGED <<market, snapshots, file>>

\* The runner dies or is cancelled: no handler runs and no row is written.
Die(r) ==
    /\ Active(r)
    /\ Becomes(r, [att[r] EXCEPT !.phase = "dead"])
    /\ Fault
    /\ UNCHANGED <<market, snapshots, job, file>>

\* The session that holds the lock is lost; the attempt does not notice.
LoseLock(r) ==
    /\ Active(r) /\ att[r].locked
    /\ Becomes(r, [att[r] EXCEPT !.locked = FALSE])
    /\ Fault
    /\ UNCHANGED <<market, snapshots, job, file>>

NewDay ==
    /\ today < MaxDay
    /\ today' = today + 1
    /\ UNCHANGED <<imports, faults, bars, completed, snapshots, job, file, att>>

\* A filing import completes.  Its shards hold the production lock shared.
ImportFilings ==
    /\ imports < MaxImports
    /\ LockIsFree
    /\ imports' = imports + 1
    /\ UNCHANGED <<today, faults, bars, completed, snapshots, job, file, att>>

Next ==
    \/ NewDay
    \/ ImportFilings
    \/ \E r \in Attempt :
          \/ \E digest \in Digest : Start(r, digest)
          \/ Interrupt(r) \/ Preflight(r) \/ CompleteSession(r) \/ CheckCurrent(r)
          \/ ReuseQuant(r) \/ PublishQuant(r) \/ PublishScan(r) \/ EvaluateOutcomes(r)
          \/ WriteReport(r) \/ RecordJob(r) \/ Die(r) \/ LoseLock(r)
          \/ \E v \in View(att[r].day) : Refresh(r, v)
          \/ \E found \in {"nothing", "rejected", "ready"} : BuildQuant(r, found)
          \/ \E enough \in BOOLEAN : BuildScan(r, enough)

Spec == Init /\ [][Next]_dailyVars
----------------------------------------------------------------------------
(* Properties *)

\* Every column and every attempt holds a value of its type.
TypeOK ==
    /\ today \in Day
    /\ clock \in Nat /\ imports \in Nat /\ faults \in Nat
    /\ bars \subseteq Day /\ completed \subseteq bars
    /\ quant \in [Attempt -> Quant \cup {Null}]
    /\ scan \in [Attempt -> Scan \cup {Null}]
    /\ job \in [Attempt -> {Null, "RUNNING", "SUCCEEDED", "DEGRADED", "FAILED"}]
    /\ file \in [Attempt -> Verdict \cup {Null}]
    /\ att \in [Attempt -> State]

LockHeld == \A r \in Attempt : att[r].locked

Reached(r, verdicts) ==
    att[r].phase \in Reporting \cup {"ended"} /\ att[r].verdict \in verdicts

Exit(r) == IF att[r].phase = "ended" THEN ExitCode[att[r].verdict] ELSE -1

\* A closed gate publishes nothing: waiting and missing evidence leave both
\* tables as they were, a rejected policy leaves the scans, and the final
\* attempt of a day never ends as waiting.
GatesPublishNothing ==
    \A r \in Attempt :
        /\ Reached(r, {"WAITING", "UNAVAILABLE"}) => quant[r] = Null /\ scan[r] = Null
        /\ Reached(r, {"POLICY_GATE"}) => scan[r] = Null
        /\ Reached(r, {"WAITING"}) => r \notin FinalAttempt

\* The job row never claims more than happened: SUCCEEDED means that a scan
\* for the attempt's session is published, DEGRADED that the attempt published
\* nothing, and exits 0 and 10 are recorded before the process ends.
JobRowIsHonest ==
    \A r \in Attempt :
        /\ job[r] = "SUCCEEDED" => \E o \in ScanRows : scan[o].session = att[r].session
        /\ job[r] = "DEGRADED" => quant[r] = Null /\ scan[r] = Null
        /\ Exit(r) = 0 => job[r] = "SUCCEEDED"
        /\ Exit(r) = 10 => job[r] = "DEGRADED"

\* While no lock was lost, a published scan rests on one release: the quant it
\* names is published, for the same session, by the same calculation as the
\* code that ran, and it is the quant the attempt reports.
ScanRestsOnItsRelease ==
    LockHeld => \A r \in ScanRows :
        LET q == scan[r].quant IN
        /\ quant[q] # Null
        /\ quant[q].session = scan[r].session
        /\ quant[q].digest = att[r].digest
        /\ scan[r].digest = att[r].digest
        /\ att[r].quant = q

\* Exit 0 tells the truth: the report says so, and while no lock was lost the
\* session of the attempt has a published scan by the calculation it ran, on
\* the quant it reports.
SuccessIsPublished ==
    \A r \in Attempt :
        Exit(r) = 0 =>
            /\ file[r] = att[r].verdict
            /\ LockHeld =>
                  \E o \in ScanRows : /\ scan[o].session = att[r].session
                                      /\ scan[o].digest = att[r].digest
                                      /\ scan[o].quant = att[r].quant

\* While no lock was lost, an attempt that has settled on a quant never fails
\* the freshness gate of its scan, also when the quant is left from an attempt
\* of the day before.
ChosenQuantIsFresh ==
    LockHeld => \A r \in Attempt :
        att[r].phase = "scan" =>
            /\ ActiveQuant = att[r].quant
            /\ Fresh(ActiveQuant, att[r].day)

\* From the choice of a quant to the published scan one release is meant, and
\* it is a usable one.
ReleaseIsCoherent == ChosenQuantIsFresh /\ ScanRestsOnItsRelease

\* What an attempt says of itself, in its exit code, its report and its job
\* row, is what it did to the tables, whatever failed on the way.
AttemptIsHonest == GatesPublishNothing /\ JobRowIsHonest /\ SuccessIsPublished

\* While no lock was lost, retries do not publish twice: a second scan, or a
\* second quant, of the same session and calculation appears only after another
\* one took its place.
NoNeedlessRepublication ==
    LockHeld =>
    /\ \A r, s \in ScanRows :
          /\ scan[r].at < scan[s].at
          /\ scan[r].session = scan[s].session
          /\ scan[r].digest = scan[s].digest
          => \E o \in ScanRows :
                /\ scan[o].at < scan[s].at
                /\ NotOlder(scan[o], scan[r])
                /\ <<scan[o].session, scan[o].digest>> # <<scan[r].session, scan[r].digest>>
    /\ \A r, s \in QuantRows :
          /\ quant[r].at < quant[s].at
          /\ quant[r].session = quant[s].session
          /\ quant[r].digest = quant[s].digest
          => \E o \in QuantRows :
                /\ quant[o].at \in quant[r].at .. quant[s].at
                /\ <<quant[o].session, quant[o].digest>> # <<quant[r].session, quant[r].digest>>
=============================================================================
