--------------------------- MODULE FilingImporter ---------------------------
(***************************************************************************)
(* data/idx_filing_importer.py: the workers that import the reviewed       *)
(* filings.  A worker is one shard of a workflow run.  It syncs the        *)
(* manifest, takes a snapshot of the ledger, and then goes through its     *)
(* filings one by one: download fence, claim, renewal, download, parse,    *)
(* completion, and on failure a retryable outcome and another try.         *)
(*                                                                         *)
(* Workers overlap: a run is repeated while a stalled worker of an earlier *)
(* one still lives.  What can go wrong at each call is a mishap: the call  *)
(* fails with or without having committed, the worker dies, the session    *)
(* of its fence drops, its time runs out.  MaxMishaps bounds their number; *)
(* the behaviours cover every placement of them.                           *)
(***************************************************************************)
EXTENDS FilingLedger, Sequences

CONSTANTS
    Worker,      \* import_filings calls that may be in progress together
    RunOf,       \* the workflow run each belongs to
    Shard,       \* the filings assigned to each, in manifest order
    ManifestOf,  \* the reviewed manifest each was started with
    NoWorker,
    MaxMishaps   \* bound of the model on failures

Provider == [class |-> "PROVIDER", summary |-> "PROVIDER_UNAVAILABLE"]
Storage(code) == [class |-> "DATABASE", summary |-> code]
Invalid == [class |-> "VALIDATION", summary |-> "VALIDATION_FAILED"]
SchemaInvalid == [class |-> "SCHEMA", summary |-> "SCHEMA_INVALID"]

\* What import_filings asks complete_filing_import for: Null accepts, an
\* error quarantines with that reason.
Verdict == {Null, Invalid, SchemaInvalid, ArtifactMismatch}

Seen == [state : Outcome \cup {"ABSENT", "PENDING", "RUNNING"},
         attempts : 0..MaxAttempts, error : Error \cup {Null}, expiry : Nat]

\* The local variables of one try: the lease token, which is also the attempt
\* number; the checksum downloaded; what to complete the filing with; and the
\* error that is persisted if the next call raises.
Task == [lease : Token \cup {NoToken}, body : Checksum \cup {Null},
         verdict : Verdict, failure : Error]
NoTask == [lease |-> NoToken, body |-> Null, verdict |-> Null, failure |-> Provider]

Entry == [filing : Filing, state : Outcome \cup {"PENDING", "RUNNING"},
          action : {"SKIPPED", "DEFERRED", "EXHAUSTED", "IMPORTED", "QUARANTINED"}]

PC == {"idle", "blocked", "pick", "gate", "claim", "renew", "fetch", "parse",
       "complete", "commit", "abort", "release", "done"}
Resting == {"idle", "blocked", "done"}

ASSUME ImporterAssumption ==
    /\ RunOf \in [Worker -> Run]
    /\ \A w \in Worker : /\ Shard[w] \in Seq(Filing)
                         /\ ManifestOf[w] \in Manifests
                         /\ \A i \in DOMAIN Shard[w] : Shard[w][i] \in DOMAIN ManifestOf[w]
    /\ NoWorker \notin Worker
    /\ MaxMishaps \in Nat
    /\ {Provider} \cup {Storage(s) : s \in {"DATABASE_UNAVAILABLE", "VALIDATION_FAILED",
                                           "SCHEMA_INVALID"}} \subseteq RetryErrors
    /\ Verdict \ {Null} \subseteq QuarantineErrors

VARIABLES
    pc,       \* where each worker is
    row,      \* the position in its shard
    seen,     \* the states prepare_filing_import returned to it
    task,     \* its local variables
    report,   \* report["filings"]
    fence,    \* the worker whose session holds each filing's advisory lock
    mishaps   \* how many things went wrong so far

importVars == <<ledgerVars, pc, row, seen, task, report, fence, mishaps>>

At(w, label) == pc[w] = label
Goto(w, label) == pc' = [pc EXCEPT ![w] = label]
Current(w) == Shard[w][row[w]]
NextRow(w) == row' = [row EXCEPT ![w] = @ + 1] /\ Goto(w, "pick")
Mishap == mishaps < MaxMishaps /\ mishaps' = mishaps + 1
Smooth == UNCHANGED mishaps

\* The row gets its one entry in the report.
Record(w, state, action) ==
    report' = [report EXCEPT ![w] =
                 Append(@, [filing |-> Current(w), state |-> state, action |-> action])]
Recorded(w) == Len(report[w]) = row[w]

ImporterInit ==
    /\ Init
    /\ pc = [w \in Worker |-> "idle"]
    /\ row = [w \in Worker |-> 1]
    /\ seen = [w \in Worker |-> [f \in Filing |->
                 [state |-> "ABSENT", attempts |-> 0, error |-> Null, expiry |-> 0]]]
    /\ task = [w \in Worker |-> NoTask]
    /\ report = [w \in Worker |-> <<>>]
    /\ fence = [f \in Filing |-> NoWorker]
    /\ mishaps = 0

----------------------------------------------------------------------------
(* Preparation and the choice of rows *)

\* Sync and snapshot are one transaction.
Start(w) ==
    /\ pc[w] \in Resting
    /\ SyncReviewed(ManifestOf[w])
    /\ seen' = [seen EXCEPT ![w] = [f \in Filing |->
                  [state |-> item'[f].state, attempts |-> item'[f].attempts,
                   error |-> item'[f].error, expiry |-> item'[f].expiry]]]
    /\ row' = [row EXCEPT ![w] = 1]
    /\ report' = [report EXCEPT ![w] = <<>>]
    /\ Goto(w, "pick")
    /\ UNCHANGED <<task, fence, mishaps>>

\* A conflicting manifest or an unreachable database blocks every row.
StartBlocked(w) ==
    /\ pc[w] \in Resting
    /\ \/ ~SyncAccepts(ManifestOf[w]) /\ Smooth /\ UNCHANGED ledgerVars
       \/ Mishap /\ (SyncReviewed(ManifestOf[w]) \/ UNCHANGED ledgerVars)
    /\ report' = [report EXCEPT ![w] = <<>>]
    /\ Goto(w, "blocked")
    /\ UNCHANGED <<row, seen, task, fence>>

\* Why a row is not worked on, from the snapshot alone: the entry it gets.
\* (Definitions named Fault... are mutants, as in FilingLedger.)
FaultSkipsRunning(s) ==
    IF s.state \in Terminal \cup {"RUNNING"} THEN <<s.state, "SKIPPED">>
    ELSE IF s.state = "RETRYABLE" /\ s.error \notin RetryableErrors THEN <<s.state, "DEFERRED">>
    ELSE IF s.attempts >= MaxAttempts THEN <<"RETRYABLE", "EXHAUSTED">>
    ELSE <<>>
FaultRecordsTheCode(s) ==
    IF s.state \in Terminal THEN <<s.state, "SKIPPED">>
    ELSE IF s.state = "RETRYABLE" /\ s.error \notin RetryableErrors THEN <<s.state, "DEFERRED">>
    ELSE IF s.attempts >= MaxAttempts THEN <<"EXHAUSTED", "EXHAUSTED">>
    ELSE IF s.state = "RUNNING" /\ s.expiry > now THEN <<s.state, "DEFERRED">>
    ELSE <<>>
Passed(s) ==
    IF s.state \in Terminal THEN <<s.state, "SKIPPED">>
    ELSE IF s.state = "RETRYABLE" /\ s.error \notin RetryableErrors THEN <<s.state, "DEFERRED">>
    ELSE IF s.attempts >= MaxAttempts THEN <<"RETRYABLE", "EXHAUSTED">>
    ELSE IF s.state = "RUNNING" /\ s.expiry > now THEN <<s.state, "DEFERRED">>
    ELSE <<>>

Pass(w) ==
    /\ At(w, "pick")
    /\ row[w] \in DOMAIN Shard[w]
    /\ LET s == seen[w][Current(w)] IN
         \/ /\ Passed(s) # <<>>
            /\ Record(w, Passed(s)[1], Passed(s)[2])
            /\ Smooth
         \/ /\ Passed(s) = <<>>             \* the retry backoff is not over
            /\ s.state = "RETRYABLE"
            /\ Record(w, s.state, "DEFERRED")
            /\ Mishap
    /\ NextRow(w)
    /\ UNCHANGED <<ledgerVars, seen, task, fence>>

Pick(w) ==
    /\ At(w, "pick")
    /\ row[w] \in DOMAIN Shard[w]
    /\ Passed(seen[w][Current(w)]) = <<>>
    /\ Goto(w, "gate")
    /\ UNCHANGED <<ledgerVars, row, seen, task, report, fence, mishaps>>

Finished(w) ==
    /\ At(w, "pick")
    /\ row[w] \notin DOMAIN Shard[w]
    /\ Goto(w, "done")
    /\ UNCHANGED <<ledgerVars, row, seen, task, report, fence, mishaps>>

----------------------------------------------------------------------------
(* One try at a row *)

FaultIgnoresFence(w) ==
    /\ At(w, "gate")
    /\ fence' = [fence EXCEPT ![Current(w)] = w]
    /\ Goto(w, "claim")
    /\ UNCHANGED <<ledgerVars, row, seen, task, report, mishaps>>

TakeFence(w) ==
    /\ At(w, "gate")
    /\ fence[Current(w)] = NoWorker
    /\ fence' = [fence EXCEPT ![Current(w)] = w]
    /\ Goto(w, "claim")
    /\ UNCHANGED <<ledgerVars, row, seen, task, report, mishaps>>

\* The advisory lock is taken, the time budget is spent, or no connection.
NoFence(w) ==
    /\ At(w, "gate")
    /\ \/ fence[Current(w)] # NoWorker /\ Smooth /\ Record(w, "RUNNING", "DEFERRED")
       \/ Mishap /\ Record(w, seen[w][Current(w)].state, "DEFERRED")
    /\ NextRow(w)
    /\ UNCHANGED <<ledgerVars, seen, task, fence>>

Granted(w) ==
    /\ At(w, "claim")
    /\ Claim(Current(w), RunOf[w])
    /\ task' = [task EXCEPT ![w] = [NoTask EXCEPT !.lease = item'[Current(w)].token]]
    /\ Goto(w, "renew")
    /\ UNCHANGED <<row, seen, report, fence, mishaps>>

\* No lease: spent, leased or finished by another worker, its row locked by a
\* completion or another transaction, or no answer from the database.
NotGranted(w) ==
    /\ At(w, "claim")
    /\ \/ ClaimSpent(Current(w)) /\ Smooth /\ Record(w, "RUNNING", "DEFERRED")
       \/ /\ ~Claimable(Current(w)) /\ ~Lapsed(Current(w))
          /\ Smooth /\ UNCHANGED ledgerVars
          /\ Record(w, "RUNNING", "DEFERRED")
       \/ /\ Locked(Current(w))
          /\ Smooth /\ UNCHANGED ledgerVars
          /\ Record(w, "RUNNING", "DEFERRED")
       \/ Mishap /\ UNCHANGED ledgerVars /\ Record(w, "RUNNING", "DEFERRED")
       \/ /\ Mishap
          /\ \/ Claim(Current(w), RunOf[w])
             \/ ClaimSpent(Current(w))
             \/ UNCHANGED ledgerVars
          /\ Record(w, seen[w][Current(w)].state, "DEFERRED")
    /\ Goto(w, "release")
    /\ UNCHANGED <<row, seen, task, fence>>

\* The lease is gone: the filing is left to whoever has it now.  Each of the
\* three calls waits for the row lock first.
LeaseLost(w) ==
    /\ pc[w] \in {"renew", "complete", "abort"}
    /\ ~Locked(Current(w))
    /\ ~LeaseHeld(Current(w), task[w].lease)
    /\ Record(w, "RUNNING", "DEFERRED")
    /\ Goto(w, "release")
    /\ UNCHANGED <<ledgerVars, row, seen, task, fence, mishaps>>

FaultRenewsAnyLease(w) ==
    /\ At(w, "renew")
    /\ item' = [item EXCEPT ![Current(w)].expiry = now + LeaseTerm]
    /\ Goto(w, "fetch")
    /\ UNCHANGED <<now, reviewed, attempt, artifact, facts, header, profile, issues, locked,
                   row, seen, task, report, fence, mishaps>>

Renewed(w) ==
    /\ At(w, "renew")
    /\ Renew(Current(w), task[w].lease)
    /\ Goto(w, "fetch")
    /\ UNCHANGED <<row, seen, task, report, fence, mishaps>>

RenewFails(w) ==
    /\ At(w, "renew")
    /\ Mishap
    /\ Renew(Current(w), task[w].lease) \/ UNCHANGED ledgerVars
    /\ Goto(w, "abort")
    /\ UNCHANGED <<row, seen, task, report, fence>>

\* Download and archival; other bytes than the reviewed ones are not parsed.
Fetched(w, c) ==
    /\ At(w, "fetch")
    /\ LET differs == ChecksumDiffers(Current(w), c)
       IN /\ task' = [task EXCEPT ![w].body = c,
                                  ![w].verdict = IF differs THEN ArtifactMismatch ELSE Null]
          /\ Goto(w, IF differs THEN "complete" ELSE "parse")
    /\ UNCHANGED <<ledgerVars, row, seen, report, fence, mishaps>>

FetchFails(w) ==
    /\ At(w, "fetch")
    /\ Mishap
    /\ Goto(w, "abort")
    /\ UNCHANGED <<ledgerVars, row, seen, task, report, fence>>

\* From here on a failure is persisted as one of the database, with the code
\* of the verdict.
Parsed(w, verdict) ==
    /\ At(w, "parse")
    /\ task' = [task EXCEPT ![w].verdict = verdict,
                            ![w].failure = Storage(IF verdict = Null THEN "DATABASE_UNAVAILABLE"
                                                                     ELSE "VALIDATION_FAILED")]
    /\ Goto(w, "complete")
    /\ UNCHANGED <<ledgerVars, row, seen, report, fence, mishaps>>

\* The completion has the row lock; time may pass until it commits.
Begin(w) ==
    /\ At(w, "complete")
    /\ StartCompletion(Current(w), task[w].lease)
    /\ Goto(w, "commit")
    /\ UNCHANGED <<row, seen, task, report, fence, mishaps>>

Complete(f, t, c, verdict) ==
    \/ verdict = Null /\ \E l \in Label : CompleteAccepted(f, t, c, l)
    \/ verdict # Null /\ CompleteQuarantined(f, t, c, verdict)

Completed(w) ==
    /\ At(w, "commit")
    /\ Complete(Current(w), task[w].lease, task[w].body, task[w].verdict)
    /\ IF task[w].verdict = Null THEN Record(w, "ACCEPTED", "IMPORTED")
                                 ELSE Record(w, "QUARANTINED", "QUARANTINED")
    /\ Goto(w, "release")
    /\ UNCHANGED <<row, seen, task, fence, mishaps>>

Drift(w) == DriftBlocked(Current(w), task[w].body,
                         IF task[w].verdict = Null THEN "ACCEPTED" ELSE "QUARANTINED")

\* A ValueError: facts the schema refuses, an artifact the ledger refuses, or
\* a lease that lapsed on the way.  The first one quarantines the document
\* instead; a second one, or one of a mismatch, is a failure like any other.
Refused(w) ==
    /\ At(w, "commit")
    /\ \/ task[w].verdict = Null
       \/ /\ ~Drift(w)
          /\ \/ ProvenanceRefused(Current(w), task[w].body, task[w].verdict)
             \/ ~LeaseHeld(Current(w), task[w].lease)
    /\ RollBack(Current(w))
    /\ IF task[w].verdict \in {Null, Invalid}
       THEN /\ task' = [task EXCEPT ![w].verdict = SchemaInvalid,
                                    ![w].failure = Storage("SCHEMA_INVALID")]
            /\ Goto(w, "complete")
       ELSE Goto(w, "abort") /\ UNCHANGED task
    /\ UNCHANGED <<row, seen, report, fence, mishaps>>

\* No completion is begun, the drift trigger refuses the artifact's status, or
\* the connection fails: after the commit, before it, or unnoticed by the
\* database, which keeps the row locked.
CompleteFails(w) ==
    /\ \/ At(w, "complete") /\ Mishap /\ UNCHANGED ledgerVars
       \/ At(w, "commit") /\ Drift(w) /\ Smooth /\ RollBack(Current(w))
       \/ /\ At(w, "commit")
          /\ Mishap
          /\ \/ Complete(Current(w), task[w].lease, task[w].body, task[w].verdict)
             \/ RollBack(Current(w))
             \/ UNCHANGED ledgerVars
    /\ Goto(w, "abort")
    /\ UNCHANGED <<row, seen, task, report, fence>>

FaultGivesUpAtOnce(w) ==
    /\ At(w, "abort")
    /\ FinalizeRetryable(Current(w), task[w].lease, task[w].failure)
    /\ Record(w, "RETRYABLE", "EXHAUSTED")
    /\ Goto(w, "release")
    /\ UNCHANGED <<row, seen, task, fence, mishaps>>

\* The failure is persisted.  Attempts left: the row is tried again.
Aborted(w) ==
    /\ At(w, "abort")
    /\ FinalizeRetryable(Current(w), task[w].lease, task[w].failure)
    /\ IF task[w].lease < MaxAttempts THEN UNCHANGED report
                                      ELSE Record(w, "RETRYABLE", "EXHAUSTED")
    /\ Goto(w, "release")
    /\ UNCHANGED <<row, seen, task, fence, mishaps>>

AbortFails(w) ==
    /\ At(w, "abort")
    /\ Mishap
    /\ \/ FinalizeRetryable(Current(w), task[w].lease, task[w].failure)
       \/ UNCHANGED ledgerVars
    /\ Record(w, "RUNNING", "DEFERRED")
    /\ Goto(w, "release")
    /\ UNCHANGED <<row, seen, task, fence>>

\* The session of the fence is closed; a row without an entry is retried,
\* unless the time budget does not allow it.
Released(w) == [f \in Filing |-> IF fence[f] = w THEN NoWorker ELSE fence[f]]

Release(w) ==
    /\ At(w, "release")
    /\ fence' = Released(w)
    /\ task' = [task EXCEPT ![w] = NoTask]
    /\ \/ Recorded(w) /\ NextRow(w) /\ Smooth /\ UNCHANGED report
       \/ ~Recorded(w) /\ Goto(w, "gate") /\ Smooth /\ UNCHANGED <<row, report>>
       \/ ~Recorded(w) /\ Mishap /\ Record(w, "RETRYABLE", "DEFERRED") /\ NextRow(w)
    /\ UNCHANGED <<ledgerVars, seen>>

----------------------------------------------------------------------------
(* What happens to a worker *)

Crash(w) ==
    /\ pc[w] \notin Resting
    /\ Mishap
    /\ Goto(w, "idle")
    /\ fence' = Released(w)
    /\ task' = [task EXCEPT ![w] = NoTask]
    /\ report' = [report EXCEPT ![w] = <<>>]
    /\ UNCHANGED <<ledgerVars, row, seen>>

\* PostgreSQL ends the session: the lock is free, the worker goes on.
SessionLost(w) ==
    /\ Released(w) # fence
    /\ Mishap
    /\ fence' = Released(w)
    /\ UNCHANGED <<ledgerVars, pc, row, seen, task, report>>

\* PostgreSQL rolls back a completion whose client is gone.
Abandoned(f) ==
    /\ \A w \in Worker :
          At(w, "commit") /\ Current(w) = f => task[w].lease # locked[f]
    /\ RollBack(f)
    /\ UNCHANGED <<pc, row, seen, task, report, fence, mishaps>>

\* Time matters, and passes in the model, while a lease or a snapshot of one
\* is live.  Each lease lapses once, so MaxClock >= LeaseTerm * MaxAttempts *
\* Cardinality(Filing) leaves no lease that cannot lapse.
Pause ==
    /\ \/ \E f \in Filing : item[f].state = "RUNNING" /\ item[f].expiry > now
       \/ \E w \in Worker, f \in Filing :
             At(w, "pick") /\ seen[w][f].state = "RUNNING" /\ seen[w][f].expiry > now
    /\ Tick
    /\ UNCHANGED <<pc, row, seen, task, report, fence, mishaps>>

Work(w) ==
    \/ Pass(w) \/ Pick(w) \/ Finished(w) \/ TakeFence(w) \/ NoFence(w)
    \/ Granted(w) \/ NotGranted(w) \/ LeaseLost(w) \/ Renewed(w) \/ RenewFails(w)
    \/ \E c \in Checksum : Fetched(w, c)
    \/ FetchFails(w)
    \/ \E v \in {Null, Invalid} : Parsed(w, v)
    \/ Begin(w) \/ Completed(w) \/ Refused(w) \/ CompleteFails(w)
    \/ Aborted(w) \/ AbortFails(w) \/ Release(w)

ImporterNext ==
    \/ \E w \in Worker : Start(w) \/ StartBlocked(w) \/ Work(w) \/ Crash(w) \/ SessionLost(w)
    \/ \E f \in Filing : Abandoned(f)
    \/ Pause

\* Fairness: a process that runs goes on running, runs are repeated, time
\* passes, and the database notices that a client is gone.  Nothing is assumed
\* of which way a call goes.
Fairness ==
    /\ \A w \in Worker : WF_importVars(Work(w)) /\ WF_importVars(Start(w))
    /\ \A f \in Filing : WF_importVars(Abandoned(f))
    /\ WF_importVars(Pause)

ImporterSpec == ImporterInit /\ [][ImporterNext]_importVars
FairImporterSpec == ImporterSpec /\ Fairness
----------------------------------------------------------------------------
(* Properties *)

ImporterTypeOK ==
    /\ TypeOK
    /\ pc \in [Worker -> PC]
    /\ row \in [Worker -> Nat]
    /\ seen \in [Worker -> [Filing -> Seen]]
    /\ task \in [Worker -> Task]
    /\ report \in [Worker -> Seq(Entry)]
    /\ fence \in [Filing -> Worker \cup {NoWorker}]
    /\ mishaps \in 0..MaxMishaps

Entries(w) == {report[w][i] : i \in DOMAIN report[w]}

\* Whatever happens on the way to it, a report has exactly one entry for
\* every assigned filing, in manifest order: no path out of the retry loop
\* forgets a row or reports it twice.
OneEntryPerRow ==
    \A w \in Worker :
        /\ At(w, "done") => Len(report[w]) = Len(Shard[w])
        /\ \A i \in DOMAIN report[w] : report[w][i].filing = Shard[w][i]
        /\ pc[w] \in PC \ (Resting \cup {"release"}) => Len(report[w]) = row[w] - 1

\* A filing is reported accepted, quarantined or exhausted only if the
\* ledger says so durably, however stale the snapshot is and whichever
\* answers were lost; a report of all-accepted means all facts are stored.
ReportIsDurable ==
    \A w \in Worker : \A e \in Entries(w) :
        /\ e.state \in Terminal => item[e.filing].state = e.state
        /\ e.state = "ACCEPTED" =>
              \A l \in Evidence(e.filing) : \E d \in facts : d.line = l
        /\ e.action = "EXHAUSTED" => item[e.filing].attempts = MaxAttempts

\* Overlapping workers never both claim credit for a filing.
CreditedOnce ==
    \A v, w \in Worker :
        \A e \in Entries(v), d \in Entries(w) :
            e.filing = d.filing /\ {e.action, d.action} \subseteq {"IMPORTED", "QUARANTINED"}
                => v = w

\* The report of a run can be relied on: complete, durable, and no credit
\* taken twice.
ReportIsTrue == OneEntryPerRow /\ ReportIsDurable /\ CreditedOnce

Working == {"claim", "renew", "fetch", "parse", "complete", "commit", "abort"}

\* Without a failure no filing is downloaded by two workers at once; with
\* lost sessions it may be, but only one of them still has a live lease, and
\* that lease is recorded as its run's.
OneLiveWorker ==
    \A v, w \in Worker :
        pc[v] \in Working /\ pc[w] \in Working /\ Current(v) = Current(w) =>
            /\ v = w \/ mishaps > 0
            /\ /\ LeaseHeld(Current(v), task[v].lease)
               /\ LeaseHeld(Current(w), task[w].lease)
               => v = w /\ item[Current(w)].owner = RunOf[w]

\* Importing is nothing but ledger transactions: every step of every worker,
\* lost answers and zombies included, is one or leaves the ledger alone.
UsesLedger == Spec

\* Every import ends, whatever fails: no retry loop runs for ever and no
\* worker waits for another.
EveryImportEnds == \A w \in Worker : At(w, "pick") ~> pc[w] \in Resting

\* A filing no more work is due on: decided, out of attempts, or failed in a
\* way that is not retried.
Closed(f) ==
    \/ item[f].state \in Terminal
    \/ item[f].attempts = MaxAttempts
    \/ item[f].state = "RETRYABLE" /\ item[f].error \notin RetryableErrors

\* Repeated runs leave no reviewed filing unattended: lost claims, dead
\* workers and conflicting runs only delay it.
EveryFilingIsClosed == \A f \in Filing : reviewed[f] # Null ~> Closed(f)

\* Importing terminates and leaves nothing behind.
ImportingGetsDone == EveryImportEnds /\ EveryFilingIsClosed

\* docs/specs/ingestion-contract.md, line 17, of RETRYABLE: a failure that is
\* "eligible for bounded retry".
RetryableIsEligible ==
    \A f \in Filing : item[f].state = "RETRYABLE" => item[f].error \in RetryableErrors
=============================================================================
