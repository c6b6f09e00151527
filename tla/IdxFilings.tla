----------------------------- MODULE IdxFilings -----------------------------
(***************************************************************************)
(* The idx-filings workflow: reviewed manifests merged into main, the runs *)
(* they trigger, and the jobs of an import run - prepare, one import per   *)
(* shard, aggregate, and the request for a research refresh.               *)
(*                                                                         *)
(* The scheduler of GitHub Actions is modelled from the workflow's         *)
(* concurrency group: one run of the group runs and one waits; a run that  *)
(* is queued behind a waiting one takes its place, and the older is        *)
(* cancelled.  A failed run may be run again with its own manifest and run *)
(* id; jobs that succeeded are not repeated.                               *)
(*                                                                         *)
(* Abstracted: a filing's way through the ledger (FilingLedger) is the     *)
(* decision a shard leaves, and the production lock (ProductionDbLock) is  *)
(* one reason why a job's command may fail.                                *)
(***************************************************************************)
EXTENDS Integers, FiniteSets

\* Definitions named Fault... are mutants of the definition that follows them:
\* plausible bugs, each of which breaks a property.  Nothing uses them.

CONSTANTS
    Run,        \* workflow runs of idx-filings
    Filing,     \* filings that reviewed manifests may list
    Shard,      \* the shard matrix
    ShardOf,    \* filing_shard
    MaxReruns   \* bound of the model on manual re-runs of failed runs

Decision == {"OPEN", "ACCEPTED", "QUARANTINED"}
ShardState == {"todo", "ok", "failed"}
Running == {"discover", "prepare", "shards", "aggregate", "request"}
Ended == {"success", "failure", "cancelled"}

WorkflowRun == [stage    : Running \cup Ended \cup {"unused", "pending"},
                import   : BOOLEAN,           \* an import run, or a discovery
                manifest : SUBSET Filing,     \* data/idx_filing_manifest.json of its commit
                shard    : [Shard -> ShardState],
                ready    : BOOLEAN]           \* steps.progress.outcome == 'success'

ASSUME ConstantsAssumption ==
    /\ ShardOf \in [Filing -> Shard]
    /\ MaxReruns \in Nat

VARIABLES
    main,      \* the reviewed manifest on main
    ledger,    \* the decision about each filing
    runs,      \* the workflow runs
    reruns,    \* how many manual re-runs there were
    refreshes  \* how many refreshes each run requested

idxVars == <<main, ledger, runs, reruns, refreshes>>

Unused == [stage |-> "unused", import |-> FALSE, manifest |-> {},
           shard |-> [s \in Shard |-> "todo"], ready |-> FALSE]

Init ==
    /\ main = {}
    /\ ledger = [f \in Filing |-> "OPEN"]
    /\ runs = [r \in Run |-> Unused]
    /\ reruns = 0
    /\ refreshes = [r \in Run |-> 0]

----------------------------------------------------------------------------
(* The concurrency group *)

Waiting == {r \in Run : runs[r].stage = "pending"}
Busy == \E r \in Run : runs[r].stage \in Running

\* What becomes of another run when one is queued.
Displaced(o) ==
    IF o \in Waiting THEN [runs[o] EXCEPT !.stage = "cancelled"] ELSE runs[o]

\* The `if:` conditions of the jobs discover and prepare-import.
Started(w) == [w EXCEPT !.stage = IF w.import THEN "prepare" ELSE "discover"]

\* Run r joins the group as record w: it starts in a free group and waits
\* behind a running one.  A free group first starts the run that waits.
Queue(r, w) ==
    /\ Waiting # {} => Busy
    /\ LET queuedRun == [w EXCEPT !.stage = "pending"] IN
       runs' = [o \in Run |-> CASE o = r /\ Busy -> queuedRun
                                [] o = r /\ ~Busy -> Started(queuedRun)
                                [] OTHER -> Displaced(o)]

FaultStartsBesides(r) == r \in Waiting

MayStart(r) == r \in Waiting /\ ~Busy

StartRun(r) ==
    /\ MayStart(r)
    /\ runs' = [runs EXCEPT ![r] = Started(@)]
    /\ UNCHANGED <<main, ledger, reruns, refreshes>>

\* A reviewed manifest is merged.  The merge keeps every filing of main
\* (merge_manifests), and the push queues an import of the new main.  A push
\* of the source manifest and a manual import add nothing.
MergeManifest(r, F) ==
    /\ runs[r].stage = "unused"
    /\ F \cap main = {}
    /\ main' = main \cup F
    /\ Queue(r, [Unused EXCEPT !.import = TRUE, !.manifest = main \cup F])
    /\ UNCHANGED <<ledger, reruns, refreshes>>

\* The weekly schedule, or a manual discovery.
ScheduleDiscovery(r) ==
    /\ runs[r].stage = "unused"
    /\ Queue(r, [Unused EXCEPT !.manifest = main])
    /\ UNCHANGED <<main, ledger, reruns, refreshes>>

\* A re-run repeats the jobs that did not succeed.
Retried(w) ==
    [w EXCEPT !.shard = [s \in Shard |-> IF w.shard[s] = "ok" THEN "ok" ELSE "todo"],
              !.ready = FALSE]

Rerun(r) ==
    /\ runs[r].stage \in {"failure", "cancelled"}
    /\ reruns < MaxReruns
    /\ reruns' = reruns + 1
    /\ Queue(r, Retried(runs[r]))
    /\ UNCHANGED <<main, ledger, refreshes>>

----------------------------------------------------------------------------
(* Jobs of a run *)

\* The discovery job opens or updates the review request and writes no filing.
Discover(r) ==
    /\ runs[r].stage = "discover"
    /\ \E end \in {"success", "failure"} : runs' = [runs EXCEPT ![r].stage = end]
    /\ UNCHANGED <<main, ledger, reruns, refreshes>>

\* prepare-import: both manifests are valid and the source manifest is
\* ingested, or every later job is skipped.
Prepare(r) ==
    /\ runs[r].stage = "prepare"
    /\ \E next \in {"shards", "failure"} : runs' = [runs EXCEPT ![r].stage = next]
    /\ UNCHANGED <<main, ledger, reruns, refreshes>>

Assigned(r, s) == {f \in runs[r].manifest : ShardOf[f] = s}

FaultAllDecided(F, decided) == \A f \in F : decided[f] # "OPEN"

\* The report of a shard is ok when each assigned filing is accepted.
AllAccepted(F, decided) == \A f \in F : decided[f] = "ACCEPTED"

\* import-shards, one job of the matrix: open filings of the shard may be
\* decided, or stay open when an error, the lock or a time limit stops it.
ImportShard(r, s) ==
    /\ runs[r].stage = "shards"
    /\ runs[r].shard[s] = "todo"
    /\ \E choice \in [{f \in Assigned(r, s) : ledger[f] = "OPEN"} -> Decision],
          died \in BOOLEAN :
          /\ ledger' = [f \in Filing |-> IF f \in DOMAIN choice THEN choice[f] ELSE ledger[f]]
          /\ runs' = [runs EXCEPT ![r].shard[s] =
                        IF ~died /\ AllAccepted(Assigned(r, s), ledger') THEN "ok" ELSE "failed"]
    /\ UNCHANGED <<main, reruns, refreshes>>

\* aggregate starts when every shard job has ended, whatever its result.
StartAggregate(r) ==
    /\ runs[r].stage = "shards"
    /\ \A s \in Shard : runs[r].shard[s] # "todo"
    /\ runs' = [runs EXCEPT ![r].stage = "aggregate"]
    /\ UNCHANGED <<main, ledger, reruns, refreshes>>

\* --aggregate-only: accepted + skipped_accepted = manifest.  The step may
\* fail, and the job continues either way.
Aggregate(r) ==
    /\ runs[r].stage = "aggregate"
    /\ \E died \in BOOLEAN :
          runs' = [runs EXCEPT ![r].stage = "request",
                               ![r].ready = ~died /\ AllAccepted(runs[r].manifest, ledger)]
    /\ UNCHANGED <<main, ledger, reruns, refreshes>>

MayRequest(r) == runs[r].ready /\ \A s \in Shard : runs[r].shard[s] = "ok"

\* "Request a research refresh", or "Fail closed on incomplete durable progress".
RequestRefresh(r) ==
    /\ runs[r].stage = "request"
    /\ \/ /\ MayRequest(r)
          /\ refreshes' = [refreshes EXCEPT ![r] = @ + 1]
          /\ \E end \in {"success", "failure"} :  \* the answer of the dispatch may be lost
                runs' = [runs EXCEPT ![r].stage = end]
       \/ /\ runs' = [runs EXCEPT ![r].stage = "failure"]  \* refused, or the dispatch failed
          /\ UNCHANGED refreshes
    /\ UNCHANGED <<main, ledger, reruns>>

Job(r) ==
    \/ StartRun(r) \/ Discover(r) \/ Prepare(r) \/ StartAggregate(r)
    \/ Aggregate(r) \/ RequestRefresh(r)
    \/ \E s \in Shard : ImportShard(r, s)

Next ==
    \E r \in Run :
        \/ Job(r)
        \/ \E F \in SUBSET Filing : MergeManifest(r, F)
        \/ ScheduleDiscovery(r)
        \/ Rerun(r)

Spec == Init /\ [][Next]_idxVars
----------------------------------------------------------------------------
(* Properties *)

\* Every record has its type, a run is in a stage of its own kind, and two runs
\* never work at once: no shard of one writes after the aggregate of another
\* has read the ledger.
TypeOK ==
    /\ main \subseteq Filing
    /\ ledger \in [Filing -> Decision]
    /\ runs \in [Run -> WorkflowRun]
    /\ \A r, o \in Run : {runs[r].stage, runs[o].stage} \subseteq Running => r = o
    /\ \A r \in Run : /\ runs[r].manifest \subseteq main
                      /\ runs[r].stage \in Running =>
                            (runs[r].stage = "discover" <=> ~runs[r].import)
    /\ reruns \in 0..MaxReruns
    /\ refreshes \in [Run -> Nat]

\* A run that requested a refresh, and a run that succeeded, mean what they
\* say: the whole manifest is accepted, also when shards of the run were
\* imported by an earlier try and other runs came between.  A successful import
\* has requested the refresh, each try of it at most once.
RefreshOnlyWhenComplete ==
    \A r \in Run :
        /\ refreshes[r] > 0 \/ (runs[r].import /\ runs[r].stage = "success") =>
              \A f \in runs[r].manifest : ledger[f] = "ACCEPTED"
        /\ runs[r].import /\ runs[r].stage = "success" => refreshes[r] \in 1..(reruns + 1)
        /\ refreshes[r] > 0 => runs[r].import
=============================================================================
