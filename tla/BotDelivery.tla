---------------------------- MODULE BotDelivery ----------------------------
(***************************************************************************)
(* The Telegram bot: the webhook with its memory of processed updates, the *)
(* two process-local caches it answers from - the approved quant snapshot  *)
(* and the latest scan - and the command handlers, each as the answer it   *)
(* gives and the caches it leaves.                                         *)
(*                                                                         *)
(* External: Telegram sends an update again until it is acknowledged, the  *)
(* daily research publishes snapshots (DailyResearch), the database fails  *)
(* and recovers, and the instance may be stopped at any time.              *)
(*                                                                         *)
(* Time is counted in ticks; a trading session completes every             *)
(* SessionLength ticks.  Wording and figures of a reply are left out: an   *)
(* answer is its kind, and the snapshots the handler read.                 *)
(***************************************************************************)
EXTENDS Integers, Sequences, SequencesExt

\* Definitions named Fault... are mutants of the definition that follows them:
\* plausible bugs, each of which breaks a property.  Nothing uses them.

CONSTANTS
    Update,         \* update ids, which Telegram gives in order
    Deployment,     \* settings of the environment: snapshotOnly, configured
    Member,         \* tickers of the universe
    Ranking,        \* tickers that published quant snapshots may rank
    Content,        \* modes and candidate rows that published scans may have
    Other,          \* a ticker outside it
    Ttl,            \* the cache interval, in ticks
    SessionLength,  \* ticks from one completed session to the next
    StaleAfter,     \* sessions after which candidates are withheld (2)
    Remembered,     \* processed updates the webhook remembers (500)
    MaxTime, MaxScans, MaxQuants, MaxMishaps,  \* bounds of the model
    MaxHandlers     \* bound of the model on the handlers two updates have at a time

ASSUME ConstantsAssumption ==
    /\ {Ttl, SessionLength, Remembered} \subseteq Nat \ {0}
    /\ {StaleAfter, MaxTime, MaxScans, MaxQuants, MaxMishaps, MaxHandlers} \subseteq Nat
    /\ Content \subseteq [mode : {"PRIMARY", "DEGRADED"}, rows : SUBSET Member]
    /\ Ranking \subseteq SUBSET Member
    /\ Update \subseteq Nat /\ Other \notin Member
    /\ Deployment \subseteq [snapshotOnly : BOOLEAN, configured : BOOLEAN]

VARIABLES
    snapshotOnly,  \* BOT_SNAPSHOT_ONLY
    configured,    \* SUPABASE_DATABASE_URL is set
    now,
    database,      \* it answers
    lastDown,      \* history: the last tick at which it did not, or -1
    scans,         \* scan_research_snapshots, in the order of latest_scan_snapshot
    quants,        \* approved quant snapshots, in the order of effective_at
    alive,         \* a process serves the webhook
    quant, scan,   \* _snapshot and _loaded_at of the two managers
    seen,          \* processed_updates, oldest first
    telegram,      \* what Telegram knows of each update
    running,       \* handlers of each update that have not returned
    handled,       \* history: updates whose handler returned in this process
    answer,        \* the kind of reply this step gave, from the caches as it left them
    mishaps

world == <<snapshotOnly, configured, now, database, lastDown, scans, quants>>
caches == <<quant, scan>>
delivery == <<alive, seen, telegram, running, handled>>
botVars == <<world, caches, delivery, answer, mishaps>>

Session(t) == t \div SessionLength
Reachable == configured /\ database

\* A scan holds the universe: candidates with a row, and the excluded rest.
Scan == [session : 0..Session(MaxTime), mode : {"PRIMARY", "DEGRADED"},
         rows : SUBSET Member, at : 0..MaxTime]

\* A cached scan is a position in scans and the age verified when it was loaded;
\* position 0 is unavailable_scan_snapshot, and for quants the packaged fallback.
NotLoaded == [n |-> -1, age |-> 0, at |-> 0]
Unavailable == [n |-> 0, age |-> 0, at |-> now]
Silence == "none"

Cached(cache) == cache.n >= 0 /\ now - cache.at < Ttl

FaultKeepsOldScan(refresh) ==
    IF scan.n >= 0 /\ ~refresh THEN scan
    ELSE IF Reachable /\ scans # <<>>
    THEN [n |-> Len(scans), age |-> Session(now) - Last(scans).session, at |-> now]
    ELSE Unavailable
\* The age belongs to the load: a scan kept through a failure keeps the age it had.
GetScan(refresh) ==
    IF Cached(scan) /\ ~refresh THEN scan
    ELSE IF Reachable /\ scans # <<>>
    THEN [n |-> Len(scans), age |-> Session(now) - Last(scans).session, at |-> now]
    ELSE IF ~Reachable /\ scan.n >= 0 THEN [scan EXCEPT !.at = now]
    ELSE Unavailable

FaultFallsBackFirst(refresh) ==
    IF Cached(quant) /\ ~refresh THEN quant
    ELSE IF Reachable /\ quants # <<>> /\ quant.n < 1 THEN [n |-> Len(quants), age |-> 0, at |-> now]
    ELSE Unavailable
\* Unlike the scan, a quant snapshot gives way to the fallback when a load fails.
GetQuant(refresh) ==
    IF Cached(quant) /\ ~refresh THEN quant
    ELSE IF Reachable /\ quants # <<>> THEN [n |-> Len(quants), age |-> 0, at |-> now]
    ELSE Unavailable

\* to_bundle: what a scan shows once it is too old, and until then.
Stale(s) == s.n = 0 \/ s.age > StaleAfter
Mode(s) == IF Stale(s) THEN "UNAVAILABLE" ELSE scans[s.n].mode
Candidates(s, wanted) == IF Stale(s) THEN {} ELSE scans[s.n].rows \cap wanted
Ranked(q) == IF q.n = 0 THEN {} ELSE quants[q.n]

-----------------------------------------------------------------------------
(* The command handlers, for a ticker, whether what they look for is       *)
(* stored, and the snapshots e they would be given.                        *)

Evidence == [quant |-> GetQuant(FALSE), scan |-> GetScan(FALSE)]

\* A reply, with the caches as the handler leaves them.
Reply(kind, q, s) == [kind |-> kind, quant |-> q, scan |-> s]
Either(found, kind) == IF found THEN kind ELSE "unavailable"

\* _run_full_analysis asks the providers; a failure comes back before the snapshot.
FullAnalysis(answered, e) == Reply("live", IF answered THEN e.quant ELSE quant, scan)

\* _v4_evidence reads both snapshots, then the handler decides.
TickerEvidence(kind, answered, e) ==
    IF snapshotOnly THEN Reply(kind, e.quant, e.scan) ELSE FullAnalysis(answered, e)

usage == Reply("usage", quant, scan)
ta_command(t, stored, e) ==
    TickerEvidence(Either(Candidates(e.scan, {t}) # {}, "rows"), stored, e)
range_command(t, stored, e) ==
    TickerEvidence(Either(Candidates(e.scan, {t}) # {}, "rows"), stored, e)
fund_command(t, stored, e) ==
    TickerEvidence(Either(t \in Ranked(e.quant), "quant"), stored, e)
decision_command(t, stored, e) ==
    TickerEvidence(IF Candidates(e.scan, {t}) # {} THEN "rows"
                   ELSE Either(t \in Ranked(e.quant), "quant"), stored, e)

quant_command(t, e) ==
    Reply(IF t \in Ranked(e.quant) THEN "quant"
          ELSE IF snapshotOnly THEN "unavailable" ELSE "live", e.quant, scan)
evidence_command(t, e) == Reply(Either(t \in Ranked(e.quant), "quant"), e.quant, scan)

\* The chart looks at the stored mode of the scan, not at its age.
chart_command(stored, e) ==
    IF snapshotOnly
    THEN Reply(Either(e.scan.n > 0 /\ Reachable /\ stored, "chart"), quant, e.scan)
    ELSE FullAnalysis(stored, e)

scan_command(wanted, e) == Reply(Either(Candidates(e.scan, wanted) # {}, "rows"), quant, e.scan)
market_command(e) == Reply(Either(Candidates(e.scan, Member) # {}, "rows"), quant, e.scan)
status_command == Reply("status", GetQuant(TRUE), GetScan(TRUE))

\* Commands that read the repository: history and events turn a failure into an
\* empty answer, the portfolio leaves it to telegram_error_handler.
history_command(t) ==
    Reply(Either(Reachable /\ t \in Member /\ scans # <<>>, "stored"), quant, scan)
events_command(stored) == Reply(Either(Reachable /\ stored, "stored"), quant, scan)
portfolio_command(stored) ==
    Reply(IF ~snapshotOnly THEN "live"
          ELSE IF configured /\ ~database THEN "failed" ELSE Either(configured /\ stored, "stored"),
          quant, scan)

Replies(t, stored, e) ==
    {usage, status_command, history_command(t), events_command(stored), portfolio_command(stored),
     ta_command(t, stored, e), range_command(t, stored, e), fund_command(t, stored, e),
     decision_command(t, stored, e), quant_command(t, e), evidence_command(t, e),
     chart_command(stored, e), scan_command({t}, e), market_command(e)}

readiness(e) ==
    Reply(IF e.quant.n = 0 \/ Mode(e.scan) # "PRIMARY" THEN "degraded" ELSE "ok", e.quant, e.scan)

-----------------------------------------------------------------------------
(* The process and its webhook.                                            *)

Init ==
    /\ \E d \in Deployment : snapshotOnly = d.snapshotOnly /\ configured = d.configured
    /\ now = 0 /\ database = TRUE /\ lastDown = -1
    /\ scans = <<>> /\ quants = <<>>
    /\ alive = FALSE /\ quant = NotLoaded /\ scan = NotLoaded
    /\ seen = <<>> /\ handled = {}
    /\ telegram = [u \in Update |-> "none"]
    /\ running = [u \in Update |-> 0]
    /\ answer = Silence /\ mishaps = 0

\* build_application warms both caches before the first request.
StartProcess ==
    /\ ~alive
    /\ alive' = TRUE
    /\ quant' = GetQuant(FALSE) /\ scan' = GetScan(FALSE)
    /\ answer' = Silence
    /\ UNCHANGED <<world, seen, telegram, running, handled, mishaps>>

ProcessDies ==
    /\ alive /\ mishaps < MaxMishaps
    /\ mishaps' = mishaps + 1
    /\ alive' = FALSE
    /\ quant' = NotLoaded /\ scan' = NotLoaded
    /\ seen' = <<>> /\ handled' = {}
    /\ running' = [u \in Update |-> 0]
    /\ answer' = Silence
    /\ UNCHANGED <<world, telegram>>

UserSends(u) ==
    /\ telegram[u] = "none" /\ \A v \in Update : v < u => telegram[v] # "none"
    /\ telegram' = [telegram EXCEPT ![u] = "sent"]
    /\ answer' = Silence
    /\ UNCHANGED <<world, caches, alive, seen, running, handled, mishaps>>

\* Bound of the model: at most MaxHandlers handlers of one update or of any two.
MayRun(u) ==
    /\ running[u] < MaxHandlers
    /\ \A v \in Update \ {u} : running[u] + running[v] < MaxHandlers

FaultForgetsTheCheck(u) ==
    /\ alive /\ telegram[u] = "sent" /\ MayRun(u)
    /\ seen' = Append(seen, u)
    /\ running' = [running EXCEPT ![u] = @ + 1]
    /\ answer' = Silence
    /\ UNCHANGED <<world, caches, alive, telegram, handled, mishaps>>

\* An update that is remembered is acknowledged at once; another one is
\* remembered before its handler runs.
telegram_webhook(u) ==
    /\ alive /\ telegram[u] = "sent"
    /\ IF u \in ToSet(seen)
       THEN /\ telegram' = [telegram EXCEPT ![u] = "acknowledged"]
            /\ UNCHANGED <<seen, running>>
       ELSE /\ MayRun(u)
            /\ seen' = LET next == Append(seen, u)
                       IN  IF Len(next) > Remembered THEN Tail(next) ELSE next
            /\ running' = [running EXCEPT ![u] = @ + 1]
            /\ UNCHANGED telegram
    /\ answer' = Silence
    /\ UNCHANGED <<world, caches, alive, handled, mishaps>>

FaultAnswersOnSuccessOnly(u) ==
    /\ running[u] > 0
    /\ running' = [running EXCEPT ![u] = @ - 1]
    /\ \E e \in {Evidence}, t \in Member \cup {Other}, stored \in BOOLEAN :
          \E r \in Replies(t, stored, e) :
             /\ answer' = r.kind /\ quant' = r.quant /\ scan' = r.scan
             /\ IF r.kind = "failed" THEN UNCHANGED <<telegram, handled>>
                ELSE /\ telegram' = [telegram EXCEPT ![u] = "acknowledged"]
                     /\ handled' = handled \cup {u}
    /\ UNCHANGED <<world, alive, seen, mishaps>>

\* The handler answers and the request returns, though Telegram may not hear of
\* it.  telegram_error_handler swallows what a handler raises, so a failed reply
\* is acknowledged as well.
HandlerReturns(u) ==
    /\ running[u] > 0
    /\ running' = [running EXCEPT ![u] = @ - 1]
    /\ handled' = handled \cup {u}
    /\ \E e \in {Evidence}, t \in Member \cup {Other}, stored \in BOOLEAN :
          \E r \in Replies(t, stored, e) :
             answer' = r.kind /\ quant' = r.quant /\ scan' = r.scan
    /\ \/ telegram' = [telegram EXCEPT ![u] = "acknowledged"] /\ UNCHANGED mishaps
       \/ mishaps < MaxMishaps /\ mishaps' = mishaps + 1 /\ UNCHANGED telegram
    /\ UNCHANGED <<world, alive, seen>>

FaultRemembersFailures(u) ==
    /\ running[u] > 0 /\ mishaps < MaxMishaps
    /\ mishaps' = mishaps + 1
    /\ running' = [running EXCEPT ![u] = @ - 1]
    /\ answer' = Silence
    /\ UNCHANGED <<world, caches, alive, seen, telegram, handled>>

\* process_update itself raises: the update is forgotten, if it is still remembered,
\* and the request fails.
ProcessUpdateRaises(u) ==
    /\ running[u] > 0 /\ mishaps < MaxMishaps
    /\ mishaps' = mishaps + 1
    /\ running' = [running EXCEPT ![u] = @ - 1]
    /\ seen' = IF u \in ToSet(seen) THEN RemoveAt(seen, CHOOSE i \in DOMAIN seen : seen[i] = u)
               ELSE seen
    /\ answer' = Silence
    /\ UNCHANGED <<world, caches, alive, telegram, handled>>

HealthCheck ==
    /\ alive
    /\ \E r \in {readiness(Evidence)} : answer' = r.kind /\ quant' = r.quant /\ scan' = r.scan
    /\ UNCHANGED <<world, delivery, mishaps>>

-----------------------------------------------------------------------------
(* The world outside: the database the bot knows, if it knows one.         *)

ScanPublished ==
    /\ Len(scans) < MaxScans /\ Reachable
    /\ \E c \in Content : scans' = Append(scans, [session |-> Session(now), mode |-> c.mode,
                                                  rows |-> c.rows, at |-> now])
    /\ answer' = Silence
    /\ UNCHANGED <<snapshotOnly, configured, now, database, lastDown, quants, caches, delivery, mishaps>>

QuantPublished ==
    /\ Len(quants) < MaxQuants /\ Reachable
    /\ \E rows \in Ranking : quants' = Append(quants, rows)
    /\ answer' = Silence
    /\ UNCHANGED <<snapshotOnly, configured, now, database, lastDown, scans, caches, delivery, mishaps>>

DatabaseChanges ==
    /\ configured
    /\ database => mishaps < MaxMishaps
    /\ mishaps' = IF database THEN mishaps + 1 ELSE mishaps
    /\ database' = ~database
    /\ lastDown' = now
    /\ answer' = Silence
    /\ UNCHANGED <<snapshotOnly, configured, now, scans, quants, caches, delivery>>

Tick ==
    /\ now < MaxTime
    /\ now' = now + 1
    /\ lastDown' = IF database THEN lastDown ELSE now'
    /\ answer' = Silence
    /\ UNCHANGED <<snapshotOnly, configured, database, scans, quants, caches, delivery, mishaps>>

Next ==
    \/ StartProcess \/ ProcessDies \/ HealthCheck
    \/ \E u \in Update : \/ UserSends(u) \/ telegram_webhook(u)
                         \/ HandlerReturns(u) \/ ProcessUpdateRaises(u)
    \/ ScanPublished \/ QuantPublished \/ DatabaseChanges \/ Tick

\* Telegram sends again until it is answered, a request starts a process, and a
\* handler that runs returns unless the process is stopped.
Fairness ==
    /\ WF_botVars(StartProcess)
    /\ \A u \in Update : /\ WF_botVars(telegram_webhook(u))
                         /\ WF_botVars(HandlerReturns(u))

Spec == Init /\ [][Next]_botVars /\ Fairness

-----------------------------------------------------------------------------
(* Properties.                                                             *)

\* The type of the bot's state: cached positions exist in the database's tables,
\* and the memory of processed updates stays within its limit.
TypeOK ==
    /\ {snapshotOnly, configured, database, alive} \subseteq BOOLEAN
    /\ now \in 0..MaxTime /\ lastDown \in -1..now
    /\ scans \in Seq(Scan) /\ quants \in Seq(SUBSET Member)
    /\ scan.n \in -1..Len(scans) /\ quant.n \in -1..Len(quants)
    /\ alive <=> scan.n >= 0 /\ quant.n >= 0
    /\ ToSet(seen) \subseteq Update /\ Len(seen) <= Remembered
    /\ telegram \in [Update -> {"none", "sent", "acknowledged"}]
    /\ running \in [Update -> 0..MaxHandlers]

\* The bot does not substitute a live provider calculation for a snapshot
\* (_snapshot_unavailable), and an answer that rests on a snapshot names one that
\* was published.
AnswersRestOnSnapshots ==
    /\ snapshotOnly => answer # "live"
    /\ answer \in {"rows", "chart", "ok"} => scan.n \in DOMAIN scans
    /\ answer \in {"quant", "ok"} => quant.n \in DOMAIN quants

\* When the candidates of a scan must disappear: its session is too old.
TooOldFrom == (scans[scan.n].session + StaleAfter + 1) * SessionLength

\* While the database answers, a reply is at most one cache interval behind: a
\* newer scan replaces the one served, and a scan that became stale shows no
\* candidates, unless the database was down at some time since.
LagIsBounded ==
    answer \in {"rows", "ok"} =>
        /\ \A i \in DOMAIN scans : i > scan.n =>
              now - scans[i].at < Ttl \/ lastDown >= scans[i].at
        /\ now - TooOldFrom < Ttl \/ lastDown >= TooOldFrom

\* What a user is told comes from published snapshots, and from recent ones.
AnswersAreSound == AnswersRestOnSnapshots /\ LagIsBounded

\* docs/runbooks/stale-snapshot.md, line 7:
\* the stale guard removes candidate rows after the configured limit, allowing
\* for the cache interval, whatever the database does.
StaleRowsAreRemoved ==
    answer = "rows" => now - TooOldFrom < Ttl

\* A process never goes back to an older scan, and goes back to the packaged
\* quant fallback only when the database does not answer.
ServedNeverGoesBack ==
    [][alive /\ alive' => /\ scan'.n >= scan.n
                          /\ quant'.n < quant.n => ~Reachable]_caches

\* Telegram is told to forget an update only when the serving process handled it
\* or is handling it.
AcknowledgedIsTaken ==
    [][\A u \in Update : telegram[u] = "sent" /\ telegram'[u] = "acknowledged" =>
          u \in handled' \/ running[u] > 0]_telegram

\* Every update is acknowledged in the end, through failures and restarts.
EveryUpdateIsAcknowledged ==
    \A u \in Update : telegram[u] = "sent" ~> telegram[u] = "acknowledged"

=============================================================================
