--------------------------- MODULE SignalOutcomes ---------------------------
(***************************************************************************)
(* Forward telemetry over the canonical store: the signals that published  *)
(* scans leave, and the jobs that judge them once enough sessions of the   *)
(* issuer are stored.                                                      *)
(*                                                                         *)
(* A job reads all pending windows first and saves outcome by outcome      *)
(* afterwards.  Two jobs may overlap when a session that held the          *)
(* production lock was lost (ProductionDbLock).                            *)
(*                                                                         *)
(* Abstracted: splits rescale the prices of a window, never which sessions *)
(* it has; the returns are functions of the first and the last close.      *)
(***************************************************************************)
EXTENDS CanonicalStore

CONSTANTS
    Horizon,   \* the horizons an outcome is saved for, in sessions
    Evaluator  \* jobs that evaluate outcomes

ASSUME HorizonAssumption == Horizon \subseteq 1..MaxTime

VARIABLES
    signals,   \* scan_signals: issuer and session of the scan
    outcomes,  \* signal_outcomes
    batch      \* what each evaluator has computed and not yet saved

vars == <<storeVars, signals, outcomes, batch>>

OutcomeInit == Init /\ signals = {} /\ outcomes = {} /\ batch = [e \in Evaluator |-> {}]

\* publish_scan_snapshot leaves one signal per candidate of the session that
\* the refresh found; a signal of the same snapshot and issuer is kept.
PublishSignal(t) ==
    /\ refresh.stage = "stored"
    /\ \E d \in RefreshReady : signals' = signals \cup {[ticker |-> t, session |-> d]}
    /\ t \in {b.ticker : b \in refresh.bars}
    /\ UNCHANGED <<storeVars, outcomes, batch>>

----------------------------------------------------------------------------

\* Newest stored version of each later session, whenever it became available.
Prices(g) == Latest({r \in Rows("market_bars_csv", g.ticker) : r.key > g.session})

Usable(r) == r.value # "bad"

FaultOneSessionShort(g, h) == Cardinality({r \in Prices(g) : Usable(r)}) >= h - 1

Ripe(g, h) == Cardinality({r \in Prices(g) : Usable(r)}) >= h

\* The first h usable closes after the signal.
Window(g, h) ==
    LET usable == {r \in Prices(g) : Usable(r)}
    IN  {r \in usable : Cardinality({s \in usable : s.key < r.key}) < h}

EvaluateSignalWindow(g, h) ==
    LET w == Window(g, h) IN
    [ticker |-> g.ticker, session |-> g.session, horizon |-> h,
     evaluated |-> Max({r.key : r \in w} \cup {0}),
     first |-> {r.value : r \in {x \in w : \A y \in w : x.key <= y.key}},
     last |-> {r.value : r \in {x \in w : \A y \in w : y.key <= x.key}}]

SameOutcome(o, p) == o.ticker = p.ticker /\ o.session = p.session /\ o.horizon = p.horizon

Missing(g, h) == ~\E o \in outcomes : SameOutcome(o, [ticker |-> g.ticker, session |-> g.session, horizon |-> h])

Pending == {gh \in signals \X Horizon : Missing(gh[1], gh[2]) /\ Ripe(gh[1], gh[2])}

\* pending_signal_windows, and every window evaluated.
ReadPendingWindows(e) ==
    /\ batch[e] = {}
    /\ Pending # {}
    /\ batch' = [batch EXCEPT ![e] = {EvaluateSignalWindow(gh[1], gh[2]) : gh \in Pending}]
    /\ UNCHANGED <<storeVars, signals, outcomes>>

FaultReplaces(o) == {p \in outcomes : ~SameOutcome(o, p)} \cup {o}

\* ON CONFLICT (snapshot_id, issuer_id, horizon_sessions) DO NOTHING
Kept(o) == IF \E p \in outcomes : SameOutcome(o, p) THEN outcomes ELSE outcomes \cup {o}

SaveSignalOutcome(e, o) ==
    /\ o \in batch[e]
    /\ outcomes' = Kept(o)
    /\ batch' = [batch EXCEPT ![e] = @ \ {o}]
    /\ UNCHANGED <<storeVars, signals>>

EvaluatorDies(e) ==
    /\ batch[e] # {}
    /\ batch' = [batch EXCEPT ![e] = {}]
    /\ UNCHANGED <<storeVars, signals, outcomes>>

Evaluate(e) == ReadPendingWindows(e) \/ \E o \in batch[e] : SaveSignalOutcome(e, o)

Next ==
    \/ StoreNext /\ UNCHANGED <<signals, outcomes, batch>>
    \/ \E t \in Ticker : PublishSignal(t)
    \/ \E e \in Evaluator : Evaluate(e) \/ EvaluatorDies(e)

Spec == OutcomeInit /\ [][Next]_vars

----------------------------------------------------------------------------
(* Properties *)

\* Types of the telemetry; an outcome has one row.
TypeOK ==
    /\ StoreTypeOK
    /\ signals \subseteq [ticker : Ticker, session : Session]
    /\ \A o \in outcomes : [ticker |-> o.ticker, session |-> o.session] \in signals
    /\ \A o, p \in outcomes : SameOutcome(o, p) => o = p

\* A saved outcome is never changed: not by a second evaluation, nor by one
\* that read other versions of the bars (save_signal_outcome).
OutcomesAreFinal == [][outcomes \subseteq outcomes']_outcomes

\* No signal is judged before the horizon has passed on the exchange, whatever
\* gaps the stored sessions have (evaluate_signal_window).
NeverJudgedEarly ==
    \A o \in outcomes : Cardinality({d \in Session : o.session < d /\ d <= o.evaluated}) >= o.horizon
=============================================================================
