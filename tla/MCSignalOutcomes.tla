-------------------------- MODULE MCSignalOutcomes --------------------------
(* A small instance of SignalOutcomes: one issuer, three evenings that are   *)
(* all sessions, the universe and the calendar ingested before, and files    *)
(* that revise, replace, or are refused because of one of their rows.        *)
EXTENDS SignalOutcomes, TLC

CONSTANTS daily, retry

Row(t, k, v, value, at) == [ticker |-> t, key |-> k, version |-> v, value |-> value, available |-> at]
Source(kind, rows) == [kind |-> kind, rows |-> rows, wellFormed |-> TRUE]

Universe == Source("lq45_constituents_csv", {Row("BBCA", 0, 1, "member", 0)})
Calendar == Source("market_sessions_csv", {Row("IDX", d, 1, "SCHEDULED", 0) : d \in 1..3})
OfficialBars == Source("market_bars_csv", {Row("BBCA", 1, 1, "high", 2), Row("BBCA", 2, 2, "high", 2)})
UnknownIssuer == Source("statement_facts_csv", {Row("BBCA", 1, 0, "idr", 2), Row("BBRI", 1, 0, "idr", 2)})
Profile == Source("issuer_profiles_csv", {Row("BBCA", 0, 1, "bank", 2)})
Facts == Source("statement_facts_csv", {Row("BBCA", 1, 0, "usd", 0)})
\* The cutoffs 1, 2 and 3 know one period, two, and more than the diagnostics list;
\* there is no rate for the first.
LaterFacts == Source("statement_facts_csv",
    {Row("BBCA", 1, 0, "usd", 2), Row("BBCA", 1, 1, "usd", 2), Row("BBCA", 0, 0, "usd", 1),
     Row("BBCA", 2, 0, "usd", 3), Row("BBCA", 3, 0, "usd", 3)})
Rates == Source("fx_rates_csv", {Row("IDRUSD", 1, 1, "rate", 0)})

MCSession == 1..3
MCSeeded == {Universe, Calendar, Facts, Rates}
MCFiles == {Calendar, OfficialBars, UnknownIssuer, LaterFacts}
MCEvidence == {Calendar, Profile}
ASSUME CalendarAgrees

MCSymmetry == Permutations(Evaluator)
=============================================================================
