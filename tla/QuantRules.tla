----------------------------- MODULE QuantRules -----------------------------
(***************************************************************************)
(* The frozen rules between reviewed evidence and a scan's answer: factor  *)
(* scores, business scores, the gates of a candidate, the buy range, the   *)
(* planned entry and the entry state.                                      *)
(*                                                                         *)
(* Abstracted: a percentile is the class its thresholds put it in          *)
(* (`merit`); an input field is present or missing.  Prices are whole      *)
(* rupiah.                                                                 *)
(***************************************************************************)
EXTENDS Integers, FiniteSets

\* Definitions named Fault... are mutants of the definition that follows them:
\* plausible bugs, each of which breaks a property.  Nothing uses them.

CONSTANTS
    Expected,         \* the size of the universe, 45 issuers
    RequiredEligible, \* ceil(0.90 * Expected), and the coverage a PRIMARY scan needs
    MinCohort,        \* the 5 values a percentile needs
    Null              \* no value

ASSUME RulesAssumption == /\ RequiredEligible \in 1..Expected
                          /\ MinCohort \in Nat

\* Groups of input fields, and how many a group needs to be scored.
Group(fields, minimum) == [fields |-> fields, minimum |-> minimum]

Factors ==
    [value          |-> Group({"earnings_yield", "book_yield", "dividend_yield"}, 2),
     quality        |-> Group({"roe", "cash_conversion", "accrual_ratio"}, 3),
     momentum       |-> Group({"return_6m_skip_1m", "return_12m_skip_1m"}, 2),
     low_volatility |-> Group({"realized_volatility", "downside_deviation"}, 2)]

GeneralModel ==
    [quality    |-> Factors.quality,
     valuation  |-> Factors.value,
     durability |-> Group({"earnings_growth_3y", "earnings_stability"}, 2),
     resilience |-> Group({"net_debt_to_equity", "cash_to_equity", "equity_positive"}, 2)]

BankModel ==
    [bank_profitability |-> Group({"roe", "roa", "earnings_stability"}, 2),
     bank_asset_quality |-> Group({"npl_ratio", "credit_cost", "allowance_coverage"}, 2),
     bank_capital       |-> Group({"capital_adequacy_ratio", "equity_to_assets"}, 1),
     bank_funding       |-> Group({"loans_to_deposits", "liquid_assets_to_deposits"}, 1),
     bank_valuation     |-> Group({"earnings_yield", "book_yield"}, 2)]

Fields(model) == UNION {model[g].fields : g \in DOMAIN model}
Held(has, model) == {g \in DOMAIN model : Cardinality(has \cap model[g].fields) >= model[g].minimum}
Coverage(has, model) == (100 * Cardinality(has \cap Fields(model))) \div Cardinality(Fields(model))

----------------------------------------------------------------------------
(* compute_cross_sectional_factors and compute_business_scores *)

FactorCoverage(has) == (100 * Cardinality(Held(has, Factors))) \div Cardinality(DOMAIN Factors)

\* composite_percentile is a number.
Ranked(has) ==
    /\ Cardinality(Held(has, Factors)) >= 3
    /\ Coverage(has, Factors) >= 70

\* The spellings of a profile; a frame without the column is taken as general.
Profile(raw) ==
    CASE raw = Null -> "GENERAL"
      [] raw = "FINANCIAL" -> "BANK"
      [] raw = "GENERAL_COMPANY" -> "GENERAL"
      [] raw \in {"GENERAL", "BANK"} -> raw
      [] OTHER -> "UNVERIFIED"

Known == {"GENERAL", "BANK"}
Model(profile) == IF profile = "BANK" THEN BankModel ELSE GeneralModel

\* An issuer is compared with the issuers of its own profile only.
Cohort(i, frame) == {j \in DOMAIN frame : Profile(frame[j].profile) = Profile(frame[i].profile)}

\* A percentile of a field exists when enough of the cohort has the field.
Percentile(i, field, frame) ==
    /\ field \in frame[i].has
    /\ Cardinality({j \in Cohort(i, frame) : field \in frame[j].has}) >= MinCohort

\* The issuer has a business score.
Complete(i, frame) ==
    LET model == Model(Profile(frame[i].profile)) IN
    /\ Profile(frame[i].profile) \in Known
    /\ \A g \in DOMAIN model : /\ g \in Held(frame[i].has, model)
                               /\ \E field \in model[g].fields : Percentile(i, field, frame)
    /\ Coverage(frame[i].has, model) >= 80

\* A score of 70 with a component below its own floor ("uneven") keeps the
\* label of a short history.
BusinessState(i, frame) ==
    CASE Profile(frame[i].profile) \notin Known -> "PROFILE_UNVERIFIED"
      [] Complete(i, frame) /\ frame[i].merit = "weak" -> "WEAK_OR_EXPENSIVE"
      [] Complete(i, frame) /\ frame[i].merit = "fair" -> "FAIR_BUSINESS"
      [] Complete(i, frame) /\ frame[i].merit = "quality" -> "QUALITY_CANDIDATE"
      [] OTHER -> "LIMITED_HISTORY"

----------------------------------------------------------------------------
(* candidate_readiness *)

\* One row of a candidate's rankings.
Ranking(i, frame) ==
    [profile |-> Profile(frame[i].profile), checksum |-> frame[i].checksum,
     factor |-> FactorCoverage(frame[i].has), raw |-> Coverage(frame[i].has, Factors),
     ranked |-> Ranked(frame[i].has), business |-> Complete(i, frame),
     state |-> BusinessState(i, frame)]

\* The gates of one row.
ProfileVerified(row) == row.profile \in Known /\ row.checksum
QuantEligible(row) == row.ranked /\ row.factor >= 75 /\ row.raw >= 70

Checks(rows, status) ==
    [candidate_status         |-> status = "CANDIDATE",
     exact_lq45_universe      |-> Cardinality(DOMAIN rows) = Expected,
     eligible_quant_rows      |->
        Cardinality({i \in DOMAIN rows : QuantEligible(rows[i])}) >= RequiredEligible,
     verified_issuer_profiles |->
        Cardinality({i \in DOMAIN rows : ProfileVerified(rows[i])}) = Expected,
     eligible_business_rows   |->
        Cardinality({i \in DOMAIN rows : rows[i].business}) >= RequiredEligible]

Ready(rows, status) == \A c \in DOMAIN Checks(rows, status) : Checks(rows, status)[c]

----------------------------------------------------------------------------
(* build_buy_range and planned_entry_risk_reward *)

MinOf(a, b) == IF a <= b THEN a ELSE b
MaxOf(a, b) == IF a >= b THEN a ELSE b

Zone(low, high) == IF low > high THEN Null ELSE [low |-> low, high |-> high]

TechnicalRange(b) == Zone(b.support, MinOf(b.current, b.support + (8 * b.atr) \div 10))

\* The median of the PE and PBV models that are available.  `b.bands` are the
\* bands the range of a base was built from: those of the reviewed filings
\* where the repository has any, or else those of the live analysis, which
\* build_full_lq45_scan then keeps.  Both go through build_buy_range.
ValuationRange(b) ==
    LET models == {m \in DOMAIN b.bands : b.bands[m] # Null /\ b.bands[m].low <= b.bands[m].high} IN
    CASE models = {} -> Null
      [] Cardinality(models) = 1 -> b.bands[CHOOSE m \in models : TRUE]
      [] OTHER -> Zone((b.bands.PE.low + b.bands.PBV.low) \div 2,
                       (b.bands.PE.high + b.bands.PBV.high) \div 2)

PreferredRange(b) ==
    LET technical == TechnicalRange(b)
        valuation == ValuationRange(b)
    IN IF technical = Null \/ valuation = Null THEN Null
       ELSE Zone(MaxOf(technical.low, valuation.low), MinOf(technical.high, valuation.high))

\* IDX price fractions.
Tick(price) ==
    IF price < 200 THEN 1 ELSE IF price < 500 THEN 2 ELSE IF price < 2000 THEN 5
    ELSE IF price < 5000 THEN 10 ELSE 25

FaultRoundsUp(price) == ((price + Tick(price) - 1) \div Tick(price)) * Tick(price)

FloorTick(price) == (price \div Tick(price)) * Tick(price)

PriceState(zone, current) ==
    CASE current > zone.high -> "ABOVE_ZONE"
      [] current < zone.low -> "BELOW_ZONE"
      [] OTHER -> "IN_ZONE"

ZoneType(b) ==
    IF PreferredRange(b) # Null THEN "preferred_overlap"
    ELSE IF TechnicalRange(b) # Null THEN "technical_only" ELSE "unavailable"

\* The planned entry of a base, Null when it is invalid.
Setup(b) ==
    LET zone  == IF PreferredRange(b) # Null THEN PreferredRange(b) ELSE TechnicalRange(b)
        entry == FloorTick(zone.high)
        stop  == FloorTick(zone.low - b.atr \div 2)
        goal  == FloorTick(b.resistance)
    IN IF zone = Null THEN Null
       ELSE IF stop < 50 \/ ~(stop < entry /\ entry < goal) \/ entry - stop < 3 * Tick(entry) THEN Null
       ELSE [entry |-> entry, stop |-> stop, target |-> goal, zone |-> zone,
             price |-> PriceState(zone, b.current)]

----------------------------------------------------------------------------
(* _quant_row_eligible and score_candidate *)

FaultWantsEveryFactor(row) == row # Null /\ row.ranked /\ row.factor = 100

RowEligible(row) == row # Null /\ row.ranked /\ row.factor >= 75 /\ row.raw >= 70

\* The gates that exclude a base from the scan.
Scored(b, row, primary) ==
    /\ b.usable
    /\ primary => RowEligible(row)

\* 1.5 <= rr <= 5
Rewarding(s) == /\ 2 * (s.target - s.entry) >= 3 * (s.entry - s.stop)
                /\ s.target - s.entry <= 5 * (s.entry - s.stop)

Favorable(b, row, primary) ==
    /\ primary
    /\ row.state = "QUALITY_CANDIDATE" /\ row.business
    /\ b.technical >= 60
    /\ ZoneType(b) = "preferred_overlap"
    /\ Setup(b) # Null
    /\ Setup(b).price = "IN_ZONE"
    /\ Rewarding(Setup(b))

\* A row that is missing, because the quant is stale, has a limited history.
EntryState(b, row, primary) ==
    LET qualified == row # Null /\ row.state = "QUALITY_CANDIDATE" IN
    IF qualified /\ Favorable(b, row, primary) THEN "FAVORABLE_ENTRY"
    ELSE IF qualified /\ b.technical < 60 THEN "TECHNICALLY_WEAK"
    ELSE IF qualified /\ ZoneType(b) = "preferred_overlap" THEN "WAIT_FOR_ENTRY"
    ELSE IF ZoneType(b) = "technical_only" THEN "NO_RELIABLE_SETUP"
    ELSE IF row # Null /\ row.business THEN "BUSINESS_NOT_QUALIFIED"
    ELSE "NO_RELIABLE_SETUP"
=============================================================================
