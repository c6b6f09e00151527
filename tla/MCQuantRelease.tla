--------------------------- MODULE MCQuantRelease ---------------------------
(***************************************************************************)
(* Three issuers, two of which must be eligible, and percentiles that need *)
(* two of a cohort: one bank alone is never scored.                        *)
(***************************************************************************)
EXTENDS QuantRelease, TLC

CONSTANTS i1, i2, i3

Kind(profile, checksum, has, merit) ==
    [profile |-> profile, checksum |-> checksum, has |-> has, merit |-> merit]

Everything == Fields(Factors) \cup Fields(GeneralModel) \cup Fields(BankModel)

MCEvidence ==
    {Kind("GENERAL", TRUE, Everything, "quality"),
     Kind("GENERAL_COMPANY", TRUE, Everything \ Factors.momentum.fields, "quality"),
     Kind("FINANCIAL", TRUE, Everything, "quality"),
     Kind(Null, FALSE, Everything \ {"dividend_yield", "cash_to_equity"}, "fair"),
     Kind("GENERAL", TRUE, Everything \ {"roe", "earnings_stability", "return_6m_skip_1m"}, "uneven"),
     Kind("", FALSE, Everything, "weak")}

Band(low, high) == [low |-> low, high |-> high]

\* Prices around the change of the price fraction at 200 and at 500.
MCBase ==
    [usable : {TRUE}, technical : {70}, atr : {20}, support : {190, 490},
     current : {191, 203, 497, 504}, resistance : {236, 560},
     bands : {[PE |-> Null, PBV |-> Null],
              [PE |-> Band(180, 210), PBV |-> Null],
              [PE |-> Band(180, 196), PBV |-> Band(480, 520)],
              [PE |-> Null, PBV |-> Band(200, 210)],
              [PE |-> Band(470, 510), PBV |-> Band(480, 520)]}]
    \cup [usable : BOOLEAN, technical : {55}, atr : {20}, support : {190}, current : {191},
          resistance : {236}, bands : {[PE |-> Null, PBV |-> Null]}]

MCSymmetry == Permutations(Issuer)
=============================================================================
