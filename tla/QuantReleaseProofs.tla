-------------------------- MODULE QuantReleaseProofs --------------------------
(***************************************************************************)
(* Machine-checked proofs about QuantRelease and its rules, for any        *)
(* universe, evidence, candidates, panels, market and bounds.              *)
(***************************************************************************)
EXTENDS QuantRelease, FiniteSetTheorems, TLAPS

----------------------------------------------------------------------------
(* Price fractions *)

\* Flooring a price to its fraction stays in its band: the bands end at
\* multiples of the fractions on both sides.
LEMMA FloorTickExact ==
    ASSUME NEW x \in Int
    PROVE  /\ FloorTick(x) \in Int /\ Tick(x) \in Nat \ {0}
           /\ FloorTick(x) <= x /\ x - FloorTick(x) < Tick(x)
           /\ Tick(FloorTick(x)) = Tick(x)
           /\ FloorTick(x) % Tick(FloorTick(x)) = 0
<1>1. CASE x < 200
  BY <1>1 DEF FloorTick, Tick
<1>2. CASE 200 <= x /\ x < 500
  BY <1>2 DEF FloorTick, Tick
<1>3. CASE 500 <= x /\ x < 2000
  BY <1>3 DEF FloorTick, Tick
<1>4. CASE 2000 <= x /\ x < 5000
  BY <1>4 DEF FloorTick, Tick
<1>5. CASE 5000 <= x
  BY <1>5 DEF FloorTick, Tick
<1>. QED BY <1>1, <1>2, <1>3, <1>4, <1>5

----------------------------------------------------------------------------
(* The entry of a base *)

MarketOf(b) ==
    /\ {b.atr, b.support, b.current, b.resistance} \subseteq Nat
    /\ DOMAIN b.bands = {"PE", "PBV"}
    /\ \A m \in DOMAIN b.bands : b.bands[m] # Null => {b.bands[m].low, b.bands[m].high} \subseteq Nat

\* A range of prices, where there is one.
Priced(z) == z # Null => z.low \in Int /\ z.high \in Int

LEMMA ValuationTyped ==
    ASSUME NEW b, MarketOf(b)
    PROVE  Priced(ValuationRange(b))
<1> DEFINE models == {m \in DOMAIN b.bands : b.bands[m] # Null /\ b.bands[m].low <= b.bands[m].high}
<1>1. CASE models = {}
  <2>1. Cardinality(models) # 1
    BY <1>1, FS_EmptySet
  <2>2. ValuationRange(b) = Null
    BY <1>1, <2>1 DEF ValuationRange
  <2>. QED BY <2>2 DEF Priced
<1>2. CASE models # {} /\ Cardinality(models) = 1
  <2>1. (CHOOSE m \in models : TRUE) \in models
    BY <1>2
  <2>2. PICK m \in models : ValuationRange(b) = b.bands[m]
    BY <1>2, <2>1 DEF ValuationRange
  <2>. QED BY <2>2 DEF MarketOf, Priced
<1>3. CASE models # {} /\ Cardinality(models) # 1
  <2>1. ValuationRange(b) = Zone((b.bands.PE.low + b.bands.PBV.low) \div 2,
                                 (b.bands.PE.high + b.bands.PBV.high) \div 2)
    BY <1>3 DEF ValuationRange
  <2>2. ~\E m : models = {m}
    BY <1>3, FS_Singleton
  <2>3. "PE" \in models /\ "PBV" \in models
    BY <1>3, <2>2 DEF MarketOf
  <2>4. {b.bands.PE.low, b.bands.PE.high, b.bands.PBV.low, b.bands.PBV.high} \subseteq Nat
    <3>1. b.bands["PE"] # Null /\ b.bands["PBV"] # Null
      BY <2>3
    <3>. QED BY <2>3, <3>1 DEF MarketOf
  <2>. QED BY <2>1, <2>4 DEF Priced, Zone
<1>. QED BY <1>1, <1>2, <1>3

\* A preferred range is a part of the technical one: from the support or above
\* to the market or below.
LEMMA PreferredInTechnical ==
    ASSUME NEW b, MarketOf(b), PreferredRange(b) # Null
    PROVE  LET zone == PreferredRange(b) IN
           /\ zone.low \in Int /\ zone.high \in Int /\ zone.low <= zone.high
           /\ b.support <= zone.low
           /\ zone.high <= b.current /\ zone.high <= b.support + (8 * b.atr) \div 10
<1>1. PICK t, v, zone :
         /\ t = TechnicalRange(b) /\ v = ValuationRange(b) /\ zone = PreferredRange(b)
         /\ t # Null /\ v # Null
         /\ zone = Zone(MaxOf(t.low, v.low), MinOf(t.high, v.high))
  BY DEF PreferredRange
<1>2. PICK top \in Int : top = (8 * b.atr) \div 10
  BY DEF MarketOf
<1>3. /\ t.low = b.support /\ t.high \in Int
      /\ t.high <= b.current /\ t.high <= b.support + top
  BY <1>1, <1>2 DEF TechnicalRange, Zone, MinOf, MarketOf
<1>4. v.low \in Int /\ v.high \in Int
  BY <1>1, ValuationTyped DEF Priced
<1>5. PICK low \in Int, high \in Int : low = MaxOf(t.low, v.low) /\ high = MinOf(t.high, v.high)
  BY <1>3, <1>4 DEF MaxOf, MinOf, MarketOf
<1>6. b.support <= low /\ high <= t.high
  BY <1>3, <1>4, <1>5 DEF MaxOf, MinOf, MarketOf
<1>7. zone.low = low /\ zone.high = high /\ low <= high
  BY <1>1, <1>5 DEF Zone
<1>. QED BY <1>1, <1>2, <1>3, <1>5, <1>6, <1>7 DEF MarketOf

\* The levels of a base in its preferred range, and rewarding enough.
LEMMA LevelsLieAroundMarket ==
    ASSUME NEW b, MarketOf(b), PreferredRange(b) # Null, Setup(b) # Null,
           Setup(b).price = "IN_ZONE", Rewarding(Setup(b))
    PROVE  LET plan == Setup(b) IN
           /\ \A price \in {plan.entry, plan.stop, plan.target} : price % Tick(price) = 0
           /\ plan.stop < plan.zone.low
           /\ plan.entry <= b.current /\ b.current < plan.target
           /\ b.current - plan.entry < Tick(plan.entry)
           /\ plan.entry - plan.stop >= 3 * Tick(plan.entry)
<1>0. PICK zone : zone = PreferredRange(b)
  OBVIOUS
<1>1. PICK low \in Int, high \in Int :
         /\ zone = PreferredRange(b) /\ low = zone.low /\ high = zone.high
         /\ low <= high /\ b.support <= low /\ high <= b.current
         /\ high <= b.support + (8 * b.atr) \div 10
  BY <1>0, PreferredInTechnical
<1>2. PICK half \in Nat : half = b.atr \div 2
  BY DEF MarketOf
<1>3. low - half \in Int /\ b.resistance \in Int /\ b.current \in Int /\ b.support \in Int
  BY <1>2 DEF MarketOf
<1>4. PICK entry \in Int, stop \in Int, goal \in Int, tick \in Nat \ {0} :
         /\ entry = FloorTick(high) /\ stop = FloorTick(low - half)
         /\ goal = FloorTick(b.resistance) /\ tick = Tick(high)
  BY <1>3, FloorTickExact
<1>5. /\ entry <= high /\ high - entry < tick /\ Tick(entry) = tick
      /\ stop <= low - half
      /\ entry % Tick(entry) = 0 /\ stop % Tick(stop) = 0 /\ goal % Tick(goal) = 0
  BY <1>3, <1>4, FloorTickExact
<1>6. /\ Setup(b) = [entry |-> entry, stop |-> stop, target |-> goal, zone |-> zone,
                     price |-> PriceState(zone, b.current)]
      /\ stop < entry /\ entry < goal /\ entry - stop >= 3 * tick
  BY <1>1, <1>2, <1>4, <1>5 DEF Setup
<1>7. PICK plan : plan = Setup(b)
  OBVIOUS
<1>8. /\ plan.entry = entry /\ plan.stop = stop /\ plan.target = goal /\ plan.zone = zone
      /\ plan.price = PriceState(zone, b.current)
  BY <1>6, <1>7
<1>9. b.current <= high
  BY <1>1, <1>3, <1>7, <1>8 DEF PriceState
<1>10. b.current = high
  BY <1>1, <1>3, <1>9
<1>11. 2 * (goal - entry) >= 3 * (entry - stop)
  BY <1>7, <1>8 DEF Rewarding
<1>12. b.current < goal
  BY <1>4, <1>5, <1>6, <1>10, <1>11
\* Without half a range of volatility the zone is one price, and leaves no risk.
<1>13. stop < low
  <2>1. CASE half >= 1
    BY <1>5, <2>1
  <2>2. CASE half = 0
    <3>1. b.atr \in {0, 1}
      BY <1>2, <2>2 DEF MarketOf
    <3>2. (8 * b.atr) \div 10 = 0
      BY <3>1
    <3>3. low = high
      BY <1>1, <1>3, <3>2
    <3>4. stop = entry
      BY <1>4, <2>2, <3>3
    <3>. QED BY <1>6, <3>4
  <2>. QED BY <2>1, <2>2
<1>14. plan.stop < plan.zone.low
  BY <1>1, <1>8, <1>13
<1>. QED BY <1>4, <1>5, <1>6, <1>7, <1>8, <1>10, <1>12, <1>14
----------------------------------------------------------------------------
(* The gates of a candidate *)

LEMMA ReadyGates ==
    ASSUME NEW ranking
    PROVE  Ready(ranking, "CANDIDATE") <=>
              /\ Cardinality(DOMAIN ranking) = Expected
              /\ Cardinality({i \in DOMAIN ranking : QuantEligible(ranking[i])}) >= RequiredEligible
              /\ Cardinality({i \in DOMAIN ranking : ProfileVerified(ranking[i])}) = Expected
              /\ Cardinality({i \in DOMAIN ranking : ranking[i].business}) >= RequiredEligible
<1>1. DOMAIN Checks(ranking, "CANDIDATE") =
         {"candidate_status", "exact_lq45_universe", "eligible_quant_rows",
          "verified_issuer_profiles", "eligible_business_rows"}
  BY DEF Checks
<1>2. /\ Checks(ranking, "CANDIDATE").candidate_status
      /\ Checks(ranking, "CANDIDATE").exact_lq45_universe <=> Cardinality(DOMAIN ranking) = Expected
      /\ Checks(ranking, "CANDIDATE").eligible_quant_rows <=>
            Cardinality({i \in DOMAIN ranking : QuantEligible(ranking[i])}) >= RequiredEligible
      /\ Checks(ranking, "CANDIDATE").verified_issuer_profiles <=>
            Cardinality({i \in DOMAIN ranking : ProfileVerified(ranking[i])}) = Expected
      /\ Checks(ranking, "CANDIDATE").eligible_business_rows <=>
            Cardinality({i \in DOMAIN ranking : ranking[i].business}) >= RequiredEligible
  BY DEF Checks
<1>. QED BY <1>1, <1>2 DEF Ready

\* The rankings of a candidate file, as build_snapshot made them.
Built == UNION {{[i \in I |-> Ranking(i, frame)] : frame \in [I -> Evidence]} : I \in SUBSET Issuer}

LEMMA BuiltRows ==
    ASSUME NEW ranking \in Built
    PROVE  /\ DOMAIN ranking \in SUBSET Issuer /\ IsFiniteSet(DOMAIN ranking)
           /\ \A i \in DOMAIN ranking :
                 /\ ranking[i] # Null
                 /\ ranking[i].state = "QUALITY_CANDIDATE" => ranking[i].profile \in Known
<1>0. PICK I \in SUBSET Issuer : \E frame \in [I -> Evidence] :
         ranking = [i \in I |-> Ranking(i, frame)]
  BY DEF Built
<1>1. PICK frame \in [I -> Evidence] : ranking = [i \in I |-> Ranking(i, frame)]
  BY <1>0
<1>2. DOMAIN ranking = I /\ IsFiniteSet(I)
  BY <1>1, ReleaseAssumption, FS_Subset
<1>3. ASSUME NEW i \in I
      PROVE  /\ ranking[i] # Null
             /\ ranking[i].state = "QUALITY_CANDIDATE" => ranking[i].profile \in Known
  <2>1. ranking[i] = Ranking(i, frame)
    BY <1>1
  <2>2. ranking[i] # Null
    BY <2>1, ReleaseAssumption
  <2>3. ranking[i].state = BusinessState(i, frame)
        /\ ranking[i].profile = Profile(frame[i].profile)
    BY <2>1 DEF Ranking
  <2>4. ranking[i].state = "QUALITY_CANDIDATE" => ranking[i].profile \in Known
    <3>1. ASSUME Profile(frame[i].profile) \notin Known
          PROVE  BusinessState(i, frame) = "PROFILE_UNVERIFIED"
      <4>1. ~Complete(i, frame)
        BY <3>1 DEF Complete
      <4>. QED BY <3>1, <4>1 DEF BusinessState
    <3>. QED BY <2>3, <3>1
  <2>. QED BY <2>2, <2>4
<1>. QED BY <1>1, <1>2, <1>3

\* A ready candidate covers the universe, and the scan's own gate admits the
\* issuers that the candidate's gate has counted.
LEMMA ReadyFeeds ==
    ASSUME NEW ranking \in Built, Ready(ranking, "CANDIDATE")
    PROVE  /\ Primary(Issuer, ranking)
           /\ \A i \in Issuer : i \in DOMAIN ranking /\ ProfileVerified(ranking[i])
           /\ Cardinality({i \in DOMAIN ranking : ranking[i].business}) >= RequiredEligible
<1>1. /\ DOMAIN ranking \in SUBSET Issuer /\ IsFiniteSet(Issuer) /\ Cardinality(Issuer) = Expected
      /\ \A i \in DOMAIN ranking : ranking[i] # Null
  BY BuiltRows, ReleaseAssumption
<1>2. DOMAIN ranking = Issuer
  BY <1>1, ReadyGates, FS_Subset
<1>3. {i \in Issuer : ProfileVerified(ranking[i])} = Issuer
  BY <1>1, <1>2, ReadyGates, FS_Subset
<1>4. {i \in Issuer \cap DOMAIN ranking : RowEligible(ranking[i])}
        = {i \in DOMAIN ranking : QuantEligible(ranking[i])}
  BY <1>1, <1>2 DEF RowEligible, QuantEligible
<1>5. Primary(Issuer, ranking)
  BY <1>4, ReadyGates DEF Primary, Hits
<1>. QED BY <1>2, <1>3, <1>5, ReadyGates
----------------------------------------------------------------------------
(* The invariant *)

Tables ==
    /\ rows = [c \in Candidate |-> rows[c]]
    /\ approved = [c \in Candidate |-> approved[c]]
    /\ runs = [p \in Panel |-> runs[p]]

\* What a candidate, its signed file and its publications rest on.
FilesSound ==
    /\ \A c \in Candidate : /\ rows[c] # Null => rows[c] \in Built
                            /\ approved[c] # Null => rows[c] # Null
    /\ \A c \in gated : rows[c] # Null /\ Ready(rows[c], "CANDIDATE")
    /\ \A s \in snapshots : rows[s.candidate] # Null

\* A verdict is found under one id, and an id that ever passed stays in use.
VerdictsSound ==
    /\ \A p \in Panel : runs[p] # Null /\ runs[p].passed => runs[p].id \in passed
    /\ \A p, o \in Panel : (runs[p] # Null /\ runs[o] # Null /\ runs[p].id = runs[o].id) => p = o
    /\ \A id \in passed : \E p \in Panel : runs[p] # Null /\ runs[p].id = id

\* ValidateQuant leaves every other panel alone.
LEMMA ValidateRow ==
    ASSUME TypeOK, NEW p \in Panel, NEW id \in RunId, NEW held \in SUBSET HoldoutChecks,
           ValidateQuant(p, id, held)
    PROVE  /\ runs' = [o \in Panel |-> runs'[o]]
           /\ \A o \in Panel \ {p} : runs'[o] = runs[o]
           /\ runs'[p] \in [id : RunId, passed : BOOLEAN]
           /\ runs'[p].id = IF runs[p] = Null THEN id ELSE runs[p].id
           /\ runs'[p].passed <=> held = HoldoutChecks
<1>1. PICK kept \in RunId : kept = IF runs[p] = Null THEN id ELSE runs[p].id
  BY DEF TypeOK
<1>2. runs' = [runs EXCEPT ![p] = [id |-> kept, passed |-> Accepted(held)]]
  BY <1>1 DEF ValidateQuant, SaveValidationRun
<1>3. DOMAIN runs = Panel
  BY DEF TypeOK
<1>4. runs'[p] = [id |-> kept, passed |-> Accepted(held)]
  BY <1>2, <1>3
<1>5. Accepted(held) \in BOOLEAN /\ (Accepted(held) <=> held = HoldoutChecks)
  BY DEF Accepted
<1>6. runs'[p] \in [id : RunId, passed : BOOLEAN]
  BY <1>1, <1>4, <1>5
<1>. QED BY <1>1, <1>2, <1>3, <1>4, <1>5, <1>6

\* A publication, on either path.
LEMMA PublicationKeeps ==
    ASSUME TypeOK, ReleasesAreBacked, VerdictsSound, NEW c \in Candidate, rows[c] # Null,
           \A s \in snapshots : rows[s.candidate] # Null,
           NEW file \in [status : Status, run : RunId \cup {Null}], PublishQuantSnapshot(c, file)
    PROVE  /\ snapshots' \subseteq [candidate : Candidate, status : Status, run : RunId \cup {Null}]
           /\ model' \in Status
           /\ \A s \in snapshots' :
                 /\ rows[s.candidate] # Null
                 /\ \A o \in snapshots' : o.candidate = s.candidate => o = s
                 /\ s.status = "VALIDATED_RESEARCH" => s.run \in passed
<1>1. PICK row \in [candidate : Candidate, status : Status, run : RunId \cup {Null}] :
         /\ row.candidate = c /\ row.status = file.status /\ row.run = file.run
         /\ \A s \in snapshots : s.candidate = c => s = row
         /\ snapshots' = snapshots \cup {row}
  BY DEF PublishQuantSnapshot, InsertSnapshot
<1>2. row.status = "VALIDATED_RESEARCH" => row.run \in passed
  BY <1>1 DEF PublishQuantSnapshot, MayPublish, VerdictsSound
<1>3. model' \in Status
  BY DEF PublishQuantSnapshot
<1>. QED BY <1>1, <1>2, <1>3 DEF ReleasesAreBacked, TypeOK

Release == Tables /\ TypeOK /\ FilesSound /\ VerdictsSound /\ ReleasesAreBacked

LEMMA ReleaseNext ==
    ASSUME Release, [Next]_releaseVars
    PROVE  Release'
<1>1. Tables /\ TypeOK /\ FilesSound /\ VerdictsSound /\ ReleasesAreBacked
  BY DEF Release
<1>2. ASSUME NEW c \in Candidate, NEW I \in SUBSET Issuer, NEW frame \in [I -> Evidence],
             BuildSnapshot(c, frame)
      PROVE  Release'
  <2>1. PICK ranking : ranking = [i \in I |-> Ranking(i, frame)]
    OBVIOUS
  <2>2. ranking \in Built /\ DOMAIN ranking \subseteq Issuer
    BY <2>1 DEF Built
  <2>3. /\ rows[c] = Null /\ rows' = [rows EXCEPT ![c] = ranking]
        /\ UNCHANGED <<approved, snapshots, model, runs, gated, passed, writes>>
    BY <1>2, <2>1 DEF BuildSnapshot
  <2>4. /\ rows'[c] = ranking /\ \A o \in Candidate \ {c} : rows'[o] = rows[o]
        /\ DOMAIN rows' = Candidate /\ rows' = [o \in Candidate |-> rows'[o]]
    BY <1>1, <2>3 DEF TypeOK, Tables
  <2>5. Tables' /\ TypeOK'
    BY <1>1, <2>2, <2>3, <2>4 DEF Tables, TypeOK
  <2>6. c \notin gated /\ approved[c] = Null /\ \A s \in snapshots : s.candidate # c
    BY <1>1, <2>3 DEF FilesSound
  <2>7. FilesSound'
    BY <1>1, <2>2, <2>3, <2>4, <2>6 DEF FilesSound, TypeOK
  <2>. QED BY <1>1, <2>3, <2>5, <2>7 DEF Release, VerdictsSound, ReleasesAreBacked
<1>3. ASSUME NEW c \in Candidate, NEW status \in Status, NEW run \in RunId \cup {Null},
             ApproveSnapshot(c, status, run)
      PROVE  Release'
  <2>1. PICK file \in [status : Status, run : RunId \cup {Null}] :
           file = [status |-> status, run |-> run]
    OBVIOUS
  <2>2. /\ rows[c] # Null /\ approved' = [approved EXCEPT ![c] = file]
        /\ UNCHANGED <<rows, snapshots, model, runs, gated, passed, writes>>
    BY <1>3, <2>1 DEF ApproveSnapshot
  <2>3. Tables' /\ TypeOK'
    BY <1>1, <2>1, <2>2 DEF Tables, TypeOK
  <2>4. FilesSound'
    BY <1>1, <2>2 DEF FilesSound, TypeOK
  <2>. QED BY <1>1, <2>2, <2>3, <2>4 DEF Release, VerdictsSound, ReleasesAreBacked
<1>4. ASSUME NEW c \in Candidate, PublishSnapshot(c)
      PROVE  Release'
  <2>1. /\ approved[c] \in [status : Status, run : RunId \cup {Null}] /\ rows[c] # Null
        /\ PublishQuantSnapshot(c, approved[c])
        /\ UNCHANGED <<rows, approved, runs, gated, passed>>
        /\ \A s \in snapshots : rows[s.candidate] # Null
    BY <1>1, <1>4 DEF PublishSnapshot, TypeOK, FilesSound
  <2>2. PICK file \in [status : Status, run : RunId \cup {Null}] :
           PublishQuantSnapshot(c, file)
    BY <2>1
  <2>3. /\ snapshots' \subseteq [candidate : Candidate, status : Status, run : RunId \cup {Null}]
        /\ model' \in Status
        /\ \A s \in snapshots' :
              /\ rows[s.candidate] # Null
              /\ \A o \in snapshots' : o.candidate = s.candidate => o = s
              /\ s.status = "VALIDATED_RESEARCH" => s.run \in passed
    BY <1>1, <2>1, <2>2, PublicationKeeps
  <2>. QED BY <1>1, <2>1, <2>3
           DEF Release, Tables, TypeOK, FilesSound, VerdictsSound, ReleasesAreBacked
<1>5. ASSUME NEW c \in Candidate, PublishReviewedShadow(c)
      PROVE  Release'
  <2>1. PICK file \in [status : Status, run : RunId \cup {Null}] :
           /\ file = [status |-> "SHADOW", run |-> Null]
           /\ approved' = [approved EXCEPT ![c] = file]
    BY <1>5 DEF PublishReviewedShadow, Status
  <2>2. /\ approved'[c] = file /\ rows[c] # Null /\ Ready(rows[c], "CANDIDATE")
        /\ UNCHANGED <<rows, runs, passed>>
        /\ \A s \in snapshots : rows[s.candidate] # Null
    BY <1>1, <1>5, <2>1 DEF PublishReviewedShadow, MayRelease, TypeOK, FilesSound
  <2>3. /\ \A o \in Candidate : approved'[o] # Null =>
              approved'[o] \in [status : Status, run : RunId \cup {Null}] /\ rows[o] # Null
        /\ DOMAIN approved' = Candidate /\ approved' = [o \in Candidate |-> approved'[o]]
    BY <1>1, <2>1, <2>2 DEF Tables, TypeOK, FilesSound
  <2>4. CASE PublishQuantSnapshot(c, file) /\ gated' = gated \cup {c}
    <3>1. /\ snapshots' \subseteq [candidate : Candidate, status : Status, run : RunId \cup {Null}]
          /\ model' \in Status
          /\ \A s \in snapshots' :
                /\ rows[s.candidate] # Null
                /\ \A o \in snapshots' : o.candidate = s.candidate => o = s
                /\ s.status = "VALIDATED_RESEARCH" => s.run \in passed
      BY <1>1, <2>2, <2>4, PublicationKeeps
    <3>. QED BY <1>1, <2>2, <2>3, <2>4, <3>1
             DEF Release, Tables, TypeOK, FilesSound, VerdictsSound, ReleasesAreBacked
  <2>5. CASE UNCHANGED <<snapshots, model, writes, gated>>
    BY <1>1, <2>2, <2>3, <2>5
       DEF Release, Tables, TypeOK, FilesSound, VerdictsSound, ReleasesAreBacked
  <2>. QED BY <1>5, <2>2, <2>4, <2>5 DEF PublishReviewedShadow
<1>6. ASSUME NEW p \in Panel, NEW id \in RunId, NEW held \in SUBSET HoldoutChecks,
             ValidateQuant(p, id, held)
      PROVE  Release'
  <2>1. /\ runs' = [o \in Panel |-> runs'[o]]
        /\ \A o \in Panel \ {p} : runs'[o] = runs[o]
        /\ runs'[p] \in [id : RunId, passed : BOOLEAN]
        /\ runs'[p].id = IF runs[p] = Null THEN id ELSE runs[p].id
        /\ runs'[p].passed <=> held = HoldoutChecks
    BY <1>1, <1>6, ValidateRow
  <2>2. /\ passed' = IF held = HoldoutChecks THEN passed \cup {runs'[p].id} ELSE passed
        /\ \A o \in Panel : runs[o] # Null => runs[o].id # id
        /\ model' \in Status \cup {Null}
        /\ UNCHANGED <<rows, approved, snapshots, gated>>
    BY <1>1, <1>6 DEF ValidateQuant, TypeOK, Status
  <2>3. runs'[p] # Null
    BY <2>1, ReleaseAssumption
  <2>4. Tables' /\ TypeOK'
    BY <1>1, <2>1, <2>2 DEF Tables, TypeOK
  <2>5. VerdictsSound'
    <3>1. ASSUME NEW o \in Panel, runs'[o] # Null, runs'[o].passed
          PROVE  runs'[o].id \in passed'
      BY <1>1, <2>1, <2>2, <3>1 DEF VerdictsSound
    <3>2. ASSUME NEW o \in Panel, NEW q \in Panel,
                 runs'[o] # Null, runs'[q] # Null, runs'[o].id = runs'[q].id
          PROVE  o = q
      BY <1>1, <2>1, <2>2, <3>2 DEF VerdictsSound
    <3>3. ASSUME NEW x \in passed'
          PROVE  \E o \in Panel : runs'[o] # Null /\ runs'[o].id = x
      <4>1. CASE x = runs'[p].id
        BY <2>3, <4>1
      <4>2. CASE x # runs'[p].id
        <5>1. PICK o \in Panel : runs[o] # Null /\ runs[o].id = x
          BY <1>1, <2>2, <3>3, <4>2 DEF VerdictsSound
        <5>2. runs'[o] # Null /\ runs'[o].id = x
          BY <2>1, <2>3, <5>1
        <5>. QED BY <5>2
      <4>. QED BY <4>1, <4>2
    <3>. QED BY <3>1, <3>2, <3>3 DEF VerdictsSound
  <2>6. FilesSound' /\ ReleasesAreBacked'
    BY <1>1, <2>2 DEF FilesSound, ReleasesAreBacked
  <2>. QED BY <2>4, <2>5, <2>6 DEF Release
<1>7. CASE UNCHANGED releaseVars
  BY <1>1, <1>7
     DEF releaseVars, Release, Tables, TypeOK, FilesSound, VerdictsSound, ReleasesAreBacked
<1>. QED BY <1>2, <1>3, <1>4, <1>5, <1>6, <1>7 DEF Next

LEMMA ReleaseStarts == Init => Release
BY DEF Init, Release, Tables, TypeOK, FilesSound, VerdictsSound, ReleasesAreBacked
----------------------------------------------------------------------------
(* Theorems *)

\* The inductive invariant: files hold what build_snapshot made, a candidate
\* that was let through is ready, and verdicts and releases can be traced.
THEOREM ReleaseInvariant == Spec => []Release
BY ReleaseStarts, ReleaseNext, PTL DEF Spec

\* Every file, row and verdict holds a value of its type.
THEOREM ReleaseTypeCorrect == Spec => []TypeOK
BY ReleaseInvariant, PTL DEF Release

\* One release of a candidate, and one that claims validation names a run that
\* met every check, however commands are retried and panels judged again.
THEOREM ReleasesBacked == Spec => []ReleasesAreBacked
BY ReleaseInvariant, PTL DEF Release

\* An id that ever passed stays the id of one panel's row: the run a validated
\* release names can be looked up, also after the panel was judged again.
THEOREM VerdictsAreTraceable ==
    Spec => [](\A id \in passed :
                  \E p \in Panel : /\ runs[p] # Null /\ runs[p].id = id
                                   /\ \A o \in Panel \ {p} : runs[o] # Null => runs[o].id # id)
<1>1. Release => \A id \in passed :
                    \E p \in Panel : /\ runs[p] # Null /\ runs[p].id = id
                                     /\ \A o \in Panel \ {p} : runs[o] # Null => runs[o].id # id
  BY DEF Release, VerdictsSound
<1>. QED BY <1>1, ReleaseInvariant, PTL

\* What the readiness gate lets through, the scan can use.
THEOREM GatedFeedsTheScan == Spec => []ReleaseFeedsTheScan
<1>1. Release => ReleaseFeedsTheScan
  <2>. SUFFICES ASSUME Release, NEW c \in gated
                PROVE  /\ Primary(Issuer, rows[c])
                       /\ \A i \in Issuer : i \in DOMAIN rows[c] /\ ProfileVerified(rows[c][i])
                       /\ Cardinality({i \in DOMAIN rows[c] : rows[c][i].business}) >= RequiredEligible
    BY DEF ReleaseFeedsTheScan
  <2>1. rows[c] \in Built /\ Ready(rows[c], "CANDIDATE")
    BY DEF Release, FilesSound, TypeOK
  <2>. QED BY <2>1, ReadyFeeds
<1>. QED BY <1>1, ReleaseInvariant, PTL

\* A favorable entry is fresh and earned, and its levels can be carried out, at
\* every price: flooring to the price fractions loses neither the three ticks
\* of risk nor the order of stop, zone, entry, market and target.
THEOREM FavorableEntriesExecutable == Spec => []FavorableIsExecutable
<1>1. Release => FavorableIsExecutable
  <2>. SUFFICES ASSUME Release, NEW s \in snapshots, NEW i \in Issuer, NEW b \in Base,
                       NEW fresh \in BOOLEAN,
                       Scan(s, i, b, Issuer, fresh) = "FAVORABLE_ENTRY"
                PROVE  LET plan == Setup(b)
                           r    == rows[s.candidate][i]
                       IN /\ fresh /\ r.business /\ QuantEligible(r) /\ r.profile \in Known
                          /\ \A price \in {plan.entry, plan.stop, plan.target} :
                                price % Tick(price) = 0
                          /\ plan.stop < plan.zone.low
                          /\ plan.entry <= b.current /\ b.current < plan.target
                          /\ b.current - plan.entry < Tick(plan.entry)
                          /\ plan.entry - plan.stop >= 3 * Tick(plan.entry)
    BY DEF FavorableIsExecutable
  <2>1. rows[s.candidate] \in Built
    BY DEF Release, FilesSound, TypeOK
  <2>2a. PICK ranking : ranking = IF fresh THEN rows[s.candidate] ELSE [j \in {} |-> Null]
    OBVIOUS
  <2>2b. PICK row : row = IF i \in DOMAIN ranking THEN ranking[i] ELSE Null
    OBVIOUS
  <2>2c. PICK primary : primary = Primary(Issuer, ranking)
    OBVIOUS
  <2>2. Scored(b, row, primary) /\ EntryState(b, row, primary) = "FAVORABLE_ENTRY"
    BY <2>2a, <2>2b, <2>2c, ReleaseAssumption DEF Scan
  <2>3. row # Null /\ row.state = "QUALITY_CANDIDATE" /\ Favorable(b, row, primary)
    BY <2>2 DEF EntryState
  <2>4. fresh /\ i \in DOMAIN rows[s.candidate] /\ row = rows[s.candidate][i]
    BY <2>2a, <2>2b, <2>3
  <2>5. /\ primary /\ row.business /\ ZoneType(b) = "preferred_overlap"
        /\ Setup(b) # Null /\ Setup(b).price = "IN_ZONE" /\ Rewarding(Setup(b))
    BY <2>3 DEF Favorable
  <2>6. QuantEligible(row)
    BY <2>2, <2>5 DEF Scored, RowEligible, QuantEligible
  <2>7. row.profile \in Known
    BY <2>1, <2>3, <2>4, BuiltRows
  <2>8. PreferredRange(b) # Null
    BY <2>5 DEF ZoneType
  <2>9. MarketOf(b)
    BY ReleaseAssumption DEF MarketOf
  <2>. QED BY <2>4, <2>5, <2>6, <2>7, <2>8, <2>9, LevelsLieAroundMarket
<1>. QED BY <1>1, ReleaseInvariant, PTL

=============================================================================
