------------------------- MODULE DailyResearchProofs -------------------------
(***************************************************************************)
(* Machine-checked proofs about DailyResearch, for any number of attempts, *)
(* calculations, days, imports and failures.                               *)
(***************************************************************************)
EXTENDS DailyResearch, TLAPS

----------------------------------------------------------------------------
(* The invariants *)

\* The places of an attempt before it could publish a quant, and after it
\* could publish a scan.
Early == {"idle", "preflight", "market", "complete", "current", "quant", "approve"}
Late == {"outcomes", "report", "record", "ended", "dead"}
Told == Reporting \cup {"ended"}
Good == {"SUCCEEDED", "NOOP"}

\* The local variables of an attempt fit the place it is at.
ShapeOf(r) ==
    /\ att[r].phase = "idle" => att[r].locked
    /\ att[r].phase # "idle" => att[r].digest # Null
    /\ att[r].phase = "complete" => att[r].session \in bars
    /\ att[r].phase = "publish" => att[r].basis \in QuantRows
    /\ att[r].phase \in Told \cup {"outcomes"} => att[r].verdict # Null
    /\ att[r].phase = "outcomes" => att[r].verdict \in Good

\* A scan of the attempt's session is published.
Covered(r) == \E o \in ScanRows : scan[o].session = att[r].session

\* What an attempt did and what it says of it, step by step.
HonestOf(r) ==
    /\ quant[r] # Null => att[r].phase \notin Early
    /\ scan[r] # Null => att[r].phase \in Late
    /\ att[r].phase \in Told /\ att[r].verdict \in {"WAITING", "UNAVAILABLE"} =>
          quant[r] = Null /\ scan[r] = Null
    /\ att[r].phase \in Told /\ att[r].verdict = "POLICY_GATE" => scan[r] = Null
    /\ att[r].phase \in Told /\ att[r].verdict = "WAITING" => r \notin FinalAttempt
    /\ att[r].phase \in Told \cup {"outcomes"} /\ att[r].verdict \in Good => Covered(r)
    /\ att[r].phase \in Reporting /\ att[r].verdict \in Good \cup {"WAITING"} => att[r].inTry
    /\ att[r].phase \in {"record", "ended"} /\ att[r].verdict \in Good =>
          file[r] = att[r].verdict

JobOf(r) ==
    /\ job[r] \in {"SUCCEEDED", "DEGRADED"} => att[r].phase \in Told \cup {"dead"}
    /\ job[r] = "SUCCEEDED" => Covered(r)
    /\ job[r] = "DEGRADED" => quant[r] = Null /\ scan[r] = Null
    /\ att[r].phase = "ended" /\ att[r].verdict \in Good => job[r] = "SUCCEEDED"
    /\ att[r].phase = "ended" /\ att[r].verdict = "WAITING" => job[r] = "DEGRADED"

\* Times: nothing is younger than the clock and the market date, and a session
\* that passed the gates is at most a day old.
TimesOf(r) ==
    /\ att[r].at <= clock /\ att[r].day <= today
    /\ att[r].phase \in {"complete", "current", "quant", "approve", "scan", "publish"} =>
          att[r].session <= att[r].day /\ att[r].day - att[r].session <= 1
    /\ quant[r] # Null => /\ quant[r].session <= quant[r].day
                          /\ quant[r].day <= today /\ quant[r].at <= clock
    /\ scan[r] # Null => scan[r].at <= clock

\* The newest rows that the two queries look for exist.
NewestQuant(r) == r \in QuantRows /\ \A o \in QuantRows : quant[o].at <= quant[r].at
NewestScan(r) == r \in ScanRows /\ \A o \in ScanRows : NotOlder(scan[r], scan[o])
NewestExist ==
    /\ QuantRows # {} => \E r \in Attempt : NewestQuant(r)
    /\ ScanRows # {} => \E r \in Attempt : NewestScan(r)

\* A row of quant is of the attempt's session and calculation.
Suits(r, q) ==
    q \in QuantRows /\ quant[q].session = att[r].session /\ quant[q].digest = att[r].digest

\* A published scan is what the attempt says it is.
Proved(r) ==
    \E o \in ScanRows : /\ scan[o].session = att[r].session
                        /\ scan[o].digest = att[r].digest
                        /\ scan[o].quant = att[r].quant

\* One attempt at a time, from the choice of its quant to the published scan.
ReleaseOf(r) ==
    /\ Active(r) => \A o \in Attempt : Active(o) => o = r
    /\ Active(r) => \A q \in QuantRows : /\ quant[q].day <= att[r].day
                                         /\ q # r => quant[q].at < att[r].at
    /\ att[r].phase = "scan" => Suits(r, att[r].quant) /\ ActiveQuant = att[r].quant
    /\ att[r].phase = "publish" => Suits(r, att[r].quant) /\ att[r].basis = att[r].quant
    /\ att[r].phase \in {"quant", "approve", "scan", "publish"} => ~ScanIsCurrent(r)
    /\ att[r].phase = "approve" => ~QuantIsReusable(r)
    /\ scan[r] # Null =>
          LET q == scan[r].quant IN
          /\ q \in QuantRows
          /\ quant[q].session = scan[r].session /\ quant[q].digest = att[r].digest
          /\ scan[r].digest = att[r].digest /\ att[r].quant = q
    /\ att[r].phase \in Told \cup {"outcomes"} /\ att[r].verdict \in Good => Proved(r)

Shape == \A r \in Attempt : ShapeOf(r)
Honest == \A r \in Attempt : HonestOf(r)
Jobs == \A r \in Attempt : JobOf(r)
Times == \A r \in Attempt : TimesOf(r)
Release == LockHeld => \A r \in Attempt : ReleaseOf(r)
Everything ==
    /\ TypeOK /\ Shape /\ Honest /\ Jobs /\ Times /\ NewestExist
    /\ Release /\ NoNeedlessRepublication

----------------------------------------------------------------------------
(* Types *)

\* A step of attempt r.
StepOf(r) ==
    \/ \E digest \in Digest : Start(r, digest)
    \/ Interrupt(r) \/ Preflight(r) \/ CompleteSession(r) \/ CheckCurrent(r)
    \/ ReuseQuant(r) \/ PublishQuant(r) \/ PublishScan(r) \/ EvaluateOutcomes(r)
    \/ WriteReport(r) \/ RecordJob(r) \/ Die(r) \/ LoseLock(r)
    \/ \E v \in View(att[r].day) : Refresh(r, v)
    \/ \E found \in {"nothing", "rejected", "ready"} : BuildQuant(r, found)
    \/ \E enough \in BOOLEAN : BuildScan(r, enough)

\* The attempts hold values of their type.
LEMMA ConcludedFields ==
    ASSUME NEW a \in State, NEW v \in Verdict, NEW inTry \in BOOLEAN, NEW b,
           b = Concluded(a, v, inTry)
    PROVE  /\ b \in State
           /\ b.phase = "report" /\ b.verdict = v /\ (b.inTry <=> inTry)
           /\ b.digest = a.digest /\ b.at = a.at /\ b.day = a.day /\ b.session = a.session
           /\ b.quant = a.quant /\ b.basis = a.basis /\ b.locked = a.locked
<1>1. b = [a EXCEPT !.phase = "report", !.verdict = v, !.inTry = inTry]
  BY DEF Concluded
<1>2. b \in State
  BY <1>1 DEF State, Reporting
<1>3. b.phase = "report" /\ b.verdict = v /\ (b.inTry <=> inTry)
  BY <1>1 DEF State
<1>4. /\ b.digest = a.digest /\ b.at = a.at /\ b.day = a.day /\ b.session = a.session
      /\ b.quant = a.quant /\ b.basis = a.basis /\ b.locked = a.locked
  BY <1>1 DEF State
<1>. QED BY <1>2, <1>3, <1>4

LEMMA InterruptedFields ==
    ASSUME NEW a \in State, NEW b, b = Interrupted(a)
    PROVE  /\ b \in State
           /\ b.phase = "report" /\ b.verdict = "INFRASTRUCTURE" /\ b.inTry = FALSE
           /\ b.digest = a.digest /\ b.at = a.at /\ b.day = a.day /\ b.session = a.session
           /\ b.quant = a.quant /\ b.basis = a.basis /\ b.locked = a.locked
<1>1. b = [a EXCEPT !.phase = "report", !.verdict = "INFRASTRUCTURE", !.inTry = FALSE]
  BY DEF Interrupted, Concluded
<1>2. b \in State
  BY <1>1 DEF State, Reporting, Verdict
<1>3. b.phase = "report" /\ b.verdict = "INFRASTRUCTURE" /\ b.inTry = FALSE
  BY <1>1 DEF State
<1>4. /\ b.digest = a.digest /\ b.at = a.at /\ b.day = a.day /\ b.session = a.session
      /\ b.quant = a.quant /\ b.basis = a.basis /\ b.locked = a.locked
  BY <1>1 DEF State
<1>. QED BY <1>2, <1>3, <1>4

\* The two queries return a row when there is one.
LEMMA ActiveRows ==
    ASSUME NewestExist
    PROVE  /\ ActiveQuant # Null => NewestQuant(ActiveQuant)
           /\ ActiveScan # Null => NewestScan(ActiveScan)
           /\ ActiveQuant = Null => QuantRows = {}
           /\ ActiveScan = Null => ScanRows = {}
<1>1. Null \notin Attempt
  BY ConstantsAssumption
<1>2. ASSUME QuantRows # {}
      PROVE  ActiveQuant # Null /\ NewestQuant(ActiveQuant)
  <2>1. \E r \in QuantRows : \A o \in QuantRows : quant[o].at <= quant[r].at
    BY <1>2 DEF NewestExist, NewestQuant
  <2>2. ActiveQuant \in QuantRows /\ \A o \in QuantRows : quant[o].at <= quant[ActiveQuant].at
    BY <1>2, <2>1 DEF ActiveQuant
  <2>. QED BY <1>1, <2>2 DEF NewestQuant, QuantRows
<1>3. ASSUME ScanRows # {}
      PROVE  ActiveScan # Null /\ NewestScan(ActiveScan)
  <2>1. \E r \in ScanRows : \A o \in ScanRows : NotOlder(scan[r], scan[o])
    BY <1>3 DEF NewestExist, NewestScan
  <2>2. ActiveScan \in ScanRows /\ \A o \in ScanRows : NotOlder(scan[ActiveScan], scan[o])
    BY <1>3, <2>1 DEF ActiveScan
  <2>. QED BY <1>1, <2>2 DEF NewestScan, ScanRows
<1>4. /\ QuantRows = {} => ActiveQuant = Null
      /\ ScanRows = {} => ActiveScan = Null
  BY DEF ActiveQuant, ActiveScan
<1>. QED BY <1>2, <1>3, <1>4

----------------------------------------------------------------------------
(* Steps *)

LEMMA Updated ==
    ASSUME att \in [Attempt -> State], NEW r \in Attempt, NEW x \in State, Becomes(r, x)
    PROVE  /\ att' \in [Attempt -> State]
           /\ att'[r] = x
           /\ \A o \in Attempt \ {r} : att'[o] = att[o]
BY DEF Becomes

\* The attempt keeps what it was started with, or all but its place.
Keeps(r) ==
    /\ att'[r] \in State
    /\ att'[r].digest = att[r].digest /\ att'[r].at = att[r].at /\ att'[r].day = att[r].day
    /\ att'[r].locked => att[r].locked
Same(r) ==
    /\ Keeps(r)
    /\ att'[r].session = att[r].session /\ att'[r].quant = att[r].quant
    /\ att'[r].basis = att[r].basis

Goes(r, from, to) == att[r].phase = from /\ att'[r].phase = to
Concludes(r, from, verdicts) == Goes(r, from, "report") /\ Same(r) /\ att'[r].verdict \in verdicts

\* What a step of an attempt does to its local variables.
Begins(r) ==
    /\ Goes(r, "idle", "preflight")
    /\ att'[r] \in State /\ att'[r].digest # Null
    /\ att'[r].at = clock + 1 /\ clock' = clock + 1 /\ att'[r].day = today
    /\ LockIsFree

Fails(r) ==
    /\ att[r].phase \in Trying /\ att'[r].phase = "report" /\ Same(r)
    /\ att'[r].verdict = "INFRASTRUCTURE"

Refreshes(r) ==
    \/ /\ Goes(r, "market", "complete") /\ Keeps(r)
       /\ att'[r].session <= att'[r].day /\ att'[r].day - att'[r].session <= 1
       /\ att'[r].session \in bars'
    \/ /\ Concludes(r, "market", {"WAITING", "UNAVAILABLE"}) /\ att'[r].inTry
       /\ att'[r].verdict = "WAITING" => r \notin FinalAttempt

Checks(r) ==
    \/ /\ Goes(r, "current", "outcomes") /\ Keeps(r) /\ att'[r].session = att[r].session
       /\ att'[r].verdict = "NOOP"
       /\ ScanIsCurrent(r) /\ att'[r].quant = scan[ActiveScan].quant
    \/ Goes(r, "current", "quant") /\ Same(r) /\ ~ScanIsCurrent(r)

Chooses(r) ==
    \/ /\ Goes(r, "quant", "scan") /\ Keeps(r) /\ att'[r].session = att[r].session
       /\ QuantIsReusable(r) /\ att'[r].quant = ActiveQuant
    \/ Concludes(r, "quant", {"UNAVAILABLE", "POLICY_GATE"})
    \/ Goes(r, "quant", "approve") /\ Same(r) /\ ~QuantIsReusable(r)

Publishes(r) ==
    \/ /\ Goes(r, "approve", "scan") /\ Keeps(r) /\ att'[r].session = att[r].session
       /\ att'[r].quant = r /\ quant'[r] # Null
    \/ /\ Goes(r, "scan", "publish") /\ Keeps(r) /\ att'[r].session = att[r].session
       /\ att'[r].quant = att[r].quant
       /\ ActiveQuant # Null /\ att'[r].basis = ActiveQuant
    \/ Concludes(r, "scan", {"POLICY_GATE"})
    \/ /\ Goes(r, "publish", "outcomes") /\ Same(r)
       /\ att'[r].verdict = "SUCCEEDED" /\ scan'[r] # Null

Reports(r) ==
    \/ Concludes(r, "outcomes", {att[r].verdict}) /\ att'[r].inTry
    \/ /\ Goes(r, "report", "record") /\ Same(r)
       /\ \/ att'[r].verdict = att[r].verdict /\ (att[r].inTry => att'[r].inTry)
             /\ file'[r] = att[r].verdict
          \/ att'[r].verdict = "INFRASTRUCTURE"
    \/ /\ Goes(r, "record", "ended") /\ Same(r) /\ att'[r].verdict = att[r].verdict
       /\ job'[r] = PersistedStatus[att[r].verdict] \/ ~att[r].inTry
    \/ Concludes(r, "record", {"INFRASTRUCTURE"})

Move(r) ==
    \/ Begins(r) \/ Fails(r) \/ Refreshes(r) \/ Checks(r) \/ Chooses(r) \/ Publishes(r)
    \/ Reports(r)
    \/ Same(r) /\ (Goes(r, "preflight", "market") \/ Goes(r, "complete", "current"))
    \/ Active(r) /\ att'[r].phase = "dead" /\ Same(r)
    \/ /\ Active(r) /\ att'[r].phase = att[r].phase /\ Same(r)
       /\ att'[r].verdict = att[r].verdict /\ att'[r].inTry = att[r].inTry

\* What it does to the tables.
Rows(r) ==
    /\ \A o \in Attempt \ {r} :
          /\ att'[o] = att[o] /\ quant'[o] = quant[o] /\ scan'[o] = scan[o]
          /\ job'[o] = job[o] /\ file'[o] = file[o]
    /\ \/ quant' = quant
       \/ /\ att[r].phase = "approve" /\ att'[r].phase \in {"scan", "report"}
          /\ quant'[r] = [digest |-> att[r].digest, session |-> att[r].session,
                          day |-> att[r].day, at |-> att[r].at, evidence |-> att[r].evidence]
    /\ \/ scan' = scan
       \/ /\ att[r].phase = "publish" /\ att'[r].phase \in {"outcomes", "report"}
          /\ clock' = clock + 1
          /\ scan'[r] = [digest |-> quant[att[r].basis].digest, session |-> att[r].session,
                         quant |-> att[r].basis, at |-> clock + 1]
    /\ \/ job' = job
       \/ /\ att[r].phase = "preflight" /\ att'[r].phase \in {"market", "report"}
          /\ job'[r] = "RUNNING"
       \/ /\ att[r].phase = "record" /\ att'[r].phase \in {"ended", "report"}
          /\ job'[r] = PersistedStatus[att[r].verdict]
    /\ file' = file \/ (att[r].phase = "report" /\ att'[r].phase = "record")
    /\ bars \subseteq bars' /\ clock \in Nat /\ clock' \in {clock, clock + 1} /\ today' = today

LEMMA StepMoves ==
    ASSUME TypeOK, NewestExist, NEW r \in Attempt, ShapeOf(r), StepOf(r)
    PROVE  Move(r) /\ att' \in [Attempt -> State] /\ (\A o \in Attempt \ {r} : att'[o] = att[o])
<1> DEFINE a == att[r]
           b == att'[r]
           moved == Move(r) /\ att' \in [Attempt -> State]
                    /\ (\A o \in Attempt \ {r} : att'[o] = att[o])
<1>0. /\ a \in State /\ att \in [Attempt -> State] /\ today \in Day /\ clock \in Nat
      /\ imports \in Nat
      /\ a.digest \in Digest \cup {Null} /\ a.session \in Day /\ a.day \in Day
      /\ a.quant \in Attempt \cup {Null} /\ a.verdict \in Verdict \cup {Null}
  BY DEF TypeOK, State
<1>1. Null \notin Attempt /\ Null \notin Digest /\ Null \notin Verdict
  BY ConstantsAssumption
\* A call that raised.
<1>2. ASSUME Becomes(r, Interrupted(a)) PROVE
         /\ att' \in [Attempt -> State] /\ (\A o \in Attempt \ {r} : att'[o] = att[o])
         /\ b.phase = "report" /\ b.verdict = "INFRASTRUCTURE" /\ Same(r)
  <2>1. Interrupted(a) \in State
    BY <1>0, InterruptedFields
  <2>2. /\ b = Interrupted(a) /\ att' \in [Attempt -> State]
        /\ \A o \in Attempt \ {r} : att'[o] = att[o]
    BY <1>0, <1>2, <2>1, Updated
  <2>3. /\ b \in State /\ b.phase = "report" /\ b.verdict = "INFRASTRUCTURE"
        /\ b.digest = a.digest /\ b.at = a.at /\ b.day = a.day /\ b.session = a.session
        /\ b.quant = a.quant /\ b.basis = a.basis /\ b.locked = a.locked
    <3>1. PICK old \in State : old = a
      BY <1>0
    <3>2. PICK new : new = b
      OBVIOUS
    <3>3. new = Interrupted(old)
      BY <2>2, <3>1, <3>2
    <3>4. /\ new \in State /\ new.phase = "report" /\ new.verdict = "INFRASTRUCTURE"
          /\ new.digest = old.digest /\ new.at = old.at /\ new.day = old.day
          /\ new.session = old.session
          /\ new.quant = old.quant /\ new.basis = old.basis /\ new.locked = old.locked
      BY <3>3, InterruptedFields
    <3>. QED BY <3>1, <3>2, <3>4
  <2>. QED BY <2>2, <2>3 DEF Same, Keeps
<1>3. ASSUME NEW v \in Verdict, NEW i \in BOOLEAN, Becomes(r, Concluded(a, v, i)) PROVE
         /\ att' \in [Attempt -> State] /\ (\A o \in Attempt \ {r} : att'[o] = att[o])
         /\ b.phase = "report" /\ b.verdict = v /\ (i => b.inTry) /\ Same(r)
  <2>1. Concluded(a, v, i) \in State
    BY <1>0, ConcludedFields
  <2>2. /\ b = Concluded(a, v, i) /\ att' \in [Attempt -> State]
        /\ \A o \in Attempt \ {r} : att'[o] = att[o]
    BY <1>0, <1>3, <2>1, Updated
  <2>3. /\ b.phase = "report" /\ b.verdict = v /\ (i => b.inTry)
        /\ b.digest = a.digest /\ b.at = a.at /\ b.day = a.day /\ b.session = a.session
        /\ b.quant = a.quant /\ b.basis = a.basis /\ b.locked = a.locked
    BY <1>0, <2>2 DEF Concluded, State
  <2>. QED BY <2>1, <2>2, <2>3 DEF Same, Keeps
\* A call that only moves the attempt on.
<1>4. ASSUME NEW p \in Trying \cup {"record", "ended", "dead"}, Becomes(r, [a EXCEPT !.phase = p])
      PROVE
         /\ att' \in [Attempt -> State] /\ (\A o \in Attempt \ {r} : att'[o] = att[o])
         /\ b.phase = p /\ b.verdict = a.verdict /\ b.inTry = a.inTry /\ Same(r)
  <2>1. [a EXCEPT !.phase = p] \in State
    BY <1>0 DEF State, Trying, Reporting
  <2>2. /\ b = [a EXCEPT !.phase = p] /\ att' \in [Attempt -> State]
        /\ \A o \in Attempt \ {r} : att'[o] = att[o]
    BY <1>0, <1>4, <2>1, Updated
  <2>3. /\ b \in State /\ b.digest = a.digest /\ b.at = a.at /\ b.day = a.day /\ b.session = a.session
        /\ b.quant = a.quant /\ b.basis = a.basis /\ b.locked = a.locked
    BY <1>0, <2>1, <2>2 DEF State
  <2>4. b.phase = p /\ b.verdict = a.verdict
    BY <1>0, <2>2 DEF State
  <2>5. b.inTry = a.inTry
    BY <1>0, <2>2 DEF State
  <2>. QED BY <2>2, <2>3, <2>4, <2>5 DEF Same, Keeps
<1> HIDE DEF moved
<1>5. ASSUME a.phase \in Trying, Becomes(r, Interrupted(a)) PROVE moved
  BY <1>2, <1>5 DEF moved, Move, Fails
<1>6. ASSUME NEW digest \in Digest, Start(r, digest) PROVE moved
  <2> DEFINE new == [Idle EXCEPT !.phase = "preflight", !.digest = digest, !.at = clock + 1,
                                 !.day = today, !.imported = imports]
  <2>1. /\ clock + 1 \in Nat /\ 0 \in Nat /\ 0 \in Day
        /\ "preflight" \in Trying \cup Reporting \cup {"idle", "ended", "dead"}
        /\ "idle" \in Trying \cup Reporting \cup {"idle", "ended", "dead"}
    BY <1>0, ConstantsAssumption DEF Day, Trying
  <2>2. Idle \in State
    BY Zenon, <2>1 DEF Idle, State
  <2>3. new \in State
    BY <1>0, <2>1, <2>2 DEF State
  <2>4. Becomes(r, new)
    BY <1>6 DEF Start
  <2>5. b = new /\ att' \in [Attempt -> State] /\ \A o \in Attempt \ {r} : att'[o] = att[o]
    BY <1>0, <2>3, <2>4, Updated
  <2>6. b.phase = "preflight" /\ b.digest # Null /\ b.at = clock + 1 /\ b.day = today
    BY <1>1, <2>2, <2>5 DEF State
  <2>. QED BY <1>6, <2>3, <2>5, <2>6 DEF moved, Move, Begins, Goes, Start
<1>7. ASSUME Interrupt(r) PROVE moved
  BY <1>5, <1>7 DEF Interrupt
<1>8. ASSUME Preflight(r) PROVE moved
  <2>1. a.phase = "preflight" /\ a.phase \in Trying /\ Then(r, [a EXCEPT !.phase = "market"])
    BY <1>8 DEF Preflight, Trying
  <2>2. ASSUME Becomes(r, [a EXCEPT !.phase = "market"]) PROVE moved
    BY <1>4, <2>1, <2>2 DEF moved, Move, Goes, Trying
  <2>. QED BY <1>5, <2>1, <2>2 DEF Then
<1>9. ASSUME CompleteSession(r) PROVE moved
  <2>1. a.phase = "complete" /\ a.phase \in Trying /\ Then(r, [a EXCEPT !.phase = "current"])
    BY <1>9 DEF CompleteSession, Trying
  <2>2. ASSUME Becomes(r, [a EXCEPT !.phase = "current"]) PROVE moved
    BY <1>4, <2>1, <2>2 DEF moved, Move, Goes, Trying
  <2>. QED BY <1>5, <2>1, <2>2 DEF Then
<1>10. ASSUME Die(r) PROVE moved
  BY <1>4, <1>10 DEF Die, moved, Move
<1>11. ASSUME LoseLock(r) PROVE moved
  <2>1. Becomes(r, [a EXCEPT !.locked = FALSE]) /\ Active(r)
    BY <1>11 DEF LoseLock
  <2>2. [a EXCEPT !.locked = FALSE] \in State
    BY <1>0 DEF State
  <2>3. b = [a EXCEPT !.locked = FALSE] /\ att' \in [Attempt -> State]
        /\ \A o \in Attempt \ {r} : att'[o] = att[o]
    BY <1>0, <2>1, <2>2, Updated
  <2>4. /\ b.digest = a.digest /\ b.at = a.at /\ b.day = a.day /\ b.session = a.session
        /\ b.quant = a.quant /\ b.basis = a.basis /\ b.phase = a.phase /\ b.verdict = a.verdict
    BY <1>0, <2>3 DEF State
  <2>5. b.locked => a.locked
    BY <1>0, <2>3 DEF State
  <2>6. b.inTry = a.inTry
    BY <1>0, <2>3 DEF State
  <2>. QED BY <2>1, <2>2, <2>3, <2>4, <2>5, <2>6 DEF moved, Move, Same, Keeps
<1>12. ASSUME NEW v \in View(a.day), Refresh(r, v) PROVE moved
  <2> DEFINE new == [a EXCEPT !.phase = "complete", !.session = v.session]
             told == IF MayWait(v, r) THEN "WAITING" ELSE "UNAVAILABLE"
  <2>1. a.phase = "market" /\ a.phase \in Trying /\ bars' = StoredBars(r, v)
    BY <1>12 DEF Refresh, Trying
  <2>2. v.session \in 0..a.day
    BY DEF View
  <2>3. ASSUME Ready(v, a.day), Becomes(r, new) PROVE moved
    <3>1. v.session \in Day /\ v.session <= a.day
      <4>1. PICK d \in Int : d = a.day /\ d <= MaxDay
        BY <1>0, ConstantsAssumption DEF Day
      <4>2. v.session \in 0..d
        BY <2>2, <4>1
      <4>. QED BY <4>1, <4>2, ConstantsAssumption DEF Day
    <3>2. new \in State
      BY <1>0, <3>1 DEF State, Trying
    <3>3. b = new /\ att' \in [Attempt -> State] /\ \A o \in Attempt \ {r} : att'[o] = att[o]
      BY <1>0, <2>3, <3>2, Updated
    <3>4. /\ b.phase = "complete" /\ b.session = v.session /\ b.locked = a.locked
          /\ b.digest = a.digest /\ b.at = a.at /\ b.day = a.day
      BY <1>0, <3>3 DEF State
    <3>5. a.day - v.session <= 1 /\ v.coverage # "none"
      BY <2>3 DEF Ready
    <3>6. v.session \in bars'
      <4>1. bars' = bars \cup (0..v.session)
        BY <2>1, <3>5 DEF StoredBars
      <4>2. v.session \in 0..v.session
        BY <3>1 DEF Day
      <4>. QED BY <4>1, <4>2
    <3>. QED BY <2>1, <3>1, <3>2, <3>3, <3>4, <3>5, <3>6 DEF moved, Move, Refreshes, Goes, Keeps
  <2>4. ASSUME Becomes(r, Concluded(a, told, TRUE)) PROVE moved
    <3>1. told \in Verdict /\ told \in {"WAITING", "UNAVAILABLE"}
      BY DEF Verdict
    <3>2. told = "WAITING" => r \notin FinalAttempt
      BY DEF MayWait
    <3>3. /\ att' \in [Attempt -> State] /\ (\A o \in Attempt \ {r} : att'[o] = att[o])
          /\ b.phase = "report" /\ b.verdict = told /\ (TRUE => b.inTry) /\ Same(r)
      BY <1>3, <2>4, <3>1
    <3> HIDE DEF told
    <3>. QED BY <2>1, <3>1, <3>2, <3>3 DEF moved, Move, Refreshes, Concludes, Goes
  <2>5. Then(r, IF Ready(v, a.day) THEN new ELSE Concluded(a, told, TRUE))
    BY <1>12 DEF Refresh
  <2> HIDE DEF new, told
  <2>. QED BY <1>5, <2>1, <2>3, <2>4, <2>5 DEF Then
<1>13. ActiveQuant \in Attempt \cup {Null} /\ (ActiveQuant # Null => ActiveQuant \in QuantRows)
  BY ActiveRows DEF NewestQuant, QuantRows
<1>14. ActiveScan # Null =>
          ActiveScan \in Attempt /\ scan[ActiveScan].quant \in Attempt
  BY ActiveRows DEF NewestScan, ScanRows, TypeOK, Scan
\* A call that settles on a row of quant.
<1>15. ASSUME NEW p \in {"outcomes", "scan", "publish"}, NEW q \in Attempt,
              NEW w \in Attempt \cup {Null}, NEW v \in Verdict \cup {Null},
              Becomes(r, [a EXCEPT !.phase = p, !.verdict = v, !.quant = q, !.basis = w])
       PROVE  /\ att' \in [Attempt -> State] /\ (\A o \in Attempt \ {r} : att'[o] = att[o])
              /\ Keeps(r) /\ b.session = a.session
              /\ b.phase = p /\ b.verdict = v /\ b.quant = q /\ b.basis = w
  <2> DEFINE new == [a EXCEPT !.phase = p, !.verdict = v, !.quant = q, !.basis = w]
  <2>1. new \in State
    BY <1>0 DEF State, Trying, Reporting
  <2>2. b = new /\ att' \in [Attempt -> State] /\ \A o \in Attempt \ {r} : att'[o] = att[o]
    BY <1>0, <1>15, <2>1, Updated
  <2>3. /\ b.digest = a.digest /\ b.at = a.at /\ b.day = a.day /\ b.session = a.session
        /\ b.locked = a.locked
    BY <1>0, <2>2 DEF State
  <2>4. b.phase = p /\ b.verdict = v /\ b.quant = q /\ b.basis = w
    BY <1>0, <2>2 DEF State
  <2>. QED BY <2>1, <2>2, <2>3, <2>4 DEF Keeps
<1>16. ASSUME CheckCurrent(r) PROVE moved
  <2>1. a.phase = "current"
    BY <1>16 DEF CheckCurrent
  <2>2. ASSUME ScanIsCurrent(r) PROVE moved
    <3>1. Becomes(r, [a EXCEPT !.phase = "outcomes", !.verdict = "NOOP",
                               !.quant = scan[ActiveScan].quant])
      BY <1>16, <2>2 DEF CheckCurrent
    <3>2. PICK q \in Attempt, w \in Attempt \cup {Null} : q = scan[ActiveScan].quant /\ w = a.basis
      BY <1>0, <1>14, <2>2 DEF ScanIsCurrent, State
    <3>3. [a EXCEPT !.phase = "outcomes", !.verdict = "NOOP", !.quant = q]
             = [a EXCEPT !.phase = "outcomes", !.verdict = "NOOP", !.quant = q, !.basis = w]
      BY <1>0, <3>2 DEF State
    <3>4. "NOOP" \in Verdict
      BY DEF Verdict
    <3>5. Becomes(r, [a EXCEPT !.phase = "outcomes", !.verdict = "NOOP", !.quant = q, !.basis = w])
      BY <3>1, <3>2, <3>3
    <3>6. /\ att' \in [Attempt -> State] /\ (\A o \in Attempt \ {r} : att'[o] = att[o])
          /\ Keeps(r) /\ b.session = a.session /\ b.phase = "outcomes" /\ b.verdict = "NOOP"
          /\ b.quant = q
      BY <1>15, <3>4, <3>5
    <3>7. Checks(r)
      BY <2>1, <2>2, <3>2, <3>6 DEF Checks, Goes
    <3>. QED BY <3>6, <3>7 DEF moved, Move
  <2>3. ASSUME ~ScanIsCurrent(r) PROVE moved
    <3>1. Becomes(r, [a EXCEPT !.phase = "quant"])
      BY <1>16, <2>3 DEF CheckCurrent
    <3>. QED BY <1>4, <2>1, <2>3, <3>1 DEF moved, Move, Checks, Goes, Trying
  <2>. QED BY <2>2, <2>3
<1>17. ASSUME ReuseQuant(r) PROVE moved
  <2>1. a.phase = "quant" /\ QuantIsReusable(r) /\ ActiveQuant \in Attempt
        /\ Becomes(r, [a EXCEPT !.phase = "scan", !.quant = ActiveQuant])
    BY <1>13, <1>17 DEF ReuseQuant, QuantIsReusable
  <2>2. PICK q \in Attempt : q = ActiveQuant
    BY <2>1
  <2>3. PICK w \in Attempt \cup {Null}, v \in Verdict \cup {Null} : w = a.basis /\ v = a.verdict
    BY <1>0 DEF State
  <2>4. [a EXCEPT !.phase = "scan", !.quant = q]
           = [a EXCEPT !.phase = "scan", !.verdict = v, !.quant = q, !.basis = w]
    BY <1>0, <2>3 DEF State
  <2>5. Becomes(r, [a EXCEPT !.phase = "scan", !.verdict = v, !.quant = q, !.basis = w])
    BY <2>1, <2>2, <2>4
  <2>6. /\ att' \in [Attempt -> State] /\ (\A o \in Attempt \ {r} : att'[o] = att[o])
        /\ Keeps(r) /\ b.session = a.session /\ b.phase = "scan" /\ b.quant = q
    BY <1>15, <2>5
  <2>7. Chooses(r)
    BY <2>1, <2>2, <2>6 DEF Chooses, Goes
  <2>. QED BY <2>6, <2>7 DEF moved, Move
<1>18. ASSUME NEW found \in {"nothing", "rejected", "ready"}, BuildQuant(r, found) PROVE moved
  <2>1. a.phase = "quant" /\ ~QuantIsReusable(r)
    BY <1>18 DEF BuildQuant
  <2>2. ASSUME NEW v \in {"UNAVAILABLE", "POLICY_GATE"}, Becomes(r, Concluded(a, v, FALSE))
        PROVE  moved
    <3>1. v \in Verdict
      BY DEF Verdict
    <3>. QED BY <1>3, <2>1, <2>2, <3>1 DEF moved, Move, Chooses, Concludes, Goes
  <2>3. ASSUME Becomes(r, [a EXCEPT !.phase = "approve", !.evidence = imports]) PROVE moved
    <3>1. [a EXCEPT !.phase = "approve", !.evidence = imports] \in State
      BY <1>0 DEF State, Trying
    <3>2. b = [a EXCEPT !.phase = "approve", !.evidence = imports] /\ att' \in [Attempt -> State]
          /\ \A o \in Attempt \ {r} : att'[o] = att[o]
      BY <1>0, <2>3, <3>1, Updated
    <3>3. /\ b.digest = a.digest /\ b.at = a.at /\ b.day = a.day /\ b.session = a.session
          /\ b.quant = a.quant /\ b.basis = a.basis /\ b.locked = a.locked
      BY <1>0, <3>2 DEF State
    <3>4. b.phase = "approve"
      BY <1>0, <3>2 DEF State
    <3>5. Same(r)
      BY <3>1, <3>2, <3>3 DEF Same, Keeps
    <3>. QED BY <2>1, <3>2, <3>4, <3>5 DEF moved, Move, Chooses, Goes
  <2>4. CASE found = "nothing"
    BY <1>18, <2>2, <2>4 DEF BuildQuant
  <2>5. CASE found = "rejected"
    BY <1>18, <2>2, <2>5 DEF BuildQuant
  <2>6. CASE found = "ready"
    BY <1>18, <2>3, <2>6 DEF BuildQuant
  <2>. QED BY <2>4, <2>5, <2>6
<1>19. ASSUME PublishQuant(r) PROVE moved
  <2> DEFINE row == [digest |-> a.digest, session |-> a.session, day |-> a.day,
                     at |-> a.at, evidence |-> a.evidence]
  <2>1. /\ a.phase = "approve" /\ a.phase \in Trying
        /\ quant' = [quant EXCEPT ![r] = row]
        /\ Then(r, [a EXCEPT !.phase = "scan", !.quant = r])
    BY <1>19 DEF PublishQuant, Trying
  <2>2. a.digest \in Digest
    BY <1>0, <2>1 DEF ShapeOf
  <2>3. a.at \in Nat /\ a.evidence \in Nat
    BY <1>0 DEF State
  <2>4. row \in Quant
    BY <1>0, <2>2, <2>3 DEF Quant
  <2>5. quant'[r] # Null
    <3>1. quant'[r] = row
      BY <2>1 DEF TypeOK
    <3>. QED BY <2>4, <3>1, ConstantsAssumption
  <2>6. ASSUME Becomes(r, [a EXCEPT !.phase = "scan", !.quant = r]) PROVE moved
    <3>1. [a EXCEPT !.phase = "scan", !.quant = r]
             = [a EXCEPT !.phase = "scan", !.verdict = a.verdict, !.quant = r, !.basis = a.basis]
      BY <1>0 DEF State
    <3>2. a.basis \in Attempt \cup {Null}
      BY <1>0 DEF State
    <3>3. Becomes(r, [a EXCEPT !.phase = "scan", !.verdict = a.verdict, !.quant = r,
                               !.basis = a.basis])
      BY <2>6, <3>1
    <3>4. PICK w \in Attempt \cup {Null}, v \in Verdict \cup {Null} : w = a.basis /\ v = a.verdict
      BY <1>0, <3>2
    <3>5. Becomes(r, [a EXCEPT !.phase = "scan", !.verdict = v, !.quant = r, !.basis = w])
      BY <3>3, <3>4
    <3>6. /\ att' \in [Attempt -> State] /\ \A o \in Attempt \ {r} : att'[o] = att[o]
          /\ Keeps(r) /\ b.session = a.session /\ b.phase = "scan" /\ b.quant = r
      BY <1>15, <3>5
    <3>7. Publishes(r)
      BY <2>1, <2>5, <3>6 DEF Publishes, Goes
    <3>. QED BY <3>6, <3>7 DEF moved, Move
  <2>. QED BY <1>5, <2>1, <2>6 DEF Then
<1>20. ASSUME NEW enough \in BOOLEAN, BuildScan(r, enough) PROVE moved
  <2>1. a.phase = "scan"
    BY <1>20 DEF BuildScan
  <2>2. ASSUME ActiveQuant # Null, Becomes(r, [a EXCEPT !.phase = "publish", !.basis = ActiveQuant])
        PROVE  moved
    <3>1. PICK w \in Attempt : w = ActiveQuant
      BY <1>13, <2>2
    <3>2. Becomes(r, [a EXCEPT !.phase = "publish", !.basis = w])
      BY <2>2, <3>1
    <3>3. [a EXCEPT !.phase = "publish", !.basis = w] \in State
      BY <1>0 DEF State, Trying
    <3>4. b = [a EXCEPT !.phase = "publish", !.basis = w] /\ att' \in [Attempt -> State]
          /\ \A o \in Attempt \ {r} : att'[o] = att[o]
      BY <1>0, <3>2, <3>3, Updated
    <3>5. /\ b.digest = a.digest /\ b.at = a.at /\ b.day = a.day /\ b.session = a.session
          /\ b.quant = a.quant /\ b.locked = a.locked
      BY <1>0, <3>4 DEF State
    <3>6. b.phase = "publish" /\ b.basis = w
      BY <1>0, <3>4 DEF State
    <3>. QED BY <2>1, <2>2, <3>1, <3>3, <3>4, <3>5, <3>6 DEF moved, Move, Publishes, Goes, Keeps
  <2>3. ASSUME Becomes(r, Concluded(a, "POLICY_GATE", FALSE)) PROVE moved
    <3>1. "POLICY_GATE" \in Verdict
      BY DEF Verdict
    <3>. QED BY <1>3, <2>1, <2>3, <3>1 DEF moved, Move, Publishes, Concludes, Goes
  <2>. QED BY <1>20, <2>2, <2>3 DEF BuildScan
<1>21. ASSUME PublishScan(r) PROVE moved
  <2> DEFINE row == [digest |-> quant[a.basis].digest, session |-> a.session,
                     quant |-> a.basis, at |-> clock + 1]
  <2>1. /\ a.phase = "publish" /\ a.phase \in Trying
        /\ scan' = [scan EXCEPT ![r] = row]
        /\ Then(r, [a EXCEPT !.phase = "outcomes", !.verdict = "SUCCEEDED"])
    BY <1>21 DEF PublishScan, Trying
  <2>2. a.basis \in QuantRows /\ a.basis \in Attempt
    BY <2>1 DEF ShapeOf, QuantRows
  <2>3. quant[a.basis] \in Quant
    BY <2>2 DEF TypeOK, QuantRows
  <2>4. quant[a.basis].digest \in Digest /\ clock + 1 \in Nat
    BY <1>0, <2>3 DEF Quant
  <2>5. row \in Scan
    BY <1>0, <2>2, <2>4 DEF Scan
  <2>6. scan'[r] # Null
    <3>1. scan'[r] = row
      BY <2>1 DEF TypeOK
    <3>. QED BY <2>5, <3>1, ConstantsAssumption
  <2>7. ASSUME Becomes(r, [a EXCEPT !.phase = "outcomes", !.verdict = "SUCCEEDED"]) PROVE moved
    <3>1. [a EXCEPT !.phase = "outcomes", !.verdict = "SUCCEEDED"] \in State
      BY <1>0 DEF State, Trying, Verdict
    <3>2. b = [a EXCEPT !.phase = "outcomes", !.verdict = "SUCCEEDED"]
          /\ att' \in [Attempt -> State] /\ \A o \in Attempt \ {r} : att'[o] = att[o]
      BY <1>0, <2>7, <3>1, Updated
    <3>3. /\ b.digest = a.digest /\ b.at = a.at /\ b.day = a.day /\ b.session = a.session
          /\ b.quant = a.quant /\ b.basis = a.basis /\ b.locked = a.locked
      BY <1>0, <3>2 DEF State
    <3>4. b.phase = "outcomes" /\ b.verdict = "SUCCEEDED"
      BY <1>0, <3>2 DEF State
    <3>5. Same(r)
      BY <3>1, <3>2, <3>3 DEF Same, Keeps
    <3>. QED BY <2>1, <2>6, <3>2, <3>4, <3>5 DEF moved, Move, Publishes, Goes
  <2>. QED BY <1>5, <2>1, <2>7 DEF Then
<1>22. ASSUME EvaluateOutcomes(r) PROVE moved
  <2>1. a.phase = "outcomes" /\ Becomes(r, Concluded(a, a.verdict, TRUE))
    BY <1>22 DEF EvaluateOutcomes
  <2>2. a.verdict \in Verdict
    BY <2>1 DEF ShapeOf, Good, Verdict
  <2>. QED BY <1>3, <2>1, <2>2 DEF moved, Move, Reports, Concludes, Goes
<1>23. ASSUME WriteReport(r) PROVE moved
  <2>1. a.phase = "report"
    BY <1>23 DEF WriteReport
  <2>2. ASSUME file' = [file EXCEPT ![r] = a.verdict], Becomes(r, [a EXCEPT !.phase = "record"])
        PROVE  moved
    <3>1. file'[r] = a.verdict
      BY <2>2 DEF TypeOK
    <3>. QED BY <1>4, <2>1, <2>2, <3>1 DEF moved, Move, Reports, Goes
  <2>3. ASSUME Becomes(r, [Interrupted(a) EXCEPT !.phase = "record"]) PROVE moved
    <3>1. PICK c : c = Interrupted(a)
      OBVIOUS
    <3>2. /\ c \in State /\ c.verdict = "INFRASTRUCTURE"
          /\ c.digest = a.digest /\ c.at = a.at /\ c.day = a.day /\ c.session = a.session
          /\ c.quant = a.quant /\ c.basis = a.basis /\ c.locked = a.locked
      BY <1>0, <3>1, InterruptedFields
    <3>3. Becomes(r, [c EXCEPT !.phase = "record"])
      BY <2>3, <3>1
    <3>4. [c EXCEPT !.phase = "record"] \in State
      BY <3>2 DEF State, Reporting
    <3>5. b = [c EXCEPT !.phase = "record"]
          /\ att' \in [Attempt -> State] /\ \A o \in Attempt \ {r} : att'[o] = att[o]
      BY <1>0, <3>3, <3>4, Updated
    <3>6. /\ b.digest = c.digest /\ b.at = c.at /\ b.day = c.day /\ b.session = c.session
          /\ b.quant = c.quant /\ b.basis = c.basis /\ b.locked = c.locked
      BY <3>2, <3>5 DEF State
    <3>7. b.phase = "record" /\ b.verdict = "INFRASTRUCTURE"
      BY <3>2, <3>5 DEF State
    <3>8. Same(r)
      BY <3>2, <3>4, <3>5, <3>6 DEF Same, Keeps
    <3>. QED BY <2>1, <3>5, <3>7, <3>8 DEF moved, Move, Reports, Goes
  <2>. QED BY <1>23, <2>2, <2>3 DEF WriteReport
<1>24. ASSUME RecordJob(r) PROVE moved
  <2>1. a.phase = "record"
    BY <1>24 DEF RecordJob
  <2>2. ASSUME Becomes(r, [a EXCEPT !.phase = "ended"]),
               job' = [job EXCEPT ![r] = PersistedStatus[a.verdict]] \/ ~a.inTry
        PROVE  moved
    <3>1. job'[r] = PersistedStatus[a.verdict] \/ ~a.inTry
      BY <2>2 DEF TypeOK
    <3>. QED BY <1>4, <2>1, <2>2, <3>1 DEF moved, Move, Reports, Goes
  <2>3. ASSUME Becomes(r, Interrupted(a)) PROVE moved
    BY <1>2, <2>1, <2>3 DEF moved, Move, Reports, Concludes, Goes
  <2>. QED BY <1>24, <2>2, <2>3 DEF RecordJob, RecordRaised
<1>. QED BY <1>6, <1>7, <1>8, <1>9, <1>10, <1>11, <1>12, <1>16, <1>17, <1>18, <1>19, <1>20, <1>21,
            <1>22, <1>23, <1>24 DEF StepOf, moved

LEMMA StepRows ==
    ASSUME TypeOK, NewestExist, NEW r \in Attempt, ShapeOf(r), StepOf(r)
    PROVE  Rows(r)
<1>0. /\ quant \in [Attempt -> Quant \cup {Null}] /\ scan \in [Attempt -> Scan \cup {Null}]
      /\ job \in [Attempt -> {Null, "RUNNING", "SUCCEEDED", "DEGRADED", "FAILED"}]
      /\ file \in [Attempt -> Verdict \cup {Null}]
      /\ bars \subseteq bars /\ clock \in Nat /\ clock \in {clock, clock + 1}
      /\ att \in [Attempt -> State]
  BY DEF TypeOK
<1>1. \A o \in Attempt \ {r} : att'[o] = att[o]
  BY StepMoves
<1>14. /\ att \in [Attempt -> State] /\ Interrupted(att[r]).phase = "report"
       /\ Becomes(r, Interrupted(att[r])) => att'[r].phase = "report"
       /\ \A p : Becomes(r, [att[r] EXCEPT !.phase = p]) => att'[r].phase = p
       /\ \A p : Then(r, [att[r] EXCEPT !.phase = p]) => att'[r].phase \in {p, "report"}
       /\ \A p, q : Then(r, [att[r] EXCEPT !.phase = p, !.quant = q])
                        => att'[r].phase \in {p, "report"}
       /\ \A p, v : Then(r, [att[r] EXCEPT !.phase = p, !.verdict = v])
                        => att'[r].phase \in {p, "report"}
  <2>1. att \in [Attempt -> State] /\ att[r] \in State
    BY DEF TypeOK
  <2>2. Interrupted(att[r]).phase = "report"
    BY <2>1, InterruptedFields
  <2>3. \A new : Becomes(r, new) => att'[r] = new
    BY <2>1 DEF Becomes
  <2>4. Becomes(r, Interrupted(att[r])) => att'[r].phase = "report"
    BY <2>2, <2>3
  <2>5. \A p : Becomes(r, [att[r] EXCEPT !.phase = p]) => att'[r].phase = p
    BY <2>1, <2>3 DEF State
  <2>6. \A p, q : Becomes(r, [att[r] EXCEPT !.phase = p, !.quant = q]) => att'[r].phase = p
    BY <2>1, <2>3 DEF State
  <2>7. \A p, v : Becomes(r, [att[r] EXCEPT !.phase = p, !.verdict = v]) => att'[r].phase = p
    BY <2>1, <2>3 DEF State
  <2>. QED BY <2>1, <2>2, <2>4, <2>5, <2>6, <2>7 DEF Then
<1>2. ASSUME NEW digest \in Digest, Start(r, digest) PROVE Rows(r)
  BY <1>0, <1>1, <1>2 DEF Start, Rows, market
<1>3. ASSUME NEW v \in View(att[r].day), Refresh(r, v) PROVE Rows(r)
  BY <1>0, <1>1, <1>3 DEF Refresh, Rows, snapshots, StoredBars
<1>4. ASSUME UNCHANGED <<market, snapshots, job, file>> PROVE Rows(r)
  BY <1>0, <1>1, <1>4 DEF Rows, market, snapshots
<1>5. ASSUME PublishQuant(r) PROVE Rows(r)
  <2>1. att[r].phase = "approve" /\ att'[r].phase \in {"scan", "report"}
    BY <1>5, <1>14 DEF PublishQuant
  <2>. QED BY <1>0, <1>1, <1>5, <2>1 DEF PublishQuant, Rows, market
<1>6. ASSUME PublishScan(r) PROVE Rows(r)
  <2>1. att[r].phase = "publish" /\ att'[r].phase \in {"outcomes", "report"}
    BY <1>6, <1>14 DEF PublishScan
  <2>. QED BY <1>0, <1>1, <1>6, <2>1 DEF PublishScan, Rows, market
<1>7. ASSUME Preflight(r) PROVE Rows(r)
  <2>1. att[r].phase = "preflight" /\ att'[r].phase \in {"market", "report"}
    BY <1>7, <1>14 DEF Preflight
  <2>. QED BY <1>0, <1>1, <1>7, <2>1 DEF Preflight, Rows, market, snapshots
<1>8. ASSUME RecordJob(r) PROVE Rows(r)
  <2>1. att[r].phase = "record" /\ att'[r].phase \in {"ended", "report"}
    BY <1>8, <1>14 DEF RecordJob, RecordRaised
  <2>. QED BY <1>0, <1>1, <1>8, <2>1 DEF RecordJob, Rows, market, snapshots
<1>9. ASSUME CompleteSession(r) PROVE Rows(r)
  BY <1>0, <1>1, <1>9 DEF CompleteSession, Rows, market, snapshots
<1>10. ASSUME NEW found \in {"nothing", "rejected", "ready"}, BuildQuant(r, found) PROVE Rows(r)
  BY <1>4, <1>10 DEF BuildQuant
<1>11. ASSUME NEW enough \in BOOLEAN, BuildScan(r, enough) PROVE Rows(r)
  BY <1>4, <1>11 DEF BuildScan
<1>12. ASSUME WriteReport(r) PROVE Rows(r)
  <2>1. att[r].phase = "report" /\ att'[r].phase = "record"
    <3>1. Becomes(r, [att[r] EXCEPT !.phase = "record"])
             \/ Becomes(r, [Interrupted(att[r]) EXCEPT !.phase = "record"])
      BY <1>12 DEF WriteReport
    <3>2. [Interrupted(att[r]) EXCEPT !.phase = "record"].phase = "record"
      <4>1. PICK c \in State : c = Interrupted(att[r])
        BY <1>0, InterruptedFields
      <4>. QED BY <4>1 DEF State
    <3>3. Interrupted(att[r]) \in State /\ att[r] \in State
      BY <1>0, InterruptedFields DEF TypeOK
    <3>4. att'[r].phase = "record"
      BY <1>0, <3>1, <3>2, <3>3 DEF Becomes, State
    <3>. QED BY <1>12, <3>4 DEF WriteReport
  <2>. QED BY <1>0, <1>1, <1>12, <2>1 DEF WriteReport, Rows, market, snapshots
<1>13. ASSUME \/ Interrupt(r) \/ CheckCurrent(r) \/ ReuseQuant(r) \/ EvaluateOutcomes(r)
              \/ Die(r) \/ LoseLock(r)
       PROVE  Rows(r)
  BY <1>4, <1>13 DEF Interrupt, CheckCurrent, ReuseQuant, EvaluateOutcomes, Die, LoseLock
<1>. QED BY <1>2, <1>3, <1>5, <1>6, <1>7, <1>8, <1>9, <1>10, <1>11, <1>12, <1>13 DEF StepOf
LEMMA StepTypes ==
    ASSUME TypeOK, NewestExist, NEW r \in Attempt, ShapeOf(r), StepOf(r)
    PROVE  TypeOK'
<1>0. /\ quant \in [Attempt -> Quant \cup {Null}] /\ scan \in [Attempt -> Scan \cup {Null}]
      /\ job \in [Attempt -> {Null, "RUNNING", "SUCCEEDED", "DEGRADED", "FAILED"}]
      /\ file \in [Attempt -> Verdict \cup {Null}] /\ today \in Day
      /\ clock \in Nat /\ imports \in Nat /\ faults \in Nat /\ bars \subseteq Day
      /\ completed \subseteq bars /\ att[r] \in State /\ att \in [Attempt -> State]
  BY DEF TypeOK
<1>1. att' \in [Attempt -> State]
  BY StepMoves
<1>2. /\ today' \in Day /\ clock' \in Nat
  <2>1. Rows(r)
    BY StepRows
  <2>2. clock + 1 \in Nat
    BY <1>0
  <2>. QED BY <1>0, <2>1, <2>2 DEF Rows
<1>3. /\ Fault => faults' \in Nat
      /\ faults' = faults => faults' \in Nat
      /\ \A x : Then(r, x) => faults' \in Nat
  BY <1>0 DEF Fault, Then
<1>4. UNCHANGED market => imports' \in Nat /\ bars' \subseteq Day /\ completed' \subseteq bars'
  BY <1>0 DEF market
<1>5. /\ UNCHANGED quant => quant' \in [Attempt -> Quant \cup {Null}]
      /\ UNCHANGED scan => scan' \in [Attempt -> Scan \cup {Null}]
      /\ UNCHANGED job => job' \in [Attempt -> {Null, "RUNNING", "SUCCEEDED", "DEGRADED", "FAILED"}]
      /\ UNCHANGED file => file' \in [Attempt -> Verdict \cup {Null}]
  BY <1>0
<1>6. PersistedStatus[att[r].verdict] \in {"SUCCEEDED", "DEGRADED", "FAILED"}
         \/ att[r].verdict = Null
  BY <1>0 DEF PersistedStatus, State
<1>7. ASSUME NEW s \in {"RUNNING", "SUCCEEDED", "DEGRADED", "FAILED"}, job' = [job EXCEPT ![r] = s]
      PROVE  job' \in [Attempt -> {Null, "RUNNING", "SUCCEEDED", "DEGRADED", "FAILED"}]
  BY <1>0, <1>7
<1>8. ASSUME NEW digest \in Digest, Start(r, digest) PROVE TypeOK'
  BY <1>1, <1>2, <1>3, <1>4, <1>5, <1>8 DEF Start, TypeOK
<1>9. ASSUME NEW v \in View(att[r].day), Refresh(r, v) PROVE TypeOK'
  <2>1. bars' \subseteq Day /\ completed' \subseteq bars'
    <3>1. bars' = StoredBars(r, v) /\ completed' = completed
      BY <1>9 DEF Refresh
    <3>2. v.session \in 0..att[r].day /\ att[r].day \in 0..MaxDay /\ MaxDay \in Nat
      BY <1>0, ConstantsAssumption DEF View, State, Day
    <3>3. 0..v.session \subseteq Day
      <4>1. PICK s \in Int : s = v.session /\ s <= MaxDay
        <5>1. PICK d \in 0..MaxDay : d = att[r].day
          BY <3>2
        <5>. QED BY <3>2, <5>1
      <4>. QED BY <3>2, <4>1 DEF Day
    <3>. QED BY <1>0, <3>1, <3>3 DEF StoredBars
  <2>. QED BY <1>0, <1>1, <1>2, <1>3, <1>5, <1>9, <2>1 DEF Refresh, TypeOK, snapshots
<1>10. ASSUME CompleteSession(r) PROVE TypeOK'
  <2>1. bars' \subseteq Day /\ completed' \subseteq bars'
    BY <1>0, <1>10 DEF CompleteSession, ShapeOf
  <2>. QED BY <1>0, <1>1, <1>2, <1>3, <1>5, <1>10, <2>1 DEF CompleteSession, TypeOK, snapshots
<1>11. ASSUME Preflight(r) PROVE TypeOK'
  <2>1. job' = [job EXCEPT ![r] = "RUNNING"]
    BY <1>11 DEF Preflight
  <2>. QED BY <1>1, <1>2, <1>3, <1>4, <1>5, <1>7, <1>11, <2>1 DEF Preflight, TypeOK, snapshots
<1>12. ASSUME PublishQuant(r) PROVE TypeOK'
  <2> DEFINE row == [digest |-> att[r].digest, session |-> att[r].session, day |-> att[r].day,
                     at |-> att[r].at, evidence |-> att[r].evidence]
  <2>1. quant' = [quant EXCEPT ![r] = row] /\ att[r].phase = "approve"
    BY <1>12 DEF PublishQuant
  <2>2. att[r].digest \in Digest /\ att[r].at \in Nat /\ att[r].evidence \in Nat
        /\ att[r].session \in Day /\ att[r].day \in Day
    BY <1>0, <2>1 DEF ShapeOf, State
  <2>3. row \in Quant
    BY <2>2 DEF Quant
  <2>4. quant' \in [Attempt -> Quant \cup {Null}]
    BY <1>0, <2>1, <2>3
  <2>. QED BY <1>1, <1>2, <1>3, <1>4, <1>5, <1>12, <2>4 DEF PublishQuant, TypeOK
<1>13. ASSUME PublishScan(r) PROVE TypeOK'
  <2> DEFINE row == [digest |-> quant[att[r].basis].digest, session |-> att[r].session,
                     quant |-> att[r].basis, at |-> clock + 1]
  <2>1. scan' = [scan EXCEPT ![r] = row] /\ att[r].phase = "publish"
    BY <1>13 DEF PublishScan
  <2>2. att[r].basis \in Attempt /\ att[r].session \in Day /\ clock + 1 \in Nat
    BY <1>0, <2>1 DEF ShapeOf, State, QuantRows
  <2>3. quant[att[r].basis] \in Quant
    BY <1>0, <2>1 DEF ShapeOf, QuantRows
  <2>4. quant[att[r].basis].digest \in Digest
    BY <2>3 DEF Quant
  <2>5. row \in Scan
    BY <2>2, <2>4 DEF Scan
  <2>6. scan' \in [Attempt -> Scan \cup {Null}]
    BY <1>0, <2>1, <2>5
  <2>. QED BY <1>1, <1>2, <1>3, <1>4, <1>5, <1>13, <2>6 DEF PublishScan, TypeOK
<1>14. ASSUME RecordJob(r) PROVE TypeOK'
  <2>1. PersistedStatus[att[r].verdict] \in {"SUCCEEDED", "DEGRADED", "FAILED"}
    BY <1>6, <1>14 DEF RecordJob, ShapeOf, Told, Reporting
  <2>2. job' = job \/ job' = [job EXCEPT ![r] = PersistedStatus[att[r].verdict]]
    BY <1>14 DEF RecordJob
  <2>3. job' \in [Attempt -> {Null, "RUNNING", "SUCCEEDED", "DEGRADED", "FAILED"}]
    BY <1>5, <1>7, <2>1, <2>2
  <2>. QED BY <1>1, <1>2, <1>3, <1>4, <1>5, <1>14, <2>3 DEF RecordJob, TypeOK, snapshots
<1>15. ASSUME WriteReport(r) PROVE TypeOK'
  <2>1. file' = file \/ file' = [file EXCEPT ![r] = att[r].verdict]
    BY <1>15 DEF WriteReport
  <2>2. file' \in [Attempt -> Verdict \cup {Null}]
    BY <1>0, <2>1 DEF State
  <2>. QED BY <1>1, <1>2, <1>3, <1>4, <1>5, <1>15, <2>2 DEF WriteReport, TypeOK, snapshots
<1>16. ASSUME UNCHANGED <<market, snapshots, job, file>>, faults' \in Nat PROVE TypeOK'
  BY <1>1, <1>2, <1>4, <1>5, <1>16 DEF TypeOK, snapshots
<1>17. ASSUME Interrupt(r) \/ Die(r) \/ LoseLock(r) PROVE TypeOK'
  BY <1>3, <1>16, <1>17 DEF Interrupt, Die, LoseLock
<1>18. ASSUME CheckCurrent(r) \/ ReuseQuant(r) \/ EvaluateOutcomes(r) PROVE TypeOK'
  BY <1>3, <1>16, <1>18 DEF CheckCurrent, ReuseQuant, EvaluateOutcomes
<1>19. ASSUME NEW found \in {"nothing", "rejected", "ready"}, BuildQuant(r, found) PROVE TypeOK'
  BY <1>3, <1>16, <1>19 DEF BuildQuant
<1>20. ASSUME NEW enough \in BOOLEAN, BuildScan(r, enough) PROVE TypeOK'
  BY <1>3, <1>16, <1>20 DEF BuildScan
<1>. QED BY <1>8, <1>9, <1>10, <1>11, <1>12, <1>13, <1>14, <1>15, <1>17, <1>18, <1>19, <1>20 DEF StepOf
----------------------------------------------------------------------------
(* What a step leaves alone *)

\* A published row stays as it is, and a step publishes a row of its own only.
LEMMA RowsStay ==
    ASSUME NEW r \in Attempt, HonestOf(r), Rows(r)
    PROVE  /\ \A o \in QuantRows : o \in QuantRows' /\ quant'[o] = quant[o]
           /\ \A o \in ScanRows : o \in ScanRows' /\ scan'[o] = scan[o]
           /\ \A o \in QuantRows' : o \in QuantRows \/ o = r
           /\ \A o \in ScanRows' : o \in ScanRows \/ o = r
           /\ \A o \in Attempt : att'[o].session = att[o].session /\ Covered(o) => Covered(o)'
<1>1. \A o \in Attempt : quant[o] # Null => quant'[o] = quant[o]
  BY DEF HonestOf, Rows, Early
<1>2. \A o \in Attempt : scan[o] # Null => scan'[o] = scan[o]
  BY DEF HonestOf, Rows, Late
<1>3. \A o \in Attempt \ {r} : quant'[o] = quant[o] /\ scan'[o] = scan[o]
  BY DEF Rows
<1>4. /\ \A o \in QuantRows : o \in QuantRows' /\ quant'[o] = quant[o]
      /\ \A o \in QuantRows' : o \in QuantRows \/ o = r
  BY <1>1, <1>3 DEF QuantRows
<1>5. /\ \A o \in ScanRows : o \in ScanRows' /\ scan'[o] = scan[o]
      /\ \A o \in ScanRows' : o \in ScanRows \/ o = r
  BY <1>2, <1>3 DEF ScanRows
<1>6. \A o \in Attempt : att'[o].session = att[o].session /\ Covered(o) => Covered(o)'
  BY <1>5 DEF Covered
<1>. QED BY <1>4, <1>5, <1>6

\* What is said of the other attempts still holds.
LEMMA OthersKept ==
    ASSUME TypeOK, NEW r \in Attempt, HonestOf(r), Rows(r), NEW o \in Attempt \ {r},
           ShapeOf(o), HonestOf(o), JobOf(o), TimesOf(o)
    PROVE  ShapeOf(o)' /\ HonestOf(o)' /\ JobOf(o)' /\ TimesOf(o)'
<1>1. /\ att'[o] = att[o] /\ quant'[o] = quant[o] /\ scan'[o] = scan[o]
      /\ job'[o] = job[o] /\ file'[o] = file[o]
  BY DEF Rows
<1>2. Covered(o) => Covered(o)'
  BY <1>1, RowsStay
<1>3. ShapeOf(o)'
  <2>1. \A q \in QuantRows : q \in QuantRows'
    BY RowsStay
  <2>2. bars \subseteq bars'
    BY DEF Rows
  <2>. QED BY <1>1, <2>1, <2>2 DEF ShapeOf
<1>4. HonestOf(o)'
  BY <1>1, <1>2 DEF HonestOf
<1>5. JobOf(o)'
  BY <1>1, <1>2 DEF JobOf
<1>6. TimesOf(o)'
  <2>1. PICK c \in Nat, d \in Nat : c = clock /\ d = clock' /\ c <= d
    BY DEF TypeOK, Rows
  <2>2. today' = today
    BY DEF Rows
  <2>3. /\ att[o].at \in Nat
        /\ quant[o] # Null => quant[o].at \in Nat
        /\ scan[o] # Null => scan[o].at \in Nat
    BY DEF TypeOK, State, Quant, Scan
  <2>4. \A n \in Nat : n <= c => n <= d
    BY <2>1
  <2>. QED BY <1>1, <2>1, <2>2, <2>3, <2>4 DEF TimesOf
<1>. QED BY <1>3, <1>4, <1>5, <1>6

----------------------------------------------------------------------------
(* The attempt that moves *)

LEMMA ShapeNext ==
    ASSUME TypeOK, NewestExist, NEW r \in Attempt, ShapeOf(r), HonestOf(r), Move(r), Rows(r)
    PROVE  ShapeOf(r)'
<1>1. Null \notin Verdict /\ Null \notin Good
  BY ConstantsAssumption DEF Good, Verdict
<1>2. att[r] \in State
  BY DEF TypeOK
<1>3. \A q \in QuantRows : q \in QuantRows'
  BY RowsStay
<1>4. ActiveQuant # Null => ActiveQuant \in QuantRows
  BY ActiveRows DEF NewestQuant
<1>5. "INFRASTRUCTURE" # Null /\ "WAITING" # Null /\ "UNAVAILABLE" # Null /\ "POLICY_GATE" # Null
  BY <1>1 DEF Verdict
<1>6. bars \subseteq bars'
  BY DEF Rows
<1> USE DEF ShapeOf, Told, Reporting, Goes, Concludes, Same, Keeps
<1>7. CASE Begins(r)
  BY <1>7 DEF Begins
<1>8. CASE Fails(r)
  BY <1>5, <1>8 DEF Fails, Trying
<1>9. CASE Refreshes(r)
  BY <1>5, <1>9 DEF Refreshes
<1>10. CASE Checks(r)
  BY <1>1, <1>10 DEF Checks, Good
<1>11. CASE Chooses(r)
  BY <1>5, <1>11 DEF Chooses
<1>12. CASE Publishes(r)
  BY <1>1, <1>3, <1>4, <1>5, <1>12 DEF Publishes, Good
<1>13. CASE Reports(r)
  BY <1>5, <1>13 DEF Reports
<1>14. CASE Same(r) /\ (Goes(r, "preflight", "market") \/ Goes(r, "complete", "current"))
  BY <1>14
<1>15. CASE Active(r) /\ att'[r].phase = "dead" /\ Same(r)
  BY <1>15 DEF Active, Trying
<1>16. CASE /\ Active(r) /\ att'[r].phase = att[r].phase /\ Same(r)
            /\ att'[r].verdict = att[r].verdict /\ att'[r].inTry = att[r].inTry
  BY <1>3, <1>6, <1>16 DEF Active, Trying
<1>. QED BY <1>7, <1>8, <1>9, <1>10, <1>11, <1>12, <1>13, <1>14, <1>15, <1>16 DEF Move
LEMMA HonestNext ==
    ASSUME TypeOK, NewestExist, NEW r \in Attempt, ShapeOf(r), HonestOf(r), Move(r), Rows(r)
    PROVE  HonestOf(r)'
<1>1. att'[r].session = att[r].session /\ Covered(r) => Covered(r)'
  BY RowsStay
<1>2. att[r].phase # "approve" => quant' = quant
  BY DEF Rows
<1>3. att[r].phase # "publish" => scan' = scan
  BY DEF Rows
<1>4. att[r].phase # "report" => file' = file
  BY DEF Rows
\* The calls that may publish.
<1>5. att[r].phase = "approve" => /\ att'[r].phase \in {"approve", "dead"} => quant' = quant
                                  /\ scan[r] = Null /\ scan' = scan
  BY DEF Rows, HonestOf, Late
<1>6. att[r].phase = "publish" => /\ att'[r].phase \in {"publish", "dead"} => scan' = scan
  BY DEF Rows
<1> USE DEF HonestOf, Told, Reporting, Goes, Concludes, Same, Keeps, Good, Early, Late
<1>7. CASE Begins(r)
  BY <1>2, <1>3, <1>4, <1>7 DEF Begins
<1>8. CASE Fails(r)
  BY <1>2, <1>3, <1>4, <1>8 DEF Fails, Trying
<1>9. CASE Refreshes(r)
  BY <1>2, <1>3, <1>4, <1>9 DEF Refreshes
<1>10. CASE Checks(r)
  <2>1. ASSUME ScanIsCurrent(r), att'[r].session = att[r].session, scan' = scan PROVE Covered(r)'
    <3>1. ActiveScan \in ScanRows
      BY <2>1, ActiveRows DEF ScanIsCurrent, NewestScan
    <3>2. scan[ActiveScan].session = att[r].session
      BY <2>1 DEF ScanIsCurrent
    <3>3. Covered(r)
      BY <3>1, <3>2 DEF Covered
    <3>. QED BY <1>1, <2>1, <3>3
  <2>. QED BY <1>2, <1>3, <1>4, <1>10, <2>1 DEF Checks
<1>11. CASE Chooses(r)
  BY <1>2, <1>3, <1>4, <1>11 DEF Chooses
<1>12. CASE Publishes(r)
  <2>1. ASSUME Goes(r, "publish", "outcomes"), Same(r), scan'[r] # Null PROVE Covered(r)'
    <3>1. scan'[r].session = att[r].session
      <4>1. scan[r] = Null
        BY <2>1
      <4>2. scan' # scan
        BY <2>1, <4>1
      <4>. QED BY <4>2 DEF Rows
    <3>2. r \in ScanRows'
      BY <2>1 DEF ScanRows
    <3>. QED BY <2>1, <3>1, <3>2 DEF Covered
  <2>. QED BY <1>2, <1>3, <1>4, <1>12, <2>1 DEF Publishes
<1>13. CASE Reports(r)
  BY <1>1, <1>2, <1>3, <1>4, <1>13, ShapeNext DEF Reports, ShapeOf
<1>14. CASE Same(r) /\ (Goes(r, "preflight", "market") \/ Goes(r, "complete", "current"))
  BY <1>2, <1>3, <1>4, <1>14
<1>15. CASE Active(r) /\ att'[r].phase = "dead" /\ Same(r)
  BY <1>2, <1>3, <1>4, <1>5, <1>6, <1>15 DEF Active, Trying
<1>16. CASE /\ Active(r) /\ att'[r].phase = att[r].phase /\ Same(r)
            /\ att'[r].verdict = att[r].verdict /\ att'[r].inTry = att[r].inTry
  <2>1. quant' = quant /\ scan' = scan
    BY <1>2, <1>3, <1>5, <1>6, <1>16
  <2>2. file' = file
    BY <1>16 DEF Rows
  <2>. QED BY <1>1, <1>16, <2>1, <2>2
<1>. QED BY <1>7, <1>8, <1>9, <1>10, <1>11, <1>12, <1>13, <1>14, <1>15, <1>16 DEF Move

LEMMA JobNext ==
    ASSUME TypeOK, NewestExist, NEW r \in Attempt, ShapeOf(r), HonestOf(r), JobOf(r),
           Move(r), Rows(r)
    PROVE  JobOf(r)'
<1>1. att'[r].session = att[r].session /\ Covered(r) => Covered(r)'
  BY RowsStay
<1>2. att[r].phase # "approve" => quant' = quant
  BY DEF Rows
<1>3. att[r].phase # "publish" => scan' = scan
  BY DEF Rows
<1>4. att[r].phase \notin {"preflight", "record"} => job' = job
  BY DEF Rows
<1>5. att[r].verdict # Null =>
         PersistedStatus[att[r].verdict] =
            IF att[r].verdict \in {"SUCCEEDED", "NOOP"} THEN "SUCCEEDED"
            ELSE IF att[r].verdict \in {"WAITING", "UNAVAILABLE"} THEN "DEGRADED" ELSE "FAILED"
  BY DEF PersistedStatus, TypeOK, State
<1> USE DEF JobOf, Told, Reporting, Goes, Concludes, Same, Keeps, Good
\* Before its report an attempt has no verdict in its row.
<1>6. CASE att[r].phase \notin {"preflight", "record"} \cup Told
  <2>1. job'[r] \notin {"SUCCEEDED", "DEGRADED"} \/ att[r].phase = "dead"
    BY <1>4, <1>6
  <2>2. att[r].phase # "dead" /\ att'[r].phase # "ended"
    BY <1>6 DEF Move, Begins, Fails, Refreshes, Checks, Chooses, Publishes, Reports, Active, Trying
  <2>. QED BY <2>1, <2>2
<1>7. CASE att[r].phase = "preflight"
  <2>1. job'[r] \notin {"SUCCEEDED", "DEGRADED"}
    BY <1>7 DEF Rows
  <2>2. att'[r].phase # "ended"
    BY <1>7 DEF Move, Begins, Fails, Refreshes, Checks, Chooses, Publishes, Reports, Active, Trying
  <2>. QED BY <2>1, <2>2
<1>8. CASE att[r].phase \in {"report", "ended"}
  <2>1. att'[r].phase \in Told \cup {"dead"} /\ att'[r].phase # "ended" /\ Same(r)
    BY <1>8 DEF Move, Begins, Fails, Refreshes, Checks, Chooses, Publishes, Reports, Active, Trying
  <2>. QED BY <1>1, <1>2, <1>3, <1>4, <1>8, <2>1
<1>9. CASE att[r].phase = "record"
  <2>1. /\ att'[r].phase \in {"record", "ended", "report", "dead"} /\ Same(r)
        /\ att'[r].phase = "ended" => /\ att'[r].verdict = att[r].verdict
                                      /\ job'[r] = PersistedStatus[att[r].verdict] \/ ~att[r].inTry
    BY <1>9 DEF Move, Begins, Fails, Refreshes, Checks, Chooses, Publishes, Reports, Active, Trying
  <2>2. job'[r] = job[r] \/ job'[r] = PersistedStatus[att[r].verdict]
    BY <1>9 DEF Rows
  <2>3. quant' = quant /\ scan' = scan /\ (Covered(r) => Covered(r)')
    BY <1>1, <1>2, <1>3, <1>9, <2>1
  <2>4. att[r].verdict # Null
    BY <1>9 DEF ShapeOf
  <2>5. att[r].verdict \in {"SUCCEEDED", "NOOP"} => Covered(r)
    BY <1>9 DEF HonestOf
  <2>6. att[r].verdict \in {"WAITING", "UNAVAILABLE"} => quant[r] = Null /\ scan[r] = Null
    BY <1>9 DEF HonestOf
  <2>7. att[r].verdict \in {"SUCCEEDED", "NOOP", "WAITING"} => att[r].inTry
    BY <1>9 DEF HonestOf
  <2>8. /\ job'[r] = "SUCCEEDED" => Covered(r)'
        /\ job'[r] = "DEGRADED" => quant'[r] = Null /\ scan'[r] = Null
    BY <1>2, <1>3, <1>5, <1>9, <2>2, <2>3, <2>4, <2>5, <2>6
  <2>9. /\ att'[r].phase = "ended" /\ att'[r].verdict \in Good => job'[r] = "SUCCEEDED"
        /\ att'[r].phase = "ended" /\ att'[r].verdict = "WAITING" => job'[r] = "DEGRADED"
    BY <1>5, <2>1, <2>4, <2>7
  <2>. QED BY <2>1, <2>8, <2>9
<1>. QED BY <1>6, <1>7, <1>8, <1>9

LEMMA TimesNext ==
    ASSUME TypeOK, TypeOK', NewestExist, NEW r \in Attempt, HonestOf(r), TimesOf(r), Move(r), Rows(r)
    PROVE  TimesOf(r)'
<1>1. PICK c \in Nat, d \in Nat : c = clock /\ d = clock' /\ c <= d /\ d \in {c, c + 1}
  BY DEF TypeOK, Rows
<1>2. \A n \in Nat : n <= c => n <= d
  BY <1>1
<1>3. today' = today /\ today \in Nat
  BY ConstantsAssumption DEF Rows, TypeOK, Day
<1>4. PICK a \in State, b \in State : a = att[r] /\ b = att'[r]
  BY DEF TypeOK
<1>5. /\ a.at \in Nat /\ a.day \in Int /\ a.session \in Int /\ b.session \in Int /\ b.day \in Int
      /\ a.day \in Day
  BY <1>4 DEF State, Day
<1>6. b.at <= d /\ b.day <= today
  <2>1. CASE Begins(r)
    BY <1>1, <1>3, <1>4, <2>1 DEF Begins
  <2>2. CASE Keeps(r)
    BY <1>1, <1>2, <1>3, <1>4, <1>5, <2>2 DEF Keeps, TimesOf
  <2>. QED BY <2>1, <2>2 DEF Move, Fails, Refreshes, Checks, Chooses, Publishes, Reports,
                             Concludes, Same
<1>7. b.phase \in {"complete", "current", "quant", "approve", "scan", "publish"} =>
         b.session <= b.day /\ b.day - b.session <= 1
  <2>1. ASSUME b.session = a.session, b.day = a.day,
               a.phase \in {"complete", "current", "quant", "approve", "scan", "publish"}
        PROVE  b.session <= b.day /\ b.day - b.session <= 1
    BY <1>4, <2>1 DEF TimesOf
  <2>2. CASE Refreshes(r)
    BY <1>4, <2>2 DEF Refreshes, Concludes, Goes
  <2>3. CASE Chooses(r) \/ Publishes(r)
    BY <1>4, <2>1, <2>3 DEF Chooses, Publishes, Concludes, Goes, Same, Keeps
  <2>4. CASE Begins(r) \/ Fails(r) \/ Reports(r)
    BY <1>4, <2>4 DEF Begins, Fails, Reports, Concludes, Goes
  <2>5. CASE Checks(r)
    BY <1>4, <2>1, <2>5 DEF Checks, Goes, Same, Keeps
  <2>6. CASE Same(r) /\ (Goes(r, "preflight", "market") \/ Goes(r, "complete", "current"))
    BY <1>4, <2>1, <2>6 DEF Goes, Same, Keeps
  <2>7. CASE Same(r) /\ (att'[r].phase = "dead" \/ att'[r].phase = att[r].phase)
    BY <1>4, <2>1, <2>7 DEF Same, Keeps
  <2>. QED BY <2>2, <2>3, <2>4, <2>5, <2>6, <2>7 DEF Move
<1>8. quant'[r] # Null => /\ quant'[r].session <= quant'[r].day
                          /\ quant'[r].day <= today /\ quant'[r].at <= d
  <2>1. CASE quant' = quant
    <3>1. quant[r] # Null => quant[r].at \in Nat
      BY DEF TypeOK, Quant
    <3>. QED BY <1>1, <1>2, <2>1, <3>1 DEF TimesOf
  <2>2. CASE quant' # quant
    <3>1. /\ a.phase = "approve" /\ quant'[r].session = a.session
          /\ quant'[r].day = a.day /\ quant'[r].at = a.at
      BY <1>4, <2>2 DEF Rows
    <3>. QED BY <1>1, <1>2, <1>4, <1>5, <3>1 DEF TimesOf
  <2>. QED BY <2>1, <2>2
<1>9. scan'[r] # Null => scan'[r].at <= d
  <2>1. CASE scan' = scan
    <3>1. scan[r] # Null => scan[r].at \in Nat
      BY DEF TypeOK, Scan
    <3>. QED BY <1>1, <1>2, <2>1, <3>1 DEF TimesOf
  <2>2. CASE scan' # scan
    <3>1. scan'[r].at = c + 1 /\ d = c + 1
      BY <1>1, <2>2 DEF Rows
    <3>. QED BY <3>1
  <2>. QED BY <2>1, <2>2
<1>. QED BY <1>1, <1>3, <1>4, <1>6, <1>7, <1>8, <1>9 DEF TimesOf

\* A step publishes one row at most, so there still is a newest one.
LEMMA NewestNext ==
    ASSUME TypeOK, TypeOK', NewestExist, NEW r \in Attempt, HonestOf(r), Rows(r)
    PROVE  NewestExist'
<1>1. /\ \A o \in QuantRows : o \in QuantRows' /\ quant'[o] = quant[o]
      /\ \A o \in ScanRows : o \in ScanRows' /\ scan'[o] = scan[o]
      /\ \A o \in QuantRows' : o \in QuantRows \/ o = r
      /\ \A o \in ScanRows' : o \in ScanRows \/ o = r
  BY RowsStay
<1>2. /\ \A o \in QuantRows' : o \in Attempt /\ quant'[o].at \in Nat
      /\ \A o \in ScanRows' : o \in Attempt /\ scan'[o].at \in Nat /\ scan'[o].session \in Nat
  BY ConstantsAssumption DEF QuantRows, ScanRows, TypeOK, Quant, Scan, Day
<1>3. ASSUME QuantRows' # {} PROVE \E n \in Attempt : NewestQuant(n)'
  <2>1. CASE r \notin QuantRows' \/ QuantRows = {}
    <3>1. CASE QuantRows = {}
      <4>1. QuantRows' = {r}
        BY <1>1, <1>3, <3>1
      <4>2. quant'[r].at <= quant'[r].at
        BY <1>2, <4>1
      <4>. QED BY <4>1, <4>2 DEF NewestQuant
    <3>2. CASE QuantRows # {}
      <4>1. PICK n \in Attempt : NewestQuant(n)
        BY <3>2 DEF NewestExist
      <4>2. NewestQuant(n)'
        BY <1>1, <2>1, <3>2, <4>1 DEF NewestQuant
      <4>. QED BY <4>2
    <3>. QED BY <3>1, <3>2
  <2>2. CASE r \in QuantRows' /\ QuantRows # {}
    <3>1. PICK n \in Attempt : NewestQuant(n)
      BY <2>2 DEF NewestExist
    <3>2. n \in QuantRows' /\ \A o \in QuantRows : quant'[o].at <= quant'[n].at
      BY <1>1, <3>1 DEF NewestQuant
    <3>3. CASE quant'[r].at <= quant'[n].at
      BY <1>1, <3>2, <3>3 DEF NewestQuant
    <3>4. CASE quant'[n].at < quant'[r].at
      <4>1. \A o \in QuantRows : quant'[o].at <= quant'[r].at
        BY <1>1, <1>2, <2>2, <3>2, <3>4
      <4>2. quant'[r].at <= quant'[r].at
        BY <1>2, <2>2
      <4>3. NewestQuant(r)'
        BY <1>1, <2>2, <4>1, <4>2 DEF NewestQuant
      <4>. QED BY <4>3
    <3>. QED BY <1>2, <2>2, <3>2, <3>3, <3>4
  <2>. QED BY <2>1, <2>2
<1>4. ASSUME ScanRows' # {} PROVE \E n \in Attempt : NewestScan(n)'
  <2>1. CASE r \notin ScanRows' \/ ScanRows = {}
    <3>1. CASE ScanRows = {}
      <4>1. ScanRows' = {r}
        BY <1>1, <1>4, <3>1
      <4>2. NotOlder(scan'[r], scan'[r])
        BY <1>2, <4>1 DEF NotOlder
      <4>. QED BY <4>1, <4>2 DEF NewestScan
    <3>2. CASE ScanRows # {}
      <4>1. PICK n \in Attempt : NewestScan(n)
        BY <3>2 DEF NewestExist
      <4>2. NewestScan(n)'
        BY <1>1, <2>1, <3>2, <4>1 DEF NewestScan
      <4>. QED BY <4>2
    <3>. QED BY <3>1, <3>2
  <2>2. CASE r \in ScanRows' /\ ScanRows # {}
    <3>1. PICK n \in Attempt : NewestScan(n)
      BY <2>2 DEF NewestExist
    <3>2. n \in ScanRows' /\ \A o \in ScanRows : NotOlder(scan'[n], scan'[o])
      BY <1>1, <3>1 DEF NewestScan
    <3>3. CASE NotOlder(scan'[n], scan'[r])
      BY <1>1, <3>2, <3>3 DEF NewestScan
    <3>4. CASE ~NotOlder(scan'[n], scan'[r])
      <4>1. NotOlder(scan'[r], scan'[n]) /\ NotOlder(scan'[r], scan'[r])
        BY <1>2, <2>2, <3>2, <3>4 DEF NotOlder
      <4>2. \A o \in ScanRows : NotOlder(scan'[r], scan'[o])
        BY <1>1, <1>2, <2>2, <3>2, <4>1 DEF NotOlder
      <4>3. NewestScan(r)'
        BY <1>1, <2>2, <4>1, <4>2 DEF NewestScan
      <4>. QED BY <4>3
    <3>. QED BY <3>3, <3>4
  <2>. QED BY <2>1, <2>2
<1>. QED BY <1>3, <1>4 DEF NewestExist
----------------------------------------------------------------------------
(* One attempt at a time *)

\* While no lock is lost, who moves has the lock and nobody else works.
LEMMA Alone ==
    ASSUME NEW r \in Attempt, \A o \in Attempt : ShapeOf(o), Release, Move(r), Rows(r), LockHeld'
    PROVE  /\ LockHeld /\ \A o \in Attempt : ReleaseOf(o)
           /\ \A o \in Attempt \ {r} : ~Active(o) /\ ~Active(o)'
<1>1. ASSUME NEW o \in Attempt PROVE att[o].locked
  <2>1. CASE o # r
    BY <2>1 DEF LockHeld, Rows
  <2>2. CASE o = r
    <3>1. CASE Begins(r)
      BY <2>2, <3>1 DEF Begins, Goes, ShapeOf
    <3>2. CASE Keeps(r)
      BY <2>2, <3>2 DEF Keeps, LockHeld
    <3>. QED BY <3>1, <3>2 DEF Move, Fails, Refreshes, Checks, Chooses, Publishes, Reports,
                               Concludes, Same
  <2>. QED BY <2>1, <2>2
<1>2. LockHeld /\ \A o \in Attempt : ReleaseOf(o)
  BY <1>1 DEF LockHeld, Release
<1>3. ASSUME NEW o \in Attempt \ {r}, Active(o) PROVE FALSE
  <2>1. ~Active(r)
    BY <1>2, <1>3 DEF ReleaseOf
  <2>2. Begins(r)
    BY <2>1 DEF Move, Begins, Fails, Refreshes, Checks, Chooses, Publishes, Reports,
                Concludes, Goes, Active, Trying, Reporting
  <2>. QED BY <1>1, <1>3, <2>2 DEF Begins, LockIsFree
<1>4. \A o \in Attempt \ {r} : ~Active(o) /\ ~Active(o)'
  BY <1>3 DEF Active, Rows
<1>. QED BY <1>2, <1>4

\* A published scan stays proved, and rests on the same quant, as long as its
\* attempt says the same.
LEMMA ProvedStay ==
    ASSUME NEW r \in Attempt, HonestOf(r), Rows(r), NEW o \in Attempt,
           att'[o].session = att[o].session, att'[o].digest = att[o].digest,
           att'[o].quant = att[o].quant
    PROVE  /\ Proved(o) => Proved(o)'
           /\ Suits(o, att[o].quant) => Suits(o, att[o].quant)'
<1>1. /\ \A q \in QuantRows : q \in QuantRows' /\ quant'[q] = quant[q]
      /\ \A q \in ScanRows : q \in ScanRows' /\ scan'[q] = scan[q]
  BY RowsStay
<1>2. Proved(o) => Proved(o)'
  BY <1>1 DEF Proved
<1>3. Suits(o, att[o].quant) => Suits(o, att[o].quant)'
  BY <1>1 DEF Suits
<1>. QED BY <1>2, <1>3

\* What is said of the release of an attempt that does not work.
LEMMA OthersRelease ==
    ASSUME NEW r \in Attempt, HonestOf(r), Rows(r), NEW o \in Attempt \ {r},
           ReleaseOf(o), ~Active(o)
    PROVE  ReleaseOf(o)'
<1>1. att'[o] = att[o] /\ scan'[o] = scan[o] /\ ~Active(o)'
  BY DEF Rows, Active
<1>2. att[o].phase \notin Trying /\ att'[o].phase \notin Trying
  BY <1>1 DEF Active
<1>3. Proved(o) => Proved(o)'
  BY <1>1, ProvedStay
<1>4. \A q \in QuantRows : q \in QuantRows' /\ quant'[q] = quant[q]
  BY RowsStay
<1>5. scan'[o] # Null =>
          LET q == scan'[o].quant IN
          /\ q \in QuantRows'
          /\ quant'[q].session = scan'[o].session /\ quant'[q].digest = att'[o].digest
          /\ scan'[o].digest = att'[o].digest /\ att'[o].quant = q
  BY <1>1, <1>4 DEF ReleaseOf
<1>6. att'[o].phase \in Told \cup {"outcomes"} /\ att'[o].verdict \in Good => Proved(o)'
  BY <1>1, <1>3 DEF ReleaseOf
<1>. QED BY <1>1, <1>2, <1>5, <1>6 DEF ReleaseOf, Trying
LEMMA ReleaseNext ==
    ASSUME TypeOK, TypeOK', NewestExist, NEW r \in Attempt,
           \A o \in Attempt : ShapeOf(o) /\ HonestOf(o) /\ TimesOf(o),
           Release, Move(r), Rows(r), LockHeld'
    PROVE  ReleaseOf(r)'
<1>1. /\ LockHeld /\ ReleaseOf(r)
      /\ \A o \in Attempt \ {r} : ~Active(o) /\ ~Active(o)'
  BY Alone
<1>2. /\ \A o \in QuantRows : o \in QuantRows' /\ quant'[o] = quant[o]
      /\ \A o \in ScanRows : o \in ScanRows' /\ scan'[o] = scan[o]
      /\ \A o \in QuantRows' : o \in QuantRows \/ o = r
      /\ \A o \in ScanRows' : o \in ScanRows \/ o = r
  BY RowsStay
<1>3. /\ \A o \in QuantRows : o \in Attempt /\ quant[o].at \in Nat
      /\ \A o \in QuantRows' : o \in Attempt /\ quant'[o].at \in Nat
  BY DEF QuantRows, TypeOK, Quant
<1>4. /\ att[r].phase # "approve" => quant' = quant
      /\ att[r].phase # "publish" => scan' = scan
  BY DEF Rows
<1>5. quant' # quant => /\ att[r].phase = "approve" /\ att'[r].phase \in {"scan", "report"}
                        /\ quant'[r].session = att[r].session /\ quant'[r].digest = att[r].digest
                        /\ quant'[r].day = att[r].day /\ quant'[r].at = att[r].at
  BY DEF Rows
<1>6. scan' # scan => /\ att[r].phase = "publish" /\ att'[r].phase \in {"outcomes", "report"}
                      /\ scan'[r].session = att[r].session /\ scan'[r].quant = att[r].basis
                      /\ scan'[r].digest = quant[att[r].basis].digest
  BY DEF Rows
\* A step of an attempt that works and goes on keeps its digest, time and day.
<1>7. Begins(r) \/ (Active(r) /\ Keeps(r))
  BY DEF Move, Fails, Refreshes, Checks, Chooses, Publishes, Reports, Concludes, Same, Goes,
         Active, Trying, Reporting
<1>8. Active(r)' => \A o \in Attempt : Active(o)' => o = r
  BY <1>1
<1>9. ASSUME NEW q \in QuantRows'
      PROVE  quant'[q].day <= att'[r].day /\ (q # r => quant'[q].at < att'[r].at)
  <2>1. CASE Begins(r)
    <3>1. q \in QuantRows /\ quant'[q] = quant[q] /\ q \in Attempt
      BY <1>2, <1>3, <1>4, <2>1 DEF Begins, Goes, QuantRows
    <3>2. quant[q].day <= today /\ quant[q].at <= clock /\ clock \in Nat
      BY <3>1 DEF TimesOf, QuantRows, TypeOK
    <3>3. quant[q].at < clock + 1
      BY <1>3, <3>1, <3>2
    <3>. QED BY <2>1, <3>1, <3>2, <3>3 DEF Begins
  <2>2. CASE Active(r) /\ Keeps(r)
    <3>1. att'[r].at = att[r].at /\ att'[r].day = att[r].day
      BY <2>2 DEF Keeps
    <3>2. CASE q \in QuantRows
      BY <1>1, <1>2, <2>2, <3>1, <3>2 DEF ReleaseOf
    <3>3. CASE q \notin QuantRows
      <4>1. q = r /\ quant' # quant
        BY <1>2, <3>3 DEF QuantRows
      <4>2. att[r].day \in Nat
        BY ConstantsAssumption DEF TypeOK, State, Day
      <4>. QED BY <1>5, <3>1, <4>1, <4>2
    <3>. QED BY <3>2, <3>3
  <2>. QED BY <1>7, <2>1, <2>2
<1>10. att'[r].phase = "scan" => Suits(r, att[r].quant)' /\ ActiveQuant' = att'[r].quant
  <2>1. ASSUME Goes(r, "quant", "scan"), Keeps(r), att'[r].session = att[r].session,
               QuantIsReusable(r), att'[r].quant = ActiveQuant
        PROVE  Suits(r, att[r].quant)' /\ ActiveQuant' = att'[r].quant
    <3>1. quant' = quant
      BY <1>4, <2>1 DEF Goes
    <3>2. ActiveQuant \in QuantRows
      BY <2>1, ActiveRows DEF QuantIsReusable, NewestQuant
    <3>3. ActiveQuant' = ActiveQuant
      BY <3>1 DEF ActiveQuant, QuantRows
    <3>. QED BY <2>1, <3>1, <3>2, <3>3 DEF Suits, QuantIsReusable, Keeps, QuantRows
  <2>2. ASSUME Goes(r, "approve", "scan"), Keeps(r), att'[r].session = att[r].session,
               att'[r].quant = r, quant'[r] # Null
        PROVE  Suits(r, att[r].quant)' /\ ActiveQuant' = att'[r].quant
    <3>1. quant' # quant
      BY <2>2 DEF HonestOf, Early, Goes
    <3>2. r \in QuantRows'
      BY <2>2 DEF QuantRows
    <3>3. \A o \in QuantRows' : quant'[o].at <= quant'[r].at /\ (o # r => quant'[o].at < quant'[r].at)
      BY <1>3, <1>5, <1>9, <2>2, <3>1, <3>2 DEF Keeps
    <3>4. \A n \in QuantRows' : (\A o \in QuantRows' : quant'[o].at <= quant'[n].at) => n = r
      BY <1>3, <3>2, <3>3
    <3>5. ActiveQuant' = r
      BY <3>2, <3>3, <3>4 DEF ActiveQuant
    <3>. QED BY <1>5, <2>2, <3>1, <3>2, <3>5 DEF Suits, Keeps
  <2>3. ASSUME att[r].phase = "scan", att'[r].phase = "scan", Same(r)
        PROVE  Suits(r, att[r].quant)' /\ ActiveQuant' = att'[r].quant
    <3>1. quant' = quant
      BY <1>4, <2>3
    <3>2. Suits(r, att[r].quant)' /\ ActiveQuant = att[r].quant
      BY <1>1, <2>3, ProvedStay DEF ReleaseOf, Same, Keeps
    <3>3. ActiveQuant' = ActiveQuant
      BY <3>1 DEF ActiveQuant, QuantRows
    <3>. QED BY <2>3, <3>2, <3>3 DEF Same, Suits
  <2>. QED BY <2>1, <2>2, <2>3 DEF Move, Begins, Fails, Refreshes, Checks, Chooses, Publishes,
                                   Reports, Concludes, Goes
<1>11. att'[r].phase = "publish" => Suits(r, att[r].quant)' /\ att'[r].basis = att'[r].quant
  <2>1. ASSUME Goes(r, "scan", "publish"), Keeps(r), att'[r].session = att[r].session,
               att'[r].quant = att[r].quant, att'[r].basis = ActiveQuant
        PROVE  Suits(r, att[r].quant)' /\ att'[r].basis = att'[r].quant
    <3>1. Suits(r, att[r].quant)' /\ ActiveQuant = att[r].quant
      BY <1>1, <2>1, ProvedStay DEF ReleaseOf, Keeps, Goes
    <3>. QED BY <2>1, <3>1 DEF Suits
  <2>2. ASSUME att[r].phase = "publish", att'[r].phase = "publish", Same(r)
        PROVE  Suits(r, att[r].quant)' /\ att'[r].basis = att'[r].quant
    <3>1. Suits(r, att[r].quant)' /\ att[r].basis = att[r].quant
      BY <1>1, <2>2, ProvedStay DEF ReleaseOf, Same, Keeps
    <3>. QED BY <2>2, <3>1 DEF Same, Suits
  <2>. QED BY <2>1, <2>2 DEF Move, Begins, Fails, Refreshes, Checks, Chooses, Publishes,
                             Reports, Concludes, Goes
<1>12. att'[r].phase \in {"quant", "approve", "scan", "publish"} => ~ScanIsCurrent(r)'
  <2>1. ASSUME scan' = scan, att'[r].session = att[r].session, att'[r].digest = att[r].digest,
               ~ScanIsCurrent(r)
        PROVE  ~ScanIsCurrent(r)'
    <3>1. ActiveScan' = ActiveScan
      BY <2>1 DEF ActiveScan, ScanRows
    <3>. QED BY <2>1, <3>1 DEF ScanIsCurrent
  <2>2. att'[r].phase \in {"quant", "approve", "scan", "publish"} =>
           /\ att[r].phase \in {"current", "quant", "approve", "scan", "publish"}
           /\ att'[r].session = att[r].session /\ att'[r].digest = att[r].digest
           /\ att[r].phase = "current" => ~ScanIsCurrent(r)
    BY DEF Move, Begins, Fails, Refreshes, Checks, Chooses, Publishes, Reports, Concludes, Goes,
           Same, Keeps
  <2>3. att'[r].phase \in {"quant", "approve", "scan", "publish"} => scan' = scan
    BY <1>6
  <2>. QED BY <1>1, <2>1, <2>2, <2>3 DEF ReleaseOf
<1>13. att'[r].phase = "approve" => ~QuantIsReusable(r)'
  <2>1. ASSUME quant' = quant, att'[r].session = att[r].session, att'[r].digest = att[r].digest,
               ~QuantIsReusable(r)
        PROVE  ~QuantIsReusable(r)'
    <3>1. ActiveQuant' = ActiveQuant
      BY <2>1 DEF ActiveQuant, QuantRows
    <3>. QED BY <2>1, <3>1 DEF QuantIsReusable
  <2>2. att'[r].phase = "approve" =>
           /\ att[r].phase \in {"quant", "approve"}
           /\ att'[r].session = att[r].session /\ att'[r].digest = att[r].digest
           /\ att[r].phase = "quant" => ~QuantIsReusable(r)
    BY DEF Move, Begins, Fails, Refreshes, Checks, Chooses, Publishes, Reports, Concludes, Goes,
           Same, Keeps
  <2>3. att'[r].phase = "approve" => quant' = quant
    BY <1>5
  <2>. QED BY <1>1, <2>1, <2>2, <2>3 DEF ReleaseOf
<1>14. scan'[r] # Null =>
          LET q == scan'[r].quant IN
          /\ q \in QuantRows'
          /\ quant'[q].session = scan'[r].session /\ quant'[q].digest = att'[r].digest
          /\ scan'[r].digest = att'[r].digest /\ att'[r].quant = q
  <2>1. CASE scan' # scan
    <3>1. att'[r].quant = att[r].quant /\ att'[r].digest = att[r].digest
      BY <1>6, <2>1 DEF Move, Begins, Fails, Refreshes, Checks, Chooses, Publishes, Reports,
                        Concludes, Goes, Same, Keeps
    <3>2. Suits(r, att[r].quant) /\ att[r].basis = att[r].quant
      BY <1>1, <1>6, <2>1 DEF ReleaseOf
    <3>. QED BY <1>2, <1>6, <2>1, <3>1, <3>2 DEF Suits
  <2>2. CASE scan' = scan /\ scan[r] # Null
    <3>1. att[r].phase \in Late
      BY <2>2 DEF HonestOf
    <3>2. att'[r].quant = att[r].quant /\ att'[r].digest = att[r].digest
      BY <3>1 DEF Move, Begins, Fails, Refreshes, Checks, Chooses, Publishes, Reports,
                  Concludes, Goes, Same, Keeps, Late
    <3>. QED BY <1>1, <1>2, <2>2, <3>2 DEF ReleaseOf
  <2>. QED BY <2>1, <2>2
<1>15. att'[r].phase \in Told \cup {"outcomes"} /\ att'[r].verdict \in Good => Proved(r)'
  <2>1. ASSUME att[r].phase \in Told \cup {"outcomes"}, att[r].verdict \in Good,
               Same(r)
        PROVE  Proved(r)'
    BY <1>1, <2>1, ProvedStay DEF ReleaseOf, Same, Keeps
  <2>2. ASSUME Goes(r, "current", "outcomes"), Keeps(r), att'[r].session = att[r].session,
               ScanIsCurrent(r), att'[r].quant = scan[ActiveScan].quant
        PROVE  Proved(r)'
    <3>1. ActiveScan \in ScanRows
      BY <2>2, ActiveRows DEF ScanIsCurrent, NewestScan
    <3>. QED BY <1>2, <2>2, <3>1 DEF Proved, ScanIsCurrent, Keeps
  <2>3. ASSUME Goes(r, "publish", "outcomes"), Same(r), scan'[r] # Null PROVE Proved(r)'
    <3>1. scan' # scan
      BY <2>3 DEF HonestOf, Late, Goes
    <3>2. r \in ScanRows'
      BY <2>3 DEF ScanRows
    <3>3. Suits(r, att[r].quant) /\ att[r].basis = att[r].quant
      BY <1>1, <2>3 DEF ReleaseOf, Goes
    <3>. QED BY <1>6, <2>3, <3>1, <3>2, <3>3 DEF Proved, Suits, Same, Keeps
  <2>. QED BY <2>1, <2>2, <2>3 DEF Move, Begins, Fails, Refreshes, Checks, Chooses, Publishes,
                 Reports, Concludes, Goes, Told, Reporting, Good, Trying
<1>. QED BY <1>8, <1>9, <1>10, <1>11, <1>12, <1>13, <1>14, <1>15 DEF ReleaseOf
\* A new row has another one between it and the last of its kind.
LEMMA RepublicationNext ==
    ASSUME TypeOK, TypeOK', NewestExist, NEW r \in Attempt,
           \A o \in Attempt : ShapeOf(o) /\ HonestOf(o) /\ TimesOf(o),
           Release, NoNeedlessRepublication, Move(r), Rows(r)
    PROVE  NoNeedlessRepublication'
<1>. SUFFICES ASSUME LockHeld' PROVE NoNeedlessRepublication'
  BY DEF NoNeedlessRepublication
<1>1. LockHeld /\ ReleaseOf(r)
  BY Alone
<1>2. /\ \A o \in QuantRows : o \in QuantRows' /\ quant'[o] = quant[o]
      /\ \A o \in ScanRows : o \in ScanRows' /\ scan'[o] = scan[o]
      /\ \A o \in QuantRows' : o \in QuantRows \/ o = r
      /\ \A o \in ScanRows' : o \in ScanRows \/ o = r
  BY RowsStay
<1>3. /\ \A o \in QuantRows : o \in Attempt /\ quant[o].at \in Nat
      /\ \A o \in QuantRows' : o \in Attempt /\ quant'[o].at \in Nat
      /\ \A o \in ScanRows : o \in Attempt /\ scan[o].at \in Nat
      /\ clock \in Nat
  BY DEF QuantRows, ScanRows, TypeOK, Quant, Scan
<1>4. ASSUME NEW p \in ScanRows', NEW s \in ScanRows',
             scan'[p].at < scan'[s].at, scan'[p].session = scan'[s].session,
             scan'[p].digest = scan'[s].digest
      PROVE  \E o \in ScanRows' :
                /\ scan'[o].at < scan'[s].at
                /\ NotOlder(scan'[o], scan'[p])
                /\ <<scan'[o].session, scan'[o].digest>> # <<scan'[p].session, scan'[p].digest>>
  <2>1. CASE p \in ScanRows /\ s \in ScanRows
    <3>1. \E o \in ScanRows :
             /\ scan[o].at < scan[s].at
             /\ NotOlder(scan[o], scan[p])
             /\ <<scan[o].session, scan[o].digest>> # <<scan[p].session, scan[p].digest>>
      BY <1>1, <1>2, <1>4, <2>1 DEF NoNeedlessRepublication
    <3>. QED BY <1>2, <2>1, <3>1
  <2>2. CASE ~(p \in ScanRows /\ s \in ScanRows)
    <3>1. r \notin ScanRows /\ scan'[r] # scan[r]
      BY <1>2, <1>4, <2>2 DEF ScanRows
    <3>2. /\ att[r].phase = "publish" /\ scan'[r].session = att[r].session
          /\ scan'[r].digest = quant[att[r].basis].digest /\ scan'[r].at = clock + 1
      BY <3>1 DEF Rows
    <3>3. \A o \in ScanRows : scan[o].at < clock + 1
      BY <1>3 DEF TimesOf, ScanRows
    <3>4. s = r /\ p \in ScanRows
      BY <1>2, <1>3, <1>4, <2>2, <3>2, <3>3
    <3>5. ~ScanIsCurrent(r) /\ Suits(r, att[r].basis)
      BY <1>1, <3>2 DEF ReleaseOf
    <3>6. ActiveScan \in ScanRows /\ NotOlder(scan[ActiveScan], scan[p]) /\ ActiveScan # Null
      BY <3>4, ActiveRows DEF NewestScan
    <3>7. /\ scan[p].session = att[r].session /\ scan[p].digest = att[r].digest
          /\ ~(scan[ActiveScan].session = att[r].session /\ scan[ActiveScan].digest = att[r].digest)
      BY <1>2, <1>4, <3>2, <3>4, <3>5, <3>6 DEF ScanIsCurrent, Suits
    <3>8. <<scan[ActiveScan].session, scan[ActiveScan].digest>> # <<scan[p].session, scan[p].digest>>
      BY <3>7
    <3>. QED BY <1>2, <3>2, <3>3, <3>4, <3>6, <3>8
  <2>. QED BY <2>1, <2>2
<1>5. ASSUME NEW p \in QuantRows', NEW s \in QuantRows',
             quant'[p].at < quant'[s].at, quant'[p].session = quant'[s].session,
             quant'[p].digest = quant'[s].digest
      PROVE  \E o \in QuantRows' :
                /\ quant'[o].at \in quant'[p].at .. quant'[s].at
                /\ <<quant'[o].session, quant'[o].digest>> # <<quant'[p].session, quant'[p].digest>>
  <2>1. CASE p \in QuantRows /\ s \in QuantRows
    <3>1. \E o \in QuantRows :
             /\ quant[o].at \in quant[p].at .. quant[s].at
             /\ <<quant[o].session, quant[o].digest>> # <<quant[p].session, quant[p].digest>>
      BY <1>1, <1>2, <1>4, <1>5, <2>1 DEF NoNeedlessRepublication
    <3>. QED BY <1>2, <2>1, <3>1
  <2>2. CASE ~(p \in QuantRows /\ s \in QuantRows)
    <3>1. r \notin QuantRows /\ quant'[r] # quant[r]
      BY <1>2, <1>5, <2>2 DEF QuantRows
    <3>2. /\ att[r].phase = "approve" /\ quant'[r].session = att[r].session
          /\ quant'[r].digest = att[r].digest /\ quant'[r].at = att[r].at
      BY <3>1 DEF Rows
    <3>3. \A o \in QuantRows : quant[o].at < att[r].at
      BY <1>1, <3>1, <3>2 DEF ReleaseOf, Active, Trying
    <3>4. PICK t \in Nat : t = att[r].at
      BY DEF TypeOK, State
    <3>5. s = r /\ p \in QuantRows
      BY <1>2, <1>3, <1>5, <2>2, <3>2, <3>3, <3>4
    <3>6. ~QuantIsReusable(r)
      BY <1>1, <3>2 DEF ReleaseOf
    <3>7. ActiveQuant \in QuantRows /\ quant[p].at <= quant[ActiveQuant].at /\ ActiveQuant # Null
      BY <3>5, ActiveRows DEF NewestQuant
    <3>8. quant[ActiveQuant].at \in quant[p].at .. t
      BY <1>3, <3>3, <3>4, <3>5, <3>7
    <3>9. <<quant[ActiveQuant].session, quant[ActiveQuant].digest>>
             # <<quant[p].session, quant[p].digest>>
      BY <1>2, <1>5, <3>2, <3>5, <3>6, <3>7 DEF QuantIsReusable
    <3>. QED BY <1>2, <3>2, <3>4, <3>5, <3>7, <3>8, <3>9
  <2>. QED BY <2>1, <2>2
<1>. QED BY <1>4, <1>5 DEF NoNeedlessRepublication

----------------------------------------------------------------------------
(* Theorems *)

LEMMA EverythingStarts ==
    ASSUME Init
    PROVE  Everything
<1>1. TypeOK
  <2>1. Idle \in State
    <3>1. /\ 0 \in Day /\ 0 \in Nat
          /\ "idle" \in Trying \cup Reporting \cup {"idle", "ended", "dead"}
      BY ConstantsAssumption DEF Day
    <3>. QED BY Zenon, <3>1 DEF Idle, State
  <2>2. 0 \in Day
    BY ConstantsAssumption DEF Day
  <2>. QED BY <2>1, <2>2 DEF Init, TypeOK
<1>2. QuantRows = {} /\ ScanRows = {}
  BY DEF Init, QuantRows, ScanRows
<1>3. ASSUME NEW r \in Attempt
      PROVE  /\ att[r].phase = "idle" /\ att[r].locked /\ att[r].at = 0 /\ att[r].day = 0
             /\ quant[r] = Null /\ scan[r] = Null /\ job[r] = Null
             /\ clock = 0 /\ today = 0
  BY DEF Init, Idle
<1>5. ASSUME NEW r \in Attempt PROVE ShapeOf(r)
  BY <1>3 DEF ShapeOf, Told, Reporting
<1>6. ASSUME NEW r \in Attempt PROVE HonestOf(r)
  BY <1>3 DEF HonestOf, Told, Reporting
<1>7. ASSUME NEW r \in Attempt PROVE JobOf(r)
  <2>1. job[r] # "DEGRADED" /\ job[r] # "SUCCEEDED" /\ att[r].phase = "idle"
    BY <1>3, ConstantsAssumption DEF Init
  <2>. QED BY <2>1 DEF JobOf
<1>8. ASSUME NEW r \in Attempt PROVE TimesOf(r)
  BY <1>3 DEF TimesOf
<1>9. ASSUME NEW r \in Attempt PROVE ReleaseOf(r)
  BY <1>3 DEF ReleaseOf, Active, Trying, Reporting, Told
<1>10. NewestExist
  BY <1>2 DEF NewestExist
<1>11. NoNeedlessRepublication
  BY <1>2 DEF NoNeedlessRepublication
<1>. QED BY <1>1, <1>5, <1>6, <1>7, <1>8, <1>9, <1>10, <1>11
         DEF Everything, Shape, Honest, Jobs, Times, Release

\* A day that passes, an import that completes, and a step of something else.
LEMMA EverythingWaits ==
    ASSUME Everything, NewDay \/ ImportFilings \/ UNCHANGED dailyVars
    PROVE  Everything'
<1>1. /\ clock' = clock /\ bars' = bars /\ completed' = completed /\ quant' = quant
      /\ scan' = scan /\ job' = job /\ file' = file /\ att' = att /\ faults' = faults
  BY DEF NewDay, ImportFilings, dailyVars, snapshots
<1>2. today \in Nat /\ today' \in Day /\ today' \in Nat /\ today <= today' /\ imports' \in Nat
  <2>1. PICK t \in Nat, i \in Nat : t = today /\ i = imports /\ t <= MaxDay /\ MaxDay \in Nat
    BY ConstantsAssumption DEF Everything, TypeOK, Day
  <2>2. (today' = t + 1 /\ t < MaxDay) \/ today' = t
    BY <2>1 DEF NewDay, ImportFilings, dailyVars
  <2>3. imports' = i + 1 \/ imports' = i
    BY <2>1 DEF NewDay, ImportFilings, dailyVars
  <2>. QED BY <2>1, <2>2, <2>3 DEF Day
<1>3. TypeOK'
  BY <1>1, <1>2 DEF Everything, TypeOK
<1>4. QuantRows' = QuantRows /\ ScanRows' = ScanRows
  BY <1>1 DEF QuantRows, ScanRows
<1>5. Shape'
  BY <1>1, <1>4 DEF Everything, Shape, ShapeOf
<1>6. Honest' /\ Jobs'
  BY <1>1, <1>4 DEF Everything, Honest, HonestOf, Jobs, JobOf, Covered
<1>7. Times'
  <2>1. ASSUME NEW r \in Attempt PROVE TimesOf(r)'
    <3>1. att[r].day \in Nat /\ (quant[r] # Null => quant[r].day \in Nat)
      BY ConstantsAssumption DEF Everything, TypeOK, State, Quant, Day
    <3>. QED BY <1>1, <1>2, <3>1 DEF Everything, Times, TimesOf
  <2>. QED BY <2>1 DEF Times
<1>8. NewestExist'
  BY <1>1, <1>4 DEF Everything, NewestExist, NewestQuant, NewestScan
<1>9. ActiveQuant' = ActiveQuant /\ ActiveScan' = ActiveScan
  BY <1>1, <1>4 DEF ActiveQuant, ActiveScan
<1>10. Release'
  BY <1>1, <1>4, <1>9 DEF Everything, Release, ReleaseOf, LockHeld, Active, Suits, Proved,
                          ScanIsCurrent, QuantIsReusable
<1>11. NoNeedlessRepublication'
  BY <1>1, <1>4 DEF Everything, NoNeedlessRepublication, LockHeld
<1>. QED BY <1>3, <1>5, <1>6, <1>7, <1>8, <1>10, <1>11 DEF Everything

LEMMA EverythingNext ==
    ASSUME Everything, [Next]_dailyVars
    PROVE  Everything'
<1>1. ASSUME NEW r \in Attempt, StepOf(r) PROVE Everything'
  <2>1. /\ TypeOK /\ NewestExist /\ Release /\ NoNeedlessRepublication
        /\ \A o \in Attempt : ShapeOf(o) /\ HonestOf(o) /\ JobOf(o) /\ TimesOf(o)
    BY DEF Everything, Shape, Honest, Jobs, Times
  <2>2. Move(r) /\ Rows(r)
    BY <1>1, <2>1, StepMoves, StepRows
  <2>3. TypeOK'
    BY <1>1, <2>1, StepTypes
  <2>4. NewestExist'
    BY <2>1, <2>2, <2>3, NewestNext
  <2>5. ShapeOf(r)' /\ HonestOf(r)' /\ JobOf(r)' /\ TimesOf(r)'
    BY <2>1, <2>2, <2>3, ShapeNext, HonestNext, JobNext, TimesNext
  <2>6. ASSUME NEW o \in Attempt \ {r}
        PROVE  ShapeOf(o)' /\ HonestOf(o)' /\ JobOf(o)' /\ TimesOf(o)'
    BY <2>1, <2>2, OthersKept
  <2>7. Shape' /\ Honest' /\ Jobs' /\ Times'
    BY <2>5, <2>6 DEF Shape, Honest, Jobs, Times
  <2>8. ASSUME LockHeld' PROVE \A o \in Attempt : ReleaseOf(o)'
    <3>1. /\ \A o \in Attempt : ReleaseOf(o)
          /\ \A o \in Attempt \ {r} : ~Active(o)
      BY <2>1, <2>2, <2>8, Alone
    <3>2. ReleaseOf(r)'
      BY <2>1, <2>2, <2>3, <2>8, ReleaseNext
    <3>3. ASSUME NEW o \in Attempt \ {r} PROVE ReleaseOf(o)'
      BY <2>1, <2>2, <3>1, OthersRelease
    <3>. QED BY <3>2, <3>3
  <2>9. Release'
    BY <2>8 DEF Release
  <2>10. NoNeedlessRepublication'
    BY <2>1, <2>2, <2>3, RepublicationNext
  <2>. QED BY <2>3, <2>4, <2>7, <2>9, <2>10 DEF Everything
<1>. QED BY <1>1, EverythingWaits DEF Next, StepOf

\* The strengthening of everything below, as an invariant of the model.
THEOREM DailyInvariant == Spec => []Everything
BY EverythingStarts, EverythingNext, PTL DEF Spec

\* Every column of the four tables and every local variable of an attempt of
\* run_daily_research holds a value of its type, also after faults.
THEOREM DailyTypeCorrect == Spec => []TypeOK
<1>1. Everything => TypeOK
  BY DEF Everything
<1>. QED BY <1>1, DailyInvariant, PTL

\* Whatever failed on the way, what an attempt of run_daily_research says of
\* itself in its exit code, its report and its job row is what it published.
THEOREM AttemptsAreHonest == Spec => []AttemptIsHonest
<1>1. ASSUME Everything PROVE AttemptIsHonest
  <2>1. ASSUME NEW r \in Attempt PROVE HonestOf(r) /\ JobOf(r) /\ ShapeOf(r)
    BY <1>1 DEF Everything, Honest, Jobs, Shape
  <2>2. GatesPublishNothing
    BY <2>1 DEF GatesPublishNothing, Reached, HonestOf, Told, Reporting
  <2>3. ASSUME NEW r \in Attempt, att[r].phase = "ended"
        PROVE  /\ ExitCode[att[r].verdict] = 0 => att[r].verdict \in Good
               /\ ExitCode[att[r].verdict] = 10 => att[r].verdict = "WAITING"
    <3>1. att[r].verdict \in Verdict
      BY <1>1, <2>1, <2>3 DEF Everything, ShapeOf, Told, TypeOK, State
    <3>. QED BY <3>1 DEF ExitCode, Verdict, Good
  <2>4. ASSUME NEW r \in Attempt
        PROVE  /\ Exit(r) = 0 => att[r].phase = "ended" /\ att[r].verdict \in Good
               /\ Exit(r) = 10 => att[r].phase = "ended" /\ att[r].verdict = "WAITING"
    BY <2>3 DEF Exit
  <2>5. JobRowIsHonest
    BY <2>1, <2>4 DEF JobRowIsHonest, JobOf, Covered
  <2>6. ASSUME NEW r \in Attempt, Exit(r) = 0
        PROVE  /\ file[r] = att[r].verdict
               /\ LockHeld => Proved(r)
    BY <1>1, <2>1, <2>4, <2>6 DEF HonestOf, Everything, Release, ReleaseOf, Told
  <2>7. SuccessIsPublished
    BY <2>6 DEF SuccessIsPublished, Proved
  <2>. QED BY <2>2, <2>5, <2>7 DEF AttemptIsHonest
<1>. QED BY <1>1, DailyInvariant, PTL

\* While no production lock was lost, from the choice of a quant to the
\* published scan one release is meant, and build_full_lq45_scan finds it fresh
\* enough, also when the quant is left from the attempt of the day before.
THEOREM ReleasesAreCoherent == Spec => []ReleaseIsCoherent
<1>1. ASSUME Everything PROVE ReleaseIsCoherent
  <2>1. ASSUME NEW r \in Attempt, LockHeld PROVE ReleaseOf(r)
    BY <1>1, <2>1 DEF Everything, Release
  <2>2. ASSUME LockHeld, NEW r \in Attempt, att[r].phase = "scan"
        PROVE  ActiveQuant = att[r].quant /\ Fresh(ActiveQuant, att[r].day)
    <3>1. Suits(r, att[r].quant) /\ ActiveQuant = att[r].quant /\ Active(r)
      BY <2>1, <2>2 DEF ReleaseOf, Active, Trying
    <3>2. PICK q \in Attempt : q = ActiveQuant /\ q \in QuantRows
      BY <3>1 DEF Suits, QuantRows
    <3>3. quant[q].session = att[r].session /\ quant[q].day <= att[r].day
      BY <2>1, <2>2, <3>1, <3>2 DEF ReleaseOf, Suits
    <3>4. /\ att[r].session <= att[r].day /\ att[r].day - att[r].session <= 1
          /\ quant[q].session <= quant[q].day
      BY <1>1, <2>2, <3>2 DEF Everything, Times, TimesOf, QuantRows
    <3>5. /\ att[r].day \in Int /\ att[r].session \in Int /\ quant[q].day \in Int
          /\ quant[q].session \in Int /\ MaxQuantAge \in Int /\ MaxQuantAge >= 1
      BY <1>1, <3>2, ConstantsAssumption DEF Everything, TypeOK, State, Quant, QuantRows, Day
    <3>6. att[r].day - quant[q].day <= MaxQuantAge
      BY <3>3, <3>4, <3>5
    <3>. QED BY <3>1, <3>2, <3>3, <3>6 DEF Fresh
  <2>3. ChosenQuantIsFresh
    BY <2>2 DEF ChosenQuantIsFresh
  <2>4. ScanRestsOnItsRelease
    BY <2>1 DEF ScanRestsOnItsRelease, ReleaseOf, ScanRows, QuantRows
  <2>. QED BY <2>3, <2>4 DEF ReleaseIsCoherent
<1>. QED BY <1>1, DailyInvariant, PTL

\* While no production lock was lost, retries of run_daily_research publish no
\* second scan and no second quant of a session and calculation unless another
\* one took the place of the first.
THEOREM RetriesPublishOnce == Spec => []NoNeedlessRepublication
<1>1. Everything => NoNeedlessRepublication
  BY DEF Everything
<1>. QED BY <1>1, DailyInvariant, PTL
=============================================================================
