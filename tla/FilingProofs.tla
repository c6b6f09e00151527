---------------------------- MODULE FilingProofs ----------------------------
(***************************************************************************)
(* Machine-checked proofs about FilingLedger, for any number of filings,   *)
(* documents, runs and attempts and any lease term, and about              *)
(* FilingImporter, whose workers use it, for any number of workers, rows,  *)
(* failures and restarts.                                                  *)
(***************************************************************************)
EXTENDS FilingImporter, FiniteSetTheorems, SequenceTheorems, TLAPS

USE DEF Terminal, Outcome, NoToken, Resting

----------------------------------------------------------------------------
(* Types *)

\* The attempt budget is a positive number.
LEMMA Budget == MaxAttempts \in Nat \ {0}
  BY ConstantsAssumption

\* Finishing the open attempt of a lease keeps the attempts well typed.
LEMMA FinishType ==
    ASSUME TypeOK, NEW f \in Filing, NEW t, NEW outcome \in Outcome,
           NEW error \in Error \cup {Null}, NEW c \in Checksum \cup {Null}
    PROVE  Finish(f, t, outcome, error, c) \in [Token -> Attempt \cup {Null}]
<1> SUFFICES ASSUME NEW n \in Token
             PROVE  Finish(f, t, outcome, error, c)[n] \in Attempt \cup {Null}
  BY DEF Finish
<1>1. attempt[f][n] \in Attempt \cup {Null}
  BY DEF TypeOK
<1>2. CASE attempt[f][n] = Null
  BY <1>2 DEF Finish
<1>3. CASE attempt[f][n] # Null
  <2>1. attempt[f][n] \in Attempt
    BY <1>1, <1>3
  <2>2. [attempt[f][n] EXCEPT !.outcome = outcome, !.error = error, !.artifact = c] \in Attempt
    BY <2>1 DEF Attempt
  <2>. QED BY <2>1, <2>2 DEF Finish
<1>. QED BY <1>2, <1>3

\* What is left of an item or of its attempts after a lapse is well typed.
LEMMA LapseTypes ==
    ASSUME TypeOK, NEW f \in Filing
    PROVE  /\ AfterLapse(f) \in Item
           /\ Recovered(f) \in Item
           /\ LeaseExpired \in Error
           /\ FinishLapsed(f) \in [Token -> Attempt \cup {Null}]
<1>1. item[f] \in Item
  BY DEF TypeOK
<1>2. LeaseExpired \in Error
  BY DEF LeaseExpired, Error, ErrorClass, ErrorSummary
<1>3. AfterLapse(f) \in Item
  BY <1>1, <1>2 DEF AfterLapse, Item
<1>4. Recovered(f) \in Item
  BY <1>1, <1>3 DEF Recovered
<1>5. FinishLapsed(f) \in [Token -> Attempt \cup {Null}]
  BY <1>2, FinishType DEF FinishLapsed
<1>. QED BY <1>2, <1>3, <1>4, <1>5

\* A claim that finds the attempts of a lapsed lease spent only closes it.
LEMMA SpentMoves ==
    ASSUME TypeOK, NEW f \in Filing, ClaimSpent(f)
    PROVE  /\ item' = [item EXCEPT ![f] = item'[f]]
           /\ item[f].state = "RUNNING" /\ item'[f].state = "RETRYABLE"
           /\ item'[f].attempts = item[f].attempts
<1>1. item[f] \in Item /\ item \in [Filing -> Item]
  BY DEF TypeOK
<1>2. PICK new : new = AfterLapse(f)
  OBVIOUS
<1>3. item[f].state = "RUNNING" /\ item' = [item EXCEPT ![f] = new]
  BY <1>2 DEF ClaimSpent, Lapsed
<1>4. new.state = "RETRYABLE" /\ new.attempts = item[f].attempts
  BY <1>1, <1>2 DEF AfterLapse, Item
<1>5. item'[f] = new
  BY <1>1, <1>3
<1>. QED BY <1>3, <1>4, <1>5

\* Finishing a lease keeps the item and its attempts well typed.
LEMMA FinalizeTypes ==
    ASSUME TypeOK, NEW f \in Filing, NEW t \in Token, NEW outcome \in Outcome,
           NEW error \in Error \cup {Null}, NEW c \in Checksum \cup {Null},
           Finalize(f, t, outcome, error, c)
    PROVE  /\ item' \in [Filing -> Item]
           /\ attempt' \in [Filing -> [Token -> Attempt \cup {Null}]]
<1>1. item[f] \in Item
  BY DEF TypeOK
<1>2. item' \in [Filing -> Item]
  <2>1. PICK new : new = [item[f] EXCEPT !.state = outcome, !.token = NoToken, !.owner = Null,
                                        !.expiry = 0, !.error = error, !.artifact = c]
    OBVIOUS
  <2>2. new \in Item
    BY <1>1, <2>1 DEF Item
  <2>3. item' = [item EXCEPT ![f] = new]
    BY <2>1 DEF Finalize
  <2>. QED BY <2>2, <2>3 DEF TypeOK
<1>3. Finish(f, t, outcome, error, c) \in [Token -> Attempt \cup {Null}]
  BY FinishType
<1>. QED BY <1>2, <1>3 DEF Finalize, TypeOK

\* A filing has a work item exactly when it was reviewed.  The types rest on
\* it: a registered artifact takes its url from the review.
ReviewedFirst == \A f \in Filing : item[f].state = "ABSENT" <=> reviewed[f] = Null

TypeInv == TypeOK /\ ReviewedFirst

LEMMA TypeInit == Init => TypeInv
BY ConstantsAssumption DEF Init, TypeInv, TypeOK, ReviewedFirst, Item

\* The url of a document registered for a reviewed filing is a url.
LEMMA RegisteredType ==
    ASSUME TypeInv, NEW f \in Filing, NEW c \in Checksum, item[f].state = "RUNNING"
    PROVE  Registered(f, c) \in Artifact
<1>1. reviewed[f] \in Provenance
  BY DEF TypeInv, TypeOK, ReviewedFirst
<1>2. reviewed[f].url \in Url
  BY <1>1 DEF Provenance
<1>3. artifact[c] # Null => artifact[c] \in Artifact
  BY DEF TypeInv, TypeOK
<1>. QED BY <1>2, <1>3 DEF Registered, Artifact

LEMMA TypeNext == TypeInv /\ [Next]_ledgerVars => TypeOK'
<1> SUFFICES ASSUME TypeInv, [Next]_ledgerVars PROVE TypeOK'
  OBVIOUS
<1> USE DEF TypeInv
<1>1. CASE Tick
  BY <1>1 DEF Tick, TypeOK
<1>2. ASSUME NEW m \in Manifests, SyncReviewed(m) PROVE TypeOK'
  <2>1. reviewed' \in [Filing -> Provenance \cup {Null}]
    BY <1>2, ConstantsAssumption DEF SyncReviewed, TypeOK
  <2>2. ASSUME NEW f \in Filing PROVE item'[f] \in Item
    <3>1. item[f] \in Item
      BY DEF TypeOK
    <3>2. [item[f] EXCEPT !.state = "PENDING"] \in Item
      BY <3>1 DEF Item
    <3>. QED BY <1>2, <3>1, <3>2 DEF SyncReviewed
  <2>3. item' \in [Filing -> Item]
    BY <1>2, <2>2 DEF SyncReviewed
  <2>. QED BY <1>2, <2>1, <2>3 DEF SyncReviewed, TypeOK
<1>3. ASSUME NEW f \in Filing, NEW r \in Run, Claim(f, r) PROVE TypeOK'
  <2> DEFINE t == item[f].attempts + 1
  <2>1. Recovered(f) \in Item
    BY LapseTypes
  <2>2. t \in Token
    BY <1>3, ConstantsAssumption DEF Claim, Claimable, Recovered, AfterLapse, TypeOK, Item, Token
  <2>3. now + LeaseTerm \in Nat
    BY ConstantsAssumption DEF TypeOK
  <2>4. item' \in [Filing -> Item]
    <3>1. t \in 0..MaxAttempts
      BY <2>2, ConstantsAssumption DEF Token
    <3>2. [Recovered(f) EXCEPT !.state = "RUNNING", !.attempts = t, !.token = t,
                               !.owner = r, !.expiry = now + LeaseTerm] \in Item
      BY <2>1, <2>2, <2>3, <3>1 DEF Item
    <3>. QED BY <1>3, <3>2 DEF Claim, TypeOK
  <2>5. FinishLapsed(f) \in [Token -> Attempt \cup {Null}]
    BY LapseTypes
  <2>6. attempt' \in [Filing -> [Token -> Attempt \cup {Null}]]
    BY <1>3, <2>2, <2>5 DEF Claim, TypeOK, Attempt
  <2>. QED BY <1>3, <2>4, <2>6 DEF Claim, TypeOK
<1>4. ASSUME NEW f \in Filing, ClaimSpent(f) PROVE TypeOK'
  BY <1>4, LapseTypes DEF ClaimSpent, TypeOK
<1>5. ASSUME NEW f \in Filing, NEW t \in Token, Renew(f, t) PROVE TypeOK'
  <2>1. now + LeaseTerm \in Nat
    BY ConstantsAssumption DEF TypeOK
  <2>2. item' \in [Filing -> Item]
    <3>1. item[f] \in Item
      BY DEF TypeOK
    <3>2. [item[f] EXCEPT !.expiry = now + LeaseTerm] \in Item
      BY <2>1, <3>1 DEF Item
    <3>. QED BY <1>5, <3>2 DEF Renew, TypeOK
  <2>. QED BY <1>5, <2>2 DEF Renew, TypeOK
<1>6. ASSUME NEW f \in Filing, NEW t \in Token, NEW e \in RetryErrors,
             FinalizeRetryable(f, t, e)
      PROVE  TypeOK'
  BY <1>6, FinalizeTypes, ConstantsAssumption DEF FinalizeRetryable, TypeOK
<1>7. ASSUME NEW f \in Filing, NEW t \in Token, NEW c \in Checksum, NEW l \in Label,
             CompleteAccepted(f, t, c, l)
      PROVE  TypeOK'
  <2>1. /\ item' \in [Filing -> Item]
        /\ attempt' \in [Filing -> [Token -> Attempt \cup {Null}]]
    BY <1>7, FinalizeTypes DEF CompleteAccepted
  <2>2. Registered(f, c).url \in Url
    BY <1>7, RegisteredType DEF CompleteAccepted, Finalize, LeaseHeld, Artifact
  <2>3. artifact' \in [Checksum -> Artifact \cup {Null}]
    BY <1>7, <2>2 DEF CompleteAccepted, TypeOK, Artifact
  <2>4. profile' \in [Issuer -> ProfileType \cup {"UNVERIFIED"}]
    BY <1>7 DEF CompleteAccepted, TypeOK
  <2>5. issues' \subseteq Checksum \X IssueCode
    BY <1>7 DEF CompleteAccepted, TypeOK, IssueCode
  <2>6. facts' \subseteq Fact
    <3>1. NewLines(f, c) \subseteq Line
      BY ConstantsAssumption DEF NewLines
    <3>. QED BY <1>7, <3>1 DEF CompleteAccepted, TypeOK, Fact
  <2>7. header' \in [Filing -> Header \cup {Null}]
    <3>1. \A g \in Filing : Headed(g, f) \in Header
      BY DEF Headed, Header, TypeOK
    <3>. QED BY <1>7, <3>1 DEF CompleteAccepted, TypeOK
  <2>. QED BY <1>7, <2>1, <2>3, <2>4, <2>5, <2>6, <2>7 DEF CompleteAccepted, TypeOK
<1>8. ASSUME NEW f \in Filing, NEW t \in Token, NEW c \in Checksum, NEW e \in QuarantineErrors,
             CompleteQuarantined(f, t, c, e)
      PROVE  TypeOK'
  <2>0. e \in Error /\ e.summary \in IssueCode
    BY ConstantsAssumption DEF Error, IssueCode
  <2>1. /\ item' \in [Filing -> Item]
        /\ attempt' \in [Filing -> [Token -> Attempt \cup {Null}]]
    BY <1>8, <2>0, FinalizeTypes DEF CompleteQuarantined
  <2>2. Registered(f, c).url \in Url
    BY <1>8, RegisteredType DEF CompleteQuarantined, Finalize, LeaseHeld, Artifact
  <2>3. artifact' \in [Checksum -> Artifact \cup {Null}]
    BY <1>8, <2>2 DEF CompleteQuarantined, TypeOK, Artifact
  <2>4. issues' \subseteq Checksum \X IssueCode
    BY <1>8, <2>0 DEF CompleteQuarantined, TypeOK
  <2>. QED BY <1>8, <2>1, <2>3, <2>4 DEF CompleteQuarantined, TypeOK
<1>9. ASSUME NEW F \in SUBSET Filing, ExpireLeases(F) PROVE TypeOK'
  BY <1>9, LapseTypes DEF ExpireLeases, TypeOK
<1>10. CASE UNCHANGED ledgerVars
  BY <1>10 DEF ledgerVars, TypeOK
<1>11. CASE (\E f \in Filing, t \in Token : StartCompletion(f, t)) \/ (\E f \in Filing : RollBack(f))
  BY <1>11 DEF StartCompletion, RollBack, TypeOK
<1>. QED
  BY <1>1, <1>2, <1>3, <1>4, <1>5, <1>6, <1>7, <1>8, <1>9, <1>10, <1>11 DEF Next

LEMMA ReviewedFirstNext == TypeInv /\ [Next]_ledgerVars => ReviewedFirst'
<1> SUFFICES ASSUME TypeInv, [Next]_ledgerVars PROVE ReviewedFirst'
  OBVIOUS
<1>1. ASSUME NEW m \in Manifests, SyncReviewed(m) PROVE ReviewedFirst'
  <2> SUFFICES ASSUME NEW f \in Filing
               PROVE  item'[f].state = "ABSENT" <=> reviewed'[f] = Null
    BY DEF ReviewedFirst
  <2>1. item[f] \in Item /\ (item[f].state = "ABSENT" <=> reviewed[f] = Null)
    BY DEF TypeInv, TypeOK, ReviewedFirst
  <2>2. f \in DOMAIN m => m[f] \in Provenance /\ m[f] # Null
    BY ConstantsAssumption
  <2>. QED BY <1>1, <2>1, <2>2 DEF SyncReviewed, Item
<1>2. ASSUME NEW g \in Filing, item[g].state # "ABSENT", item'[g].state # "ABSENT",
             item' = [item EXCEPT ![g] = item'[g]], reviewed' = reviewed
      PROVE  ReviewedFirst'
  BY <1>2 DEF ReviewedFirst, TypeInv, TypeOK
<1>3. ASSUME NEW g \in Filing, NEW t \in Token, NEW outcome \in Outcome, NEW e, NEW c,
             Finalize(g, t, outcome, e, c), reviewed' = reviewed
      PROVE  ReviewedFirst'
  <2>1. item[g] \in Item
    BY DEF TypeInv, TypeOK
  <2>. QED BY <1>2, <1>3, <2>1 DEF Finalize, LeaseHeld, TypeInv, TypeOK, Item
<1>4. ASSUME NEW g \in Filing, NEW r \in Run, Claim(g, r) PROVE ReviewedFirst'
  <2>1. Recovered(g) \in Item /\ item[g].state # "ABSENT"
    BY <1>4, LapseTypes DEF Claim, Claimable, Recovered, Lapsed, TypeInv
  <2>. QED BY <1>2, <1>4, <2>1 DEF Claim, TypeInv, TypeOK, Item
<1>5. ASSUME NEW g \in Filing, ClaimSpent(g) PROVE ReviewedFirst'
  <2>1. item[g] \in Item
    BY DEF TypeInv, TypeOK
  <2>. QED BY <1>2, <1>5, <2>1 DEF ClaimSpent, Lapsed, AfterLapse, TypeInv, TypeOK, Item
<1>6. ASSUME NEW g \in Filing, NEW t \in Token, Renew(g, t) PROVE ReviewedFirst'
  <2>1. item[g] \in Item
    BY DEF TypeInv, TypeOK
  <2>. QED BY <1>2, <1>6, <2>1 DEF Renew, LeaseHeld, TypeInv, TypeOK, Item
<1>7. ASSUME NEW F \in SUBSET Filing, ExpireLeases(F) PROVE ReviewedFirst'
  <2> SUFFICES ASSUME NEW f \in Filing
               PROVE  item'[f].state = "ABSENT" <=> reviewed'[f] = Null
    BY DEF ReviewedFirst
  <2>1. item[f] \in Item /\ (item[f].state = "ABSENT" <=> reviewed[f] = Null)
    BY DEF TypeInv, TypeOK, ReviewedFirst
  <2>. QED BY <1>7, <2>1 DEF ExpireLeases, Lapsed, AfterLapse, Item
<1>8. CASE Tick \/ UNCHANGED ledgerVars
  BY <1>8 DEF Tick, ledgerVars, ReviewedFirst, TypeInv
<1>9. CASE (\E f \in Filing, t \in Token : StartCompletion(f, t)) \/ (\E f \in Filing : RollBack(f))
  BY <1>9 DEF StartCompletion, RollBack, ReviewedFirst, TypeInv
<1>. QED
  BY <1>1, <1>3, <1>4, <1>5, <1>6, <1>7, <1>8, <1>9
  DEF Next, FinalizeRetryable, CompleteAccepted, CompleteQuarantined

\* Every column of the ledger tables keeps its declared type.
THEOREM TypeCorrect == Spec => []TypeOK
<1>1. TypeInv /\ [Next]_ledgerVars => TypeInv'
  BY TypeNext, ReviewedFirstNext DEF TypeInv
<1>2. Spec => []TypeInv
  BY TypeInit, <1>1, PTL DEF Spec
<1>. QED BY <1>2, PTL DEF TypeInv

\* The types, as an invariant the theorems below start from.
THEOREM TypeInvariant == Spec => []TypeInv
<1>1. TypeInv /\ [Next]_ledgerVars => TypeInv'
  BY TypeNext, ReviewedFirstNext DEF TypeInv
<1>. QED BY TypeInit, <1>1, PTL DEF Spec

----------------------------------------------------------------------------
(* Evidence *)

\* A step that finishes no filing for good and publishes nothing.
Quiet ==
    /\ UNCHANGED <<artifact, facts, header, profile, issues>>
    /\ \A f \in Filing :
          /\ reviewed[f] # Null => reviewed'[f] = reviewed[f]
          /\ \/ item'[f] = item[f]
             \/ item[f].state \notin Terminal /\ item'[f].state \notin Terminal

\* What finishing a lease does to the items.
LEMMA FinalizeRow ==
    ASSUME TypeInv, NEW f \in Filing, NEW t \in Token, NEW outcome \in Outcome,
           NEW e, NEW c, Finalize(f, t, outcome, e, c)
    PROVE  /\ item[f].state = "RUNNING"
           /\ item'[f].state = outcome
           /\ item'[f].error = e
           /\ item'[f].artifact = c
           /\ \A g \in Filing \ {f} : item'[g] = item[g]
<1>1. item[f] \in Item
  BY DEF TypeInv, TypeOK
<1>. QED BY <1>1 DEF Finalize, LeaseHeld, TypeInv, TypeOK, Item

\* Every step is quiet or one of the two completions.
LEMMA QuietOrComplete ==
    ASSUME TypeInv, [Next]_ledgerVars
    PROVE  \/ Quiet
           \/ \E f \in Filing, t \in Token, c \in Checksum, l \in Label :
                 CompleteAccepted(f, t, c, l)
           \/ \E f \in Filing, t \in Token, c \in Checksum, e \in QuarantineErrors :
                 CompleteQuarantined(f, t, c, e)
<1>1. ASSUME NEW m \in Manifests, SyncReviewed(m) PROVE Quiet
  <2>1. ASSUME NEW f \in Filing
        PROVE  /\ reviewed[f] # Null => reviewed'[f] = reviewed[f]
               /\ \/ item'[f] = item[f]
                  \/ item[f].state \notin Terminal /\ item'[f].state \notin Terminal
    <3>1. item[f] \in Item
      BY DEF TypeInv, TypeOK
    <3>. QED BY <1>1, <3>1 DEF SyncReviewed, SyncAccepts, Item
  <2>. QED BY <1>1, <2>1 DEF SyncReviewed, Quiet
<1>2. ASSUME NEW g \in Filing, item' = [item EXCEPT ![g] = item'[g]],
             item[g].state \notin Terminal, item'[g].state \notin Terminal,
             UNCHANGED <<reviewed, artifact, facts, header, profile, issues>>
      PROVE  Quiet
  BY <1>2 DEF Quiet, TypeInv, TypeOK
<1>3. ASSUME NEW g \in Filing, NEW r \in Run, Claim(g, r) PROVE Quiet
  <2>1. Recovered(g) \in Item /\ item[g] \in Item /\ item[g].state \notin Terminal
    BY <1>3, LapseTypes DEF Claim, Claimable, Recovered, Lapsed, TypeInv, TypeOK
  <2>. QED BY <1>2, <1>3, <2>1 DEF Claim, TypeInv, TypeOK, Item
<1>4. ASSUME NEW g \in Filing, ClaimSpent(g) PROVE Quiet
  <2>1. /\ item' = [item EXCEPT ![g] = item'[g]]
        /\ item[g].state = "RUNNING" /\ item'[g].state = "RETRYABLE"
    BY <1>4, SpentMoves DEF TypeInv
  <2>2. UNCHANGED <<reviewed, artifact, facts, header, profile, issues>>
    BY <1>4 DEF ClaimSpent
  <2>. QED BY <1>2, <2>1, <2>2 DEF Terminal
<1>5. ASSUME NEW g \in Filing, NEW t \in Token, Renew(g, t) PROVE Quiet
  <2>1. item[g] \in Item
    BY DEF TypeInv, TypeOK
  <2>. QED BY <1>2, <1>5, <2>1 DEF Renew, LeaseHeld, TypeInv, TypeOK, Item
<1>6. ASSUME NEW g \in Filing, NEW t \in Token, NEW e \in RetryErrors,
             FinalizeRetryable(g, t, e)
      PROVE  Quiet
  <2>1. Finalize(g, t, "RETRYABLE", e, Null)
    BY <1>6 DEF FinalizeRetryable
  <2>2. item[g].state = "RUNNING" /\ item'[g].state = "RETRYABLE"
    BY <2>1, FinalizeRow
  <2>3. item' = [item EXCEPT ![g] = item'[g]]
    BY <2>1 DEF Finalize, TypeInv, TypeOK
  <2>. QED BY <1>2, <1>6, <2>2, <2>3 DEF FinalizeRetryable
<1>7. ASSUME NEW F \in SUBSET Filing, ExpireLeases(F) PROVE Quiet
  <2>1. ASSUME NEW f \in Filing
        PROVE  \/ item'[f] = item[f]
               \/ item[f].state \notin Terminal /\ item'[f].state \notin Terminal
    <3>1. item[f] \in Item
      BY DEF TypeInv, TypeOK
    <3>. QED BY <1>7, <3>1 DEF ExpireLeases, Lapsed, AfterLapse, Item
  <2>. QED BY <1>7, <2>1 DEF ExpireLeases, Quiet
<1>8. CASE Tick \/ UNCHANGED ledgerVars
  BY <1>8 DEF Tick, ledgerVars, Quiet
<1>9. CASE (\E f \in Filing, t \in Token : StartCompletion(f, t)) \/ (\E f \in Filing : RollBack(f))
  BY <1>9 DEF StartCompletion, RollBack, Quiet
<1>. QED BY <1>1, <1>3, <1>4, <1>5, <1>6, <1>7, <1>8, <1>9 DEF Next

\* A completion keeps the documents other finished filings rest on.
LEMMA DocumentsKept ==
    ASSUME TypeInv, EvidenceMatchesReview, NEW f \in Filing, NEW c \in Checksum,
           NEW status \in Terminal, ~DriftBlocked(f, c, status),
           artifact' = [artifact EXCEPT ![c] = [url |-> Registered(f, c).url, status |-> status]],
           NEW g \in Filing, item[g].state \in Terminal
    PROVE  artifact'[item[g].artifact] = artifact[item[g].artifact]
<1>1. item[g] \in Item /\ item[g].artifact \in Checksum
  BY DEF TypeInv, TypeOK, Item, EvidenceMatchesReview
<1>2. CASE item[g].artifact = c
  <2>1. artifact[c] # Null /\ artifact[c] \in Artifact
    BY <1>1, <1>2 DEF EvidenceMatchesReview, TypeInv, TypeOK
  <2>2. artifact[c].status = status
    BY <1>2, <2>1 DEF DriftBlocked, Registered
  <2>3. artifact[c] = [url |-> artifact[c].url, status |-> status]
    BY <2>1, <2>2 DEF Artifact
  <2>. QED BY <1>2, <2>1, <2>3 DEF Registered, TypeInv, TypeOK
<1>3. CASE item[g].artifact # c
  BY <1>1, <1>3 DEF TypeInv, TypeOK
<1>. QED BY <1>2, <1>3

\* Completing f with document c and verdict status leaves matching evidence.
LEMMA CompleteEvidence ==
    ASSUME TypeInv, EvidenceMatchesReview, NEW f \in Filing, NEW t \in Token,
           NEW c \in Checksum, NEW status \in Terminal, NEW e,
           Finalize(f, t, status, e, c), ~DriftBlocked(f, c, status),
           ~ProvenanceRefused(f, c, e), status = "ACCEPTED" => e = Null,
           artifact' = [artifact EXCEPT ![c] = [url |-> Registered(f, c).url, status |-> status]],
           reviewed' = reviewed
    PROVE  EvidenceMatchesReview'
<1> SUFFICES ASSUME NEW g \in Filing, item'[g].state \in Terminal
             PROVE  /\ item'[g].artifact # Null
                    /\ artifact'[item'[g].artifact] # Null
                    /\ AcceptanceAllowed(item'[g], reviewed[g], artifact'[item'[g].artifact])
  BY DEF EvidenceMatchesReview, AcceptanceAllowed
<1>1. CASE g = f
  <2>1. item'[f].state = status /\ item'[f].error = e /\ item'[f].artifact = c
        /\ item[f].state = "RUNNING"
    BY FinalizeRow
  <2>2. artifact'[c] = [url |-> Registered(f, c).url, status |-> status]
    BY DEF TypeInv, TypeOK
  <2>3. artifact'[c] # Null
    <3>1. Registered(f, c).url \in Url
      BY <2>1, RegisteredType DEF Artifact
    <3>. QED BY <2>2, <3>1, ConstantsAssumption DEF Artifact
  <2>4. AcceptanceAllowed(item'[f], reviewed[f], artifact'[c])
    <3>1. Null # ArtifactMismatch
      BY ConstantsAssumption DEF ArtifactMismatch, Error, ErrorClass, ErrorSummary
    <3>. QED BY <2>1, <2>2, <3>1 DEF AcceptanceAllowed, ProvenanceRefused, ChecksumDiffers
  <2>5. c # Null
    BY ConstantsAssumption
  <2>. QED BY <1>1, <2>1, <2>3, <2>4, <2>5
<1>2. CASE g # f
  <2>1. item'[g] = item[g]
    BY <1>2, FinalizeRow
  <2>2. artifact'[item[g].artifact] = artifact[item[g].artifact]
    BY <2>1, DocumentsKept
  <2>. QED BY <2>1, <2>2 DEF EvidenceMatchesReview
<1>. QED BY <1>1, <1>2

LEMMA EvidenceNext ==
    TypeInv /\ EvidenceMatchesReview /\ [Next]_ledgerVars => EvidenceMatchesReview'
<1> SUFFICES ASSUME TypeInv, EvidenceMatchesReview, [Next]_ledgerVars
             PROVE  EvidenceMatchesReview'
  OBVIOUS
<1>1. CASE Quiet
  <2> SUFFICES ASSUME NEW f \in Filing, item'[f].state \in Terminal
               PROVE  /\ item'[f].artifact # Null
                      /\ artifact'[item'[f].artifact] # Null
                      /\ AcceptanceAllowed(item'[f], reviewed'[f], artifact'[item'[f].artifact])
    BY DEF EvidenceMatchesReview, AcceptanceAllowed
  <2>1. item'[f] = item[f] /\ artifact' = artifact
    BY <1>1 DEF Quiet
  <2>2. reviewed'[f] = reviewed[f]
    BY <1>1, <2>1 DEF Quiet, TypeInv, ReviewedFirst
  <2>. QED BY <2>1, <2>2 DEF EvidenceMatchesReview
<1>2. ASSUME NEW f \in Filing, NEW t \in Token, NEW c \in Checksum, NEW l \in Label,
             CompleteAccepted(f, t, c, l)
      PROVE  EvidenceMatchesReview'
  BY <1>2, CompleteEvidence DEF CompleteAccepted
<1>3. ASSUME NEW f \in Filing, NEW t \in Token, NEW c \in Checksum, NEW e \in QuarantineErrors,
             CompleteQuarantined(f, t, c, e)
      PROVE  EvidenceMatchesReview'
  BY <1>3, CompleteEvidence DEF CompleteQuarantined
<1>. QED BY <1>1, <1>2, <1>3, QuietOrComplete

\* A decided filing keeps what it rests on.
LEMMA DecidedKept ==
    ASSUME TypeInv, EvidenceMatchesReview, [Next]_ledgerVars,
           NEW g \in Filing, item[g].state \in Terminal
    PROVE  Kept(g)
<1> USE DEF Kept
<1>1. CASE Quiet
  BY <1>1 DEF Quiet
<1>2. ASSUME NEW f \in Filing, NEW t \in Token, NEW c \in Checksum, NEW l \in Label,
             CompleteAccepted(f, t, c, l)
      PROVE  Kept(g)
  <2>1. Finalize(f, t, "ACCEPTED", Null, c) /\ ~DriftBlocked(f, c, "ACCEPTED")
    BY <1>2 DEF CompleteAccepted
  <2>2. f # g /\ item'[g] = item[g]
    BY <2>1, FinalizeRow
  <2>3. artifact'[item[g].artifact] = artifact[item[g].artifact]
    BY <1>2, <2>1, DocumentsKept DEF CompleteAccepted
  <2>. QED BY <2>2, <2>3
<1>3. ASSUME NEW f \in Filing, NEW t \in Token, NEW c \in Checksum, NEW e \in QuarantineErrors,
             CompleteQuarantined(f, t, c, e)
      PROVE  Kept(g)
  <2>1. Finalize(f, t, "QUARANTINED", e, c) /\ ~DriftBlocked(f, c, "QUARANTINED")
    BY <1>3 DEF CompleteQuarantined
  <2>2. item'[g] = item[g]
    BY <2>1, FinalizeRow
  <2>3. artifact'[item[g].artifact] = artifact[item[g].artifact]
    BY <1>3, <2>1, DocumentsKept DEF CompleteQuarantined
  <2>. QED BY <2>2, <2>3
<1>. QED BY <1>1, <1>2, <1>3, QuietOrComplete

\* What facts and headers say of the accepted filings.
StoredEvidence == FactsAreAccepted /\ AcceptedFactsAreStored /\ HeadersAreAccepted

\* A step that stores nothing and accepts nothing keeps the stored evidence.
LEMMA NothingStored ==
    ASSUME TypeInv, StoredEvidence, facts' = facts, header' = header,
           \A g \in Filing : item'[g] = item[g] \/ (~Accepted(g) /\ ~Accepted(g)')
    PROVE  StoredEvidence'
<1> USE DEF Accepted
<1>1. FactsAreAccepted'
  BY DEF StoredEvidence, FactsAreAccepted, Evidence, TypeInv, TypeOK, Fact
<1>2. AcceptedFactsAreStored'
  BY DEF StoredEvidence, AcceptedFactsAreStored, Evidence
<1>3. HeadersAreAccepted'
  <2> SUFFICES ASSUME NEW g \in Filing, header[g] # Null,
                      NEW s \in {header[g].first, header[g].latest}
               PROVE  Accepted(s)' /\ g \in Mentioned(s, item'[s].artifact)
    BY DEF StoredEvidence, HeadersAreAccepted
  <2>1. s \in Filing
    BY DEF TypeInv, TypeOK, Header
  <2>2. Accepted(s) /\ g \in Mentioned(s, item[s].artifact)
    BY DEF StoredEvidence, HeadersAreAccepted
  <2>. QED BY <2>1, <2>2
<1>. QED BY <1>1, <1>2, <1>3 DEF StoredEvidence

\* Accepting a document stores its lines, under headers that show it.
LEMMA LinesStored ==
    ASSUME TypeInv, StoredEvidence, NEW f \in Filing, NEW c \in Checksum,
           item[f].state = "RUNNING", item'[f].state = "ACCEPTED", item'[f].artifact = c,
           \A g \in Filing \ {f} : item'[g] = item[g],
           facts' = facts \cup [line : NewLines(f, c), source : {f}],
           header' = [g \in Filing |-> IF g \in Mentioned(f, c) THEN Headed(g, f) ELSE header[g]]
    PROVE  StoredEvidence'
<1> USE DEF Accepted
<1>1. \A e \in facts : e.source \in Filing /\ e.line \in Line /\ e.line[1] \in Filing
  BY DEF TypeInv, TypeOK, Fact, Line
<1>2. \A g \in Filing : Accepted(g) => Accepted(g)' /\ g # f /\ item'[g] = item[g]
  OBVIOUS
<1>3. Reported[f][c] \subseteq Line /\ NewLines(f, c) \subseteq Reported[f][c]
  BY ConstantsAssumption DEF NewLines
<1>4. \A e \in facts' : \/ e \in facts
                        \/ e.source = f /\ e.line \in NewLines(f, c)
  OBVIOUS
<1>5. FactsAreAccepted'
  <2> SUFFICES ASSUME NEW e \in facts'
               PROVE  Accepted(e.source)' /\ e.line \in Reported[e.source][item'[e.source].artifact]
    BY DEF FactsAreAccepted, Evidence
  <2>1. CASE e \in facts
    BY <1>1, <1>2, <2>1 DEF StoredEvidence, FactsAreAccepted, Evidence
  <2>2. CASE e.source = f /\ e.line \in NewLines(f, c)
    BY <1>3, <2>2
  <2>. QED BY <1>4, <2>1, <2>2
<1>6. AcceptedFactsAreStored'
  <2>1. ASSUME NEW g \in Filing, Accepted(g)', NEW l \in Reported[g][item'[g].artifact]
        PROVE  \E e \in facts' : e.line = l /\ (l[2] \in Instant => e.source = g)
    <3>1. CASE g # f
      BY <1>2, <2>1, <3>1 DEF StoredEvidence, AcceptedFactsAreStored, Evidence
    <3>2. CASE g = f /\ l \in NewLines(f, c)
      <4>1. PICK e : e = [line |-> l, source |-> f]
        OBVIOUS
      <4>2. e \in facts' /\ e.line = l /\ e.source = f
        BY <3>2, <4>1
      <4>. QED BY <3>2, <4>2
    <3>3. CASE g = f /\ l \notin NewLines(f, c)
      BY <2>1, <3>3 DEF NewLines
    <3>. QED BY <3>1, <3>2, <3>3
  <2>2. ASSUME NEW d \in facts', NEW e \in facts', d.line = e.line, d.line[2] \notin Instant
        PROVE  d = e
    <3>1. CASE d \in facts /\ e \in facts
      BY <2>2, <3>1 DEF StoredEvidence, AcceptedFactsAreStored
    <3>2. CASE d \notin facts /\ e \notin facts
      BY <2>2, <3>2
    <3>3. CASE d \in facts /\ e \notin facts
      BY <1>4, <2>2, <3>3 DEF NewLines
    <3>4. CASE d \notin facts /\ e \in facts
      BY <1>4, <2>2, <3>4 DEF NewLines
    <3>. QED BY <3>1, <3>2, <3>3, <3>4
  <2>. QED BY <2>1, <2>2 DEF AcceptedFactsAreStored, Evidence
<1>7. \A g \in Filing : Headed(g, f) \in Header /\ Headed(g, f) # Null
  BY ConstantsAssumption DEF Headed, Header, TypeInv, TypeOK
<1>8. HeadersAreAccepted'
  <2>1. ASSUME NEW e \in facts' PROVE header'[e.line[1]] # Null
    <3>1. CASE e \in facts
      BY <1>1, <1>7, <3>1 DEF StoredEvidence, HeadersAreAccepted
    <3>2. CASE e.line \in NewLines(f, c)
      <4>1. e.line[1] \in Mentioned(f, c) /\ e.line[1] \in Filing
        BY <1>3, <3>2 DEF Mentioned, Line
      <4>. QED BY <1>7, <4>1
    <3>. QED BY <1>4, <3>1, <3>2
  <2>2. ASSUME NEW g \in Filing, header'[g] # Null,
               NEW s \in {header'[g].first, header'[g].latest}
        PROVE  Accepted(s)' /\ g \in Mentioned(s, item'[s].artifact)
    <3>1. CASE header[g] # Null /\ s \in {header[g].first, header[g].latest}
      <4>1. s \in Filing
        BY <3>1 DEF TypeInv, TypeOK, Header
      <4>2. Accepted(s) /\ g \in Mentioned(s, item[s].artifact)
        BY <3>1 DEF StoredEvidence, HeadersAreAccepted
      <4>. QED BY <1>2, <4>1, <4>2
    <3>2. CASE g \in Mentioned(f, c) /\ s = f
      BY <3>2
    <3>3. CASE g \in Mentioned(f, c)
      BY <2>2, <3>1, <3>2, <3>3 DEF Headed
    <3>4. CASE g \notin Mentioned(f, c)
      BY <2>2, <3>1, <3>4
    <3>. QED BY <3>3, <3>4
  <2>. QED BY <2>1, <2>2 DEF HeadersAreAccepted
<1>. QED BY <1>5, <1>6, <1>8 DEF StoredEvidence

LEMMA StoredNext ==
    TypeInv /\ EvidenceMatchesReview /\ StoredEvidence /\ [Next]_ledgerVars => StoredEvidence'
<1> SUFFICES ASSUME TypeInv, EvidenceMatchesReview, StoredEvidence, [Next]_ledgerVars
             PROVE  StoredEvidence'
  OBVIOUS
<1>1. CASE Quiet
  BY <1>1, NothingStored DEF Quiet, Accepted
<1>2. ASSUME NEW f \in Filing, NEW t \in Token, NEW c \in Checksum, NEW l \in Label,
             CompleteAccepted(f, t, c, l)
      PROVE  StoredEvidence'
  <2>1. Finalize(f, t, "ACCEPTED", Null, c)
    BY <1>2 DEF CompleteAccepted
  <2>2. /\ item[f].state = "RUNNING" /\ item'[f].state = "ACCEPTED" /\ item'[f].artifact = c
        /\ \A g \in Filing \ {f} : item'[g] = item[g]
    BY <2>1, FinalizeRow
  <2>. QED BY <1>2, <2>2, LinesStored DEF CompleteAccepted
<1>3. ASSUME NEW f \in Filing, NEW t \in Token, NEW c \in Checksum, NEW e \in QuarantineErrors,
             CompleteQuarantined(f, t, c, e)
      PROVE  StoredEvidence'
  <2>1. Finalize(f, t, "QUARANTINED", e, c) /\ facts' = facts /\ header' = header
    BY <1>3 DEF CompleteQuarantined
  <2>2. /\ item[f].state = "RUNNING" /\ item'[f].state = "QUARANTINED"
        /\ \A g \in Filing \ {f} : item'[g] = item[g]
    BY <2>1, FinalizeRow
  <2>. QED BY <2>1, <2>2, NothingStored DEF Accepted
<1>. QED BY <1>1, <1>2, <1>3, QuietOrComplete

\* Whatever documents report of each other's periods, stored facts and headers
\* come from accepted filings and are complete, and a finished filing rests on
\* the reviewed document with its own verdict.
THEOREM EvidenceSound == Spec => []EvidenceIsSound
<1>1. Init => StoredEvidence /\ EvidenceMatchesReview
  BY DEF Init, StoredEvidence, FactsAreAccepted, AcceptedFactsAreStored, HeadersAreAccepted,
         Accepted, EvidenceMatchesReview
<1>2. StoredEvidence /\ EvidenceMatchesReview <=> EvidenceIsSound
  BY DEF StoredEvidence, EvidenceIsSound
<1>. QED BY <1>1, <1>2, StoredNext, EvidenceNext, TypeInvariant, PTL DEF Spec

\* A step that decides a filing does so under a lease that is still held.
LEMMA DecidedUnderLease ==
    ASSUME TypeInv, [Next]_ledgerVars,
           NEW g \in Filing, item[g].state \notin Terminal, item'[g].state \in Terminal
    PROVE  item[g].state = "RUNNING" /\ item[g].expiry > now
<1>1. CASE Quiet
  BY <1>1 DEF Quiet
<1>2. ASSUME NEW f \in Filing, NEW t \in Token, NEW outcome \in Outcome, NEW e, NEW c,
             Finalize(f, t, outcome, e, c)
      PROVE  item[g].state = "RUNNING" /\ item[g].expiry > now
  <2>1. f = g
    BY <1>2, FinalizeRow
  <2>. QED BY <1>2, <2>1 DEF Finalize, LeaseHeld
<1>3. ASSUME NEW f \in Filing, NEW t \in Token, NEW c \in Checksum, NEW l \in Label,
             CompleteAccepted(f, t, c, l)
      PROVE  item[g].state = "RUNNING" /\ item[g].expiry > now
  BY <1>2, <1>3 DEF CompleteAccepted
<1>4. ASSUME NEW f \in Filing, NEW t \in Token, NEW c \in Checksum, NEW e \in QuarantineErrors,
             CompleteQuarantined(f, t, c, e)
      PROVE  item[g].state = "RUNNING" /\ item[g].expiry > now
  BY <1>2, <1>4 DEF CompleteQuarantined
<1>. QED BY <1>1, <1>3, <1>4, QuietOrComplete

\* A verified issuer type stays: a conflicting label is an issue instead.
LEMMA ProfileKept ==
    ASSUME TypeInv, [Next]_ledgerVars, NEW i \in Issuer, profile[i] # "UNVERIFIED"
    PROVE  profile'[i] = profile[i]
<1>1. CASE Quiet
  BY <1>1 DEF Quiet
<1>2. ASSUME NEW f \in Filing, NEW t \in Token, NEW c \in Checksum, NEW l \in Label,
             CompleteAccepted(f, t, c, l)
      PROVE  profile'[i] = profile[i]
  <2>1. profile[i] \in ProfileType
    BY DEF TypeInv, TypeOK
  <2>2. CASE l \in ProfileType /\ ~ProfileConflict(f, l) /\ IssuerOf[f] = i
    <3>1. profile[i] = l
      BY <2>1, <2>2 DEF ProfileConflict
    <3>. QED BY <1>2, <2>2, <3>1 DEF CompleteAccepted, TypeInv, TypeOK
  <2>3. CASE ~(l \in ProfileType /\ ~ProfileConflict(f, l) /\ IssuerOf[f] = i)
    BY <1>2, <2>3 DEF CompleteAccepted, TypeInv, TypeOK
  <2>. QED BY <2>2, <2>3
<1>3. ASSUME NEW f \in Filing, NEW t \in Token, NEW c \in Checksum, NEW e \in QuarantineErrors,
             CompleteQuarantined(f, t, c, e)
      PROVE  profile'[i] = profile[i]
  BY <1>3 DEF CompleteQuarantined
<1>. QED BY <1>1, <1>2, <1>3, QuietOrComplete

\* What a filing's document leaves in the tables, it leaves when the filing is
\* accepted, and it stays.
LEMMA StoredOnAcceptance ==
    ASSUME TypeInv, [Next]_ledgerVars
    PROVE  /\ facts \subseteq facts'
           /\ \A f \in Filing :
                 /\ header'[f] # header[f] =>
                       /\ \E s \in Filing : header'[f].latest = s /\ Accepts(s)
                       /\ header[f] # Null => header'[f].first = header[f].first
                 /\ (\E e \in facts' \ facts : e.source = f) => Accepts(f)
<1>1. CASE facts' = facts /\ header' = header
  BY <1>1
<1>2. ASSUME NEW f \in Filing, NEW t \in Token, NEW c \in Checksum, NEW l \in Label,
             CompleteAccepted(f, t, c, l)
      PROVE  /\ facts \subseteq facts'
             /\ \A g \in Filing :
                   /\ header'[g] # header[g] =>
                         /\ \E s \in Filing : header'[g].latest = s /\ Accepts(s)
                         /\ header[g] # Null => header'[g].first = header[g].first
                   /\ (\E e \in facts' \ facts : e.source = g) => Accepts(g)
  <2>1. Finalize(f, t, "ACCEPTED", Null, c)
    BY <1>2 DEF CompleteAccepted
  <2>2. Accepts(f)
    BY <2>1, FinalizeRow DEF Accepts, Accepted
  <2>3. /\ facts' = facts \cup [line : NewLines(f, c), source : {f}]
        /\ header' = [g \in Filing |-> IF g \in Mentioned(f, c) THEN Headed(g, f) ELSE header[g]]
    BY <1>2 DEF CompleteAccepted
  <2>4. \A g \in Filing : Headed(g, f).latest = f
                         /\ (header[g] # Null => Headed(g, f).first = header[g].first)
    BY DEF Headed
  <2>. QED BY <2>2, <2>3, <2>4
<1>. QED BY <1>1, <1>2, QuietOrComplete DEF Quiet, CompleteQuarantined

\* A filing is decided under a lease live at its commit and for good; stored
\* facts and the type of a verified issuer stay; and facts and headers change
\* only by accepting the filing they come from.
THEOREM Settled == Spec => SettledForever
<1>1. TypeInv /\ EvidenceMatchesReview /\ [Next]_ledgerVars =>
         [/\ \A f \in Filing :
               /\ item[f].state \in Terminal => Kept(f)
               /\ item[f].state \notin Terminal /\ item'[f].state \in Terminal =>
                     item[f].state = "RUNNING" /\ item[f].expiry > now
               /\ header'[f] # header[f] =>
                     /\ \E s \in Filing : header'[f].latest = s /\ Accepts(s)
                     /\ header[f] # Null => header'[f].first = header[f].first
               /\ (\E e \in facts' \ facts : e.source = f) => Accepts(f)
          /\ facts \subseteq facts'
          /\ \A i \in Issuer :
               profile[i] # "UNVERIFIED" => profile'[i] = profile[i]]_ledgerVars
  <2> SUFFICES ASSUME TypeInv, EvidenceMatchesReview, [Next]_ledgerVars
               PROVE  /\ \A f \in Filing :
                           /\ item[f].state \in Terminal => Kept(f)
                           /\ item[f].state \notin Terminal /\ item'[f].state \in Terminal =>
                                 item[f].state = "RUNNING" /\ item[f].expiry > now
                           /\ header'[f] # header[f] =>
                                 /\ \E s \in Filing : header'[f].latest = s /\ Accepts(s)
                                 /\ header[f] # Null => header'[f].first = header[f].first
                           /\ (\E e \in facts' \ facts : e.source = f) => Accepts(f)
                      /\ facts \subseteq facts'
                      /\ \A i \in Issuer :
                           profile[i] # "UNVERIFIED" => profile'[i] = profile[i]
    OBVIOUS
  <2>. QED BY DecidedKept, DecidedUnderLease, ProfileKept, StoredOnAcceptance
<1>2. Spec => []EvidenceMatchesReview
  BY EvidenceSound, PTL DEF EvidenceIsSound
<1>. QED BY <1>1, <1>2, TypeInvariant, PTL DEF Spec, SettledForever

----------------------------------------------------------------------------
(* Rows *)

\* What one step does to the rows of one filing: nothing, or one of these.
RowKept(f) ==
    /\ item'[f] = item[f]
    /\ attempt'[f] = attempt[f]
    /\ reviewed'[f] = reviewed[f]

RowReviewed(f) ==
    /\ item[f].state = "ABSENT"
    /\ item'[f] = [item[f] EXCEPT !.state = "PENDING"]
    /\ attempt'[f] = attempt[f]
    /\ reviewed'[f] \in Provenance

RowClaimed(f, r) ==
    /\ Claimable(f)
    /\ item'[f] = [Recovered(f) EXCEPT !.state = "RUNNING",
                      !.attempts = item[f].attempts + 1, !.token = item[f].attempts + 1,
                      !.owner = r, !.expiry = now + LeaseTerm]
    /\ attempt'[f] = [(IF Lapsed(f) THEN FinishLapsed(f) ELSE attempt[f])
                         EXCEPT ![item[f].attempts + 1] =
                           [outcome |-> "OPEN", token |-> item[f].attempts + 1, run |-> r,
                            error |-> Null, artifact |-> Null]]
    /\ reviewed'[f] = reviewed[f]

RowLapsed(f) ==
    /\ Lapsed(f)
    /\ item'[f] = AfterLapse(f)
    /\ attempt'[f] = FinishLapsed(f)
    /\ reviewed'[f] = reviewed[f]

RowRenewed(f, t) ==
    /\ LeaseHeld(f, t)
    /\ item'[f] = [item[f] EXCEPT !.expiry = now + LeaseTerm]
    /\ attempt'[f] = attempt[f]
    /\ reviewed'[f] = reviewed[f]

\* The error and the document that go with an outcome.
Verdicts ==
    [outcome : {"RETRYABLE"}, error : RetryErrors, artifact : {Null}]
    \cup [outcome : {"ACCEPTED"}, error : {Null}, artifact : Checksum]
    \cup [outcome : {"QUARANTINED"}, error : QuarantineErrors, artifact : Checksum]

RowFinished(f, t, v) ==
    /\ LeaseHeld(f, t)
    /\ item'[f] = [item[f] EXCEPT !.state = v.outcome, !.token = NoToken, !.owner = Null,
                                  !.expiry = 0, !.error = v.error, !.artifact = v.artifact]
    /\ attempt'[f] = Finish(f, t, v.outcome, v.error, v.artifact)
    /\ reviewed'[f] = reviewed[f]

RowStep(f) ==
    \/ RowKept(f)
    \/ RowReviewed(f)
    \/ \E r \in Run : RowClaimed(f, r)
    \/ RowLapsed(f)
    \/ \E t \in Token : RowRenewed(f, t)
    \/ \E t \in Token, v \in Verdicts : RowFinished(f, t, v)

\* Every step of the ledger is, for every filing, a step of its rows.
LEMMA RowSteps ==
    ASSUME TypeInv, [Next]_ledgerVars, NEW f \in Filing
    PROVE  RowStep(f)
<1>0. /\ item \in [Filing -> Item]
      /\ attempt \in [Filing -> [Token -> Attempt \cup {Null}]]
      /\ item[f].state = "ABSENT" <=> reviewed[f] = Null
  BY DEF TypeInv, TypeOK, ReviewedFirst
<1>1. ASSUME NEW m \in Manifests, SyncReviewed(m) PROVE RowStep(f)
  <2>1. f \in DOMAIN m => m[f] \in Provenance
    BY ConstantsAssumption
  <2>2. CASE f \in DOMAIN m /\ item[f].state = "ABSENT"
    BY <1>1, <2>1, <2>2 DEF SyncReviewed, RowStep, RowReviewed
  <2>3. CASE ~(f \in DOMAIN m /\ item[f].state = "ABSENT")
    BY <1>0, <1>1, <2>3 DEF SyncReviewed, SyncAccepts, RowStep, RowKept
  <2>. QED BY <2>2, <2>3
<1>2. ASSUME NEW g \in Filing, NEW r \in Run, Claim(g, r) PROVE RowStep(f)
  <2>1. CASE g = f
    BY <1>0, <1>2, <2>1 DEF Claim, RowStep, RowClaimed
  <2>2. CASE g # f
    BY <1>0, <1>2, <2>2 DEF Claim, RowStep, RowKept
  <2>. QED BY <2>1, <2>2
<1>3. ASSUME NEW g \in Filing, ClaimSpent(g) PROVE RowStep(f)
  BY <1>0, <1>3 DEF ClaimSpent, RowStep, RowLapsed, RowKept
<1>4. ASSUME NEW g \in Filing, NEW t \in Token, Renew(g, t) PROVE RowStep(f)
  <2>1. CASE g = f
    BY <1>0, <1>4, <2>1 DEF Renew, RowStep, RowRenewed
  <2>2. CASE g # f
    BY <1>0, <1>4, <2>2 DEF Renew, RowStep, RowKept
  <2>. QED BY <2>1, <2>2
<1>5. ASSUME NEW g \in Filing, NEW t \in Token, NEW v \in Verdicts,
             Finalize(g, t, v.outcome, v.error, v.artifact), reviewed' = reviewed
      PROVE  RowStep(f)
  <2>1. CASE g = f
    <3>1. RowFinished(f, t, v)
      BY <1>0, <1>5, <2>1 DEF Finalize, RowFinished
    <3>. QED BY <3>1 DEF RowStep
  <2>2. CASE g # f
    BY <1>0, <1>5, <2>2 DEF Finalize, RowStep, RowKept
  <2>. QED BY <2>1, <2>2
<1>6. ASSUME NEW g \in Filing, NEW t \in Token, NEW e \in RetryErrors, FinalizeRetryable(g, t, e)
      PROVE  RowStep(f)
  <2> DEFINE v == [outcome |-> "RETRYABLE", error |-> e, artifact |-> Null]
  <2>1. v \in Verdicts
    BY DEF Verdicts
  <2>. QED BY <1>5, <1>6, <2>1 DEF FinalizeRetryable
<1>7. ASSUME NEW g \in Filing, NEW t \in Token, NEW c \in Checksum, NEW l \in Label,
             CompleteAccepted(g, t, c, l)
      PROVE  RowStep(f)
  <2> DEFINE v == [outcome |-> "ACCEPTED", error |-> Null, artifact |-> c]
  <2>1. v \in Verdicts
    BY DEF Verdicts
  <2>. QED BY <1>5, <1>7, <2>1 DEF CompleteAccepted
<1>8. ASSUME NEW g \in Filing, NEW t \in Token, NEW c \in Checksum, NEW e \in QuarantineErrors,
             CompleteQuarantined(g, t, c, e)
      PROVE  RowStep(f)
  <2> DEFINE v == [outcome |-> "QUARANTINED", error |-> e, artifact |-> c]
  <2>1. v \in Verdicts
    BY DEF Verdicts
  <2>. QED BY <1>5, <1>8, <2>1 DEF CompleteQuarantined
<1>9. ASSUME NEW F \in SUBSET Filing, ExpireLeases(F) PROVE RowStep(f)
  BY <1>9 DEF ExpireLeases, RowStep, RowLapsed, RowKept
<1>10. CASE Tick \/ UNCHANGED ledgerVars
  BY <1>10 DEF Tick, ledgerVars, RowStep, RowKept
<1>11. CASE (\E g \in Filing, t \in Token : StartCompletion(g, t)) \/ (\E g \in Filing : RollBack(g))
  BY <1>11 DEF StartCompletion, RollBack, RowStep, RowKept
<1>. QED BY <1>1, <1>2, <1>3, <1>4, <1>6, <1>7, <1>8, <1>9, <1>10, <1>11 DEF Next

\* The lease columns are filled exactly while an item runs, a failure and a
\* quarantine have their error, and a lease ends at most a term from now.
LeaseColumns(record) ==
    /\ record.state = "RUNNING" => record.token # NoToken /\ record.owner # Null /\ record.expiry # 0
    /\ record.state # "RUNNING" => record.token = NoToken /\ record.owner = Null /\ record.expiry = 0
    /\ record.state \in Terminal <=> record.artifact # Null
    /\ record.state \in {"RETRYABLE", "QUARANTINED"} => record.error # Null

RowsSound ==
    \A f \in Filing : LeaseColumns(item[f]) /\ item[f].expiry <= now + LeaseTerm

LEMMA RowsSoundNext ==
    TypeInv /\ RowsSound /\ [Next]_ledgerVars => RowsSound'
<1> SUFFICES ASSUME TypeInv, RowsSound, [Next]_ledgerVars, NEW f \in Filing
             PROVE  LeaseColumns(item'[f]) /\ item'[f].expiry <= now' + LeaseTerm
  BY DEF RowsSound, LeaseColumns
<1>0. now \in Nat /\ now' \in Nat /\ LeaseTerm \in Nat /\ LeaseTerm > 0
  BY ConstantsAssumption, TypeNext DEF TypeInv, TypeOK
<1>1. /\ item[f] \in Item /\ now \in Nat /\ LeaseTerm \in Nat \ {0} /\ now' \in Nat
      /\ LeaseColumns(item[f]) /\ item[f].expiry <= now + LeaseTerm
  BY ConstantsAssumption, TypeNext DEF TypeInv, TypeOK, RowsSound
<1>2. PICK later \in Nat : now' = later /\ later >= now
  <2>0. now + 1 \in Nat /\ now + 1 >= now
    BY <1>0
  <2>1. CASE Tick
    BY <2>0, <2>1 DEF Tick
  <2>2. CASE ~Tick
    <3>1. now' = now
      BY <2>2, ZenonT(60) DEF Next, SyncReviewed, Claim, ClaimSpent, Renew, FinalizeRetryable,
                  StartCompletion, RollBack, CompleteAccepted, CompleteQuarantined,
                  ExpireLeases, ledgerVars
    <3>. QED BY <1>0, <3>1
  <2>. QED BY <2>1, <2>2
<1>3. LeaseExpired # Null
  BY ConstantsAssumption, LapseTypes DEF TypeInv
<1>4. ASSUME RowKept(f)
      PROVE  LeaseColumns(item'[f]) /\ item'[f].expiry <= later + LeaseTerm
  BY <1>1, <1>2, <1>4 DEF RowKept, Item
<1>5. ASSUME RowReviewed(f)
      PROVE  LeaseColumns(item'[f]) /\ item'[f].expiry <= later + LeaseTerm
  BY <1>1, <1>2, <1>5 DEF RowReviewed, LeaseColumns, Item
<1>6. ASSUME NEW r \in Run, RowClaimed(f, r)
      PROVE  LeaseColumns(item'[f]) /\ item'[f].expiry <= later + LeaseTerm
  <2>1. Recovered(f) \in Item
    BY LapseTypes DEF TypeInv
  <2>2. /\ item'[f].state = "RUNNING"
        /\ item'[f].token = item[f].attempts + 1
        /\ item'[f].owner = r
        /\ item'[f].expiry = now + LeaseTerm
        /\ item'[f].artifact = Recovered(f).artifact
    BY <1>6, <2>1 DEF RowClaimed, Item
  <2>5. Recovered(f).artifact = Null
    BY <1>1, <1>6 DEF RowClaimed, Claimable, Recovered, AfterLapse, Lapsed, LeaseColumns, Item
  <2>3. item[f].attempts \in Nat
    BY <1>1, ConstantsAssumption DEF Item
  <2>4. r # Null
    BY ConstantsAssumption
  <2>. QED BY <1>1, <1>2, <2>2, <2>3, <2>4, <2>5 DEF LeaseColumns
<1>7. ASSUME RowLapsed(f)
      PROVE  LeaseColumns(item'[f]) /\ item'[f].expiry <= later + LeaseTerm
  <2>1. item'[f] = AfterLapse(f) /\ AfterLapse(f) \in Item
    BY <1>7, LapseTypes DEF RowLapsed, TypeInv
  <2>2. /\ item'[f].state = "RETRYABLE" /\ item'[f].token = NoToken /\ item'[f].owner = Null
        /\ item'[f].expiry = 0 /\ item'[f].error = LeaseExpired /\ item'[f].artifact = Null
    BY <1>1, <1>7, <2>1 DEF RowLapsed, Lapsed, AfterLapse, LeaseColumns, Item
  <2>3. LeaseColumns(item'[f])
    BY <1>3, <2>2 DEF LeaseColumns
  <2>4. 0 <= later + LeaseTerm
    BY <1>0, <1>2
  <2>. QED BY <2>2, <2>3, <2>4
<1>8. ASSUME NEW t \in Token, RowRenewed(f, t)
      PROVE  LeaseColumns(item'[f]) /\ item'[f].expiry <= later + LeaseTerm
  <2>1. /\ item[f].state = "RUNNING" /\ item'[f].state = item[f].state
        /\ item'[f].token = item[f].token /\ item'[f].owner = item[f].owner
        /\ item'[f].expiry = now + LeaseTerm /\ item'[f].artifact = item[f].artifact
    BY <1>1, <1>8 DEF RowRenewed, LeaseHeld, Item
  <2>2. now + LeaseTerm # 0 /\ now + LeaseTerm <= later + LeaseTerm
    BY <1>0, <1>2
  <2>3. LeaseColumns(item'[f])
    BY <1>1, <2>1, <2>2 DEF LeaseColumns
  <2>. QED BY <2>1, <2>2, <2>3
<1>9. ASSUME NEW t \in Token, NEW v \in Verdicts, RowFinished(f, t, v)
      PROVE  LeaseColumns(item'[f]) /\ item'[f].expiry <= later + LeaseTerm
  <2>1. /\ item'[f].state = v.outcome /\ item'[f].token = NoToken /\ item'[f].owner = Null
        /\ item'[f].expiry = 0 /\ item'[f].error = v.error /\ item'[f].artifact = v.artifact
    BY <1>1, <1>9 DEF RowFinished, Item
  <2>2. /\ v.outcome \in Outcome
        /\ v.outcome \in Terminal <=> v.artifact # Null
        /\ v.outcome \in {"RETRYABLE", "QUARANTINED"} => v.error # Null
    <3>1. Null \notin RetryErrors /\ Null \notin QuarantineErrors /\ Null \notin Checksum
      BY ConstantsAssumption
    <3>. QED BY <3>1 DEF Verdicts
  <2>3. LeaseColumns(item'[f])
    BY <2>1, <2>2 DEF LeaseColumns
  <2>4. 0 <= later + LeaseTerm
    BY <1>0, <1>2
  <2>. QED BY <2>1, <2>3, <2>4
<1>. QED BY <1>2, <1>4, <1>5, <1>6, <1>7, <1>8, <1>9, RowSteps DEF RowStep

\* Every item keeps its lease columns consistent, whoever writes it.
THEOREM RowsInvariant == Spec => []RowsSound
<1>1. Init => RowsSound
  BY ConstantsAssumption DEF Init, RowsSound, LeaseColumns
<1>. QED BY <1>1, RowsSoundNext, TypeInvariant, PTL DEF Spec

----------------------------------------------------------------------------
(* The attempt history *)

\* AttemptsFollowLeases of one filing, over the values of its rows.
HistoryOf(record, rows, source) ==
    /\ \A n \in Token :
          /\ (rows[n] # Null) <=> (n <= record.attempts)
          /\ rows[n] # Null => rows[n].token = n
          /\ rows[n] # Null =>
                (rows[n].outcome = "OPEN" <=> (record.state = "RUNNING" /\ record.attempts = n))
    /\ record.state = "RUNNING" =>
          /\ record.attempts \in Token
          /\ record.token = record.attempts
          /\ record.owner = rows[record.attempts].run
    /\ record.state \in Outcome =>
          /\ record.attempts \in Token
          /\ rows[record.attempts].outcome = record.state
          /\ rows[record.attempts].error = record.error
          /\ rows[record.attempts].artifact = record.artifact
    /\ record.state \in {"ABSENT", "PENDING"} => record.attempts = 0
    /\ (record.state = "ABSENT") <=> (source = Null)

LEMMA HistoryByRow ==
    AttemptsFollowLeases <=> \A f \in Filing : HistoryOf(item[f], attempt[f], reviewed[f])
BY DEF AttemptsFollowLeases, HistoryOf, OpenLease

LEMMA TokenFacts == /\ Token \subseteq Nat
                    /\ \A n \in Token : n <= n
                    /\ \A n \in 0..MaxAttempts : n # 0 <=> n \in Token
                    /\ \A n \in 0..MaxAttempts : n < MaxAttempts => n + 1 \in Token
BY ConstantsAssumption DEF Token

\* The attempt rows once the one numbered k is finished.
WithClosed(rows, k, outcome, error, c) ==
    [rows EXCEPT ![k] = [@ EXCEPT !.outcome = outcome, !.error = error, !.artifact = c]]

\* Finishing the open attempt of a running row keeps the history exact.
LEMMA HistoryFinished ==
    ASSUME NEW record \in Item, NEW rows \in [Token -> Attempt \cup {Null}], NEW source,
           HistoryOf(record, rows, source), record.state = "RUNNING",
           NEW outcome \in Outcome, NEW error \in Error \cup {Null},
           NEW c \in Checksum \cup {Null}, NEW new, new.state = outcome,
           new.attempts = record.attempts, new.error = error, new.artifact = c
    PROVE  HistoryOf(new, WithClosed(rows, record.attempts, outcome, error, c), source)
<1> DEFINE k == record.attempts
           last == [rows[k] EXCEPT !.outcome = outcome, !.error = error, !.artifact = c]
           news == [rows EXCEPT ![k] = last]
<1>1. k \in Token /\ k \in Nat /\ k <= k
  <2>1. k \in Token
    BY DEF HistoryOf
  <2> HIDE DEF k
  <2>. QED BY <2>1, ConstantsAssumption DEF Token
<1>2. rows[k] \in Attempt /\ rows[k].token = k
  BY <1>1 DEF HistoryOf
<1>3. /\ last.outcome = outcome /\ last.error = error /\ last.artifact = c /\ last.token = k
      /\ last # Null
  <2>1. last.outcome = outcome /\ last.error = error /\ last.artifact = c /\ last.token = k
    BY <1>2 DEF Attempt
  <2>2. last \in Attempt
    BY <1>2 DEF Attempt
  <2>. QED BY <2>1, <2>2, ConstantsAssumption
<1>4. news[k] = last /\ \A n \in Token \ {k} : news[n] = rows[n]
  BY <1>1
<1>5. WithClosed(rows, k, outcome, error, c) = news
  BY DEF WithClosed
<1>. QED BY <1>1, <1>3, <1>4, <1>5 DEF HistoryOf

\* Claiming a row that does not run starts an attempt of its own.
LEMMA HistoryClaimed ==
    ASSUME NEW record \in Item, NEW rows \in [Token -> Attempt \cup {Null}], NEW source,
           HistoryOf(record, rows, source), record.state \in {"PENDING", "RETRYABLE"},
           record.attempts < MaxAttempts, NEW r \in Run, NEW expiry
    PROVE  HistoryOf(
               [record EXCEPT !.state = "RUNNING", !.attempts = record.attempts + 1,
                              !.token = record.attempts + 1, !.owner = r, !.expiry = expiry],
               [rows EXCEPT ![record.attempts + 1] =
                   [outcome |-> "OPEN", token |-> record.attempts + 1, run |-> r,
                    error |-> Null, artifact |-> Null]],
               source)
<1> DEFINE k == record.attempts + 1
           open == [outcome |-> "OPEN", token |-> k, run |-> r,
                    error |-> Null, artifact |-> Null]
           new == [record EXCEPT !.state = "RUNNING", !.attempts = k, !.token = k,
                                 !.owner = r, !.expiry = expiry]
           news == [rows EXCEPT ![k] = open]
<1>1. /\ k \in Token /\ record.attempts \in Nat
      /\ \A n \in Token : n <= k <=> (n = k \/ n <= record.attempts)
      /\ \A n \in Token : n <= record.attempts => n # k
  BY ConstantsAssumption DEF Item, Token
<1>2. open # Null
  BY <1>1, ConstantsAssumption DEF Attempt
<1>3. /\ new.state = "RUNNING" /\ new.attempts = k /\ new.token = k /\ new.owner = r
  BY DEF Item
<1>4. news[k] = open /\ \A n \in Token \ {k} : news[n] = rows[n]
  BY <1>1
<1>5. \A n \in Token : rows[n] # Null => rows[n].outcome # "OPEN"
  BY DEF HistoryOf
<1>. QED BY <1>1, <1>2, <1>3, <1>4, <1>5 DEF HistoryOf

\* Finishing a lease by its token finishes exactly its own attempt.
LEMMA FinishOpen ==
    ASSUME TypeInv, AttemptsFollowLeases, NEW f \in Filing, item[f].state = "RUNNING",
           NEW outcome, NEW error, NEW c
    PROVE  Finish(f, item[f].token, outcome, error, c)
             = WithClosed(attempt[f], item[f].attempts, outcome, error, c)
<1>1. attempt[f] \in [Token -> Attempt \cup {Null}] /\ item[f] \in Item
  BY DEF TypeInv, TypeOK
<1>2. HistoryOf(item[f], attempt[f], reviewed[f])
  BY HistoryByRow
<1>3. /\ item[f].attempts \in Token /\ item[f].token = item[f].attempts
      /\ attempt[f][item[f].attempts] # Null
      /\ attempt[f][item[f].attempts].token = item[f].attempts
      /\ attempt[f][item[f].attempts].outcome = "OPEN"
  <2>1. item[f].attempts \in Token
    BY <1>2 DEF HistoryOf
  <2>2. item[f].attempts <= item[f].attempts
    BY <2>1, TokenFacts
  <2>. QED BY <1>2, <2>1, <2>2 DEF HistoryOf
<1>4. \A n \in Token : attempt[f][n] # Null => attempt[f][n].token = n
  BY <1>2 DEF HistoryOf
<1>. QED BY <1>1, <1>3, <1>4 DEF Finish, WithClosed

\* The rows a claim starts from are an exact history again.
LEMMA HistoryLapsed ==
    ASSUME TypeInv, RowsSound, AttemptsFollowLeases, NEW f \in Filing, Lapsed(f)
    PROVE  HistoryOf(AfterLapse(f), FinishLapsed(f), reviewed[f])
<1>1. /\ attempt[f] \in [Token -> Attempt \cup {Null}] /\ item[f] \in Item
      /\ HistoryOf(item[f], attempt[f], reviewed[f])
      /\ item[f].state = "RUNNING"
      /\ LeaseExpired \in Error \cup {Null}
      /\ Null \in Checksum \cup {Null}
      /\ "RETRYABLE" \in Outcome
  BY HistoryByRow, LapseTypes DEF TypeInv, TypeOK, Lapsed
<1>2. /\ AfterLapse(f).state = "RETRYABLE" /\ AfterLapse(f).attempts = item[f].attempts
      /\ AfterLapse(f).error = LeaseExpired /\ AfterLapse(f).artifact = Null
  BY <1>1 DEF AfterLapse, RowsSound, LeaseColumns, Item
<1>3. FinishLapsed(f) = WithClosed(attempt[f], item[f].attempts, "RETRYABLE", LeaseExpired, Null)
  BY <1>1, FinishOpen DEF FinishLapsed
<1> HIDE DEF Outcome
<1>. QED BY <1>1, <1>2, <1>3, HistoryFinished

LEMMA HistoryNext ==
    TypeInv /\ RowsSound /\ AttemptsFollowLeases /\ [Next]_ledgerVars => AttemptsFollowLeases'
<1> SUFFICES ASSUME TypeInv, RowsSound, AttemptsFollowLeases, [Next]_ledgerVars,
                    NEW f \in Filing
             PROVE  HistoryOf(item'[f], attempt'[f], reviewed'[f])
  BY DEF AttemptsFollowLeases, HistoryOf, OpenLease
<1>1. /\ item[f] \in Item /\ attempt[f] \in [Token -> Attempt \cup {Null}]
      /\ HistoryOf(item[f], attempt[f], reviewed[f])
  BY HistoryByRow DEF TypeInv, TypeOK
<1>2. CASE RowKept(f)
  BY <1>1, <1>2 DEF RowKept
<1>3. CASE RowReviewed(f)
  <2>1. /\ item'[f].state = "PENDING" /\ item'[f].attempts = item[f].attempts
        /\ item[f].state = "ABSENT" /\ attempt'[f] = attempt[f] /\ reviewed'[f] # Null
    BY <1>1, <1>3, ConstantsAssumption DEF RowReviewed, Item
  <2>. QED BY <1>1, <2>1 DEF HistoryOf
<1>4. ASSUME NEW r \in Run, RowClaimed(f, r)
      PROVE  HistoryOf(item'[f], attempt'[f], reviewed'[f])
  <2> DEFINE rows == IF Lapsed(f) THEN FinishLapsed(f) ELSE attempt[f]
  <2>1. Recovered(f) \in Item /\ rows \in [Token -> Attempt \cup {Null}]
    BY <1>1, LapseTypes DEF TypeInv
  <2>2. HistoryOf(Recovered(f), rows, reviewed[f])
    BY <1>1, HistoryLapsed DEF Recovered
  <2>3. /\ Recovered(f).state \in {"PENDING", "RETRYABLE"}
        /\ Recovered(f).attempts < MaxAttempts
    BY <1>4 DEF RowClaimed, Claimable
  <2>4. Recovered(f).attempts = item[f].attempts
    BY <1>1 DEF Recovered, AfterLapse, Item
  <2> HIDE DEF rows
  <2>5. HistoryOf(
          [Recovered(f) EXCEPT !.state = "RUNNING", !.attempts = item[f].attempts + 1,
             !.token = item[f].attempts + 1, !.owner = r, !.expiry = now + LeaseTerm],
          [rows EXCEPT ![item[f].attempts + 1] =
             [outcome |-> "OPEN", token |-> item[f].attempts + 1, run |-> r,
              error |-> Null, artifact |-> Null]],
          reviewed[f])
    BY <2>1, <2>2, <2>3, <2>4, HistoryClaimed
  <2>. QED BY <1>4, <2>5 DEF RowClaimed, rows
<1>5. CASE RowLapsed(f)
  BY <1>5, HistoryLapsed DEF RowLapsed
<1>6. ASSUME NEW t \in Token, RowRenewed(f, t)
      PROVE  HistoryOf(item'[f], attempt'[f], reviewed'[f])
  <2>1. /\ item'[f].state = item[f].state /\ item'[f].attempts = item[f].attempts
        /\ item'[f].token = item[f].token /\ item'[f].owner = item[f].owner
        /\ item[f].state = "RUNNING"
        /\ attempt'[f] = attempt[f] /\ reviewed'[f] = reviewed[f]
    BY <1>1, <1>6 DEF RowRenewed, LeaseHeld, Item
  <2>. QED BY <1>1, <2>1 DEF HistoryOf
<1>7. ASSUME NEW t \in Token, NEW v \in Verdicts, RowFinished(f, t, v)
      PROVE  HistoryOf(item'[f], attempt'[f], reviewed'[f])
  <2>1. /\ v.outcome \in Outcome /\ v.error \in Error \cup {Null}
        /\ v.artifact \in Checksum \cup {Null}
    BY ConstantsAssumption DEF Verdicts
  <2>2. /\ item'[f].state = v.outcome /\ item'[f].attempts = item[f].attempts
        /\ item'[f].error = v.error /\ item'[f].artifact = v.artifact
        /\ item[f].state = "RUNNING" /\ item[f].token = t
    BY <1>1, <1>7 DEF RowFinished, LeaseHeld, Item
  <2>3. attempt'[f] = WithClosed(attempt[f], item[f].attempts, v.outcome, v.error, v.artifact)
    BY <1>7, <2>2, FinishOpen DEF RowFinished
  <2> HIDE DEF Outcome
  <2>4. HistoryOf(item'[f], attempt'[f], reviewed[f])
    BY <1>1, <2>1, <2>2, <2>3, HistoryFinished
  <2>. QED BY <1>7, <2>4 DEF RowFinished
<1>. QED BY <1>2, <1>3, <1>4, <1>5, <1>6, <1>7, RowSteps DEF RowStep

\* Attempts 1..n exist for the n leases given so far, the last of them is
\* open exactly while its item runs, and it ends the way the item did.
THEOREM AttemptsExact == Spec => []AttemptsFollowLeases
<1>1. Init => AttemptsFollowLeases
  <2> SUFFICES ASSUME Init, NEW f \in Filing
               PROVE  HistoryOf(item[f], attempt[f], reviewed[f])
    BY HistoryByRow
  <2>1. \A n \in Token : ~(n <= 0)
    BY ConstantsAssumption DEF Token
  <2>. QED BY <2>1 DEF Init, HistoryOf
<1>. QED BY <1>1, HistoryNext, TypeInvariant, RowsInvariant, PTL DEF Spec

----------------------------------------------------------------------------
(* The triggers *)

\* A step of the rows of a filing passes their CHECK constraints and their
\* transition trigger.
RowAllowed(f) ==
    /\ RowConstraints(item'[f])
    /\ TransitionAllowed(item[f], Intermediate(f, item'[f]))
    /\ TransitionAllowed(Intermediate(f, item'[f]), item'[f])

LEMMA RowsAllowed ==
    ASSUME TypeInv, RowsSound, RowsSound', AttemptsFollowLeases, [Next]_ledgerVars,
           NEW f \in Filing
    PROVE  RowAllowed(f)
<1>1. /\ item[f] \in Item /\ LeaseColumns(item[f]) /\ LeaseColumns(item'[f])
      /\ item[f].expiry <= now + LeaseTerm
  BY DEF TypeInv, TypeOK, RowsSound, LeaseColumns
<1>2. RowConstraints(item'[f])
  BY <1>1 DEF LeaseColumns, RowConstraints
<1>3. TransitionAllowed(item[f], item[f])
  <2>1. item[f] = [item[f] EXCEPT !.expiry = item[f].expiry]
    BY <1>1 DEF Item
  <2>. QED BY <1>1, <2>1 DEF TransitionAllowed, LeaseColumns
<1>4. CASE RowKept(f)
  BY <1>2, <1>3, <1>4 DEF RowAllowed, RowKept, Intermediate
<1>5. CASE RowReviewed(f)
  <2>1. item'[f].state = "PENDING" /\ item[f].state = "ABSENT"
    BY <1>1, <1>5 DEF RowReviewed, Item
  <2>2. TransitionAllowed(item[f], item'[f])
    BY <1>1, <2>1 DEF TransitionAllowed, LeaseColumns
  <2>. QED BY <1>2, <1>3, <2>1, <2>2 DEF RowAllowed, Intermediate, Lapsed
<1>6. ASSUME Lapsed(f)
      PROVE  /\ AfterLapse(f).state = "RETRYABLE"
             /\ TransitionAllowed(item[f], AfterLapse(f))
             /\ TransitionAllowed(AfterLapse(f), AfterLapse(f))
  <2>1. /\ AfterLapse(f).state = "RETRYABLE" /\ AfterLapse(f).token = NoToken
        /\ AfterLapse(f).owner = Null /\ AfterLapse(f).error = LeaseExpired
        /\ AfterLapse(f).attempts = item[f].attempts /\ item[f].state = "RUNNING"
    BY <1>1, <1>6 DEF AfterLapse, Lapsed, Item
  <2>2. LeaseExpired # Null
    BY ConstantsAssumption, LapseTypes DEF TypeInv
  <2>. QED BY <2>1, <2>2 DEF TransitionAllowed
<1>7. ASSUME NEW r \in Run, RowClaimed(f, r) PROVE RowAllowed(f)
  <2>1. Recovered(f) \in Item /\ Recovered(f).state \in {"PENDING", "RETRYABLE"}
        /\ Recovered(f).attempts = item[f].attempts
    BY <1>1, <1>7, LapseTypes DEF RowClaimed, Claimable, Recovered, AfterLapse, Item, TypeInv
  <2>2. item'[f].state = "RUNNING" /\ item'[f].attempts = item[f].attempts + 1
        /\ item[f].attempts + 1 # item[f].attempts
    BY <1>1, <1>7, <2>1, ConstantsAssumption DEF RowClaimed, Item
  <2>3. TransitionAllowed(Recovered(f), item'[f])
    BY <2>1, <2>2 DEF TransitionAllowed
  <2>4. Intermediate(f, item'[f]) = Recovered(f)
    BY <2>2 DEF Intermediate, Recovered
  <2>. QED BY <1>2, <1>3, <1>6, <2>3, <2>4 DEF RowAllowed, Recovered
<1>8. CASE RowLapsed(f)
  <2>1. item'[f] = AfterLapse(f) /\ item[f].state = "RUNNING" /\ Lapsed(f)
    BY <1>8 DEF RowLapsed, Lapsed
  <2>. QED BY <1>2, <1>6, <2>1 DEF RowAllowed, Intermediate
<1>9. ASSUME NEW t \in Token, RowRenewed(f, t) PROVE RowAllowed(f)
  <2>1. item[f].state = "RUNNING" /\ item'[f] = [item[f] EXCEPT !.expiry = now + LeaseTerm]
        /\ ~Lapsed(f)
    BY <1>1, <1>9 DEF RowRenewed, LeaseHeld, Lapsed, TypeInv, TypeOK, Item
  <2>2. item'[f].state = "RUNNING" /\ item'[f].expiry = now + LeaseTerm
        /\ (item'[f] = item[f] \/ item'[f].expiry > item[f].expiry)
    <3>1. item'[f].state = "RUNNING" /\ item'[f].expiry = now + LeaseTerm
      BY <1>1, <2>1 DEF Item
    <3>2. item[f].expiry = now + LeaseTerm \/ now + LeaseTerm > item[f].expiry
      <4>1. item[f].expiry \in Nat
        BY <1>1 DEF Item
      <4>2. now \in Nat /\ LeaseTerm \in Nat /\ item[f].expiry <= now + LeaseTerm
        BY <1>1, ConstantsAssumption DEF TypeInv, TypeOK
      <4>. QED BY <4>1, <4>2
    <3>3. item[f].expiry = now + LeaseTerm => item'[f] = item[f]
      BY <1>1, <2>1 DEF Item
    <3>. QED BY <3>1, <3>2, <3>3
  <2>3. TransitionAllowed(item[f], item'[f])
    BY <2>1, <2>2 DEF TransitionAllowed
  <2>. QED BY <1>2, <1>3, <2>1, <2>3 DEF RowAllowed, Intermediate
<1>10. ASSUME NEW t \in Token, NEW v \in Verdicts, RowFinished(f, t, v) PROVE RowAllowed(f)
  <2>1. item[f].state = "RUNNING" /\ ~Lapsed(f)
    BY <1>1, <1>10 DEF RowFinished, LeaseHeld, Lapsed, TypeInv, TypeOK, Item
  <2>2. item'[f].state = v.outcome /\ item'[f].attempts = item[f].attempts
        /\ v.outcome \in Outcome
    BY <1>1, <1>10 DEF RowFinished, Item, Verdicts
  <2>3. TransitionAllowed(item[f], item'[f])
    BY <1>1, <2>1, <2>2 DEF TransitionAllowed, LeaseColumns
  <2>. QED BY <1>2, <1>3, <2>1, <2>3 DEF RowAllowed, Intermediate
<1>. QED BY <1>4, <1>5, <1>7, <1>8, <1>9, <1>10, RowSteps DEF RowStep

\* So does a step of its attempts, the closed one of a lapsed lease included.
AttemptsAllowed(f) ==
    \A n \in Token : AttemptAllowed(attempt[f][n], attempt'[f][n], n,
                                    {Intermediate(f, item'[f]), item'[f]})

\* The open attempt is closed with what a row of the item says.
LEMMA ClosedAllowed ==
    ASSUME TypeInv, AttemptsFollowLeases, NEW f \in Filing, item[f].state = "RUNNING",
           NEW final, final.state \in Outcome, final.attempts = item[f].attempts,
           NEW rows, final \in rows, NEW n \in Token
    PROVE  AttemptAllowed(attempt[f][n],
                          Finish(f, item[f].token, final.state, final.error, final.artifact)[n], n, rows)
<1> DEFINE k == item[f].attempts
<1>1. /\ attempt[f] \in [Token -> Attempt \cup {Null}]
      /\ HistoryOf(item[f], attempt[f], reviewed[f])
  BY HistoryByRow DEF TypeInv, TypeOK
<1>2. Finish(f, item[f].token, final.state, final.error, final.artifact)
        = WithClosed(attempt[f], k, final.state, final.error, final.artifact)
  BY FinishOpen
<1>3. CASE n = k
  <2>1. attempt[f][n] # Null /\ attempt[f][n].outcome = "OPEN"
    BY <1>1, <1>3, TokenFacts DEF HistoryOf
  <2>2. WithClosed(attempt[f], k, final.state, final.error, final.artifact)[n]
          = [attempt[f][n] EXCEPT !.outcome = final.state, !.error = final.error,
                                  !.artifact = final.artifact]
    BY <1>1, <1>3 DEF WithClosed
  <2> HIDE DEF k
  <2>. QED BY <1>2, <1>3, <2>1, <2>2 DEF AttemptAllowed, k
<1>4. CASE n # k
  <2>1. WithClosed(attempt[f], k, final.state, final.error, final.artifact)[n] = attempt[f][n]
    BY <1>1, <1>4 DEF WithClosed
  <2>. QED BY <1>2, <2>1 DEF AttemptAllowed
<1>. QED BY <1>3, <1>4

LEMMA AttemptsStep ==
    ASSUME TypeInv, RowsSound, AttemptsFollowLeases, [Next]_ledgerVars, NEW f \in Filing
    PROVE  AttemptsAllowed(f)
<1>1. /\ item[f] \in Item /\ LeaseColumns(item[f])
      /\ attempt[f] \in [Token -> Attempt \cup {Null}]
      /\ HistoryOf(item[f], attempt[f], reviewed[f])
  BY HistoryByRow DEF TypeInv, TypeOK, RowsSound
<1>2. ASSUME attempt'[f] = attempt[f] PROVE AttemptsAllowed(f)
  BY <1>2 DEF AttemptsAllowed, AttemptAllowed
<1>3. ASSUME Lapsed(f)
      PROVE  /\ item[f].state = "RUNNING" /\ AfterLapse(f).state = "RETRYABLE"
             /\ AfterLapse(f).attempts = item[f].attempts
             /\ AfterLapse(f).error = LeaseExpired /\ AfterLapse(f).artifact = Null
  BY <1>1, <1>3 DEF AfterLapse, Lapsed, LeaseColumns, Item
<1>4. ASSUME Lapsed(f), NEW n \in Token, NEW rows, AfterLapse(f) \in rows
      PROVE  AttemptAllowed(attempt[f][n], FinishLapsed(f)[n], n, rows)
  <2>1. AfterLapse(f).state \in Outcome
    BY <1>3, <1>4 DEF Outcome
  <2>2. AttemptAllowed(attempt[f][n],
           Finish(f, item[f].token, AfterLapse(f).state, AfterLapse(f).error,
                  AfterLapse(f).artifact)[n], n, rows)
    BY <1>3, <1>4, <2>1, ClosedAllowed
  <2>. QED BY <1>3, <1>4, <2>2 DEF FinishLapsed
<1>5. ASSUME NEW r \in Run, RowClaimed(f, r) PROVE AttemptsAllowed(f)
  <2> DEFINE k == item[f].attempts + 1
             rows == IF Lapsed(f) THEN FinishLapsed(f) ELSE attempt[f]
             open == [outcome |-> "OPEN", token |-> k, run |-> r, error |-> Null, artifact |-> Null]
  <2>1. Recovered(f) \in Item /\ Recovered(f).attempts = item[f].attempts
        /\ Recovered(f).attempts < MaxAttempts
    BY <1>1, <1>5, LapseTypes DEF RowClaimed, Claimable, Recovered, AfterLapse, Item, TypeInv
  <2>2. /\ item'[f].state = "RUNNING" /\ item'[f].attempts = k /\ item'[f].token = k
        /\ k \in Token /\ k # item[f].attempts
    BY <1>1, <1>5, <2>1, ConstantsAssumption DEF RowClaimed, Item, Token
  <2>3. Intermediate(f, item'[f]) = Recovered(f)
    BY <2>1, <2>2 DEF Intermediate, Recovered
  <2>4. attempt'[f] = [rows EXCEPT ![k] = open] /\ rows \in [Token -> Attempt \cup {Null}]
    BY <1>1, <1>5, LapseTypes DEF RowClaimed, TypeInv
  <2>5. attempt[f][k] = Null
    <3>1. k \in Nat /\ item[f].attempts \in Nat /\ ~(k <= item[f].attempts)
      BY <1>1, <2>2, ConstantsAssumption DEF Item
    <3> HIDE DEF k
    <3>. QED BY <1>1, <2>2, <3>1 DEF HistoryOf
  <2> HIDE DEF k
  <2>6. ASSUME NEW n \in Token
        PROVE  AttemptAllowed(attempt[f][n], attempt'[f][n], n,
                              {Intermediate(f, item'[f]), item'[f]})
    <3>1. CASE n = k
      <4>1. attempt'[f][n] = open
        BY <2>2, <2>4, <3>1
      <4>2. attempt'[f][n].outcome = "OPEN" /\ attempt'[f][n].token = k
        BY <4>1
      <4>. QED BY <2>2, <2>5, <3>1, <4>2 DEF AttemptAllowed
    <3>2. CASE n # k /\ Lapsed(f)
      <4>1. attempt'[f][n] = FinishLapsed(f)[n]
        BY <2>4, <3>2
      <4>2. AfterLapse(f) \in {Intermediate(f, item'[f]), item'[f]}
        BY <2>3, <3>2 DEF Recovered
      <4>. QED BY <1>4, <3>2, <4>1, <4>2
    <3>3. CASE n # k /\ ~Lapsed(f)
      BY <2>4, <3>3 DEF AttemptAllowed
    <3>. QED BY <3>1, <3>2, <3>3
  <2>. QED BY <2>6 DEF AttemptsAllowed
<1>6. CASE RowLapsed(f)
  BY <1>4, <1>6 DEF RowLapsed, AttemptsAllowed
<1>7. ASSUME NEW t \in Token, NEW v \in Verdicts, RowFinished(f, t, v) PROVE AttemptsAllowed(f)
  <2>1. /\ item[f].state = "RUNNING" /\ item[f].token = t
        /\ item'[f].state = v.outcome /\ item'[f].attempts = item[f].attempts
        /\ item'[f].error = v.error /\ item'[f].artifact = v.artifact
        /\ v.outcome \in Outcome
    BY <1>1, <1>7 DEF RowFinished, LeaseHeld, Item, Verdicts, Outcome, Terminal
  <2>2. attempt'[f] = Finish(f, item[f].token, item'[f].state, item'[f].error, item'[f].artifact)
    BY <1>7, <2>1 DEF RowFinished
  <2>. QED BY <2>1, <2>2, ClosedAllowed DEF AttemptsAllowed
<1>8. ASSUME NEW t \in Token, RowRenewed(f, t) PROVE AttemptsAllowed(f)
  BY <1>2, <1>8 DEF RowRenewed
<1>9. CASE RowKept(f) \/ RowReviewed(f)
  BY <1>2, <1>9 DEF RowKept, RowReviewed
<1>. QED BY <1>5, <1>6, <1>7, <1>8, <1>9, RowSteps DEF RowStep

\* No transaction of the repository is refused by the triggers and CHECK
\* constraints that stand behind it: the code keeps the rules by itself.
THEOREM TriggersNeverTrip == Spec => GuardsNeverTrip
<1>1. ASSUME TypeInv, TypeInv', RowsSound, RowsSound', AttemptsFollowLeases,
             EvidenceMatchesReview', [Next]_ledgerVars
      PROVE  [\A f \in Filing :
               /\ RowConstraints(item'[f])
               /\ TransitionAllowed(item[f], Intermediate(f, item'[f]))
               /\ TransitionAllowed(Intermediate(f, item'[f]), item'[f])
               /\ \A n \in Token : AttemptAllowed(attempt[f][n], attempt'[f][n], n,
                                                 {Intermediate(f, item'[f]), item'[f]})
               /\ item'[f] # item[f] =>
                    AcceptanceAllowed(item'[f], reviewed'[f],
                                      artifact'[item'[f].artifact])]_ledgerVars
  <2>1. ASSUME NEW f \in Filing
        PROVE  AcceptanceAllowed(item'[f], reviewed'[f], artifact'[item'[f].artifact])
    BY <1>1 DEF EvidenceMatchesReview, AcceptanceAllowed
  <2>. QED BY <1>1, <2>1, RowsAllowed, AttemptsStep DEF RowAllowed, AttemptsAllowed
<1>2. Spec => []EvidenceMatchesReview
  BY EvidenceSound, PTL DEF EvidenceIsSound
<1>. QED
  BY <1>1, <1>2, TypeInvariant, RowsInvariant, AttemptsExact, PTL DEF Spec, GuardsNeverTrip

----------------------------------------------------------------------------
(* What the other tables say of the items *)

LEMMA QuarantineNext ==
    TypeInv /\ QuarantineExplained /\ [Next]_ledgerVars => QuarantineExplained'
<1> SUFFICES ASSUME TypeInv, QuarantineExplained, [Next]_ledgerVars
             PROVE  QuarantineExplained'
  OBVIOUS
<1> USE DEF QuarantineExplained
<1>1. CASE Quiet
  BY <1>1 DEF Quiet
<1>2. ASSUME NEW f \in Filing, NEW t \in Token, NEW c \in Checksum, NEW l \in Label,
             CompleteAccepted(f, t, c, l)
      PROVE  QuarantineExplained'
  <2>1. Finalize(f, t, "ACCEPTED", Null, c) /\ issues \subseteq issues'
    BY <1>2 DEF CompleteAccepted
  <2>2. item'[f].state = "ACCEPTED" /\ \A g \in Filing \ {f} : item'[g] = item[g]
    BY <2>1, FinalizeRow
  <2>. QED BY <2>1, <2>2
<1>3. ASSUME NEW f \in Filing, NEW t \in Token, NEW c \in Checksum, NEW e \in QuarantineErrors,
             CompleteQuarantined(f, t, c, e)
      PROVE  QuarantineExplained'
  <2>1. Finalize(f, t, "QUARANTINED", e, c) /\ issues' = issues \cup {<<c, e.summary>>}
    BY <1>3 DEF CompleteQuarantined
  <2>2. /\ item'[f].artifact = c /\ item'[f].error = e
        /\ \A g \in Filing \ {f} : item'[g] = item[g]
    BY <2>1, FinalizeRow
  <2>. QED BY <2>1, <2>2
<1>. QED BY <1>1, <1>2, <1>3, QuietOrComplete

LEMMA ProfileNext ==
    TypeInv /\ EvidenceIsSound /\ ProfileFromAcceptedFiling /\ [Next]_ledgerVars
      => ProfileFromAcceptedFiling'
<1> SUFFICES ASSUME TypeInv, EvidenceIsSound, ProfileFromAcceptedFiling, [Next]_ledgerVars,
                    NEW i \in Issuer, profile'[i] # "UNVERIFIED"
             PROVE  \E f \in Filing : IssuerOf[f] = i /\ item'[f].state = "ACCEPTED"
  BY DEF ProfileFromAcceptedFiling
<1>1. CASE profile[i] # "UNVERIFIED"
  <2>1. PICK f \in Filing : IssuerOf[f] = i /\ item[f].state = "ACCEPTED"
    BY <1>1 DEF ProfileFromAcceptedFiling
  <2>2. item'[f] = item[f]
    BY <2>1, DecidedKept DEF Kept, EvidenceIsSound
  <2>. QED BY <2>1, <2>2
<1>2. CASE profile[i] = "UNVERIFIED"
  <2>1. ~Quiet
    BY <1>2 DEF Quiet
  <2>2. ASSUME NEW f \in Filing, NEW t \in Token, NEW c \in Checksum, NEW l \in Label,
               CompleteAccepted(f, t, c, l)
        PROVE  IssuerOf[f] = i /\ item'[f].state = "ACCEPTED"
    <3>1. IssuerOf[f] = i
      BY <1>2, <2>2 DEF CompleteAccepted, TypeInv, TypeOK
    <3>. QED BY <2>2, <3>1, FinalizeRow DEF CompleteAccepted
  <2>3. ASSUME NEW f \in Filing, NEW t \in Token, NEW c \in Checksum,
               NEW e \in QuarantineErrors, CompleteQuarantined(f, t, c, e)
        PROVE  FALSE
    BY <1>2, <2>3 DEF CompleteQuarantined
  <2>. QED BY <2>1, <2>2, <2>3, QuietOrComplete
<1>. QED BY <1>1, <1>2

\* An attempt that was followed by another one failed for the time being.
EarlierFailed ==
    \A f \in Filing : \A n \in Token :
        n < item[f].attempts => attempt[f][n].outcome = "RETRYABLE"

LEMMA EarlierNext ==
    TypeInv /\ RowsSound /\ AttemptsFollowLeases /\ EarlierFailed /\ [Next]_ledgerVars
      => EarlierFailed'
<1> SUFFICES ASSUME TypeInv, RowsSound, AttemptsFollowLeases, EarlierFailed,
                    [Next]_ledgerVars, NEW f \in Filing, NEW n \in Token,
                    n < item'[f].attempts
             PROVE  attempt'[f][n].outcome = "RETRYABLE"
  BY DEF EarlierFailed
<1>1. /\ item[f] \in Item /\ attempt[f] \in [Token -> Attempt \cup {Null}]
      /\ HistoryOf(item[f], attempt[f], reviewed[f])
      /\ item[f].attempts \in Nat /\ n \in Nat
  BY HistoryByRow, TokenFacts, ConstantsAssumption DEF TypeInv, TypeOK, Item
<1>2. n < item[f].attempts => attempt[f][n].outcome = "RETRYABLE"
  BY DEF EarlierFailed
<1>3. ASSUME NEW outcome, NEW error, NEW c, n # item[f].attempts, n < item[f].attempts
      PROVE  WithClosed(attempt[f], item[f].attempts, outcome, error, c)[n].outcome = "RETRYABLE"
  BY <1>1, <1>2, <1>3 DEF WithClosed
<1>4. ASSUME Lapsed(f)
      PROVE  FinishLapsed(f)
               = WithClosed(attempt[f], item[f].attempts, "RETRYABLE", LeaseExpired, Null)
  BY <1>4, FinishOpen DEF FinishLapsed, Lapsed
<1>5. CASE RowKept(f)
  BY <1>2, <1>5 DEF RowKept
<1>6. CASE RowReviewed(f)
  BY <1>1, <1>2, <1>6 DEF RowReviewed, Item
<1>7. ASSUME NEW r \in Run, RowClaimed(f, r) PROVE attempt'[f][n].outcome = "RETRYABLE"
  <2> DEFINE rows == IF Lapsed(f) THEN FinishLapsed(f) ELSE attempt[f]
  <2>1. Recovered(f) \in Item /\ rows \in [Token -> Attempt \cup {Null}]
    BY <1>1, LapseTypes DEF TypeInv
  <2>2. HistoryOf(Recovered(f), rows, reviewed[f])
    BY <1>1, HistoryLapsed DEF Recovered
  <2>3. /\ Recovered(f).state \in {"PENDING", "RETRYABLE"}
        /\ Recovered(f).attempts = item[f].attempts
    BY <1>1, <1>7 DEF RowClaimed, Claimable, Recovered, AfterLapse, Item
  <2>4. item'[f].attempts = item[f].attempts + 1
    BY <1>7, <2>1 DEF RowClaimed, Item
  <2>5. n <= item[f].attempts /\ n # item[f].attempts + 1
    BY <1>1, <2>4
  <2>6. attempt'[f][n] = rows[n]
    BY <1>7, <2>1, <2>5 DEF RowClaimed
  <2> HIDE DEF rows
  <2>7. CASE n = item[f].attempts
    <3>1. Recovered(f).state = "RETRYABLE"
      BY <1>1, <2>2, <2>3, <2>7, TokenFacts, ConstantsAssumption DEF HistoryOf, Token
    <3>. QED BY <2>2, <2>3, <2>6, <2>7, <3>1 DEF HistoryOf
  <2>8. CASE n # item[f].attempts
    <3>1. n < item[f].attempts
      BY <1>1, <2>5, <2>8
    <3>. QED BY <1>2, <1>3, <1>4, <2>6, <2>8, <3>1 DEF rows
  <2>. QED BY <2>7, <2>8
<1>8. CASE RowLapsed(f)
  <2>1. item'[f].attempts = item[f].attempts
    BY <1>1, <1>8 DEF RowLapsed, AfterLapse, Item
  <2>2. n < item[f].attempts /\ n # item[f].attempts
    BY <1>1, <2>1
  <2>. QED BY <1>3, <1>4, <1>8, <2>2 DEF RowLapsed
<1>9. ASSUME NEW t \in Token, RowRenewed(f, t) PROVE attempt'[f][n].outcome = "RETRYABLE"
  BY <1>1, <1>2, <1>9 DEF RowRenewed, Item
<1>10. ASSUME NEW t \in Token, NEW v \in Verdicts, RowFinished(f, t, v)
       PROVE  attempt'[f][n].outcome = "RETRYABLE"
  <2>1. /\ item'[f].attempts = item[f].attempts
        /\ item[f].state = "RUNNING" /\ item[f].token = t
    BY <1>1, <1>10 DEF RowFinished, LeaseHeld, Item
  <2>2. n < item[f].attempts /\ n # item[f].attempts
    BY <1>1, <2>1
  <2>3. attempt'[f] = WithClosed(attempt[f], item[f].attempts, v.outcome, v.error, v.artifact)
    BY <1>10, <2>1, FinishOpen DEF RowFinished
  <2>. QED BY <1>3, <2>2, <2>3
<1>. QED BY <1>5, <1>6, <1>7, <1>8, <1>9, <1>10, RowSteps DEF RowStep

\* Only finitely many filings were ever reviewed: a manifest is a file.
Reviewed == {f \in Filing : reviewed[f] # Null}

FinitelyReviewed == IsFiniteSet(Reviewed)

LEMMA ReviewedFinite ==
    TypeInv /\ FinitelyReviewed /\ [Next]_ledgerVars => FinitelyReviewed'
<1> SUFFICES ASSUME TypeInv, IsFiniteSet(Reviewed), [Next]_ledgerVars
             PROVE  IsFiniteSet(Reviewed')
  BY DEF FinitelyReviewed
<1>1. ASSUME NEW m \in Manifests, SyncReviewed(m) PROVE IsFiniteSet(Reviewed')
  <2>1. IsFiniteSet(Reviewed \cup DOMAIN m)
    BY ConstantsAssumption, FS_Union
  <2>2. Reviewed' \subseteq Reviewed \cup DOMAIN m
    BY <1>1 DEF SyncReviewed, Reviewed
  <2>. QED BY <2>1, <2>2, FS_Subset
<1>2. CASE ~\E m \in Manifests : SyncReviewed(m)
  <2>1. reviewed' = reviewed
    BY <1>2, ZenonT(60) DEF Next, Tick, Claim, ClaimSpent, Renew, FinalizeRetryable, StartCompletion,
                RollBack, CompleteAccepted, CompleteQuarantined, ExpireLeases, ledgerVars
  <2>. QED BY <2>1 DEF Reviewed
<1>. QED BY <1>1, <1>2

\* Two sets that share no member count as many members as their union.
LEMMA CountParts ==
    ASSUME NEW S, IsFiniteSet(S), NEW A, NEW B, A \cup B = S, A \cap B = {}
    PROVE  /\ IsFiniteSet(A) /\ IsFiniteSet(B)
           /\ Cardinality(A) \in Nat /\ Cardinality(B) \in Nat
           /\ Cardinality(S) = Cardinality(A) + Cardinality(B)
<1>1. IsFiniteSet(A) /\ IsFiniteSet(B)
  BY FS_Subset
<1>2. Cardinality(A) \in Nat /\ Cardinality(B) \in Nat
  BY <1>1, FS_CardinalityType
<1>3. Cardinality(A \cup B) = Cardinality(A) + Cardinality(B) - Cardinality(A \cap B)
  BY <1>1, FS_Union
<1>4. Cardinality(A \cap B) = 0
  BY FS_EmptySet
<1>. QED BY <1>1, <1>2, <1>3, <1>4

\* Whatever a run reports adds up to the size of its manifest.
LEMMA ReportAddsUp ==
    ASSUME NEW F \in SUBSET Filing, IsFiniteSet(F), NEW r \in Run
    PROVE  /\ Progress(F, r).accepted + Progress(F, r).skippedAccepted
                 + Progress(F, r).remaining = Progress(F, r).manifest
           /\ Progress(F, r).quarantined + Progress(F, r).retryable
                 + Progress(F, r).leasedElsewhere <= Progress(F, r).remaining
<1> DEFINE done == {f \in F : item[f].state = "ACCEPTED"}
           mine == {f \in F : item[f].state = "ACCEPTED" /\ AcceptedInRun(f, r)}
           others == {f \in F : item[f].state = "ACCEPTED" /\ ~AcceptedInRun(f, r)}
           rest == {f \in F : item[f].state # "ACCEPTED"}
           quarantined == {f \in F : item[f].state = "QUARANTINED"}
           retryable == {f \in F : item[f].state = "RETRYABLE"}
           leased == {f \in F : item[f].state = "RUNNING" /\ ~Lapsed(f)}
           failed == quarantined \cup retryable
           busy == failed \cup leased
<1>0. /\ Progress(F, r).accepted = Cardinality(mine)
      /\ Progress(F, r).skippedAccepted = Cardinality(others)
      /\ Progress(F, r).remaining = Cardinality(rest)
      /\ Progress(F, r).manifest = Cardinality(F)
      /\ Progress(F, r).quarantined = Cardinality(quarantined)
      /\ Progress(F, r).retryable = Cardinality(retryable)
      /\ Progress(F, r).leasedElsewhere = Cardinality(leased)
  BY DEF Progress
<1>1. /\ done \cup rest = F /\ done \cap rest = {}
      /\ mine \cup others = done /\ mine \cap others = {}
      /\ quarantined \cap retryable = {} /\ failed \cap leased = {}
      /\ busy \subseteq rest /\ failed \subseteq busy
  OBVIOUS
<1> HIDE DEF done, mine, others, rest, quarantined, retryable, leased, failed, busy
<1>2. /\ IsFiniteSet(done) /\ IsFiniteSet(rest)
      /\ Cardinality(done) \in Nat /\ Cardinality(rest) \in Nat
      /\ Cardinality(F) = Cardinality(done) + Cardinality(rest)
  BY <1>1, CountParts
<1>3. /\ Cardinality(mine) \in Nat /\ Cardinality(others) \in Nat
      /\ Cardinality(done) = Cardinality(mine) + Cardinality(others)
  <2>1. mine \cup others = done /\ mine \cap others = {}
    BY <1>1
  <2>2. IsFiniteSet(done)
    BY <1>2
  <2>. QED BY <2>1, <2>2, CountParts
<1>4. IsFiniteSet(busy) /\ IsFiniteSet(failed) /\ Cardinality(busy) <= Cardinality(rest)
  BY <1>1, <1>2, FS_Subset
<1>5. /\ Cardinality(failed) \in Nat /\ Cardinality(leased) \in Nat
      /\ Cardinality(busy) = Cardinality(failed) + Cardinality(leased)
  <2>1. failed \cup leased = busy
    BY DEF busy
  <2>2. failed \cap leased = {} /\ IsFiniteSet(busy)
    BY <1>1, <1>4
  <2>3. PICK A, B, S : A = failed /\ B = leased /\ S = busy
    OBVIOUS
  <2>4. A \cup B = S /\ A \cap B = {} /\ IsFiniteSet(S)
    BY <2>1, <2>2, <2>3
  <2>5. /\ Cardinality(A) \in Nat /\ Cardinality(B) \in Nat
        /\ Cardinality(S) = Cardinality(A) + Cardinality(B)
    BY <2>4, CountParts
  <2>. QED BY <2>3, <2>5
<1>6. /\ Cardinality(quarantined) \in Nat /\ Cardinality(retryable) \in Nat
      /\ Cardinality(failed) = Cardinality(quarantined) + Cardinality(retryable)
  <2>1. quarantined \cup retryable = failed
    BY DEF failed
  <2>2. quarantined \cap retryable = {} /\ IsFiniteSet(failed)
    BY <1>1, <1>4
  <2>3. PICK A, B, S : A = quarantined /\ B = retryable /\ S = failed
    OBVIOUS
  <2>4. A \cup B = S /\ A \cap B = {} /\ IsFiniteSet(S)
    BY <2>1, <2>2, <2>3
  <2>5. /\ Cardinality(A) \in Nat /\ Cardinality(B) \in Nat
        /\ Cardinality(S) = Cardinality(A) + Cardinality(B)
    BY <2>4, CountParts
  <2>. QED BY <2>3, <2>5
<1>7. Cardinality(busy) \in Nat
  BY <1>4, FS_CardinalityType
<1>. QED BY <1>0, <1>2, <1>3, <1>4, <1>5, <1>6, <1>7

\* An accepted filing is credited to the run of its accepted attempt alone.
LEMMA CreditedToOneRun ==
    ASSUME TypeInv, AttemptsFollowLeases, EarlierFailed, NEW f \in Filing,
           item[f].state = "ACCEPTED"
    PROVE  \E r \in Run : \A s \in Run : AcceptedInRun(f, s) <=> s = r
<1> DEFINE k == item[f].attempts
<1>1. /\ attempt[f] \in [Token -> Attempt \cup {Null}] /\ item[f] \in Item
      /\ HistoryOf(item[f], attempt[f], reviewed[f])
  BY HistoryByRow DEF TypeInv, TypeOK
<1>2. k \in Token /\ attempt[f][k].outcome = "ACCEPTED"
  BY <1>1 DEF HistoryOf
<1>3. attempt[f][k] # Null
  <2>1. k <= k
    BY <1>2, TokenFacts
  <2>. QED BY <1>1, <1>2, <2>1 DEF HistoryOf
<1>4. ASSUME NEW n \in Token, attempt[f][n] # Null, n # k
      PROVE  attempt[f][n].outcome = "RETRYABLE"
  <2>1. n <= k
    BY <1>1, <1>4 DEF HistoryOf
  <2>2. n < k
    <3>1. n \in Nat /\ k \in Nat
      BY <1>2, TokenFacts
    <3> HIDE DEF k
    <3>. QED BY <1>4, <2>1, <3>1
  <2>. QED BY <2>2 DEF EarlierFailed
<1>5. attempt[f][k].run \in Run
  BY <1>1, <1>2, <1>3 DEF Attempt
<1>6. \A s \in Run : AcceptedInRun(f, s) <=> s = attempt[f][k].run
  BY <1>2, <1>3, <1>4 DEF AcceptedInRun
<1>. QED BY <1>5, <1>6

LEMMA ProgressSound ==
    ASSUME TypeInv, AttemptsFollowLeases, EarlierFailed, FinitelyReviewed
    PROVE  ProgressAddsUp
<1> SUFFICES ASSUME NEW F \in SUBSET Reviewed
             PROVE  /\ \A r \in Run :
                          /\ Progress(F, r).accepted + Progress(F, r).skippedAccepted
                               + Progress(F, r).remaining = Progress(F, r).manifest
                          /\ Progress(F, r).quarantined + Progress(F, r).retryable
                               + Progress(F, r).leasedElsewhere <= Progress(F, r).remaining
                    /\ \A f \in F : item[f].state = "ACCEPTED" =>
                          Cardinality({r \in Run : Progress({f}, r).accepted = 1}) = 1
  BY DEF ProgressAddsUp, Reviewed
<1>1. IsFiniteSet(F) /\ F \in SUBSET Filing
  BY FS_Subset DEF Reviewed, FinitelyReviewed
<1>2. ASSUME NEW f \in F, item[f].state = "ACCEPTED"
      PROVE  Cardinality({r \in Run : Progress({f}, r).accepted = 1}) = 1
  <2>1. PICK r \in Run : \A s \in Run : AcceptedInRun(f, s) <=> s = r
    BY <1>1, <1>2, CreditedToOneRun
  <2>2. ASSUME NEW s \in Run
        PROVE  Progress({f}, s).accepted = 1 <=> s = r
    <3> DEFINE credited == {g \in {f} : item[g].state = "ACCEPTED" /\ AcceptedInRun(g, s)}
    <3>1. Progress({f}, s).accepted = Cardinality(credited)
      BY DEF Progress
    <3>2. s = r => credited = {f}
      BY <1>2, <2>1
    <3>3. s # r => credited = {}
      BY <2>1
    <3>4. Cardinality({f}) = 1 /\ Cardinality({}) = 0
      BY FS_Singleton, FS_EmptySet
    <3> HIDE DEF credited
    <3>. QED BY <3>1, <3>2, <3>3, <3>4
  <2>3. {s \in Run : Progress({f}, s).accepted = 1} = {r}
    BY <2>2
  <2>. QED BY <2>3, FS_Singleton
<1>. QED BY <1>1, <1>2, ReportAddsUp

\* What completions, claims and recoveries write to the other tables agrees
\* with the items, and the report of a batch adds up, for every manifest.
THEOREM LedgerConsistent == Spec => []LedgerAddsUp
<1>1. Init => QuarantineExplained /\ ProfileFromAcceptedFiling /\ EarlierFailed
  <2>1. \A n \in Token : ~(n < 0)
    BY ConstantsAssumption DEF Token
  <2>. QED BY <2>1 DEF Init, QuarantineExplained, ProfileFromAcceptedFiling, EarlierFailed
<1>2. Init => FinitelyReviewed
  <2>1. Init => Reviewed = {}
    BY DEF Init, Reviewed
  <2>. QED BY <2>1, FS_EmptySet DEF FinitelyReviewed
<1>3. Spec => []EvidenceIsSound
  BY EvidenceSound, PTL
<1>4. TypeInv /\ AttemptsFollowLeases /\ QuarantineExplained /\ ProfileFromAcceptedFiling
        /\ EarlierFailed /\ FinitelyReviewed => LedgerAddsUp
  BY ProgressSound DEF LedgerAddsUp
<1>. QED
  BY <1>1, <1>2, <1>3, <1>4, QuarantineNext, ProfileNext, EarlierNext, ReviewedFinite,
     TypeInvariant, RowsInvariant, AttemptsExact, PTL DEF Spec

----------------------------------------------------------------------------
(* The refinement of FilingDecision *)

\* A step that leaves a filing undecided, or decided as it was, keeps its
\* decision.
LEMMA DecisionKept ==
    ASSUME NEW f \in Filing, item[f].state \in Terminal <=> item'[f].state \in Terminal,
           item[f].state \in Terminal => item'[f] = item[f]
    PROVE  DecisionOf(f)' = DecisionOf(f)
BY DEF DecisionOf

LEMMA DecisionIsSet ==
    ASSUME TypeInv, EvidenceIsSound, NEW f \in Filing
    PROVE  DecisionOf(f) # Null <=> item[f].state \in Terminal
<1>1. CASE item[f].state \in Terminal
  <2>1. /\ item[f].state \in Terminal /\ item[f].artifact \in Checksum
        /\ item[f].attempts \in 0..MaxAttempts
    BY <1>1 DEF TypeInv, TypeOK, Item, EvidenceIsSound, EvidenceMatchesReview
  <2>2. DecisionOf(f) \in [verdict : Terminal, document : Checksum, by : 0..MaxAttempts]
    BY <2>1 DEF DecisionOf
  <2>. QED BY <1>1, <2>2, ConstantsAssumption
<1>2. CASE item[f].state \notin Terminal
  BY <1>2 DEF DecisionOf
<1>. QED BY <1>1, <1>2

\* A batch of reviewed filings reviews them, and grants and decides nothing.
LEMMA SyncReviews ==
    ASSUME TypeInv, NEW m \in Manifests, SyncReviewed(m)
    PROVE  Decision!Review
<1>1. \A f \in Filing : DecisionOf(f)' = DecisionOf(f) /\ item'[f].attempts = item[f].attempts
  <2> SUFFICES ASSUME NEW f \in Filing
               PROVE  DecisionOf(f)' = DecisionOf(f) /\ item'[f].attempts = item[f].attempts
    OBVIOUS
  <2>1. item[f] \in Item
    BY DEF TypeInv, TypeOK
  <2>. QED BY <2>1, DecisionKept DEF SyncReviewed, Item
<1>2. reviewed' \in [Filing -> Provenance \cup {Null}]
  BY ConstantsAssumption DEF SyncReviewed, TypeInv, TypeOK
<1>3. \A f \in Filing : reviewed[f] # Null => reviewed'[f] = reviewed[f]
  BY DEF SyncReviewed, SyncAccepts
<1>4. facts' = facts /\ header' = header
  BY DEF SyncReviewed
<1>. QED BY <1>1, <1>2, <1>3, <1>4 DEF Decision!Review

\* A claim grants the filing to one more worker.
LEMMA ClaimGrants ==
    ASSUME TypeInv, EvidenceIsSound, NEW f \in Filing, NEW r \in Run, Claim(f, r)
    PROVE  Decision!Grant(f)
<1>1. item[f] \in Item /\ Recovered(f) \in Item
  BY LapseTypes DEF TypeInv, TypeOK
<1>2. item[f].state \notin Terminal \cup {"ABSENT"}
  BY <1>1 DEF Claim, Claimable, Recovered, Lapsed
<1>3. /\ item'[f].attempts = item[f].attempts + 1 /\ item'[f].state = "RUNNING"
      /\ \A g \in Filing \ {f} : item'[g] = item[g]
  BY <1>1 DEF Claim, TypeInv, TypeOK, Item
<1>4. \A g \in Filing : DecisionOf(g)' = DecisionOf(g)
  BY <1>2, <1>3, DecisionKept
<1>5. reviewed[f] # Null
  BY <1>2 DEF TypeInv, ReviewedFirst
<1>6. [g \in Filing |-> item'[g].attempts]
        = [[g \in Filing |-> item[g].attempts] EXCEPT ![f] = item[f].attempts + 1]
  BY <1>3
<1>7. ~Decision!Decided(f)
  BY <1>2, DecisionIsSet DEF Decision!Decided
<1>. QED BY <1>4, <1>5, <1>6, <1>7 DEF Decision!Grant, Claim

\* An accepted document publishes its lines and re-heads what it mentions.
LEMMA AcceptancePublishes ==
    ASSUME TypeInv, NEW f \in Filing, NEW t \in Token, NEW c \in Checksum, NEW l \in Label,
           CompleteAccepted(f, t, c, l)
    PROVE  Decision!Publishes(f, c)
<1>1. /\ facts' = facts \cup [line : NewLines(f, c), source : {f}]
      /\ header' = [g \in Filing |-> IF g \in Mentioned(f, c) THEN Headed(g, f) ELSE header[g]]
  BY DEF CompleteAccepted
<1>2. \A e \in facts' \ facts : e.source = f /\ e.line \in Reported[f][c]
  BY <1>1 DEF NewLines
<1>3. ASSUME NEW m \in Reported[f][c] PROVE \E e \in facts' : e.line = m
  <2>1. CASE m \in NewLines(f, c)
    <3>1. PICK e : e = [line |-> m, source |-> f]
      OBVIOUS
    <3>. QED BY <1>1, <2>1, <3>1
  <2>2. CASE m \notin NewLines(f, c)
    BY <1>1, <2>2 DEF NewLines
  <2>. QED BY <2>1, <2>2
<1>4. \A g \in Filing : Headed(g, f) # Null /\ Headed(g, f).latest = f
  <2>1. \A g \in Filing : Headed(g, f) \in Header /\ Headed(g, f).latest = f
    BY DEF Headed, Header, TypeInv, TypeOK
  <2>. QED BY <2>1, ConstantsAssumption
<1>5. [g \in Filing |-> IF header'[g] = Null THEN Null ELSE header'[g].latest]
        = [g \in Filing |->
             IF \E m \in Reported[f][c] : m[1] = g THEN f
             ELSE [h \in Filing |-> IF header[h] = Null THEN Null ELSE header[h].latest][g]]
  <2>1. \A g \in Filing : g \in Mentioned(f, c) <=> \E m \in Reported[f][c] : m[1] = g
    BY DEF Mentioned
  <2>. QED BY <1>1, <1>4, <2>1
<1>. QED BY <1>1, <1>2, <1>3, <1>5 DEF Decision!Publishes

\* Completing a filing decides it, for its newest worker.
LEMMA CompletionDecides ==
    ASSUME TypeInv, AttemptsFollowLeases, EvidenceIsSound, EvidenceIsSound', NEW f \in Filing,
           NEW t \in Token, NEW c \in Checksum, NEW status \in Terminal, NEW e,
           Finalize(f, t, status, e, c), ~DriftBlocked(f, c, status),
           ~ProvenanceRefused(f, c, e), status = "ACCEPTED" => e = Null,
           IF status = "ACCEPTED" THEN Decision!Publishes(f, c) ELSE UNCHANGED <<facts, header>>,
           reviewed' = reviewed
    PROVE  Decision!Decide(f, status, c)
<1>1. item[f] \in Item /\ item[f].state = "RUNNING"
  BY FinalizeRow DEF TypeInv, TypeOK
<1>2. /\ item'[f].state = status /\ item'[f].artifact = c
      /\ item'[f].attempts = item[f].attempts
      /\ \A g \in Filing \ {f} : item'[g] = item[g]
  BY <1>1, FinalizeRow DEF Finalize, TypeInv, TypeOK, Item
<1>3. item[f].attempts > 0
  BY <1>1, TokenFacts, ConstantsAssumption DEF AttemptsFollowLeases, Token
<1>4. ~Decision!Decided(f)
  BY <1>1, DecisionIsSet DEF Decision!Decided
<1>5. status = "ACCEPTED" => reviewed[f].expected \in {Null, c}
  <2>1. Null # ArtifactMismatch
    BY ConstantsAssumption DEF ArtifactMismatch, Error, ErrorClass, ErrorSummary
  <2>. QED BY <2>1 DEF ProvenanceRefused, ChecksumDiffers
<1>6. Decision!Agrees(c, status)
  <2> SUFFICES ASSUME NEW g \in Filing, item[g].state \in Terminal, DecisionOf(g).document = c
               PROVE  DecisionOf(g).verdict = status
    BY DecisionIsSet DEF Decision!Agrees, Decision!Decided
  <2>1. item[g].artifact = c /\ DecisionOf(g).verdict = item[g].state
    BY DEF DecisionOf
  <2>2. artifact[c] # Null /\ artifact[c].status = item[g].state
    BY <2>1 DEF EvidenceIsSound, EvidenceMatchesReview, AcceptanceAllowed
  <2>. QED BY <2>1, <2>2 DEF DriftBlocked, Registered
<1>7. [g \in Filing |-> DecisionOf(g)']
        = [[g \in Filing |-> DecisionOf(g)] EXCEPT
             ![f] = [verdict |-> status, document |-> c, by |-> item[f].attempts]]
  <2>1. DecisionOf(f)' = [verdict |-> status, document |-> c, by |-> item[f].attempts]
    BY <1>2 DEF DecisionOf
  <2>2. \A g \in Filing \ {f} : DecisionOf(g)' = DecisionOf(g)
    BY <1>2, DecisionKept
  <2>. QED BY <2>1, <2>2
<1>8. [g \in Filing |-> item'[g].attempts] = [g \in Filing |-> item[g].attempts]
  BY <1>2
<1>9. status # "ACCEPTED" =>
         [g \in Filing |-> IF header'[g] = Null THEN Null ELSE header'[g].latest]
           = [g \in Filing |-> IF header[g] = Null THEN Null ELSE header[g].latest]
  OBVIOUS
<1>. QED BY <1>3, <1>4, <1>5, <1>6, <1>7, <1>8, <1>9 DEF Decision!Decide

LEMMA StepImplements ==
    ASSUME TypeInv, AttemptsFollowLeases, EvidenceIsSound, EvidenceIsSound', [Next]_ledgerVars
    PROVE  [Decision!Next]_(Decision!decisionVars)
<1>1. ASSUME NEW m \in Manifests, SyncReviewed(m) PROVE Decision!Next
  BY <1>1, SyncReviews DEF Decision!Next
<1>2. ASSUME NEW f \in Filing, NEW r \in Run, Claim(f, r) PROVE Decision!Next
  BY <1>2, ClaimGrants DEF Decision!Next
<1>3. ASSUME NEW f \in Filing, NEW t \in Token, NEW c \in Checksum, NEW l \in Label,
             CompleteAccepted(f, t, c, l)
      PROVE  Decision!Next
  <2>1. Decision!Publishes(f, c)
    BY <1>3, AcceptancePublishes
  <2>2. Decision!Decide(f, "ACCEPTED", c)
    BY <1>3, <2>1, CompletionDecides DEF CompleteAccepted
  <2>. QED BY <2>2 DEF Decision!Next, Decision!Verdict
<1>4. ASSUME NEW f \in Filing, NEW t \in Token, NEW c \in Checksum, NEW e \in QuarantineErrors,
             CompleteQuarantined(f, t, c, e)
      PROVE  Decision!Next
  <2>1. UNCHANGED <<facts, header>>
    BY <1>4 DEF CompleteQuarantined
  <2>2. Decision!Decide(f, "QUARANTINED", c)
    BY <1>4, <2>1, CompletionDecides DEF CompleteQuarantined
  <2>. QED BY <2>2 DEF Decision!Next, Decision!Verdict
<1>5. ASSUME UNCHANGED <<reviewed, facts, header>>,
             \A f \in Filing : /\ item'[f].attempts = item[f].attempts
                               /\ DecisionOf(f)' = DecisionOf(f)
      PROVE  UNCHANGED Decision!decisionVars
  BY <1>5 DEF Decision!decisionVars
<1>6. ASSUME NEW f \in Filing, item' = [item EXCEPT ![f] = item'[f]],
             item'[f].attempts = item[f].attempts,
             item[f].state \notin Terminal, item'[f].state \notin Terminal,
             UNCHANGED <<reviewed, facts, header>>
      PROVE  UNCHANGED Decision!decisionVars
  <2>1. ASSUME NEW g \in Filing
        PROVE  item'[g].attempts = item[g].attempts /\ DecisionOf(g)' = DecisionOf(g)
    BY <1>6, DecisionKept DEF TypeInv, TypeOK
  <2>. QED BY <1>5, <1>6, <2>1
<1>7. ASSUME NEW f \in Filing, ClaimSpent(f) PROVE UNCHANGED Decision!decisionVars
  <2>1. /\ item' = [item EXCEPT ![f] = item'[f]] /\ item'[f].attempts = item[f].attempts
        /\ item[f].state = "RUNNING" /\ item'[f].state = "RETRYABLE"
    BY <1>7, SpentMoves DEF TypeInv
  <2>2. UNCHANGED <<reviewed, facts, header>>
    BY <1>7 DEF ClaimSpent
  <2>. QED BY <1>6, <2>1, <2>2 DEF Terminal
<1>8. ASSUME NEW f \in Filing, NEW t \in Token, Renew(f, t)
      PROVE  UNCHANGED Decision!decisionVars
  <2>1. item[f] \in Item
    BY DEF TypeInv, TypeOK
  <2>. QED BY <1>6, <1>8, <2>1 DEF Renew, LeaseHeld, TypeInv, TypeOK, Item
<1>9. ASSUME NEW f \in Filing, NEW t \in Token, NEW e \in RetryErrors,
             FinalizeRetryable(f, t, e)
      PROVE  UNCHANGED Decision!decisionVars
  <2>1. item[f] \in Item
    BY DEF TypeInv, TypeOK
  <2>2. Finalize(f, t, "RETRYABLE", e, Null) /\ UNCHANGED <<reviewed, facts, header>>
    BY <1>9 DEF FinalizeRetryable
  <2>3. item[f].state = "RUNNING" /\ item'[f].state = "RETRYABLE"
    BY <2>2, FinalizeRow
  <2>4. item' = [item EXCEPT ![f] = item'[f]] /\ item'[f].attempts = item[f].attempts
    BY <2>1, <2>2 DEF Finalize, TypeInv, TypeOK, Item
  <2>. QED BY <1>6, <2>2, <2>3, <2>4
<1>10. ASSUME NEW F \in SUBSET Filing, ExpireLeases(F)
       PROVE  UNCHANGED Decision!decisionVars
  <2>1. ASSUME NEW g \in Filing
        PROVE  item'[g].attempts = item[g].attempts /\ DecisionOf(g)' = DecisionOf(g)
    <3>1. item[g] \in Item
      BY DEF TypeInv, TypeOK
    <3>2. /\ item'[g].attempts = item[g].attempts
          /\ item'[g] # item[g] => item[g].state \notin Terminal /\ item'[g].state \notin Terminal
      BY <1>10, <3>1 DEF ExpireLeases, Lapsed, AfterLapse, Item
    <3>. QED BY <3>2, DecisionKept
  <2>. QED BY <1>5, <1>10, <2>1 DEF ExpireLeases
<1>11. CASE Tick \/ UNCHANGED ledgerVars
  <2>1. ASSUME NEW g \in Filing
        PROVE  item'[g].attempts = item[g].attempts /\ DecisionOf(g)' = DecisionOf(g)
    BY <1>11 DEF Tick, ledgerVars, DecisionOf
  <2>. QED BY <1>5, <1>11, <2>1 DEF Tick, ledgerVars
<1>12. CASE (\E f \in Filing, t \in Token : StartCompletion(f, t)) \/ (\E f \in Filing : RollBack(f))
  <2>1. UNCHANGED <<item, reviewed, facts, header>>
    BY <1>12 DEF StartCompletion, RollBack
  <2>2. \A g \in Filing : item'[g].attempts = item[g].attempts /\ DecisionOf(g)' = DecisionOf(g)
    BY <2>1 DEF DecisionOf
  <2>. QED BY <1>5, <2>1, <2>2
<1>. QED
  BY <1>1, <1>2, <1>3, <1>4, <1>7, <1>8, <1>9, <1>10, <1>11, <1>12 DEF Next

\* The ledger, with its leases, retries, expiry and shared documents, decides
\* each reviewed filing at most once, with its evidence, by its newest worker.
THEOREM LedgerDecides == Spec => ImplementsDecision
<1>1. Init => Decision!Init
  BY DEF Init, Decision!Init, DecisionOf
<1>2. Spec => []EvidenceIsSound
  BY EvidenceSound, PTL
<1>. QED
  BY <1>1, <1>2, StepImplements, TypeInvariant, AttemptsExact, PTL
  DEF Spec, ImplementsDecision, Decision!Spec

-----------------------------------------------------------------------------
(* The workers of the importer *)

----------------------------------------------------------------------------
(* Types *)

\* Where a worker is busy with a row, and where it has a lease for it.
Busy == {"gate", "claim", "renew", "fetch", "parse", "complete", "commit", "abort", "release"}
Leased == {"renew", "fetch", "parse", "complete", "commit", "abort"}

\* The variables of the workers hold values of their types.
LocalTypes ==
    /\ pc \in [Worker -> PC]
    /\ row \in [Worker -> Nat]
    /\ seen \in [Worker -> [Filing -> Seen]]
    /\ task \in [Worker -> Task]
    /\ report \in [Worker -> Seq(Entry)]
    /\ fence \in [Filing -> Worker \cup {NoWorker}]
    /\ mishaps \in 0..MaxMishaps

\* The local variables of a worker fit the place it is at: it works on a row
\* of its shard that it saw in the ledger, it has a lease token once it was
\* granted one, and a document once it has downloaded one.
ShapeOf(w) ==
    /\ pc[w] \in Busy => row[w] \in DOMAIN Shard[w]
    /\ pc[w] \notin Resting =>
          \A f \in DOMAIN ManifestOf[w] : seen[w][f].state # "ABSENT"
    /\ task[w].failure \in RetryErrors
    /\ pc[w] \in Leased => task[w].lease # NoToken
    /\ pc[w] \notin Leased \cup {"release"} => task[w] = NoTask
    /\ pc[w] \in {"parse", "complete", "commit"} => task[w].body # Null

Shape == \A w \in Worker : ShapeOf(w)

ImporterTypes == TypeInv /\ LocalTypes /\ Shape

\* The row a busy worker is at is a reviewed filing that it saw.
LEMMA CurrentType ==
    ASSUME ImporterTypes, NEW w \in Worker, row[w] \in DOMAIN Shard[w]
    PROVE  Current(w) \in Filing /\ Current(w) \in DOMAIN ManifestOf[w]
<1>1. Current(w) \in DOMAIN ManifestOf[w]
  BY ImporterAssumption DEF Current
<1>2. ManifestOf[w] \in Manifests
  BY ImporterAssumption
<1>. QED BY <1>1, <1>2, ConstantsAssumption

LEMMA TaskFacts ==
    /\ NoTask \in Task /\ NoTask.lease = NoToken /\ NoTask.failure \in RetryErrors
    /\ Verdict \subseteq Error \cup {Null}
    /\ Verdict \ {Null} \subseteq QuarantineErrors
    /\ Storage("DATABASE_UNAVAILABLE") \in RetryErrors
    /\ Storage("VALIDATION_FAILED") \in RetryErrors
    /\ Storage("SCHEMA_INVALID") \in RetryErrors
    /\ Invalid # Null /\ SchemaInvalid # Null /\ ArtifactMismatch # Null
    /\ {Null, Invalid, SchemaInvalid, ArtifactMismatch} \subseteq Verdict
<1>1. /\ Verdict \ {Null} \subseteq QuarantineErrors
      /\ Storage("DATABASE_UNAVAILABLE") \in RetryErrors
      /\ Storage("VALIDATION_FAILED") \in RetryErrors
      /\ Storage("SCHEMA_INVALID") \in RetryErrors
      /\ Provider \in RetryErrors
  BY ImporterAssumption
<1>2. RetryErrors \subseteq Error /\ QuarantineErrors \subseteq Error /\ Null \notin Error
  BY ConstantsAssumption
<1>3. {Null, Invalid, SchemaInvalid, ArtifactMismatch} \subseteq Verdict
  BY DEF Verdict
<1>4. Invalid \in Error /\ SchemaInvalid \in Error /\ ArtifactMismatch \in Error
  BY DEF Invalid, SchemaInvalid, ArtifactMismatch, Error, ErrorClass, ErrorSummary
<1>5. NoTask \in Task /\ NoTask.lease = NoToken /\ NoTask.failure = Provider
  BY <1>1, <1>2, <1>3 DEF NoTask, Task
<1>. QED BY <1>1, <1>2, <1>3, <1>4, <1>5

EntryState == Outcome \cup {"PENDING", "RUNNING"}
EntryAction == {"SKIPPED", "DEFERRED", "EXHAUSTED", "IMPORTED", "QUARANTINED"}

LEMMA EntryFacts ==
    /\ {"RUNNING", "RETRYABLE", "ACCEPTED", "QUARANTINED"} \subseteq EntryState
    /\ {"SKIPPED", "DEFERRED", "EXHAUSTED", "IMPORTED", "QUARANTINED"} \subseteq EntryAction
<1>1. {"RUNNING", "RETRYABLE", "ACCEPTED", "QUARANTINED"} \subseteq EntryState
  BY DEF EntryState
<1>2. {"SKIPPED", "DEFERRED", "EXHAUSTED", "IMPORTED", "QUARANTINED"} \subseteq EntryAction
  BY DEF EntryAction
<1>. QED BY <1>1, <1>2

LEMMA RecordType ==
    ASSUME LocalTypes, NEW w \in Worker, Current(w) \in Filing,
           NEW s \in EntryState, NEW a \in EntryAction, Record(w, s, a)
    PROVE  report' \in [Worker -> Seq(Entry)]
<1> DEFINE e == [filing |-> Current(w), state |-> s, action |-> a]
<1>1. e \in Entry
  BY DEF Entry, EntryState, EntryAction
<1>2. report[w] \in Seq(Entry)
  BY DEF LocalTypes
<1>3. Append(report[w], e) \in Seq(Entry)
  BY <1>1, <1>2, AppendProperties
<1>. QED BY <1>3 DEF Record, LocalTypes

LEMMA PassedType ==
    ASSUME NEW s \in Seen, s.state # "ABSENT", Passed(s) # <<>>
    PROVE  Passed(s)[1] \in EntryState /\ Passed(s)[2] \in EntryAction
<1>0. s.state \in EntryState
  BY DEF Seen, EntryState
<1>2. \/ Passed(s) = <<s.state, "SKIPPED">>
      \/ Passed(s) = <<s.state, "DEFERRED">>
      \/ Passed(s) = <<"RETRYABLE", "EXHAUSTED">>
  BY DEF Passed
<1>. QED BY <1>0, <1>2, EntryFacts

\* What completing with a verdict does to the ledger.
LEMMA CompleteStep ==
    ASSUME ImporterTypes, NEW f \in Filing, NEW t \in Token, NEW c \in Checksum,
           NEW v \in Verdict, Complete(f, t, c, v)
    PROVE  Next
<1>1. CASE v = Null
  BY <1>1 DEF Complete, Next
<1>2. CASE v # Null
  BY <1>2, TaskFacts DEF Complete, Next
<1>. QED BY <1>1, <1>2

\* Every step of the workers is a transaction of the ledger, or none.
LEMMA LedgerStep ==
    ASSUME ImporterTypes, [ImporterNext]_importVars
    PROVE  [Next]_ledgerVars
<1> SUFFICES ASSUME ImporterNext PROVE [Next]_ledgerVars
  BY DEF importVars
<1>1. ASSUME NEW w \in Worker, Start(w) \/ StartBlocked(w) PROVE [Next]_ledgerVars
  BY <1>1, ImporterAssumption DEF Start, StartBlocked, Next
<1>2. ASSUME NEW w \in Worker, Work(w) PROVE [Next]_ledgerVars
  <2>1. pc[w] \in Busy => Current(w) \in Filing
    BY CurrentType DEF ImporterTypes, Shape, ShapeOf
  <2>2. pc[w] \in Leased => task[w].lease \in Token
    BY DEF ImporterTypes, LocalTypes, Shape, ShapeOf, Task
  <2>3. task[w].failure \in RetryErrors /\ task[w].verdict \in Verdict
    BY DEF ImporterTypes, LocalTypes, Shape, ShapeOf, Task
  <2>4. pc[w] = "commit" => task[w].body \in Checksum
    BY DEF ImporterTypes, LocalTypes, Shape, ShapeOf, Task
  <2>5. RunOf[w] \in Run
    BY ImporterAssumption
  <2>6. CASE Granted(w) \/ NotGranted(w)
    BY <2>1, <2>5, <2>6 DEF Granted, NotGranted, At, Busy, Next
  <2>7. CASE Renewed(w) \/ RenewFails(w)
    BY <2>1, <2>2, <2>7 DEF Renewed, RenewFails, At, Busy, Leased, Next
  <2>8. CASE Completed(w) \/ CompleteFails(w)
    <3>1. ASSUME At(w, "commit"),
                 Complete(Current(w), task[w].lease, task[w].body, task[w].verdict)
          PROVE  Next
      BY <2>1, <2>2, <2>3, <2>4, <3>1, CompleteStep DEF At, Busy, Leased
    <3>2. ASSUME At(w, "commit"), RollBack(Current(w)) PROVE Next
      BY <2>1, <3>2 DEF At, Busy, Next
    <3>. QED BY <2>8, <3>1, <3>2 DEF Completed, CompleteFails
  <2>8a. CASE Begin(w)
    BY <2>1, <2>2, <2>8a DEF Begin, At, Busy, Leased, Next
  <2>8b. CASE Refused(w)
    BY <2>1, <2>8b DEF Refused, At, Busy, Next
  <2>9. CASE Aborted(w) \/ AbortFails(w)
    BY <2>1, <2>2, <2>3, <2>9 DEF Aborted, AbortFails, At, Busy, Leased, Next
  <2>10. CASE \/ Pass(w) \/ Pick(w) \/ Finished(w) \/ TakeFence(w) \/ NoFence(w)
              \/ LeaseLost(w) \/ FetchFails(w) \/ Release(w)
    BY <2>10 DEF Pass, Pick, Finished, TakeFence, NoFence, LeaseLost, FetchFails, Release
  <2>11. CASE \/ \E c \in Checksum : Fetched(w, c)
              \/ \E v \in {Null, Invalid} : Parsed(w, v)
    BY <2>11 DEF Fetched, Parsed
  <2>. QED BY <1>2, <2>6, <2>7, <2>8, <2>8a, <2>8b, <2>9, <2>10, <2>11 DEF Work
<1>3. ASSUME NEW w \in Worker, Crash(w) \/ SessionLost(w) PROVE [Next]_ledgerVars
  BY <1>3 DEF Crash, SessionLost
<1>4. CASE Pause \/ \E f \in Filing : Abandoned(f)
  BY <1>4 DEF Pause, Abandoned, Next
<1>. QED BY <1>1, <1>2, <1>3, <1>4 DEF ImporterNext

LEMMA MishapType ==
    ASSUME LocalTypes, Mishap \/ Smooth
    PROVE  mishaps' \in 0..MaxMishaps
<1>1. MaxMishaps \in Nat /\ mishaps \in 0..MaxMishaps
  BY ImporterAssumption DEF LocalTypes
<1>2. CASE Smooth
  BY <1>1, <1>2 DEF Smooth
<1>3. CASE Mishap
  <2>1. mishaps < MaxMishaps /\ mishaps' = mishaps + 1
    BY <1>3 DEF Mishap
  <2>2. mishaps + 1 \in 0..MaxMishaps
    BY <1>1, <2>1
  <2>. QED BY <2>1, <2>2
<1>. QED BY <1>2, <1>3

LEMMA ReleasedType ==
    ASSUME LocalTypes, NEW w \in Worker
    PROVE  Released(w) \in [Filing -> Worker \cup {NoWorker}]
BY DEF LocalTypes, Released

\* Starting takes a snapshot of well-typed items.
LEMMA StartTypes ==
    ASSUME ImporterTypes, TypeOK', NEW w \in Worker, Start(w)
    PROVE  LocalTypes' /\ ShapeOf(w)'
<1> DEFINE snapshot == [f \in Filing |->
                         [state |-> item'[f].state, attempts |-> item'[f].attempts,
                          error |-> item'[f].error, expiry |-> item'[f].expiry]]
<1>1. snapshot \in [Filing -> Seen]
  <2> SUFFICES ASSUME NEW f \in Filing PROVE snapshot[f] \in Seen
    OBVIOUS
  <2>1. item'[f] \in Item
    BY DEF TypeOK
  <2>. QED BY <2>1 DEF Item, Seen
<1>2. seen' = [seen EXCEPT ![w] = snapshot] /\ seen' \in [Worker -> [Filing -> Seen]]
  BY <1>1 DEF Start, ImporterTypes, LocalTypes
<1>3. /\ pc' = [pc EXCEPT ![w] = "pick"] /\ row' = [row EXCEPT ![w] = 1]
      /\ report' = [report EXCEPT ![w] = <<>>] /\ UNCHANGED <<task, fence, mishaps>>
  BY DEF Start, Goto
<1>4. LocalTypes'
  <2>1. <<>> \in Seq(Entry)
    BY EmptySeq
  <2>. QED BY <1>2, <1>3, <2>1 DEF ImporterTypes, LocalTypes, PC
<1>5. \A f \in DOMAIN ManifestOf[w] : snapshot[f].state # "ABSENT"
  <2> SUFFICES ASSUME NEW f \in DOMAIN ManifestOf[w] PROVE item'[f].state # "ABSENT"
    BY ImporterAssumption, ConstantsAssumption
  <2>1. f \in Filing
    BY ImporterAssumption, ConstantsAssumption
  <2>2. item[f] \in Item
    BY <2>1 DEF ImporterTypes, TypeInv, TypeOK
  <2>. QED BY <2>1, <2>2 DEF Start, SyncReviewed, Item
<1>6. task[w] = NoTask /\ task[w].failure \in RetryErrors
  BY DEF Start, ImporterTypes, Shape, ShapeOf, Leased
<1>. QED BY <1>2, <1>3, <1>4, <1>5, <1>6
     DEF ShapeOf, ImporterTypes, LocalTypes, Busy, Leased

LEMMA WorkTypes ==
    ASSUME ImporterTypes, TypeOK', NEW w \in Worker, Work(w)
    PROVE  LocalTypes' /\ ShapeOf(w)'
<1>0. /\ pc[w] \in PC /\ row[w] \in Nat /\ row[w] + 1 \in Nat /\ task[w] \in Task
      /\ report \in [Worker -> Seq(Entry)]
      /\ ShapeOf(w) /\ LocalTypes
      /\ pc \in [Worker -> PC] /\ row \in [Worker -> Nat] /\ task \in [Worker -> Task]
      /\ fence \in [Filing -> Worker \cup {NoWorker}]
      /\ mishaps \in 0..MaxMishaps
  BY DEF ImporterTypes, LocalTypes, Shape
<1>1. /\ row[w] \in DOMAIN Shard[w] => Current(w) \in Filing /\ Current(w) \in DOMAIN ManifestOf[w]
      /\ pc[w] \in Busy => row[w] \in DOMAIN Shard[w]
  BY <1>0, CurrentType DEF ShapeOf
<1>2. ASSUME row[w] \in DOMAIN Shard[w], pc[w] \notin Resting
      PROVE  /\ seen[w][Current(w)] \in Seen
             /\ seen[w][Current(w)].state # "ABSENT"
             /\ seen[w][Current(w)].state \in EntryState
  <2>1. seen[w][Current(w)] \in Seen
    BY <1>0, <1>1, <1>2 DEF LocalTypes
  <2>2. seen[w][Current(w)].state # "ABSENT"
    BY <1>0, <1>1, <1>2 DEF ShapeOf
  <2>. QED BY <2>1, <2>2 DEF Seen, EntryState
<1>3. /\ "RUNNING" \in EntryState /\ "RETRYABLE" \in EntryState /\ "ACCEPTED" \in EntryState
      /\ "QUARANTINED" \in EntryState
      /\ "DEFERRED" \in EntryAction /\ "EXHAUSTED" \in EntryAction
      /\ "IMPORTED" \in EntryAction /\ "QUARANTINED" \in EntryAction
  BY EntryFacts
<1>4. CASE Pass(w)
  <2> DEFINE s == seen[w][Current(w)]
  <2>1. /\ pc[w] = "pick" /\ row[w] \in DOMAIN Shard[w]
        /\ pc' = [pc EXCEPT ![w] = "pick"] /\ row' = [row EXCEPT ![w] = row[w] + 1]
        /\ UNCHANGED <<ledgerVars, seen, task, fence>>
        /\ Smooth \/ Mishap
    BY <1>4 DEF Pass, At, NextRow, Goto
  <2>2. PICK state \in EntryState, action \in EntryAction : Record(w, state, action)
    BY <1>2, <1>3, <1>4, <2>1, PassedType DEF Pass
  <2>3. report' \in [Worker -> Seq(Entry)]
    BY <1>0, <1>1, <2>1, <2>2, RecordType
  <2>4. mishaps' \in 0..MaxMishaps
    BY <1>0, <2>1, MishapType
  <2>5. LocalTypes'
    BY <1>0, <2>1, <2>3, <2>4 DEF LocalTypes, PC
  <2>. QED BY <1>0, <2>1, <2>5 DEF ShapeOf, Busy, Leased
<1>5. CASE Pick(w) \/ Finished(w)
  <2>1. /\ pc[w] = "pick"
        /\ \/ pc' = [pc EXCEPT ![w] = "gate"] /\ row[w] \in DOMAIN Shard[w]
           \/ pc' = [pc EXCEPT ![w] = "done"]
        /\ UNCHANGED <<row, seen, task, report, fence, mishaps>>
    BY <1>5 DEF Pick, Finished, At, Goto
  <2>2. LocalTypes'
    BY <1>0, <2>1 DEF LocalTypes, PC
  <2>. QED BY <1>0, <2>1, <2>2 DEF ShapeOf, Busy, Leased
<1>6. CASE TakeFence(w)
  <2>1. /\ pc[w] = "gate" /\ pc' = [pc EXCEPT ![w] = "claim"]
        /\ fence' = [fence EXCEPT ![Current(w)] = w]
        /\ UNCHANGED <<row, seen, task, report, mishaps>>
    BY <1>6 DEF TakeFence, At, Goto
  <2>2. LocalTypes'
    BY <1>0, <2>1 DEF LocalTypes, PC
  <2>. QED BY <1>0, <2>1, <2>2 DEF ShapeOf, Busy, Leased
<1>7. CASE NoFence(w)
  <2>1. /\ pc[w] = "gate" /\ row[w] \in DOMAIN Shard[w]
        /\ pc' = [pc EXCEPT ![w] = "pick"] /\ row' = [row EXCEPT ![w] = row[w] + 1]
        /\ UNCHANGED <<seen, task, fence>>
        /\ Smooth \/ Mishap
    BY <1>1, <1>7 DEF NoFence, At, NextRow, Goto, Busy
  <2>2. PICK state \in EntryState, action \in EntryAction : Record(w, state, action)
    BY <1>2, <1>3, <1>7, <2>1 DEF NoFence
  <2>3. report' \in [Worker -> Seq(Entry)]
    BY <1>0, <1>1, <2>1, <2>2, RecordType
  <2>4. mishaps' \in 0..MaxMishaps
    BY <1>0, <2>1, MishapType
  <2>5. LocalTypes'
    BY <1>0, <2>1, <2>3, <2>4 DEF LocalTypes, PC
  <2>. QED BY <1>0, <2>1, <2>5 DEF ShapeOf, Busy, Leased
<1>8. CASE Granted(w)
  <2>0. pc[w] = "claim" /\ Current(w) \in Filing /\ Claim(Current(w), RunOf[w])
    BY <1>1, <1>8 DEF Granted, At, Busy
  <2>1. item'[Current(w)].token \in Token
    <3>1. item'[Current(w)] \in Item /\ item'[Current(w)].state = "RUNNING"
      BY <2>0, LapseTypes DEF Claim, ImporterTypes, TypeInv, TypeOK, Item
    <3>2. item'[Current(w)].token = item[Current(w)].attempts + 1
      BY <2>0, LapseTypes DEF Claim, ImporterTypes, TypeInv, TypeOK, Item
    <3>3. item[Current(w)].attempts + 1 # 0
      BY <2>0, ConstantsAssumption DEF ImporterTypes, TypeInv, TypeOK, Item
    <3>. QED BY <3>1, <3>2, <3>3 DEF Item
  <2> DEFINE granted == [NoTask EXCEPT !.lease = item'[Current(w)].token]
  <2>2. /\ granted \in Task /\ granted.lease # NoToken /\ granted.failure \in RetryErrors
    BY <2>1, TaskFacts, ConstantsAssumption DEF Task, Token
  <2>3. /\ pc' = [pc EXCEPT ![w] = "renew"] /\ task' = [task EXCEPT ![w] = granted]
        /\ UNCHANGED <<row, seen, report, fence, mishaps>>
    BY <1>8 DEF Granted, Goto
  <2> HIDE DEF granted
  <2>4. LocalTypes'
    BY <1>0, <2>2, <2>3 DEF LocalTypes, PC
  <2>. QED BY <1>0, <2>0, <2>2, <2>3, <2>4 DEF ShapeOf, Busy, Leased
<1>9. CASE NotGranted(w)
  <2>1. /\ pc[w] = "claim" /\ row[w] \in DOMAIN Shard[w]
        /\ pc' = [pc EXCEPT ![w] = "release"]
        /\ UNCHANGED <<row, seen, task, fence>>
        /\ Smooth \/ Mishap
    BY <1>1, <1>9 DEF NotGranted, At, Goto, Busy
  <2>2. PICK state \in EntryState, action \in EntryAction : Record(w, state, action)
    BY <1>2, <1>3, <1>9, <2>1 DEF NotGranted
  <2>3. report' \in [Worker -> Seq(Entry)]
    BY <1>0, <1>1, <2>1, <2>2, RecordType
  <2>4. mishaps' \in 0..MaxMishaps
    BY <1>0, <2>1, MishapType
  <2>5. LocalTypes'
    BY <1>0, <2>1, <2>3, <2>4 DEF LocalTypes, PC
  <2>. QED BY <1>0, <2>1, <2>5 DEF ShapeOf, Busy, Leased
<1>10. CASE LeaseLost(w)
  <2>1. /\ pc[w] \in Leased /\ row[w] \in DOMAIN Shard[w]
        /\ pc' = [pc EXCEPT ![w] = "release"]
        /\ UNCHANGED <<row, seen, task, fence, mishaps>>
        /\ Record(w, "RUNNING", "DEFERRED")
    BY <1>1, <1>10 DEF LeaseLost, Goto, Busy, Leased
  <2>3. report' \in [Worker -> Seq(Entry)]
    BY <1>0, <1>1, <1>3, <2>1, RecordType
  <2>5. LocalTypes'
    BY <1>0, <2>1, <2>3 DEF LocalTypes, PC
  <2>. QED BY <1>0, <2>1, <2>5 DEF ShapeOf, Busy, Leased
<1>11. CASE Renewed(w) \/ RenewFails(w) \/ FetchFails(w) \/ Begin(w) \/ CompleteFails(w)
  <2>1. /\ pc[w] \in Leased
        /\ \/ \E label \in {"fetch", "abort"} : pc' = [pc EXCEPT ![w] = label]
           \/ pc[w] = "complete" /\ pc' = [pc EXCEPT ![w] = "commit"]
        /\ UNCHANGED <<row, seen, task, report, fence>>
        /\ Smooth \/ Mishap
    BY <1>11 DEF Renewed, RenewFails, FetchFails, Begin, CompleteFails, At, Goto, Leased, Smooth
  <2>2. mishaps' \in 0..MaxMishaps
    BY <1>0, <2>1, MishapType
  <2>3. LocalTypes'
    BY <1>0, <2>1, <2>2 DEF LocalTypes, PC
  <2>. QED BY <1>0, <2>1, <2>3 DEF ShapeOf, Busy, Leased
<1>12. ASSUME NEW c \in Checksum, Fetched(w, c) PROVE LocalTypes' /\ ShapeOf(w)'
  <2> DEFINE fetched(v) == [task[w] EXCEPT !.body = c, !.verdict = v]
  <2>1. PICK v \in {ArtifactMismatch, Null}, label \in {"complete", "parse"} :
           /\ task' = [task EXCEPT ![w] = fetched(v)]
           /\ pc' = [pc EXCEPT ![w] = label]
    BY <1>12 DEF Fetched, Goto
  <2>2. pc[w] = "fetch" /\ UNCHANGED <<row, seen, report, fence, mishaps>>
    BY <1>12 DEF Fetched, At
  <2>3. v \in Verdict
    BY TaskFacts
  <2>4. /\ fetched(v) \in Task /\ fetched(v).lease = task[w].lease
        /\ fetched(v).failure = task[w].failure /\ fetched(v).body = c
    BY <1>0, <2>3 DEF Task
  <2>5. c # Null
    BY ConstantsAssumption
  <2> HIDE DEF fetched
  <2>6. LocalTypes'
    BY <1>0, <2>1, <2>2, <2>4 DEF LocalTypes, PC
  <2>. QED BY <1>0, <2>1, <2>2, <2>4, <2>5, <2>6 DEF ShapeOf, Busy, Leased
<1>13. ASSUME NEW v \in {Null, Invalid}, Parsed(w, v) PROVE LocalTypes' /\ ShapeOf(w)'
  <2> DEFINE parsed(e) == [task[w] EXCEPT !.verdict = v, !.failure = e]
  <2>1. PICK e \in {Storage("DATABASE_UNAVAILABLE"), Storage("VALIDATION_FAILED")} :
           task' = [task EXCEPT ![w] = parsed(e)]
    BY <1>13 DEF Parsed
  <2>2. /\ pc[w] = "parse" /\ pc' = [pc EXCEPT ![w] = "complete"]
        /\ UNCHANGED <<row, seen, report, fence, mishaps>>
    BY <1>13 DEF Parsed, Goto, At
  <2>3. v \in Verdict /\ e \in RetryErrors /\ e \in Error
    BY TaskFacts, ConstantsAssumption
  <2>4. /\ parsed(e) \in Task /\ parsed(e).lease = task[w].lease
        /\ parsed(e).failure = e /\ parsed(e).body = task[w].body
    BY <1>0, <2>3 DEF Task
  <2> HIDE DEF parsed
  <2>6. LocalTypes'
    BY <1>0, <2>1, <2>2, <2>4 DEF LocalTypes, PC
  <2>. QED BY <1>0, <2>1, <2>2, <2>3, <2>4, <2>6 DEF ShapeOf, Busy, Leased
<1>14. CASE Completed(w)
  <2>1. /\ pc[w] = "commit" /\ row[w] \in DOMAIN Shard[w]
        /\ pc' = [pc EXCEPT ![w] = "release"]
        /\ UNCHANGED <<row, seen, task, fence, mishaps>>
        /\ Record(w, "ACCEPTED", "IMPORTED") \/ Record(w, "QUARANTINED", "QUARANTINED")
    BY <1>1, <1>14 DEF Completed, At, Goto, Busy
  <2>3. report' \in [Worker -> Seq(Entry)]
    BY <1>0, <1>1, <1>3, <2>1, RecordType
  <2>5. LocalTypes'
    BY <1>0, <2>1, <2>3 DEF LocalTypes, PC
  <2>. QED BY <1>0, <2>1, <2>5 DEF ShapeOf, Busy, Leased
<1>15. CASE Refused(w)
  <2> DEFINE refused == [task[w] EXCEPT !.verdict = SchemaInvalid,
                                        !.failure = Storage("SCHEMA_INVALID")]
  <2>1. /\ pc[w] = "commit"
        /\ \/ task' = [task EXCEPT ![w] = refused] /\ pc' = [pc EXCEPT ![w] = "complete"]
           \/ task' = task /\ pc' = [pc EXCEPT ![w] = "abort"]
        /\ UNCHANGED <<row, seen, report, fence, mishaps>>
    BY <1>15 DEF Refused, At, Goto
  <2>2. Storage("SCHEMA_INVALID") \in RetryErrors /\ Storage("SCHEMA_INVALID") \in Error
        /\ SchemaInvalid \in Verdict
    BY TaskFacts, ConstantsAssumption
  <2>3. /\ refused \in Task /\ refused.lease = task[w].lease
        /\ refused.failure \in RetryErrors /\ refused.body = task[w].body
    BY <1>0, <2>2 DEF Task
  <2> HIDE DEF refused
  <2>4. LocalTypes'
    BY <1>0, <2>1, <2>3 DEF LocalTypes, PC
  <2>. QED BY <1>0, <2>1, <2>3, <2>4 DEF ShapeOf, Busy, Leased
<1>16. CASE Aborted(w) \/ AbortFails(w)
  <2>1. /\ pc[w] = "abort" /\ row[w] \in DOMAIN Shard[w]
        /\ pc' = [pc EXCEPT ![w] = "release"]
        /\ UNCHANGED <<row, seen, task, fence>>
        /\ Smooth \/ Mishap
        /\ \/ report' = report
           \/ Record(w, "RETRYABLE", "EXHAUSTED") \/ Record(w, "RUNNING", "DEFERRED")
    BY <1>1, <1>16 DEF Aborted, AbortFails, At, Goto, Busy, Smooth
  <2>3. report' \in [Worker -> Seq(Entry)]
    BY <1>0, <1>1, <1>3, <2>1, RecordType
  <2>4. mishaps' \in 0..MaxMishaps
    BY <1>0, <2>1, MishapType
  <2>5. LocalTypes'
    BY <1>0, <2>1, <2>3, <2>4 DEF LocalTypes, PC
  <2>. QED BY <1>0, <2>1, <2>5 DEF ShapeOf, Busy, Leased
<1>17. CASE Release(w)
  <2>1. /\ pc[w] = "release" /\ row[w] \in DOMAIN Shard[w]
        /\ task' = [task EXCEPT ![w] = NoTask] /\ fence' = Released(w)
        /\ seen' = seen
        /\ Smooth \/ Mishap
        /\ report' = report \/ Record(w, "RETRYABLE", "DEFERRED")
    BY <1>1, <1>17 DEF Release, At, Busy
  <2>2. PICK label \in {"pick", "gate"}, k \in {row[w], row[w] + 1} :
           /\ pc' = [pc EXCEPT ![w] = label] /\ row' = [row EXCEPT ![w] = k]
           /\ label = "gate" => k = row[w]
    BY <1>0, <1>17 DEF Release, NextRow, Goto
  <2>3. report' \in [Worker -> Seq(Entry)]
    BY <1>0, <1>1, <1>3, <2>1, RecordType
  <2>4. mishaps' \in 0..MaxMishaps /\ fence' \in [Filing -> Worker \cup {NoWorker}]
    BY <1>0, <2>1, MishapType, ReleasedType
  <2>5. LocalTypes'
    BY <1>0, <2>1, <2>2, <2>3, <2>4, TaskFacts DEF LocalTypes, PC
  <2>. QED BY <1>0, <2>1, <2>2, <2>5, TaskFacts DEF ShapeOf, Busy, Leased
<1>. QED
  BY <1>4, <1>5, <1>6, <1>7, <1>8, <1>9, <1>10, <1>11, <1>12, <1>13, <1>14, <1>15,
     <1>16, <1>17 DEF Work

\* A step of one worker leaves the places and variables of the others alone.
LEMMA OthersKept ==
    ASSUME LocalTypes, NEW w \in Worker,
           Start(w) \/ StartBlocked(w) \/ Work(w) \/ Crash(w) \/ SessionLost(w),
           NEW v \in Worker, v # w
    PROVE  /\ pc'[v] = pc[v] /\ row'[v] = row[v] /\ seen'[v] = seen[v]
           /\ task'[v] = task[v] /\ report'[v] = report[v]
<1> USE DEF LocalTypes, Goto
<1>1. CASE Start(w) \/ StartBlocked(w)
  BY <1>1 DEF Start, StartBlocked
<1>2. CASE Crash(w) \/ SessionLost(w)
  BY <1>2 DEF Crash, SessionLost
<1>3. CASE Pass(w) \/ Pick(w) \/ Finished(w) \/ TakeFence(w) \/ NoFence(w)
  BY <1>3 DEF Pass, Pick, Finished, TakeFence, NoFence, NextRow, Record
<1>4. CASE Granted(w) \/ NotGranted(w) \/ LeaseLost(w) \/ Renewed(w) \/ RenewFails(w)
  BY <1>4 DEF Granted, NotGranted, LeaseLost, Renewed, RenewFails, Record
<1>5. CASE FetchFails(w) \/ Begin(w) \/ Completed(w) \/ Refused(w) \/ CompleteFails(w)
  BY <1>5 DEF FetchFails, Begin, Completed, Refused, CompleteFails, Record
<1>6. CASE Aborted(w) \/ AbortFails(w) \/ Release(w)
  BY <1>6 DEF Aborted, AbortFails, Release, NextRow, Record
<1>7. ASSUME NEW c \in Checksum, Fetched(w, c)
      PROVE  /\ pc'[v] = pc[v] /\ row'[v] = row[v] /\ seen'[v] = seen[v]
             /\ task'[v] = task[v] /\ report'[v] = report[v]
  BY <1>7 DEF Fetched
<1>8. ASSUME NEW verdict \in {Null, Invalid}, Parsed(w, verdict)
      PROVE  /\ pc'[v] = pc[v] /\ row'[v] = row[v] /\ seen'[v] = seen[v]
             /\ task'[v] = task[v] /\ report'[v] = report[v]
  BY <1>8 DEF Parsed
<1>. QED BY <1>1, <1>2, <1>3, <1>4, <1>5, <1>6, <1>7, <1>8 DEF Work

LEMMA ImporterTypesNext ==
    ImporterTypes /\ [ImporterNext]_importVars => ImporterTypes'
<1> SUFFICES ASSUME ImporterTypes, [ImporterNext]_importVars PROVE ImporterTypes'
  OBVIOUS
<1>1. TypeInv'
  BY LedgerStep, TypeNext, ReviewedFirstNext DEF ImporterTypes, TypeInv
<1>2. TypeOK' /\ LocalTypes
  BY <1>1 DEF TypeInv, ImporterTypes
<1>3. ASSUME NEW w \in Worker, LocalTypes', ShapeOf(w)',
             Start(w) \/ StartBlocked(w) \/ Work(w) \/ Crash(w) \/ SessionLost(w)
      PROVE  ImporterTypes'
  <2>1. ASSUME NEW v \in Worker, v # w PROVE ShapeOf(v)'
    BY <1>2, <1>3, <2>1, OthersKept DEF ShapeOf, ImporterTypes, Shape
  <2>2. Shape'
    BY <1>3, <2>1 DEF Shape
  <2>. QED BY <1>1, <1>3, <2>2 DEF ImporterTypes
<1>4. ASSUME NEW w \in Worker, Start(w) PROVE ImporterTypes'
  BY <1>2, <1>3, <1>4, StartTypes
<1>5. ASSUME NEW w \in Worker, StartBlocked(w) PROVE ImporterTypes'
  <2>1. /\ pc[w] \in Resting /\ pc' = [pc EXCEPT ![w] = "blocked"]
        /\ report' = [report EXCEPT ![w] = <<>>]
        /\ UNCHANGED <<row, seen, task, fence>>
        /\ Smooth \/ Mishap
    BY <1>5 DEF StartBlocked, Goto
  <2>2. mishaps' \in 0..MaxMishaps /\ <<>> \in Seq(Entry)
    BY <1>2, <2>1, MishapType, EmptySeq
  <2>3. LocalTypes'
    BY <1>2, <2>1, <2>2 DEF LocalTypes, PC
  <2>4. ShapeOf(w)'
    BY <2>1, <1>2 DEF ShapeOf, ImporterTypes, Shape, LocalTypes, Busy, Leased
  <2>. QED BY <1>3, <1>5, <2>3, <2>4
<1>6. ASSUME NEW w \in Worker, Work(w) PROVE ImporterTypes'
  BY <1>2, <1>3, <1>6, WorkTypes
<1>7. ASSUME NEW w \in Worker, Crash(w) PROVE ImporterTypes'
  <2>1. /\ pc' = [pc EXCEPT ![w] = "idle"] /\ task' = [task EXCEPT ![w] = NoTask]
        /\ report' = [report EXCEPT ![w] = <<>>] /\ fence' = Released(w)
        /\ UNCHANGED <<row, seen>> /\ Mishap
    BY <1>7 DEF Crash, Goto
  <2>2. mishaps' \in 0..MaxMishaps /\ <<>> \in Seq(Entry)
    BY <1>2, <2>1, MishapType, EmptySeq
  <2>3. LocalTypes'
    BY <1>2, <2>1, <2>2, ReleasedType, TaskFacts DEF LocalTypes, PC
  <2>4. ShapeOf(w)'
    BY <2>1, <1>2, TaskFacts DEF ShapeOf, LocalTypes, Busy, Leased
  <2>. QED BY <1>3, <1>7, <2>3, <2>4
<1>8. ASSUME NEW w \in Worker, SessionLost(w) PROVE ImporterTypes'
  <2>1. fence' = Released(w) /\ UNCHANGED <<pc, row, seen, task, report>> /\ Mishap
    BY <1>8 DEF SessionLost
  <2>2. mishaps' \in 0..MaxMishaps
    BY <1>2, <2>1, MishapType
  <2>3. LocalTypes'
    BY <1>2, <2>1, <2>2, ReleasedType DEF LocalTypes
  <2>4. ShapeOf(w)'
    BY <2>1 DEF ShapeOf, ImporterTypes, Shape
  <2>. QED BY <1>3, <1>8, <2>3, <2>4
<1>9. CASE Pause \/ (\E f \in Filing : Abandoned(f)) \/ UNCHANGED importVars
  BY <1>1, <1>9 DEF Pause, Abandoned, importVars, ImporterTypes, LocalTypes, Shape, ShapeOf
<1>. QED BY <1>4, <1>5, <1>6, <1>7, <1>8, <1>9 DEF ImporterNext

LEMMA ImporterTypesInit == ImporterInit => ImporterTypes
<1> SUFFICES ASSUME ImporterInit PROVE ImporterTypes
  OBVIOUS
<1>1. TypeInv
  BY TypeInit DEF ImporterInit
<1>2. LocalTypes
  <2>1. <<>> \in Seq(Entry) /\ NoTask \in Task /\ 0 \in 0..MaxMishaps
    BY EmptySeq, TaskFacts, ImporterAssumption
  <2>2. [state |-> "ABSENT", attempts |-> 0, error |-> Null, expiry |-> 0] \in Seen
    BY ConstantsAssumption DEF Seen
  <2>. QED BY <2>1, <2>2 DEF ImporterInit, LocalTypes, PC
<1>3. Shape
  BY TaskFacts DEF ImporterInit, Shape, ShapeOf, Busy, Leased
<1>. QED BY <1>1, <1>2, <1>3 DEF ImporterTypes

\* The importer and the ledger it writes keep their types, and what a worker
\* holds always fits the place it is at.
THEOREM ImporterInvariant == ImporterSpec => []ImporterTypes
BY ImporterTypesInit, ImporterTypesNext, PTL DEF ImporterSpec

\* Whatever fails, the ledger and the local variables of the workers hold
\* values of their types.
THEOREM ImporterTypeCorrect == ImporterSpec => []ImporterTypeOK
<1>1. ImporterTypes => ImporterTypeOK
  BY DEF ImporterTypes, ImporterTypeOK, TypeInv, LocalTypes
<1>. QED BY <1>1, ImporterInvariant, PTL

\* Importing is nothing but ledger transactions, so all that is proved of the
\* ledger holds of it while workers overlap, stall and die.
THEOREM ImporterUsesLedger == ImporterSpec => UsesLedger
<1>1. ImporterInit => Init
  BY DEF ImporterInit
<1>. QED BY <1>1, LedgerStep, ImporterInvariant, PTL DEF ImporterSpec, UsesLedger, Spec

----------------------------------------------------------------------------
(* Reports *)

\* A snapshot is old, but what is final in it still holds.
SnapshotsHold ==
    \A w \in Worker, f \in Filing :
        /\ seen[w][f].state \in Terminal => item[f].state = seen[w][f].state
        /\ seen[w][f].attempts <= item[f].attempts

\* A ledger step keeps what is decided and takes no attempt back.
LEMMA LedgerGrows ==
    ASSUME TypeInv, EvidenceIsSound, [Next]_ledgerVars, NEW f \in Filing
    PROVE  /\ item[f].state \in Terminal => item'[f] = item[f]
           /\ item[f].attempts \in Nat /\ item'[f].attempts \in Nat
           /\ item[f].attempts <= item'[f].attempts
<1>1. item[f].state \in Terminal => item'[f] = item[f]
  BY DecidedKept DEF Kept, EvidenceIsSound
<1>2. /\ item[f] \in Item /\ item[f].attempts \in Nat
      /\ item[f].attempts <= item[f].attempts /\ item[f].attempts <= item[f].attempts + 1
  <2>1. item[f] \in Item
    BY DEF TypeInv, TypeOK
  <2>2. item[f].attempts \in Nat
    BY <2>1, ConstantsAssumption DEF Item
  <2>. QED BY <2>1, <2>2
<1>3. item'[f].attempts \in {item[f].attempts, item[f].attempts + 1}
  <2>1. Recovered(f) \in Item /\ AfterLapse(f).attempts = item[f].attempts
    BY <1>2, LapseTypes DEF AfterLapse, Item, TypeInv
  <2>2. CASE \E r \in Run : RowClaimed(f, r)
    BY <2>1, <2>2 DEF RowClaimed, Item
  <2>3. CASE RowKept(f) \/ RowReviewed(f) \/ RowLapsed(f)
    BY <1>2, <2>1, <2>3 DEF RowKept, RowReviewed, RowLapsed, Item
  <2>4. CASE \E t \in Token : RowRenewed(f, t)
    BY <1>2, <2>4 DEF RowRenewed, Item
  <2>5. CASE \E t \in Token, v \in Verdicts : RowFinished(f, t, v)
    BY <1>2, <2>5 DEF RowFinished, Item
  <2>. QED BY <2>2, <2>3, <2>4, <2>5, RowSteps DEF RowStep
<1>. QED BY <1>1, <1>2, <1>3

\* What is so when worker w adds entry d to its report.
Tells(w, d) ==
    /\ d \in Entry
    /\ d.filing = Current(w)
    /\ d.state \in Terminal => item'[Current(w)].state = d.state
    /\ d.action = "EXHAUSTED" => item'[Current(w)].attempts = MaxAttempts
    /\ d.action \in {"IMPORTED", "QUARANTINED"} =>
          d.state \in Terminal /\ item[Current(w)].state \notin Terminal

Adds(w) ==
    /\ row[w] \in DOMAIN Shard[w]
    /\ \E d \in Entry : Tells(w, d) /\ report'[w] = Append(report[w], d)

\* How a step of a worker moves it through its shard and its report.
Move(w) ==
    \/ /\ pc[w] \in (Busy \cup {"pick"}) \ {"release"} /\ pc'[w] \in Busy
       /\ row'[w] = row[w] /\ report'[w] = report[w]
    \/ /\ pc[w] \in Busy \ {"release"} /\ pc'[w] = "release"
       /\ row'[w] = row[w] /\ Adds(w)
    \/ /\ pc[w] \in {"pick", "gate"} \/ (pc[w] = "release" /\ ~Recorded(w))
       /\ pc'[w] = "pick" /\ row'[w] = row[w] + 1 /\ Adds(w)
    \/ /\ pc[w] = "release" /\ Recorded(w) /\ pc'[w] = "pick"
       /\ row[w] \in DOMAIN Shard[w] /\ row'[w] = row[w] + 1 /\ report'[w] = report[w]
    \/ /\ pc[w] = "release" /\ ~Recorded(w) /\ pc'[w] = "gate"
       /\ row'[w] = row[w] /\ report'[w] = report[w]
    \/ /\ pc[w] = "pick" /\ row[w] \notin DOMAIN Shard[w] /\ pc'[w] = "done"
       /\ row'[w] = row[w] /\ report'[w] = report[w]
    \/ pc'[w] = "pick" /\ row'[w] = 1 /\ report'[w] = <<>>
    \/ pc'[w] \in {"idle", "blocked"} /\ report'[w] = <<>>
    \/ UNCHANGED <<pc[w], row[w], report[w]>>

LEMMA RecordAdds ==
    ASSUME ImporterTypes, NEW w \in Worker, row[w] \in DOMAIN Shard[w],
           NEW s \in EntryState, NEW a \in EntryAction, Record(w, s, a),
           s \in Terminal => item'[Current(w)].state = s,
           a = "EXHAUSTED" => item'[Current(w)].attempts = MaxAttempts,
           a \in {"IMPORTED", "QUARANTINED"} =>
              s \in Terminal /\ item[Current(w)].state \notin Terminal
    PROVE  Adds(w)
<1> DEFINE d == [filing |-> Current(w), state |-> s, action |-> a]
<1>1. d \in Entry /\ d.filing = Current(w) /\ d.state = s /\ d.action = a
  BY CurrentType DEF Entry, EntryState, EntryAction
<1>2. report'[w] = Append(report[w], d)
  BY DEF Record, ImporterTypes, LocalTypes
<1> HIDE DEF d
<1>. QED BY <1>1, <1>2 DEF Adds, Tells

LEMMA WorkMoves ==
    ASSUME ImporterTypes, EvidenceIsSound, SnapshotsHold, AttemptsFollowLeases,
           [Next]_ledgerVars, NEW w \in Worker, Work(w)
    PROVE  Move(w)
<1>0. /\ pc[w] \in PC /\ row[w] \in Nat /\ TypeInv
      /\ pc \in [Worker -> PC] /\ row \in [Worker -> Nat] /\ report \in [Worker -> Seq(Entry)]
      /\ pc[w] \in Busy => row[w] \in DOMAIN Shard[w]
  BY DEF ImporterTypes, LocalTypes, Shape, ShapeOf
<1>1. row[w] \in DOMAIN Shard[w] => Current(w) \in Filing
  BY CurrentType
<1>2. ASSUME row[w] \in DOMAIN Shard[w], pc[w] \notin Resting
      PROVE  /\ seen[w][Current(w)] \in Seen
             /\ seen[w][Current(w)].state \in EntryState
             /\ seen[w][Current(w)].state \in Terminal =>
                   item'[Current(w)].state = seen[w][Current(w)].state
  <2>1. seen[w][Current(w)] \in Seen
    BY <1>1, <1>2 DEF ImporterTypes, LocalTypes
  <2>2. seen[w][Current(w)].state # "ABSENT"
    BY <1>2, CurrentType DEF ImporterTypes, Shape, ShapeOf
  <2>3. seen[w][Current(w)].state \in Terminal =>
           item[Current(w)].state = seen[w][Current(w)].state
    BY <1>1, <1>2 DEF SnapshotsHold
  <2>4. item[Current(w)].state \in Terminal => item'[Current(w)] = item[Current(w)]
    BY <1>0, <1>1, <1>2, LedgerGrows
  <2>. QED BY <2>1, <2>2, <2>3, <2>4 DEF Seen, EntryState
<1>3. CASE Pass(w)
  <2> DEFINE s == seen[w][Current(w)]
  <2>1. /\ pc[w] = "pick" /\ row[w] \in DOMAIN Shard[w]
        /\ pc'[w] = "pick" /\ row'[w] = row[w] + 1 /\ item' = item
    BY <1>0, <1>3 DEF Pass, At, NextRow, Goto, ledgerVars
  <2>2. s \in Seen /\ s.state \in EntryState
        /\ (s.state \in Terminal => item'[Current(w)].state = s.state)
    BY <1>2, <2>1
  <2>3. s.attempts >= MaxAttempts => item[Current(w)].attempts = MaxAttempts
    <3>1. s.attempts <= item[Current(w)].attempts
      BY <1>1, <2>1 DEF SnapshotsHold
    <3>2. item[Current(w)].attempts \in 0..MaxAttempts /\ s.attempts \in 0..MaxAttempts
      BY <1>0, <1>1, <2>1, <2>2 DEF TypeInv, TypeOK, Item, Seen
    <3> HIDE DEF s
    <3>. QED BY <3>1, <3>2, Budget
  <2> HIDE DEF s
  <2>4. \/ Record(w, s.state, "SKIPPED")
        \/ Record(w, s.state, "DEFERRED")
        \/ Record(w, "RETRYABLE", "EXHAUSTED") /\ s.attempts >= MaxAttempts
    <3>1. CASE Passed(s) # <<>> /\ Record(w, Passed(s)[1], Passed(s)[2])
      BY <3>1 DEF Passed
    <3>2. CASE s.state = "RETRYABLE" /\ Record(w, s.state, "DEFERRED")
      BY <3>2
    <3>. QED BY <1>3, <3>1, <3>2 DEF Pass, s
  <2>5. Adds(w)
    BY <2>1, <2>2, <2>3, <2>4, RecordAdds, EntryFacts
  <2>. QED BY <2>1, <2>5 DEF Move
<1>4. CASE NoFence(w)
  <2>1. /\ pc[w] = "gate" /\ row[w] \in DOMAIN Shard[w]
        /\ pc'[w] = "pick" /\ row'[w] = row[w] + 1
    BY <1>0, <1>4 DEF NoFence, At, NextRow, Goto, Busy
  <2>2. Adds(w)
    BY <1>2, <1>4, <2>1, RecordAdds, EntryFacts DEF NoFence
  <2>. QED BY <2>1, <2>2 DEF Move
<1>5. CASE NotGranted(w)
  <2>1. /\ pc[w] = "claim" /\ row[w] \in DOMAIN Shard[w]
        /\ pc'[w] = "release" /\ row' = row
    BY <1>0, <1>5 DEF NotGranted, At, Goto, Busy
  <2>2. Record(w, "RUNNING", "DEFERRED") \/ Record(w, seen[w][Current(w)].state, "DEFERRED")
    BY <1>5 DEF NotGranted
  <2>3. Adds(w)
    BY <1>2, <2>1, <2>2, RecordAdds, EntryFacts
  <2>. QED BY <2>1, <2>3 DEF Move, Busy
<1>6. CASE LeaseLost(w)
  <2>1. /\ pc[w] \in Leased /\ row[w] \in DOMAIN Shard[w]
        /\ pc'[w] = "release" /\ row' = row
    BY <1>0, <1>6 DEF LeaseLost, Goto, Busy, Leased
  <2>2. Adds(w)
    BY <1>6, <2>1, RecordAdds, EntryFacts DEF LeaseLost
  <2>. QED BY <2>1, <2>2 DEF Move, Busy, Leased
<1>7. CASE Completed(w)
  <2>1. /\ pc[w] = "commit" /\ row[w] \in DOMAIN Shard[w]
        /\ pc'[w] = "release" /\ row' = row
        /\ task[w].lease \in Token /\ task[w].body \in Checksum
        /\ Current(w) \in Filing
    BY <1>0, <1>1, <1>7
    DEF Completed, At, Goto, Busy, Leased, ImporterTypes, LocalTypes, Shape, ShapeOf, Task
  <2>2. CASE task[w].verdict = Null
    <3>1. Finalize(Current(w), task[w].lease, "ACCEPTED", Null, task[w].body)
      BY <1>7, <2>2 DEF Completed, Complete, CompleteAccepted
    <3>2. item[Current(w)].state = "RUNNING" /\ item'[Current(w)].state = "ACCEPTED"
      BY <1>0, <2>1, <3>1, FinalizeRow
    <3>3. Adds(w)
      BY <1>7, <2>1, <2>2, <3>2, RecordAdds, EntryFacts DEF Completed
    <3>. QED BY <2>1, <3>3 DEF Move, Busy
  <2>3. CASE task[w].verdict # Null
    <3>1. Finalize(Current(w), task[w].lease, "QUARANTINED", task[w].verdict, task[w].body)
      BY <1>7, <2>3 DEF Completed, Complete, CompleteQuarantined
    <3>2. item[Current(w)].state = "RUNNING" /\ item'[Current(w)].state = "QUARANTINED"
      BY <1>0, <2>1, <3>1, FinalizeRow
    <3>3. Adds(w)
      BY <1>7, <2>1, <2>3, <3>2, RecordAdds, EntryFacts DEF Completed
    <3>. QED BY <2>1, <3>3 DEF Move, Busy
  <2>. QED BY <2>2, <2>3
<1>8. CASE Aborted(w) \/ AbortFails(w)
  <2>1. /\ pc[w] = "abort" /\ row[w] \in DOMAIN Shard[w]
        /\ pc'[w] = "release" /\ row' = row /\ Current(w) \in Filing
        /\ task[w].lease \in Token
    BY <1>0, <1>1, <1>8
    DEF Aborted, AbortFails, At, Goto, Busy, Leased, ImporterTypes, LocalTypes, Shape, ShapeOf, Task
  <2>2. CASE report' = report
    BY <2>1, <2>2 DEF Move, Busy
  <2>3. CASE Record(w, "RUNNING", "DEFERRED")
    <3>1. Adds(w)
      BY <2>1, <2>3, RecordAdds, EntryFacts
    <3>. QED BY <2>1, <3>1 DEF Move, Busy
  <2>4. CASE /\ FinalizeRetryable(Current(w), task[w].lease, task[w].failure)
             /\ ~(task[w].lease < MaxAttempts)
             /\ Record(w, "RETRYABLE", "EXHAUSTED")
    <3>1. /\ item[Current(w)].state = "RUNNING" /\ item[Current(w)].token = task[w].lease
          /\ item'[Current(w)].attempts = item[Current(w)].attempts
      BY <1>0, <2>1, <2>4 DEF FinalizeRetryable, Finalize, LeaseHeld, TypeInv, TypeOK, Item
    <3>2. item[Current(w)].attempts = task[w].lease
      BY <2>1, <3>1 DEF AttemptsFollowLeases
    <3>3. task[w].lease = MaxAttempts
      BY <2>1, <2>4, Budget DEF Token
    <3>4. Adds(w)
      BY <2>1, <2>4, <3>1, <3>2, <3>3, RecordAdds, EntryFacts
    <3>. QED BY <2>1, <3>4 DEF Move, Busy
  <2>. QED BY <1>8, <2>2, <2>3, <2>4 DEF Aborted, AbortFails
<1>9. CASE Release(w)
  <2>1. pc[w] = "release" /\ row[w] \in DOMAIN Shard[w]
    BY <1>0, <1>9 DEF Release, At, Busy
  <2>2. CASE Recorded(w) /\ NextRow(w) /\ UNCHANGED report
    BY <1>0, <2>1, <2>2 DEF NextRow, Goto, Move
  <2>3. CASE ~Recorded(w) /\ Goto(w, "gate") /\ UNCHANGED <<row, report>>
    BY <1>0, <2>1, <2>3 DEF Goto, Move
  <2>4. CASE ~Recorded(w) /\ Record(w, "RETRYABLE", "DEFERRED") /\ NextRow(w)
    <3>1. Adds(w)
      BY <2>1, <2>4, RecordAdds, EntryFacts
    <3>. QED BY <1>0, <2>1, <2>4, <3>1 DEF NextRow, Goto, Move
  <2>. QED BY <1>9, <2>2, <2>3, <2>4 DEF Release
<1>10. CASE Finished(w)
  BY <1>0, <1>10 DEF Finished, At, Goto, Move
<1>11. CASE \/ Pick(w) \/ TakeFence(w) \/ Granted(w) \/ Renewed(w) \/ RenewFails(w)
            \/ FetchFails(w) \/ Begin(w) \/ Refused(w) \/ CompleteFails(w)
  <2>1. /\ pc[w] \in (Busy \cup {"pick"}) \ {"release"} /\ pc'[w] \in Busy
        /\ row' = row /\ report' = report
    BY <1>0, <1>11 DEF Pick, TakeFence, Granted, Renewed, RenewFails, FetchFails, Begin,
                       Refused, CompleteFails, At, Goto, Busy
  <2>. QED BY <2>1 DEF Move
<1>12. ASSUME NEW c \in Checksum, Fetched(w, c) PROVE Move(w)
  BY <1>0, <1>12 DEF Fetched, At, Goto, Busy, Move
<1>13. ASSUME NEW v \in {Null, Invalid}, Parsed(w, v) PROVE Move(w)
  BY <1>0, <1>13 DEF Parsed, At, Goto, Busy, Move
<1>. QED
  BY <1>3, <1>4, <1>5, <1>6, <1>7, <1>8, <1>9, <1>10, <1>11, <1>12, <1>13 DEF Work

\* Every step of the importer moves every worker as described, and changes
\* the report of one worker at most.
LEMMA StepMoves ==
    ASSUME ImporterTypes, EvidenceIsSound, AttemptsFollowLeases, SnapshotsHold,
           [ImporterNext]_importVars
    PROVE  /\ \A v \in Worker : Move(v)
           /\ \A v, w \in Worker : v # w => report'[v] = report[v] \/ report'[w] = report[w]
<1>0. pc \in [Worker -> PC] /\ row \in [Worker -> Nat] /\ report \in [Worker -> Seq(Entry)]
      /\ LocalTypes
  BY DEF ImporterTypes, LocalTypes
<1>1. ASSUME NEW w \in Worker,
             Start(w) \/ StartBlocked(w) \/ Work(w) \/ Crash(w) \/ SessionLost(w)
      PROVE  Move(w)
  <2>1. CASE Start(w)
    BY <1>0, <2>1 DEF Start, Goto, Move
  <2>2. CASE StartBlocked(w) \/ Crash(w)
    BY <1>0, <2>2 DEF StartBlocked, Crash, Goto, Move
  <2>3. CASE Work(w)
    BY <2>3, WorkMoves, LedgerStep
  <2>4. CASE SessionLost(w)
    BY <2>4 DEF SessionLost, Move
  <2>. QED BY <1>1, <2>1, <2>2, <2>3, <2>4
<1>2. ASSUME NEW w \in Worker,
             Start(w) \/ StartBlocked(w) \/ Work(w) \/ Crash(w) \/ SessionLost(w),
             NEW v \in Worker, v # w
      PROVE  Move(v) /\ report'[v] = report[v]
  BY <1>0, <1>2, OthersKept DEF Move
<1>3. CASE Pause \/ (\E f \in Filing : Abandoned(f)) \/ UNCHANGED importVars
  BY <1>3 DEF Pause, Abandoned, importVars, Move
<1>. QED BY <1>1, <1>2, <1>3 DEF ImporterNext

\* The report after an addition.
LEMMA Appended ==
    ASSUME LocalTypes, NEW w \in Worker, Adds(w)
    PROVE  /\ Len(report'[w]) = Len(report[w]) + 1
           /\ DOMAIN report'[w] = 1..(Len(report[w]) + 1)
           /\ \A i \in 1..Len(report[w]) : report'[w][i] = report[w][i]
           /\ Tells(w, report'[w][Len(report[w]) + 1])
<1>1. report[w] \in Seq(Entry)
  BY DEF LocalTypes
<1>2. PICK d \in Entry : Tells(w, d) /\ report'[w] = Append(report[w], d)
  BY DEF Adds
<1>3. Append(report[w], d) \in Seq(Entry)
  BY <1>1, AppendProperties
<1>. QED BY <1>1, <1>2, <1>3, AppendProperties, LenProperties

\* How far a worker is in its shard and in its report.
PositionOf(w) ==
    /\ \A i \in DOMAIN report[w] : report[w][i].filing = Shard[w][i]
    /\ pc[w] \notin Resting => row[w] \in 1..(Len(Shard[w]) + 1)
    /\ pc[w] \notin Resting \cup {"release"} => Len(report[w]) = row[w] - 1
    /\ pc[w] = "release" => Len(report[w]) \in {row[w] - 1, row[w]}
    /\ pc[w] = "done" => Len(report[w]) = Len(Shard[w])

LEMMA PositionKept ==
    ASSUME ImporterTypes, NEW w \in Worker, PositionOf(w), Move(w)
    PROVE  PositionOf(w)'
<1>0. /\ Shard[w] \in Seq(Filing)
      /\ report[w] \in Seq(Entry) /\ row[w] \in Nat /\ pc[w] \in PC /\ LocalTypes
      /\ pc[w] \in Busy => row[w] \in DOMAIN Shard[w]
  BY ImporterAssumption DEF ImporterTypes, LocalTypes, Shape, ShapeOf
<1>1. PICK n \in Nat, k \in Nat, m \in Nat : n = Len(report[w]) /\ k = row[w] /\ m = Len(Shard[w])
  BY <1>0, LenProperties
<1>2. DOMAIN Shard[w] = 1..m /\ DOMAIN report[w] = 1..n
  BY <1>0, <1>1, LenProperties
<1>3. /\ \A i \in 1..n : report[w][i].filing = Shard[w][i]
      /\ pc[w] \notin Resting => k \in 1..(m + 1)
      /\ pc[w] \notin Resting \cup {"release"} => n = k - 1
      /\ pc[w] = "release" => n \in {k - 1, k}
      /\ pc[w] = "done" => n = m
      /\ pc[w] \in Busy => k \in 1..m
  BY <1>0, <1>1, <1>2 DEF PositionOf
<1>4. ASSUME row[w] \in DOMAIN Shard[w], Adds(w), n = k - 1
      PROVE  /\ Len(report'[w]) = k
             /\ \A i \in DOMAIN report'[w] : report'[w][i].filing = Shard[w][i]
  <2>1. /\ Len(report'[w]) = n + 1 /\ DOMAIN report'[w] = 1..(n + 1)
        /\ \A i \in 1..n : report'[w][i] = report[w][i]
        /\ report'[w][n + 1].filing = Shard[w][k]
    BY <1>0, <1>1, <1>4, Appended DEF Tells, Current
  <2>2. n + 1 = k /\ \A i \in 1..(n + 1) : i \in 1..n \/ i = n + 1
    BY <1>1, <1>4
  <2>. QED BY <1>3, <2>1, <2>2
<1>5. ASSUME report'[w] = report[w]
      PROVE  /\ Len(report'[w]) = n
             /\ \A i \in DOMAIN report'[w] : report'[w][i].filing = Shard[w][i]
  BY <1>1, <1>2, <1>3, <1>5
<1>6. ASSUME report'[w] = <<>>
      PROVE  /\ Len(report'[w]) = 0
             /\ \A i \in DOMAIN report'[w] : report'[w][i].filing = Shard[w][i]
  BY <1>6
<1>7. CASE /\ pc[w] \in (Busy \cup {"pick"}) \ {"release"} /\ pc'[w] \in Busy
           /\ row'[w] = row[w] /\ report'[w] = report[w]
  BY <1>1, <1>3, <1>5, <1>7 DEF PositionOf, Busy
<1>8. CASE /\ pc[w] \in Busy \ {"release"} /\ pc'[w] = "release"
           /\ row'[w] = row[w] /\ Adds(w)
  BY <1>0, <1>1, <1>3, <1>4, <1>8 DEF PositionOf, Busy
<1>9. CASE /\ pc[w] \in {"pick", "gate"} \/ (pc[w] = "release" /\ ~Recorded(w))
           /\ pc'[w] = "pick" /\ row'[w] = row[w] + 1 /\ Adds(w)
  <2>1. n = k - 1
    BY <1>1, <1>3, <1>9 DEF Recorded
  <2>2. k \in 1..m
    BY <1>2, <1>9, <1>1 DEF Adds
  <2>. QED BY <1>0, <1>1, <1>4, <1>9, <2>1, <2>2, <1>2 DEF PositionOf
<1>10. CASE /\ pc[w] = "release" /\ Recorded(w) /\ pc'[w] = "pick"
            /\ row[w] \in DOMAIN Shard[w] /\ row'[w] = row[w] + 1 /\ report'[w] = report[w]
  BY <1>1, <1>2, <1>3, <1>5, <1>10 DEF PositionOf, Recorded
<1>11. CASE /\ pc[w] = "release" /\ ~Recorded(w) /\ pc'[w] = "gate"
            /\ row'[w] = row[w] /\ report'[w] = report[w]
  BY <1>1, <1>3, <1>5, <1>11 DEF PositionOf, Recorded, Busy
<1>12. CASE /\ pc[w] = "pick" /\ row[w] \notin DOMAIN Shard[w] /\ pc'[w] = "done"
            /\ row'[w] = row[w] /\ report'[w] = report[w]
  BY <1>1, <1>2, <1>3, <1>5, <1>12 DEF PositionOf
<1>13. CASE pc'[w] = "pick" /\ row'[w] = 1 /\ report'[w] = <<>>
  BY <1>1, <1>6, <1>13 DEF PositionOf
<1>14. CASE pc'[w] \in {"idle", "blocked"} /\ report'[w] = <<>>
  BY <1>6, <1>14 DEF PositionOf
<1>15. CASE UNCHANGED <<pc[w], row[w], report[w]>>
  BY <1>15 DEF PositionOf
<1>. QED BY <1>7, <1>8, <1>9, <1>10, <1>11, <1>12, <1>13, <1>14, <1>15 DEF Move

\* What a report claims is so in the ledger.
EntryTrue(e) ==
    /\ e.state \in Terminal => item[e.filing].state = e.state
    /\ e.action = "EXHAUSTED" => item[e.filing].attempts = MaxAttempts
    /\ e.action \in {"IMPORTED", "QUARANTINED"} => e.state \in Terminal

ReportsHold == \A w \in Worker : \A e \in Entries(w) : EntryTrue(e)

\* After a step an entry is an old one or what the worker tells.
LEMMA EntriesMove ==
    ASSUME ImporterTypes, NEW w \in Worker, Move(w), NEW e \in Entries(w)'
    PROVE  e \in Entries(w) \/ (Tells(w, e) /\ row[w] \in DOMAIN Shard[w] /\ report'[w] # report[w])
<1>0. report[w] \in Seq(Entry) /\ LocalTypes
  BY DEF ImporterTypes, LocalTypes
<1>1. PICK i \in DOMAIN report'[w] : e = report'[w][i]
  BY DEF Entries
<1>2. CASE Adds(w)
  <2>1. PICK n \in Nat : n = Len(report[w]) /\ DOMAIN report[w] = 1..n
    BY <1>0, LenProperties
  <2>2. /\ Len(report'[w]) = n + 1 /\ DOMAIN report'[w] = 1..(n + 1)
        /\ \A j \in 1..n : report'[w][j] = report[w][j]
        /\ Tells(w, report'[w][n + 1])
    BY <1>0, <1>2, <2>1, Appended
  <2>3. n + 1 # n
    BY <2>1
  <2>4. CASE i \in 1..n
    BY <1>1, <2>1, <2>2, <2>4 DEF Entries
  <2>5. CASE i = n + 1
    BY <1>1, <1>2, <2>1, <2>2, <2>3, <2>5 DEF Adds
  <2>. QED BY <2>1, <2>2, <2>4, <2>5
<1>3. CASE report'[w] = report[w] \/ report'[w] = <<>>
  BY <1>1, <1>3 DEF Entries
<1>. QED BY <1>2, <1>3 DEF Move

ReportInv ==
    /\ SnapshotsHold
    /\ \A w \in Worker : PositionOf(w)
    /\ ReportsHold
    /\ CreditedOnce

\* Only a worker that starts takes a snapshot.
LEMMA SnapshotStep ==
    ASSUME LocalTypes, [ImporterNext]_importVars, NEW w \in Worker
    PROVE  \/ seen'[w] = seen[w]
           \/ \A f \in Filing : /\ seen'[w][f].state = item'[f].state
                                /\ seen'[w][f].attempts = item'[f].attempts
<1> USE DEF LocalTypes
<1>1. ASSUME NEW v \in Worker, Start(v)
      PROVE  \/ seen'[w] = seen[w]
             \/ \A f \in Filing : /\ seen'[w][f].state = item'[f].state
                                  /\ seen'[w][f].attempts = item'[f].attempts
  BY <1>1 DEF Start
<1>2. ASSUME NEW v \in Worker, StartBlocked(v) \/ Crash(v) \/ SessionLost(v) PROVE seen' = seen
  BY <1>2 DEF StartBlocked, Crash, SessionLost
<1>3. ASSUME NEW v \in Worker, Work(v) PROVE seen' = seen
  BY <1>3 DEF Work, Pass, Pick, Finished, TakeFence, NoFence, Granted, NotGranted, LeaseLost,
              Renewed, RenewFails, Fetched, FetchFails, Parsed, Begin, Completed, Refused,
              CompleteFails, Aborted, AbortFails, Release
<1>4. CASE Pause \/ (\E f \in Filing : Abandoned(f)) \/ UNCHANGED importVars
  BY <1>4 DEF Pause, Abandoned, importVars
<1>. QED BY <1>1, <1>2, <1>3, <1>4 DEF ImporterNext

LEMMA ReportNext ==
    ASSUME ImporterTypes, ImporterTypes', EvidenceIsSound, AttemptsFollowLeases, ReportInv,
           [ImporterNext]_importVars
    PROVE  ReportInv'
<1>1. /\ \A w \in Worker : Move(w)
      /\ \A v, w \in Worker : v # w => report'[v] = report[v] \/ report'[w] = report[w]
  BY StepMoves DEF ReportInv
<1>2. \A f \in Filing :
         /\ item[f].state \in Terminal => item'[f] = item[f]
         /\ item[f].attempts \in Nat /\ item'[f].attempts \in Nat
         /\ item[f].attempts <= item'[f].attempts
         /\ item'[f].attempts <= MaxAttempts
  <2>1. [Next]_ledgerVars /\ TypeInv
    BY LedgerStep DEF ImporterTypes
  <2>2. \A f \in Filing : item'[f].attempts \in 0..MaxAttempts
    BY DEF ImporterTypes, TypeInv, TypeOK, Item
  <2>. QED BY <2>1, <2>2, LedgerGrows, ConstantsAssumption
<1>3. SnapshotsHold'
  <2> SUFFICES ASSUME NEW w \in Worker, NEW f \in Filing
               PROVE  /\ seen'[w][f].state \in Terminal => item'[f].state = seen'[w][f].state
                      /\ seen'[w][f].attempts <= item'[f].attempts
    BY DEF SnapshotsHold
  <2>1. CASE seen'[w] = seen[w]
    <3>1. seen[w][f].attempts \in Nat
      BY ConstantsAssumption DEF ImporterTypes, LocalTypes, Seen
    <3>2. /\ seen[w][f].state \in Terminal => item[f].state = seen[w][f].state
          /\ seen[w][f].attempts <= item[f].attempts
      BY DEF ReportInv, SnapshotsHold
    <3>3. seen[w][f].attempts <= item'[f].attempts
      BY <1>2, <3>1, <3>2
    <3>. QED BY <1>2, <2>1, <3>2, <3>3
  <2>2. CASE /\ seen'[w][f].state = item'[f].state
             /\ seen'[w][f].attempts = item'[f].attempts
    <3>1. item'[f].attempts <= item'[f].attempts
      BY <1>2
    <3>. QED BY <2>2, <3>1
  <2>. QED BY <2>1, <2>2, SnapshotStep DEF ImporterTypes
<1>4. \A w \in Worker : PositionOf(w)'
  BY <1>1, PositionKept DEF ReportInv
<1>5. ASSUME NEW w \in Worker, NEW e \in Entries(w)
      PROVE  /\ e.filing \in Filing /\ EntryTrue(e)'
             /\ e.action \in {"IMPORTED", "QUARANTINED"} => item[e.filing].state \in Terminal
  <2>1. e \in Entry
    <3>1. report[w] \in Seq(Entry)
      BY DEF ImporterTypes, LocalTypes
    <3>. QED BY <1>5, <3>1, LenProperties DEF Entries
  <2>2. e.filing \in Filing /\ EntryTrue(e)
    BY <1>5, <2>1 DEF Entry, ReportInv, ReportsHold
  <2>3. e.action = "EXHAUSTED" => item'[e.filing].attempts = MaxAttempts
    BY <1>2, <2>2, Budget DEF EntryTrue
  <2>. QED BY <1>2, <2>2, <2>3 DEF EntryTrue
<1>6. ReportsHold'
  <2> SUFFICES ASSUME NEW w \in Worker, NEW e \in Entries(w)' PROVE EntryTrue(e)'
    BY DEF ReportsHold
  <2>1. CASE e \in Entries(w)
    BY <1>5, <2>1
  <2>2. CASE Tells(w, e)
    BY <2>2 DEF Tells, EntryTrue
  <2>. QED BY <1>1, <2>1, <2>2, EntriesMove
<1>7. CreditedOnce'
  <2> DEFINE credit == {"IMPORTED", "QUARANTINED"}
  <2> SUFFICES ASSUME NEW v \in Worker, NEW w \in Worker, v # w,
                      NEW e \in Entries(v)', NEW d \in Entries(w)',
                      e.filing = d.filing, e.action \in credit, d.action \in credit
               PROVE  FALSE
    BY DEF CreditedOnce
  <2>1. CASE e \in Entries(v) /\ d \in Entries(w)
    BY <2>1 DEF ReportInv, CreditedOnce
  <2>2. CASE Tells(v, e) /\ d \in Entries(w)
    BY <1>5, <2>2 DEF Tells
  <2>3. CASE e \in Entries(v) /\ Tells(w, d)
    BY <1>5, <2>3 DEF Tells
  <2>4. CASE report'[v] # report[v] /\ report'[w] # report[w]
    BY <1>1, <2>4
  <2>. QED BY <1>1, <2>1, <2>2, <2>3, <2>4, EntriesMove
<1>. QED BY <1>3, <1>4, <1>6, <1>7 DEF ReportInv

LEMMA ReportInit == ImporterInit => ReportInv
<1> SUFFICES ASSUME ImporterInit PROVE ReportInv
  OBVIOUS
<1>1. SnapshotsHold
  BY DEF ImporterInit, Init, SnapshotsHold
<1>2. \A w \in Worker : report[w] = <<>> /\ pc[w] = "idle" /\ Entries(w) = {}
  BY DEF ImporterInit, Entries
<1>3. \A w \in Worker : PositionOf(w)
  BY <1>2 DEF PositionOf
<1>4. ReportsHold /\ CreditedOnce
  BY <1>2 DEF ReportsHold, CreditedOnce
<1>. QED BY <1>1, <1>3, <1>4 DEF ReportInv

\* The ledger's own invariants, while it is the importer that writes it.
LEMMA ImporterLedger == ImporterSpec => [](EvidenceIsSound /\ AttemptsFollowLeases /\ RowsSound)
<1>. QED BY ImporterUsesLedger, EvidenceSound, AttemptsExact, RowsInvariant, PTL DEF UsesLedger

\* Whatever goes wrong, a report has one entry per filing of its shard, in
\* order; what it calls accepted, quarantined or exhausted is so in the
\* ledger and stays so; and no two workers take credit for one filing.
THEOREM ReportsCanBeTrusted == ImporterSpec => []ReportIsTrue
<1>1. ImporterTypes /\ ReportInv /\ EvidenceIsSound => ReportIsTrue
  <2> SUFFICES ASSUME ImporterTypes, ReportInv, EvidenceIsSound PROVE ReportIsTrue
    OBVIOUS
  <2>1. OneEntryPerRow
    BY DEF ReportInv, PositionOf, OneEntryPerRow, At, PC
  <2>2. ReportIsDurable
    <3> SUFFICES ASSUME NEW w \in Worker, NEW e \in Entries(w)
                 PROVE  /\ e.state \in Terminal => item[e.filing].state = e.state
                        /\ e.state = "ACCEPTED" =>
                              \A l \in Evidence(e.filing) : \E d \in facts : d.line = l
                        /\ e.action = "EXHAUSTED" => item[e.filing].attempts = MaxAttempts
      BY DEF ReportIsDurable
    <3>1. report[w] \in Seq(Entry) /\ e \in Entry
      BY LenProperties DEF Entries, ImporterTypes, LocalTypes
    <3>2. e.filing \in Filing
      BY <3>1 DEF Entry
    <3>3. EntryTrue(e)
      BY DEF ReportInv, ReportsHold
    <3>4. item[e.filing].state = "ACCEPTED" =>
             \A l \in Evidence(e.filing) : \E d \in facts : d.line = l
      BY <3>2 DEF EvidenceIsSound, AcceptedFactsAreStored, Accepted
    <3>. QED BY <3>3, <3>4 DEF EntryTrue
  <2>. QED BY <2>1, <2>2 DEF ReportInv, ReportIsTrue
<1>2. ImporterTypes /\ ImporterTypes' /\ EvidenceIsSound /\ AttemptsFollowLeases /\ ReportInv
         /\ [ImporterNext]_importVars => ReportInv'
  BY ReportNext
<1>3. ImporterSpec => []ReportInv
  BY <1>2, ReportInit, ImporterInvariant, ImporterLedger, PTL DEF ImporterSpec
<1>. QED BY <1>1, <1>3, ImporterInvariant, ImporterLedger, PTL

----------------------------------------------------------------------------
(* One live worker per filing *)

\* The places between taking a filing's fence and giving it back.
Fenced == Working \cup {"release"}

\* As long as nothing went wrong, the fence of a filing in work is its
\* worker's.
FenceInv ==
    mishaps = 0 => \A w \in Worker : pc[w] \in Fenced => fence[Current(w)] = w

LEMMA FenceNext ==
    ASSUME ImporterTypes, FenceInv, [ImporterNext]_importVars
    PROVE  FenceInv'
<1> SUFFICES ASSUME mishaps' = 0, NEW v \in Worker, pc'[v] \in Fenced
             PROVE  fence'[Current(v)'] = v
  BY DEF FenceInv
<1>0. /\ LocalTypes /\ pc \in [Worker -> PC] /\ row \in [Worker -> Nat] /\ mishaps \in Nat
      /\ fence \in [Filing -> Worker \cup {NoWorker}] /\ NoWorker \notin Worker
  BY ImporterAssumption DEF ImporterTypes, LocalTypes
<1>1. ~Mishap
  <2> SUFFICES ASSUME mishaps' = mishaps + 1 PROVE FALSE
    BY DEF Mishap
  <2>1. mishaps + 1 # 0
    BY <1>0
  <2>. QED BY <2>1
<1>2. \A w \in Worker : pc[w] \in Fenced => Current(w) \in Filing
  BY CurrentType DEF ImporterTypes, Shape, ShapeOf, Busy, Fenced, Working
<1>3. ASSUME NEW w \in Worker, Start(w) \/ StartBlocked(w) \/ Work(w) \/ Crash(w) \/ SessionLost(w),
             w # v
      PROVE  pc'[v] = pc[v] /\ row'[v] = row[v] /\ Current(v)' = Current(v)
  BY <1>0, <1>3, OthersKept DEF Current
<1>4. ASSUME mishaps' = mishaps
      PROVE  \A w \in Worker : pc[w] \in Fenced => fence[Current(w)] = w
  BY <1>4 DEF FenceInv
<1>5. ASSUME NEW w \in Worker, Start(w) \/ StartBlocked(w) \/ Crash(w) \/ SessionLost(w)
      PROVE  fence'[Current(v)'] = v
  <2>1. Start(w) \/ StartBlocked(w)
    BY <1>1, <1>5 DEF Crash, SessionLost
  <2>2. pc'[w] \notin Fenced /\ fence' = fence /\ mishaps' = mishaps
    BY <1>0, <1>1, <2>1 DEF Start, StartBlocked, Goto, Fenced, Working, Smooth
  <2>. QED BY <1>3, <1>4, <2>1, <2>2
<1>6. ASSUME NEW w \in Worker, TakeFence(w) PROVE fence'[Current(v)'] = v
  <2>1. /\ pc[w] = "gate" /\ fence[Current(w)] = NoWorker /\ mishaps' = mishaps
        /\ fence' = [fence EXCEPT ![Current(w)] = w] /\ row' = row
    BY <1>6 DEF TakeFence, At
  <2>2. Current(w) \in Filing
    BY <2>1, CurrentType DEF ImporterTypes, Shape, ShapeOf, Busy
  <2>3. CASE v = w
    BY <1>0, <2>1, <2>2, <2>3 DEF Current
  <2>4. CASE v # w
    <3>1. pc[v] \in Fenced /\ Current(v)' = Current(v)
      BY <1>3, <1>6, <2>4 DEF Work
    <3>2. Current(v) \in Filing /\ fence[Current(v)] = v
      BY <1>2, <1>4, <2>1, <3>1
    <3>. QED BY <1>0, <2>1, <3>1, <3>2
  <2>. QED BY <2>3, <2>4
<1>7. ASSUME NEW w \in Worker, Release(w) PROVE fence'[Current(v)'] = v
  <2>1. fence' = Released(w) /\ mishaps' = mishaps /\ pc'[w] \in {"pick", "gate"}
    BY <1>0, <1>1, <1>7 DEF Release, NextRow, Goto, Smooth
  <2>2. v # w
    BY <2>1 DEF Fenced, Working
  <2>3. pc[v] \in Fenced /\ Current(v)' = Current(v)
    BY <1>3, <1>7, <2>2 DEF Work
  <2>4. Current(v) \in Filing /\ fence[Current(v)] = v
    BY <1>2, <1>4, <2>1, <2>3
  <2>. QED BY <2>1, <2>2, <2>3, <2>4 DEF Released
<1>8. ASSUME NEW w \in Worker, Work(w), ~TakeFence(w), ~Release(w)
      PROVE  fence'[Current(v)'] = v
  <2>1. /\ fence' = fence /\ mishaps' = mishaps
        /\ pc'[w] \in Fenced => pc[w] \in Fenced /\ row'[w] = row[w]
    <3> USE <1>0, <1>1 DEF At, Goto, NextRow, Smooth, Fenced, Working
    <3>1. CASE Pass(w) \/ Pick(w) \/ Finished(w) \/ NoFence(w)
      BY <3>1 DEF Pass, Pick, Finished, NoFence
    <3>2. CASE Granted(w) \/ NotGranted(w) \/ LeaseLost(w) \/ Renewed(w) \/ RenewFails(w)
      BY <3>2 DEF Granted, NotGranted, LeaseLost, Renewed, RenewFails
    <3>3. CASE FetchFails(w) \/ Begin(w) \/ Completed(w) \/ Refused(w) \/ CompleteFails(w)
      BY <3>3 DEF FetchFails, Begin, Completed, Refused, CompleteFails
    <3>4. CASE Aborted(w) \/ AbortFails(w)
      BY <3>4 DEF Aborted, AbortFails
    <3>5. CASE \/ \E c \in Checksum : Fetched(w, c)
               \/ \E verdict \in {Null, Invalid} : Parsed(w, verdict)
      BY <3>5 DEF Fetched, Parsed
    <3>. QED BY <1>8, <3>1, <3>2, <3>3, <3>4, <3>5 DEF Work
  <2>2. CASE v = w
    BY <1>4, <2>1, <2>2 DEF Current
  <2>3. CASE v # w
    BY <1>3, <1>4, <1>8, <2>1, <2>3
  <2>. QED BY <2>2, <2>3
<1>9. CASE Pause \/ (\E f \in Filing : Abandoned(f)) \/ UNCHANGED importVars
  <2>1. UNCHANGED <<pc, row, fence, mishaps>>
    BY <1>9 DEF Pause, Abandoned, importVars
  <2>. QED BY <1>4, <2>1 DEF Current
<1>. QED BY <1>5, <1>6, <1>7, <1>8, <1>9 DEF ImporterNext

\* The item of f runs under lease t, lapsed or not.
RunsUnder(f, t) == item[f].state = "RUNNING" /\ item[f].token = t

\* A lease was issued for the row its worker is at, to that worker alone, and
\* an item that runs under it is recorded as its run's.
LeaseOf(w) ==
    task[w].lease # NoToken =>
        /\ task[w].lease <= item[Current(w)].attempts
        /\ RunsUnder(Current(w), task[w].lease) => item[Current(w)].owner = RunOf[w]
        /\ \A v \in Worker \ {w} :
              Current(v) = Current(w) => task[v].lease # task[w].lease

LeaseInv == \A w \in Worker : LeaseOf(w)

\* A step that leaves an item running under a lease issued before is a
\* renewal at most.
LEMMA RunningKept ==
    ASSUME TypeInv, [Next]_ledgerVars, NEW f \in Filing, NEW t \in Token,
           t <= item[f].attempts, RunsUnder(f, t)'
    PROVE  RunsUnder(f, t) /\ item'[f].owner = item[f].owner
<1>0. item[f] \in Item /\ item[f].attempts \in Nat
  BY ConstantsAssumption DEF TypeInv, TypeOK, Item
<1>1. ASSUME NEW r \in Run, RowClaimed(f, r) PROVE FALSE
  <2>1. item'[f].token = item[f].attempts + 1
    BY <1>0, <1>1, LapseTypes DEF RowClaimed, TypeInv, Item
  <2>2. t = item[f].attempts + 1
    BY <2>1 DEF RunsUnder
  <2>. QED BY <1>0, <2>2
<1>2. CASE RowKept(f)
  BY <1>2 DEF RowKept, RunsUnder
<1>3. CASE RowReviewed(f)
  BY <1>0, <1>3 DEF RowReviewed, RunsUnder, Item
<1>4. CASE RowLapsed(f)
  BY <1>0, <1>4 DEF RowLapsed, AfterLapse, RunsUnder, Item
<1>5. ASSUME NEW u \in Token, RowRenewed(f, u)
      PROVE  RunsUnder(f, t) /\ item'[f].owner = item[f].owner
  BY <1>0, <1>5 DEF RowRenewed, RunsUnder, Item
<1>6. ASSUME NEW u \in Token, NEW v \in Verdicts, RowFinished(f, u, v) PROVE FALSE
  BY <1>0, <1>6 DEF RowFinished, RunsUnder, Item, Verdicts
<1>. QED BY <1>1, <1>2, <1>3, <1>4, <1>5, <1>6, RowSteps DEF RowStep

\* A worker keeps its lease and its row, drops the lease, or is granted one.
LEMMA LeaseStep ==
    ASSUME ImporterTypes, [ImporterNext]_importVars, NEW w \in Worker, ~Granted(w),
           task'[w].lease # NoToken
    PROVE  /\ task'[w].lease = task[w].lease /\ row'[w] = row[w]
           /\ Current(w)' = Current(w) /\ Current(w) \in Filing /\ task[w].lease \in Token
<1>0. /\ LocalTypes /\ pc \in [Worker -> PC] /\ row \in [Worker -> Nat]
      /\ task \in [Worker -> Task] /\ ShapeOf(w) /\ NoTask.lease = NoToken
      /\ pc[w] \notin Leased \cup {"release"} => task[w].lease = NoToken
  BY TaskFacts DEF ImporterTypes, LocalTypes, Shape, ShapeOf
<1> DEFINE kept == task'[w].lease = task[w].lease /\ row'[w] = row[w]
<1> USE DEF At, Goto
<1>1. ASSUME Pass(w) \/ Pick(w) \/ Finished(w) \/ TakeFence(w) \/ NoFence(w)
      PROVE  kept
  <2>1. pc[w] \in {"pick", "gate"} /\ task' = task
    BY <1>1 DEF Pass, Pick, Finished, TakeFence, NoFence
  <2>. QED BY <1>0, <2>1 DEF Leased
<1>2. ASSUME NotGranted(w) \/ LeaseLost(w) \/ Renewed(w) \/ RenewFails(w)
      PROVE  kept
  BY <1>2 DEF NotGranted, LeaseLost, Renewed, RenewFails
<1>3. ASSUME \/ FetchFails(w) \/ Begin(w) \/ Completed(w) \/ CompleteFails(w)
             \/ Aborted(w) \/ AbortFails(w)
      PROVE  kept
  BY <1>3 DEF FetchFails, Begin, Completed, CompleteFails, Aborted, AbortFails
<1>4. ASSUME Refused(w)
      PROVE  kept
  BY <1>0, <1>4 DEF Refused, Task
<1>5. ASSUME Release(w) \/ Crash(w)
      PROVE  kept
  BY <1>0, <1>5 DEF Release, Crash
<1>6. ASSUME NEW c \in Checksum, Fetched(w, c)
      PROVE  kept
  BY <1>0, <1>6 DEF Fetched, Task
<1>6a. ASSUME NEW v \in {Null, Invalid}, Parsed(w, v)
      PROVE  kept
  BY <1>0, <1>6a DEF Parsed, Task
<1>7. ASSUME Start(w) \/ StartBlocked(w)
      PROVE  kept
  <2>1. pc[w] \in Resting /\ task' = task
    BY <1>7 DEF Start, StartBlocked
  <2>. QED BY <1>0, <2>1 DEF Leased
<1>8. ASSUME SessionLost(w) \/ Pause \/ (\E f \in Filing : Abandoned(f)) \/ UNCHANGED importVars
      PROVE  kept
  BY <1>8 DEF SessionLost, Pause, Abandoned, importVars
<1>9. ASSUME \E v \in Worker \ {w} :
              Start(v) \/ StartBlocked(v) \/ Work(v) \/ Crash(v) \/ SessionLost(v)
      PROVE  kept
  BY <1>0, <1>9, OthersKept
<1>10. kept
  <2> HIDE DEF kept
  <2>1. ASSUME Work(w) PROVE kept
    BY <1>1, <1>2, <1>3, <1>4, <1>5, <1>6, <1>6a, <2>1 DEF Work
  <2>2. ASSUME NEW v \in Worker,
               Start(v) \/ StartBlocked(v) \/ Work(v) \/ Crash(v) \/ SessionLost(v)
        PROVE  kept
    BY <1>5, <1>7, <1>8, <1>9, <2>1, <2>2
  <2>. QED BY <1>8, <2>2 DEF ImporterNext
<1>11. pc[w] \in Busy /\ row[w] \in DOMAIN Shard[w]
  BY <1>0, <1>10 DEF Leased, Busy, ShapeOf
<1>12. Current(w) \in Filing /\ Current(w)' = Current(w)
  BY <1>10, <1>11, CurrentType DEF Current
<1>13. task[w].lease \in Token
  BY <1>0, <1>10 DEF Task
<1>. QED BY <1>10, <1>12, <1>13

\* What a grant gives.
LEMMA GrantStep ==
    ASSUME ImporterTypes, NEW w \in Worker, Granted(w)
    PROVE  /\ Current(w)' = Current(w) /\ Current(w) \in Filing
           /\ item[Current(w)].attempts \in Nat
           /\ task'[w].lease = item[Current(w)].attempts + 1
           /\ item'[Current(w)].attempts = item[Current(w)].attempts + 1
           /\ item'[Current(w)].owner = RunOf[w]
           /\ \A v \in Worker \ {w} : ~Granted(v)
<1>1. /\ pc[w] = "claim" /\ Claim(Current(w), RunOf[w]) /\ row' = row
      /\ pc \in [Worker -> PC] /\ pc' = [pc EXCEPT ![w] = "renew"]
      /\ task \in [Worker -> Task]
      /\ task' = [task EXCEPT ![w] = [NoTask EXCEPT !.lease = item'[Current(w)].token]]
  BY DEF Granted, At, Goto, ImporterTypes, LocalTypes
<1>2. Current(w) \in Filing
  BY <1>1, CurrentType DEF ImporterTypes, Shape, ShapeOf, Busy
<1>3. item[Current(w)].attempts \in Nat /\ Recovered(Current(w)) \in Item
  BY <1>2, LapseTypes, ConstantsAssumption DEF ImporterTypes, TypeInv, TypeOK, Item
<1>4. /\ item'[Current(w)].token = item[Current(w)].attempts + 1
      /\ item'[Current(w)].attempts = item[Current(w)].attempts + 1
      /\ item'[Current(w)].owner = RunOf[w]
  BY <1>1, <1>2, <1>3 DEF Claim, ImporterTypes, TypeInv, TypeOK, Item
<1>5. task'[w].lease = item'[Current(w)].token
  BY <1>1, TaskFacts DEF Task
<1>6. \A v \in Worker \ {w} : ~Granted(v)
  <2> SUFFICES ASSUME NEW v \in Worker \ {w}, Granted(v) PROVE FALSE
    OBVIOUS
  <2>1. pc[v] = "claim" /\ pc'[v] = "renew"
    BY <1>1 DEF Granted, At, Goto
  <2>. QED BY <1>1, <2>1
<1>. QED BY <1>1, <1>2, <1>3, <1>4, <1>5, <1>6 DEF Current

LEMMA LeaseNext ==
    ASSUME ImporterTypes, EvidenceIsSound, LeaseInv, [ImporterNext]_importVars
    PROVE  LeaseInv'
<1> SUFFICES ASSUME NEW w \in Worker, task'[w].lease # NoToken
             PROVE  /\ task'[w].lease <= item'[Current(w)'].attempts
                    /\ RunsUnder(Current(w), task[w].lease)' => item'[Current(w)'].owner = RunOf[w]
                    /\ \A v \in Worker \ {w} :
                          Current(v)' = Current(w)' => task'[v].lease # task'[w].lease
  BY DEF LeaseInv, LeaseOf
<1>0. TypeInv /\ [Next]_ledgerVars
  BY LedgerStep DEF ImporterTypes
<1>1. CASE Granted(w)
  <2>1. PICK n \in Nat : n = item[Current(w)].attempts
    BY <1>1, GrantStep
  <2>2. /\ Current(w)' = Current(w) /\ task'[w].lease = n + 1
        /\ item'[Current(w)].attempts = n + 1 /\ item'[Current(w)].owner = RunOf[w]
    BY <1>1, <2>1, GrantStep
  <2>3. n + 1 <= n + 1
    BY <2>1
  <2>4. ASSUME NEW v \in Worker \ {w}, Current(v)' = Current(w)', task'[v].lease = task'[w].lease
        PROVE  FALSE
    <3>1. ~Granted(v)
      BY <1>1, GrantStep
    <3>2. task[v].lease = n + 1 /\ Current(v) = Current(w) /\ task[v].lease # NoToken
      BY <2>2, <2>4, <3>1, LeaseStep
    <3>3. n + 1 <= n
      BY <2>1, <3>2 DEF LeaseInv, LeaseOf
    <3>. QED BY <2>1, <3>3
  <2>. QED BY <2>2, <2>3, <2>4
<1>2. CASE ~Granted(w)
  <2>1. PICK f \in Filing, t \in Token :
           /\ Current(w) = f /\ Current(w)' = f /\ task[w].lease = t /\ task'[w].lease = t
           /\ t # NoToken
    BY <1>2, LeaseStep
  <2>2. t <= item[f].attempts /\ (RunsUnder(f, t) => item[f].owner = RunOf[w])
    BY <2>1 DEF LeaseInv, LeaseOf
  <2>3. t <= item'[f].attempts
    <3>1. t \in Nat
      BY <2>1, TokenFacts
    <3>2. item[f].attempts \in Nat /\ item'[f].attempts \in Nat
          /\ item[f].attempts <= item'[f].attempts
      BY <1>0, LedgerGrows
    <3>. QED BY <2>2, <3>1, <3>2
  <2>4. RunsUnder(f, t)' => item'[f].owner = RunOf[w]
    BY <1>0, <2>2, RunningKept
  <2>5. ASSUME NEW v \in Worker \ {w}, Current(v)' = f, task'[v].lease = t
        PROVE  FALSE
    <3>1. CASE Granted(v)
      <4>1. PICK n \in Nat : n = item[f].attempts /\ t = n + 1
        BY <2>5, <3>1, GrantStep
      <4>2. n + 1 <= n
        BY <2>2, <4>1
      <4>. QED BY <4>1, <4>2
    <3>2. CASE ~Granted(v)
      BY <2>1, <2>5, <3>2, LeaseStep DEF LeaseInv, LeaseOf
    <3>. QED BY <3>1, <3>2
  <2>. QED BY <2>1, <2>3, <2>4, <2>5 DEF RunsUnder
<1>. QED BY <1>1, <1>2

\* Without a failure no filing is in work twice; whatever fails, only one of
\* the workers that have it in work can still write its outcome, and the
\* ledger names that worker's run.
THEOREM AtMostOneLiveWorker == ImporterSpec => []OneLiveWorker
<1>1. ImporterInit => FenceInv /\ LeaseInv
  BY DEF ImporterInit, FenceInv, LeaseInv, LeaseOf, NoTask, Fenced, Working
<1>2. ImporterTypes /\ RowsSound /\ FenceInv /\ LeaseInv => OneLiveWorker
  <2> SUFFICES ASSUME ImporterTypes, RowsSound, FenceInv, LeaseInv,
                      NEW v \in Worker, NEW w \in Worker,
                      pc[v] \in Working, pc[w] \in Working, Current(v) = Current(w)
               PROVE  /\ v = w \/ mishaps > 0
                      /\ /\ LeaseHeld(Current(v), task[v].lease)
                         /\ LeaseHeld(Current(w), task[w].lease)
                         => v = w /\ item[Current(w)].owner = RunOf[w]
    BY DEF OneLiveWorker
  <2>1. v = w \/ mishaps > 0
    <3>1. mishaps = 0 => v = w
      BY DEF FenceInv, Fenced
    <3>2. mishaps \in Nat
      BY ImporterAssumption DEF ImporterTypes, LocalTypes
    <3>. QED BY <3>1, <3>2
  <2>2. ASSUME LeaseHeld(Current(v), task[v].lease), LeaseHeld(Current(w), task[w].lease)
        PROVE  v = w /\ item[Current(w)].owner = RunOf[w]
    <3>1. Current(w) \in Filing
      BY CurrentType DEF ImporterTypes, Shape, ShapeOf, Busy, Working
    <3>2. task[w].lease # NoToken /\ task[v].lease = task[w].lease
          /\ RunsUnder(Current(w), task[w].lease)
      BY <2>2, <3>1 DEF LeaseHeld, RowsSound, LeaseColumns, RunsUnder
    <3>. QED BY <3>2 DEF LeaseInv, LeaseOf
  <2>. QED BY <2>1, <2>2
<1>3. ImporterTypes /\ EvidenceIsSound /\ FenceInv /\ LeaseInv /\ [ImporterNext]_importVars
         => FenceInv' /\ LeaseInv'
  BY FenceNext, LeaseNext
<1>. QED BY <1>1, <1>2, <1>3, ImporterInvariant, ImporterLedger, PTL DEF ImporterSpec
=============================================================================
