------------------------- MODULE ManifestReviewProofs -------------------------
(***************************************************************************)
(* Machine-checked proofs about ManifestReview, for any issuers, periods,  *)
(* provenances, hand-made requests and bounds.                             *)
(***************************************************************************)
EXTENDS ManifestReview, TLAPS

----------------------------------------------------------------------------
(* The operators of the two programs *)

\* merge_manifests and validate_manifest.py agree: whatever the merge accepts,
\* its result passes the review against the manifest it was merged into.
LEMMA MergeAgreesWithReview ==
    ASSUME NEW old, NEW new, Mergeable(old, new)
    PROVE  ReviewFilings(MergeManifests(old, new), old)
<1> DEFINE both == MergeManifests(old, new)
<1>1. \A r \in both : r \in old \/ (r \in new /\ Identity(r) \notin Identities(old))
  BY DEF MergeManifests
<1>2. /\ Unique(old) /\ Unique(new)
      /\ \A r \in old \cup new : ValidRow(r)
  BY DEF Mergeable, ValidFilings
<1>3. \A r \in old : Identity(r) \in Identities(old)
  BY DEF Identities
<1>4. Unique(both)
  <2>. SUFFICES ASSUME NEW r \in both, NEW s \in both, Identity(r) = Identity(s)
                PROVE  r = s
    BY DEF Unique
  <2>1. CASE r \in old /\ s \in old
    BY <1>2, <2>1 DEF Unique
  <2>2. CASE r \in new /\ s \in new
    BY <1>2, <2>2 DEF Unique
  <2>. QED BY <1>1, <1>3, <2>1, <2>2
<1>5. ValidFilings(both)
  BY <1>1, <1>2, <1>4 DEF ValidFilings
<1>6. NothingRemoved(both, old)
  BY DEF NothingRemoved, Identities, MergeManifests
<1>7. NoRegression(both, old)
  BY <1>1, <1>3 DEF NoRegression, Mergeable
<1>8. NoProvenanceConflict(both, old)
  <2>. SUFFICES ASSUME NEW r \in both, NEW q \in old, Identity(r) = Identity(q)
                PROVE  r.provenance = q.provenance
    BY DEF NoProvenanceConflict
  <2>. QED BY <1>1, <1>2, <1>3 DEF Unique
<1>. QED BY <1>2, <1>5, <1>6, <1>7, <1>8 DEF ReviewFilings

\* A draft of the discovery is valid by itself, whatever IDX releases: an
\* issuer's period has one attachment in it.  Of the conditions under which
\* merge_manifests raises, those on the draft alone never hold.
THEOREM DraftIsValid == ValidFilings(Draft)
<1>1. ASSUME NEW r \in Draft PROVE ValidRow(r)
  <2>1. PICK i, p : r = Discovered(i, p)
    BY DEF Draft
  <2>. QED BY <2>1 DEF Discovered, ValidRow
<1>2. ASSUME NEW r \in Draft, NEW s \in Draft, Identity(r) = Identity(s)
      PROVE  r = s
  <2>1. PICK i, p : r = Discovered(i, p)
    BY DEF Draft
  <2>2. PICK j, q : s = Discovered(j, q)
    BY DEF Draft
  <2>3. i = j /\ p = q
    BY <1>2, <2>1, <2>2 DEF Identity, Discovered
  <2>. QED BY <2>1, <2>2, <2>3
<1>. QED BY <1>1, <1>2 DEF ValidFilings, Unique

----------------------------------------------------------------------------
(* Types *)

\* Discovery drafts rows, of attachments that IDX has released.
LEMMA DraftTyped ==
    ASSUME catalog \in [Issuer \X Period -> Provenance \cup {Null}]
    PROVE  Draft \subseteq Row
<1>. SUFFICES ASSUME NEW r \in Draft PROVE r \in Row
  OBVIOUS
<1>1. PICK i \in Issuer : r \in {Discovered(i, p) :
                                     p \in Current(i) \cup {q \in {Annual} : catalog[<<i, q>>] # Null}}
  BY DEF Draft
<1>2. PICK p \in Period : r = Discovered(i, p) /\ catalog[<<i, p>>] # Null
  BY <1>1 DEF Current, Period
<1>3. catalog[<<i, p>>] \in Provenance
  BY <1>2
<1>. QED BY <1>2, <1>3 DEF Discovered, Row

\* Taking main in adds rows of main only.
LEMMA WithMainTyped ==
    ASSUME NEW r \in [head : Manifest, base : Manifest], main \in Manifest
    PROVE  WithMain(r) \in [head : Manifest, base : Manifest]
<1>1. /\ ThreeWay(r.head.filings, r.base.filings, main.filings) \in SUBSET Row
      /\ ThreeWay(r.head.sources, r.base.sources, main.sources) \in SUBSET SourceRow
  BY DEF ThreeWay, Manifest
<1>. QED BY <1>1 DEF WithMain, Manifest

LEMMA TypeOKNext ==
    ASSUME TypeOK, [Next]_reviewVars
    PROVE  TypeOK'
<1> DEFINE Request == [head : Manifest, base : Manifest]
<1>1. /\ main \in Manifest
      /\ request # Null => request \in Request
      /\ branch # Null => branch \in Request
  BY DEF TypeOK
<1>2. ASSUME NEW i \in Issuer, NEW p \in Period, NEW v \in Provenance, Release(i, p, v)
      PROVE  TypeOK'
  BY <1>2, ReviewAssumption DEF Release, TypeOK
<1>3. ASSUME NEW F \in SUBSET HandRow, NEW S \in SUBSET SourceRow, EditRequest(F, S)
      PROVE  TypeOK'
  <2>1. [filings |-> F, sources |-> S] \in Manifest
    BY ReviewAssumption DEF Manifest
  <2>2. request' \in Request
    BY <1>1, <1>3, <2>1 DEF EditRequest
  <2>. QED BY <1>1, <1>3, <2>2 DEF EditRequest, TypeOK
<1>4. CASE UpdateRequest
  <2>1. request' \in Request
    BY <1>1, <1>4, WithMainTyped DEF UpdateRequest
  <2>. QED BY <1>1, <1>4, <2>1 DEF UpdateRequest, TypeOK
<1>5. CASE UpdateBranch
  <2>1. branch' \in Request
    BY <1>1, <1>5, WithMainTyped DEF UpdateBranch
  <2>. QED BY <1>1, <1>5, <2>1 DEF UpdateBranch, TypeOK
<1>6. CASE Discover
  <2>1. PICK local, new :
           /\ local = IF branch = Null THEN [head |-> main, base |-> main] ELSE WithMain(branch)
           /\ new = MergeManifests(local.head.filings, Draft)
           /\ merged' = [old |-> local.head.filings, new |-> new]
           /\ branch' = IF new = local.head.filings THEN branch
                        ELSE [local EXCEPT !.head.filings = new]
           /\ UNCHANGED <<catalog, releases, main, request>>
    BY <1>6 DEF Discover
  <2>2. local \in Request
    BY <1>1, <2>1, WithMainTyped
  <2>3. local.head.filings \subseteq Row /\ new \in SUBSET Row
    BY <2>1, <2>2, DraftTyped DEF MergeManifests, Manifest, TypeOK
  <2>4. [local EXCEPT !.head.filings = new] \in Request
    BY <2>2, <2>3 DEF Manifest
  <2>. QED BY <1>1, <2>1, <2>3, <2>4 DEF TypeOK
<1>7. CASE MergeRequest
  BY <1>1, <1>7 DEF MergeRequest, MayMerge, TypeOK
<1>8. CASE MergeBranch
  BY <1>1, <1>8 DEF MergeBranch, MayMerge, TypeOK
<1>9. CASE UNCHANGED reviewVars
  BY <1>9 DEF reviewVars, TypeOK
<1>. QED BY <1>2, <1>3, <1>4, <1>5, <1>6, <1>7, <1>8, <1>9 DEF Next

\* Every row that is drafted, edited, merged by git or by the discovery, and
\* every row of main, is a row of the manifest: its issuer, period, version and
\* provenance are what they claim to be (data/filing_manifest.py).
THEOREM ReviewTypeCorrect == Spec => []TypeOK
<1>1. Init => TypeOK
  BY ReviewAssumption DEF Init, TypeOK, Manifest
<1>. QED BY <1>1, TypeOKNext, PTL DEF Spec

----------------------------------------------------------------------------
(* The review *)

\* A merged head has passed the review against the main it replaces.
MergesReviewed == main' = main \/ (Review(main', main) /\ merged' = merged)

LEMMA NextReviews ==
    ASSUME [Next]_reviewVars
    PROVE  /\ MergesReviewed
           /\ merged' = merged \/ ReviewFilings(merged'.new, merged'.old)
<1>1. ASSUME MergeRequest \/ MergeBranch
      PROVE  Review(main', main) /\ merged' = merged
  BY <1>1 DEF MergeRequest, MergeBranch, MayMerge
<1>2. ASSUME Discover
      PROVE  main' = main /\ ReviewFilings(merged'.new, merged'.old)
  <2>1. PICK old : /\ Mergeable(old, Draft) /\ main' = main
                   /\ merged' = [old |-> old, new |-> MergeManifests(old, Draft)]
    BY <1>2 DEF Discover
  <2>. QED BY <2>1, MergeAgreesWithReview
<1>3. ASSUME \/ \E i \in Issuer, p \in Period, v \in Provenance : Release(i, p, v)
             \/ \E F \in SUBSET HandRow, S \in SUBSET SourceRow : EditRequest(F, S)
             \/ UpdateRequest \/ UpdateBranch
             \/ UNCHANGED reviewVars
      PROVE  main' = main /\ merged' = merged
  BY <1>3 DEF Release, EditRequest, UpdateRequest, UpdateBranch, reviewVars
<1>. QED BY <1>1, <1>2, <1>3 DEF Next, MergesReviewed

\* Main passes the validators that gate each import and each discovery, after
\* whatever was merged in whatever order, and what discovery merges passes the
\* review: no merge locks the pipeline out.
THEOREM MergesPassReview == Spec => []MergePassesReview
<1>1. Init => MergePassesReview
  BY DEF Init, MergePassesReview, Valid, ValidFilings, ValidSources, Unique
<1>2. MergePassesReview /\ [Next]_reviewVars => MergePassesReview'
  <2>. SUFFICES ASSUME MergePassesReview, [Next]_reviewVars PROVE MergePassesReview'
    OBVIOUS
  <2>1. MergesReviewed /\ (merged' = merged \/ ReviewFilings(merged'.new, merged'.old))
    BY NextReviews
  <2>2. Valid(main')
    BY <2>1 DEF MergesReviewed, MergePassesReview, Review, ReviewFilings, ReviewSources, Valid
  <2>3. merged' # Null => ReviewFilings(merged'.new, merged'.old)
    BY <2>1 DEF MergePassesReview
  <2>. QED BY <2>2, <2>3 DEF MergePassesReview
<1>. QED BY <1>1, <1>2, PTL DEF Spec

----------------------------------------------------------------------------
(* The rolling branch *)

\* What the rolling branch adds to the main it holds.
Added == branch.head.filings \ branch.base.filings

\* The strengthening: a request brings rows written by hand besides those of the
\* main it holds; the rolling branch keeps the rows of the main it holds, adds a
\* valid draft, and only a row written by hand can have an identity in common
\* with what it adds.
Rolling ==
    /\ Valid(main)
    /\ request # Null => request.head.filings \subseteq HandRow \cup request.base.filings
    /\ branch # Null =>
          /\ branch.base.filings \subseteq branch.head.filings
          /\ branch.head.sources = branch.base.sources
          /\ ValidFilings(Added)
          /\ \A r \in Added, q \in branch.base.filings \cup main.filings :
                Identity(q) = Identity(r) => q \in HandRow

\* Git takes main into a branch that has removed nothing.
LEMMA TakesMainIn ==
    ASSUME NEW ours, NEW base \in SUBSET ours, NEW theirs
    PROVE  /\ ThreeWay(ours, base, theirs) = theirs \cup (ours \ base)
           /\ ThreeWay(base, base, theirs) = theirs
BY DEF ThreeWay

LEMMA FewerAreValid ==
    ASSUME NEW F, NEW G \in SUBSET F, ValidFilings(F)
    PROVE  ValidFilings(G)
BY DEF ValidFilings, Unique

\* The rolling branch with main in it, or a branch made of main.
LEMMA BranchTakesMain ==
    ASSUME Rolling, branch # Null, NEW local, local = WithMain(branch)
    PROVE  /\ local.base = main /\ local.head.sources = main.sources
           /\ main.filings \subseteq local.head.filings
           /\ local.head.filings \ main.filings \subseteq Added
<1>1. /\ branch.base.filings \subseteq branch.head.filings
      /\ branch.head.sources = branch.base.sources
  BY DEF Rolling
<1>2. /\ local.base = main
      /\ local.head.filings = main.filings \cup (branch.head.filings \ branch.base.filings)
      /\ local.head.sources = main.sources
  BY <1>1, TakesMainIn DEF WithMain
<1>. QED BY <1>2 DEF Added

LEMMA RollingNext ==
    ASSUME TypeOK, Rolling, [Next]_reviewVars
    PROVE  Rolling'
<1>1. Valid(main')
  BY NextReviews DEF MergesReviewed, Rolling, Review, ReviewFilings, ReviewSources, Valid
<1>2. /\ main \in Manifest
      /\ branch # Null => branch \in [head : Manifest, base : Manifest]
      /\ request # Null => request \in [head : Manifest, base : Manifest]
  BY DEF TypeOK
<1>3. ASSUME NEW i \in Issuer, NEW p \in Period, NEW v \in Provenance, Release(i, p, v)
      PROVE  Rolling'
  BY <1>3 DEF Release, Rolling, Added
<1>4. ASSUME NEW F \in SUBSET HandRow, NEW S \in SUBSET SourceRow, EditRequest(F, S)
      PROVE  Rolling'
  <2>1. request'.head.filings \subseteq HandRow
    BY <1>4 DEF EditRequest
  <2>2. main' = main /\ branch' = branch
    BY <1>4 DEF EditRequest
  <2>. QED BY <2>1, <2>2 DEF Rolling, Added
<1>5. CASE UpdateRequest
  <2>1. /\ request # Null /\ request' = WithMain(request)
        /\ main' = main /\ branch' = branch
    BY <1>5 DEF UpdateRequest
  <2>2. request.head.filings \subseteq HandRow \cup request.base.filings
    BY <2>1 DEF Rolling
  <2>3. request'.head.filings \subseteq HandRow \cup request'.base.filings
    BY <2>1, <2>2 DEF WithMain, ThreeWay
  <2>. QED BY <2>1, <2>3 DEF Rolling, Added
<1>6. CASE UpdateBranch
  <2>1. /\ branch # Null /\ branch' = WithMain(branch)
        /\ main' = main /\ request' = request
    BY <1>6 DEF UpdateBranch
  <2>2. /\ branch'.base = main /\ branch'.head.sources = main.sources
        /\ main.filings \subseteq branch'.head.filings
        /\ Added' \subseteq Added
    BY <2>1, BranchTakesMain DEF Added
  <2>3. ValidFilings(Added')
    BY <2>1, <2>2, FewerAreValid DEF Rolling
  <2>4. \A r \in Added', q \in main.filings : Identity(q) = Identity(r) => q \in HandRow
    BY <2>1, <2>2 DEF Rolling
  <2>. QED BY <1>1, <2>1, <2>2, <2>3, <2>4 DEF Rolling
<1>7. CASE Discover
  <2>1. PICK local :
           /\ local = IF branch = Null THEN [head |-> main, base |-> main] ELSE WithMain(branch)
           /\ Mergeable(local.head.filings, Draft)
           /\ \/ branch' = branch
              \/ branch' = [local EXCEPT !.head.filings = MergeManifests(local.head.filings, Draft)]
           /\ UNCHANGED <<catalog, releases, main, request>>
    BY <1>7 DEF Discover
  <2>2. CASE branch' = branch
    BY <2>1, <2>2 DEF Rolling, Added
  <2>3. CASE branch' = [local EXCEPT !.head.filings = MergeManifests(local.head.filings, Draft)]
    <3> DEFINE both == MergeManifests(local.head.filings, Draft)
    <3>1. /\ local.base = main /\ local.head.sources = main.sources
          /\ main.filings \subseteq local.head.filings
          /\ branch = Null => local.head.filings = main.filings
          /\ branch # Null => local.head.filings \ main.filings \subseteq Added
      BY <2>1, BranchTakesMain
    <3>2. local \in [head : Manifest, base : Manifest]
      BY <1>2, <2>1, WithMainTyped
    <3>3. /\ branch'.base = main /\ branch'.head.sources = main.sources
          /\ branch'.head.filings = both
      BY <2>3, <3>1, <3>2 DEF Manifest
    <3>4. ValidFilings(both)
      BY <2>1, MergeAgreesWithReview DEF ReviewFilings
    <3>5. main.filings \subseteq both
      BY <3>1 DEF MergeManifests
    <3>6. Added' = both \ main.filings
      BY <3>3 DEF Added
    <3>7. ValidFilings(Added')
      BY <3>4, <3>6, FewerAreValid
    <3>8. ASSUME NEW r \in both \ main.filings, NEW q \in main.filings, Identity(q) = Identity(r)
          PROVE  q \in HandRow
      <4>1. Identity(q) \in Identities(local.head.filings)
        BY <3>1 DEF Identities
      <4>2. r \in local.head.filings
        BY <3>8, <4>1 DEF MergeManifests
      <4>3. branch # Null /\ r \in Added
        BY <3>1, <4>2
      <4>. QED BY <3>8, <4>3 DEF Rolling
    <3> HIDE DEF both
    <3>9. main' = main /\ request' = request
      BY <2>1
    <3>. QED BY <1>1, <3>3, <3>5, <3>6, <3>7, <3>8, <3>9 DEF Rolling
  <2>. QED BY <2>1, <2>2, <2>3
<1>8. CASE MergeRequest
  <2>1. /\ request # Null /\ request.base = main /\ main' = request.head
        /\ request' = Null /\ branch' = branch
    BY <1>8 DEF MergeRequest, MayMerge
  <2>2. main'.filings \subseteq HandRow \cup main.filings
    BY <2>1 DEF Rolling
  <2>. QED BY <1>1, <2>1, <2>2 DEF Rolling, Added
<1>9. CASE MergeBranch
  BY <1>1, <1>9 DEF MergeBranch, Rolling
<1>10. CASE UNCHANGED reviewVars
  BY <1>10 DEF reviewVars, Rolling, Added
<1>. QED BY <1>3, <1>4, <1>5, <1>6, <1>7, <1>8, <1>9, <1>10 DEF Next

\* What a branch that holds main adds passes the review against it, or a row
\* written by hand stands in its way.
LEMMA BranchReviewed ==
    ASSUME TypeOK, Rolling
    PROVE  BranchStaysMergeable
<1>. SUFFICES ASSUME branch # Null, branch.base = main,
                     \A r \in Added, q \in main.filings :
                        /\ BaseIdentity(r) = BaseIdentity(q) => ~(q.version > r.version)
                        /\ Identity(q) = Identity(r) => q \notin HandRow
              PROVE  Review(branch.head, main)
  BY DEF BranchStaysMergeable, Added, Identity, BaseIdentity
<1> DEFINE head == branch.head.filings
           old  == main.filings
<1>1. /\ old \subseteq head /\ head \ old = Added
      /\ branch.head.sources = main.sources
      /\ ValidFilings(Added) /\ ValidFilings(old) /\ ValidSources(main.sources)
  BY DEF Rolling, Added, Valid
<1>2. \A r \in Added, q \in old : Identity(q) # Identity(r)
  BY DEF Rolling
<1>3. head \in SUBSET Row /\ old \in SUBSET Row
  BY DEF TypeOK, Manifest
<1>4. ValidFilings(head)
  BY <1>1, <1>2 DEF ValidFilings, Unique
<1>5. NothingRemoved(head, old)
  BY <1>1 DEF NothingRemoved, Identities
<1>6. NoRegression(head, old)
  <2>. SUFFICES ASSUME NEW r \in head, Identity(r) \notin Identities(old),
                       NEW v \in Versions(old, BaseIdentity(r))
                PROVE  r.version >= v
    BY DEF NoRegression
  <2>1. r \in Added
    BY <1>1 DEF Identities
  <2>2. PICK q \in old : BaseIdentity(q) = BaseIdentity(r) /\ v = q.version
    BY DEF Versions
  <2>3. q.version \in Nat /\ r.version \in Nat
    BY <1>3 DEF Row
  <2>. QED BY <2>1, <2>2, <2>3
<1>7. NoProvenanceConflict(head, old)
  BY <1>1, <1>2 DEF NoProvenanceConflict, ValidFilings, Unique
<1>8. ReviewFilings(head, old)
  BY <1>1, <1>4, <1>5, <1>6, <1>7 DEF ReviewFilings, ValidFilings
<1>9. ReviewSources(branch.head.sources, main.sources)
  BY <1>1 DEF ReviewSources
<1>. QED BY <1>8, <1>9 DEF Review

\* Discoveries, updates and merges in any order leave the rolling branch ready to
\* be merged once it holds main, unless a hand-made request brought another row
\* of a filing that it adds (idx-filings.yml with data/filing_manifest.py, against
\* scripts/ci/validate_manifest.py).
THEOREM BranchIsMergeable == Spec => []BranchStaysMergeable
<1>1. Init => Rolling
  BY DEF Init, Rolling, Valid, ValidFilings, ValidSources, Unique
<1>2. TypeOK /\ Rolling /\ [Next]_reviewVars => Rolling'
  BY RollingNext
<1>3. TypeOK /\ Rolling => BranchStaysMergeable
  BY BranchReviewed
<1>. QED BY <1>1, <1>2, <1>3, ReviewTypeCorrect, PTL DEF Spec
=============================================================================
