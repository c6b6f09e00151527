--------------------------- MODULE ManifestReview ---------------------------
(***************************************************************************)
(* How a filing enters the reviewed manifests on main: the catalog of IDX, *)
(* the weekly discovery with its rolling branch, hand-made requests, the   *)
(* review checks, and the merge.                                           *)
(*                                                                         *)
(* The ruleset of the repository (docs/specs/ci-cd-contract.md, Merge      *)
(* policy) merges only a head that holds the current main and has passed   *)
(* the checks, squashes, and deletes the branch.                           *)
(*                                                                         *)
(* Abstracted: a row's well-formed fields are one truth value (`sound`),   *)
(* its url, timestamp, audit status and checksum one provenance.  A git    *)
(* merge is the union of both sides' changes, or a conflict.               *)
(***************************************************************************)
EXTENDS Integers, FiniteSets

\* Definitions named Fault... are mutants of the definition that follows them:
\* plausible bugs, each of which breaks a property.  Nothing uses them.

CONSTANTS
    Issuer,      \* the effective universe
    Quarters,    \* interim periods, numbered in their order
    Annual,      \* the period of the annual report
    Provenance,  \* what an attachment says of itself
    Canonical,   \* the spelling of a ticker that discovery writes
    HandRow,     \* filing rows that somebody may write by hand
    SourceRow,   \* source rows, each an identity that is sound or not
    Null,        \* nothing
    MaxReleases, \* bound of the model on attachments released or replaced
    MaxEdits     \* bound of the model on rows a request adds to or takes from main

Period == Quarters \cup {Annual}

\* A row of the filing manifest.
Row == [issuer : Issuer, period : Period, version : Nat, provenance : Provenance,
        spelling : {r.spelling : r \in HandRow} \cup {Canonical}, sound : BOOLEAN]

ASSUME ReviewAssumption ==
    /\ Quarters \subseteq Nat /\ Annual \notin Quarters
    /\ Null \notin Provenance
    /\ HandRow \subseteq Row
    /\ {MaxReleases, MaxEdits} \subseteq Nat

VARIABLES
    catalog,   \* the attachment of each issuer's period, by its provenance
    releases,  \* attachments released so far
    main,      \* the reviewed manifests on main
    request,   \* a hand-made request, and the main it holds
    branch,    \* idx-manifest-review, and the main it holds
    merged     \* what the last discovery merged, and into what

reviewVars == <<catalog, releases, main, request, branch, merged>>

\* exact_identity, whatever the spelling of the ticker, and base_identity.
Identity(r) == <<r.issuer, r.period, r.version>>
BaseIdentity(r) == <<r.issuer, r.period>>

Identities(F) == {Identity(r) : r \in F}

\* Versions of a base identity in F.
Versions(F, base) == {r.version : r \in {q \in F : BaseIdentity(q) = base}}

\* No exact identity twice.
Unique(F) == \A r, s \in F : Identity(r) = Identity(s) => r = s

\* validate_filing_row, with the version that exact_identity insists on.
ValidRow(r) == r.sound /\ r.version > 0

----------------------------------------------------------------------------
(* validate_manifest.py *)

\* Without a baseline.
ValidFilings(F) == Unique(F) /\ \A r \in F : ValidRow(r)
ValidSources(S) == (\A s \in S : s.sound) /\ \A s, t \in S : s.id = t.id => s = t

NothingRemoved(F, old) == Identities(old) \subseteq Identities(F)

\* A new identity is no older version of a filing that is known.
NoRegression(F, old) ==
    \A r \in F : Identity(r) \notin Identities(old) =>
        \A v \in Versions(old, BaseIdentity(r)) : r.version >= v

NoProvenanceConflict(F, old) ==
    \A r \in F, q \in old : Identity(r) = Identity(q) => r.provenance = q.provenance

\* The filing manifest against its baseline.
ReviewFilings(F, old) ==
    /\ ValidFilings(F)
    /\ \A r \in old : ValidRow(r)
    /\ NothingRemoved(F, old)
    /\ NoRegression(F, old)
    /\ NoProvenanceConflict(F, old)

\* The source manifest against its baseline.
ReviewSources(S, old) ==
    /\ ValidSources(S)
    /\ {s.id : s \in old} \subseteq {s.id : s \in S}

Review(m, old) == ReviewFilings(m.filings, old.filings) /\ ReviewSources(m.sources, old.sources)

Valid(m) == ValidFilings(m.filings) /\ ValidSources(m.sources)

----------------------------------------------------------------------------
(* discover_idx_xbrl_manifest and merge_manifests *)

Discovered(i, p) ==
    [issuer |-> i, period |-> p, version |-> 1, provenance |-> catalog[<<i, p>>],
     spelling |-> Canonical, sound |-> TRUE]

\* The newest interim period of an issuer that has an attachment.
Current(i) == {p \in Quarters : /\ catalog[<<i, p>>] # Null
                                /\ \A q \in Quarters : q > p => catalog[<<i, q>>] = Null}

FaultDraftsEveryAnnual ==
    UNION {{Discovered(i, p) : p \in Current(i) \cup {Annual}} : i \in Issuer}

\* Each issuer's current filing, and the annual report where there is one.
Draft ==
    UNION {{Discovered(i, p) : p \in Current(i) \cup {q \in {Annual} : catalog[<<i, q>>] # Null}}
              : i \in Issuer}

\* discovery_blockers: only missing current evidence.
Blocked == \E i \in Issuer : Current(i) = {}

\* merge_manifests raises unless both sides are valid and do not contradict.
Mergeable(old, new) ==
    /\ ValidFilings(old) /\ ValidFilings(new)
    /\ NoProvenanceConflict(new, old)
    /\ NoRegression(new, old)

FaultReplaces(old, new) == new

MergeManifests(old, new) == old \cup {r \in new : Identity(r) \notin Identities(old)}

----------------------------------------------------------------------------
(* Requests and merges *)

Init ==
    /\ catalog = [x \in Issuer \X Period |-> Null]
    /\ releases = 0
    /\ main = [filings |-> {}, sources |-> {}]
    /\ request = Null /\ branch = Null /\ merged = Null

\* IDX releases an attachment, or replaces one.
Release(i, p, v) ==
    /\ releases < MaxReleases
    /\ releases' = releases + 1
    /\ catalog[<<i, p>>] # v
    /\ catalog' = [catalog EXCEPT ![<<i, p>>] = v]
    /\ UNCHANGED <<main, request, branch, merged>>

Changed(a, b) == (a \ b) \cup (b \ a)

\* Somebody opens a request, or pushes another head to it.
EditRequest(F, S) ==
    /\ Cardinality(Changed(F, main.filings)) + Cardinality(Changed(S, main.sources)) <= MaxEdits
    /\ request' = [head |-> [filings |-> F, sources |-> S], base |-> main]
    /\ UNCHANGED <<catalog, releases, main, branch, merged>>

\* git merge: what each side changed since `base`.
ThreeWay(ours, base, theirs) == (ours \ (base \ theirs)) \cup (theirs \ base)

FaultKeepsOurs(r) == [r EXCEPT !.base = main]

WithMain(r) ==
    [head |-> [filings |-> ThreeWay(r.head.filings, r.base.filings, main.filings),
               sources |-> ThreeWay(r.head.sources, r.base.sources, main.sources)],
     base |-> main]

\* The button "Update branch" of a request, or of the review branch.
UpdateRequest ==
    /\ request # Null
    /\ request' = WithMain(request)
    /\ UNCHANGED <<catalog, releases, main, branch, merged>>

UpdateBranch ==
    /\ branch # Null
    /\ branch' = WithMain(branch)
    /\ UNCHANGED <<catalog, releases, main, request, merged>>

\* The job discover: both manifests of main are valid, the draft is complete,
\* the rolling branch takes main in, and the draft is merged into it.  Nothing
\* is pushed when the draft adds nothing.  Any step may fail instead.
Discover ==
    LET local == IF branch = Null THEN [head |-> main, base |-> main] ELSE WithMain(branch)
        new   == MergeManifests(local.head.filings, Draft)
    IN /\ Valid(main)
       /\ ~Blocked
       /\ Mergeable(local.head.filings, Draft)
       /\ merged' = [old |-> local.head.filings, new |-> new]
       /\ branch' = IF new = local.head.filings THEN branch ELSE [local EXCEPT !.head.filings = new]
       /\ UNCHANGED <<catalog, releases, main, request>>

\* manifest-validate of a request, or validate-branch for the bot's head: the
\* head holds the current main and passes the review against it.
MayMerge(r) == r # Null /\ r.base = main /\ Review(r.head, main)

MergeRequest ==
    /\ MayMerge(request)
    /\ main' = request.head
    /\ request' = Null
    /\ UNCHANGED <<catalog, releases, branch, merged>>

MergeBranch ==
    /\ MayMerge(branch)
    /\ main' = branch.head
    /\ branch' = Null
    /\ UNCHANGED <<catalog, releases, request, merged>>

Next ==
    \/ \E i \in Issuer, p \in Period, v \in Provenance : Release(i, p, v)
    \/ \E F \in SUBSET HandRow, S \in SUBSET SourceRow : EditRequest(F, S)
    \/ UpdateRequest \/ UpdateBranch
    \/ Discover
    \/ MergeRequest \/ MergeBranch

Spec == Init /\ [][Next]_reviewVars
----------------------------------------------------------------------------
(* Properties *)

Manifest == [filings : SUBSET Row, sources : SUBSET SourceRow]

\* Every manifest holds rows of its kind.
TypeOK ==
    /\ catalog \in [Issuer \X Period -> Provenance \cup {Null}]
    /\ releases \in 0..MaxReleases
    /\ main \in Manifest
    /\ {request, branch} \ {Null} \subseteq [head : Manifest, base : Manifest]
    /\ merged # Null => merged.old \cup merged.new \subseteq Row

\* Whatever is discovered, edited, updated and merged in whatever order, main
\* passes the validators that gate each import and each discovery, so no merge
\* locks the pipeline out.  What discovery adds passes the review too: the merge
\* of data/filing_manifest.py and the check of scripts/ci/validate_manifest.py
\* are two programs that agree.
MergePassesReview ==
    /\ Valid(main)
    /\ merged # Null => ReviewFilings(merged.new, merged.old)

\* A rolling branch that holds main can be merged.  Whatever discoveries and
\* merges of main went into it, what it adds passes the review against main,
\* unless main holds a row of the same filing that only a hand-made request
\* brings: a restatement, or an attachment with another provenance.
BranchStaysMergeable ==
    branch # Null /\ branch.base = main /\ ~Review(branch.head, main) =>
        \E r \in branch.head.filings \ main.filings, q \in main.filings :
            /\ BaseIdentity(r) = BaseIdentity(q)
            /\ q.version > r.version \/ (Identity(r) = Identity(q) /\ q \in HandRow)
=============================================================================
