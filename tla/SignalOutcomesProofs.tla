------------------------- MODULE SignalOutcomesProofs -------------------------
(***************************************************************************)
(* Machine-checked proofs about SignalOutcomes and the CanonicalStore it   *)
(* extends, for any issuers, calendar, files, prices, horizons, evaluators *)
(* and bounds.                                                             *)
(***************************************************************************)
EXTENDS SignalOutcomes, FiniteSetTheorems, WellFoundedInduction, TLAPS

----------------------------------------------------------------------------
(* Finite sets of numbers *)

\* The values of a function on a finite set.
LEMMA ImageFinite ==
    ASSUME NEW S, IsFiniteSet(S), NEW f
    PROVE  IsFiniteSet({f[x] : x \in S})
<1> DEFINE T == {f[x] : x \in S}
           g == [x \in S |-> f[x]]
<1>1. g \in [S -> T] /\ \A t \in T : \E x \in S : g[x] = t
  OBVIOUS
<1>2. g \in Surjection(S, T)
  BY <1>1 DEF Surjection
<1>. QED BY <1>2, FS_Surjection

\* A finite set of integers that is not empty has a greatest element.
LEMMA GreatestExists ==
    ASSUME NEW S \in SUBSET Int, IsFiniteSet(S), S # {}
    PROVE  \E m \in S : \A x \in S : x <= m
<1> DEFINE Above(m) == {x \in S : x > m}
           R == StrictSubsetOrdering(S)
<1>1. IsWellFoundedOn(R, FiniteSubsetsOf(S))
  BY FS_StrictSubsetOrderingWellFounded
<1>2. {Above(m) : m \in S} \subseteq FiniteSubsetsOf(S) /\ {Above(m) : m \in S} # {}
  <2>1. ASSUME NEW m \in S PROVE Above(m) \in FiniteSubsetsOf(S)
    <3>1. Above(m) \in SUBSET S
      OBVIOUS
    <3>. QED BY <3>1, FS_Subset DEF FiniteSubsetsOf
  <2>. QED BY <2>1
<1>3. PICK T \in {Above(m) : m \in S} : \A U \in {Above(m) : m \in S} : ~(<<U, T>> \in R)
  BY <1>1, <1>2, WFMin
<1>4. PICK m \in S : T = Above(m)
  BY <1>3
<1>5. ASSUME NEW x \in S, x > m PROVE FALSE
  <2>1. Above(x) \subseteq Above(m) /\ x \in Above(m) /\ x \notin Above(x)
    <3>1. \A y \in S : y > x => y > m
      BY <1>5
    <3>2. ~(x > x)
      OBVIOUS
    <3>. QED BY <1>5, <3>1, <3>2
  <2>2. <<Above(x), Above(m)>> \in R
    <3>1. PICK A \in SUBSET S, B \in SUBSET S : A = Above(x) /\ B = Above(m)
      OBVIOUS
    <3>2. A \subseteq B /\ A # B
      BY <2>1, <3>1
    <3>3. <<A, B>> \in R
      BY <3>2 DEF StrictSubsetOrdering
    <3>. QED BY <3>1, <3>3
  <2>. QED BY <1>3, <1>4, <2>2
<1>. QED BY <1>5

LEMMA MaxIsGreatest ==
    ASSUME NEW S \in SUBSET Int, IsFiniteSet(S), S # {}
    PROVE  Max(S) \in S /\ \A x \in S : x <= Max(S)
<1>1. \E m \in S : \A x \in S : m >= x
  BY GreatestExists
<1>. QED BY <1>1 DEF Max

\* The least element, as the greatest of the opposites.
LEMMA LeastExists ==
    ASSUME NEW S \in SUBSET Int, IsFiniteSet(S), S # {}
    PROVE  \E m \in S : \A x \in S : m <= x
<1> DEFINE N == {0 - x : x \in S}
<1>0. PICK f : f = [x \in S |-> 0 - x]
  OBVIOUS
<1>1. N = {f[x] : x \in S}
  BY <1>0
<1>2. IsFiniteSet(N) /\ N \in SUBSET Int /\ N # {}
  <2>1. IsFiniteSet({f[x] : x \in S})
    BY ImageFinite
  <2>2. \A x \in S : 0 - x \in Int
    OBVIOUS
  <2>3. N \in SUBSET Int
    BY <2>2
  <2>4. N # {}
    OBVIOUS
  <2>. QED BY <1>1, <2>1, <2>3, <2>4
<1>3. PICK n \in N : \A x \in N : x <= n
  BY <1>2, GreatestExists
<1>4. PICK m \in S : n = 0 - m
  BY <1>3
<1>5. \A x \in S : 0 - x <= 0 - m
  BY <1>3, <1>4
<1>. QED BY <1>5
----------------------------------------------------------------------------
(* Rows of the tables *)

FileRows == UNION {f.rows : f \in File \cup Accepted}
AnyTicker == Ticker \cup {"IDX"} \cup {r.ticker : r \in FileRows}
AnyValue == Close \cup {"COMPLETED"} \cup {r.value : r \in FileRows}

StoreRow == [kind : SCHEMAS, ticker : AnyTicker, key : Nat, version : Nat, value : AnyValue,
             available : Nat, header : Nat]

\* No key twice.
Keyed(S) == \A r, s \in S : SameKey(r, s) => r = s

\* Where prices come from.
OnSessions(S) == \A r \in S : r.kind = "market_bars_csv" => r.key \in Session

LEMMA FileRowTyped ==
    ASSUME NEW f \in File \cup Accepted, f.wellFormed, f.kind \in SCHEMAS, NEW r \in f.rows
    PROVE  /\ RowOf(f, r) \in StoreRow
           /\ f.kind = "market_bars_csv" => RowOf(f, r).key \in Session
<1>1. r.ticker \in AnyTicker /\ r.value \in AnyValue
  BY DEF AnyTicker, AnyValue, FileRows
<1>2. r.key \in Nat /\ r.version \in Nat /\ r.available \in Nat
  BY FileAssumption
<1>3. RowOf(f, r) \in StoreRow
  BY <1>1, <1>2 DEF RowOf, StoreRow
<1>4. f.kind = "market_bars_csv" => r.key \in Session
  BY FileAssumption
<1>. QED BY <1>3, <1>4 DEF RowOf

LEMMA FileRowsTyped ==
    ASSUME NEW f \in File \cup Accepted, f.wellFormed, f.kind \in SCHEMAS
    PROVE  LET new == {RowOf(f, r) : r \in f.rows} IN
           new \subseteq StoreRow /\ IsFiniteSet(new) /\ Keyed(new) /\ OnSessions(new)
<1> DEFINE new == {RowOf(f, r) : r \in f.rows}
<1>1. new \subseteq StoreRow
  BY FileRowTyped
<1>2. IsFiniteSet(new)
  <2>1. PICK g : g = [r \in f.rows |-> RowOf(f, r)]
    OBVIOUS
  <2>2. IsFiniteSet(f.rows)
    BY FileAssumption
  <2>3. IsFiniteSet({g[r] : r \in f.rows})
    BY <2>2, ImageFinite
  <2>4. new = {g[r] : r \in f.rows}
    BY <2>1
  <2>. QED BY <2>3, <2>4
<1>3. Keyed(new)
  <2>1. \A r, s \in f.rows : SameKey(RowOf(f, r), RowOf(f, s)) => r = s
    BY FileAssumption
  <2>. QED BY <2>1 DEF Keyed
<1>4. OnSessions(new)
  <2>. SUFFICES ASSUME NEW r \in f.rows, RowOf(f, r).kind = "market_bars_csv"
                PROVE  RowOf(f, r).key \in Session
    BY DEF OnSessions
  <2>1. f.kind = "market_bars_csv"
    BY DEF RowOf
  <2>. QED BY <2>1, FileRowTyped
<1>. QED BY <1>1, <1>2, <1>3, <1>4

\* What an upsert makes of a stored row.
Replaced(r, new) ==
    IF \E n \in new : SameKey(n, r) THEN OnConflict(r, CHOOSE n \in new : SameKey(n, r)) ELSE r

LEMMA ReplacedKeepsKey ==
    ASSUME NEW r \in StoreRow, NEW new \in SUBSET StoreRow
    PROVE  /\ Replaced(r, new) \in StoreRow
           /\ SameKey(Replaced(r, new), r)
           /\ r.kind \in InsertOnly => Replaced(r, new) = r
           /\ Replaced(r, new) = r \/ Replaced(r, new) \in new \/ r.kind = "statement_facts_csv"
<1>1. CASE ~\E n \in new : SameKey(n, r)
  BY <1>1 DEF Replaced, SameKey
<1>2. CASE \E n \in new : SameKey(n, r)
  <2>1. PICK n \in new : SameKey(n, r) /\ Replaced(r, new) = OnConflict(r, n)
    <3>1. (CHOOSE n \in new : SameKey(n, r)) \in new
          /\ SameKey(CHOOSE n \in new : SameKey(n, r), r)
      BY <1>2
    <3>2. PICK n : n = CHOOSE m \in new : SameKey(m, r)
      OBVIOUS
    <3>. QED BY <1>2, <3>1, <3>2 DEF Replaced
  <2>2. n \in StoreRow /\ n.kind = r.kind
    BY <2>1 DEF SameKey
  <2>3. CASE r.kind \in InsertOnly
    <3>1. n.kind # "statement_facts_csv"
      BY <2>2, <2>3 DEF InsertOnly
    <3>2. OnConflict(r, n) = r
      BY <2>2, <2>3, <3>1 DEF OnConflict
    <3>. QED BY <2>1, <3>2 DEF SameKey
  <2>4. CASE r.kind = "statement_facts_csv"
    <3>1. n.kind \notin InsertOnly
      BY <2>2, <2>4 DEF InsertOnly
    <3>2. OnConflict(r, n) = [r EXCEPT !.header = n.available]
      BY <2>2, <2>4, <3>1 DEF OnConflict
    <3>3. [r EXCEPT !.header = n.available] \in StoreRow
      BY <2>2 DEF StoreRow
    <3>4. SameKey([r EXCEPT !.header = n.available], r)
      BY DEF SameKey, StoreRow
    <3>. QED BY <2>1, <2>4, <3>1, <3>2, <3>3, <3>4, <2>2
  <2>5. CASE r.kind \notin InsertOnly \cup {"statement_facts_csv"}
    <3>1. OnConflict(r, n) = n
      BY <2>2, <2>5 DEF OnConflict
    <3>. QED BY <2>1, <2>2, <2>5, <3>1
  <2>. QED BY <2>3, <2>4, <2>5
<1>. QED BY <1>1, <1>2

\* An upsert keeps every key that is stored, stores every key that is new, and
\* leaves the rows of insert-only tables as they were.
LEMMA UpsertKeeps ==
    ASSUME store \subseteq StoreRow, IsFiniteSet(store), Keyed(store), OnSessions(store),
           NEW new \in SUBSET StoreRow, IsFiniteSet(new), Keyed(new), OnSessions(new),
           NEW U, U = Upserted(new)
    PROVE  /\ U \subseteq StoreRow /\ IsFiniteSet(U) /\ Keyed(U) /\ OnSessions(U)
           /\ \A r \in store : \E s \in U : SameKey(r, s)
           /\ \A n \in new : \E s \in U : SameKey(n, s)
           /\ \A r \in store : r.kind \in InsertOnly => r \in U
<1> DEFINE old == {Replaced(r, new) : r \in store}
           add == {n \in new : ~\E r \in store : SameKey(n, r)}
<1>1. U = old \cup add
  BY DEF Upserted, Replaced
<1>2. \A r \in store : /\ Replaced(r, new) \in StoreRow
                       /\ SameKey(Replaced(r, new), r)
                       /\ r.kind \in InsertOnly => Replaced(r, new) = r
  BY ReplacedKeepsKey
<1>3. U \subseteq StoreRow
  BY <1>1, <1>2
<1>4. IsFiniteSet(U)
  <2>1. PICK g : g = [r \in store |-> Replaced(r, new)]
    OBVIOUS
  <2>2. IsFiniteSet({g[r] : r \in store})
    BY ImageFinite
  <2>3. old = {g[r] : r \in store}
    BY <2>1
  <2>4. PICK A, B : A = old /\ B = add
    OBVIOUS
  <2>5. IsFiniteSet(A)
    BY <2>2, <2>3, <2>4
  <2>6. IsFiniteSet(B)
    <3>1. B \in SUBSET new
      BY <2>4
    <3>. QED BY <3>1, FS_Subset
  <2>. QED BY <1>1, <2>4, <2>5, <2>6, FS_Union
<1>5. Keyed(U)
  <2>. SUFFICES ASSUME NEW u \in U, NEW v \in U, SameKey(u, v) PROVE u = v
    BY DEF Keyed
  <2>1. CASE u \in old /\ v \in old
    <3>1. PICK r \in store : u = Replaced(r, new)
      BY <2>1
    <3>2. PICK s \in store : v = Replaced(s, new)
      BY <2>1
    <3>3. SameKey(r, s)
      BY <1>2, <3>1, <3>2 DEF SameKey
    <3>. QED BY <3>1, <3>2, <3>3 DEF Keyed
  <2>2. CASE u \in add /\ v \in add
    BY <2>2 DEF Keyed
  <2>3. CASE (u \in old /\ v \in add) \/ (u \in add /\ v \in old)
    <3>1. PICK x \in old, y \in add : SameKey(y, x)
      BY <2>3 DEF SameKey
    <3>2. PICK r \in store : x = Replaced(r, new)
      OBVIOUS
    <3>3. SameKey(y, r)
      BY <1>2, <3>1, <3>2 DEF SameKey
    <3>. QED BY <3>3
  <2>. QED BY <1>1, <2>1, <2>2, <2>3
<1>6. OnSessions(U)
  <2>. SUFFICES ASSUME NEW u \in U, u.kind = "market_bars_csv" PROVE u.key \in Session
    BY DEF OnSessions
  <2>1. CASE u \in add
    BY <2>1 DEF OnSessions
  <2>2. CASE u \in old
    <3>1. PICK r \in store : u = Replaced(r, new)
      BY <2>2
    <3>2. r.kind = "market_bars_csv" /\ r.key = u.key
      BY <1>2, <3>1 DEF SameKey
    <3>. QED BY <3>2 DEF OnSessions
  <2>. QED BY <1>1, <2>1, <2>2
<1>7. \A r \in store : \E s \in U : SameKey(r, s)
  BY <1>1, <1>2 DEF SameKey
<1>8. \A n \in new : \E s \in U : SameKey(n, s)
  <2>. SUFFICES ASSUME NEW n \in new PROVE \E s \in U : SameKey(n, s)
    OBVIOUS
  <2>1. CASE n \in add
    BY <1>1, <2>1 DEF SameKey
  <2>2. CASE n \notin add
    <3>1. PICK r \in store : SameKey(n, r)
      BY <2>2
    <3>2. PICK s \in U : SameKey(r, s)
      BY <1>7
    <3>. QED BY <3>1, <3>2 DEF SameKey
  <2>. QED BY <2>1, <2>2
<1>9. \A r \in store : r.kind \in InsertOnly => r \in U
  BY <1>1, <1>2
<1>. QED BY <1>3, <1>4, <1>5, <1>6, <1>7, <1>8, <1>9
----------------------------------------------------------------------------
(* Versions of the bars *)

\* The next version of a bar is above every version that is stored.
LEMMA NextVersionIsNew ==
    ASSUME store \subseteq StoreRow, IsFiniteSet(store), NEW b
    PROVE  /\ NextVersion(b) \in Nat
           /\ \A r \in Stored(b) : r.version < NextVersion(b)
<1>0. PICK V : V = {r.version : r \in Stored(b)} \cup {0}
  OBVIOUS
<1>1. Stored(b) \subseteq store /\ IsFiniteSet(Stored(b))
  <2>1. Stored(b) \in SUBSET store
    BY DEF Stored, Rows
  <2>. QED BY <2>1, FS_Subset
<1>2. IsFiniteSet({r.version : r \in Stored(b)})
  <2>1. PICK g : g = [r \in Stored(b) |-> r.version]
    OBVIOUS
  <2>2. IsFiniteSet({g[r] : r \in Stored(b)})
    BY <1>1, ImageFinite
  <2>3. {g[r] : r \in Stored(b)} = {r.version : r \in Stored(b)}
    BY <2>1
  <2>. QED BY <2>2, <2>3
<1>3. \A x \in V : x \in Nat
  <2>1. \A r \in Stored(b) : r.version \in Nat
    BY <1>1 DEF StoreRow
  <2>. QED BY <1>0, <2>1
<1>4. V \in SUBSET Int /\ IsFiniteSet(V) /\ V # {}
  <2>1. V \in SUBSET Int
    BY <1>3
  <2>2. IsFiniteSet({0})
    BY FS_Singleton
  <2>3. IsFiniteSet(V)
    BY <1>0, <1>2, <2>2, FS_Union
  <2>4. 0 \in V
    BY <1>0
  <2>. QED BY <2>1, <2>3, <2>4
<1>5. PICK m : m = Max(V)
  OBVIOUS
<1>6. m \in V /\ \A x \in V : x <= m
  BY <1>4, <1>5, MaxIsGreatest
<1>7. NextVersion(b) = m + 1
  BY <1>0, <1>5 DEF NextVersion
<1>8. \A r \in Stored(b) : r.version \in V
  BY <1>0
<1>9. ASSUME NEW r \in Stored(b) PROVE r.version < m + 1
  <2>1. r.version \in Nat /\ m \in Nat /\ r.version <= m
    BY <1>3, <1>6, <1>8
  <2>. QED BY <2>1
<1>10. m + 1 \in Nat
  BY <1>3, <1>6
<1>. QED BY <1>7, <1>9, <1>10

\* Revised bars are rows of their own, of keys that are not stored yet.
LEMMA NewVersionsTyped ==
    ASSUME store \subseteq StoreRow, IsFiniteSet(store), Keyed(store), OnSessions(store),
           NEW T \in SUBSET Ticker, NEW D \in SUBSET Session, NEW close \in Close, NEW at \in Nat,
           NEW fresh, fresh = NewVersions(History(T, D, close), at)
    PROVE  /\ store \cup fresh \subseteq StoreRow /\ IsFiniteSet(store \cup fresh)
           /\ Keyed(store \cup fresh) /\ OnSessions(store \cup fresh)
           /\ \A n \in fresh : n.kind = "market_bars_csv" /\ n.available = at
<1> DEFINE H == History(T, D, close)
           Bar(b) == [kind |-> "market_bars_csv", ticker |-> b.ticker, key |-> b.key,
                      version |-> NextVersion(b), value |-> b.value, available |-> at, header |-> at]
<1>1. fresh \subseteq {Bar(b) : b \in H}
  BY DEF NewVersions
<1>2. \A b \in H : /\ b.ticker \in Ticker /\ b.key \in Session /\ b.value = close
                   /\ b = [ticker |-> b.ticker, key |-> b.key, value |-> close]
  BY DEF History
<1>3. Session \subseteq Nat
  BY StoreAssumption
<1>4. ASSUME NEW b \in H PROVE Bar(b) \in StoreRow
  <2>1. b.ticker \in AnyTicker /\ b.value \in AnyValue /\ b.key \in Nat
    BY <1>2, <1>3 DEF AnyTicker, AnyValue
  <2>2. NextVersion(b) \in Nat
    BY NextVersionIsNew
  <2>3. "market_bars_csv" \in SCHEMAS
    BY DEF SCHEMAS, InsertOnly
  <2>. QED BY <2>1, <2>2, <2>3 DEF StoreRow
<1>5. store \cup fresh \subseteq StoreRow
  BY <1>1, <1>4
<1>6. IsFiniteSet(fresh)
  <2>1. IsFiniteSet(T) /\ IsFiniteSet(D)
    <3>1. IsFiniteSet(1..MaxTime)
      BY StoreAssumption, FS_Interval
    <3>. QED BY <3>1, StoreAssumption, FS_Subset
  <2>2. IsFiniteSet(T \X D)
    BY <2>1, FS_Product
  <2>3. PICK g : g = [x \in T \X D |-> Bar([ticker |-> x[1], key |-> x[2], value |-> close])]
    OBVIOUS
  <2>4. IsFiniteSet({g[x] : x \in T \X D})
    BY <2>2, ImageFinite
  <2>5. {Bar(b) : b \in H} \subseteq {g[x] : x \in T \X D}
    <3>. SUFFICES ASSUME NEW t \in T, NEW d \in D
                  PROVE  Bar([ticker |-> t, key |-> d, value |-> close]) \in {g[x] : x \in T \X D}
      BY DEF History
    <3>1. <<t, d>> \in T \X D
      OBVIOUS
    <3>2. g[<<t, d>>] = Bar([ticker |-> t, key |-> d, value |-> close])
      BY <2>3, <3>1
    <3>. QED BY <3>1, <3>2
  <2>6. fresh \subseteq {g[x] : x \in T \X D}
    BY <1>1, <2>5
  <2>. QED BY <2>4, <2>6, FS_Subset
<1>7. ASSUME NEW b \in H, NEW c \in H, SameKey(Bar(b), Bar(c)) PROVE Bar(b) = Bar(c)
  <2>1. b.ticker = c.ticker /\ b.key = c.key
    BY <1>7 DEF SameKey
  <2>2. b = c
    BY <1>2, <2>1
  <2>. QED BY <2>2
<1>8. ASSUME NEW b \in H, NEW r \in store PROVE ~SameKey(Bar(b), r) /\ ~SameKey(r, Bar(b))
  <2>. SUFFICES ASSUME r.kind = "market_bars_csv", r.ticker = b.ticker, r.key = b.key,
                       r.version = NextVersion(b)
                PROVE  FALSE
    BY DEF SameKey
  <2>1. r \in Stored(b)
    BY DEF Stored, Rows
  <2>2. r.version < NextVersion(b) /\ NextVersion(b) \in Nat
    BY <2>1, NextVersionIsNew
  <2>. QED BY <2>2
<1>9. Keyed(store \cup fresh)
  <2>. SUFFICES ASSUME NEW u \in store \cup fresh, NEW v \in store \cup fresh, SameKey(u, v)
                PROVE  u = v
    BY DEF Keyed
  <2>1. CASE u \in store /\ v \in store
    BY <2>1 DEF Keyed
  <2>2. CASE u \in fresh /\ v \in fresh
    BY <1>1, <1>7, <2>2
  <2>3. CASE (u \in store /\ v \in fresh) \/ (u \in fresh /\ v \in store)
    BY <1>1, <1>8, <2>3
  <2>. QED BY <2>1, <2>2, <2>3
<1>10. OnSessions(store \cup fresh)
  BY <1>1, <1>2 DEF OnSessions
<1>11. \A n \in fresh : n.kind = "market_bars_csv" /\ n.available = at
  BY <1>1
<1>. QED BY <1>5, <1>6, <1>9, <1>10, <1>11, FS_Union
----------------------------------------------------------------------------
(* The store *)

Refresh == [stage : {"idle", "fetching", "stored"}, observed : Nat,
            bars : SUBSET [ticker : Ticker, key : Session]]

\* The tables hold a row for every key of a file, and know its issuers.
Held(f) ==
    \A r \in f.rows : /\ \E s \in store : SameKey(RowOf(f, r), s)
                      /\ f.kind \notin IssuerFree => r.ticker \in issuers

\* A file is held from the moment its import commits, not only once it is
\* accepted: AcceptedIsStored alone would not survive the step between.
StoreSound ==
    /\ StoreTypeOK
    /\ store \subseteq StoreRow /\ IsFiniteSet(store) /\ OnSessions(store)
    /\ refresh \in Refresh
    /\ \A f \in File : artifacts[f] = "ACCEPTED" \/ ingest = <<f, "imported">> => Held(f)

\* What no step may do to the tables.
StoreStep ==
    /\ store' \subseteq StoreRow /\ IsFiniteSet(store') /\ Keyed(store') /\ OnSessions(store')
    /\ \A r \in store : \E s \in store' : SameKey(r, s)
    /\ \A r \in store : r.kind \in InsertOnly => r \in store'
    /\ issuers \subseteq issuers' /\ issuers' \subseteq Ticker

LEMMA SoundParts ==
    ASSUME StoreSound
    PROVE  /\ store \subseteq StoreRow /\ IsFiniteSet(store) /\ Keyed(store) /\ OnSessions(store)
           /\ issuers \subseteq Ticker
BY DEF StoreSound, StoreTypeOK, Keyed

LEMMA UpsertStep ==
    ASSUME StoreSound, NEW new \in SUBSET StoreRow, IsFiniteSet(new), Keyed(new), OnSessions(new),
           store' = Upserted(new), issuers \subseteq issuers', issuers' \subseteq Ticker
    PROVE  StoreStep /\ \A n \in new : \E s \in store' : SameKey(n, s)
<1>1. PICK U : U = Upserted(new)
  OBVIOUS
<1>2. /\ U \subseteq StoreRow /\ IsFiniteSet(U) /\ Keyed(U) /\ OnSessions(U)
      /\ \A r \in store : \E s \in U : SameKey(r, s)
      /\ \A n \in new : \E s \in U : SameKey(n, s)
      /\ \A r \in store : r.kind \in InsertOnly => r \in U
  BY <1>1, SoundParts, UpsertKeeps
<1>. QED BY <1>1, <1>2 DEF StoreStep

LEMMA ImportMoves ==
    ASSUME StoreSound, NEW f \in File, ImportSource(f)
    PROVE  StoreStep /\ Held(f)'
<1> DEFINE new == {RowOf(f, r) : r \in f.rows}
<1>1. /\ f.wellFormed /\ f.kind \in SCHEMAS /\ store' = Upserted(new)
      /\ \A r \in f.rows : RowAccepted(f, r)
      /\ issuers' = IF f.kind = "lq45_constituents_csv"
                    THEN issuers \cup {r.ticker : r \in f.rows} ELSE issuers
  BY DEF ImportSource, ImportCanonicalRecords, WellFormed
<1>2. new \subseteq StoreRow /\ IsFiniteSet(new) /\ Keyed(new) /\ OnSessions(new)
  BY <1>1, FileRowsTyped
<1>3. issuers \subseteq issuers' /\ issuers' \subseteq Ticker
  <2>1. f.kind = "lq45_constituents_csv" => {r.ticker : r \in f.rows} \subseteq Members(File \cup Accepted)
    BY DEF Members
  <2>. QED BY <1>1, <2>1, StoreAssumption, SoundParts
<1>4. StoreStep /\ \A n \in new : \E s \in store' : SameKey(n, s)
  <2>1. PICK S \in SUBSET StoreRow : S = new
    BY <1>2
  <2>. QED BY <1>1, <1>2, <1>3, <2>1, UpsertStep
<1>5. ASSUME NEW r \in f.rows, f.kind \notin IssuerFree PROVE r.ticker \in issuers'
  BY <1>1, <1>3, <1>5 DEF RowAccepted
<1>. QED BY <1>4, <1>5 DEF Held

LEMMA StoreMoves ==
    ASSUME StoreSound, [StoreNext]_storeVars
    PROVE  StoreStep
<1>1. ASSUME store' = store, issuers' = issuers PROVE StoreStep
  BY <1>1, SoundParts DEF StoreStep, SameKey
<1>2. ASSUME NEW f \in File, ImportSource(f) PROVE StoreStep
  BY <1>2, ImportMoves
<1>3. ASSUME NEW T \in SUBSET Ticker, NEW S \in SUBSET Session, NEW close \in Close,
             ImportYahooMarketHistories(T, S, close)
      PROVE  StoreStep
  <2>1. PICK at \in Nat : at = refresh.observed
    BY DEF StoreSound, Refresh
  <2>2. PICK fresh : fresh = NewVersions(History(T, S, close), at)
    OBVIOUS
  <2>3. store' = store \cup fresh /\ issuers' = issuers
    BY <1>3, <2>1, <2>2 DEF ImportYahooMarketHistories
  <2>4. /\ store \cup fresh \subseteq StoreRow /\ IsFiniteSet(store \cup fresh)
        /\ Keyed(store \cup fresh) /\ OnSessions(store \cup fresh)
    BY <2>2, SoundParts, NewVersionsTyped
  <2>. QED BY <2>3, <2>4, SoundParts DEF StoreStep, SameKey
<1>4. ASSUME NEW d \in Session, RecordCompletedMarketSession(d) PROVE StoreStep
  <2>1. PICK n : n = [kind |-> "market_sessions_csv", ticker |-> "IDX", key |-> d,
                      version |-> 1, value |-> "COMPLETED", available |-> 0, header |-> 0]
    OBVIOUS
  <2>2. n \in StoreRow
    <3>1. d \in Nat
      BY StoreAssumption
    <3>2. /\ "market_sessions_csv" \in SCHEMAS /\ "IDX" \in AnyTicker
          /\ "COMPLETED" \in AnyValue
      BY DEF SCHEMAS, IssuerFree, AnyTicker, AnyValue
    <3>. QED BY <2>1, <3>1, <3>2 DEF StoreRow
  <2>3. {n} \in SUBSET StoreRow /\ IsFiniteSet({n}) /\ Keyed({n}) /\ OnSessions({n})
    <3>1. n.kind # "market_bars_csv"
      BY <2>1
    <3>. QED BY <2>2, <3>1, FS_Singleton DEF Keyed, OnSessions
  <2>4. store' = Upserted({n}) /\ issuers' = issuers
    BY <1>4, <2>1 DEF RecordCompletedMarketSession
  <2>. QED BY <2>3, <2>4, SoundParts, UpsertStep
<1>. QED
  BY <1>1, <1>2, <1>3, <1>4
     DEF StoreNext, Tick, RegisterSource, AcceptSource, QuarantineSource, RecordIngestionIssue,
         IngestionDies, StartRefresh, RefreshEnds, storeVars
\* What is held stays held.
LEMMA HeldKept ==
    ASSUME StoreStep, NEW f \in File, Held(f)
    PROVE  Held(f)'
<1>. SUFFICES ASSUME NEW r \in f.rows
              PROVE  /\ \E s \in store' : SameKey(RowOf(f, r), s)
                     /\ f.kind \notin IssuerFree => r.ticker \in issuers'
  BY DEF Held
<1>1. PICK s \in store : SameKey(RowOf(f, r), s)
  BY DEF Held
<1>2. PICK q \in store' : SameKey(s, q)
  BY DEF StoreStep
<1>3. SameKey(RowOf(f, r), q)
  BY <1>1, <1>2 DEF SameKey
<1>. QED BY <1>3 DEF Held, StoreStep

\* A step of the ingestion or the refresh that keeps the counters in range.
LEMMA StoreSoundStep ==
    ASSUME StoreSound, StoreStep,
           now' \in 0..MaxTime, refresh' \in Refresh, refresh'.observed \in 0..now',
           artifacts' \in [File -> {"none", "PENDING", "ACCEPTED", "QUARANTINED"}],
           issues' \subseteq File, ingests' \in 0..MaxIngests, refreshes' \in 0..MaxRefreshes,
           \A f \in File : (artifacts'[f] = "ACCEPTED" \/ ingest' = <<f, "imported">>) =>
              Held(f)' \/ artifacts[f] = "ACCEPTED" \/ ingest = <<f, "imported">>
    PROVE  StoreSound'
<1>1. \A f \in File : (artifacts'[f] = "ACCEPTED" \/ ingest' = <<f, "imported">>) => Held(f)'
  BY HeldKept DEF StoreSound
<1>2. StoreTypeOK'
  <2>1. \A r \in store' : r.kind \in SCHEMAS
    BY DEF StoreStep, StoreRow
  <2>2. refresh'.stage \in {"idle", "fetching", "stored"}
    BY DEF Refresh
  <2>. QED BY <2>1, <2>2 DEF StoreTypeOK, StoreStep, Keyed
<1>. QED BY <1>1, <1>2 DEF StoreSound, StoreStep

LEMMA StoreSoundNext ==
    ASSUME StoreSound, [StoreNext]_storeVars
    PROVE  StoreSound'
<1>0. StoreStep
  BY StoreMoves
<1>1. /\ now \in 0..MaxTime /\ refresh \in Refresh /\ refresh.observed \in 0..now
      /\ artifacts \in [File -> {"none", "PENDING", "ACCEPTED", "QUARANTINED"}]
      /\ issues \subseteq File /\ ingests \in 0..MaxIngests /\ refreshes \in 0..MaxRefreshes
      /\ {MaxTime, MaxIngests, MaxRefreshes} \subseteq Nat
  BY StoreAssumption DEF StoreSound, StoreTypeOK
<1>2. CASE Tick
  <2>1. now' \in 0..MaxTime /\ refresh.observed \in 0..now'
    BY <1>1, <1>2 DEF Tick, Refresh
  <2>. QED BY <1>0, <1>1, <1>2, <2>1, StoreSoundStep DEF Tick
<1>3. ASSUME NEW f \in File, RegisterSource(f) PROVE StoreSound'
  <2>1. PICK status \in {"PENDING", "ACCEPTED", "QUARANTINED"} :
           /\ artifacts' = [artifacts EXCEPT ![f] = status]
           /\ status = "ACCEPTED" => artifacts[f] = "ACCEPTED"
    BY <1>1, <1>3 DEF RegisterSource
  <2>2. artifacts' \in [File -> {"none", "PENDING", "ACCEPTED", "QUARANTINED"}]
    BY <1>1, <2>1
  <2>3. \A g \in File : artifacts'[g] = "ACCEPTED" => artifacts[g] = "ACCEPTED"
    BY <1>1, <2>1
  <2>4. ingests' \in 0..MaxIngests
    BY <1>1, <1>3 DEF RegisterSource
  <2>5. \A g \in File : ingest' # <<g, "imported">>
    BY <1>3 DEF RegisterSource
  <2>. QED BY <1>0, <1>1, <1>3, <2>2, <2>3, <2>4, <2>5, StoreSoundStep DEF RegisterSource
<1>4. ASSUME NEW f \in File, ImportSource(f) PROVE StoreSound'
  <2>1. /\ ingest' = <<f, "imported">> /\ Held(f)'
        /\ UNCHANGED <<now, artifacts, issues, ingests, refresh, refreshes>>
    BY <1>4, ImportMoves DEF ImportSource
  <2>2. \A g \in File : ingest' = <<g, "imported">> => g = f
    BY <2>1
  <2>. QED BY <1>0, <1>1, <2>1, <2>2, StoreSoundStep
<1>5. ASSUME NEW f \in File, AcceptSource(f) PROVE StoreSound'
  <2>1. /\ artifacts' \in [File -> {"none", "PENDING", "ACCEPTED", "QUARANTINED"}]
        /\ \A g \in File \ {f} : artifacts'[g] = artifacts[g]
        /\ ingest = <<f, "imported">>
        /\ UNCHANGED <<now, issues, ingests, refresh, refreshes>>
    BY <1>1, <1>5 DEF AcceptSource
  <2>2. \A g \in File : ingest' # <<g, "imported">>
    BY <1>5 DEF AcceptSource
  <2>. QED BY <1>0, <1>1, <2>1, <2>2, StoreSoundStep
<1>6. ASSUME NEW f \in File, QuarantineSource(f) PROVE StoreSound'
  <2>1. /\ artifacts' = [artifacts EXCEPT ![f] = "QUARANTINED"]
        /\ UNCHANGED <<now, issues, ingests, refresh, refreshes>>
    BY <1>6 DEF QuarantineSource
  <2>2. /\ artifacts' \in [File -> {"none", "PENDING", "ACCEPTED", "QUARANTINED"}]
        /\ \A g \in File : artifacts'[g] = "ACCEPTED" => artifacts[g] = "ACCEPTED"
    BY <1>1, <2>1
  <2>3. \A g \in File : ingest' # <<g, "imported">>
    BY <1>6 DEF QuarantineSource
  <2>. QED BY <1>0, <1>1, <2>1, <2>2, <2>3, StoreSoundStep
<1>7. ASSUME NEW f \in File, RecordIngestionIssue(f) PROVE StoreSound'
  <2>1. \A g \in File : ingest' # <<g, "imported">>
    BY <1>7 DEF RecordIngestionIssue
  <2>. QED BY <1>0, <1>1, <1>7, <2>1, StoreSoundStep DEF RecordIngestionIssue
<1>8. CASE IngestionDies
  <2>1. \A g \in File : ingest' # <<g, "imported">>
    BY <1>8 DEF IngestionDies
  <2>. QED BY <1>0, <1>1, <1>8, <2>1, StoreSoundStep DEF IngestionDies
<1>9. CASE StartRefresh
  <2>1. refresh' \in Refresh /\ refresh'.observed = now
    BY <1>1, <1>9 DEF StartRefresh, Refresh
  <2>2. refreshes' \in 0..MaxRefreshes /\ now \in 0..now
    BY <1>1, <1>9 DEF StartRefresh
  <2>. QED BY <1>0, <1>1, <1>9, <2>1, <2>2, StoreSoundStep DEF StartRefresh
<1>10. ASSUME NEW T \in SUBSET Ticker, NEW S \in SUBSET Session, NEW close \in Close,
              ImportYahooMarketHistories(T, S, close)
       PROVE  StoreSound'
  <2> DEFINE bars == {[ticker |-> t, key |-> d] : t \in T, d \in S}
  <2>1. bars \subseteq [ticker : Ticker, key : Session]
    OBVIOUS
  <2>2. refresh' = [refresh EXCEPT !.stage = "stored", !.bars = bars]
    BY <1>10 DEF ImportYahooMarketHistories
  <2> HIDE DEF bars
  <2>3. refresh' \in Refresh /\ refresh'.observed = refresh.observed
    BY <1>1, <2>1, <2>2 DEF Refresh
  <2>. QED BY <1>0, <1>1, <1>10, <2>3, StoreSoundStep DEF ImportYahooMarketHistories
<1>11. ASSUME refresh' = Idle, UNCHANGED <<now, artifacts, issues, ingest, ingests, refreshes>>
       PROVE  StoreSound'
  <2>1. Idle \in Refresh /\ Idle.observed \in 0..now
    BY <1>1 DEF Idle, Refresh
  <2>. QED BY <1>0, <1>1, <1>11, <2>1, StoreSoundStep
<1>12. CASE UNCHANGED storeVars
  BY <1>0, <1>1, <1>12, StoreSoundStep DEF storeVars
<1>. QED
  BY <1>2, <1>3, <1>4, <1>5, <1>6, <1>7, <1>8, <1>9, <1>10, <1>11, <1>12
     DEF StoreNext, RecordCompletedMarketSession, RefreshEnds

LEMMA StoreStarts == Init => StoreSound
<1>. SUFFICES ASSUME Init PROVE StoreSound
  OBVIOUS
<1>1. \A f \in Accepted : \A r \in f.rows : RowOf(f, r) \in store
  BY DEF Init, RowsOf
<1>2. \A f \in Accepted : f.wellFormed /\ (f.rows # {} => f.kind \in SCHEMAS)
  <2>. SUFFICES ASSUME NEW f \in Accepted, NEW r \in f.rows PROVE f.kind \in SCHEMAS
    BY SeedAssumption
  <2>1. RowOf(f, r) \in RowsOf(Accepted) /\ RowOf(f, r).kind = f.kind
    BY DEF RowsOf, RowOf
  <2>. QED BY <2>1, SeedAssumption
<1>3. store \subseteq StoreRow /\ OnSessions(store)
  <2>. SUFFICES ASSUME NEW f \in Accepted, NEW r \in f.rows
                PROVE  /\ RowOf(f, r) \in StoreRow
                       /\ RowOf(f, r).kind = "market_bars_csv" => RowOf(f, r).key \in Session
    BY DEF Init, RowsOf, OnSessions
  <2>1. f.wellFormed /\ f.kind \in SCHEMAS /\ RowOf(f, r).kind = f.kind
    BY <1>2 DEF RowOf
  <2>. QED BY <2>1, FileRowTyped
<1>4. IsFiniteSet(store)
  <2>1. PICK g : g = [f \in Accepted |-> {RowOf(f, r) : r \in f.rows}]
    OBVIOUS
  <2>2. IsFiniteSet({g[f] : f \in Accepted})
    BY StoreAssumption, ImageFinite
  <2>3. ASSUME NEW f \in Accepted PROVE IsFiniteSet(g[f])
    <3>1. PICK h : h = [r \in f.rows |-> RowOf(f, r)]
      OBVIOUS
    <3>2. IsFiniteSet({h[r] : r \in f.rows})
      BY FileAssumption, ImageFinite
    <3>3. g[f] = {h[r] : r \in f.rows}
      BY <2>1, <3>1
    <3>. QED BY <3>2, <3>3
  <2>4. IsFiniteSet(UNION {g[f] : f \in Accepted})
    BY <2>2, <2>3, FS_UNION
  <2>5. RowsOf(Accepted) = UNION {g[f] : f \in Accepted}
    BY <2>1 DEF RowsOf
  <2>. QED BY <2>4, <2>5 DEF Init
<1>5. ASSUME NEW f \in File, artifacts[f] = "ACCEPTED" \/ ingest = <<f, "imported">>
      PROVE  Held(f)
  <2>1. f \in Accepted
    BY <1>5 DEF Init
  <2>2. ASSUME NEW r \in f.rows PROVE f.kind \notin IssuerFree => r.ticker \in issuers
    <3>1. RowOf(f, r) \in RowsOf(Accepted) /\ RowOf(f, r).kind = f.kind /\ RowOf(f, r).ticker = r.ticker
      BY <2>1 DEF RowsOf, RowOf
    <3>. QED BY <3>1, SeedAssumption DEF Init
  <2>. QED BY <1>1, <2>1, <2>2 DEF Held, SameKey
<1>6. issuers \subseteq Ticker
  <2>1. Members(Accepted) \subseteq Members(File \cup Accepted)
    BY DEF Members
  <2>. QED BY <2>1, StoreAssumption DEF Init
<1>7. refresh \in Refresh /\ refresh.stage = "idle" /\ refresh.observed = 0
  BY DEF Init, Idle, Refresh
<1>8. StoreTypeOK
  <2>1. \A r \in store : r.kind \in SCHEMAS
    BY <1>3 DEF StoreRow
  <2>2. \A r, s \in store : SameKey(r, s) => r = s
    BY SeedAssumption DEF Init
  <2>3. artifacts \in [File -> {"none", "PENDING", "ACCEPTED", "QUARANTINED"}]
    BY DEF Init
  <2>. QED BY <1>6, <1>7, <2>1, <2>2, <2>3, StoreAssumption DEF Init, StoreTypeOK
<1>. QED BY <1>3, <1>4, <1>5, <1>7, <1>8 DEF StoreSound
----------------------------------------------------------------------------
(* Signals and their outcomes *)

\* The horizon of an outcome lies between its signal and its evaluation.
Passed(o) == Cardinality({d \in Session : o.session < d /\ d <= o.evaluated}) >= o.horizon

\* An evaluated window has at least as many sessions as the horizon asks for:
\* the prices that are left out all come after it.
LEMMA WindowIsLongEnough ==
    ASSUME StoreSound, NEW g \in [ticker : Ticker, session : Session], NEW h \in Horizon, Ripe(g, h)
    PROVE  Passed(EvaluateSignalWindow(g, h))
<1> DEFINE P == {r \in Prices(g) : Usable(r)}
           W == Window(g, h)
           Earlier(r) == {s \in P : s.key < r.key}
<1>1. \A r \in P : /\ r \in store /\ r.kind = "market_bars_csv" /\ r.ticker = g.ticker
                   /\ r.key > g.session
                   /\ \A s \in P : s.key = r.key => s.version <= r.version
  BY DEF Prices, Latest, Rows
<1>2. \A r \in P : r.key \in Session /\ r.key \in Nat /\ r.version \in Nat
  BY <1>1, SoundParts, StoreAssumption DEF OnSessions, StoreRow
<1>3. ASSUME NEW r \in P, NEW s \in P, r.key = s.key PROVE r = s
  <2>1. r.version = s.version
    BY <1>1, <1>2, <1>3
  <2>2. r \in store /\ s \in store /\ SameKey(r, s)
    BY <1>1, <1>3, <2>1 DEF SameKey
  <2>. QED BY <2>2, SoundParts DEF Keyed
<1>4. IsFiniteSet(P)
  <2>1. P \in SUBSET store
    BY <1>1
  <2>. QED BY <2>1, SoundParts, FS_Subset
<1>5. Cardinality(P) \in Nat /\ Cardinality(P) >= h /\ h \in Nat
  <2>1. Cardinality(P) \in Nat
    BY <1>4, FS_CardinalityType
  <2>. QED BY <2>1, HorizonAssumption DEF Ripe
<1>6. W = {r \in P : Cardinality(Earlier(r)) < h}
  BY DEF Window
<1>7. W \in SUBSET P /\ IsFiniteSet(W) /\ Cardinality(W) \in Nat
  <2>1. W \in SUBSET P
    BY <1>6
  <2>. QED BY <1>4, <2>1, FS_Subset, FS_CardinalityType
<1>8. Cardinality(W) >= h
  <2>1. CASE W = P
    BY <1>5, <2>1
  <2>2. CASE W # P
    <3>1. PICK D : D = P \ W
      OBVIOUS
    <3>2. IsFiniteSet(D) /\ D # {} /\ D \subseteq P
      <4>1. D \in SUBSET P
        BY <3>1
      <4>2. D # {}
        BY <1>7, <2>2, <3>1
      <4>. QED BY <1>4, <4>1, <4>2, FS_Subset
    <3>3. PICK f : f = [r \in D |-> r.key]
      OBVIOUS
    <3>4. PICK K : K = {f[r] : r \in D}
      OBVIOUS
    <3>5. IsFiniteSet(K)
      BY <3>2, <3>4, ImageFinite
    <3>6. K \in SUBSET Int /\ K # {}
      <4>1. \A k \in K : k \in Int
        BY <1>2, <3>2, <3>3, <3>4
      <4>2. K # {}
        BY <3>2, <3>4
      <4>. QED BY <4>1, <4>2
    <3>7. PICK m \in K : \A k \in K : m <= k
      BY <3>5, <3>6, LeastExists
    <3>8. PICK r \in D : r.key = m
      BY <3>3, <3>4, <3>7
    <3>9. Earlier(r) \in SUBSET W
      <4>. SUFFICES ASSUME NEW s \in P, s.key < r.key PROVE s \in W
        OBVIOUS
      <4>1. s \in D => m <= s.key
        BY <3>3, <3>4, <3>7
      <4>2. r \in P
        BY <3>2
      <4>3. r.key \in Nat /\ s.key \in Nat
        BY <1>2, <4>2
      <4>4. s \notin D
        BY <3>8, <4>1, <4>3
      <4>. QED BY <3>1, <4>4
    <3>10. Cardinality(Earlier(r)) <= Cardinality(W) /\ Cardinality(Earlier(r)) \in Nat
      BY <1>7, <3>9, FS_Subset, FS_CardinalityType
    <3>11. ~(Cardinality(Earlier(r)) < h)
      BY <1>6, <3>1, <3>2
    <3>. QED BY <1>5, <1>7, <3>10, <3>11
  <2>. QED BY <2>1, <2>2
<1>9. PICK last : last = Max({r.key : r \in W} \cup {0})
  OBVIOUS
<1>10. \A r \in W : r.key <= last
  <2>1. PICK f : f = [r \in W |-> r.key]
    OBVIOUS
  <2>2. PICK K : K = {f[r] : r \in W} \cup {0}
    OBVIOUS
  <2>3. IsFiniteSet(K)
    <3>1. IsFiniteSet({f[r] : r \in W})
      BY <1>7, ImageFinite
    <3>2. IsFiniteSet({0})
      BY FS_Singleton
    <3>. QED BY <2>2, <3>1, <3>2, FS_Union
  <2>4. K \in SUBSET Int
    <3>1. \A k \in K : k \in Int
      BY <1>2, <1>7, <2>1, <2>2
    <3>. QED BY <3>1
  <2>5. K # {}
    BY <2>2
  <2>6. \A k \in K : k <= Max(K)
    BY <2>3, <2>4, <2>5, MaxIsGreatest
  <2>7. K = {r.key : r \in W} \cup {0}
    BY <2>1, <2>2
  <2>8. \A r \in W : r.key \in K
    BY <2>7
  <2>. QED BY <1>9, <2>6, <2>7, <2>8
<1>11. PICK S : S = {d \in Session : g.session < d /\ d <= last}
  OBVIOUS
<1>12. Cardinality(W) <= Cardinality(S) /\ Cardinality(S) \in Nat
  <2>1. IsFiniteSet(S)
    <3>1. IsFiniteSet(1..MaxTime)
      BY StoreAssumption, FS_Interval
    <3>2. S \in SUBSET (1..MaxTime)
      BY <1>11, StoreAssumption
    <3>. QED BY <3>1, <3>2, FS_Subset
  <2>2. PICK f : f = [r \in W |-> r.key]
    OBVIOUS
  <2>3. g.session \in Nat
    <3>1. g.session \in Session /\ Session \subseteq Nat
      BY StoreAssumption
    <3>. QED BY <3>1
  <2>4. \A r \in W : r.key \in S
    BY <1>1, <1>2, <1>7, <1>10, <1>11, <2>3
  <2>5. f \in Injection(W, S)
    <3>1. f \in [W -> S]
      BY <2>2, <2>4
    <3>2. \A r, s \in W : f[r] = f[s] => r = s
      BY <1>3, <1>7, <2>2
    <3>. QED BY <3>1, <3>2 DEF Injection, IsInjective
  <2>. QED BY <2>1, <2>5, FS_Injection, FS_CardinalityType
<1>13. PICK o : o = EvaluateSignalWindow(g, h)
  OBVIOUS
<1>14. o.session = g.session /\ o.horizon = h /\ o.evaluated = last
  BY <1>9, <1>13 DEF EvaluateSignalWindow
<1>15. Passed(o)
  BY <1>5, <1>7, <1>8, <1>11, <1>12, <1>14 DEF Passed
<1>. QED BY <1>13, <1>15
\* What is known of an outcome, saved or about to be.
Judged(o) == [ticker |-> o.ticker, session |-> o.session] \in signals /\ Passed(o)

\* An outcome was judged when its window was evaluated, before it was saved:
\* NeverJudgedEarly has to be kept of the evaluators' batches as well.
OutcomesSound ==
    /\ signals \subseteq [ticker : Ticker, session : Session]
    /\ DOMAIN batch = Evaluator
    /\ \A o \in outcomes : Judged(o)
    /\ \A o, p \in outcomes : SameOutcome(o, p) => o = p
    /\ \A e \in Evaluator : \A o \in batch[e] : Judged(o)

LEMMA OutcomesKept ==
    ASSUME OutcomesSound,
           signals \subseteq signals', signals' \subseteq [ticker : Ticker, session : Session],
           DOMAIN batch' = Evaluator,
           \A o \in outcomes' : o \in outcomes \/ Judged(o),
           \A o, p \in outcomes' : SameOutcome(o, p) => o = p,
           \A e \in Evaluator : \A o \in batch'[e] : o \in batch[e] \/ Judged(o)
    PROVE  OutcomesSound'
BY DEF OutcomesSound, Judged, Passed

LEMMA OutcomesSoundNext ==
    ASSUME StoreSound, OutcomesSound, [Next]_vars
    PROVE  OutcomesSound'
<1>0. /\ signals \subseteq [ticker : Ticker, session : Session]
      /\ DOMAIN batch = Evaluator
      /\ \A o, p \in outcomes : SameOutcome(o, p) => o = p
  BY DEF OutcomesSound
<1>1. CASE UNCHANGED <<signals, outcomes, batch>>
  BY <1>0, <1>1, OutcomesKept
<1>2. ASSUME NEW t \in Ticker, PublishSignal(t) PROVE OutcomesSound'
  <2>1. PICK d \in RefreshReady : signals' = signals \cup {[ticker |-> t, session |-> d]}
    BY <1>2 DEF PublishSignal
  <2>2. d \in Session
    BY DEF RefreshReady
  <2>3. signals \subseteq signals' /\ signals' \subseteq [ticker : Ticker, session : Session]
    BY <1>0, <2>1, <2>2
  <2>4. UNCHANGED <<outcomes, batch>>
    BY <1>2 DEF PublishSignal
  <2>. QED BY <1>0, <2>3, <2>4, OutcomesKept
<1>3. ASSUME NEW e \in Evaluator, ReadPendingWindows(e) PROVE OutcomesSound'
  <2>1. PICK new : /\ new = {EvaluateSignalWindow(gh[1], gh[2]) : gh \in Pending}
                   /\ batch' = [batch EXCEPT ![e] = new]
    BY <1>3 DEF ReadPendingWindows
  <2>2. ASSUME NEW gh \in Pending PROVE Judged(EvaluateSignalWindow(gh[1], gh[2]))
    <3>1. PICK g \in signals, h \in Horizon : g = gh[1] /\ h = gh[2] /\ Ripe(g, h)
      BY DEF Pending
    <3>2. g \in [ticker : Ticker, session : Session]
      BY <1>0
    <3>3. PICK o : o = EvaluateSignalWindow(g, h)
      OBVIOUS
    <3>4. Passed(o)
      BY <3>1, <3>2, <3>3, WindowIsLongEnough
    <3>5. o.ticker = g.ticker /\ o.session = g.session
      BY <3>3 DEF EvaluateSignalWindow
    <3>6. g = [ticker |-> o.ticker, session |-> o.session]
      BY <3>2, <3>5
    <3>7. Judged(o)
      BY <3>4, <3>6 DEF Judged
    <3>. QED BY <3>1, <3>3, <3>7
  <2>3. \A o \in new : Judged(o)
    BY <2>1, <2>2
  <2>4. DOMAIN batch' = Evaluator /\ \A f \in Evaluator : \A o \in batch'[f] : o \in batch[f] \/ Judged(o)
    BY <1>0, <2>1, <2>3
  <2>5. UNCHANGED <<signals, outcomes>>
    BY <1>3 DEF ReadPendingWindows
  <2>. QED BY <1>0, <2>4, <2>5, OutcomesKept
<1>4. ASSUME NEW e \in Evaluator, NEW o \in batch[e], SaveSignalOutcome(e, o) PROVE OutcomesSound'
  <2>1. Judged(o)
    BY DEF OutcomesSound
  <2>2. outcomes' = Kept(o) /\ batch' = [batch EXCEPT ![e] = batch[e] \ {o}] /\ signals' = signals
    BY <1>4 DEF SaveSignalOutcome
  <2>3. \A p \in outcomes' : p \in outcomes \/ Judged(p)
    BY <2>1, <2>2 DEF Kept
  <2>4. \A p, q \in outcomes' : SameOutcome(p, q) => p = q
    BY <1>0, <2>2 DEF Kept, SameOutcome
  <2>5. DOMAIN batch' = Evaluator /\ \A f \in Evaluator : \A p \in batch'[f] : p \in batch[f]
    BY <1>0, <2>2
  <2>. QED BY <1>0, <2>2, <2>3, <2>4, <2>5, OutcomesKept
<1>5. ASSUME NEW e \in Evaluator, EvaluatorDies(e) PROVE OutcomesSound'
  <2>1. DOMAIN batch' = Evaluator /\ \A f \in Evaluator : \A o \in batch'[f] : o \in batch[f]
    BY <1>0, <1>5 DEF EvaluatorDies
  <2>2. UNCHANGED <<signals, outcomes>>
    BY <1>5 DEF EvaluatorDies
  <2>. QED BY <1>0, <2>1, <2>2, OutcomesKept
<1>. QED BY <1>1, <1>2, <1>3, <1>4, <1>5 DEF Next, Evaluate, vars

\* The steps of the telemetry leave the store alone.
LEMMA StoreSteps ==
    ASSUME [Next]_vars
    PROVE  [StoreNext]_storeVars
<1>1. ASSUME NEW t \in Ticker, PublishSignal(t) PROVE UNCHANGED storeVars
  BY <1>1 DEF PublishSignal
<1>2. ASSUME NEW e \in Evaluator, Evaluate(e) \/ EvaluatorDies(e) PROVE UNCHANGED storeVars
  BY <1>2 DEF Evaluate, EvaluatorDies, ReadPendingWindows, SaveSignalOutcome
<1>. QED BY <1>1, <1>2 DEF Next, vars

Sound == StoreSound /\ OutcomesSound

\* The store, the signals and the outcomes keep what the properties rest on.
THEOREM OutcomeInvariant == Spec => []Sound
<1>1. OutcomeInit => Sound
  <2>. SUFFICES ASSUME OutcomeInit PROVE OutcomesSound
    BY StoreStarts DEF OutcomeInit, Sound
  <2>. QED BY DEF OutcomeInit, OutcomesSound
<1>2. Sound /\ [Next]_vars => Sound'
  BY StoreSteps, StoreSoundNext, OutcomesSoundNext DEF Sound
<1>. QED BY <1>1, <1>2, PTL DEF Spec

\* Type correctness of the store and the telemetry: no two rows share a key and
\* no two outcomes a signal and a horizon, whatever was ingested, refreshed and
\* evaluated in whatever order.
THEOREM OutcomeTypeCorrect == Spec => []TypeOK
<1>1. Sound => TypeOK
  BY DEF Sound, StoreSound, OutcomesSound, TypeOK, Judged
<1>. QED BY <1>1, OutcomeInvariant, PTL

\* Whatever fails around the import of a file, an accepted source is stored
\* whole (ingest_manifest, import_canonical_records).
THEOREM AcceptedSourcesStored == Spec => []AcceptedIsStored
<1>1. Sound => AcceptedIsStored
  BY DEF Sound, StoreSound, AcceptedIsStored, Held
<1>. QED BY <1>1, OutcomeInvariant, PTL

\* No signal is judged before its horizon has passed on the exchange
\* (pending_signal_windows, evaluate_signal_window).
THEOREM HorizonsHavePassed == Spec => []NeverJudgedEarly
<1>1. Sound => NeverJudgedEarly
  BY DEF Sound, OutcomesSound, NeverJudgedEarly, Judged, Passed
<1>. QED BY <1>1, OutcomeInvariant, PTL

\* A saved outcome stays as it is, though evaluators overlap
\* (save_signal_outcome).
THEOREM OutcomesNeverChange == Spec => OutcomesAreFinal
<1>1. [Next]_vars => [outcomes \subseteq outcomes']_outcomes
  <2>. SUFFICES ASSUME Next PROVE outcomes \subseteq outcomes'
    BY DEF vars
  <2>1. ASSUME NEW e \in Evaluator, NEW o \in batch[e], SaveSignalOutcome(e, o)
        PROVE  outcomes \subseteq outcomes'
    BY <2>1 DEF SaveSignalOutcome, Kept
  <2>. QED BY <2>1 DEF Next, PublishSignal, Evaluate, ReadPendingWindows, EvaluatorDies
<1>. QED BY <1>1, PTL DEF Spec, OutcomesAreFinal
----------------------------------------------------------------------------
(* The point-in-time questions *)

\* Whatever is asked as of a time, rows that became available later and rows of
\* insert-only tables that stay leave the answer as it was.
LEMMA KnownKept ==
    ASSUME StoreStep, NEW kind \in InsertOnly, NEW t, NEW asOf \in Nat,
           \A r \in store' \ store : r.available > asOf
    PROVE  Known(kind, t, asOf)' = Known(kind, t, asOf)
<1>1. ASSUME NEW r, r.kind = kind, r.available <= asOf PROVE r \in store' <=> r \in store
  <2>1. r \in store => r \in store'
    BY <1>1 DEF StoreStep
  <2>2. ASSUME r \in store', r \notin store PROVE FALSE
    <3>1. r.available \in Nat
      BY <2>2 DEF StoreStep, StoreRow
    <3>2. r.available > asOf
      BY <2>2
    <3>. QED BY <1>1, <3>1, <3>2
  <2>. QED BY <2>1, <2>2
<1>. QED BY <1>1 DEF Known, Rows, KnownAt, Quarantined

\* What was known of an issuer's prices and corporate actions stays as it was:
\* revisions come as new versions and imports replace nothing
\* (market_bars_as_of, corporate_actions_as_of).
THEOREM PastPricesStay == Spec => PastPricesAreFixed
<1> DEFINE Fixed ==
       \A t \in Ticker, asOf \in 0..MaxTime :
          (\A r \in store' \ store : r.available > asOf)
             => /\ MarketBarsAsOf(t, asOf)' = MarketBarsAsOf(t, asOf)
                /\ CorporateActionsAsOf(t, asOf)' = CorporateActionsAsOf(t, asOf)
<1>1. ASSUME StoreStep PROVE Fixed
  <2>. SUFFICES ASSUME NEW t \in Ticker, NEW asOf \in 0..MaxTime,
                       \A r \in store' \ store : r.available > asOf
                PROVE  /\ MarketBarsAsOf(t, asOf)' = MarketBarsAsOf(t, asOf)
                       /\ CorporateActionsAsOf(t, asOf)' = CorporateActionsAsOf(t, asOf)
    OBVIOUS
  <2>1. asOf \in Nat
    BY StoreAssumption
  <2>2. Known("market_bars_csv", t, asOf)' = Known("market_bars_csv", t, asOf)
    BY <1>1, <2>1, KnownKept DEF InsertOnly
  <2>3. Known("corporate_actions_csv", t, asOf)' = Known("corporate_actions_csv", t, asOf)
    BY <1>1, <2>1, KnownKept DEF InsertOnly
  <2>. QED BY <2>2, <2>3 DEF MarketBarsAsOf, CorporateActionsAsOf, Latest
<1>2. Sound /\ [Next]_vars => [store' # store => Fixed]_store
  BY <1>1, StoreSteps, StoreMoves DEF Sound
<1>3. Sound /\ [Next]_vars =>
         [store' # store => \A t \in Ticker, asOf \in 0..MaxTime :
            (\A r \in store' \ store : r.available > asOf)
               => /\ MarketBarsAsOf(t, asOf)' = MarketBarsAsOf(t, asOf)
                  /\ CorporateActionsAsOf(t, asOf)' = CorporateActionsAsOf(t, asOf)]_store
  BY <1>2
<1>. QED BY <1>3, OutcomeInvariant, PTL DEF Spec, PastPricesAreFixed

\* Of every key, a finite set of rows has one of the newest version.
LEMMA LatestHasEveryKey ==
    ASSUME NEW rows \in SUBSET StoreRow, IsFiniteSet(rows), NEW r \in rows
    PROVE  \E s \in Latest(rows) : s.key = r.key
<1>1. PICK same : same = {s \in rows : s.key = r.key}
  OBVIOUS
<1>2. IsFiniteSet(same)
  <2>1. same \in SUBSET rows
    BY <1>1
  <2>. QED BY <2>1, FS_Subset
<1>3. PICK f : f = [s \in same |-> s.version]
  OBVIOUS
<1>4. PICK V : V = {f[s] : s \in same}
  OBVIOUS
<1>5. IsFiniteSet(V)
  BY <1>2, <1>4, ImageFinite
<1>6. V \in SUBSET Int /\ V # {}
  <2>1. \A v \in V : v \in Int
    BY <1>1, <1>3, <1>4 DEF StoreRow
  <2>2. r \in same
    BY <1>1
  <2>3. V # {}
    BY <1>4, <2>2
  <2>. QED BY <2>1, <2>3
<1>7. PICK m \in V : \A v \in V : v <= m
  BY <1>5, <1>6, GreatestExists
<1>8. PICK s \in same : s.version = m
  BY <1>3, <1>4, <1>7
<1>9. \A q \in same : q.version <= s.version
  BY <1>3, <1>4, <1>7, <1>8
<1>10. s \in Latest(rows)
  BY <1>1, <1>9 DEF Latest
<1>. QED BY <1>1, <1>10

\* Of a finite set of numbers FirstOf returns everything or n elements: what is
\* missing has n smaller ones.
LEMMA FirstOfWhole ==
    ASSUME NEW S \in SUBSET Nat, IsFiniteSet(S), NEW n \in Nat
    PROVE  /\ FirstOf(S, n + 1) \subseteq S /\ IsFiniteSet(FirstOf(S, n + 1))
           /\ Cardinality(S) <= n => FirstOf(S, n + 1) = S
           /\ Cardinality(FirstOf(S, n + 1)) <= n => FirstOf(S, n + 1) = S
<1> DEFINE Below(x) == {y \in S : y < x}
<1>1. PICK F : F = FirstOf(S, n + 1)
  OBVIOUS
<1>2. F = {x \in S : Cardinality(Below(x)) < n + 1}
  BY <1>1 DEF FirstOf
<1>3. F \subseteq S /\ IsFiniteSet(F)
  <2>1. F \in SUBSET S
    BY <1>2
  <2>. QED BY <2>1, FS_Subset
<1>4. \A x \in S : IsFiniteSet(Below(x)) /\ Cardinality(Below(x)) \in Nat
  <2>1. ASSUME NEW x \in S PROVE IsFiniteSet(Below(x))
    <3>1. Below(x) \in SUBSET S
      OBVIOUS
    <3>. QED BY <3>1, FS_Subset
  <2>. QED BY <2>1, FS_CardinalityType
<1>5. ASSUME NEW T \in SUBSET S, Cardinality(T) <= n, NEW x \in S, Below(x) \subseteq T
      PROVE  x \in F
  <2>1. IsFiniteSet(T) /\ Cardinality(T) \in Nat
    BY FS_Subset, FS_CardinalityType
  <2>2. PICK B \in SUBSET T : B = Below(x)
    BY <1>5
  <2>3. Cardinality(B) <= Cardinality(T)
    BY <2>1, FS_Subset
  <2>4. Cardinality(B) \in Nat
    BY <1>4, <2>2
  <2>5. Cardinality(B) < n + 1
    BY <1>5, <2>1, <2>3, <2>4
  <2>. QED BY <1>2, <2>2, <2>5
<1>6. Cardinality(S) <= n => F = S
  <2>1. ASSUME Cardinality(S) <= n, NEW x \in S PROVE x \in F
    BY <1>5, <2>1
  <2>. QED BY <1>3, <2>1
<1>7. ASSUME Cardinality(F) <= n PROVE F = S
  <2>. SUFFICES ASSUME S \ F # {} PROVE FALSE
    BY <1>3
  <2>1. S \ F \in SUBSET Int /\ IsFiniteSet(S \ F)
    <3>1. S \ F \in SUBSET S
      OBVIOUS
    <3>2. IsFiniteSet(S \ F)
      BY <3>1, FS_Subset
    <3>3. \A y \in S : y \in Int
      OBVIOUS
    <3>. QED BY <3>2, <3>3
  <2>2. PICK x \in S \ F : \A y \in S \ F : x <= y
    BY <2>1, LeastExists
  <2>3. ASSUME NEW y \in S, y < x PROVE y \in F
    <3>1. x \in Nat /\ y \in Nat
      OBVIOUS
    <3>. QED BY <2>2, <2>3, <3>1
  <2>4. Below(x) \subseteq F
    BY <2>3
  <2>. QED BY <1>3, <1>5, <1>7, <2>2, <2>4
<1>. QED BY <1>1, <1>3, <1>6, <1>7

\* The diagnostics list the periods that the facts of the same cutoff are of,
\* though each has a query of its own, and never a part of them: a list that was
\* cut short is recognised by its length (readiness_evidence_as_of,
\* merge_readiness_evidence, facts_as_of, build_factor_inputs).
THEOREM DiagnosticsListTheFacts == Spec => []DiagnosticsMatchFacts
<1>1. ASSUME StoreSound, NEW t \in Ticker, NEW asOf \in 0..now
      PROVE  LET known == {r.key : r \in FactsAsOf(t, asOf)}
                 used == {r.key : r \in UsableFacts(t, asOf)}
             IN  /\ PeriodsValid(t, asOf) <=> Cardinality(known) <= MAX_DIAGNOSTIC_ITEMS
                 /\ PeriodsValid(t, asOf) => DiagnosticPeriods(t, asOf) = known
                 /\ used \in {{}, known}
  <2>1. PICK K : K = Known("statement_facts_csv", t, asOf)
    OBVIOUS
  <2>2. EligibleFacts(t, asOf) = K
    BY <2>1 DEF EligibleFacts, Known, KnownAt, Quarantined, Rows
  <2>3. FactsAsOf(t, asOf) = Latest(K)
    BY <2>1 DEF FactsAsOf
  <2>4. K \in SUBSET StoreRow /\ IsFiniteSet(K)
    <3>1. K \in SUBSET store
      BY <2>1 DEF Known, Rows
    <3>2. K \in SUBSET StoreRow
      BY <3>1, <1>1, SoundParts
    <3>3. IsFiniteSet(K)
      BY <3>1, <1>1, SoundParts, FS_Subset
    <3>. QED BY <3>2, <3>3
  <2>5. \A r \in K : \E s \in Latest(K) : s.key = r.key
    BY <2>4, LatestHasEveryKey
  <2>6. Latest(K) \subseteq K
    BY DEF Latest
  <2>7. PICK P : P = {r.key : r \in K}
    OBVIOUS
  <2>8. {r.key : r \in FactsAsOf(t, asOf)} = P
    BY <2>3, <2>5, <2>6, <2>7
  <2>9. P \in SUBSET Nat /\ IsFiniteSet(P)
    <3>1. \A r \in K : r.key \in Nat
      BY <2>4 DEF StoreRow
    <3>2. PICK f : f = [r \in K |-> r.key]
      OBVIOUS
    <3>3. P = {f[r] : r \in K}
      BY <2>7, <3>2
    <3>4. IsFiniteSet(P)
      BY <2>4, <3>3, ImageFinite
    <3>. QED BY <2>7, <3>1, <3>4
  <2>10. PICK F : F = FirstOf(P, MAX_DIAGNOSTIC_ITEMS + 1)
    OBVIOUS
  <2>11. PeriodEvidence(t, asOf) = F
    BY <2>2, <2>7, <2>10 DEF PeriodEvidence, RowLimit
  <2>12. /\ F \subseteq P /\ IsFiniteSet(F)
         /\ Cardinality(P) <= MAX_DIAGNOSTIC_ITEMS => F = P
         /\ Cardinality(F) <= MAX_DIAGNOSTIC_ITEMS => F = P
    BY <2>9, <2>10, FirstOfWhole, StoreAssumption
  <2>13. PeriodsValid(t, asOf) <=> Cardinality(P) <= MAX_DIAGNOSTIC_ITEMS
    BY <2>11, <2>12 DEF PeriodsValid
  <2>14. PeriodsValid(t, asOf) => DiagnosticPeriods(t, asOf) = P
    BY <2>11, <2>12 DEF PeriodsValid, DiagnosticPeriods
  <2>15. {r.key : r \in UsableFacts(t, asOf)} \in {{}, P}
    BY <2>8 DEF UsableFacts
  <2>. QED BY <2>8, <2>13, <2>14, <2>15
<1>2. Sound => DiagnosticsMatchFacts
  BY <1>1 DEF Sound, DiagnosticsMatchFacts
<1>. QED BY <1>2, OutcomeInvariant, PTL
----------------------------------------------------------------------------
(* The session calendar *)

\* The stored calendar has one row of a day, and counts the sessions as such.
OnCalendar(S) ==
    \A r \in S : r.kind = "market_sessions_csv" =>
        /\ r.version = 1
        /\ r.value \in {"SCHEDULED", "COMPLETED"} <=> r.key \in Session

LEMMA UpsertOnCalendar ==
    ASSUME store \subseteq StoreRow, OnCalendar(store),
           NEW new \in SUBSET StoreRow, OnCalendar(new), NEW U, U = Upserted(new)
    PROVE  OnCalendar(U)
<1>. SUFFICES ASSUME NEW u \in U, u.kind = "market_sessions_csv" PROVE u \in store \cup new
  BY DEF OnCalendar
<1>1. u \in new \/ \E r \in store : u = Replaced(r, new)
  BY DEF Upserted, Replaced
<1>2. ASSUME NEW r \in store, u = Replaced(r, new) PROVE u \in store \cup new
  <2>1. r \in StoreRow
    OBVIOUS
  <2>2. SameKey(u, r) /\ (u = r \/ u \in new \/ r.kind = "statement_facts_csv")
    BY <1>2, <2>1, ReplacedKeepsKey
  <2>. QED BY <2>2 DEF SameKey
<1>. QED BY <1>1, <1>2

LEMMA CalendarStays ==
    ASSUME CalendarAgrees, StoreSound, OnCalendar(store), [StoreNext]_storeVars
    PROVE  OnCalendar(store')
<1>0. store \subseteq StoreRow
  BY SoundParts
<1>1. ASSUME NEW f \in File, ImportSource(f) PROVE OnCalendar(store')
  <2>1. PICK new : new = {RowOf(f, r) : r \in f.rows}
    OBVIOUS
  <2>2. store' = Upserted(new) /\ f.wellFormed /\ f.kind \in SCHEMAS
    BY <1>1, <2>1 DEF ImportSource, ImportCanonicalRecords, WellFormed
  <2>3. new \in SUBSET StoreRow
    BY <2>1, <2>2, FileRowsTyped
  <2>4. OnCalendar(new)
    BY <2>1 DEF OnCalendar, CalendarAgrees, RowOf
  <2>. QED BY <1>0, <2>2, <2>3, <2>4, UpsertOnCalendar
<1>2. ASSUME NEW T \in SUBSET Ticker, NEW S \in SUBSET Session, NEW close \in Close,
             ImportYahooMarketHistories(T, S, close)
      PROVE  OnCalendar(store')
  BY <1>2 DEF ImportYahooMarketHistories, NewVersions, OnCalendar
<1>3. ASSUME NEW d \in Session, RecordCompletedMarketSession(d) PROVE OnCalendar(store')
  <2>1. PICK n : n = [kind |-> "market_sessions_csv", ticker |-> "IDX", key |-> d,
                      version |-> 1, value |-> "COMPLETED", available |-> 0, header |-> 0]
    OBVIOUS
  <2>2. {n} \in SUBSET StoreRow
    <3>1. d \in Nat
      BY StoreAssumption
    <3>2. /\ "market_sessions_csv" \in SCHEMAS /\ "IDX" \in AnyTicker
          /\ "COMPLETED" \in AnyValue
      BY DEF SCHEMAS, IssuerFree, AnyTicker, AnyValue
    <3>. QED BY <2>1, <3>1, <3>2 DEF StoreRow
  <2>3. OnCalendar({n})
    BY <2>1 DEF OnCalendar
  <2>4. store' = Upserted({n})
    BY <1>3, <2>1 DEF RecordCompletedMarketSession
  <2>. QED BY <1>0, <2>2, <2>3, <2>4, UpsertOnCalendar
<1>. QED
  BY <1>1, <1>2, <1>3
     DEF StoreNext, Tick, RegisterSource, AcceptSource, QuarantineSource, RecordIngestionIssue,
         IngestionDies, StartRefresh, RefreshEnds, storeVars

LEMMA CalendarStarts == CalendarAgrees /\ Init => OnCalendar(store)
BY DEF CalendarAgrees, Init, OnCalendar, RowsOf, RowOf

\* A day that counts as a session counts as one after any step.
LEMMA TradingDaysStay ==
    ASSUME StoreSound, StoreStep, OnCalendar(store), OnCalendar(store'), NEW d,
           Status(d) \in {{"SCHEDULED"}, {"COMPLETED"}}
    PROVE  Status(d)' \in {{"SCHEDULED"}, {"COMPLETED"}}
<1>1. PICK r \in store : /\ r.kind = "market_sessions_csv" /\ r.ticker = "IDX" /\ r.key = d
                         /\ r.value \in {"SCHEDULED", "COMPLETED"}
  BY DEF Status, Rows
<1>2. PICK s \in store' : SameKey(r, s)
  BY DEF StoreStep
<1>3. s.kind = "market_sessions_csv" /\ s.ticker = "IDX" /\ s.key = d /\ s.version = 1
      /\ s.value \in {"SCHEDULED", "COMPLETED"}
  BY <1>1, <1>2 DEF SameKey, OnCalendar
<1>4. ASSUME NEW q \in store', q.kind = "market_sessions_csv", q.ticker = "IDX", q.key = d
      PROVE  q = s
  <2>1. SameKey(q, s)
    BY <1>3, <1>4 DEF SameKey, OnCalendar
  <2>. QED BY <2>1 DEF StoreStep, Keyed
<1>5. Status(d)' = {s.value}
  BY <1>3, <1>4 DEF Status, Rows
<1>. QED BY <1>3, <1>5

\* Where the calendar files agree on the sessions, no import and no refresh makes
\* a session look more recent (expected_session_age,
\* record_completed_market_session).
THEOREM SessionsNeverFreshen == CalendarAgrees => (Spec => ReingestNeverFreshens)
<1>. SUFFICES ASSUME CalendarAgrees PROVE Spec => ReingestNeverFreshens
  OBVIOUS
<1> DEFINE Calendar == OnCalendar(store)
           NotFresher == \A d \in Session, on \in 0..MaxTime : SessionAge(d, on)' >= SessionAge(d, on)
<1>1. ASSUME Sound, Calendar, [Next]_vars PROVE Calendar'
  BY <1>1, StoreSteps, CalendarStays DEF Sound
<1>2. ASSUME Sound, Calendar, [Next]_vars, CalendarKnown PROVE NotFresher
  <2>. SUFFICES ASSUME NEW d \in Session, NEW on \in 0..MaxTime
                PROVE  SessionAge(d, on)' >= SessionAge(d, on)
    OBVIOUS
  <2>1. StoreSound /\ StoreStep
    BY <1>2, StoreSteps, StoreMoves DEF Sound
  <2>2. OnCalendar(store) /\ OnCalendar(store')
    BY <1>1, <1>2
  <2>3. PICK days, later :
           /\ days = {e \in d + 1 .. on : Status(e) \in {{"SCHEDULED"}, {"COMPLETED"}}}
           /\ later = {e \in d + 1 .. on : Status(e)' \in {{"SCHEDULED"}, {"COMPLETED"}}}
    OBVIOUS
  <2>4. IsFiniteSet(d + 1 .. on)
    <3>1. d + 1 \in Int /\ on \in Int
      BY StoreAssumption
    <3>. QED BY <3>1, FS_Interval
  <2>5. days \in SUBSET later
    BY <2>1, <2>2, <2>3, TradingDaysStay
  <2>6. days \in SUBSET (d + 1 .. on) /\ later \in SUBSET (d + 1 .. on)
    BY <2>3
  <2>7. IsFiniteSet(later) /\ IsFiniteSet(days)
    BY <2>4, <2>6, FS_Subset
  <2>8. Cardinality(days) <= Cardinality(later)
    BY <2>5, <2>7, FS_Subset
  <2>9. Cardinality(days) <= Cardinality(d + 1 .. on)
    BY <2>4, <2>6, FS_Subset
  <2>10. Cardinality(days) \in Nat /\ Cardinality(later) \in Nat /\ Cardinality(d + 1 .. on) \in Nat
    BY <2>4, <2>7, FS_CardinalityType
  <2>11. SessionAge(d, on) = Cardinality(days)
    BY <1>2, <2>3 DEF SessionAge, TradingDays
  <2>12. SessionAge(d, on)' = Cardinality(later) \/ SessionAge(d, on)' = Cardinality(d + 1 .. on)
    BY <2>3 DEF SessionAge, TradingDays
  <2>. QED BY <2>8, <2>9, <2>10, <2>11, <2>12
<1>3. OutcomeInit => Calendar
  BY CalendarStarts DEF OutcomeInit
<1>4. Sound /\ Calendar /\ [Next]_vars => Calendar'
  BY <1>1
<1>5. Sound /\ Calendar /\ [Next]_vars =>
         [(store' # store /\ CalendarKnown) =>
            \A d \in Session, on \in 0..MaxTime : SessionAge(d, on)' >= SessionAge(d, on)]_store
  BY <1>2
<1>. QED BY <1>3, <1>4, <1>5, OutcomeInvariant, PTL DEF Spec, ReingestNeverFreshens

=============================================================================
