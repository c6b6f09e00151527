-------------------------- MODULE BotDeliveryProofs --------------------------
(***************************************************************************)
(* Machine-checked proofs about BotDelivery, for any updates, universe,    *)
(* published snapshots, cache interval, session length, failures and       *)
(* bounds.                                                                 *)
(***************************************************************************)
EXTENDS BotDelivery, SequenceTheorems, TLAPS

----------------------------------------------------------------------------
(* The memory of processed updates: a sequence without repetition *)

Distinct(s) == \A i, j \in DOMAIN s : s[i] = s[j] => i = j

LEMMA Appended ==
    ASSUME NEW S, NEW s \in Seq(S), NEW x \in S
    PROVE  /\ Append(s, x) \in Seq(S) /\ Len(Append(s, x)) = Len(s) + 1
           /\ \A i \in DOMAIN s : Append(s, x)[i] = s[i]
           /\ Append(s, x)[Len(s) + 1] = x
           /\ DOMAIN Append(s, x) = DOMAIN s \cup {Len(s) + 1} /\ DOMAIN s = 1..Len(s)
OBVIOUS

LEMMA Remembering ==
    ASSUME NEW s \in Seq(Update), Distinct(s), NEW u \in Update, u \notin ToSet(s)
    PROVE  LET next == Append(s, u) IN
           /\ next \in Seq(Update) /\ Distinct(next) /\ ToSet(next) = ToSet(s) \cup {u}
           /\ next # <<>> /\ Len(next) = Len(s) + 1
<1> DEFINE next == Append(s, u)
<1>1. /\ next \in Seq(Update) /\ Len(next) = Len(s) + 1 /\ Len(s) \in Nat
      /\ \A i \in DOMAIN s : next[i] = s[i]
      /\ next[Len(s) + 1] = u
      /\ DOMAIN next = DOMAIN s \cup {Len(s) + 1} /\ DOMAIN s = 1..Len(s)
  BY Appended
<1> HIDE DEF next
<1>2. ToSet(next) = ToSet(s) \cup {u}
  BY <1>1 DEF ToSet
<1>3. \A i \in DOMAIN s : s[i] # u
  BY DEF ToSet
<1>4. Distinct(next)
  BY <1>1, <1>3 DEF Distinct
<1>5. next # <<>>
  BY <1>1
<1>. QED BY <1>1, <1>2, <1>4, <1>5 DEF next

LEMMA Evicting ==
    ASSUME NEW s \in Seq(Update), s # <<>>, Distinct(s)
    PROVE  /\ Tail(s) \in Seq(Update) /\ Distinct(Tail(s)) /\ ToSet(Tail(s)) \subseteq ToSet(s)
           /\ Len(Tail(s)) = Len(s) - 1
<1>1. PICK t : t = Tail(s)
  OBVIOUS
<1>2. /\ t \in Seq(Update) /\ Len(t) = Len(s) - 1 /\ Len(t) \in Nat
      /\ \A i \in 1..Len(t) : t[i] = s[i + 1]
  BY <1>1, HeadTailProperties, LenProperties
<1>3. DOMAIN t = 1..Len(t) /\ DOMAIN s = 1..Len(s) /\ Len(s) \in Nat
  BY <1>2, LenProperties
<1>4. \A i \in DOMAIN t : i \in Nat /\ i + 1 \in DOMAIN s /\ t[i] = s[i + 1]
  BY <1>2, <1>3
<1>5. Distinct(t)
  BY <1>4 DEF Distinct
<1>6. ToSet(t) \subseteq ToSet(s)
  BY <1>4 DEF ToSet
<1>. QED BY <1>1, <1>2, <1>5, <1>6

LEMMA Forgetting ==
    ASSUME NEW s \in Seq(Update), Distinct(s), NEW i \in DOMAIN s
    PROVE  /\ RemoveAt(s, i) \in Seq(Update) /\ Distinct(RemoveAt(s, i))
           /\ ToSet(RemoveAt(s, i)) \subseteq ToSet(s) \ {s[i]}
           /\ Len(RemoveAt(s, i)) = Len(s) - 1
<1>0. DOMAIN s = 1..Len(s) /\ Len(s) \in Nat /\ i \in 1..Len(s) /\ \A j \in 1..Len(s) : s[j] \in Update
  BY LenProperties, ElementOfSeq
<1>1. PICK a, b, t : a = SubSeq(s, 1, i - 1) /\ b = SubSeq(s, i + 1, Len(s)) /\ t = RemoveAt(s, i)
  OBVIOUS
<1>2. /\ a \in Seq(Update) /\ Len(a) = i - 1
      /\ \A j \in 1..(i - 1) : a[j] = s[j]
  <2>1. \A j \in 1..(i - 1) : s[j] \in Update
    BY <1>0
  <2>2. /\ SubSeq(s, 1, i - 1) \in Seq(Update)
        /\ Len(SubSeq(s, 1, i - 1)) = IF 1 <= i - 1 THEN i - 1 - 1 + 1 ELSE 0
        /\ \A j \in 1..(i - 1 - 1 + 1) : SubSeq(s, 1, i - 1)[j] = s[1 + j - 1]
    BY <1>0, <2>1, SubSeqProperties
  <2>. QED BY <1>0, <1>1, <2>2
<1>3. /\ b \in Seq(Update) /\ Len(b) = Len(s) - i
      /\ \A j \in 1..(Len(s) - i) : b[j] = s[i + j]
  <2>1. \A j \in (i + 1)..Len(s) : s[j] \in Update
    BY <1>0
  <2>2. /\ SubSeq(s, i + 1, Len(s)) \in Seq(Update)
        /\ Len(SubSeq(s, i + 1, Len(s))) = IF i + 1 <= Len(s) THEN Len(s) - (i + 1) + 1 ELSE 0
        /\ \A j \in 1..(Len(s) - (i + 1) + 1) : SubSeq(s, i + 1, Len(s))[j] = s[i + 1 + j - 1]
    <3>1. PICK m, n : m = i + 1 /\ n = Len(s)
      OBVIOUS
    <3>2. m \in Int /\ n \in Int /\ \A j \in m..n : s[j] \in Update
      BY <1>0, <2>1, <3>1
    <3>3. /\ SubSeq(s, m, n) \in Seq(Update)
          /\ Len(SubSeq(s, m, n)) = IF m <= n THEN n - m + 1 ELSE 0
          /\ \A j \in 1..(n - m + 1) : SubSeq(s, m, n)[j] = s[m + j - 1]
      BY <3>2, SubSeqProperties
    <3>. QED BY <3>1, <3>3
  <2>3. Len(b) = Len(s) - i /\ b \in Seq(Update)
    BY <1>0, <1>1, <2>2
  <2>4. ASSUME NEW j \in 1..(Len(s) - i) PROVE b[j] = s[i + j]
    <3>1. j \in 1..(Len(s) - (i + 1) + 1) /\ i + 1 + j - 1 = i + j
      BY <1>0
    <3>. QED BY <1>1, <2>2, <3>1
  <2>. QED BY <2>3, <2>4
<1>4. t = a \o b
  BY <1>1 DEF RemoveAt
<1>5. /\ t \in Seq(Update) /\ Len(t) = Len(s) - 1
      /\ \A j \in 1..(Len(s) - 1) : t[j] = IF j < i THEN s[j] ELSE s[j + 1]
  <2>1. /\ t \in Seq(Update) /\ Len(t) = Len(a) + Len(b)
        /\ \A j \in 1..(Len(a) + Len(b)) : t[j] = IF j <= Len(a) THEN a[j] ELSE b[j - Len(a)]
    BY <1>2, <1>3, <1>4, ConcatProperties
  <2>2. Len(t) = Len(s) - 1
    BY <1>0, <1>2, <1>3, <2>1
  <2>3. ASSUME NEW j \in 1..(Len(s) - 1) PROVE t[j] = IF j < i THEN s[j] ELSE s[j + 1]
    <3>1. CASE j < i
      BY <1>0, <1>2, <1>3, <2>1, <3>1
    <3>2. CASE ~(j < i)
      <4>1. t[j] = b[j - (i - 1)]
        BY <1>0, <1>2, <1>3, <2>1, <3>2
      <4>2. j - (i - 1) \in 1..(Len(s) - i) /\ i + (j - (i - 1)) = j + 1
        BY <1>0, <3>2
      <4>3. b[j - (i - 1)] = s[i + (j - (i - 1))]
        BY <1>3, <4>2
      <4>. QED BY <3>2, <4>1, <4>2, <4>3
    <3>. QED BY <3>1, <3>2
  <2>. QED BY <2>1, <2>2, <2>3
<1>6. DOMAIN t = 1..(Len(s) - 1)
  BY <1>5, LenProperties
<1>a. PICK n \in Nat : n = Len(s)
  BY <1>0
<1>b. /\ i \in Int /\ \A m, l \in 1..n : s[m] = s[l] => m = l
      /\ \A j \in 1..(n - 1) : t[j] = IF j < i THEN s[j] ELSE s[j + 1]
  BY <1>0, <1>5, <1>a DEF Distinct
<1>c. ASSUME NEW j \in 1..(n - 1)
      PROVE  \E p \in 1..n : p = (IF j < i THEN j ELSE j + 1) /\ t[j] = s[p] /\ p # i
  <2>1. CASE j < i
    BY <1>b, <2>1
  <2>2. CASE ~(j < i)
    BY <1>b, <2>2
  <2>. QED BY <2>1, <2>2
<1>7. Distinct(t)
  <2>. SUFFICES ASSUME NEW j \in 1..(n - 1), NEW k \in 1..(n - 1), t[j] = t[k] PROVE j = k
    BY <1>6, <1>a DEF Distinct
  <2>1. PICK p \in 1..n : p = (IF j < i THEN j ELSE j + 1) /\ t[j] = s[p]
    BY <1>c
  <2>2. PICK q \in 1..n : q = (IF k < i THEN k ELSE k + 1) /\ t[k] = s[q]
    BY <1>c
  <2>3. p = q
    BY <1>b, <2>1, <2>2
  <2>. QED BY <1>b, <2>1, <2>2, <2>3
<1>8. ToSet(t) \subseteq ToSet(s) \ {s[i]}
  <2>. SUFFICES ASSUME NEW j \in 1..(n - 1) PROVE t[j] \in ToSet(s) /\ t[j] # s[i]
    BY <1>6, <1>a DEF ToSet
  <2>1. PICK p \in 1..n : t[j] = s[p] /\ p # i
    BY <1>c
  <2>. QED BY <1>0, <1>a, <1>b, <2>1 DEF ToSet
<1>. QED BY <1>1, <1>5, <1>7, <1>8
----------------------------------------------------------------------------
(* The invariant *)

\* What the bot is told of the world outside.
WorldOK ==
    /\ {snapshotOnly, configured, database} \subseteq BOOLEAN
    /\ now \in 0..MaxTime /\ lastDown \in -1..now
    /\ scans \in Seq(Scan) /\ quants \in Seq(SUBSET Member)
    /\ scans # <<>> => configured
    /\ ~database => lastDown = now
    /\ \A i \in DOMAIN scans : scans[i].at <= now

Cache == [n : Int, age : Int, at : Nat]

\* What a loaded scan says of the database: whatever was published after it came
\* after its load, and its age is the one it had then, unless the database was
\* down since.
KnownScan(s) ==
    s.n >= 1 =>
        /\ \A i \in DOMAIN scans : i > s.n => scans[i].at >= s.at \/ lastDown >= scans[i].at
        /\ s.age = Session(s.at) - scans[s.n].session \/ lastDown >= s.at

CacheOK ==
    /\ scan \in Cache /\ scan.n \in -1..Len(scans) /\ scan.at <= now /\ KnownScan(scan)
    /\ quant \in Cache /\ quant.n \in -1..Len(quants)
    /\ alive => scan.n >= 0 /\ quant.n >= 0
    /\ ~alive => scan.n = -1 /\ quant.n = -1

\* A remembered update was handled by this process or is being handled.
DeliveryOK ==
    /\ alive \in BOOLEAN
    /\ seen \in Seq(Update) /\ Distinct(seen) /\ Len(seen) <= Remembered
    /\ telegram \in [Update -> {"none", "sent", "acknowledged"}]
    /\ running \in [Update -> 0..MaxHandlers]
    /\ \A u \in Update : ~alive => running[u] = 0
    /\ \A u \in Update : u \in ToSet(seen) => u \in handled \/ running[u] > 0

BotOK == WorldOK /\ CacheOK /\ DeliveryOK

LEMMA BotTypes ==
    ASSUME BotOK
    PROVE  /\ TypeOK
           /\ now \in Nat /\ lastDown \in Int /\ Len(scans) \in Nat /\ DOMAIN scans = 1..Len(scans)
           /\ Len(quants) \in Nat /\ DOMAIN quants = 1..Len(quants)
<1>1. /\ Len(scans) \in Nat /\ DOMAIN scans = 1..Len(scans)
      /\ Len(quants) \in Nat /\ DOMAIN quants = 1..Len(quants)
  BY LenProperties DEF BotOK, WorldOK
<1>2. now \in Nat /\ lastDown \in Int
  BY ConstantsAssumption DEF BotOK, WorldOK
<1>3. alive <=> scan.n >= 0 /\ quant.n >= 0
  BY DEF BotOK, CacheOK
<1>4. ToSet(seen) \subseteq Update
  <2>1. \A i \in DOMAIN seen : seen[i] \in Update
    BY LenProperties, ElementOfSeq DEF BotOK, DeliveryOK
  <2>. QED BY <2>1 DEF ToSet
<1>5. {snapshotOnly, configured, database, alive} \subseteq BOOLEAN
  BY DEF BotOK, WorldOK, DeliveryOK
<1>6. TypeOK
  BY <1>3, <1>4, <1>5 DEF BotOK, WorldOK, CacheOK, DeliveryOK, TypeOK
<1>. QED BY <1>1, <1>2, <1>6

----------------------------------------------------------------------------
(* Sessions *)

\* A time belongs to the session that its division gives.
LEMMA SessionBounds ==
    ASSUME NEW t \in Nat
    PROVE  /\ Session(t) \in Nat
           /\ SessionLength * Session(t) <= t /\ t < SessionLength * Session(t) + SessionLength
<1>1. SessionLength \in Nat /\ SessionLength > 0
  BY ConstantsAssumption
<1>. QED BY <1>1 DEF Session

LEMMA SessionsAreOrdered ==
    ASSUME NEW t \in Nat, NEW u \in Nat, t <= u
    PROVE  Session(t) <= Session(u)
<1>0. /\ SessionLength \in Nat /\ SessionLength > 0
      /\ Session(t) \in Nat /\ Session(u) \in Nat
  BY ConstantsAssumption, SessionBounds
<1>1. PICK L \in Nat, p \in Nat, q \in Nat : L = SessionLength /\ p = Session(t) /\ q = Session(u) /\ L > 0
  BY <1>0
<1>2. L * p <= t /\ t < L * p + L /\ L * q <= u /\ u < L * q + L
  BY <1>1, SessionBounds
<1>3. ASSUME p >= q + 1 PROVE FALSE
  <2>1. L * p >= L * (q + 1)
    BY <1>1, <1>3
  <2>2. L * (q + 1) = L * q + L
    BY <1>1
  <2>. QED BY <1>2, <2>1, <2>2
<1>. QED BY <1>1, <1>3

\* A session that is not too old at a time ends after it.
LEMMA TooOldLater ==
    ASSUME NEW t \in Nat, NEW s \in Int, Session(t) <= s + StaleAfter
    PROVE  t < (s + StaleAfter + 1) * SessionLength
<1>1. PICK L \in Nat, q \in Nat : L = SessionLength /\ q = Session(t) /\ L > 0
  BY ConstantsAssumption, SessionBounds
<1>2. PICK k \in Nat : k = s + StaleAfter
  BY <1>1, ConstantsAssumption
<1>3. t < L * q + L
  BY <1>1, SessionBounds
<1>4. L * q <= L * k
  BY <1>1, <1>2
<1>5. (k + 1) * L = L * k + L
  BY <1>1, <1>2
<1>. QED BY <1>1, <1>2, <1>3, <1>4, <1>5
----------------------------------------------------------------------------
(* The two managers *)

\* What a call of the scan manager gives, whether the database answers or not.
LEMMA GivenScan ==
    ASSUME BotOK, NEW refresh \in BOOLEAN, NEW s, s = GetScan(refresh)
    PROVE  /\ s \in Cache /\ s.n \in 0..Len(scans) /\ s.n >= scan.n
           /\ s.at <= now /\ now - s.at < Ttl /\ KnownScan(s)
<1>0. /\ now \in Nat /\ lastDown \in Int /\ Len(scans) \in Nat /\ DOMAIN scans = 1..Len(scans)
      /\ scan \in Cache /\ scan.n \in -1..Len(scans) /\ scan.at <= now /\ KnownScan(scan)
      /\ Ttl \in Nat /\ Ttl > 0
  BY BotTypes, ConstantsAssumption DEF BotOK, CacheOK
<1>1. \A i \in DOMAIN scans : scans[i].at \in Nat /\ scans[i].at <= now /\ scans[i].session \in Nat
  <2>. SUFFICES ASSUME NEW i \in DOMAIN scans
                PROVE  scans[i].at \in Nat /\ scans[i].at <= now /\ scans[i].session \in Nat
    OBVIOUS
  <2>1. scans[i] \in Scan
    BY <1>0, ElementOfSeq DEF BotOK, WorldOK
  <2>2. Session(MaxTime) \in Nat /\ MaxTime \in Nat
    BY ConstantsAssumption, SessionBounds
  <2>. QED BY <2>1, <2>2 DEF Scan, BotOK, WorldOK
<1>2. CASE s = scan /\ Cached(scan)
  BY <1>0, <1>2 DEF Cached, Cache
<1>3. CASE /\ s = [n |-> Len(scans), age |-> Session(now) - Last(scans).session, at |-> now]
           /\ scans # <<>>
  <2>1. PICK k \in Nat : k = Len(scans) /\ k >= 1
    BY <1>0, <1>3, EmptySeq DEF BotOK, WorldOK
  <2>2. Last(scans) = scans[k]
    BY <2>1 DEF Last
  <2>a. Session(now) \in Nat
    BY <1>0, SessionBounds
  <2>b. k \in DOMAIN scans
    BY <1>0, <2>1
  <2>c. scans[k].session \in Nat
    BY <1>1, <2>b
  <2>3. PICK age \in Int : age = Session(now) - scans[k].session
    BY <2>a, <2>c
  <2>4. s = [n |-> k, age |-> age, at |-> now]
    BY <1>3, <2>1, <2>2, <2>3
  <2>5. s \in Cache /\ s.n \in 0..Len(scans) /\ s.n >= scan.n /\ s.at <= now /\ now - s.at < Ttl
    BY <1>0, <2>1, <2>4 DEF Cache
  <2>6. KnownScan(s)
    BY <1>0, <2>1, <2>3, <2>4 DEF KnownScan
  <2>. QED BY <2>5, <2>6
<1>4. CASE s = [scan EXCEPT !.at = now] /\ ~Reachable /\ scan.n >= 0
  <2>1. s \in Cache /\ s.n = scan.n /\ s.at = now
    BY <1>0, <1>4 DEF Cache
  <2>2. ASSUME s.n >= 1 PROVE lastDown = now
    <3>1. scans # <<>>
      BY <1>0, <2>1, <2>2, EmptySeq
    <3>2. ~database
      BY <1>4, <3>1 DEF BotOK, WorldOK, Reachable
    <3>. QED BY <3>2 DEF BotOK, WorldOK
  <2>3. KnownScan(s)
    BY <1>0, <1>1, <2>1, <2>2 DEF KnownScan
  <2>. QED BY <1>0, <1>4, <2>1, <2>3
<1>5. CASE s = Unavailable /\ scan.n <= 0
  BY <1>0, <1>5 DEF Unavailable, Cache, KnownScan
<1>6. ASSUME ~(Reachable /\ scans # <<>>), ~(~Reachable /\ scan.n >= 0) PROVE scan.n <= 0
  <2>1. CASE Reachable
    <3>1. Len(scans) = 0
      BY <1>6, <2>1
    <3>. QED BY <1>0, <3>1
  <2>2. CASE ~Reachable
    BY <1>0, <1>6, <2>2 DEF Cache
  <2>. QED BY <2>1, <2>2
<1>. QED BY <1>2, <1>3, <1>4, <1>5, <1>6 DEF GetScan

\* The quant manager gives up what it had only when it cannot ask.
LEMMA GivenQuant ==
    ASSUME BotOK, NEW refresh \in BOOLEAN, NEW q, q = GetQuant(refresh)
    PROVE  /\ q \in Cache /\ q.n \in 0..Len(quants)
           /\ q.n < quant.n => ~Reachable
<1>0. /\ now \in Nat /\ Len(quants) \in Nat /\ quant \in Cache /\ quant.n \in -1..Len(quants)
  BY BotTypes DEF BotOK, CacheOK
<1>1. CASE q = quant /\ Cached(quant)
  BY <1>0, <1>1 DEF Cached, Cache
<1>2. CASE q = [n |-> Len(quants), age |-> 0, at |-> now]
  BY <1>0, <1>2 DEF Cache
<1>3. CASE q = Unavailable /\ ~(Reachable /\ quants # <<>>)
  <2>1. q \in Cache /\ q.n = 0
    BY <1>0, <1>3 DEF Unavailable, Cache
  <2>2. CASE ~Reachable
    BY <1>0, <2>1, <2>2
  <2>3. CASE quants = <<>>
    <3>1. Len(quants) = 0
      BY <2>3
    <3>. QED BY <1>0, <2>1, <3>1
  <2>. QED BY <1>3, <2>2, <2>3
<1>. QED BY <1>1, <1>2, <1>3 DEF GetQuant

\* A scan that still shows rows is at most one interval behind, or as old as the
\* last failure of the database.
LEMMA ServedInTime ==
    ASSUME BotOK, NEW s \in Cache, s.n \in 1..Len(scans), s.at <= now, now - s.at < Ttl,
           KnownScan(s), s.age <= StaleAfter
    PROVE  LET tooOld == (scans[s.n].session + StaleAfter + 1) * SessionLength IN
           /\ \A i \in DOMAIN scans : i > s.n =>
                 now - scans[i].at < Ttl \/ lastDown >= scans[i].at
           /\ now - tooOld < Ttl \/ lastDown >= tooOld
<1>0. /\ now \in Nat /\ lastDown \in Int /\ DOMAIN scans = 1..Len(scans)
      /\ Ttl \in Nat /\ StaleAfter \in Nat /\ SessionLength \in Nat
      /\ s.at \in Nat /\ s.n \in DOMAIN scans /\ s.n >= 1 /\ s.age \in Int
  BY BotTypes, ConstantsAssumption DEF Cache
<1>1. \A i \in DOMAIN scans : scans[i].at \in Nat /\ scans[i].session \in Nat
  <2>. SUFFICES ASSUME NEW i \in DOMAIN scans PROVE scans[i].at \in Nat /\ scans[i].session \in Nat
    OBVIOUS
  <2>1. scans[i] \in Scan
    BY <1>0, ElementOfSeq DEF BotOK, WorldOK
  <2>2. Session(MaxTime) \in Nat /\ MaxTime \in Nat
    BY ConstantsAssumption, SessionBounds
  <2>. QED BY <2>1, <2>2 DEF Scan
<1>2. \A i \in DOMAIN scans : i > s.n => now - scans[i].at < Ttl \/ lastDown >= scans[i].at
  BY <1>0, <1>1 DEF KnownScan
<1>3. PICK ses \in Nat : ses = scans[s.n].session
  BY <1>0, <1>1
<1>4. PICK tooOld \in Int : tooOld = (ses + StaleAfter + 1) * SessionLength
  BY <1>0
<1>5. CASE s.age = Session(s.at) - ses
  <2>a. Session(s.at) \in Nat
    BY <1>0, SessionBounds
  <2>1. Session(s.at) <= ses + StaleAfter
    BY <1>0, <1>5, <2>a
  <2>2. s.at < tooOld
    BY <1>0, <1>4, <2>1, TooOldLater
  <2>3. now - tooOld < Ttl
    BY <1>0, <1>4, <2>2
  <2>. QED BY <1>2, <1>3, <1>4, <2>3
<1>6. CASE lastDown >= s.at
  <2>1. now - tooOld < Ttl \/ lastDown >= tooOld
    BY <1>0, <1>6
  <2>. QED BY <1>2, <1>3, <1>4, <2>1
<1>. QED BY <1>0, <1>3, <1>5, <1>6 DEF KnownScan

----------------------------------------------------------------------------
(* What a handler answers *)

\* The replies keep to the snapshots they were given: rows and charts come with
\* the scan that shows them, ranks with their quant snapshot, and a live
\* calculation only where the deployment allows one.
BackedBy(e, x) ==
    /\ x.quant \in {quant, e.quant, GetQuant(TRUE)}
    /\ x.scan \in {scan, e.scan, GetScan(TRUE)}
    /\ x.kind # "ok" /\ (snapshotOnly => x.kind # "live")
    /\ x.kind = "rows" => x.scan = e.scan /\ ~Stale(e.scan)
    /\ x.kind = "chart" => x.scan = e.scan /\ e.scan.n > 0
    /\ x.kind = "quant" => x.quant = e.quant /\ e.quant.n # 0

LEMMA RepliesAreBacked ==
    ASSUME NEW t, NEW stored \in BOOLEAN, NEW e, NEW r \in Replies(t, stored, e)
    PROVE  BackedBy(e, r)
<1> USE DEF BackedBy
<1>1. \A w : Candidates(e.scan, w) # {} => ~Stale(e.scan)
  BY DEF Candidates
<1>2. t \in Ranked(e.quant) => e.quant.n # 0
  BY DEF Ranked
<1>3. ASSUME NEW kind, kind \in {"rows", "quant", "unavailable"},
             kind = "rows" => ~Stale(e.scan), kind = "quant" => e.quant.n # 0
      PROVE  BackedBy(e, TickerEvidence(kind, stored, e))
  BY <1>3 DEF TickerEvidence, FullAnalysis, Reply
<1>4. BackedBy(e, usage)
  BY DEF usage, Reply
<1>5. BackedBy(e, history_command(t))
  BY DEF history_command, Reply, Either
<1>6. BackedBy(e, events_command(stored))
  BY DEF events_command, Reply, Either
<1>7. BackedBy(e, portfolio_command(stored))
  BY DEF portfolio_command, Reply, Either
<1>8. BackedBy(e, ta_command(t, stored, e))
  BY <1>1, <1>3 DEF ta_command, Either
<1>9. BackedBy(e, range_command(t, stored, e))
  BY <1>1, <1>3 DEF range_command, Either
<1>10. BackedBy(e, fund_command(t, stored, e))
  BY <1>2, <1>3 DEF fund_command, Either
<1>11. BackedBy(e, decision_command(t, stored, e))
  BY <1>1, <1>2, <1>3 DEF decision_command, Either
<1>12. BackedBy(e, quant_command(t, e))
  BY <1>2 DEF quant_command, Reply
<1>13. BackedBy(e, evidence_command(t, e))
  BY <1>2 DEF evidence_command, Reply, Either
<1>14. BackedBy(e, chart_command(stored, e))
  BY DEF chart_command, Reply, Either, FullAnalysis
<1>15. BackedBy(e, scan_command({t}, e))
  BY <1>1 DEF scan_command, Reply, Either
<1>16. BackedBy(e, market_command(e))
  BY <1>1 DEF market_command, Reply, Either
<1>17. BackedBy(e, status_command)
  BY DEF status_command, Reply
<1>18. BackedBy(e, r)
  <2>. HIDE DEF BackedBy
  <2>. QED BY <1>4, <1>5, <1>6, <1>7, <1>8, <1>9, <1>10, <1>11, <1>12, <1>13, <1>14, <1>15, <1>16,
           <1>17 DEF Replies
<1>. QED BY <1>18

----------------------------------------------------------------------------
(* The caches *)

\* A manager's answer, or what an alive process already had, is a cache that fits
\* the database it was read from.
LEMMA Served ==
    ASSUME BotOK, UNCHANGED world, alive' = TRUE,
           \/ scan' = scan /\ alive
           \/ scan' = GetScan(FALSE) \/ scan' = GetScan(TRUE),
           \/ quant' = quant /\ alive
           \/ quant' = GetQuant(FALSE) \/ quant' = GetQuant(TRUE)
    PROVE  /\ WorldOK' /\ CacheOK'
           /\ scan'.n >= scan.n /\ (quant'.n < quant.n => ~Reachable)
<1>1. PICK s, q : s = scan' /\ q = quant'
  OBVIOUS
<1>2. WorldOK'
  BY DEF BotOK, WorldOK, world
<1>3. /\ scan.n \in Int /\ quant.n \in Int /\ Len(scans) \in Nat /\ Len(quants) \in Nat
      /\ scan.n \in -1..Len(scans) /\ quant.n \in -1..Len(quants)
      /\ scan.at <= now /\ KnownScan(scan) /\ scan \in Cache /\ quant \in Cache
      /\ alive => scan.n >= 0 /\ quant.n >= 0
  BY BotTypes DEF BotOK, CacheOK, Cache
<1>4. s \in Cache /\ s.n \in 0..Len(scans) /\ s.n >= scan.n /\ s.at <= now /\ KnownScan(s)
  <2>1. CASE s = scan /\ alive
    BY <1>3, <2>1
  <2>2. CASE s = GetScan(FALSE)
    BY <2>2, GivenScan
  <2>3. CASE s = GetScan(TRUE)
    BY <2>3, GivenScan
  <2>. QED BY <1>1, <2>1, <2>2, <2>3
<1>5. q \in Cache /\ q.n \in 0..Len(quants) /\ (q.n < quant.n => ~Reachable)
  <2>1. CASE q = quant /\ alive
    BY <1>3, <2>1
  <2>2. CASE q = GetQuant(FALSE)
    BY <2>2, GivenQuant
  <2>3. CASE q = GetQuant(TRUE)
    BY <2>3, GivenQuant
  <2>. QED BY <1>1, <2>1, <2>2, <2>3
<1>6. KnownScan(s)'
  BY <1>4 DEF KnownScan, world
<1>7. CacheOK'
  BY <1>1, <1>3, <1>4, <1>5, <1>6 DEF CacheOK, KnownScan, world
<1>. QED BY <1>1, <1>2, <1>4, <1>5, <1>7

\* What is published later comes after every load, and time does not run back.
LEMMA WorldMoves ==
    ASSUME BotOK, WorldOK', UNCHANGED caches, UNCHANGED delivery,
           now' >= now, lastDown' >= lastDown,
           Len(quants') >= Len(quants), Len(scans') >= Len(scans),
           \A i \in DOMAIN scans : scans'[i] = scans[i],
           \A i \in DOMAIN scans' : i \notin DOMAIN scans => scans'[i].at = now
    PROVE  BotOK'
<1>0. /\ now \in Nat /\ lastDown \in Int /\ Len(scans) \in Nat /\ DOMAIN scans = 1..Len(scans)
      /\ Len(quants) \in Nat
      /\ now' \in Nat /\ lastDown' \in Int
      /\ Len(scans') \in Nat /\ DOMAIN scans' = 1..Len(scans') /\ Len(quants') \in Nat
  <2>1. now' \in Nat /\ lastDown' \in Int
    BY ConstantsAssumption DEF WorldOK
  <2>2. /\ Len(scans') \in Nat /\ DOMAIN scans' = 1..Len(scans')
        /\ Len(quants') \in Nat
    BY LenProperties DEF WorldOK
  <2>. QED BY <2>1, <2>2, BotTypes
<1>1. PICK s : s = scan
  OBVIOUS
<1>2. s \in Cache /\ s.n \in -1..Len(scans) /\ s.at <= now /\ KnownScan(s)
  BY <1>1 DEF BotOK, CacheOK
<1>3. \A i \in DOMAIN scans : scans[i].at \in Int /\ scans[i].session \in Int
  <2>. SUFFICES ASSUME NEW i \in DOMAIN scans PROVE scans[i].at \in Int /\ scans[i].session \in Int
    OBVIOUS
  <2>1. scans[i] \in Scan
    BY <1>0, ElementOfSeq DEF BotOK, WorldOK
  <2>2. Session(MaxTime) \in Nat /\ MaxTime \in Nat
    BY ConstantsAssumption, SessionBounds
  <2>. QED BY <2>1, <2>2 DEF Scan
<1>4. ASSUME s.n >= 1
      PROVE  /\ \A i \in DOMAIN scans' : i > s.n => scans'[i].at >= s.at \/ lastDown' >= scans'[i].at
             /\ s.age = Session(s.at) - scans'[s.n].session \/ lastDown' >= s.at
  <2>1. s.n \in DOMAIN scans /\ s.n \in Int /\ s.at \in Int
    BY <1>0, <1>2, <1>4 DEF Cache
  <2>2. ASSUME NEW i \in DOMAIN scans', i > s.n
        PROVE  scans'[i].at >= s.at \/ lastDown' >= scans'[i].at
    <3>1. CASE i \in DOMAIN scans
      BY <1>0, <1>2, <1>3, <1>4, <2>1, <2>2, <3>1 DEF KnownScan
    <3>2. CASE i \notin DOMAIN scans
      BY <1>0, <1>2, <2>1, <2>2, <3>2
    <3>. QED BY <3>1, <3>2
  <2>3. s.age = Session(s.at) - scans[s.n].session \/ lastDown >= s.at
    BY <1>2, <1>4 DEF KnownScan
  <2>4. scans'[s.n].session = scans[s.n].session
    BY <2>1
  <2>. QED BY <1>0, <2>1, <2>2, <2>3, <2>4
<1>5. KnownScan(scan)'
  BY <1>1, <1>4 DEF KnownScan, caches
<1>6. CacheOK'
  BY <1>0, <1>1, <1>2, <1>5 DEF BotOK, CacheOK, Cache, caches, delivery
<1>7. DeliveryOK'
  BY DEF BotOK, DeliveryOK, delivery
<1>. QED BY <1>6, <1>7 DEF BotOK

----------------------------------------------------------------------------
(* The world outside *)

LEMMA ScanPublishedStep == BotOK /\ ScanPublished => BotOK'
<1> SUFFICES ASSUME BotOK, ScanPublished PROVE BotOK'
  OBVIOUS
<1>0. /\ now \in Nat /\ lastDown \in Int /\ Len(scans) \in Nat /\ DOMAIN scans = 1..Len(scans)
  BY BotTypes
<1>1. PICK x : /\ scans' = Append(scans, x) /\ x.at = now
               /\ x \in [session : {Session(now)}, mode : {"PRIMARY", "DEGRADED"},
                         rows : SUBSET Member, at : {now}]
  <2>1. PICK c \in Content : scans' = Append(scans, [session |-> Session(now), mode |-> c.mode,
                                                     rows |-> c.rows, at |-> now])
    BY DEF ScanPublished
  <2>2. c \in [mode : {"PRIMARY", "DEGRADED"}, rows : SUBSET Member]
    BY ConstantsAssumption
  <2>. QED BY <2>1, <2>2
<1>2. x \in Scan
  <2>1. MaxTime \in Nat /\ now \in Nat /\ now <= MaxTime
    BY <1>0, ConstantsAssumption DEF BotOK, WorldOK
  <2>2. Session(now) \in Nat /\ Session(MaxTime) \in Nat /\ Session(now) <= Session(MaxTime)
    BY <2>1, SessionBounds, SessionsAreOrdered
  <2>3. Session(now) \in 0..Session(MaxTime) /\ now \in 0..MaxTime
    BY <2>1, <2>2
  <2>. QED BY <1>1, <2>3 DEF Scan
<1>3. /\ scans' \in Seq(Scan) /\ Len(scans') = Len(scans) + 1
      /\ \A i \in DOMAIN scans : scans'[i] = scans[i]
      /\ scans'[Len(scans) + 1] = x
      /\ DOMAIN scans' = DOMAIN scans \cup {Len(scans) + 1}
  BY <1>1, <1>2, Appended DEF BotOK, WorldOK
<1>4. /\ UNCHANGED <<snapshotOnly, configured, now, database, lastDown, quants, caches, delivery>>
      /\ configured
  BY DEF ScanPublished, Reachable
<1>5. \A i \in DOMAIN scans' : scans'[i].at <= now
  BY <1>0, <1>1, <1>3 DEF BotOK, WorldOK
<1>6. WorldOK'
  BY <1>3, <1>4, <1>5 DEF BotOK, WorldOK
<1>7. Len(quants') >= Len(quants)
  BY <1>4, BotTypes
<1>8. \A i \in DOMAIN scans' : i \notin DOMAIN scans => scans'[i].at = now
  BY <1>1, <1>3
<1>. QED BY <1>0, <1>3, <1>4, <1>6, <1>7, <1>8, WorldMoves

LEMMA QuantPublishedStep == BotOK /\ QuantPublished => BotOK'
<1> SUFFICES ASSUME BotOK, QuantPublished PROVE BotOK'
  OBVIOUS
<1>0. now \in Nat /\ lastDown \in Int /\ Len(scans) \in Nat /\ Len(quants) \in Nat
  BY BotTypes
<1>1. PICK rows \in SUBSET Member : quants' = Append(quants, rows)
  BY ConstantsAssumption DEF QuantPublished
<1>2. quants' \in Seq(SUBSET Member) /\ Len(quants') = Len(quants) + 1
  BY <1>1, Appended DEF BotOK, WorldOK
<1>3. UNCHANGED <<snapshotOnly, configured, now, database, lastDown, scans, caches, delivery>>
  BY DEF QuantPublished
<1>4. WorldOK'
  BY <1>2, <1>3 DEF BotOK, WorldOK
<1>. QED BY <1>0, <1>2, <1>3, <1>4, WorldMoves

LEMMA DatabaseChangesStep == BotOK /\ DatabaseChanges => BotOK'
<1> SUFFICES ASSUME BotOK, DatabaseChanges PROVE BotOK'
  OBVIOUS
<1>0. /\ now \in Nat /\ lastDown \in Int /\ Len(scans) \in Nat /\ Len(quants) \in Nat
      /\ lastDown \in -1..now
  BY BotTypes DEF BotOK, WorldOK
<1>1. /\ UNCHANGED <<snapshotOnly, configured, now, scans, quants, caches, delivery>>
      /\ database' = ~database /\ lastDown' = now
  BY DEF DatabaseChanges
<1>2. WorldOK'
  BY <1>0, <1>1 DEF BotOK, WorldOK
<1>. QED BY <1>0, <1>1, <1>2, WorldMoves

LEMMA TickStep == BotOK /\ Tick => BotOK'
<1> SUFFICES ASSUME BotOK, Tick PROVE BotOK'
  OBVIOUS
<1>0. /\ now \in Nat /\ lastDown \in Int /\ Len(scans) \in Nat /\ Len(quants) \in Nat
      /\ lastDown \in -1..now /\ DOMAIN scans = 1..Len(scans) /\ MaxTime \in Nat
  BY BotTypes, ConstantsAssumption DEF BotOK, WorldOK
<1>1. /\ UNCHANGED <<snapshotOnly, configured, database, scans, quants, caches, delivery>>
      /\ now < MaxTime /\ now' = now + 1
      /\ lastDown' = IF database THEN lastDown ELSE now'
  BY DEF Tick
<1>2. \A i \in DOMAIN scans : scans[i].at <= now + 1
  <2>. SUFFICES ASSUME NEW i \in DOMAIN scans PROVE scans[i].at <= now + 1
    OBVIOUS
  <2>1. scans[i] \in Scan /\ scans[i].at <= now
    BY <1>0, ElementOfSeq DEF BotOK, WorldOK
  <2>2. scans[i].at \in Nat
    BY <1>0, <2>1 DEF Scan
  <2>. QED BY <1>0, <2>1, <2>2
<1>3. now' \in 0..MaxTime /\ lastDown' \in -1..now' /\ (~database' => lastDown' = now')
  BY <1>0, <1>1
<1>4. WorldOK'
  BY <1>1, <1>2, <1>3 DEF BotOK, WorldOK
<1>. QED BY <1>0, <1>1, <1>3, <1>4, WorldMoves

----------------------------------------------------------------------------
(* The process and its webhook *)

LEMMA StartProcessStep ==
    BotOK /\ StartProcess => BotOK'
<1> SUFFICES ASSUME BotOK, StartProcess PROVE BotOK'
  OBVIOUS
<1>1. WorldOK' /\ CacheOK'
  BY Served DEF StartProcess
<1>2. DeliveryOK'
  BY DEF StartProcess, BotOK, DeliveryOK
<1>. QED BY <1>1, <1>2 DEF BotOK

\* Nothing of a process is left when it stops.
LEMMA ProcessDiesStep == BotOK /\ ProcessDies => BotOK'
<1> SUFFICES ASSUME BotOK, ProcessDies PROVE BotOK'
  OBVIOUS
<1>0. Len(scans) \in Nat /\ Len(quants) \in Nat /\ now \in Nat
  BY BotTypes
<1>1. WorldOK'
  BY DEF ProcessDies, world, BotOK, WorldOK
<1>2. scan' = NotLoaded /\ quant' = NotLoaded /\ alive' = FALSE /\ UNCHANGED world
  BY DEF ProcessDies
<1>3. NotLoaded \in Cache /\ NotLoaded.n = -1 /\ NotLoaded.at = 0
  BY DEF NotLoaded, Cache
<1>4. KnownScan(scan)'
  BY <1>2, <1>3 DEF KnownScan
<1>5. CacheOK'
  BY <1>0, <1>2, <1>3, <1>4 DEF CacheOK, world
<1>6. seen' \in Seq(Update) /\ Distinct(seen') /\ Len(seen') <= Remembered /\ ToSet(seen') = {}
  <2>1. seen' = <<>>
    BY DEF ProcessDies
  <2>. QED BY <2>1, ConstantsAssumption DEF Distinct, ToSet
<1>7. running' = [u \in Update |-> 0] /\ telegram' = telegram
  BY DEF ProcessDies
<1>8. running' \in [Update -> 0..MaxHandlers] /\ \A u \in Update : running'[u] = 0
  BY <1>7, ConstantsAssumption
<1>9. DeliveryOK'
  BY <1>2, <1>6, <1>7, <1>8 DEF BotOK, DeliveryOK
<1>. QED BY <1>1, <1>5, <1>9 DEF BotOK

\* Delivery steps that leave the caches and the process alone.
LEMMA CachesStay ==
    ASSUME BotOK, UNCHANGED <<world, caches, alive>>, DeliveryOK'
    PROVE  BotOK'
<1>1. WorldOK'
  BY DEF BotOK, WorldOK, world
<1>2. CacheOK'
  BY DEF BotOK, CacheOK, KnownScan, world, caches
<1>. QED BY <1>1, <1>2 DEF BotOK

LEMMA UserSendsStep ==
    ASSUME BotOK, NEW u \in Update, UserSends(u)
    PROVE  BotOK'
<1>1. DeliveryOK'
  BY DEF UserSends, BotOK, DeliveryOK
<1>. QED BY <1>1, CachesStay DEF UserSends

\* A new update is remembered and its handler runs; the one forgotten for it was
\* taken, or will be delivered again.
LEMMA WebhookStep ==
    ASSUME BotOK, NEW u \in Update, telegram_webhook(u)
    PROVE  BotOK'
<1>0. DeliveryOK /\ alive
  BY DEF telegram_webhook, BotOK
<1>1. CASE u \in ToSet(seen)
  <2>1. DeliveryOK'
    BY <1>0, <1>1 DEF telegram_webhook, DeliveryOK
  <2>. QED BY <2>1, CachesStay DEF telegram_webhook
<1>2. CASE u \notin ToSet(seen)
  <2>1. PICK next : next = Append(seen, u)
    OBVIOUS
  <2>2. /\ next \in Seq(Update) /\ Distinct(next) /\ ToSet(next) = ToSet(seen) \cup {u}
        /\ next # <<>> /\ Len(next) = Len(seen) + 1
    BY <1>0, <1>2, <2>1, Remembering DEF DeliveryOK
  <2>3. /\ Tail(next) \in Seq(Update) /\ Distinct(Tail(next)) /\ ToSet(Tail(next)) \subseteq ToSet(next)
        /\ Len(Tail(next)) = Len(next) - 1
    BY <2>2, Evicting
  <2>4. seen' = IF Len(next) > Remembered THEN Tail(next) ELSE next
    BY <1>2, <2>1 DEF telegram_webhook
  <2>5. Len(seen) \in Nat /\ Remembered \in Nat /\ Len(seen) <= Remembered
    BY <1>0, LenProperties, ConstantsAssumption DEF DeliveryOK
  <2>6. /\ seen' \in Seq(Update) /\ Distinct(seen') /\ Len(seen') <= Remembered
        /\ ToSet(seen') \subseteq ToSet(seen) \cup {u}
    BY <2>2, <2>3, <2>4, <2>5
  <2>7. /\ running' = [running EXCEPT ![u] = @ + 1] /\ alive' = alive
        /\ telegram' = telegram /\ handled' = handled /\ running[u] < MaxHandlers
    BY <1>2 DEF telegram_webhook, MayRun
  <2>8. running' \in [Update -> 0..MaxHandlers] /\ running'[u] > 0
        /\ \A v \in Update \ {u} : running'[v] = running[v]
    BY <1>0, <2>7, ConstantsAssumption DEF DeliveryOK
  <2>9. \A v \in Update : v \in ToSet(seen') => v \in handled' \/ running'[v] > 0
    BY <1>0, <2>6, <2>7, <2>8 DEF DeliveryOK
  <2>10. DeliveryOK'
    BY <1>0, <2>6, <2>7, <2>8, <2>9 DEF DeliveryOK
  <2>. QED BY <2>10, CachesStay DEF telegram_webhook
<1>. QED BY <1>1, <1>2

\* An update whose request failed is forgotten: it will be delivered again.
LEMMA RaisesStep ==
    ASSUME BotOK, NEW u \in Update, ProcessUpdateRaises(u)
    PROVE  BotOK'
<1>0. DeliveryOK /\ running[u] > 0 /\ running[u] \in Nat /\ MaxHandlers \in Nat
  BY ConstantsAssumption DEF ProcessUpdateRaises, BotOK, DeliveryOK
<1>1. /\ running' = [running EXCEPT ![u] = @ - 1] /\ UNCHANGED <<world, caches, alive>>
      /\ UNCHANGED <<telegram, handled>>
  BY DEF ProcessUpdateRaises
<1>2. /\ running' \in [Update -> 0..MaxHandlers]
      /\ \A v \in Update \ {u} : running'[v] = running[v]
  BY <1>0, <1>1 DEF DeliveryOK
<1>3. /\ seen' \in Seq(Update) /\ Distinct(seen') /\ Len(seen') <= Remembered
      /\ ToSet(seen') \subseteq ToSet(seen) \ {u}
  <2>1. CASE u \in ToSet(seen)
    <3>1. \E k \in DOMAIN seen : seen[k] = u
      BY <2>1 DEF ToSet
    <3>2. PICK i : i = CHOOSE k \in DOMAIN seen : seen[k] = u
      OBVIOUS
    <3>3. i \in DOMAIN seen /\ seen[i] = u
      BY <3>1, <3>2
    <3>4. seen' = RemoveAt(seen, i)
      BY <2>1, <3>2 DEF ProcessUpdateRaises
    <3>5. /\ RemoveAt(seen, i) \in Seq(Update) /\ Distinct(RemoveAt(seen, i))
          /\ ToSet(RemoveAt(seen, i)) \subseteq ToSet(seen) \ {u}
          /\ Len(RemoveAt(seen, i)) = Len(seen) - 1
      BY <1>0, <3>3, Forgetting DEF DeliveryOK
    <3>6. Len(seen) \in Nat /\ Remembered \in Nat /\ Len(seen) <= Remembered
      BY <1>0, LenProperties, ConstantsAssumption DEF DeliveryOK
    <3>. QED BY <3>4, <3>5, <3>6
  <2>2. CASE u \notin ToSet(seen)
    <3>1. seen' = seen
      BY <2>2 DEF ProcessUpdateRaises
    <3>. QED BY <1>0, <2>2, <3>1 DEF DeliveryOK
  <2>. QED BY <2>1, <2>2
<1>4. \A v \in Update : v \in ToSet(seen') => v \in handled' \/ running'[v] > 0
  BY <1>0, <1>1, <1>2, <1>3 DEF DeliveryOK
<1>5. \A v \in Update : ~alive' => running'[v] = 0
  BY <1>0, <1>1 DEF DeliveryOK
<1>6. DeliveryOK'
  BY <1>0, <1>1, <1>2, <1>3, <1>4, <1>5 DEF DeliveryOK
<1>. QED BY <1>1, <1>6, CachesStay

----------------------------------------------------------------------------
(* The answers *)

\* An answer from the caches that a serving step leaves is sound when the scan it
\* shows was just given and is not stale, and the quant snapshot it ranks by is
\* one.
LEMMA AnsweredSoundly ==
    ASSUME BotOK, UNCHANGED world,
           snapshotOnly => answer' # "live",
           answer' \in {"rows", "ok"} => scan' = GetScan(FALSE) /\ ~Stale(scan)',
           answer' = "chart" => scan' = GetScan(FALSE) /\ scan'.n > 0,
           answer' \in {"quant", "ok"} => quant' = GetQuant(FALSE) /\ quant'.n # 0
    PROVE  AnswersAreSound'
<1>0. /\ Len(scans) \in Nat /\ DOMAIN scans = 1..Len(scans)
      /\ Len(quants) \in Nat /\ DOMAIN quants = 1..Len(quants) /\ StaleAfter \in Nat
  BY BotTypes, ConstantsAssumption
<1>1. PICK s, q : s = GetScan(FALSE) /\ q = GetQuant(FALSE)
  OBVIOUS
<1>2. /\ s \in Cache /\ s.n \in 0..Len(scans) /\ s.at <= now /\ now - s.at < Ttl /\ KnownScan(s)
  BY <1>1, GivenScan
<1>3. q \in Cache /\ q.n \in 0..Len(quants)
  BY <1>1, GivenQuant
<1>4. UNCHANGED <<snapshotOnly, now, lastDown, scans, quants>>
  BY DEF world
<1>5. ASSUME answer' \in {"rows", "ok"}
      PROVE  scan' = s /\ s.n \in 1..Len(scans) /\ s.age <= StaleAfter
  <2>1. scan' = s /\ ~(s.n = 0 \/ s.age > StaleAfter)
    BY <1>1, <1>5 DEF Stale
  <2>. QED BY <1>0, <1>2, <2>1 DEF Cache
<1>6. ASSUME answer' = "chart" PROVE scan' = s /\ s.n \in 1..Len(scans)
  <2>1. scan' = s /\ s.n > 0
    BY <1>1, <1>6
  <2>. QED BY <1>0, <1>2, <2>1 DEF Cache
<1>7. ASSUME answer' \in {"quant", "ok"} PROVE quant' = q /\ q.n \in 1..Len(quants)
  <2>1. quant' = q /\ q.n # 0
    BY <1>1, <1>7
  <2>. QED BY <1>0, <1>3, <2>1 DEF Cache
<1>8. AnswersRestOnSnapshots'
  <2>1. answer' \in {"rows", "chart", "ok"} => scan'.n \in DOMAIN scans'
    BY <1>0, <1>4, <1>5, <1>6
  <2>2. answer' \in {"quant", "ok"} => quant'.n \in DOMAIN quants'
    BY <1>0, <1>4, <1>7
  <2>. QED BY <1>4, <2>1, <2>2 DEF AnswersRestOnSnapshots
<1>9. LagIsBounded'
  <2>. SUFFICES ASSUME answer' \in {"rows", "ok"}
                PROVE  /\ \A i \in DOMAIN scans : i > s.n =>
                             now - scans[i].at < Ttl \/ lastDown >= scans[i].at
                       /\ LET tooOld == (scans[s.n].session + StaleAfter + 1) * SessionLength
                          IN  now - tooOld < Ttl \/ lastDown >= tooOld
    BY <1>4, <1>5 DEF LagIsBounded, TooOldFrom
  <2>. QED BY <1>2, <1>5, ServedInTime
<1>. QED BY <1>8, <1>9 DEF AnswersAreSound

\* A step that answers nobody claims nothing.
LEMMA SilenceIsSound ==
    ASSUME answer' = Silence
    PROVE  AnswersAreSound'
BY DEF Silence, AnswersAreSound, AnswersRestOnSnapshots, LagIsBounded

\* Whatever the handler answers, the caches it leaves fit the database, and what
\* it tells comes from them.
LEMMA HandlerReturnsStep ==
    ASSUME BotOK, NEW u \in Update, HandlerReturns(u)
    PROVE  /\ BotOK' /\ AnswersAreSound'
           /\ scan'.n >= scan.n /\ (quant'.n < quant.n => ~Reachable)
<1>0. /\ DeliveryOK /\ running[u] > 0 /\ running[u] \in Nat /\ alive = TRUE /\ MaxHandlers \in Nat
  BY ConstantsAssumption DEF HandlerReturns, BotOK, DeliveryOK
<1>1. /\ running' = [running EXCEPT ![u] = @ - 1] /\ handled' = handled \cup {u}
      /\ telegram' \in {telegram, [telegram EXCEPT ![u] = "acknowledged"]}
      /\ UNCHANGED world /\ alive' = alive /\ seen' = seen
  BY DEF HandlerReturns
<1>2. PICK t \in Member \cup {Other}, stored \in BOOLEAN :
          \E r \in Replies(t, stored, Evidence) :
             answer' = r.kind /\ quant' = r.quant /\ scan' = r.scan
  BY DEF HandlerReturns
<1>3. PICK e : e = Evidence
  OBVIOUS
<1>4. PICK r \in Replies(t, stored, e) : answer' = r.kind /\ quant' = r.quant /\ scan' = r.scan
  BY <1>2, <1>3
<1>5. e.quant = GetQuant(FALSE) /\ e.scan = GetScan(FALSE)
  BY <1>3 DEF Evidence
<1>6. /\ r.quant \in {quant, e.quant, GetQuant(TRUE)}
      /\ r.scan \in {scan, e.scan, GetScan(TRUE)}
      /\ r.kind # "ok" /\ (snapshotOnly => r.kind # "live")
      /\ r.kind = "rows" => r.scan = e.scan /\ ~Stale(e.scan)
      /\ r.kind = "chart" => r.scan = e.scan /\ e.scan.n > 0
      /\ r.kind = "quant" => r.quant = e.quant /\ e.quant.n # 0
  <2>1. BackedBy(e, r)
    BY RepliesAreBacked
  <2>. QED BY <2>1 DEF BackedBy
<1>7. /\ WorldOK' /\ CacheOK'
      /\ scan'.n >= scan.n /\ (quant'.n < quant.n => ~Reachable)
  BY <1>0, <1>1, <1>4, <1>5, <1>6, Served
<1>8. AnswersAreSound'
  <2>1. answer' \in {"rows", "ok"} => scan' = GetScan(FALSE) /\ ~Stale(scan)'
    BY <1>4, <1>5, <1>6 DEF Stale
  <2>2. /\ answer' = "chart" => scan' = GetScan(FALSE) /\ scan'.n > 0
        /\ answer' \in {"quant", "ok"} => quant' = GetQuant(FALSE) /\ quant'.n # 0
        /\ snapshotOnly => answer' # "live"
    BY <1>4, <1>5, <1>6
  <2>. QED BY <1>1, <2>1, <2>2, AnsweredSoundly
<1>9. /\ running' \in [Update -> 0..MaxHandlers]
      /\ \A v \in Update \ {u} : running'[v] = running[v]
      /\ telegram' \in [Update -> {"none", "sent", "acknowledged"}]
  BY <1>0, <1>1 DEF DeliveryOK
<1>10. \A v \in Update : v \in ToSet(seen') => v \in handled' \/ running'[v] > 0
  BY <1>0, <1>1, <1>9 DEF DeliveryOK
<1>11. DeliveryOK'
  BY <1>0, <1>1, <1>9, <1>10 DEF DeliveryOK
<1>. QED BY <1>7, <1>8, <1>11 DEF BotOK

\* The health check answers "ok" on a fresh scan and a stored quant snapshot only.
LEMMA HealthCheckStep ==
    ASSUME BotOK, HealthCheck
    PROVE  /\ BotOK' /\ AnswersAreSound'
           /\ scan'.n >= scan.n /\ (quant'.n < quant.n => ~Reachable)
<1>1. /\ alive /\ UNCHANGED world /\ UNCHANGED delivery
      /\ answer' = readiness(Evidence).kind
      /\ quant' = readiness(Evidence).quant /\ scan' = readiness(Evidence).scan
  BY DEF HealthCheck
<1>2. /\ quant' = GetQuant(FALSE) /\ scan' = GetScan(FALSE)
      /\ answer' \in {"degraded", "ok"}
      /\ answer' = "ok" => GetQuant(FALSE).n # 0 /\ Mode(GetScan(FALSE)) = "PRIMARY"
  BY <1>1 DEF readiness, Reply, Evidence
<1>3. alive' = TRUE
  BY <1>1 DEF delivery, BotOK, DeliveryOK
<1>4. /\ WorldOK' /\ CacheOK'
      /\ scan'.n >= scan.n /\ (quant'.n < quant.n => ~Reachable)
  BY <1>1, <1>2, <1>3, Served
<1>5. DeliveryOK'
  BY <1>1 DEF BotOK, DeliveryOK, delivery
<1>6. answer' = "ok" => ~Stale(scan)'
  <2>1. Mode(GetScan(FALSE)) = "PRIMARY" => ~Stale(GetScan(FALSE))
    BY DEF Mode
  <2>. QED BY <1>2, <2>1 DEF Stale
<1>7. AnswersAreSound'
  BY <1>1, <1>2, <1>6, AnsweredSoundly
<1>. QED BY <1>4, <1>5, <1>7 DEF BotOK

----------------------------------------------------------------------------
(* Theorems *)

LEMMA BotStarts == Init => BotOK /\ AnswersAreSound
<1> SUFFICES ASSUME Init PROVE BotOK /\ AnswersAreSound
  OBVIOUS
<1>1. {snapshotOnly, configured, database} \subseteq BOOLEAN
  BY ConstantsAssumption DEF Init
<1>2. /\ scans = <<>> /\ quants = <<>> /\ seen = <<>> /\ now = 0 /\ lastDown = -1
      /\ scan = NotLoaded /\ quant = NotLoaded /\ alive = FALSE /\ answer = Silence
      /\ database = TRUE
  BY DEF Init
<1>3. WorldOK
  BY <1>1, <1>2, ConstantsAssumption DEF WorldOK
<1>4. CacheOK
  BY <1>2 DEF CacheOK, KnownScan, NotLoaded, Cache
<1>5. seen \in Seq(Update) /\ Distinct(seen) /\ Len(seen) <= Remembered /\ ToSet(seen) = {}
  BY <1>2, ConstantsAssumption DEF Distinct, ToSet
<1>6. /\ telegram \in [Update -> {"none", "sent", "acknowledged"}]
      /\ running \in [Update -> 0..MaxHandlers] /\ \A u \in Update : running[u] = 0
  BY ConstantsAssumption DEF Init
<1>7. DeliveryOK
  BY <1>2, <1>5, <1>6 DEF DeliveryOK
<1>8. AnswersAreSound
  BY <1>2 DEF Silence, AnswersAreSound, AnswersRestOnSnapshots, LagIsBounded
<1>. QED BY <1>3, <1>4, <1>7, <1>8 DEF BotOK

\* One step of the bot or of the world around it keeps the invariant and answers
\* soundly.
LEMMA BotStep == BotOK /\ AnswersAreSound /\ [Next]_botVars => BotOK' /\ AnswersAreSound'
<1> SUFFICES ASSUME BotOK, AnswersAreSound, [Next]_botVars PROVE BotOK' /\ AnswersAreSound'
  OBVIOUS
<1>1. CASE StartProcess
  BY <1>1, StartProcessStep, SilenceIsSound DEF StartProcess
<1>2. CASE ProcessDies
  BY <1>2, ProcessDiesStep, SilenceIsSound DEF ProcessDies
<1>3. CASE HealthCheck
  BY <1>3, HealthCheckStep
<1>4. ASSUME NEW u \in Update, UserSends(u) PROVE BotOK' /\ AnswersAreSound'
  BY <1>4, UserSendsStep, SilenceIsSound DEF UserSends
<1>5. ASSUME NEW u \in Update, telegram_webhook(u) PROVE BotOK' /\ AnswersAreSound'
  BY <1>5, WebhookStep, SilenceIsSound DEF telegram_webhook
<1>6. ASSUME NEW u \in Update, HandlerReturns(u) PROVE BotOK' /\ AnswersAreSound'
  BY <1>6, HandlerReturnsStep
<1>7. ASSUME NEW u \in Update, ProcessUpdateRaises(u) PROVE BotOK' /\ AnswersAreSound'
  BY <1>7, RaisesStep, SilenceIsSound DEF ProcessUpdateRaises
<1>8. CASE ScanPublished
  BY <1>8, ScanPublishedStep, SilenceIsSound DEF ScanPublished
<1>9. CASE QuantPublished
  BY <1>9, QuantPublishedStep, SilenceIsSound DEF QuantPublished
<1>10. CASE DatabaseChanges
  BY <1>10, DatabaseChangesStep, SilenceIsSound DEF DatabaseChanges
<1>11. CASE Tick
  BY <1>11, TickStep, SilenceIsSound DEF Tick
<1>12. CASE UNCHANGED botVars
  <2>1. BotOK'
    BY <1>12 DEF botVars, world, caches, delivery, BotOK, WorldOK, CacheOK, KnownScan, DeliveryOK
  <2>2. AnswersAreSound'
    BY <1>12 DEF botVars, world, caches, AnswersAreSound, AnswersRestOnSnapshots, LagIsBounded,
                 TooOldFrom
  <2>. QED BY <2>1, <2>2
<1>. QED BY <1>1, <1>2, <1>3, <1>4, <1>5, <1>6, <1>7, <1>8, <1>9, <1>10, <1>11, <1>12 DEF Next

\* The inductive invariant of the bot: what it holds of the database, and what its
\* memory of updates says of its handlers.
THEOREM BotInvariant == Spec => [](BotOK /\ AnswersAreSound)
<1>1. Init => BotOK /\ AnswersAreSound
  BY BotStarts
<1>2. BotOK /\ AnswersAreSound /\ [Next]_botVars => (BotOK /\ AnswersAreSound)'
  BY BotStep
<1>. QED BY <1>1, <1>2, PTL DEF Spec

\* The caches of quant_manager and scan_manager point at snapshots the database
\* has, and the webhook's memory stays within its limit.
THEOREM BotTypeCorrect == Spec => []TypeOK
<1>1. BotOK => TypeOK
  BY BotTypes
<1>. QED BY <1>1, BotInvariant, PTL

\* What a command tells a user rests on published snapshots, and on recent ones:
\* at most one cache interval behind, or as old as the last database failure.
THEOREM UsersAreToldSoundly == Spec => []AnswersAreSound
BY BotInvariant, PTL

\* Whatever fails, a serving process does not return to an older scan, and falls
\* back to the packaged quant data only when the database does not answer.
THEOREM ScansOnlyAdvance == Spec => ServedNeverGoesBack
<1> DEFINE A == alive /\ alive' => /\ scan'.n >= scan.n
                                   /\ quant'.n < quant.n => ~Reachable
<1>1. BotOK /\ [Next]_botVars => [A]_caches
  <2> SUFFICES ASSUME BotOK, [Next]_botVars, alive, alive', caches' # caches
               PROVE  /\ scan'.n >= scan.n
                      /\ quant'.n < quant.n => ~Reachable
    OBVIOUS
  <2>1. CASE HealthCheck
    BY <2>1, HealthCheckStep
  <2>2. ASSUME NEW u \in Update, HandlerReturns(u)
        PROVE  scan'.n >= scan.n /\ (quant'.n < quant.n => ~Reachable)
    BY <2>2, HandlerReturnsStep
  <2>3. ~StartProcess /\ ~ProcessDies
    BY DEF StartProcess, ProcessDies
  <2>4. ASSUME NEW u \in Update, UserSends(u) \/ telegram_webhook(u) \/ ProcessUpdateRaises(u)
        PROVE  FALSE
    BY <2>4 DEF UserSends, telegram_webhook, ProcessUpdateRaises
  <2>5. ~ScanPublished /\ ~QuantPublished /\ ~DatabaseChanges /\ ~Tick
    BY DEF ScanPublished, QuantPublished, DatabaseChanges, Tick
  <2>6. ~UNCHANGED botVars
    BY DEF botVars
  <2>. QED BY <2>1, <2>2, <2>3, <2>4, <2>5, <2>6 DEF Next
<1>2. BotOK /\ [Next]_botVars => [alive /\ alive' => /\ scan'.n >= scan.n
                                                     /\ quant'.n < quant.n => ~Reachable]_caches
  BY <1>1
<1>. QED BY <1>2, BotInvariant, PTL DEF Spec, ServedNeverGoesBack

\* An update that the webhook acknowledges without a handler was taken by this
\* process before: nothing a user sent is dropped.
THEOREM NothingIsDropped == Spec => AcknowledgedIsTaken
<1>1. BotOK /\ [Next]_botVars =>
        [\A u \in Update : telegram[u] = "sent" /\ telegram'[u] = "acknowledged" =>
            u \in handled' \/ running[u] > 0]_telegram
  <2> SUFFICES ASSUME BotOK, [Next]_botVars, telegram' # telegram,
                      NEW v \in Update, telegram[v] = "sent", telegram'[v] = "acknowledged"
               PROVE  v \in handled' \/ running[v] > 0
    OBVIOUS
  <2>0. telegram \in [Update -> {"none", "sent", "acknowledged"}]
    BY DEF BotOK, DeliveryOK
  <2>1. ASSUME NEW u \in Update, HandlerReturns(u) PROVE v \in handled'
    BY <2>0, <2>1 DEF HandlerReturns
  <2>2. ASSUME NEW u \in Update, telegram_webhook(u) PROVE v \in handled' \/ running[v] > 0
    <3>1. u = v /\ u \in ToSet(seen) /\ handled' = handled
      BY <2>0, <2>2 DEF telegram_webhook
    <3>. QED BY <3>1 DEF BotOK, DeliveryOK
  <2>3. ASSUME NEW u \in Update, UserSends(u) PROVE FALSE
    BY <2>0, <2>3 DEF UserSends
  <2>4. ASSUME NEW u \in Update, ProcessUpdateRaises(u) PROVE FALSE
    BY <2>4 DEF ProcessUpdateRaises
  <2>5. ~StartProcess /\ ~ProcessDies /\ ~HealthCheck
    BY DEF StartProcess, ProcessDies, HealthCheck, delivery
  <2>6. ~ScanPublished /\ ~QuantPublished /\ ~DatabaseChanges /\ ~Tick
    BY DEF ScanPublished, QuantPublished, DatabaseChanges, Tick, delivery
  <2>7. ~UNCHANGED botVars
    BY DEF botVars, delivery
  <2>. QED BY <2>1, <2>2, <2>3, <2>4, <2>5, <2>6, <2>7 DEF Next
<1>. QED BY <1>1, BotInvariant, PTL DEF Spec, AcknowledgedIsTaken
=============================================================================
