----------------------- MODULE ProductionDbLockProofs -----------------------
(***************************************************************************)
(* Proofs about the production lock, for any number of jobs of any modes,  *)
(* any deadline and any number of mishaps.                                 *)
(***************************************************************************)
EXTENDS ProductionDbLock, TLAPS

Started(j) == phase[j] \in {"running", "releasing", "done"}

\* Nothing so far speaks against the success of j.
Sound(j) == j \in holders \/ (phase[j] = "done" /\ exit[j] = 0)

\* The inductive invariant behind NoSilentOverlap.  A wrapper that started
\* and is not sound never becomes sound again, so an overlapping pair is
\* condemned from the moment its second command starts.
Condemned ==
    /\ \A j \in Job : phase[j] # "done" => exit[j] = Running
    /\ \A h \in holders : phase[h] \in {"running", "releasing"}
    /\ \A i, j \in Job : {i, j} \in overlap => Started(i) /\ Started(j)
    /\ \A i, j \in Job : i # j /\ {i, j} \in overlap => ~(Sound(i) /\ Sound(j))

LockInvariant == LockTypeOK /\ LockCoversChild
OverlapInvariant == LockTypeOK /\ Condemned

LEMMA CodesDiffer == Raised # 0 /\ Unlocked # 0 /\ Running # 0
  BY DEF Raised, Unlocked, Running

\* Every step of a wrapper keeps the types.
LEMMA LockTypeNext == LockTypeOK /\ [LockNext]_lockVars => LockTypeOK'
<1> SUFFICES ASSUME LockTypeOK, [LockNext]_lockVars PROVE LockTypeOK'
  OBVIOUS
<1> USE LockAssumption DEF LockTypeOK, Phase, ExitCode, ChildCode, Raised, Unlocked, Running
<1>1. CASE UNCHANGED lockVars
  BY <1>1 DEF lockVars
<1>2. CASE \E j \in Job : LockStep(j)
  <2>1. PICK j \in Job : LockStep(j)
    BY <1>2
  <2>2. CASE Open(j)
    BY <2>2 DEF Open, Move
  <2>3. CASE Acquire(j)
    <3>1. overlap' \subseteq {{i, k} : i, k \in Job}
      BY <2>3 DEF Acquire
    <3>2. QED BY <2>3, <3>1 DEF Acquire, Move
  <2>4. CASE Poll(j)
    <3>1. polls' \in [Job -> 0..MaxPolls]
      BY <2>4 DEF Poll
    <3>2. QED BY <2>4, <3>1 DEF Poll
  <2>5. CASE GiveUp(j)
    BY <2>5 DEF GiveUp, End, Move
  <2>6. CASE Release(j)
    BY <2>6 DEF Release, End, Move
  <2>7. CASE \E code \in ChildCode : ChildExits(j, code)
    BY <2>7 DEF ChildExits, Move
  <2>8. CASE Die(j)
    BY <2>8 DEF Die, End, Move
  <2>9. CASE SessionLost(j)
    BY <2>9 DEF SessionLost
  <2>10. QED BY <2>1, <2>2, <2>3, <2>4, <2>5, <2>6, <2>7, <2>8, <2>9 DEF LockStep, Wrapper
<1>3. QED BY <1>1, <1>2 DEF LockNext

LEMMA LockTypeInit == LockInit => LockTypeOK
  BY LockAssumption DEF LockInit, LockTypeOK, Phase, ExitCode, ChildCode, Running

\* Every step keeps the holders compatible and their children covered.
LEMMA CoverNext == LockInvariant /\ [LockNext]_lockVars => LockCoversChild'
<1> SUFFICES ASSUME LockInvariant, [LockNext]_lockVars PROVE LockCoversChild'
  OBVIOUS
<1> USE LockAssumption DEF LockInvariant, LockTypeOK, LockCoversChild
<1>1. CASE UNCHANGED lockVars
  BY <1>1 DEF lockVars, Conflict
<1>2. CASE \E j \in Job : LockStep(j)
  <2>1. PICK j \in Job : LockStep(j)
    BY <1>2
  <2>2. CASE Open(j)
    BY <2>2 DEF Open, Move, Conflict
  <2>3. CASE Acquire(j)
    BY <2>3 DEF Acquire, Move, Compatible, Conflict
  <2>4. CASE Poll(j)
    BY <2>4 DEF Poll, Conflict
  <2>5. CASE GiveUp(j)
    BY <2>5 DEF GiveUp, End, Move, Conflict
  <2>6. CASE Release(j)
    BY <2>6 DEF Release, End, Move, Conflict
  <2>7. CASE \E code \in ChildCode : ChildExits(j, code)
    BY <2>7 DEF ChildExits, Move, Conflict
  <2>8. CASE Die(j)
    BY <2>8 DEF Die, End, Move, Conflict
  <2>9. CASE SessionLost(j)
    BY <2>9 DEF SessionLost, Conflict
  <2>10. QED BY <2>1, <2>2, <2>3, <2>4, <2>5, <2>6, <2>7, <2>8, <2>9 DEF LockStep, Wrapper
<1>3. QED BY <1>1, <1>2 DEF LockNext

\* Without a mishap an acquirer finds no incompatible child running.
LEMMA SerializedNext ==
    LockInvariant /\ WritersSerialized /\ [LockNext]_lockVars => WritersSerialized'
<1> SUFFICES ASSUME LockInvariant, WritersSerialized, [LockNext]_lockVars, lost' = 0
             PROVE  overlap' = {}
  BY CoverNext DEF WritersSerialized
<1>1. lost = 0
  BY LockAssumption
  DEF LockNext, LockStep, Wrapper, Open, Acquire, Poll, GiveUp, Release, ChildExits, Die,
      SessionLost, lockVars, LockInvariant, LockTypeOK
<1>2. ASSUME NEW j \in Job, Acquire(j) PROVE overlap' = {}
  <2>1. \A k \in Job : phase[k] = "running" => ~Conflict(k, j)
    BY <1>1, <1>2 DEF Acquire, Compatible, LockInvariant, LockCoversChild
  <2>2. QED BY <1>1, <1>2, <2>1 DEF Acquire, WritersSerialized
<1>3. QED
  BY <1>1, <1>2
  DEF LockNext, LockStep, Wrapper, Open, Poll, GiveUp, Release, ChildExits, Die, SessionLost,
      lockVars, WritersSerialized

\* No two production writers run together unless both are import shards, as
\* long as no session was lost, and the lock is held for a child or not at all
\* (run_with_production_db_lock).
THEOREM Serialized == LockSpec => [](LockTypeOK /\ WritersSerialized)
<1> DEFINE IInv == LockInvariant /\ WritersSerialized
<1>1. LockInit => IInv
  BY LockTypeInit DEF LockInit, LockInvariant, LockCoversChild, WritersSerialized
<1>2. IInv /\ [LockNext]_lockVars => IInv'
  BY LockTypeNext, CoverNext, SerializedNext DEF LockInvariant
<1>3. IInv => LockTypeOK /\ WritersSerialized
  BY DEF LockInvariant
<1>4. QED BY <1>1, <1>2, <1>3, PTL DEF LockSpec

\* A condemned pair stays condemned.
LEMMA CondemnedNext == OverlapInvariant /\ [LockNext]_lockVars => Condemned'
<1> SUFFICES ASSUME OverlapInvariant, [LockNext]_lockVars PROVE Condemned'
  OBVIOUS
<1> USE CodesDiffer DEF OverlapInvariant, LockTypeOK, Condemned, Started, Sound
<1>1. CASE UNCHANGED lockVars
  BY <1>1 DEF lockVars
<1>2. CASE \E j \in Job : LockStep(j)
  <2>1. PICK j \in Job : LockStep(j)
    BY <1>2
  <2>2. CASE Open(j)
    BY <2>2 DEF Open, Move
  <2>3. CASE Acquire(j)
    <3>1. ASSUME NEW i \in Job, NEW k \in Job, {i, k} \in overlap'
          PROVE  \/ {i, k} \in overlap
                 \/ i = j /\ k # j /\ phase[k] = "running" /\ k \notin holders
                 \/ k = j /\ i # j /\ phase[i] = "running" /\ i \notin holders
      BY <2>3, <3>1 DEF Acquire, Compatible
    <3>2. /\ \A i \in Job : i # j => phase'[i] = phase[i] /\ (Sound(i)' <=> Sound(i))
          /\ phase[j] = "waiting" /\ phase'[j] = "running" /\ exit' = exit
      BY <2>3 DEF Acquire, Move
    <3>3. \A i, k \in Job : {i, k} \in overlap' => Started(i)' /\ Started(k)'
      BY <3>1, <3>2
    <3>4. ASSUME NEW i \in Job, NEW k \in Job, i # k, {i, k} \in overlap'
          PROVE  ~(Sound(i)' /\ Sound(k)')
      <4>1. CASE {i, k} \in overlap
        BY <4>1, <3>2, <3>4
      <4>2. CASE {i, k} \notin overlap
        BY <4>2, <3>1, <3>2, <3>4
      <4>3. QED BY <4>1, <4>2
    <3>5. /\ \A i \in Job : phase'[i] # "done" => exit'[i] = Running
          /\ \A h \in holders' : phase'[h] \in {"running", "releasing"}
      BY <2>3, <3>2 DEF Acquire
    <3>6. QED BY <3>3, <3>4, <3>5
  <2>4. CASE Poll(j)
    BY <2>4 DEF Poll
  <2>5. CASE GiveUp(j)
    BY <2>5 DEF GiveUp, End, Move
  <2>6. CASE Release(j)
    BY <2>6 DEF Release, End, Move
  <2>7. CASE \E code \in ChildCode : ChildExits(j, code)
    BY <2>7 DEF ChildExits, Move
  <2>8. CASE Die(j)
    BY <2>8 DEF Die, End, Move
  <2>9. CASE SessionLost(j)
    BY <2>9 DEF SessionLost
  <2>10. QED BY <2>1, <2>2, <2>3, <2>4, <2>5, <2>6, <2>7, <2>8, <2>9 DEF LockStep, Wrapper
<1>3. QED BY <1>1, <1>2 DEF LockNext

\* Of two incompatible commands that ran together, because a session was
\* lost, at most one is reported as a success (run_with_production_db_lock).
THEOREM NoOverlapIsSilent == LockSpec => []NoSilentOverlap
<1>1. LockInit => OverlapInvariant
  BY LockTypeInit DEF LockInit, OverlapInvariant, Condemned
<1>2. OverlapInvariant /\ [LockNext]_lockVars => OverlapInvariant'
  BY LockTypeNext, CondemnedNext DEF OverlapInvariant
<1>3. OverlapInvariant => NoSilentOverlap
  BY CodesDiffer DEF OverlapInvariant, Condemned, Sound, NoSilentOverlap
<1>4. QED BY <1>1, <1>2, <1>3, PTL DEF LockSpec
=============================================================================
