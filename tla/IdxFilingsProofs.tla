--------------------------- MODULE IdxFilingsProofs ---------------------------
(***************************************************************************)
(* Machine-checked proofs about IdxFilings, for any number of runs,        *)
(* filings, shards and re-runs.                                            *)
(***************************************************************************)
EXTENDS IdxFilings, TLAPS

----------------------------------------------------------------------------
(* The invariant *)

Stage == Running \cup Ended \cup {"unused", "pending"}

\* The ledger has accepted every filing of a manifest.
Complete(F) == \A f \in F : ledger[f] = "ACCEPTED"

\* What a run has requested, and what it knows of its manifest.  A try that has
\* ended may have requested a refresh more than there were re-runs.
RunOf(r) ==
    /\ runs[r].stage = "unused" => refreshes[r] = 0
    /\ refreshes[r] > 0 => runs[r].import /\ Complete(runs[r].manifest)
    /\ runs[r].ready => Complete(runs[r].manifest)
    /\ runs[r].import /\ runs[r].stage = "success" => refreshes[r] >= 1
    /\ refreshes[r] <= reruns + 1
    /\ runs[r].stage \notin Ended => refreshes[r] <= reruns

Everything == TypeOK /\ \A r \in Run : RunOf(r)

----------------------------------------------------------------------------
(* Records *)

\* A run that only changes its stage.
LEMMA StageFields ==
    ASSUME NEW w \in WorkflowRun, NEW to \in Stage, NEW x, x = [w EXCEPT !.stage = to]
    PROVE  /\ x \in WorkflowRun /\ x.stage = to
           /\ x.import = w.import /\ x.manifest = w.manifest /\ x.shard = w.shard
           /\ x.ready = w.ready
<1>1. x \in WorkflowRun
  BY DEF WorkflowRun, Stage
<1>2. x.stage = to /\ x.manifest = w.manifest /\ x.shard = w.shard
  BY DEF WorkflowRun
<1>3. x.import = w.import
  BY DEF WorkflowRun
<1>4. x.ready = w.ready
  BY DEF WorkflowRun
<1>. QED BY <1>1, <1>2, <1>3, <1>4

\* A run that is not touched, or that another run has displaced.
Stands(o) ==
    /\ runs'[o].import = runs[o].import /\ runs'[o].manifest = runs[o].manifest
    /\ runs'[o].ready = runs[o].ready
    /\ \/ runs'[o].stage = runs[o].stage
       \/ runs[o].stage = "pending" /\ runs'[o].stage = "cancelled"

\* Run r enters the concurrency group as w, on its own if it starts.
Enters(r, w) ==
    /\ runs'[r].manifest = w.manifest /\ runs'[r].import = w.import /\ runs'[r].ready = w.ready
    /\ \/ runs'[r].stage = "pending"
       \/ /\ runs'[r].stage = IF w.import THEN "prepare" ELSE "discover"
          /\ \A o \in Run : runs[o].stage \notin Running

LEMMA QueueEnters ==
    ASSUME TypeOK, NEW r \in Run, NEW w \in WorkflowRun, Queue(r, w)
    PROVE  /\ runs' \in [Run -> WorkflowRun]
           /\ Enters(r, w) /\ \A o \in Run \ {r} : Stands(o)
<1> DEFINE queuedRun == [w EXCEPT !.stage = "pending"]
<1>1. \A s \in {"pending", "cancelled", "prepare", "discover"} : s \in Stage
  BY DEF Stage, Running, Ended
<1>2. /\ queuedRun \in WorkflowRun /\ queuedRun.stage = "pending"
      /\ queuedRun.import = w.import /\ queuedRun.manifest = w.manifest
      /\ queuedRun.ready = w.ready
  BY <1>1, StageFields
<1>3. PICK q \in WorkflowRun : q = queuedRun
  BY <1>2
<1> HIDE DEF queuedRun
<1>4. runs' = [o \in Run |-> CASE o = r /\ Busy -> q
                               [] o = r /\ ~Busy -> Started(q)
                               [] OTHER -> Displaced(o)]
  BY <1>3 DEF Queue, queuedRun
<1>5. /\ Started(q) \in WorkflowRun
      /\ Started(q).stage = IF w.import THEN "prepare" ELSE "discover"
      /\ Started(q).import = w.import /\ Started(q).manifest = w.manifest
      /\ Started(q).ready = w.ready
  <2>1. PICK s \in Stage : s = IF w.import THEN "prepare" ELSE "discover"
    BY <1>1
  <2>2. Started(q) = [q EXCEPT !.stage = s]
    BY <1>2, <1>3, <2>1 DEF Started
  <2>3. /\ Started(q) \in WorkflowRun /\ Started(q).stage = s
        /\ Started(q).import = q.import /\ Started(q).manifest = q.manifest
        /\ Started(q).ready = q.ready
    BY <2>2, StageFields
  <2>. QED BY <1>2, <1>3, <2>1, <2>3
<1>6. ASSUME NEW o \in Run
      PROVE  /\ Displaced(o) \in WorkflowRun
             /\ Displaced(o).import = runs[o].import /\ Displaced(o).manifest = runs[o].manifest
             /\ Displaced(o).ready = runs[o].ready
             /\ \/ Displaced(o).stage = runs[o].stage
                \/ runs[o].stage = "pending" /\ Displaced(o).stage = "cancelled"
  <2>1. runs[o] \in WorkflowRun
    BY DEF TypeOK
  <2>2. CASE o \in Waiting
    <3>1. Displaced(o) = [runs[o] EXCEPT !.stage = "cancelled"]
      BY <2>2 DEF Displaced
    <3>2. /\ Displaced(o) \in WorkflowRun /\ Displaced(o).stage = "cancelled"
          /\ Displaced(o).import = runs[o].import /\ Displaced(o).manifest = runs[o].manifest
          /\ Displaced(o).ready = runs[o].ready
      BY <1>1, <2>1, <3>1, StageFields
    <3>. QED BY <2>2, <3>2 DEF Waiting
  <2>3. CASE o \notin Waiting
    BY <2>1, <2>3 DEF Displaced
  <2>. QED BY <2>2, <2>3
<1>7. runs' \in [Run -> WorkflowRun]
  BY <1>4, <1>5, <1>6
<1>8. runs'[r] = IF Busy THEN q ELSE Started(q)
  BY <1>4
<1>9. Enters(r, w)
  <2>1. CASE Busy
    BY <1>2, <1>3, <1>8, <2>1 DEF Enters
  <2>2. CASE ~Busy
    BY <1>5, <1>8, <2>2 DEF Enters, Busy
  <2>. QED BY <2>1, <2>2
<1>10. ASSUME NEW o \in Run \ {r} PROVE Stands(o)
  <2>1. runs'[o] = Displaced(o)
    BY <1>4
  <2>. QED BY <1>6, <2>1 DEF Stands
<1>. QED BY <1>7, <1>9, <1>10

\* A job moves its run from one stage to the next.
Moves(r, from, to) ==
    /\ runs[r].stage = from /\ runs'[r].stage = to
    /\ runs'[r].import = runs[r].import /\ runs'[r].manifest = runs[r].manifest

LEMMA StageMoves ==
    ASSUME TypeOK, NEW r \in Run, NEW to \in Stage, runs' = [runs EXCEPT ![r].stage = to]
    PROVE  /\ runs' \in [Run -> WorkflowRun] /\ (\A o \in Run \ {r} : runs'[o] = runs[o])
           /\ Moves(r, runs[r].stage, to) /\ runs'[r].ready = runs[r].ready
<1>1. runs \in [Run -> WorkflowRun] /\ runs[r] \in WorkflowRun
  BY DEF TypeOK
<1>2. PICK x : x = [runs[r] EXCEPT !.stage = to]
  OBVIOUS
<1>3. /\ x \in WorkflowRun /\ x.stage = to
      /\ x.import = runs[r].import /\ x.manifest = runs[r].manifest
      /\ x.ready = runs[r].ready
  BY <1>1, <1>2, StageFields
<1>4. runs' = [runs EXCEPT ![r] = x]
  BY <1>1, <1>2
<1>5. runs'[r] = x /\ runs' \in [Run -> WorkflowRun] /\ \A o \in Run \ {r} : runs'[o] = runs[o]
  BY <1>1, <1>3, <1>4
<1>. QED BY <1>3, <1>5 DEF Moves
----------------------------------------------------------------------------
(* Types *)

\* One run at a time works, when a single run changes its stage.
LEMMA OneRunWorks ==
    ASSUME TypeOK, NEW r \in Run, \A o \in Run \ {r} : Stands(o),
           runs'[r].stage \in Running =>
              (runs[r].stage \in Running \/ \A o \in Run : runs[o].stage \notin Running)
    PROVE  \A p, o \in Run : {runs'[p].stage, runs'[o].stage} \subseteq Running => p = o
<1>1. \A o \in Run \ {r} : runs'[o].stage \in Running => runs[o].stage \in Running
  BY DEF Stands, Running
<1>2. \A p, o \in Run : runs[p].stage \in Running /\ runs[o].stage \in Running => p = o
  BY DEF TypeOK
<1>3. SUFFICES ASSUME NEW p \in Run, NEW o \in Run, runs'[p].stage \in Running,
                      runs'[o].stage \in Running, p # o
               PROVE  FALSE
  OBVIOUS
<1>4. CASE p # r /\ o # r
  BY <1>1, <1>2, <1>3, <1>4
<1>5. CASE p = r
  BY <1>1, <1>2, <1>3, <1>5
<1>6. CASE o = r
  BY <1>1, <1>2, <1>3, <1>6
<1>. QED BY <1>4, <1>5, <1>6

\* A run that enters the group keeps the types.
LEMMA EnterTypes ==
    ASSUME TypeOK, NEW r \in Run, NEW w \in WorkflowRun, Queue(r, w), w.manifest \subseteq main',
           main \subseteq main', main' \subseteq Filing, ledger' = ledger,
           reruns' \in 0..MaxReruns, refreshes' = refreshes
    PROVE  TypeOK'
<1>1. /\ runs' \in [Run -> WorkflowRun] /\ Enters(r, w) /\ \A o \in Run \ {r} : Stands(o)
  BY QueueEnters
<1>2. \A p, o \in Run : {runs'[p].stage, runs'[o].stage} \subseteq Running => p = o
  BY <1>1, OneRunWorks DEF Enters, Running
<1>3. ASSUME NEW o \in Run
      PROVE  /\ runs'[o].manifest \subseteq main'
             /\ runs'[o].stage \in Running => (runs'[o].stage = "discover" <=> ~runs'[o].import)
  <2>1. CASE o = r
    BY <1>1, <2>1 DEF Enters, Running
  <2>2. CASE o # r
    <3>1. Stands(o)
      BY <1>1, <2>2
    <3>2. runs[o].manifest \subseteq main
      BY DEF TypeOK
    <3>3. runs'[o].manifest \subseteq main'
      BY <3>1, <3>2 DEF Stands
    <3>4. runs'[o].stage \in Running =>
             /\ runs'[o].stage = runs[o].stage /\ runs'[o].import = runs[o].import
      BY <3>1 DEF Stands, Running
    <3>5. runs[o].stage \in Running => (runs[o].stage = "discover" <=> ~runs[o].import)
      BY DEF TypeOK
    <3>. QED BY <3>3, <3>4, <3>5
  <2>. QED BY <2>1, <2>2
<1>. QED BY <1>1, <1>2, <1>3 DEF TypeOK

\* A job that moves its run on keeps the types.
LEMMA MoveTypes ==
    ASSUME TypeOK, NEW r \in Run, NEW from, NEW to, Moves(r, from, to),
           runs' \in [Run -> WorkflowRun], \A o \in Run \ {r} : runs'[o] = runs[o],
           to \in Running => (from \in Running \/ \A o \in Run : runs[o].stage \notin Running),
           to \in Running => (to = "discover" <=> ~runs[r].import),
           main' = main, ledger' \in [Filing -> Decision], reruns' = reruns,
           refreshes' \in [Run -> Nat]
    PROVE  TypeOK'
<1>1. \A o \in Run \ {r} : Stands(o)
  BY DEF Stands
<1>2. \A p, o \in Run : {runs'[p].stage, runs'[o].stage} \subseteq Running => p = o
  BY <1>1, OneRunWorks DEF Moves
<1>3. ASSUME NEW o \in Run
      PROVE  /\ runs'[o].manifest \subseteq main'
             /\ runs'[o].stage \in Running => (runs'[o].stage = "discover" <=> ~runs'[o].import)
  <2>1. /\ runs[o].manifest \subseteq main
        /\ runs[o].stage \in Running => (runs[o].stage = "discover" <=> ~runs[o].import)
    BY DEF TypeOK
  <2>2. CASE o = r
    BY <2>1, <2>2 DEF Moves
  <2>3. CASE o # r
    BY <2>1, <2>3
  <2>. QED BY <2>2, <2>3
<1>. QED BY <1>2, <1>3 DEF TypeOK

\* What an accepted filing is stays so.
LEMMA AcceptedStays ==
    ASSUME TypeOK, NEW r \in Run, NEW s \in Shard, ImportShard(r, s)
    PROVE  /\ ledger' \in [Filing -> Decision]
           /\ \A F \in SUBSET Filing : Complete(F) => Complete(F)'
           /\ runs' \in [Run -> WorkflowRun] /\ (\A o \in Run \ {r} : runs'[o] = runs[o])
           /\ Moves(r, "shards", "shards") /\ runs'[r].ready = runs[r].ready
<1>1. PICK choice \in [{f \in Assigned(r, s) : ledger[f] = "OPEN"} -> Decision],
           died \in BOOLEAN :
          /\ ledger' = [f \in Filing |-> IF f \in DOMAIN choice THEN choice[f] ELSE ledger[f]]
          /\ runs' = [runs EXCEPT ![r].shard[s] =
                        IF ~died /\ AllAccepted(Assigned(r, s), ledger') THEN "ok" ELSE "failed"]
  BY DEF ImportShard
<1>2. /\ ledger \in [Filing -> Decision] /\ runs \in [Run -> WorkflowRun]
      /\ runs[r] \in WorkflowRun /\ runs[r].stage = "shards"
  BY DEF TypeOK, ImportShard
<1>3. ledger' \in [Filing -> Decision] /\ \A f \in Filing : ledger[f] = "ACCEPTED" => ledger'[f] = ledger[f]
  BY <1>1, <1>2
<1>4. \A F \in SUBSET Filing : Complete(F) => Complete(F)'
  BY <1>3 DEF Complete
<1>5. PICK d \in {"ok", "failed"} :
         d = IF ~died /\ AllAccepted(Assigned(r, s), ledger') THEN "ok" ELSE "failed"
  OBVIOUS
<1>6. PICK x : x = [runs[r] EXCEPT !.shard[s] = d]
  OBVIOUS
<1>7. x \in WorkflowRun
  BY <1>2, <1>6 DEF WorkflowRun, ShardState
<1>8. x.stage = "shards" /\ x.manifest = runs[r].manifest
  BY <1>2, <1>6 DEF WorkflowRun
<1>9. x.import = runs[r].import
  BY <1>2, <1>6 DEF WorkflowRun
<1>10. x.ready = runs[r].ready
  BY <1>2, <1>6 DEF WorkflowRun
<1>11. runs' = [runs EXCEPT ![r] = x]
  BY <1>1, <1>2, <1>5, <1>6
<1>12. runs'[r] = x /\ runs' \in [Run -> WorkflowRun] /\ \A o \in Run \ {r} : runs'[o] = runs[o]
  BY <1>2, <1>7, <1>11
<1>. QED BY <1>2, <1>3, <1>4, <1>8, <1>9, <1>10, <1>12 DEF Moves

\* The aggregate job marks its run as ready only when its manifest is accepted.
LEMMA AggregateMarks ==
    ASSUME TypeOK, NEW r \in Run, Aggregate(r)
    PROVE  /\ runs' \in [Run -> WorkflowRun] /\ (\A o \in Run \ {r} : runs'[o] = runs[o])
           /\ Moves(r, "aggregate", "request")
           /\ runs'[r].ready => Complete(runs[r].manifest)
<1>1. PICK died \in BOOLEAN :
          runs' = [runs EXCEPT ![r].stage = "request",
                               ![r].ready = ~died /\ AllAccepted(runs[r].manifest, ledger)]
  BY DEF Aggregate
<1>2. /\ runs \in [Run -> WorkflowRun] /\ runs[r] \in WorkflowRun /\ runs[r].stage = "aggregate"
  BY DEF TypeOK, Aggregate
<1>3. PICK b \in BOOLEAN : b <=> ~died /\ AllAccepted(runs[r].manifest, ledger)
  OBVIOUS
<1>4. b = (~died /\ AllAccepted(runs[r].manifest, ledger))
  BY <1>3
<1>5. PICK x : x = [runs[r] EXCEPT !.stage = "request", !.ready = b]
  OBVIOUS
<1>6. x \in WorkflowRun
  BY <1>2, <1>5 DEF WorkflowRun, Running
<1>7. x.stage = "request" /\ x.manifest = runs[r].manifest
  BY <1>2, <1>5 DEF WorkflowRun
<1>8. x.import = runs[r].import
  BY <1>2, <1>5 DEF WorkflowRun
<1>9. x.ready => b
  BY <1>2, <1>5 DEF WorkflowRun
<1>10. runs' = [runs EXCEPT ![r] = x]
  BY <1>1, <1>2, <1>4, <1>5
<1>11. runs'[r] = x /\ runs' \in [Run -> WorkflowRun] /\ \A o \in Run \ {r} : runs'[o] = runs[o]
  BY <1>2, <1>6, <1>10
<1>12. b => Complete(runs[r].manifest)
  BY <1>3 DEF AllAccepted, Complete
<1>. QED BY <1>2, <1>7, <1>8, <1>9, <1>11, <1>12 DEF Moves
----------------------------------------------------------------------------
(* Steps *)

\* What holds of a run still holds after a step of another one.
LEMMA OthersKept ==
    ASSUME TypeOK, NEW o \in Run, RunOf(o), Stands(o), refreshes'[o] = refreshes[o],
           reruns' \in {reruns, reruns + 1},
           \A F \in SUBSET Filing : Complete(F) => Complete(F)'
    PROVE  RunOf(o)'
<1>1. PICK n \in Nat, k \in Nat, m \in Nat :
         n = refreshes[o] /\ k = reruns /\ m = reruns' /\ k <= m
  BY DEF TypeOK
<1>2. runs[o].manifest \in SUBSET Filing /\ runs'[o].manifest = runs[o].manifest
  BY DEF TypeOK, WorkflowRun, Stands
<1>3. Complete(runs[o].manifest) => Complete(runs[o].manifest)'
  BY <1>2 DEF Complete
<1>4. n <= k + 1 => n <= m + 1
  BY <1>1
<1>5. n <= k => n <= m
  BY <1>1
<1>6. /\ runs'[o].stage = "unused" => n = 0
      /\ n > 0 => runs'[o].import /\ Complete(runs[o].manifest)'
      /\ runs'[o].ready => Complete(runs[o].manifest)'
      /\ runs'[o].import /\ runs'[o].stage = "success" => n >= 1
  BY <1>1, <1>3 DEF RunOf, Stands
<1>7. /\ n <= m + 1
      /\ runs'[o].stage \notin Ended => n <= m
  BY <1>1, <1>4, <1>5 DEF RunOf, Stands, Ended
<1>. QED BY <1>1, <1>2, <1>6, <1>7 DEF RunOf, Complete

\* What holds of a run that enters the group, for the first time or again.
LEMMA EnterKeeps ==
    ASSUME TypeOK, NEW r \in Run, NEW w \in WorkflowRun, Enters(r, w), ~w.ready,
           refreshes' = refreshes, ledger' = ledger, reruns' \in Nat, refreshes[r] <= reruns',
           refreshes[r] > 0 => w.import /\ Complete(w.manifest)
    PROVE  RunOf(r)'
<1>1. PICK n \in Nat, m \in Nat : n = refreshes[r] /\ m = reruns' /\ n <= m /\ n <= m + 1
  BY DEF TypeOK
<1>2. runs'[r].stage \in {"pending", "prepare", "discover"}
  BY DEF Enters
<1>3. runs'[r].manifest = w.manifest /\ runs'[r].import = w.import /\ ~runs'[r].ready
  BY DEF Enters
<1>. QED BY <1>1, <1>2, <1>3 DEF RunOf, Complete

\* What holds of a run whose job moved it on and requested nothing.
LEMMA MoveKeeps ==
    ASSUME TypeOK, NEW r \in Run, RunOf(r), NEW from, NEW to, Moves(r, from, to),
           runs'[r].ready => runs[r].ready \/ Complete(runs[r].manifest),
           refreshes'[r] = refreshes[r], reruns' = reruns,
           \A F \in SUBSET Filing : Complete(F) => Complete(F)',
           from \notin Ended \cup {"unused"}, to # "unused",
           to = "success" => ~runs[r].import
    PROVE  RunOf(r)'
<1>1. PICK n \in Nat, k \in Nat : n = refreshes[r] /\ k = reruns
  BY DEF TypeOK
<1>2. runs[r].manifest \in SUBSET Filing /\ runs'[r].manifest = runs[r].manifest
  BY DEF TypeOK, WorkflowRun, Moves
<1>3. Complete(runs[r].manifest) => Complete(runs[r].manifest)'
  BY <1>2 DEF Complete
<1>4. n <= k /\ n <= k + 1
  BY <1>1 DEF RunOf, Moves
<1>. QED BY <1>1, <1>2, <1>3, <1>4 DEF RunOf, Moves, Complete

\* A run that may request a refresh has its whole manifest accepted.
LEMMA RequestKeeps ==
    ASSUME TypeOK, NEW r \in Run, RunOf(r), RequestRefresh(r)
    PROVE  TypeOK' /\ RunOf(r)' /\ \A o \in Run \ {r} : Stands(o) /\ refreshes'[o] = refreshes[o]
<1>1. runs[r].stage = "request" /\ UNCHANGED <<main, ledger, reruns>>
  BY DEF RequestRefresh
<1>2. runs[r].import /\ refreshes \in [Run -> Nat]
  BY <1>1 DEF TypeOK, Running
<1>3. ASSUME NEW to \in {"success", "failure"}, runs' = [runs EXCEPT ![r].stage = to]
      PROVE  /\ runs' \in [Run -> WorkflowRun] /\ (\A o \in Run \ {r} : runs'[o] = runs[o])
             /\ Moves(r, "request", to) /\ runs'[r].ready = runs[r].ready
             /\ refreshes' \in [Run -> Nat] => TypeOK'
  <2>1. to \in Stage /\ to \notin Running
    BY DEF Stage, Ended, Running
  <2>2. /\ runs' \in [Run -> WorkflowRun] /\ (\A o \in Run \ {r} : runs'[o] = runs[o])
        /\ Moves(r, "request", to) /\ runs'[r].ready = runs[r].ready
    BY <1>1, <1>3, <2>1, StageMoves
  <2>3. ledger' \in [Filing -> Decision]
    BY <1>1 DEF TypeOK
  <2>4. refreshes' \in [Run -> Nat] => TypeOK'
    BY <1>1, <2>1, <2>2, <2>3, MoveTypes
  <2>. QED BY <2>2, <2>4
<1>4. CASE MayRequest(r) /\ refreshes' = [refreshes EXCEPT ![r] = @ + 1]
           /\ \E end \in {"success", "failure"} : runs' = [runs EXCEPT ![r].stage = end]
  <2>1. PICK to \in {"success", "failure"} : runs' = [runs EXCEPT ![r].stage = to]
    BY <1>4
  <2>2. PICK n \in Nat, k \in Nat : n = refreshes[r] /\ k = reruns
    BY DEF TypeOK
  <2>3. n <= k /\ n + 1 <= k + 1 /\ n + 1 >= 1 /\ n + 1 > 0 /\ n + 1 \in Nat
    BY <1>1, <2>2 DEF RunOf, Ended
  <2>4. refreshes' \in [Run -> Nat] /\ refreshes'[r] = n + 1
        /\ \A o \in Run \ {r} : refreshes'[o] = refreshes[o]
    BY <1>2, <1>4, <2>2, <2>3
  <2>5. Complete(runs[r].manifest)
    BY <1>4 DEF RunOf, MayRequest
  <2>6. /\ runs'[r].manifest = runs[r].manifest /\ runs'[r].import /\ runs'[r].stage = to
        /\ (\A o \in Run \ {r} : runs'[o] = runs[o]) /\ TypeOK'
    BY <1>2, <1>3, <2>1, <2>4 DEF Moves
  <2>7. RunOf(r)'
    BY <1>1, <2>2, <2>3, <2>4, <2>5, <2>6 DEF RunOf, Complete, Ended
  <2>. QED BY <2>4, <2>6, <2>7 DEF Stands
<1>5. CASE runs' = [runs EXCEPT ![r].stage = "failure"] /\ UNCHANGED refreshes
  <2>1. /\ Moves(r, "request", "failure") /\ runs'[r].ready = runs[r].ready
        /\ (\A o \in Run \ {r} : runs'[o] = runs[o]) /\ TypeOK'
    BY <1>2, <1>3, <1>5
  <2>2. \A F \in SUBSET Filing : Complete(F) => Complete(F)'
    BY <1>1 DEF Complete
  <2>3. RunOf(r)'
    BY <1>1, <1>5, <2>1, <2>2, MoveKeeps DEF Ended
  <2>. QED BY <1>5, <2>1, <2>3 DEF Stands
<1>. QED BY <1>4, <1>5 DEF RequestRefresh
\* A step that only moves run r on, and requests nothing.
LEMMA JobKeeps ==
    ASSUME Everything, NEW r \in Run, NEW from, NEW to, Moves(r, from, to),
           runs' \in [Run -> WorkflowRun], \A o \in Run \ {r} : runs'[o] = runs[o],
           runs'[r].ready => runs[r].ready \/ Complete(runs[r].manifest),
           main' = main, reruns' = reruns, refreshes' = refreshes,
           ledger' \in [Filing -> Decision],
           \A F \in SUBSET Filing : Complete(F) => Complete(F)',
           from \notin Ended \cup {"unused"}, to # "unused",
           to = "success" => ~runs[r].import,
           to \in Running => (from \in Running \/ \A o \in Run : runs[o].stage \notin Running),
           to \in Running => (to = "discover" <=> ~runs[r].import)
    PROVE  Everything'
<1>1. TypeOK /\ \A o \in Run : RunOf(o)
  BY DEF Everything
<1>2. TypeOK'
  <2>1. refreshes' \in [Run -> Nat]
    BY <1>1 DEF TypeOK
  <2>. QED BY <1>1, <2>1, MoveTypes
<1>3. RunOf(r)'
  BY <1>1, MoveKeeps
<1>4. ASSUME NEW o \in Run \ {r} PROVE RunOf(o)'
  <2>1. Stands(o) /\ reruns' \in {reruns, reruns + 1}
    BY DEF Stands
  <2>. QED BY <1>1, <2>1, OthersKept
<1>. QED BY <1>2, <1>3, <1>4 DEF Everything

\* A step that lets run r enter the concurrency group.
LEMMA QueueKeeps ==
    ASSUME Everything, NEW r \in Run, NEW w \in WorkflowRun, Queue(r, w), ~w.ready,
           w.manifest \subseteq main', main \subseteq main', main' \subseteq Filing,
           ledger' = ledger, refreshes' = refreshes, reruns' \in {reruns, reruns + 1},
           reruns' \in 0..MaxReruns, refreshes[r] <= reruns',
           refreshes[r] > 0 => w.import /\ Complete(w.manifest)
    PROVE  Everything'
<1>1. TypeOK /\ \A o \in Run : RunOf(o)
  BY DEF Everything
<1>2. TypeOK'
  BY <1>1, EnterTypes
<1>3. Enters(r, w) /\ \A o \in Run \ {r} : Stands(o)
  BY <1>1, QueueEnters
<1>4. RunOf(r)'
  BY <1>1, <1>3, EnterKeeps
<1>5. \A F \in SUBSET Filing : Complete(F) => Complete(F)'
  BY DEF Complete
<1>6. ASSUME NEW o \in Run \ {r} PROVE RunOf(o)'
  BY <1>1, <1>3, <1>5, OthersKept
<1>. QED BY <1>2, <1>4, <1>6 DEF Everything

LEMMA UnusedTyped ==
    /\ Unused \in WorkflowRun /\ ~Unused.import /\ ~Unused.ready /\ Unused.manifest = {}
    /\ Unused.stage = "unused"
BY DEF Unused, WorkflowRun, ShardState

LEMMA MergeKeeps ==
    ASSUME Everything, NEW r \in Run, NEW F \in SUBSET Filing, MergeManifest(r, F)
    PROVE  Everything'
<1>1. /\ TypeOK /\ RunOf(r) /\ main \subseteq Filing /\ refreshes \in [Run -> Nat]
      /\ reruns \in 0..MaxReruns /\ MaxReruns \in Nat
  BY ConstantsAssumption DEF Everything, TypeOK
<1> DEFINE w == [Unused EXCEPT !.import = TRUE, !.manifest = main \cup F]
<1>2. w \in WorkflowRun
  BY <1>1, UnusedTyped DEF WorkflowRun
<1>3. w.manifest = main \cup F
  BY <1>1, UnusedTyped DEF WorkflowRun
<1>4. ~w.ready
  BY <1>1, UnusedTyped DEF WorkflowRun
<1>5. Queue(r, w) /\ main' = main \cup F /\ UNCHANGED <<ledger, reruns, refreshes>>
      /\ runs[r].stage = "unused"
  BY DEF MergeManifest
<1>6. refreshes[r] = 0 /\ 0 <= reruns /\ ~(refreshes[r] > 0)
  BY <1>1, <1>5 DEF RunOf
<1> HIDE DEF w
<1>. QED BY <1>1, <1>2, <1>3, <1>4, <1>5, <1>6, QueueKeeps

LEMMA DiscoveryKeeps ==
    ASSUME Everything, NEW r \in Run, ScheduleDiscovery(r)
    PROVE  Everything'
<1>1. /\ TypeOK /\ RunOf(r) /\ main \subseteq Filing /\ refreshes \in [Run -> Nat]
      /\ reruns \in 0..MaxReruns /\ MaxReruns \in Nat
  BY ConstantsAssumption DEF Everything, TypeOK
<1> DEFINE w == [Unused EXCEPT !.manifest = main]
<1>2. w \in WorkflowRun
  BY <1>1, UnusedTyped DEF WorkflowRun
<1>3. w.manifest = main
  BY <1>1, UnusedTyped DEF WorkflowRun
<1>4. ~w.ready
  BY <1>1, UnusedTyped DEF WorkflowRun
<1>5. Queue(r, w) /\ UNCHANGED <<main, ledger, reruns, refreshes>> /\ runs[r].stage = "unused"
  BY DEF ScheduleDiscovery
<1>6. refreshes[r] = 0 /\ 0 <= reruns /\ ~(refreshes[r] > 0)
  BY <1>1, <1>5 DEF RunOf
<1> HIDE DEF w
<1>. QED BY <1>1, <1>2, <1>3, <1>4, <1>5, <1>6, QueueKeeps

\* A re-run keeps what the run has requested, and its manifest.
LEMMA RerunKeeps ==
    ASSUME Everything, NEW r \in Run, Rerun(r)
    PROVE  Everything'
<1>1. /\ TypeOK /\ RunOf(r) /\ main \subseteq Filing /\ refreshes \in [Run -> Nat]
      /\ reruns \in 0..MaxReruns /\ MaxReruns \in Nat
      /\ runs[r] \in WorkflowRun /\ runs[r].manifest \subseteq main
  BY ConstantsAssumption DEF Everything, TypeOK
<1>2. PICK S \in [Shard -> ShardState] :
         S = [s \in Shard |-> IF runs[r].shard[s] = "ok" THEN "ok" ELSE "todo"]
  BY DEF ShardState
<1>3. PICK w : w = [runs[r] EXCEPT !.shard = S, !.ready = FALSE]
  OBVIOUS
<1>4. w \in WorkflowRun
  BY <1>1, <1>3 DEF WorkflowRun
<1>5. w.manifest = runs[r].manifest /\ w.import = runs[r].import
  <2>1. w.manifest = runs[r].manifest
    BY <1>1, <1>3 DEF WorkflowRun
  <2>2. w.import = runs[r].import
    BY <1>1, <1>3 DEF WorkflowRun
  <2>. QED BY <2>1, <2>2
<1>6. ~w.ready
  BY <1>1, <1>3 DEF WorkflowRun
<1>7. Queue(r, w) /\ reruns' = reruns + 1 /\ reruns < MaxReruns
      /\ UNCHANGED <<main, ledger, refreshes>>
  BY <1>2, <1>3 DEF Rerun, Retried
<1>8. reruns' \in 0..MaxReruns /\ refreshes[r] <= reruns'
  BY <1>1, <1>7 DEF RunOf
<1>9. refreshes[r] > 0 => w.import /\ Complete(w.manifest)
  BY <1>1, <1>5 DEF RunOf
<1>10. w.manifest \subseteq main' /\ main \subseteq main' /\ main' \subseteq Filing
  BY <1>1, <1>5, <1>7
<1>. QED BY <1>4, <1>6, <1>7, <1>8, <1>9, <1>10, QueueKeeps

LEMMA EverythingNext ==
    ASSUME Everything, [Next]_idxVars
    PROVE  Everything'
<1>1. /\ TypeOK /\ ledger \in [Filing -> Decision]
      /\ \A o \in Run : RunOf(o)
      /\ runs \in [Run -> WorkflowRun] /\ \A o \in Run : runs[o] \in WorkflowRun
  BY DEF Everything, TypeOK
<1>2. ledger' = ledger => /\ ledger' \in [Filing -> Decision]
                          /\ \A F \in SUBSET Filing : Complete(F) => Complete(F)'
  BY <1>1 DEF Complete
\* A job that changes nothing but the stage of its run.
<1>3. ASSUME NEW r \in Run, NEW to \in Stage, runs' = [runs EXCEPT ![r].stage = to],
             UNCHANGED <<main, ledger, reruns, refreshes>>,
             runs[r].stage \notin Ended \cup {"unused"}, to # "unused",
             to = "success" => ~runs[r].import,
             to \in Running => (runs[r].stage \in Running
                                \/ \A o \in Run : runs[o].stage \notin Running),
             to \in Running => (to = "discover" <=> ~runs[r].import)
      PROVE  Everything'
  <2>1. /\ runs' \in [Run -> WorkflowRun] /\ (\A o \in Run \ {r} : runs'[o] = runs[o])
        /\ Moves(r, runs[r].stage, to) /\ runs'[r].ready = runs[r].ready
    BY <1>1, <1>3, StageMoves
  <2>2. runs'[r].ready => runs[r].ready \/ Complete(runs[r].manifest)
    BY <2>1
  <2>3. PICK from : from = runs[r].stage
    OBVIOUS
  <2>. QED BY <1>2, <1>3, <2>1, <2>2, <2>3, JobKeeps
<1>4. ASSUME NEW r \in Run, StartRun(r) PROVE Everything'
  <2>1. PICK to \in {"prepare", "discover"} : to = IF runs[r].import THEN "prepare" ELSE "discover"
    OBVIOUS
  <2>2. runs' = [runs EXCEPT ![r].stage = to]
    BY <1>1, <1>4, <2>1 DEF StartRun, Started
  <2>3. runs[r].stage = "pending" /\ \A o \in Run : runs[o].stage \notin Running
    BY <1>4 DEF StartRun, MayStart, Waiting, Busy
  <2>. QED BY <1>3, <1>4, <2>1, <2>2, <2>3 DEF StartRun, Stage, Running, Ended
<1>5. ASSUME NEW r \in Run, Discover(r) PROVE Everything'
  <2>1. runs[r].stage = "discover" /\ ~runs[r].import
    BY <1>1, <1>5 DEF Discover, TypeOK, Running
  <2>. QED BY <1>3, <1>5, <2>1 DEF Discover, Stage, Running, Ended
<1>6. ASSUME NEW r \in Run, Prepare(r) PROVE Everything'
  <2>1. runs[r].stage = "prepare" /\ runs[r].import
    BY <1>1, <1>6 DEF Prepare, TypeOK, Running
  <2>. QED BY <1>3, <1>6, <2>1 DEF Prepare, Stage, Running, Ended
<1>7. ASSUME NEW r \in Run, StartAggregate(r) PROVE Everything'
  <2>1. runs[r].stage = "shards" /\ runs[r].import
    BY <1>1, <1>7 DEF StartAggregate, TypeOK, Running
  <2>2. /\ runs' = [runs EXCEPT ![r].stage = "aggregate"]
        /\ UNCHANGED <<main, ledger, reruns, refreshes>>
    BY <1>7 DEF StartAggregate
  <2>3. /\ "aggregate" \in Stage /\ "aggregate" # "success" /\ "aggregate" # "unused"
        /\ "aggregate" # "discover"
        /\ runs[r].stage \in Running /\ runs[r].stage \notin Ended \cup {"unused"}
    BY <2>1 DEF Stage, Running, Ended
  <2>. QED BY <1>3, <2>1, <2>2, <2>3
<1>8. ASSUME NEW r \in Run, NEW s \in Shard, ImportShard(r, s) PROVE Everything'
  <2>1. /\ ledger' \in [Filing -> Decision]
        /\ \A F \in SUBSET Filing : Complete(F) => Complete(F)'
        /\ runs' \in [Run -> WorkflowRun] /\ (\A o \in Run \ {r} : runs'[o] = runs[o])
        /\ Moves(r, "shards", "shards") /\ runs'[r].ready = runs[r].ready
    BY <1>1, <1>8, AcceptedStays
  <2>2. runs[r].import /\ main' = main /\ reruns' = reruns /\ refreshes' = refreshes
    BY <1>1, <1>8 DEF ImportShard, TypeOK, Running
  <2>. QED BY <2>1, <2>2, JobKeeps DEF Running, Ended
<1>9. ASSUME NEW r \in Run, Aggregate(r) PROVE Everything'
  <2>1. /\ runs' \in [Run -> WorkflowRun] /\ (\A o \in Run \ {r} : runs'[o] = runs[o])
        /\ Moves(r, "aggregate", "request")
        /\ runs'[r].ready => Complete(runs[r].manifest)
    BY <1>1, <1>9, AggregateMarks
  <2>2. runs[r].import /\ UNCHANGED <<main, ledger, reruns, refreshes>>
    BY <1>1, <1>9 DEF Aggregate, TypeOK, Running
  <2>. QED BY <1>2, <2>1, <2>2, JobKeeps DEF Running, Ended
<1>10. ASSUME NEW r \in Run, RequestRefresh(r) PROVE Everything'
  <2>1. TypeOK' /\ RunOf(r)' /\ \A o \in Run \ {r} : Stands(o) /\ refreshes'[o] = refreshes[o]
    BY <1>1, <1>10, RequestKeeps
  <2>2. ledger' = ledger /\ reruns' \in {reruns, reruns + 1}
    BY <1>10 DEF RequestRefresh
  <2>3. ASSUME NEW o \in Run \ {r} PROVE RunOf(o)'
    BY <1>1, <1>2, <2>1, <2>2, OthersKept
  <2>. QED BY <2>1, <2>3 DEF Everything
<1>11. ASSUME UNCHANGED idxVars PROVE Everything'
  BY <1>11 DEF Everything, TypeOK, RunOf, Complete, idxVars
<1>. QED BY <1>4, <1>5, <1>6, <1>7, <1>8, <1>9, <1>10, <1>11, MergeKeeps, DiscoveryKeeps, RerunKeeps
         DEF Next, Job

LEMMA EverythingStarts ==
    ASSUME Init
    PROVE  Everything
<1>1. /\ ledger \in [Filing -> Decision] /\ main = {} /\ reruns = 0
      /\ refreshes \in [Run -> Nat] /\ \A r \in Run : refreshes[r] = 0 /\ runs[r] = Unused
  BY DEF Init, Decision
<1>2. runs \in [Run -> WorkflowRun]
  BY UnusedTyped DEF Init
<1>3. 0 \in 0..MaxReruns
  BY ConstantsAssumption
<1>4. TypeOK
  BY <1>1, <1>2, <1>3, UnusedTyped DEF TypeOK, Running
<1>5. ASSUME NEW r \in Run PROVE RunOf(r)
  BY <1>1, UnusedTyped DEF RunOf, Ended
<1>. QED BY <1>4, <1>5 DEF Everything

----------------------------------------------------------------------------
(* Theorems *)

\* The strengthening of the two results below, as an invariant of the model.
THEOREM IdxInvariant == Spec => []Everything
BY EverythingStarts, EverythingNext, PTL DEF Spec

\* Records have their types, a run's stage fits its kind, and the concurrency
\* group of the idx-filings workflow lets one run work at a time, whichever
\* runs are queued, displaced and run again.
THEOREM IdxTypeCorrect == Spec => []TypeOK
<1>1. Everything => TypeOK
  BY DEF Everything
<1>. QED BY <1>1, IdxInvariant, PTL

\* A research refresh is requested, and an import run succeeds, only when each
\* filing of the run's reviewed manifest is accepted in the ledger, and each try
\* of a run requests one at most ("Fail closed on incomplete durable progress").
THEOREM RefreshesAreEarned == Spec => []RefreshOnlyWhenComplete
<1>1. ASSUME Everything PROVE RefreshOnlyWhenComplete
  <2>1. ASSUME NEW r \in Run
        PROVE  /\ refreshes[r] > 0 \/ (runs[r].import /\ runs[r].stage = "success") =>
                    Complete(runs[r].manifest)
               /\ runs[r].import /\ runs[r].stage = "success" => refreshes[r] \in 1..(reruns + 1)
               /\ refreshes[r] > 0 => runs[r].import
    <3>1. refreshes[r] \in Nat /\ reruns \in Nat /\ RunOf(r)
      BY <1>1 DEF Everything, TypeOK
    <3>. QED BY <3>1 DEF RunOf
  <2>. QED BY <2>1 DEF RefreshOnlyWhenComplete, Complete
<1>. QED BY <1>1, IdxInvariant, PTL
=============================================================================
