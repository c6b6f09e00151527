-------------------------- MODULE ProductionDbLock --------------------------
(***************************************************************************)
(* operations/production_db_lock.py: a wrapper that runs one production    *)
(* database command while its own session holds an advisory lock, shared   *)
(* or exclusive.  The wrapper polls for the lock until a deadline, runs    *)
(* the command as a child, unlocks and closes.                             *)
(*                                                                         *)
(* The lock belongs to the wrapper's database session, not to the child.   *)
(* If the session is lost while the child runs, PostgreSQL frees the lock  *)
(* and the child goes on.  Wrappers may also die, or fail to connect.      *)
(* MaxLost bounds how often such a mishap happens; MaxPolls stands for     *)
(* the deadline of --wait-seconds.                                         *)
(***************************************************************************)
EXTENDS Naturals, FiniteSets

CONSTANTS
    Job,       \* wrapped commands
    Mode,      \* "shared" or "exclusive", for each
    MaxPolls,  \* pauses before the deadline
    MaxLost    \* bound of the model on mishaps

ASSUME LockAssumption ==
    /\ Mode \in [Job -> {"shared", "exclusive"}]
    /\ MaxPolls \in Nat
    /\ MaxLost \in Nat

Unlocked == 75            \* LOCK_UNAVAILABLE_EXIT
Raised == 1               \* an exception leaves the process
Running == 256            \* no exit code yet
ChildCode == {0, 1, 2, 10}
ExitCode == ChildCode \cup {Unlocked, Running}
Phase == {"idle", "waiting", "running", "releasing", "done"}

VARIABLES
    phase,    \* where each wrapper is
    polls,    \* how often it has paused
    holders,  \* the jobs whose session holds the lock
    child,    \* the exit code of its child
    exit,     \* its own exit code
    lost,     \* mishaps so far
    overlap   \* history: pairs of incompatible children that ran together

lockVars == <<phase, polls, holders, child, exit, lost, overlap>>

Conflict(i, j) == ~(Mode[i] = "shared" /\ Mode[j] = "shared")

Move(j, to) == phase' = [phase EXCEPT ![j] = to]
End(j, code) == Move(j, "done") /\ exit' = [exit EXCEPT ![j] = code]

FaultSharedIsFree(j) == Mode[j] = "shared" \/ holders = {}

\* pg_try_advisory_lock or pg_try_advisory_lock_shared succeeds.
Compatible(j) == \A h \in holders : ~Conflict(h, j)

LockInit ==
    /\ phase = [j \in Job |-> "idle"]
    /\ polls = [j \in Job |-> 0]
    /\ holders = {}
    /\ child = [j \in Job |-> Running]
    /\ exit = [j \in Job |-> Running]
    /\ lost = 0
    /\ overlap = {}

\* The wrapper connects and computes its deadline.
Open(j) ==
    /\ phase[j] = "idle"
    /\ Move(j, "waiting")
    /\ UNCHANGED <<polls, holders, child, exit, lost, overlap>>

\* The lock is acquired and the command started.
Acquire(j) ==
    /\ phase[j] = "waiting"
    /\ Compatible(j)
    /\ holders' = holders \cup {j}
    /\ Move(j, "running")
    /\ overlap' = overlap \cup
           {{i, j} : i \in {k \in Job \ {j} : phase[k] = "running" /\ Conflict(k, j)}}
    /\ UNCHANGED <<polls, child, exit, lost>>

\* The lock is taken and time remains.
Poll(j) ==
    /\ phase[j] = "waiting"
    /\ ~Compatible(j)
    /\ polls[j] < MaxPolls
    /\ polls' = [polls EXCEPT ![j] = @ + 1]
    /\ UNCHANGED <<phase, holders, child, exit, lost, overlap>>

FaultWaitsForEver(j) == FALSE /\ UNCHANGED lockVars

\* The lock is taken at the deadline: the command is never run.
GiveUp(j) ==
    /\ phase[j] = "waiting"
    /\ ~Compatible(j)
    /\ polls[j] = MaxPolls
    /\ End(j, Unlocked)
    /\ UNCHANGED <<polls, holders, child, lost, overlap>>

\* The child ends, or raises before it starts.
ChildExits(j, code) ==
    /\ phase[j] = "running"
    /\ child' = [child EXCEPT ![j] = code]
    /\ Move(j, "releasing")
    /\ UNCHANGED <<polls, holders, exit, lost, overlap>>

FaultTrustsTheChild(j) ==
    /\ phase[j] = "releasing"
    /\ End(j, child[j])
    /\ holders' = holders \ {j}
    /\ UNCHANGED <<polls, child, lost, overlap>>

\* The wrapper unlocks and returns the code of its child.  If its session is
\* gone the unlock raises instead.
Release(j) ==
    /\ phase[j] = "releasing"
    /\ End(j, IF j \in holders THEN child[j] ELSE Raised)
    /\ holders' = holders \ {j}
    /\ UNCHANGED <<polls, child, lost, overlap>>

\* The wrapper fails to connect or to ask for the lock, or its machine is
\* stopped, together with the child.
Die(j) ==
    /\ phase[j] # "done"
    /\ lost < MaxLost
    /\ lost' = lost + 1
    /\ End(j, Raised)
    /\ holders' = holders \ {j}
    /\ UNCHANGED <<polls, child, overlap>>

\* The session of a holder ends; its child does not notice.
SessionLost(j) ==
    /\ j \in holders
    /\ lost < MaxLost
    /\ lost' = lost + 1
    /\ holders' = holders \ {j}
    /\ UNCHANGED <<phase, polls, child, exit, overlap>>

Wrapper(j) == Open(j) \/ Acquire(j) \/ Poll(j) \/ GiveUp(j) \/ Release(j)

LockStep(j) ==
    \/ Wrapper(j)
    \/ \E code \in ChildCode : ChildExits(j, code)
    \/ Die(j)
    \/ SessionLost(j)

LockNext == \E j \in Job : LockStep(j)

LockSpec == LockInit /\ [][LockNext]_lockVars

\* A wrapper goes on.  Nothing is assumed of the children: one may hang.
FairLockSpec == LockSpec /\ \A j \in Job : WF_lockVars(Wrapper(j))
----------------------------------------------------------------------------
(* Properties *)

\* Variables keep their types, and no wrapper pauses past its deadline.
LockTypeOK ==
    /\ phase \in [Job -> Phase]
    /\ polls \in [Job -> 0..MaxPolls]
    /\ holders \subseteq Job
    /\ child \in [Job -> ExitCode]
    /\ exit \in [Job -> ExitCode]
    /\ lost \in 0..MaxLost
    /\ overlap \subseteq {{i, j} : i, j \in Job}

\* A session holds the lock only while its wrapper runs or reaps a child,
\* holders are compatible, and without mishaps every running child is covered.
LockCoversChild ==
    /\ \A h \in holders : phase[h] \in {"running", "releasing"}
    /\ \A g, h \in holders : g # h => ~Conflict(g, h)
    /\ lost = 0 => \A j \in Job : phase[j] \in {"running", "releasing"} => j \in holders

\* Two production writers run together only if both are import shards, as long
\* as no session was lost; then every running child is covered by the lock,
\* and whatever happens the lock is held for a child or not at all.
WritersSerialized ==
    /\ LockCoversChild
    /\ lost = 0 => overlap = {}

\* Even when sessions are lost: of two incompatible commands that ran
\* together at most one is reported as a success, because the wrapper whose
\* session was lost fails when it unlocks (run_with_production_db_lock).
NoSilentOverlap ==
    \A i, j \in Job : i # j /\ {i, j} \in overlap => ~(exit[i] = 0 /\ exit[j] = 0)

\* Waiting is bounded by the deadline, also when the holder never ends.
WaitIsBounded == \A j \in Job : phase[j] = "waiting" ~> phase[j] # "waiting"
=============================================================================
