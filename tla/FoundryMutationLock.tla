------------------------ MODULE FoundryMutationLock ------------------------
(***************************************************************************)
(* withMutationLock: the lock files under foundry/locks that serialise the *)
(* processes writing the Foundry file store.  A lock file is linked        *)
(* exclusively and names the pid of its owner.  Nobody waits: who finds    *)
(* the file there fails at once, unless the owner is dead; then it removes *)
(* the file and tries once more.  Reading the owner and removing the file  *)
(* are separate steps, and the removal is by path, whoever owns it by then.*)
(***************************************************************************)
EXTENDS Naturals

CONSTANTS
  Procs,       \* processes, each of which restarts with a new pid after a crash
  Files,       \* lock files: target-*.lock, run-*.lock, state-index.lock
  Free,        \* content of a file that does not exist
  Dead,        \* content of a file whose owner pid is gone
  NoFile,      \* the process is not inside the acquisition loop
  MaxCrashes   \* bound: crashes of processes

ASSUME FoundryMutationLockAssumption ==
  /\ Free \notin Procs
  /\ Dead \notin Procs
  /\ Free # Dead
  /\ NoFile \notin Files
  /\ MaxCrashes \in Nat

VARIABLES
  lock,      \* what each lock file names as its owner
  held,      \* locks whose operation() each process is running
  want,      \* the file each process is about to remove or to link again
  attempt,   \* where in the acquisition loop the process is
  stolen,    \* history: a lock file of a live process was removed
  crashes    \* crashes so far

lockVars == <<lock, held, want, attempt, stolen, crashes>>

Attempts == {"first", "remove", "second", "sweep"}

LockTypeOK ==
  /\ lock \in [Files -> Procs \cup {Free, Dead}]
  /\ held \in [Procs -> SUBSET Files]
  /\ want \in [Procs -> Files \cup {NoFile}]
  /\ attempt \in [Procs -> Attempts]
  /\ stolen \in BOOLEAN
  /\ crashes \in 0..MaxCrashes

LockInit ==
  /\ lock = [f \in Files |-> Free]
  /\ held = [p \in Procs |-> {}]
  /\ want = [p \in Procs |-> NoFile]
  /\ attempt = [p \in Procs |-> "first"]
  /\ stolen = FALSE
  /\ crashes = 0

-----------------------------------------------------------------------------
Trying(p, f, stage) ==
  IF stage = "first" THEN want[p] = NoFile /\ f \notin held[p]
                     ELSE want[p] = f /\ attempt[p] = stage

Loop(p, f, stage) ==
  /\ want' = [want EXCEPT ![p] = f]
  /\ attempt' = [attempt EXCEPT ![p] = stage]

\* Mutant: the lock file is renamed into place instead of linked exclusively.
AcquireByRename(p, f) ==
  /\ Trying(p, f, "first") \/ Trying(p, f, "second")
  /\ lock' = [lock EXCEPT ![f] = p]
  /\ held' = [held EXCEPT ![p] = @ \cup {f}]
  /\ Loop(p, NoFile, "first")
  /\ UNCHANGED <<stolen, crashes>>

\* writeExclusive links the lock file: it fails if the path exists.
Acquire(p, f) ==
  /\ Trying(p, f, "first") \/ Trying(p, f, "second")
  /\ lock[f] = Free
  /\ lock' = [lock EXCEPT ![f] = p]
  /\ held' = [held EXCEPT ![p] = @ \cup {f}]
  /\ Loop(p, NoFile, "first")
  /\ UNCHANGED <<stolen, crashes>>

\* The file exists.  A live owner fails the first attempt, and so does an owner
\* that could not be read or whose pid was reused; the second attempt reclaims
\* no more.
Refused(p, f) ==
  /\ Trying(p, f, "first") \/ Trying(p, f, "second")
  /\ lock[f] # Free
  /\ Loop(p, NoFile, "first")
  /\ UNCHANGED <<lock, held, stolen, crashes>>

\* reclaimAbandonedMutationLock reads the owner and finds its pid dead, for an
\* acquisition ("remove") or at the start of a process ("sweep").
FindDead(p, f, stage) ==
  /\ Trying(p, f, "first")
  /\ lock[f] = Dead
  /\ Loop(p, f, stage)
  /\ UNCHANGED <<lock, held, stolen, crashes>>

\* ... and removes the path.
Remove(p, f) ==
  /\ Trying(p, f, "remove") \/ Trying(p, f, "sweep")
  /\ lock' = [lock EXCEPT ![f] = Free]
  /\ stolen' = (stolen \/ lock[f] \in Procs)
  /\ IF attempt[p] = "sweep" THEN Loop(p, NoFile, "first") ELSE Loop(p, f, "second")
  /\ UNCHANGED <<held, crashes>>

\* Release of the locks a process holds, inner before outer: it removes a file
\* only with its own token in it.
Release(p, files) ==
  /\ files \subseteq held[p]
  /\ held' = [held EXCEPT ![p] = @ \ files]
  /\ lock' = [f \in Files |-> IF f \in files /\ lock[f] = p THEN Free ELSE lock[f]]
  /\ UNCHANGED <<want, attempt, stolen, crashes>>

\* A release that meets somebody else's token fails the operation.
LostLock(p, files) == \E f \in files : lock[f] \notin {p, Free}

\* The process dies; its lock files stay and name a dead pid.
CrashLocks(p) ==
  /\ crashes < MaxCrashes
  /\ crashes' = crashes + 1
  /\ lock' = [f \in Files |-> IF lock[f] = p THEN Dead ELSE lock[f]]
  /\ held' = [held EXCEPT ![p] = {}]
  /\ Loop(p, NoFile, "first")
  /\ UNCHANGED stolen

-----------------------------------------------------------------------------
\* Processes that lock and unlock in any order.
LockStep(p) ==
  \/ \E f \in Files : Acquire(p, f) \/ Refused(p, f) \/ Remove(p, f)
  \/ \E f \in Files, stage \in {"remove", "sweep"} : FindDead(p, f, stage)
  \/ \E files \in SUBSET held[p] : Release(p, files)
  \/ CrashLocks(p)

LockNext == \E p \in Procs : LockStep(p)

LockSpec == LockInit /\ [][LockNext]_lockVars

-----------------------------------------------------------------------------
\* "Foundry storage mutation is already in progress": as long as no reclaimer
\* removed the file of a live process, a lock has one holder and the file
\* names it.
MutualExclusion ==
  ~stolen => /\ \A p \in Procs : \A f \in held[p] : lock[f] = p
             /\ \A p, q \in Procs : p # q => held[p] \cap held[q] = {}

\* A live process loses its lock file only after some process has died: the
\* liveness probe never takes a live owner for a dead one.
StolenOnlyAfterCrash == stolen => crashes > 0
=============================================================================
