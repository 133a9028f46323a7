--------------------- MODULE FoundryMutationLock_proofs ---------------------
(* What the lock files guarantee to any set of processes, by induction. *)
EXTENDS FoundryMutationLock, TLAPS

\* Dead lock files, and whatever is done about them, come from crashes.
DeadFromCrash ==
  /\ \A f \in Files : lock[f] = Dead => crashes > 0
  /\ \A p \in Procs : want[p] # NoFile => crashes > 0
  /\ stolen => crashes > 0

\* While nothing was stolen, the file of a held lock names its holder; this is
\* the conjunct of MutualExclusion the rest follows from.
HeldIsNamed == ~stolen => \A p \in Procs : \A f \in held[p] : lock[f] = p

LockInv == LockTypeOK /\ DeadFromCrash /\ HeldIsNamed

LEMMA LockInvInit == LockInit => LockInv
<1> SUFFICES ASSUME LockInit
             PROVE  LockInv
  OBVIOUS
<1>1. LockTypeOK
  <2>1. lock \in [Files -> Procs \cup {Free, Dead}] /\ held \in [Procs -> SUBSET Files]
    BY DEF LockInit
  <2>2. want \in [Procs -> Files \cup {NoFile}] /\ attempt \in [Procs -> Attempts]
    BY DEF LockInit, Attempts
  <2>3. stolen \in BOOLEAN
    BY DEF LockInit
  <2>4. crashes \in 0..MaxCrashes
    BY FoundryMutationLockAssumption DEF LockInit
  <2> QED
    BY <2>1, <2>2, <2>3, <2>4 DEF LockTypeOK
<1>2. DeadFromCrash
  BY FoundryMutationLockAssumption DEF LockInit, DeadFromCrash
<1>3. HeldIsNamed
  BY DEF LockInit, HeldIsNamed
<1> QED
  BY <1>1, <1>2, <1>3 DEF LockInv

LEMMA LockInvStep == LockInv /\ [LockNext]_lockVars => LockInv'
<1> USE FoundryMutationLockAssumption DEF LockInv, LockTypeOK, Attempts
<1> SUFFICES ASSUME LockInv, [LockNext]_lockVars
             PROVE  LockInv'
  OBVIOUS
<1>1. ASSUME NEW p \in Procs, NEW f \in Files, Acquire(p, f)
      PROVE  LockInv'
  <2>1. LockTypeOK'
    BY <1>1 DEF Acquire, Trying, Loop
  <2>2. DeadFromCrash'
    BY <1>1 DEF Acquire, Loop, DeadFromCrash
  <2>3. HeldIsNamed'
    BY <1>1 DEF Acquire, HeldIsNamed
  <2> QED
    BY <2>1, <2>2, <2>3
<1>2. ASSUME NEW p \in Procs, NEW f \in Files, Refused(p, f)
      PROVE  LockInv'
  BY <1>2 DEF Refused, Loop, DeadFromCrash, HeldIsNamed
<1>3. ASSUME NEW p \in Procs, NEW f \in Files, NEW stage \in {"remove", "sweep"},
             FindDead(p, f, stage)
      PROVE  LockInv'
  BY <1>3 DEF FindDead, Loop, DeadFromCrash, HeldIsNamed
<1>4. ASSUME NEW p \in Procs, NEW f \in Files, Remove(p, f)
      PROVE  LockInv'
  <2>1. want[p] # NoFile
    BY <1>4 DEF Remove, Trying
  <2>2. LockTypeOK'
    BY <1>4 DEF Remove, Loop
  <2>3. DeadFromCrash'
    BY <1>4, <2>1 DEF Remove, Loop, DeadFromCrash
  <2>4. HeldIsNamed'
    BY <1>4 DEF Remove, HeldIsNamed
  <2> QED
    BY <2>2, <2>3, <2>4
<1>5. ASSUME NEW p \in Procs, NEW files \in SUBSET held[p], Release(p, files)
      PROVE  LockInv'
  <2>1. LockTypeOK'
    BY <1>5 DEF Release
  <2>2. DeadFromCrash'
    BY <1>5 DEF Release, DeadFromCrash
  <2>3. HeldIsNamed'
    BY <1>5 DEF Release, HeldIsNamed
  <2> QED
    BY <2>1, <2>2, <2>3
<1>6. ASSUME NEW p \in Procs, CrashLocks(p)
      PROVE  LockInv'
  <2>1. LockTypeOK'
    BY <1>6 DEF CrashLocks, Loop
  <2>2. DeadFromCrash'
    BY <1>6 DEF CrashLocks, Loop, DeadFromCrash
  <2>3. HeldIsNamed'
    BY <1>6 DEF CrashLocks, HeldIsNamed
  <2> QED
    BY <2>1, <2>2, <2>3
<1>7. CASE UNCHANGED lockVars
  BY <1>7 DEF lockVars, DeadFromCrash, HeldIsNamed
<1> QED
  BY <1>1, <1>2, <1>3, <1>4, <1>5, <1>6, <1>7 DEF LockNext, LockStep

\* The lock files keep the inductive invariant, in any order of acquisitions,
\* reclaims, releases and crashes of withMutationLock.
THEOREM LocksKeepInv == LockSpec => []LockInv
  BY LockInvInit, LockInvStep, PTL DEF LockSpec

LEMMA InvExcludes == LockInv => MutualExclusion
  BY FoundryMutationLockAssumption DEF LockInv, LockTypeOK, HeldIsNamed, MutualExclusion

\* withMutationLock excludes, up to the reclaim race: a lock has two holders
\* only after the file of a live process was removed.
THEOREM LocksExclude == LockSpec => []MutualExclusion
  BY LocksKeepInv, InvExcludes, PTL

\* The liveness probe never gives up a live owner: the race needs a crash.
THEOREM TheftNeedsCrash == LockSpec => []StolenOnlyAfterCrash
<1>1. LockInv => StolenOnlyAfterCrash
  BY DEF LockInv, DeadFromCrash, StolenOnlyAfterCrash
<1> QED
  BY LocksKeepInv, <1>1, PTL
=============================================================================
