---------------------- MODULE FoundryActivation_proofs ----------------------
(* Theorems about the version registry of one target, for any processes,   *)
(* versions, bounds and crashes.  The invariant is built in layers: the    *)
(* shape of calls, the lock file (FoundryMutationLock_proofs), what the    *)
(* history promises whatever happens to the lock, and what holding the     *)
(* lock keeps others from doing.                                           *)
EXTENDS FoundryActivation, FoundryMutationLock_proofs

Switching == {"activate", "rollback"}

-----------------------------------------------------------------------------
(* The shape of calls. *)

\* Which calls reach which point, and what they carry.
Jobs ==
  \A p \in Procs :
    LET op == job[p].op IN
    /\ op \in Switching \cup {"register"} => job[p].to \in Versions
    /\ op = "rollback" => job[p].receipt # NoReceipt
    /\ pc[p] = "idle" => op = "none"
    /\ pc[p] \in {"lock", "check"} => op \in Switching \cup {"register", "activation"}
    /\ pc[p] \in {"epoch", "mark", "qualify", "publish"} => op = "register"
    /\ pc[p] \in {"commit", "project"} => op \in Switching
    /\ pc[p] = "repair" => op \in Switching \cup {"activation"}
    /\ pc[p] = "confirm" => op \in Switching \cup {"register"}
    /\ pc[p] \in {"readQ", "readV", "readT", "readP"} => op = "read"

Shape == DataTypeOK /\ Jobs

LEMMA ShapeInit == Init => Shape
<1> SUFFICES ASSUME Init
             PROVE  Shape
  OBVIOUS
<1>1. NoJob \in Job /\ NoView \in View
  BY DEF NoJob, Job, Ops, NoView, View
<1>2. DataTypeOK
  BY <1>1 DEF Init, DataTypeOK, Pc
<1>3. Jobs
  BY DEF Init, Jobs, NoJob, Switching
<1> QED
  BY <1>2, <1>3 DEF Shape

LEMMA ShapeStep == Shape /\ [Next]_vars => Shape'
<1> SUFFICES ASSUME Shape, [Next]_vars
             PROVE  Shape'
  OBVIOUS
<1> USE DEF Shape, Switching
<1>0. NoJob \in Job /\ NoView \in View
  BY DEF NoJob, Job, Ops, NoView, View
<1>1. ASSUME NEW p \in Procs, CallSomething(p), instance' = instance
      PROVE  Shape'
  <2>1. ASSUME NEW op \in Ops, NEW v \in Versions \cup {NoVersion}, NEW receipt \in Receipts \cup {NoReceipt},
               NEW at \in Nat, NEW label \in {"lock", "readQ"}, Call(p, op, v, receipt, at, label),
               op \in Switching \cup {"register"} => v \in Versions,
               op = "rollback" => receipt # NoReceipt,
               label = "lock" => op \in Switching \cup {"register", "activation"},
               label = "readQ" => op = "read"
        PROVE  Shape'
    <3>1. [op |-> op, to |-> v, receipt |-> receipt, at |-> at] \in Job
      BY <2>1 DEF Job
    <3>2. DataTypeOK'
      BY <1>1, <2>1, <3>1 DEF DataTypeOK, Call, Go, registryVars, Pc
    <3>3. Jobs'
      BY <2>1 DEF DataTypeOK, Jobs, Call, Go
    <3> QED
      BY <3>2, <3>3
  <2>2. instance.versions \subseteq Versions
    BY FoundryActivationAssumption DEF DataTypeOK, Versions
  <2>3. ASSUME NEW v \in instance.versions, Register(p, v)
        PROVE  Shape'
    BY <2>1, <2>2, <2>3 DEF Register, Ops
  <2>4. ASSUME NEW v \in instance.versions, NEW receipt \in Receipts \cup {NoReceipt},
               NEW at \in 0..Len(transactions),
               CompareAndSwapActivation(p, v, receipt, at) \/ Rollback(p, v, receipt, at)
        PROVE  Shape'
    <3>1. v \in Versions /\ at \in Nat
      BY <2>2, <2>4 DEF DataTypeOK
    <3>2. CASE CompareAndSwapActivation(p, v, receipt, at)
      BY <2>1, <3>1, <3>2 DEF CompareAndSwapActivation, Ops
    <3>3. CASE Rollback(p, v, receipt, at)
      BY <2>1, <3>1, <3>3 DEF Rollback, Ops
    <3> QED
      BY <2>4, <3>2, <3>3
  <2>5. ASSUME Activation(p) \/ Read(p)
        PROVE  Shape'
    BY <2>1, <2>5 DEF Activation, Read, Ops
  <2> QED
    BY <1>1, <2>3, <2>4, <2>5 DEF CallSomething
<1>2. ASSUME NEW p \in Procs, Locked(p) \/ Contended(p), instance' = instance
      PROVE  Shape'
  <2>1. PICK label \in {"epoch", "check", "abort"} : Go(p, label) /\ (label = "epoch" => job[p].op = "register")
    BY <1>2 DEF Locked, Contended
  <2>2. UNCHANGED <<registryVars, job, view, disturbed, told>> /\ pc[p] = "lock"
    BY <1>2 DEF Locked, Contended
  <2> QED
    BY <1>2, <2>1, <2>2 DEF DataTypeOK, Jobs, Go, registryVars, Pc
<1>3. ASSUME NEW p \in Procs, OwnerDead(p) \/ RemoveAbandoned(p) \/ Sweep(p), instance' = instance
      PROVE  Shape'
  BY <1>3 DEF DataTypeOK, Jobs, OwnerDead, RemoveAbandoned, Sweep, registryVars, callVars
<1>4. ASSUME NEW p \in Procs, Idle(p), UNCHANGED registryVars, told' \in Nat, instance' = instance
      PROVE  Shape'
  <2>1. DataTypeOK'
    BY <1>0, <1>4 DEF DataTypeOK, Idle, Go, registryVars, Pc
  <2>2. Jobs'
    BY <1>4 DEF DataTypeOK, Jobs, Idle, Go, NoJob
  <2> QED
    BY <2>1, <2>2
<1>5. ASSUME NEW p \in Procs, Crash(p) \/ Return(p), instance' = instance
      PROVE  Shape'
  BY <1>4, <1>5 DEF Crash, Return, DataTypeOK, Job
<1>6. ASSUME NEW p \in Procs, EnsureEpoch(p) \/ MarkEpoch(p), instance' = instance
      PROVE  Shape'
  <2>1. PICK label \in {"check", "mark", "abort"} : Go(p, label)
    BY <1>6 DEF EnsureEpoch, MarkEpoch
  <2>2. job[p].op = "register"
    BY <1>6 DEF EnsureEpoch, MarkEpoch, Jobs
  <2>3. DataTypeOK'
    BY <1>6, <2>1 DEF DataTypeOK, EnsureEpoch, MarkEpoch, Publish, Go, Pc
  <2>4. Jobs'
    BY <1>6, <2>1, <2>2 DEF DataTypeOK, Jobs, EnsureEpoch, MarkEpoch, Go
  <2> QED
    BY <2>3, <2>4
<1>7. ASSUME NEW p \in Procs, RegisterCheck(p), instance' = instance
      PROVE  Shape'
  <2>1. PICK label \in {"finish", "abort", "qualify"} : Go(p, label)
    BY <1>7 DEF RegisterCheck, RegisterVerdict
  <2> QED
    BY <1>7, <2>1 DEF RegisterCheck, DataTypeOK, Jobs, Go, registryVars, Pc
<1>8. ASSUME NEW p \in Procs, PublishQualification(p) \/ PublishVersion(p), instance' = instance
      PROVE  Shape'
  <2>1. job[p].to \in Versions /\ job[p].op = "register"
    BY <1>8 DEF PublishQualification, PublishVersion, Jobs
  <2>2. DataTypeOK'
    BY <1>8, <2>1 DEF PublishQualification, PublishVersion, DataTypeOK, Publish, Go, Pc
  <2>3. Jobs'
    BY <1>8, <2>1 DEF PublishQualification, PublishVersion, DataTypeOK, Jobs, Go
  <2> QED
    BY <2>2, <2>3
<1>9. ASSUME NEW p \in Procs, NEW t \in Nat, See(p, "t", t),
             NEW label \in Pc, Go(p, label), UNCHANGED <<job, told>>, instance' = instance,
             epoch' \in {"absent", "bare", "marked"}, UNCHANGED <<qualifications, versions, pointer>>,
             transactions' \in Seq(Transactions), disturbed' \in [Procs -> BOOLEAN],
             label \in {"repair", "finish", "abort", "project", "commit"},
             label \in {"commit", "project"} => job[p].op \in Switching,
             label = "repair" => job[p].op \in Switching \cup {"activation"},
             pc[p] # "idle"
      PROVE  Shape'
  <2>1. view' \in [Procs -> View]
    BY <1>9 DEF DataTypeOK, View, See
  <2>2. DataTypeOK'
    BY <1>9, <2>1 DEF DataTypeOK, Go
  <2>3. Jobs'
    BY <1>9 DEF DataTypeOK, Jobs, Go
  <2> QED
    BY <2>2, <2>3
<1>10. ASSUME NEW p \in Procs, SwitchCheck(p), instance' = instance
       PROVE  Shape'
  <2>1. PICK label \in {"repair", "abort", "commit"} : Go(p, label)
    BY <1>10 DEF SwitchCheck, SwitchVerdict
  <2>2. Len(transactions) \in Nat
    BY DEF DataTypeOK
  <2> QED
    BY <1>9, <1>10, <2>1, <2>2 DEF SwitchCheck, registryVars, DataTypeOK, Pc
<1>11. ASSUME NEW p \in Procs, WriteTransaction(p), instance' = instance
       PROVE  Shape'
  <2>1. job[p].op \in Switching /\ job[p] \in Job /\ job[p].to \in Versions
    BY <1>11 DEF WriteTransaction, Jobs, DataTypeOK
  <2>2. job[p].at \in Nat /\ [kind |-> job[p].op, to |-> job[p].to, receipt |-> job[p].receipt] \in Transactions
    BY <2>1 DEF Job, Transactions
  <2>3. CASE Len(transactions) = job[p].at
    <3>1. disturbed' \in [Procs -> BOOLEAN]
      BY <1>11, <2>3 DEF WriteTransaction, Publish
    <3>2. transactions' \in Seq(Transactions)
      BY <1>11, <2>2, <2>3 DEF WriteTransaction, DataTypeOK
    <3>3. See(p, "t", job[p].at + 1) /\ Go(p, "project") /\ job[p].at + 1 \in Nat
      BY <1>11, <2>2, <2>3 DEF WriteTransaction
    <3> QED
      BY <1>9, <1>11, <2>1, <3>1, <3>2, <3>3 DEF WriteTransaction, DataTypeOK, Pc
  <2>4. CASE Len(transactions) # job[p].at
    BY <1>11, <2>4 DEF WriteTransaction, DataTypeOK, Jobs, Go, Pc
  <2> QED
    BY <2>3, <2>4
<1>12. ASSUME NEW p \in Procs, ActivationCheck(p), instance' = instance
       PROVE  Shape'
  <2>1. PICK label \in {"repair", "abort", "finish"} : Go(p, label)
    BY <1>12 DEF ActivationCheck
  <2>2. Len(transactions) \in Nat
    BY DEF DataTypeOK
  <2> QED
    BY <1>9, <1>12, <2>1, <2>2 DEF ActivationCheck, registryVars, DataTypeOK, Pc
<1>13. ASSUME NEW p \in Procs, RepairActivationProjection(p), instance' = instance
       PROVE  Shape'
  <2>1. PICK label \in {"finish", "confirm"} : Go(p, label) /\ (label = "confirm" => pc[p] = "project")
    BY <1>13 DEF RepairActivationProjection
  <2>2. pointer' \in Nat
    BY <1>13 DEF RepairActivationProjection, DataTypeOK, View
  <2>3. disturbed' \in [Procs -> BOOLEAN]
    BY <1>13 DEF RepairActivationProjection, Publish, DataTypeOK
  <2>4. DataTypeOK'
    BY <1>13, <2>1, <2>2, <2>3 DEF RepairActivationProjection, DataTypeOK, Go, Pc
  <2>5. Jobs'
    BY <1>13, <2>1 DEF RepairActivationProjection, DataTypeOK, Jobs, Go
  <2> QED
    BY <2>4, <2>5
<1>14. ASSUME NEW p \in Procs, RepairFails(p) \/ Confirm(p), instance' = instance
       PROVE  Shape'
  <2>1. PICK label \in {"finish", "abort"} : Go(p, label)
    BY <1>14 DEF RepairFails, Confirm
  <2> QED
    BY <1>14, <2>1 DEF RepairFails, Confirm, DataTypeOK, Jobs, Go, registryVars, Pc
<1>15. ASSUME NEW p \in Procs, instance' = instance,
              ReadQualifications(p) \/ ReadVersions(p) \/ ReadTransactions(p) \/ ReadPointer(p)
       PROVE  Shape'
  <2>1. PICK label \in {"finish", "abort", "readV", "readT", "readP"} : Go(p, label)
    BY <1>15 DEF ReadQualifications, ReadVersions, ReadTransactions, ReadPointer
  <2>2. view' \in [Procs -> View]
    <3>1. /\ view \in [Procs -> View] /\ Len(transactions) \in Nat
          /\ qualifications \in SUBSET Versions /\ versions \in SUBSET Versions
      BY DEF DataTypeOK
    <3>2. CASE ReadQualifications(p)
      BY <3>1, <3>2 DEF ReadQualifications, See, View
    <3>3. CASE ReadVersions(p)
      BY <3>1, <3>3 DEF ReadVersions, See, View
    <3>4. CASE ReadTransactions(p)
      BY <3>1, <3>4 DEF ReadTransactions, See, View
    <3>5. CASE ReadPointer(p)
      BY <3>1, <3>5 DEF ReadPointer
    <3> QED
      BY <1>15, <3>2, <3>3, <3>4, <3>5
  <2>3. UNCHANGED <<registryVars, job, disturbed, told>> /\ job[p].op = "read"
    BY <1>15 DEF ReadQualifications, ReadVersions, ReadTransactions, ReadPointer, Jobs
  <2> QED
    BY <1>15, <2>1, <2>2, <2>3 DEF DataTypeOK, Jobs, Go, registryVars, Pc
<1>16. CASE UNCHANGED vars
  BY <1>16 DEF vars, registryVars, callVars, DataTypeOK, Jobs
<1>17. instance.procs \subseteq Procs
  BY FoundryActivationAssumption DEF DataTypeOK
<1> QED
  BY <1>17, <1>1, <1>2, <1>3, <1>5, <1>6, <1>7, <1>8, <1>10, <1>11, <1>12, <1>13, <1>14, <1>15, <1>16
  DEF Next, LockFiles, Work

-----------------------------------------------------------------------------
(* What a step of one process leaves alone. *)

Step(p) == CallSomething(p) \/ LockFiles(p) \/ Work(p) \/ Crash(p)

\* The history grows by one switch at most.
Grows == transactions' = transactions \/ \E s \in Transactions : transactions' = Append(transactions, s)

Untouched(q) == pc'[q] = pc[q] /\ job'[q] = job[q] /\ view'[q] = view[q]

LEMMA StepOfOne ==
  ASSUME Shape, Next
  PROVE  \E p \in Procs : p \in instance.procs /\ Step(p) /\ instance' = instance
BY FoundryActivationAssumption DEF Next, Step, Shape, DataTypeOK

\* A process changes its own control, call and view only, and files are added.
LEMMA StepFrame ==
  ASSUME Shape, NEW p \in Procs, Step(p)
  PROVE  /\ \A q \in Procs \ {p} : Untouched(q)
         /\ versions \subseteq versions'
         /\ qualifications \subseteq qualifications'
         /\ Grows
<1> USE DEF Untouched, Grows
<1>0. pc \in [Procs -> Pc] /\ job \in [Procs -> Job] /\ view \in [Procs -> View]
  BY DEF Shape, DataTypeOK
<1>1. CASE CallSomething(p)
  BY <1>0, <1>1 DEF CallSomething, Register, CompareAndSwapActivation, Rollback, Activation, Read,
     Call, Go, registryVars
<1>2. CASE LockFiles(p)
  BY <1>0, <1>2 DEF LockFiles, Locked, Contended, OwnerDead, RemoveAbandoned, Sweep, Go, registryVars,
     callVars
<1>3. CASE Crash(p) \/ Return(p)
  BY <1>0, <1>3 DEF Crash, Return, Idle, Go, registryVars
<1>4. CASE EnsureEpoch(p) \/ MarkEpoch(p) \/ RegisterCheck(p)
  BY <1>0, <1>4 DEF EnsureEpoch, MarkEpoch, RegisterCheck, Go, registryVars
<1>5. CASE PublishQualification(p) \/ PublishVersion(p)
  BY <1>0, <1>5 DEF PublishQualification, PublishVersion, Go
<1>6. CASE SwitchCheck(p) \/ ActivationCheck(p)
  BY <1>0, <1>6 DEF SwitchCheck, ActivationCheck, Go, See, registryVars
<1>7. CASE WriteTransaction(p)
  <2>1. [kind |-> job[p].op, to |-> job[p].to, receipt |-> job[p].receipt] \in Transactions
    BY <1>0, <1>7 DEF WriteTransaction, Shape, Jobs, Switching, Job, Transactions
  <2> QED
    BY <1>0, <1>7, <2>1 DEF WriteTransaction, Go, See
<1>8. CASE RepairActivationProjection(p) \/ RepairFails(p) \/ Confirm(p)
  BY <1>0, <1>8 DEF RepairActivationProjection, RepairFails, Confirm, Go, registryVars
<1>9. CASE ReadQualifications(p) \/ ReadVersions(p) \/ ReadTransactions(p) \/ ReadPointer(p)
  BY <1>0, <1>9 DEF ReadQualifications, ReadVersions, ReadTransactions, ReadPointer, Go, See, registryVars
<1> QED
  BY <1>1, <1>2, <1>3, <1>4, <1>5, <1>6, <1>7, <1>8, <1>9 DEF Step, Work

\* Who writes what.
LEMMA Writers ==
  ASSUME NEW p, Step(p)
  PROVE  /\ told' # told => Return(p)
         /\ pointer' # pointer => RepairActivationProjection(p)
         /\ transactions' # transactions => WriteTransaction(p)
         /\ versions' # versions => PublishVersion(p)
         /\ qualifications' # qualifications => PublishQualification(p)
         /\ epoch' # epoch => EnsureEpoch(p) \/ MarkEpoch(p)
BY DEF Step, CallSomething, Register, CompareAndSwapActivation, Rollback, Activation, Read, Call,
   LockFiles, Locked, Contended, OwnerDead, RemoveAbandoned, Sweep, Crash, Return,
   Work, EnsureEpoch, MarkEpoch, RegisterCheck, PublishQualification, PublishVersion, SwitchCheck,
   WriteTransaction, ActivationCheck, RepairActivationProjection, RepairFails, Confirm,
   ReadQualifications, ReadVersions, ReadTransactions, ReadPointer, registryVars

-----------------------------------------------------------------------------
(* The lock file, seen from the registry. *)

\* Points between the acquisition of the lock and its release.
Critical == {"epoch", "mark", "check", "qualify", "publish", "commit", "repair", "project", "confirm"}
HoldsLock == \A p \in Procs : pc[p] \in Critical => Registry \in held[p]

-----------------------------------------------------------------------------
(* The history, whatever happens to the lock. *)

\* The switch a process was called for is the one recorded at the revision
\* it takes, or may be recorded there.
Took(p) ==
  /\ job[p].at < Len(transactions)
  /\ transactions[job[p].at + 1] = [kind |-> job[p].op, to |-> job[p].to, receipt |-> job[p].receipt]
Ready(p) ==
  /\ job[p].to \in versions
  /\ job[p].at <= Len(transactions)
  /\ job[p].op = "rollback" =>
       /\ \E i \in 1..job[p].at : transactions[i].to = job[p].to
       /\ transactions[job[p].at].to # job[p].to

\* What the files say of each other without anybody holding the lock.
FilesAgree ==
  /\ told <= Len(transactions) /\ pointer <= Len(transactions)
  /\ \A i \in 1..Len(transactions) : transactions[i].to \in versions
  /\ versions \subseteq qualifications

CallAgrees(p) ==
  /\ pc[p] = "publish" => job[p].to \in qualifications
  /\ pc[p] = "commit" => Ready(p)
  /\ pc[p] \in {"repair", "project", "confirm", "finish"} /\ job[p].op \in Switching => Took(p)
  /\ pc[p] \in {"repair", "project"} => view[p].t <= Len(transactions)

HistoryInv == FilesAgree /\ \A p \in Procs : CallAgrees(p)

-----------------------------------------------------------------------------
(* What holding the lock adds, while no lock file was stolen. *)

LockedFiles == ~stolen => Unique(qualifications) /\ told <= pointer

LockedCall(p) ==
  /\ pc[p] = "qualify" => \A q \in qualifications : SameCandidate(job[p].to, q) => q = job[p].to
  /\ pc[p] \in {"repair", "project"} => view[p].t = Len(transactions)
  /\ pc[p] \in {"confirm", "finish"} /\ job[p].op \in Switching => job[p].at + 1 <= pointer
LockedCalls == ~stolen => \A p \in Procs : LockedCall(p)

\* A reader beside which nothing was published has read what is there.
ReaderSees(p) ==
  job[p].op = "read" /\ ~disturbed[p] =>
    /\ pc[p] = "readV" => view[p].q = qualifications
    /\ pc[p] = "readT" => view[p].v = versions
    /\ pc[p] = "readP" => view[p].t = Len(transactions)
    /\ pc[p] = "abort" => epoch = "bare"
ReadersSee == ~stolen => \A p \in Procs : ReaderSees(p)

RegistryInv ==
  Shape /\ LockInv /\ HoldsLock /\ HistoryInv /\ LockedFiles /\ LockedCalls /\ ReadersSee

-----------------------------------------------------------------------------
(* The lock file under the steps of the registry. *)

LEMMA StepsAreLockSteps == Shape /\ [Next]_vars => [LockNext]_lockVars
<1> SUFFICES ASSUME Shape, [Next]_vars
             PROVE  [LockNext]_lockVars
  OBVIOUS
<1> USE FoundryActivationAssumption
<1>1. ASSUME NEW p \in Procs, LockFiles(p)
      PROVE  LockNext
  BY <1>1 DEF LockFiles, Locked, Contended, OwnerDead, RemoveAbandoned, Sweep, LockNext, LockStep
<1>2. ASSUME NEW p \in Procs, Crash(p) \/ Return(p)
      PROVE  LockNext
  <2>1. CASE Crash(p)
    BY <2>1 DEF Crash, LockNext, LockStep
  <2>2. CASE Return(p)
    BY <2>2 DEF Return, LockNext, LockStep
  <2> QED
    BY <1>2, <2>1, <2>2
<1>3. ASSUME NEW p \in Procs, CallSomething(p)
      PROVE  UNCHANGED lockVars
  BY <1>3 DEF CallSomething, Register, CompareAndSwapActivation, Rollback, Activation, Read, Call
<1>4. ASSUME NEW p \in Procs, Work(p), ~Return(p)
      PROVE  UNCHANGED lockVars
  BY <1>4 DEF Work, EnsureEpoch, MarkEpoch, RegisterCheck, PublishQualification, PublishVersion,
     SwitchCheck, WriteTransaction, ActivationCheck, RepairActivationProjection, RepairFails,
     Confirm, ReadQualifications, ReadVersions, ReadTransactions, ReadPointer
<1>5. CASE UNCHANGED vars
  BY <1>5 DEF vars
<1> QED
  BY <1>1, <1>2, <1>3, <1>4, <1>5, StepOfOne DEF Step

LEMMA HoldsLockStep == Shape /\ LockInv /\ HoldsLock /\ Next => HoldsLock'
<1> SUFFICES ASSUME Shape, LockInv, HoldsLock, Next
             PROVE  HoldsLock'
  OBVIOUS
<1>1. PICK p \in Procs : Step(p)
  BY StepOfOne
<1>2. \A q \in Procs \ {p} : Untouched(q)
  BY <1>1, StepFrame
<1>3. held \in [Procs -> SUBSET Files] /\ pc \in [Procs -> Pc]
  BY DEF LockInv, LockTypeOK, Shape, DataTypeOK
<1>4. CASE CallSomething(p)
  BY <1>2, <1>3, <1>4 DEF CallSomething, Register, CompareAndSwapActivation, Rollback, Activation,
     Read, Call, Go, HoldsLock, Critical, Untouched, lockVars
<1>5. CASE LockFiles(p)
  <2>1. \/ held' = [held EXCEPT ![p] = @ \cup {Registry}]
        \/ UNCHANGED <<held, pc>>
        \/ held' = held /\ Go(p, "abort")
    <3>1. CASE Locked(p)
      BY <3>1 DEF Locked, Acquire
    <3>2. CASE Contended(p)
      BY <3>2 DEF Contended, Refused
    <3>3. CASE OwnerDead(p) \/ RemoveAbandoned(p) \/ Sweep(p)
      BY <3>3 DEF OwnerDead, RemoveAbandoned, Sweep, FindDead, Remove, callVars
    <3> QED
      BY <1>5, <3>1, <3>2, <3>3 DEF LockFiles
  <2>2. \A q \in Procs \ {p} : held'[q] = held[q]
    BY <1>3, <2>1
  <2>3. pc'[p] \in Critical => Registry \in held'[p]
    BY <1>3, <2>1 DEF HoldsLock, Critical, Go
  <2> QED
    BY <1>2, <2>2, <2>3 DEF HoldsLock, Untouched
<1>6. CASE Crash(p) \/ Return(p)
  <2>1. pc'[p] = "idle" /\ \A q \in Procs \ {p} : held'[q] = held[q]
    BY <1>3, <1>6 DEF Crash, Return, Idle, Go, CrashLocks, Release
  <2> QED
    BY <1>2, <2>1 DEF HoldsLock, Critical, Untouched
<1>7. CASE Work(p) /\ ~Return(p)
  <2>1. held' = held
    BY <1>7 DEF Work, EnsureEpoch, MarkEpoch, RegisterCheck, PublishQualification, PublishVersion,
       SwitchCheck, WriteTransaction, ActivationCheck, RepairActivationProjection, RepairFails,
       Confirm, ReadQualifications, ReadVersions, ReadTransactions, ReadPointer, lockVars
  <2>2. pc'[p] \in Critical => pc[p] \in Critical
    BY <1>3, <1>7 DEF Work, EnsureEpoch, MarkEpoch, RegisterCheck, PublishQualification, PublishVersion,
       SwitchCheck, WriteTransaction, ActivationCheck, RepairActivationProjection, RepairFails,
       Confirm, ReadQualifications, ReadVersions, ReadTransactions, ReadPointer, Go, Critical
  <2> QED
    BY <1>2, <2>1, <2>2 DEF HoldsLock, Untouched
<1> QED
  BY <1>1, <1>4, <1>5, <1>6, <1>7 DEF Step, Work

\* Nobody else is between the acquisition and the release of the lock.
LEMMA OneHolder ==
  ASSUME LockInv, HoldsLock, ~stolen,
         NEW p \in Procs, pc[p] \in Critical,
         NEW q \in Procs \ {p}
  PROVE  pc[q] \notin Critical
BY InvExcludes DEF HoldsLock, MutualExclusion

-----------------------------------------------------------------------------
(* The history. *)

LEMMA GrowsKeeps ==
  ASSUME transactions \in Seq(Transactions), Grows
  PROVE  /\ transactions' \in Seq(Transactions)
         /\ Len(transactions') \in Nat /\ Len(transactions) <= Len(transactions')
         /\ \A i \in 1..Len(transactions) : transactions'[i] = transactions[i]
BY DEF Grows

\* What is known of a process stays true while it does nothing.
LEMMA CallFrame ==
  ASSUME Shape, NEW q \in Procs, CallAgrees(q), Untouched(q), Grows,
         versions \subseteq versions', qualifications \subseteq qualifications'
  PROVE  CallAgrees(q)'
<1> USE DEF Untouched
<1>1. /\ Len(transactions') \in Nat /\ Len(transactions) \in Nat
      /\ Len(transactions) <= Len(transactions')
      /\ \A i \in 1..Len(transactions) : transactions'[i] = transactions[i]
  BY GrowsKeeps DEF Shape, DataTypeOK
<1>2. job[q].at \in Nat /\ view[q].t \in Nat
  BY DEF Shape, DataTypeOK, Job, View
<1>3. Took(q) => Took(q)'
  BY <1>1, <1>2 DEF Took
<1>4. Ready(q) => Ready(q)'
  <2> SUFFICES ASSUME Ready(q)
               PROVE  Ready(q)'
    OBVIOUS
  <2>1. job[q].to \in versions' /\ job[q].at <= Len(transactions')
    BY <1>1, <1>2 DEF Ready
  <2>2. ASSUME job[q].op = "rollback"
        PROVE  /\ \E i \in 1..job[q].at : transactions'[i].to = job[q].to
               /\ transactions'[job[q].at].to # job[q].to
    <3>1. PICK i \in 1..job[q].at : transactions[i].to = job[q].to
      BY <2>2 DEF Ready
    <3>2. i \in 1..Len(transactions) /\ job[q].at \in 1..Len(transactions)
      BY <1>1, <1>2, <3>1 DEF Ready
    <3>3. transactions'[i].to = job[q].to /\ transactions'[job[q].at].to # job[q].to
      BY <1>1, <2>2, <3>1, <3>2 DEF Ready
    <3> QED
      BY <3>1, <3>3
  <2> QED
    BY <2>1, <2>2 DEF Ready
<1> QED
  BY <1>1, <1>2, <1>3, <1>4 DEF CallAgrees

LEMMA FilesAgreeStep ==
  ASSUME Shape, HistoryInv, NEW p \in Procs, Step(p)
  PROVE  FilesAgree'
<1> USE DEF HistoryInv, FilesAgree
<1>1. /\ Len(transactions') \in Nat /\ Len(transactions) \in Nat /\ told \in Nat /\ pointer \in Nat
      /\ Len(transactions) <= Len(transactions')
      /\ \A i \in 1..Len(transactions) : transactions'[i] = transactions[i]
  BY StepFrame, GrowsKeeps DEF Shape, DataTypeOK
<1>2. versions \subseteq versions' /\ qualifications \subseteq qualifications'
  BY StepFrame
<1>3. told' <= Len(transactions')
  <2>1. CASE Return(p)
    <3>1. told' \in {told, job[p].at + 1} /\ transactions' = transactions
      BY <2>1 DEF Return, registryVars
    <3>2. told' # told => Took(p)
      BY <2>1 DEF Return, CallAgrees, Switching
    <3>3. job[p].at \in Nat
      BY DEF Shape, DataTypeOK, Job
    <3> QED
      BY <1>1, <3>1, <3>2, <3>3 DEF Took
  <2>2. CASE ~Return(p)
    <3>1. told' = told
      BY <2>2, Writers
    <3> QED
      BY <1>1, <3>1
  <2> QED
    BY <2>1, <2>2
<1>4. pointer' <= Len(transactions')
  <2>1. CASE RepairActivationProjection(p)
    BY <1>1, <2>1 DEF RepairActivationProjection, CallAgrees
  <2>2. CASE ~RepairActivationProjection(p)
    <3>1. pointer' = pointer
      BY <2>2, Writers
    <3> QED
      BY <1>1, <3>1
  <2> QED
    BY <2>1, <2>2
<1>5. \A i \in 1..Len(transactions') : transactions'[i].to \in versions'
  <2>1. CASE WriteTransaction(p) /\ Len(transactions) = job[p].at
    <3> DEFINE s == [kind |-> job[p].op, to |-> job[p].to, receipt |-> job[p].receipt]
    <3>1. transactions' = Append(transactions, s) /\ versions' = versions /\ s.to \in versions
      BY <2>1 DEF WriteTransaction, CallAgrees, Ready
    <3>2. /\ transactions \in Seq(Transactions) /\ Len(transactions') = Len(transactions) + 1
          /\ transactions'[Len(transactions) + 1] = s
      BY <3>1 DEF Shape, DataTypeOK
    <3> HIDE DEF s
    <3> QED
      BY <1>1, <3>1, <3>2
  <2>2. CASE ~(WriteTransaction(p) /\ Len(transactions) = job[p].at)
    <3>1. transactions' = transactions
      BY <2>2, Writers DEF WriteTransaction
    <3> QED
      BY <1>2, <3>1
  <2> QED
    BY <2>1, <2>2
<1>6. versions' \subseteq qualifications'
  <2>1. CASE PublishVersion(p)
    BY <2>1 DEF PublishVersion, CallAgrees
  <2>2. CASE ~PublishVersion(p)
    <3>1. versions' = versions
      BY <2>2, Writers
    <3> QED
      BY <1>2, <3>1
  <2> QED
    BY <2>1, <2>2
<1> QED
  BY <1>3, <1>4, <1>5, <1>6

LEMMA HistoryStep == Shape /\ HistoryInv /\ Next => HistoryInv'
<1> SUFFICES ASSUME Shape, HistoryInv, Next
             PROVE  HistoryInv'
  OBVIOUS
<1>1. PICK p \in Procs : Step(p)
  BY StepOfOne
<1>2. FilesAgree'
  BY <1>1, FilesAgreeStep
<1>3. ASSUME NEW q \in Procs \ {p}
      PROVE  CallAgrees(q)'
  BY <1>1, <1>3, StepFrame, CallFrame DEF HistoryInv
<1> SUFFICES CallAgrees(p)'
  BY <1>2, <1>3 DEF HistoryInv
<1>4. /\ pc \in [Procs -> Pc] /\ job \in [Procs -> Job] /\ view \in [Procs -> View]
      /\ transactions \in Seq(Transactions)
  BY DEF Shape, DataTypeOK
<1>5. Len(transactions) \in Nat /\ job[p].at \in Nat /\ CallAgrees(p)
  BY <1>4 DEF Job, HistoryInv
<1> USE DEF CallAgrees
<1>6. CASE CallSomething(p)
  BY <1>4, <1>6 DEF CallSomething, Register, CompareAndSwapActivation, Rollback, Activation, Read, Call, Go
<1>7. CASE LockFiles(p)
  <2>1. CASE Locked(p) \/ Contended(p)
    BY <1>4, <2>1 DEF Locked, Contended, Go
  <2>2. CASE OwnerDead(p) \/ RemoveAbandoned(p) \/ Sweep(p)
    BY <1>5, <2>2 DEF OwnerDead, RemoveAbandoned, Sweep, registryVars, callVars, Took, Ready
  <2> QED
    BY <1>7, <2>1, <2>2 DEF LockFiles
<1>8. CASE Crash(p) \/ Return(p)
  BY <1>4, <1>8 DEF Crash, Return, Idle, Go
<1>9. CASE EnsureEpoch(p) \/ MarkEpoch(p)
  BY <1>4, <1>9 DEF EnsureEpoch, MarkEpoch, Go
<1>10. CASE RegisterCheck(p)
  <2>1. PICK label \in {"finish", "abort", "qualify"} : Go(p, label)
    BY <1>10 DEF RegisterCheck, RegisterVerdict
  <2> QED
    BY <1>4, <1>10, <2>1 DEF RegisterCheck, Go, Switching
<1>11. CASE PublishQualification(p)
  BY <1>4, <1>11 DEF PublishQualification, Go
<1>12. CASE PublishVersion(p)
  BY <1>4, <1>12 DEF PublishVersion, Go, Shape, Jobs, Switching
<1>13. CASE SwitchCheck(p)
  <2>1. job'[p] = job[p] /\ view'[p].t = Len(transactions) /\ UNCHANGED registryVars
    BY <1>4, <1>13 DEF SwitchCheck, See, View
  <2>2. CASE pc'[p] = "repair"
    <3>1. job[p].at < Len(transactions) /\ SameRequest(transactions[job[p].at + 1], job[p])
      BY <1>4, <1>13, <2>2 DEF SwitchCheck, SwitchVerdict, Go
    <3>2. transactions[job[p].at + 1] \in Transactions
      BY <1>4, <1>5, <3>1
    <3>3. Took(p)'
      BY <2>1, <3>1, <3>2 DEF SameRequest, Transactions, Took, registryVars
    <3> QED
      BY <1>5, <2>1, <2>2, <3>3 DEF registryVars
  <2>3. CASE pc'[p] = "commit"
    <3>1. /\ job[p].to \in versions
          /\ ~(job[p].at < Len(transactions)) /\ ~(job[p].at > Len(transactions))
          /\ ~(/\ job[p].op = "rollback"
               /\ \/ ActiveVersion(job[p].to)
                  \/ \A i \in DOMAIN transactions : transactions[i].to # job[p].to)
      BY <1>4, <1>13, <2>3 DEF SwitchCheck, SwitchVerdict, Go
    <3>2. job[p].at = Len(transactions)
      BY <1>5, <3>1
    <3>3. Ready(p)
      BY <1>4, <1>5, <3>1, <3>2 DEF Ready, ActiveVersion
    <3> QED
      BY <2>1, <2>3, <3>3 DEF registryVars, Ready
  <2>4. pc'[p] \in {"repair", "commit", "abort"}
    BY <1>4, <1>13 DEF SwitchCheck, SwitchVerdict, Go
  <2> QED
    BY <2>2, <2>3, <2>4
<1>14. CASE WriteTransaction(p)
  <2>1. CASE Len(transactions) = job[p].at
    <3>1. /\ transactions' = Append(transactions, [kind |-> job[p].op, to |-> job[p].to, receipt |-> job[p].receipt])
          /\ pc'[p] = "project" /\ view'[p].t = job[p].at + 1 /\ job' = job
      BY <1>4, <1>14, <2>1 DEF WriteTransaction, Go, See, View
    <3> QED
      BY <1>4, <1>5, <2>1, <3>1 DEF Took
  <2>2. CASE Len(transactions) # job[p].at
    BY <1>4, <1>14, <2>2 DEF WriteTransaction, Go
  <2> QED
    BY <2>1, <2>2
<1>15. CASE ActivationCheck(p)
  <2>1. job'[p].op = "activation" /\ view'[p].t = Len(transactions) /\ transactions' = transactions
    BY <1>4, <1>15 DEF ActivationCheck, See, View, registryVars
  <2>2. pc'[p] \in {"abort", "finish", "repair"}
    BY <1>4, <1>15 DEF ActivationCheck, Go
  <2> QED
    BY <1>5, <2>1, <2>2 DEF Switching
<1>16. CASE RepairActivationProjection(p)
  <2>1. pc'[p] \in {"finish", "confirm"} /\ job' = job /\ transactions' = transactions
    BY <1>4, <1>16 DEF RepairActivationProjection, Go
  <2> QED
    BY <1>5, <1>16, <2>1 DEF RepairActivationProjection, Took
<1>17. CASE RepairFails(p)
  BY <1>4, <1>17 DEF RepairFails, Go
<1>18. CASE Confirm(p)
  <2>1. pc'[p] \in {"finish", "abort"} /\ job' = job /\ transactions' = transactions /\ pc[p] = "confirm"
    BY <1>4, <1>18 DEF Confirm, Go, registryVars
  <2> QED
    BY <1>5, <2>1 DEF Took
<1>19. CASE ReadQualifications(p) \/ ReadVersions(p) \/ ReadTransactions(p) \/ ReadPointer(p)
  <2>1. pc'[p] \in {"finish", "abort", "readV", "readT", "readP"}
    BY <1>4, <1>19 DEF ReadQualifications, ReadVersions, ReadTransactions, ReadPointer, Go
  <2>2. job'[p].op = "read"
    BY <1>19 DEF ReadQualifications, ReadVersions, ReadTransactions, ReadPointer, Shape, Jobs
  <2> QED
    BY <2>1, <2>2 DEF Switching
<1> QED
  BY <1>1, <1>6, <1>7, <1>8, <1>9, <1>10, <1>11, <1>12, <1>13, <1>14, <1>15, <1>16, <1>17, <1>18, <1>19
  DEF Step, Work

-----------------------------------------------------------------------------
(* What holding the lock adds. *)

LEMMA TheftStays == LockInv /\ [LockNext]_lockVars /\ ~stolen' => ~stolen
BY DEF LockInv, LockTypeOK, LockNext, LockStep, Acquire, Refused, FindDead, Remove, Release, CrashLocks,
   lockVars

\* activation.json only goes forward.
LEMMA PointerGrows ==
  ASSUME Shape, FilesAgree, NEW p \in Procs, Step(p), LockedCall(p)
  PROVE  pointer <= pointer' /\ pointer' \in Nat
<1>1. pointer \in Nat /\ Len(transactions) \in Nat /\ pointer <= Len(transactions)
  BY DEF Shape, DataTypeOK, FilesAgree
<1>2. CASE RepairActivationProjection(p)
  BY <1>1, <1>2 DEF RepairActivationProjection, LockedCall
<1>3. CASE ~RepairActivationProjection(p)
  BY <1>1, <1>3, Writers
<1> QED
  BY <1>2, <1>3

LEMMA LockedFilesStep ==
  ASSUME Shape, HistoryInv, ~stolen, LockedFiles, LockedCalls, NEW p \in Procs, Step(p)
  PROVE  LockedFiles'
<1>1. LockedCall(p) /\ Unique(qualifications) /\ told <= pointer /\ FilesAgree
  BY DEF LockedCalls, LockedFiles, HistoryInv
<1>2. pointer \in Nat /\ told \in Nat /\ pointer <= pointer' /\ pointer' \in Nat
  BY <1>1, PointerGrows DEF Shape, DataTypeOK
<1>3. Unique(qualifications)'
  <2>1. CASE PublishQualification(p)
    <3>1. qualifications' = qualifications \cup {job[p].to}
      BY <2>1 DEF PublishQualification
    <3>2. \A q \in qualifications : SameCandidate(job[p].to, q) => q = job[p].to
      BY <1>1, <2>1 DEF PublishQualification, LockedCall
    <3> QED
      BY <1>1, <3>1, <3>2 DEF Unique, SameCandidate
  <2>2. CASE ~PublishQualification(p)
    BY <1>1, <2>2, Writers DEF Unique
  <2> QED
    BY <2>1, <2>2
<1>4. told' <= pointer'
  <2>1. CASE Return(p)
    <3>1. told' \in {told, job[p].at + 1}
      BY <2>1 DEF Return
    <3>2. told' # told => job[p].at + 1 <= pointer
      BY <1>1, <2>1 DEF Return, LockedCall, Switching
    <3>3. job[p].at \in Nat
      BY DEF Shape, DataTypeOK, Job
    <3> QED
      BY <1>1, <1>2, <3>1, <3>2, <3>3
  <2>2. CASE ~Return(p)
    BY <1>1, <1>2, <2>2, Writers
  <2> QED
    BY <2>1, <2>2
<1> QED
  BY <1>3, <1>4 DEF LockedFiles

\* What the lock assures a process stays true while another one steps.
LEMMA LockedFrame ==
  ASSUME Shape, LockInv, HoldsLock, FilesAgree, ~stolen, LockedCalls,
         NEW p \in Procs, Step(p), NEW q \in Procs \ {p}
  PROVE  LockedCall(q)'
<1>1. LockedCall(p) /\ LockedCall(q) /\ Untouched(q)
  BY StepFrame DEF LockedCalls
<1>2. pointer <= pointer' /\ pointer \in Nat /\ pointer' \in Nat /\ job[q].at \in Nat
  BY <1>1, PointerGrows DEF Shape, DataTypeOK, Job
<1>3. ASSUME pc[q] \in Critical
      PROVE  qualifications' = qualifications /\ transactions' = transactions
  <2>1. pc[p] \notin Critical
    BY <1>3, OneHolder
  <2> QED
    BY <2>1, Writers DEF PublishQualification, WriteTransaction, Critical
<1> QED
  BY <1>1, <1>2, <1>3 DEF LockedCall, Untouched, Critical

LEMMA LockedCallStep ==
  ASSUME Shape, FilesAgree, NEW p \in Procs, CallAgrees(p), LockedCall(p), Step(p)
  PROVE  LockedCall(p)'
<1>1. /\ pc \in [Procs -> Pc] /\ job \in [Procs -> Job] /\ view \in [Procs -> View]
      /\ transactions \in Seq(Transactions) /\ pointer \in Nat
  BY DEF Shape, DataTypeOK
<1>2. Len(transactions) \in Nat /\ job[p].at \in Nat /\ pointer <= Len(transactions)
  BY <1>1 DEF Job, FilesAgree
<1> USE DEF LockedCall
<1>3. CASE CallSomething(p)
  BY <1>1, <1>3 DEF CallSomething, Register, CompareAndSwapActivation, Rollback, Activation, Read, Call, Go
<1>4. CASE LockFiles(p)
  <2>1. CASE Locked(p) \/ Contended(p)
    BY <1>1, <2>1 DEF Locked, Contended, Go
  <2>2. CASE OwnerDead(p) \/ RemoveAbandoned(p) \/ Sweep(p)
    BY <1>1, <2>2 DEF OwnerDead, RemoveAbandoned, Sweep, registryVars, callVars
  <2> QED
    BY <1>4, <2>1, <2>2 DEF LockFiles
<1>5. CASE Crash(p) \/ Return(p)
  BY <1>1, <1>5 DEF Crash, Return, Idle, Go
<1>6. CASE EnsureEpoch(p) \/ MarkEpoch(p)
  BY <1>1, <1>6 DEF EnsureEpoch, MarkEpoch, Go
<1>7. CASE RegisterCheck(p)
  <2>1. pc'[p] \in {"finish", "abort", "qualify"} /\ job'[p] = job[p] /\ job[p].op = "register"
    BY <1>1, <1>7 DEF RegisterCheck, RegisterVerdict, Go
  <2>2. pc'[p] = "qualify" => ~\E q \in qualifications : SameCandidate(job[p].to, q) /\ q # job[p].to
    BY <1>1, <1>7 DEF RegisterCheck, RegisterVerdict, Go
  <2>3. qualifications' = qualifications
    BY <1>7 DEF RegisterCheck, registryVars
  <2> QED
    BY <2>1, <2>2, <2>3 DEF Switching, SameCandidate
<1>8. CASE PublishQualification(p) \/ PublishVersion(p)
  BY <1>1, <1>8 DEF PublishQualification, PublishVersion, Go, Shape, Jobs, Switching
<1>9. CASE SwitchCheck(p)
  <2>1. /\ pc'[p] \in {"repair", "commit", "abort"} /\ view'[p].t = Len(transactions)
        /\ transactions' = transactions
    BY <1>1, <1>9 DEF SwitchCheck, SwitchVerdict, Go, See, View, registryVars
  <2> QED
    BY <2>1
<1>10. CASE WriteTransaction(p)
  <2>1. CASE Len(transactions) = job[p].at
    <3>1. pc'[p] = "project" /\ view'[p].t = job[p].at + 1 /\ Len(transactions') = Len(transactions) + 1
      BY <1>1, <1>10, <2>1 DEF WriteTransaction, Go, See, View
    <3> QED
      BY <2>1, <3>1
  <2>2. CASE Len(transactions) # job[p].at
    BY <1>1, <1>10, <2>2 DEF WriteTransaction, Go
  <2> QED
    BY <2>1, <2>2
<1>11. CASE ActivationCheck(p)
  <2>1. /\ job'[p].op = "activation" /\ view'[p].t = Len(transactions) /\ transactions' = transactions
        /\ pc'[p] \in {"abort", "finish", "repair"}
    BY <1>1, <1>11 DEF ActivationCheck, Go, See, View, registryVars
  <2> QED
    BY <2>1 DEF Switching
<1>12. CASE RepairActivationProjection(p)
  <2>1. /\ pc'[p] \in {"finish", "confirm"} /\ job' = job /\ pc[p] \in {"repair", "project"}
        /\ pointer' = view[p].t
    BY <1>1, <1>12 DEF RepairActivationProjection, Go
  <2>2. job[p].op \in Switching => job[p].at + 1 <= Len(transactions)
    BY <1>2, <2>1 DEF CallAgrees, Took
  <2> QED
    BY <2>1, <2>2
<1>13. CASE RepairFails(p)
  BY <1>1, <1>13 DEF RepairFails, Go
<1>14. CASE Confirm(p)
  BY <1>1, <1>14 DEF Confirm, Go, registryVars
<1>15. CASE ReadQualifications(p) \/ ReadVersions(p) \/ ReadTransactions(p) \/ ReadPointer(p)
  <2>1. pc'[p] \in {"finish", "abort", "readV", "readT", "readP"} /\ job'[p].op = "read"
    BY <1>1, <1>15 DEF ReadQualifications, ReadVersions, ReadTransactions, ReadPointer, Go, Shape, Jobs
  <2> QED
    BY <2>1 DEF Switching
<1> QED
  BY <1>3, <1>4, <1>5, <1>6, <1>7, <1>8, <1>9, <1>10, <1>11, <1>12, <1>13, <1>14, <1>15 DEF Step, Work

-----------------------------------------------------------------------------
(* Readers without the lock. *)

\* Where nothing disturbs a reader nothing changes.
LEMMA Undisturbed ==
  ASSUME Shape, NEW p \in Procs, Step(p), NEW q \in Procs \ {p}, job[q].op = "read", ~disturbed'[q]
  PROVE  /\ ~disturbed[q]
         /\ UNCHANGED <<qualifications, versions, transactions, pointer>>
         /\ epoch = "bare" => epoch' = "bare"
<1>1. disturbed \in [Procs -> BOOLEAN]
  BY DEF Shape, DataTypeOK
<1>2. ~Publish(p)
  BY DEF Publish
<1>3. ~PublishQualification(p) /\ ~PublishVersion(p) /\ ~MarkEpoch(p)
  BY <1>2 DEF PublishQualification, PublishVersion, MarkEpoch
<1>4. WriteTransaction(p) => transactions' = transactions
  BY <1>2 DEF WriteTransaction
<1>5. RepairActivationProjection(p) => pointer' = pointer
  BY <1>2 DEF RepairActivationProjection
<1>6. EnsureEpoch(p) => (epoch = "bare" => epoch' = "bare")
  BY DEF EnsureEpoch
<1>7. ~disturbed[q]
  BY <1>1, <1>2, <1>3, <1>4, <1>5 DEF Step, CallSomething, Register, CompareAndSwapActivation, Rollback,
     Activation, Read, Call, LockFiles, Locked, Contended, OwnerDead, RemoveAbandoned, Sweep, Crash, Idle,
     Return, Work, EnsureEpoch, RegisterCheck, SwitchCheck, WriteTransaction, ActivationCheck,
     RepairActivationProjection, RepairFails, Confirm, ReadQualifications, ReadVersions,
     ReadTransactions, ReadPointer, callVars
<1> QED
  BY <1>3, <1>4, <1>5, <1>6, <1>7, Writers

LEMMA ReadersStep ==
  ASSUME Shape, HistoryInv, ~stolen, LockedFiles, ReadersSee, NEW p \in Procs, Step(p)
  PROVE  ReadersSee'
<1>1. ASSUME NEW q \in Procs \ {p}
      PROVE  ReaderSees(q)'
  BY <1>1, Undisturbed, StepFrame DEF ReadersSee, ReaderSees, Untouched
<1>2. ReaderSees(p)'
  <2>1. /\ pc \in [Procs -> Pc] /\ job \in [Procs -> Job] /\ view \in [Procs -> View]
    BY DEF Shape, DataTypeOK
  <2>2. ReaderSees(p) /\ FilesAgree /\ Unique(qualifications)
    BY DEF ReadersSee, HistoryInv, LockedFiles
  <2>3. CASE CallSomething(p)
    BY <2>1, <2>3 DEF CallSomething, Register, CompareAndSwapActivation, Rollback, Activation, Read, Call,
       Go, ReaderSees
  <2>4. CASE OwnerDead(p) \/ RemoveAbandoned(p) \/ Sweep(p)
    BY <2>2, <2>4 DEF OwnerDead, RemoveAbandoned, Sweep, registryVars, callVars, ReaderSees
  <2>5. CASE Crash(p) \/ Return(p)
    BY <2>1, <2>5 DEF Crash, Return, Idle, NoJob, ReaderSees
  <2>6. CASE ReadQualifications(p)
    BY <2>1, <2>6 DEF ReadQualifications, Go, See, View, registryVars, ReaderSees
  <2>7. CASE ReadVersions(p)
    BY <2>1, <2>2, <2>7 DEF ReadVersions, Go, See, View, registryVars, ReaderSees, FilesAgree, Unique
  <2>8. CASE ReadTransactions(p)
    BY <2>1, <2>2, <2>8 DEF ReadTransactions, Go, See, View, registryVars, ReaderSees, FilesAgree
  <2>9. CASE ReadPointer(p)
    BY <2>1, <2>2, <2>9 DEF ReadPointer, Go, registryVars, ReaderSees, FilesAgree
  <2>10. ASSUME job[p].op # "read", job' = job
         PROVE  ReaderSees(p)'
    BY <2>10 DEF ReaderSees
  <2>11. CASE Locked(p) \/ Contended(p)
    BY <2>10, <2>11 DEF Locked, Contended, Shape, Jobs, Switching
  <2>12. CASE \/ EnsureEpoch(p) \/ MarkEpoch(p) \/ RegisterCheck(p) \/ PublishQualification(p)
              \/ PublishVersion(p) \/ SwitchCheck(p) \/ WriteTransaction(p) \/ ActivationCheck(p)
              \/ RepairActivationProjection(p) \/ RepairFails(p) \/ Confirm(p)
    BY <2>10, <2>12 DEF EnsureEpoch, MarkEpoch, RegisterCheck, PublishQualification, PublishVersion,
       SwitchCheck, WriteTransaction, ActivationCheck, RepairActivationProjection, RepairFails, Confirm,
       Shape, Jobs, Switching
  <2> QED
    BY <2>3, <2>4, <2>5, <2>6, <2>7, <2>8, <2>9, <2>11, <2>12 DEF Step, LockFiles, Work
<1> QED
  BY <1>1, <1>2 DEF ReadersSee

-----------------------------------------------------------------------------
(* Theorems. *)

LEMMA RegistryInit == Init => RegistryInv
<1> SUFFICES ASSUME Init
             PROVE  RegistryInv
  OBVIOUS
<1>1. Shape /\ LockInv
  BY ShapeInit, LockInvInit DEF Init
<1>2. HoldsLock /\ LockedCalls /\ ReadersSee
  BY DEF Init, HoldsLock, Critical, LockedCalls, LockedCall, ReadersSee, ReaderSees, NoJob
<1>3. HistoryInv
  BY DEF Init, HistoryInv, FilesAgree, CallAgrees
<1>4. LockedFiles
  BY DEF Init, LockedFiles, Unique
<1> QED
  BY <1>1, <1>2, <1>3, <1>4 DEF RegistryInv

LEMMA RegistryStep == RegistryInv /\ [Next]_vars => RegistryInv'
<1> SUFFICES ASSUME RegistryInv, [Next]_vars
             PROVE  RegistryInv'
  OBVIOUS
<1> USE DEF RegistryInv
<1>1. Shape' /\ LockInv'
  BY ShapeStep, StepsAreLockSteps, LockInvStep
<1>2. CASE Next
  <2>1. PICK p \in Procs : Step(p)
    BY <1>2, StepOfOne
  <2>2. HoldsLock' /\ HistoryInv'
    BY <1>2, HoldsLockStep, HistoryStep
  <2>3. ASSUME ~stolen'
        PROVE  LockedFiles' /\ LockedCalls' /\ ReadersSee'
    <3>1. ~stolen
      BY <2>3, TheftStays, StepsAreLockSteps
    <3>2. LockedFiles' /\ ReadersSee'
      BY <2>1, <3>1, LockedFilesStep, ReadersStep
    <3>3. ASSUME NEW q \in Procs \ {p}
          PROVE  LockedCall(q)'
      BY <2>1, <3>1, <3>3, LockedFrame DEF HistoryInv
    <3>4. LockedCall(p)'
      BY <2>1, <3>1, LockedCallStep DEF HistoryInv, LockedCalls
    <3> QED
      BY <3>2, <3>3, <3>4 DEF LockedCalls
  <2> QED
    BY <1>1, <2>2, <2>3 DEF LockedFiles, LockedCalls, ReadersSee
<1>3. CASE UNCHANGED vars
  <2> USE <1>3 DEF vars, registryVars, callVars, lockVars
  <2>1. HoldsLock' /\ HistoryInv'
    BY DEF HoldsLock, HistoryInv, FilesAgree, CallAgrees, Took, Ready
  <2>2. LockedFiles' /\ LockedCalls' /\ ReadersSee'
    BY DEF LockedFiles, Unique, SameCandidate, LockedCalls, LockedCall, ReadersSee, ReaderSees
  <2> QED
    BY <1>1, <2>1, <2>2
<1> QED
  BY <1>2, <1>3

\* The inductive invariant of the version registry.
THEOREM RegistryInvariant == Spec => []RegistryInv
  BY RegistryInit, RegistryStep, PTL DEF Spec

\* The registry's files, calls and processes keep their shape.
THEOREM TypeCorrect == Spec => []TypeOK
<1>1. RegistryInv => TypeOK
  BY DEF RegistryInv, Shape, LockInv, TypeOK
<1> QED
  BY RegistryInvariant, <1>1, PTL

\* #switchActivation: what a switch answers is the recorded transaction of its
\* own request, and while no lock was stolen activation.json shows it.
THEOREM SwitchesHold == Spec => []OutcomesHold
<1>1. RegistryInv => OutcomesHold
  BY DEF RegistryInv, HistoryInv, CallAgrees, Took, Switching, LockedFiles, OutcomesHold,
     ToldIsProjected, ReturnedIsRecorded
<1> QED
  BY RegistryInvariant, <1>1, PTL

\* ensureVersionRegistryEpoch: a directory without its marker is left only by a
\* crash.
LEMMA BareNeedsCrash == Spec => []BareOnlyAfterCrash
<1>1. Init => BareOnlyAfterCrash
  BY DEF Init, BareOnlyAfterCrash
<1>2. ASSUME RegistryInv, BareOnlyAfterCrash, [Next]_vars
      PROVE  BareOnlyAfterCrash'
  <2> USE <1>2 DEF RegistryInv
  <2>1. crashes \in Nat /\ pc \in [Procs -> Pc]
    BY DEF LockInv, LockTypeOK, Shape, DataTypeOK
  <2>2. CASE Next
    <3>1. PICK p \in Procs : Step(p)
      BY <2>2, StepOfOne
    <3>2. \A q \in Procs \ {p} : pc'[q] = pc[q]
      BY <3>1, StepFrame DEF Untouched
    <3>3. [LockNext]_lockVars
      BY <2>2, StepsAreLockSteps
    <3>4. crashes' \in {crashes, crashes + 1}
      BY <3>3 DEF LockNext, LockStep, Acquire, Refused, FindDead, Remove, Release, CrashLocks, lockVars
    <3>5. CASE Crash(p)
      BY <2>1, <3>5 DEF Crash, CrashLocks, BareOnlyAfterCrash
    <3>6. CASE EnsureEpoch(p)
      BY <2>1, <3>2, <3>4, <3>6 DEF EnsureEpoch, Go, BareOnlyAfterCrash
    <3>7. CASE MarkEpoch(p)
      BY <3>7 DEF MarkEpoch, BareOnlyAfterCrash
    <3>8. CASE ~Crash(p) /\ ~EnsureEpoch(p) /\ ~MarkEpoch(p)
      <4>1. epoch' = epoch
        BY <3>1, <3>8, Writers
      <4>2. pc[p] = "mark" => pc'[p] = "mark"
        BY <3>1, <3>8, FoundryActivationAssumption DEF Step, CallSomething, Register,
           CompareAndSwapActivation, Rollback, Activation, Read, Call, LockFiles, Locked, Contended,
           OwnerDead, RemoveAbandoned, Sweep, Return, Work, RegisterCheck, PublishQualification,
           PublishVersion, SwitchCheck, WriteTransaction, ActivationCheck, RepairActivationProjection,
           RepairFails, Confirm, ReadQualifications, ReadVersions, ReadTransactions, ReadPointer, callVars
      <4> QED
        BY <2>1, <3>2, <3>4, <4>1, <4>2 DEF BareOnlyAfterCrash
    <3> QED
      BY <3>5, <3>6, <3>7, <3>8
  <2>3. CASE UNCHANGED vars
    BY <2>3 DEF vars, registryVars, callVars, lockVars, BareOnlyAfterCrash
  <2> QED
    BY <1>2, <2>2, <2>3
<1> QED
  BY <1>1, <1>2, RegistryInvariant, PTL DEF Spec

\* registries.ts #read: while no lock was stolen the records pass their own
\* cross-checks, and a reader without the lock is refused only beside a writer
\* or after the first registration died.
THEOREM ReadersSeeOneRegistry == Spec => []ReadersAgree
<1>1. RegistryInv => RecordsAgree
  <2> SUFFICES ASSUME RegistryInv, ~stolen
               PROVE  Consistent(qualifications, versions, Len(transactions), pointer)
    BY DEF RecordsAgree
  <2>1. FilesAgree /\ Unique(qualifications)
    BY DEF RegistryInv, HistoryInv, LockedFiles
  <2> QED
    BY <2>1 DEF Consistent, FilesAgree, Unique
<1>2. RegistryInv => ReadFailsOnlyBesideWriter
  BY DEF RegistryInv, ReadersSee, ReaderSees, ReadFailsOnlyBesideWriter
<1> QED
  BY <1>1, <1>2, RegistryInvariant, BareNeedsCrash, PTL DEF ReadersAgree

-----------------------------------------------------------------------------
(* The registry implements FoundryActivationRegister. *)

LEMMA RegisterInit == Init => ActivationRegister!Init
BY DEF Init, ActivationRegister!Init

LEMMA RegisterSimulates ==
  RegistryInv /\ [Next]_vars => [ActivationRegister!Next]_ActivationRegister!registerVars
<1> SUFFICES ASSUME RegistryInv, [Next]_vars
             PROVE  [ActivationRegister!Next]_ActivationRegister!registerVars
  OBVIOUS
<1> USE DEF RegistryInv, ActivationRegister!registerVars
<1>1. CASE UNCHANGED vars
  BY <1>1 DEF vars, registryVars
<1>2. ASSUME Next
      PROVE  [ActivationRegister!Next]_ActivationRegister!registerVars
  <2>1. PICK p \in Procs : Step(p)
    BY <1>2, StepOfOne
  <2>2. job[p] \in Job /\ CallAgrees(p) /\ transactions \in Seq(Transactions) /\ Len(transactions) \in Nat
    BY DEF HistoryInv, Shape, DataTypeOK
  <2>3. CASE PublishVersion(p)
    <3>1. job[p].to \in Versions
      BY <2>3 DEF PublishVersion, Shape, Jobs
    <3>2. ActivationRegister!Register(job[p].to)
      BY <2>3 DEF PublishVersion, ActivationRegister!Register
    <3> QED
      BY <3>1, <3>2 DEF ActivationRegister!Next
  <2>4. CASE WriteTransaction(p) /\ Len(transactions) = job[p].at
    <3> DEFINE s == [kind |-> job[p].op, to |-> job[p].to, receipt |-> job[p].receipt]
    <3>1. job[p].op \in Switching /\ job[p].to \in Versions /\ pc[p] = "commit"
      BY <2>4 DEF WriteTransaction, Shape, Jobs
    <3>2. s \in ActivationRegister!Switches
      BY <2>2, <3>1 DEF Job, Switching, ActivationRegister!Switches
    <3>3. job[p].op = "rollback" =>
            /\ job[p].receipt # NoReceipt
            /\ ActivationRegister!WasActive(job[p].to) /\ ~ActivationRegister!IsActive(job[p].to)
      BY <2>2, <2>4, <3>1 DEF Shape, Jobs, CallAgrees, Ready, ActivationRegister!WasActive,
         ActivationRegister!IsActive
    <3>4. ActivationRegister!Switch(s)
      BY <2>2, <2>4, <3>1, <3>3 DEF WriteTransaction, CallAgrees, Ready, ActivationRegister!Switch
    <3> QED
      BY <3>2, <3>4 DEF ActivationRegister!Next
  <2>5. CASE Return(p) /\ told' # told
    <3>1. /\ told' = job[p].at + 1 /\ told < job[p].at + 1 /\ UNCHANGED <<versions, transactions>>
          /\ Took(p)
      BY <2>2, <2>5 DEF Return, CallAgrees, Switching, registryVars
    <3>2. job[p].at \in Nat /\ told \in Nat
      BY <2>2 DEF Job, Shape, DataTypeOK
    <3>3. told' \in told..Len(transactions)
      BY <2>2, <3>1, <3>2 DEF Took
    <3>4. ActivationRegister!Tell(told')
      BY <3>1 DEF ActivationRegister!Tell
    <3> QED
      BY <3>3, <3>4 DEF ActivationRegister!Next
  <2>6. CASE ~PublishVersion(p) /\ ~(WriteTransaction(p) /\ Len(transactions) = job[p].at)
             /\ ~(Return(p) /\ told' # told)
    <3>1. versions' = versions /\ told' = told
      BY <2>1, <2>6, Writers
    <3>2. transactions' = transactions
      BY <2>1, <2>6, Writers DEF WriteTransaction
    <3> QED
      BY <3>1, <3>2
  <2> QED
    BY <2>3, <2>4, <2>5, <2>6
<1> QED
  BY <1>1, <1>2

\* #switchActivation and register: the numbered files are a compare-and-swap
\* register that keeps its history and what it told, with any number of
\* processes and crashes and whatever happens to the lock.
THEOREM ImplementsRegister == Spec => RegisterSpec
<1>1. Spec => []RegistryInv
  BY RegistryInvariant
<1>2. Spec => ActivationRegister!Init /\ [][ActivationRegister!Next]_ActivationRegister!registerVars
  BY <1>1, RegisterInit, RegisterSimulates, PTL DEF Spec
<1> QED
  BY <1>2 DEF RegisterSpec, ActivationRegister!Spec
=============================================================================
