------------------------ MODULE FoundryLedger_proofs ------------------------
(* Theorems about the event store of one target, for any processes, runs   *)
(* and events.  The invariant is built in layers: the shape of calls, the  *)
(* lock files (FoundryMutationLock_proofs), what is read and told of the   *)
(* ledgers, and what holding the target lock keeps others from doing.      *)
EXTENDS FoundryLedger, FoundryMutationLock_proofs

-----------------------------------------------------------------------------
(* The shape of calls. *)

\* Which calls reach which point, and what they carry.
Jobs ==
  \A p \in Procs :
    LET op == job[p].op IN
    /\ op \in {"create", "append", "read", "reproject"} => job[p].run \in Runs
    /\ op = "create" => job[p].key = Accept /\ job[p].at = 0
    /\ op = "append" => job[p].key \in Keys
    /\ pc[p] = "run" => op = "append"
    /\ pc[p] \in {"check", "commit"} => op \in {"create", "append"}
    /\ pc[p] = "repair" => op \in {"create", "append", "read"}
    /\ pc[p] = "target" => op \in {"create", "append", "read"}
    /\ pc[p] = "untarget" => op = "read"
    /\ pc[p] = "index" => op \in {"create", "append", "read", "reproject", "rebuild"}
    /\ pc[p] = "project" => op \in {"create", "append", "read", "reproject"}
    /\ pc[p] \in {"readdir", "scan"} => op \in {"list", "rebuild"}
    /\ pc[p] = "replace" => op = "rebuild"
    /\ pc[p] = "idle" => op = "none"

Shape == DataTypeOK /\ Jobs

LEMMA SeeTyped ==
  ASSUME view \in [Procs -> Ledgers], NEW p \in Procs, NEW r \in Runs,
         NEW events \in Events, See(p, r, events)
  PROVE  /\ view' \in [Procs -> Ledgers]
         /\ view'[p][r] = events
         /\ \A q \in Procs, s \in Runs : <<q, s>> # <<p, r>> => view'[q][s] = view[q][s]
BY DEF See, Ledgers

LEMMA ShapeInit == Init => Shape
<1> SUFFICES ASSUME Init
             PROVE  Shape
  OBVIOUS
<1>1. <<>> \in Events
  BY DEF Events
<1>2. NoLedgers \in Ledgers
  BY <1>1 DEF NoLedgers, Ledgers
<1>3. NoJob \in Job
  BY DEF NoJob, Job, Ops, Writes
<1>4. DataTypeOK
  BY <1>2, <1>3 DEF Init, DataTypeOK, Pc, LockPc
<1>5. Jobs
  BY DEF Init, Jobs, NoJob
<1> QED
  BY <1>4, <1>5 DEF Shape

LEMMA ShapeStep == Shape /\ [Next]_vars => Shape'
<1> SUFFICES ASSUME Shape, [Next]_vars
             PROVE  Shape'
  OBVIOUS
<1> USE FoundryLedgerAssumption DEF Shape
<1>0. <<>> \in Events /\ NoLedgers \in Ledgers /\ NoJob \in Job
  <2>1. <<>> \in Events
    BY DEF Events
  <2> QED
    BY <2>1 DEF NoLedgers, Ledgers, NoJob, Job, Ops, Writes
<1>1. ASSUME NEW p \in Procs, CallSomething(p)
      PROVE  Shape'
  <2>1. ASSUME NEW op \in {"create", "append", "read", "list", "rebuild"},
               NEW r \in Runs \cup {NoRun}, NEW k \in Keys \cup {Accept}, NEW at \in Nat,
               NEW label \in {"target", "readdir", "index"}, Call(p, op, r, k, at, label),
               view' \in [Procs -> Ledgers],
               op \in {"create", "append", "read"} => r \in Runs /\ label = "target",
               op = "create" => k = Accept /\ at = 0, op = "append" => k \in Keys,
               op = "list" => label = "readdir", op = "rebuild" => label = "index"
        PROVE  Shape'
    <3>1. [op |-> op, run |-> r, key |-> k, at |-> at] \in Job
      BY <2>1 DEF Job, Ops, Writes
    <3>2. DataTypeOK'
      BY <2>1, <3>1 DEF DataTypeOK, Call, Go, ledgerVars, Pc, LockPc
    <3>3. Jobs'
      BY <2>1 DEF DataTypeOK, Jobs, Call, Go
    <3> QED
      BY <3>2, <3>3
  <2>2. ASSUME NEW r \in Runs, Create(p, r)
        PROVE  Shape'
    BY <2>1, <2>2 DEF Create, DataTypeOK
  <2>3. ASSUME NEW r \in Runs, Read(p, r)
        PROVE  Shape'
    <3>1. view' \in [Procs -> Ledgers]
      BY <2>3, SeeTyped DEF Read, DataTypeOK, Ledgers
    <3> QED
      BY <2>1, <2>3, <3>1 DEF Read
  <2>4. ASSUME NEW r \in Runs, NEW k \in Keys, NEW at \in 0..Len(log[r]), AppendEvent(p, r, k, at)
        PROVE  Shape'
    BY <2>1, <2>4 DEF AppendEvent, DataTypeOK
  <2>5. ASSUME List(p)
        PROVE  Shape'
    BY <2>1, <2>5 DEF List, DataTypeOK
  <2>6. ASSUME RebuildStateIndex(p)
        PROVE  Shape'
    BY <2>1, <2>6 DEF RebuildStateIndex, DataTypeOK
  <2> QED
    BY <1>1, <2>2, <2>3, <2>4, <2>5, <2>6 DEF CallSomething
<1>2. ASSUME NEW p \in Procs, Locked(p)
      PROVE  Shape'
  <2>1. DataTypeOK'
    BY <1>2 DEF DataTypeOK, Locked, Go, ledgerVars, Pc, LockPc
  <2>2. Jobs'
    BY <1>2 DEF DataTypeOK, Jobs, Locked, Go, LockPc
  <2> QED
    BY <2>1, <2>2
<1>3. ASSUME NEW p \in Procs, Contended(p)
      PROVE  Shape'
  BY <1>3 DEF DataTypeOK, Jobs, Contended, Go, ledgerVars, Pc, LockPc
<1>4. ASSUME NEW p \in Procs, OwnerDead(p) \/ RemoveAbandoned(p)
                              \/ \E f \in Files : Sweep(p, f)
      PROVE  Shape'
  BY <1>4 DEF DataTypeOK, Jobs, OwnerDead, RemoveAbandoned, Sweep, ledgerVars, procVars
<1>5. ASSUME NEW p \in Procs, Idle(p), UNCHANGED ledgerVars, acked' \in Ledgers
      PROVE  Shape'
  <2>1. DataTypeOK'
    BY <1>0, <1>5 DEF DataTypeOK, Idle, Go, ledgerVars, Pc
  <2>2. Jobs'
    BY <1>5 DEF DataTypeOK, Jobs, Idle, Go, NoJob
  <2> QED
    BY <2>1, <2>2
<1>6. ASSUME NEW p \in Procs, Crash(p)
      PROVE  Shape'
  BY <1>5, <1>6 DEF Crash, DataTypeOK
<1>7. ASSUME NEW p \in Procs, Return(p)
      PROVE  Shape'
  <2>1. acked' \in Ledgers
    <3>1. job[p].op \in Writes => job[p].run \in Runs
      BY DEF Jobs, Writes
    <3>2. view[p] \in Ledgers /\ acked \in Ledgers
      BY DEF DataTypeOK
    <3>3. \A r \in Runs : [acked EXCEPT ![r] = view[p][r]] \in Ledgers
      BY <3>2 DEF Ledgers
    <3> QED
      BY <1>7, <3>1, <3>2, <3>3 DEF Return
  <2> QED
    BY <1>5, <1>7, <2>1 DEF Return
<1>8. ASSUME NEW p \in Procs, Ambiguous(p)
      PROVE  Shape'
  BY <1>8 DEF DataTypeOK, Jobs, Ambiguous, Go, Pc
<1>9. ASSUME NEW p \in Procs, CreateCheck(p)
      PROVE  Shape'
  <2> DEFINE r == job[p].run
  <2>1. r \in Runs /\ log[r] \in Events
    BY <1>9 DEF CreateCheck, Jobs, DataTypeOK, Ledgers
  <2>2. view' \in [Procs -> Ledgers]
    BY <1>9, <2>1, SeeTyped DEF CreateCheck, DataTypeOK
  <2>3. job' \in [Procs -> Job]
    <3>1. [job EXCEPT ![p].op = "reproject"] \in [Procs -> Job]
      BY DEF DataTypeOK, Job, Ops, Writes
    <3> QED
      BY <1>9, <3>1 DEF CreateCheck, DataTypeOK
  <2>4. PICK label \in {"commit", "index", "abort"} :
          /\ Go(p, label)
          /\ log[r] = <<>> => label # "index"
          /\ log[r] # <<>> => label # "commit"
    BY <1>9 DEF CreateCheck
  <2>5. reservation' \in Runs \cup {NoRun}
    BY <1>9 DEF CreateCheck, Reconciled
  <2>6. DataTypeOK'
    BY <1>9, <2>2, <2>3, <2>4, <2>5 DEF CreateCheck, DataTypeOK, Go, Pc, LockPc
  <2>7. Jobs'
    BY <1>9, <2>1, <2>4 DEF CreateCheck, DataTypeOK, Jobs, Job, Go
  <2> QED
    BY <2>6, <2>7
<1>10. ASSUME NEW p \in Procs, AppendCheck(p)
       PROVE  Shape'
  <2> DEFINE r == job[p].run
  <2>1. r \in Runs /\ log[r] \in Events
    BY <1>10 DEF AppendCheck, Jobs, DataTypeOK, Ledgers
  <2>2. view' \in [Procs -> Ledgers]
    BY <1>10, <2>1, SeeTyped DEF AppendCheck, DataTypeOK
  <2>3. PICK label \in {"commit", "index", "abort"} : Go(p, label)
    BY <1>10 DEF AppendCheck, Verdict
  <2>4. reservation' \in Runs \cup {NoRun}
    BY <1>10 DEF AppendCheck, Reconciled, DataTypeOK
  <2>5. DataTypeOK'
    BY <1>10, <2>2, <2>3, <2>4 DEF AppendCheck, DataTypeOK, Go, Pc, LockPc
  <2>6. Jobs'
    BY <1>10, <2>3 DEF AppendCheck, DataTypeOK, Jobs, Go
  <2> QED
    BY <2>5, <2>6
<1>11. ASSUME NEW p \in Procs, Commit(p)
       PROVE  Shape'
  <2> DEFINE r == job[p].run  k == job[p].key
  <2>1. r \in Runs /\ k \in Keys \cup {Accept} /\ log[r] \in Events /\ view[p][r] \in Events
    BY <1>11 DEF Commit, Jobs, DataTypeOK, Ledgers, Job
  <2>2. Append(log[r], k) \in Events /\ Append(view[p][r], k) \in Events
    BY <2>1 DEF Events
  <2>3. view' \in [Procs -> Ledgers]
    BY <1>11, <2>1, <2>2, SeeTyped DEF Commit, DataTypeOK
  <2>4. log' \in Ledgers
    BY <1>11, <2>1, <2>2 DEF Commit, DataTypeOK, Ledgers
  <2>5. PICK label \in {"index", "abort"} : Go(p, label)
    BY <1>11 DEF Commit
  <2>6. DataTypeOK'
    BY <1>11, <2>3, <2>4, <2>5 DEF Commit, DataTypeOK, Go, Pc, LockPc
  <2>7. Jobs'
    BY <1>11, <2>5 DEF Commit, DataTypeOK, Jobs, Go
  <2> QED
    BY <2>6, <2>7
<1>12. ASSUME NEW p \in Procs, ProjectSnapshot(p)
       PROVE  Shape'
  <2>1. index' \in Ledgers
    BY <1>12 DEF ProjectSnapshot, Projected, Jobs, DataTypeOK, Ledgers
  <2> QED
    BY <1>12, <2>1 DEF ProjectSnapshot, DataTypeOK, Jobs, Go, Pc
<1>13. ASSUME NEW p \in Procs, Unindex(p)
       PROVE  Shape'
  <2>1. PICK label \in {"abort", "repair", "finish"} :
          Go(p, label) /\ (label = "repair" => job[p].op \in {"create", "append"})
    BY <1>13 DEF Unindex
  <2> QED
    BY <1>13, <2>1 DEF Unindex, DataTypeOK, Jobs, Go, ledgerVars, Pc
<1>14. ASSUME NEW p \in Procs, RepairTargetReservation(p)
       PROVE  Shape'
  <2>1. PICK label \in {"abort", "untarget", "finish"} :
          Go(p, label) /\ (label = "untarget" => job[p].op = "read")
    BY <1>14 DEF RepairTargetReservation
  <2>2. reservation' \in Runs \cup {NoRun}
    BY <1>14 DEF RepairTargetReservation, DataTypeOK, Jobs
  <2> QED
    BY <1>14, <2>1, <2>2 DEF RepairTargetReservation, DataTypeOK, Jobs, Go, Pc
<1>15. ASSUME NEW p \in Procs, Untarget(p)
       PROVE  Shape'
  <2>1. PICK label \in {"abort", "index"} : Go(p, label)
    BY <1>15 DEF Untarget
  <2> QED
    BY <1>15, <2>1 DEF Untarget, DataTypeOK, Jobs, Go, ledgerVars, Pc, LockPc
<1>16. ASSUME NEW p \in Procs, ReadDir(p)
       PROVE  Shape'
  BY <1>0, <1>16 DEF ReadDir, DataTypeOK, Jobs, Go, ledgerVars, Pc
<1>17. ASSUME NEW p \in Procs, NEW r \in Runs, ScanRun(p, r)
       PROVE  Shape'
  <2>1. view' \in [Procs -> Ledgers]
    BY <1>17, SeeTyped DEF ScanRun, DataTypeOK, Ledgers
  <2> QED
    BY <1>17, <2>1 DEF ScanRun, DataTypeOK, Jobs, ledgerVars
<1>18. ASSUME NEW p \in Procs, ScanEnds(p)
       PROVE  Shape'
  <2>1. PICK label \in {"abort", "replace", "finish", "index"} : Go(p, label)
    BY <1>18 DEF ScanEnds
  <2>2. job' \in [Procs -> Job]
    BY <1>18, SMTT(30) DEF ScanEnds, DataTypeOK, Job, Ops, Writes
  <2>3. DataTypeOK'
    BY <1>18, <2>1, <2>2 DEF ScanEnds, DataTypeOK, Go, ledgerVars, Pc, LockPc
  <2>4. Jobs'
    BY <1>18, <2>1 DEF ScanEnds, DataTypeOK, Jobs, Job, Go
  <2> QED
    BY <2>3, <2>4
<1>19. ASSUME NEW p \in Procs, ReplaceIndex(p)
       PROVE  Shape'
  BY <1>19 DEF ReplaceIndex, DataTypeOK, Jobs, Go, Pc
<1>20. CASE UNCHANGED vars
  BY <1>20 DEF vars, ledgerVars, procVars, DataTypeOK, Jobs
<1> QED
  BY <1>1, <1>2, <1>3, <1>4, <1>6, <1>7, <1>8, <1>9, <1>10, <1>11, <1>12, <1>13,
     <1>14, <1>15, <1>16, <1>17, <1>18, <1>19, <1>20
  DEF Next, LockFiles, Work
-----------------------------------------------------------------------------
(* The lock files, seen from the event store. *)

LEMMA StepsAreLockSteps == Shape /\ [Next]_vars => [LockNext]_lockVars
<1> SUFFICES ASSUME Shape, [Next]_vars
             PROVE  [LockNext]_lockVars
  OBVIOUS
<1>1. ASSUME NEW p \in Procs, Locked(p) \/ Contended(p) \/ OwnerDead(p)
      PROVE  LockNext
  <2>1. Wanted(p) \in Files
    BY <1>1, FoundryLedgerAssumption
    DEF Shape, Jobs, Wanted, Locked, Contended, OwnerDead, LockPc
  <2> QED
    BY <1>1, <2>1 DEF Locked, Contended, OwnerDead, LockNext, LockStep
<1>2. ASSUME NEW p \in Procs, RemoveAbandoned(p) \/ \E f \in Files : Sweep(p, f)
      PROVE  LockNext
  BY <1>2 DEF RemoveAbandoned, Sweep, LockNext, LockStep
<1>3. ASSUME NEW p \in Procs, Crash(p)
      PROVE  LockNext
  BY <1>3 DEF Crash, LockNext, LockStep
<1>4. ASSUME NEW p \in Procs, NEW files, Release(p, files)
      PROVE  LockNext
  BY <1>4 DEF Release, LockNext, LockStep
<1>5. ASSUME NEW p \in Procs, Unindex(p) \/ Untarget(p) \/ Return(p)
      PROVE  LockNext
  BY <1>4, <1>5 DEF Unindex, Untarget, Return
<1>6. ASSUME NEW p \in Procs, CallSomething(p)
      PROVE  UNCHANGED lockVars
  BY <1>6 DEF CallSomething, Create, Read, AppendEvent, List, RebuildStateIndex, Call
<1>7. ASSUME NEW p \in Procs,
             \/ Ambiguous(p) \/ CreateCheck(p) \/ AppendCheck(p) \/ Commit(p)
             \/ ProjectSnapshot(p) \/ RepairTargetReservation(p) \/ ReadDir(p)
             \/ ScanEnds(p) \/ ReplaceIndex(p) \/ \E r \in Runs : ScanRun(p, r)
      PROVE  UNCHANGED lockVars
  BY <1>7 DEF Ambiguous, CreateCheck, AppendCheck, Commit, ProjectSnapshot,
     RepairTargetReservation, ReadDir, ScanEnds, ReplaceIndex, ScanRun
<1>8. CASE UNCHANGED vars
  BY <1>8 DEF vars
<1> QED
  BY <1>1, <1>2, <1>3, <1>5, <1>6, <1>7, <1>8 DEF Next, LockFiles, Work

LEMMA BaseInit == Init => Shape /\ LockInv
  BY ShapeInit, LockInvInit DEF Init

LEMMA BaseStep == Shape /\ LockInv /\ [Next]_vars => Shape' /\ LockInv'
  BY ShapeStep, StepsAreLockSteps, LockInvStep

THEOREM BaseInvariant == Spec => [](Shape /\ LockInv)
  BY BaseInit, BaseStep, PTL DEF Spec

\* The event store's files, calls and processes keep their shape.
THEOREM TypeCorrect == Spec => []TypeOK
<1>1. Shape /\ LockInv => TypeOK
  BY DEF Shape, LockInv, TypeOK
<1> QED
  BY BaseInvariant, <1>1, PTL

\* Every lock file of the event store excludes, up to the reclaim race.
THEOREM StoreLocksExclude == Spec => []MutualExclusion
  BY BaseInvariant, InvExcludes, PTL

\* A live process of the event store loses its lock file only after a crash.
THEOREM StoreTheftNeedsCrash == Spec => []StolenOnlyAfterCrash
<1>1. LockInv => StolenOnlyAfterCrash
  BY DEF LockInv, DeadFromCrash, StolenOnlyAfterCrash
<1> QED
  BY BaseInvariant, <1>1, PTL

-----------------------------------------------------------------------------
(* Prefixes of event sequences. *)

LEMMA PrefixFacts ==
  ASSUME NEW s \in Events, NEW t \in Events
  PROVE  /\ RunLog!Prefix(<<>>, t)
         /\ RunLog!Prefix(t, t)
         /\ \A k \in Keys \cup {Accept} : RunLog!Prefix(s, t) => RunLog!Prefix(s, Append(t, k))
         /\ \A k \in Keys \cup {Accept} :
              RunLog!Prefix(s, t) /\ Len(s) = Len(t) => RunLog!Prefix(Append(s, k), Append(t, k))
         /\ RunLog!Prefix(s, t) => s = SubSeq(t, 1, Len(s))
<1> USE DEF RunLog!Prefix, Events
<1>1. RunLog!Prefix(<<>>, t) /\ RunLog!Prefix(t, t)
  OBVIOUS
<1>2. ASSUME NEW k \in Keys \cup {Accept}, RunLog!Prefix(s, t)
      PROVE  RunLog!Prefix(s, Append(t, k))
  BY <1>2
<1>3. ASSUME NEW k \in Keys \cup {Accept}, RunLog!Prefix(s, t), Len(s) = Len(t)
      PROVE  RunLog!Prefix(Append(s, k), Append(t, k))
  BY <1>3
<1>4. ASSUME RunLog!Prefix(s, t)
      PROVE  s = SubSeq(t, 1, Len(s))
  BY <1>4
<1> QED
  BY <1>1, <1>2, <1>3, <1>4

LEMMA PrefixesCompare ==
  ASSUME NEW s \in Events, NEW t \in Events, NEW u \in Events,
         RunLog!Prefix(s, u), RunLog!Prefix(t, u), Len(s) <= Len(t)
  PROVE  RunLog!Prefix(s, t)
  BY DEF RunLog!Prefix, Events

-----------------------------------------------------------------------------
(* What is read, projected and told of a ledger is a prefix of it. *)

Reading ==
  /\ \A p \in Procs, r \in Runs : RunLog!Prefix(view[p][r], log[r])
  /\ \A r \in Runs : RunLog!Prefix(index[r], log[r]) /\ RunLog!Prefix(acked[r], log[r])

\* What a process knows when it commits: the ledger it read has the length it
\* expects, and its event may follow it.
Ready ==
  \A p \in Procs : pc[p] = "commit" =>
    LET events == view[p][job[p].run] IN
    /\ Len(events) = job[p].at
    /\ job[p].op = "append" =>
         /\ events # <<>>
         /\ events[Len(events)] \notin Ends
         /\ \A i \in 1..Len(events) : events[i] # job[p].key

LEMMA CommitGrows ==
  ASSUME Shape, Reading, Ready, NEW p \in Procs, Commit(p)
  PROVE  LET r == job[p].run  k == job[p].key IN
         \/ UNCHANGED <<log, view>>
         \/ /\ r \in Runs /\ k \in Keys \cup {Accept}
            /\ log[r] \in Events /\ view[p][r] = log[r]
            /\ log' = [log EXCEPT ![r] = Append(@, k)]
            /\ See(p, r, Append(log[r], k))
<1> DEFINE r == job[p].run  k == job[p].key
<1>1. /\ r \in Runs /\ k \in Keys \cup {Accept}
      /\ log[r] \in Events /\ view[p][r] \in Events
  BY DEF Commit, Shape, Jobs, DataTypeOK, Ledgers, Job
<1>2. CASE Len(log[r]) = job[p].at
  <2>1. Len(view[p][r]) = Len(log[r]) /\ RunLog!Prefix(view[p][r], log[r])
    BY <1>1, <1>2 DEF Commit, Ready, Reading
  <2>2. view[p][r] = SubSeq(log[r], 1, Len(log[r]))
    BY <1>1, <2>1, PrefixFacts
  <2>3. view[p][r] = log[r]
    BY <1>1, <2>2 DEF Events
  <2> QED
    BY <1>1, <1>2, <2>3 DEF Commit
<1>3. CASE Len(log[r]) # job[p].at
  BY <1>3 DEF Commit
<1> QED
  BY <1>2, <1>3

LEMMA ReadingInit == Init => Reading /\ Ready
<1> SUFFICES ASSUME Init
             PROVE  Reading /\ Ready
  OBVIOUS
<1>1. <<>> \in Events
  BY DEF Events
<1>2. Reading
  BY <1>1, PrefixFacts DEF Init, Reading, NoLedgers
<1>3. Ready
  BY DEF Init, Ready
<1> QED
  BY <1>2, <1>3

\* What a step may do to ledgers, views, index and acknowledgements.
Moves ==
  /\ \A r \in Runs : \/ log'[r] = log[r]
                     \/ \E k \in Keys \cup {Accept} : log'[r] = Append(log[r], k)
  /\ \A q \in Procs, s \in Runs : view'[q][s] \in {view[q][s], log'[s], <<>>}
  /\ \A s \in Runs : index'[s] = index[s] \/ \E q \in Procs : index'[s] = view[q][s]
  /\ \A s \in Runs : acked'[s] = acked[s] \/ \E q \in Procs : acked'[s] = view[q][s]

LEMMA EveryStepMoves ==
  ASSUME Shape, Reading, Ready, [Next]_vars
  PROVE  Moves
<1> USE DEF Shape, DataTypeOK, Ledgers
<1>1. ASSUME UNCHANGED <<log, index, acked, view>>
      PROVE  Moves
  BY <1>1 DEF Moves
<1>2. ASSUME NEW p \in Procs, NEW r \in Runs, See(p, r, log[r]), UNCHANGED <<log, index, acked>>
      PROVE  Moves
  BY <1>2 DEF Moves, See
<1>3. ASSUME NEW p \in Procs, view' = [view EXCEPT ![p] = NoLedgers],
             UNCHANGED <<log, index>>,
             \A s \in Runs : acked'[s] = acked[s] \/ acked'[s] = view[p][s]
      PROVE  Moves
  BY <1>3 DEF Moves, NoLedgers
<1>4. ASSUME NEW p \in Procs, CallSomething(p)
      PROVE  Moves
  <2>1. ASSUME NEW r \in Runs, Read(p, r)
        PROVE  Moves
    BY <1>2, <2>1 DEF Read, Call, ledgerVars
  <2>2. ASSUME ~ \E r \in Runs : Read(p, r)
        PROVE  Moves
    BY <1>1, <1>4, <2>2
    DEF CallSomething, Create, AppendEvent, List, RebuildStateIndex, Call, ledgerVars
  <2> QED
    BY <2>1, <2>2
<1>5. ASSUME NEW p \in Procs, LockFiles(p)
      PROVE  Moves
  BY <1>1, <1>5 DEF LockFiles, Locked, Contended, OwnerDead, RemoveAbandoned, Sweep,
     ledgerVars, procVars
<1>6. ASSUME NEW p \in Procs, Crash(p)
      PROVE  Moves
  BY <1>3, <1>6 DEF Crash, Idle, ledgerVars
<1>7. ASSUME NEW p \in Procs, Return(p)
      PROVE  Moves
  <2>1. job[p].op \in Writes => job[p].run \in Runs
    BY DEF Jobs, Writes
  <2>2. \A s \in Runs : acked'[s] = acked[s] \/ acked'[s] = view[p][s]
    BY <1>7, <2>1 DEF Return
  <2> QED
    BY <1>3, <1>7, <2>2 DEF Return, Idle, ledgerVars
<1>8. ASSUME NEW p \in Procs, CreateCheck(p) \/ AppendCheck(p)
      PROVE  Moves
  <2>1. job[p].run \in Runs
    BY <1>8 DEF CreateCheck, AppendCheck, Jobs
  <2> QED
    BY <1>2, <1>8, <2>1 DEF CreateCheck, AppendCheck
<1>9. ASSUME NEW p \in Procs, NEW r \in Runs, ScanRun(p, r)
      PROVE  Moves
  BY <1>2, <1>9 DEF ScanRun, ledgerVars
<1>10. ASSUME NEW p \in Procs, ReadDir(p)
       PROVE  Moves
  BY <1>3, <1>10 DEF ReadDir, ledgerVars
<1>11. ASSUME NEW p \in Procs, Commit(p)
       PROVE  Moves
  <2> DEFINE r == job[p].run  k == job[p].key
  <2>1. UNCHANGED <<index, acked>>
    BY <1>11 DEF Commit
  <2>2. CASE UNCHANGED <<log, view>>
    BY <1>1, <2>1, <2>2
  <2>3. CASE /\ r \in Runs /\ k \in Keys \cup {Accept}
             /\ log' = [log EXCEPT ![r] = Append(@, k)]
             /\ See(p, r, Append(log[r], k))
    <3>1. log'[r] = Append(log[r], k) /\ \A s \in Runs \ {r} : log'[s] = log[s]
      BY <2>3
    <3>2. view'[p][r] = log'[r]
      BY <2>3, <3>1 DEF See
    <3>3. \A q \in Procs, s \in Runs : <<q, s>> # <<p, r>> => view'[q][s] = view[q][s]
      BY <2>3 DEF See
    <3> QED
      BY <2>1, <2>3, <3>1, <3>2, <3>3, ZenonT(40) DEF Moves
  <2> QED
    BY <1>11, <2>2, <2>3, CommitGrows
<1>12. ASSUME NEW p \in Procs, ProjectSnapshot(p)
       PROVE  Moves
  BY <1>12 DEF ProjectSnapshot, Projected, Moves
<1>13. ASSUME NEW p \in Procs, ReplaceIndex(p)
       PROVE  Moves
  BY <1>13 DEF ReplaceIndex, Moves
<1>14. ASSUME NEW p \in Procs,
              \/ Ambiguous(p) \/ Unindex(p) \/ RepairTargetReservation(p)
              \/ Untarget(p) \/ ScanEnds(p)
       PROVE  Moves
  BY <1>1, <1>14 DEF Ambiguous, Unindex, RepairTargetReservation, Untarget, ScanEnds, ledgerVars
<1>15. CASE UNCHANGED vars
  BY <1>1, <1>15 DEF vars, ledgerVars, procVars
<1> QED
  BY <1>4, <1>5, <1>6, <1>7, <1>8, <1>9, <1>10, <1>11, <1>12, <1>13, <1>14, <1>15
  DEF Next, Work

LEMMA ReadingStep ==
  ASSUME Shape, Shape', Reading, Ready, [Next]_vars
  PROVE  Reading'
<1>1. Moves
  BY EveryStepMoves
<1>2. ASSUME NEW r \in Runs, NEW s \in Events, RunLog!Prefix(s, log[r])
      PROVE  RunLog!Prefix(s, log'[r])
  <2>1. log[r] \in Events
    BY DEF Shape, DataTypeOK, Ledgers
  <2>2. log'[r] = log[r] \/ \E k \in Keys \cup {Accept} : log'[r] = Append(log[r], k)
    BY <1>1 DEF Moves
  <2>3. ASSUME NEW k \in Keys \cup {Accept}
        PROVE  RunLog!Prefix(s, Append(log[r], k))
    BY <1>2, <2>1, PrefixFacts
  <2> QED
    BY <1>2, <2>2, <2>3
<1>3. ASSUME NEW q \in Procs, NEW r \in Runs
      PROVE  RunLog!Prefix(view'[q][r], log'[r])
  <2>1. view[q][r] \in Events /\ log'[r] \in Events
    BY DEF Shape, DataTypeOK, Ledgers
  <2>2. RunLog!Prefix(view[q][r], log'[r])
    BY <1>2, <2>1 DEF Reading
  <2> QED
    BY <1>1, <2>1, <2>2, PrefixFacts DEF Moves
<1>4. ASSUME NEW r \in Runs
      PROVE  RunLog!Prefix(index'[r], log'[r]) /\ RunLog!Prefix(acked'[r], log'[r])
  <2>1. RunLog!Prefix(index[r], log'[r]) /\ RunLog!Prefix(acked[r], log'[r])
    BY <1>2 DEF Reading, Shape, DataTypeOK, Ledgers
  <2>2. \A q \in Procs : RunLog!Prefix(view[q][r], log'[r])
    BY <1>2 DEF Reading, Shape, DataTypeOK, Ledgers
  <2> QED
    BY <1>1, <2>1, <2>2 DEF Moves
<1> QED
  BY <1>3, <1>4 DEF Reading

-----------------------------------------------------------------------------
(* One process at a time. *)

\* A step of p leaves the calls of the others alone.
Undisturbed(p) ==
  \A q \in Procs \ {p} :
    pc'[q] = pc[q] /\ job'[q] = job[q] /\ view'[q] = view[q] /\ pending'[q] = pending[q]

LEMMA OthersUndisturbed ==
  ASSUME Shape, NEW p \in Procs,
         CallSomething(p) \/ LockFiles(p) \/ Work(p) \/ Crash(p)
  PROVE  Undisturbed(p)
<1> USE DEF Shape, DataTypeOK, Undisturbed, Go, See, Idle
<1>1. CASE CallSomething(p)
  BY <1>1 DEF CallSomething, Create, Read, AppendEvent, List, RebuildStateIndex, Call
<1>2. CASE LockFiles(p)
  BY <1>2 DEF LockFiles, Locked, Contended, OwnerDead, RemoveAbandoned, Sweep, procVars
<1>3. CASE Crash(p) \/ Return(p)
  BY <1>3 DEF Crash, Return
<1>4. CASE Ambiguous(p) \/ CreateCheck(p) \/ AppendCheck(p) \/ Commit(p)
  BY <1>4 DEF Ambiguous, CreateCheck, AppendCheck, Commit
<1>5. CASE ProjectSnapshot(p) \/ Unindex(p) \/ RepairTargetReservation(p) \/ Untarget(p)
  BY <1>5 DEF ProjectSnapshot, Unindex, RepairTargetReservation, Untarget
<1>6. CASE ReadDir(p) \/ ScanEnds(p) \/ ReplaceIndex(p) \/ \E r \in Runs : ScanRun(p, r)
  BY <1>6 DEF ReadDir, ScanEnds, ReplaceIndex, ScanRun
<1> QED
  BY <1>1, <1>2, <1>3, <1>4, <1>5, <1>6 DEF Work

\* The two steps that let a call commit.
LEMMA CommitEntry ==
  ASSUME Shape, NEW p \in Procs,
         CallSomething(p) \/ LockFiles(p) \/ Work(p) \/ Crash(p),
         pc'[p] = "commit"
  PROVE  \/ CreateCheck(p) \/ AppendCheck(p)
         \/ UNCHANGED <<pc, job, view, log, reservation>>
<1> USE DEF Shape, DataTypeOK, Go, Idle
<1>1. CASE CallSomething(p)
  BY <1>1 DEF CallSomething, Create, Read, AppendEvent, List, RebuildStateIndex, Call
<1>2. CASE LockFiles(p)
  <2>1. CASE Locked(p)
    <3>1. pc'[p] # "commit"
      BY <2>1 DEF Locked, LockPc
    <3> QED
      BY <3>1
  <2>2. CASE Contended(p)
    BY <2>2 DEF Contended
  <2>3. CASE OwnerDead(p) \/ RemoveAbandoned(p) \/ \E f \in Files : Sweep(p, f)
    BY <2>3 DEF OwnerDead, RemoveAbandoned, Sweep, procVars, ledgerVars
  <2> QED
    BY <1>2, <2>1, <2>2, <2>3 DEF LockFiles
<1>3. CASE Crash(p) \/ Return(p)
  BY <1>3 DEF Crash, Return
<1>4. CASE Ambiguous(p) \/ Commit(p)
  BY <1>4 DEF Ambiguous, Commit
<1>5. CASE ProjectSnapshot(p) \/ Unindex(p) \/ RepairTargetReservation(p) \/ Untarget(p)
  BY <1>5 DEF ProjectSnapshot, Unindex, RepairTargetReservation, Untarget
<1>6. CASE ReadDir(p) \/ ScanEnds(p) \/ ReplaceIndex(p) \/ \E r \in Runs : ScanRun(p, r)
  BY <1>6 DEF ReadDir, ScanEnds, ReplaceIndex, ScanRun
<1> QED
  BY <1>1, <1>2, <1>3, <1>4, <1>5, <1>6 DEF Work

LEMMA ReadyStep ==
  ASSUME Shape, Ready, [Next]_vars
  PROVE  Ready'
<1> USE DEF Ready
<1>1. CASE UNCHANGED vars
  BY <1>1 DEF vars, procVars
<1>2. ASSUME NEW p \in Procs, CallSomething(p) \/ LockFiles(p) \/ Work(p) \/ Crash(p)
      PROVE  Ready'
  <2> DEFINE Can(q) ==
        LET events == view[q][job[q].run] IN
        /\ Len(events) = job[q].at
        /\ job[q].op = "append" =>
             /\ events # <<>>
             /\ events[Len(events)] \notin Ends
             /\ \A i \in 1..Len(events) : events[i] # job[q].key
  <2>1. ASSUME NEW q \in Procs, q # p, pc'[q] = "commit"
        PROVE  Can(q)'
    BY <1>2, <2>1, OthersUndisturbed DEF Undisturbed
  <2>2. ASSUME CreateCheck(p), pc'[p] = "commit"
        PROVE  Can(p)'
    <3>1. job[p].run \in Runs /\ job[p].op = "create" /\ job[p].at = 0
      BY <2>2 DEF CreateCheck, Shape, Jobs
    <3>2. log[job[p].run] = <<>> /\ job' = job
      BY <2>2 DEF CreateCheck, Go, Shape, DataTypeOK
    <3>3. view'[p][job[p].run] = <<>>
      BY <2>2, <3>1, <3>2 DEF CreateCheck, See, Shape, DataTypeOK, Ledgers
    <3> QED
      BY <3>1, <3>2, <3>3
  <2>3. ASSUME AppendCheck(p), pc'[p] = "commit"
        PROVE  Can(p)'
    <3> DEFINE r == job[p].run
    <3>1. r \in Runs /\ job' = job /\ log[r] # <<>>
      BY <2>3 DEF AppendCheck, Go, Shape, DataTypeOK, Jobs
    <3>2. view'[p][r] = log[r] /\ log[r] \in Events
      BY <2>3, <3>1 DEF AppendCheck, See, Shape, DataTypeOK, Ledgers
    <3>3. Reconciled(r) /\ Verdict(log[r], job[p].key, job[p].at) = "commit"
      BY <2>3, <3>1 DEF AppendCheck, Go, Shape, DataTypeOK
    <3>4. Len(log[r]) = job[p].at /\ \A i \in 1..Len(log[r]) : log[r][i] # job[p].key
      BY <3>2, <3>3 DEF Verdict, Events
    <3>5. Active(log[r])
      BY <3>1, <3>3, FoundryLedgerAssumption DEF Reconciled, Authorities, ActiveIn
    <3> QED
      BY <3>1, <3>2, <3>4, <3>5 DEF Active
  <2>4. ASSUME pc'[p] = "commit", UNCHANGED <<pc, job, view>>
        PROVE  Can(p)'
    BY <2>4
  <2> QED
    BY <1>2, <2>1, <2>2, <2>3, <2>4, CommitEntry
<1> QED
  BY <1>1, <1>2 DEF Next

\* The layers so far: they do not depend on who holds which lock.
LogInv == Shape /\ LockInv /\ Reading /\ Ready

LEMMA LogInvStep == LogInv /\ [Next]_vars => LogInv'
<1> SUFFICES ASSUME LogInv, [Next]_vars
             PROVE  LogInv'
  OBVIOUS
<1>1. Shape' /\ LockInv'
  BY BaseStep DEF LogInv
<1> QED
  BY <1>1, ReadingStep, ReadyStep DEF LogInv

\* What processes read, what the index shows and what callers were told are
\* prefixes of the ledgers, and whoever commits extends the ledger it read.
THEOREM LogInvariant == Spec => []LogInv
<1>1. Init => LogInv
  BY BaseInit, ReadingInit DEF LogInv
<1> QED
  BY <1>1, LogInvStep, PTL DEF Spec

\* "SQLite/StateIndex is only a rebuildable projection": whatever is stolen,
\* reordered or crashes, it shows no event the ledger does not hold.
THEOREM IndexFollows == Spec => []IndexFollowsLog
<1>1. LogInv => IndexFollowsLog
  BY DEF LogInv, Reading, IndexFollowsLog
<1> QED
  BY LogInvariant, <1>1, PTL

-----------------------------------------------------------------------------
(* The event store implements FoundryRunLog. *)

LEMMA RunLogInit == Init => RunLog!Init
  BY DEF Init, RunLog!Init, NoLedgers

LEMMA RunLogStep ==
  ASSUME LogInv, [Next]_vars
  PROVE  [RunLog!Next]_(RunLog!logVars)
<1> USE DEF LogInv
<1>1. ASSUME NEW p \in Procs, Commit(p)
      PROVE  RunLog!Next \/ UNCHANGED RunLog!logVars
  <2> DEFINE r == job[p].run  k == job[p].key
  <2>1. CASE UNCHANGED <<log, view>>
    BY <1>1, <2>1 DEF Commit, RunLog!logVars
  <2>2. CASE /\ r \in Runs /\ k \in Keys \cup {Accept}
             /\ log[r] \in Events /\ view[p][r] = log[r]
             /\ log' = [log EXCEPT ![r] = Append(@, k)]
    <3>0. acked' = acked
      BY <1>1 DEF Commit
    <3>1. CASE job[p].op = "create"
      <4>1. k = Accept /\ log[r] = <<>>
        BY <1>1, <2>2, <3>1 DEF Commit, Ready, Shape, Jobs, Events
      <4>2. RunLog!AcceptRun(r)
        BY <2>2, <3>0, <4>1 DEF RunLog!AcceptRun
      <4> QED
        BY <2>2, <4>2 DEF RunLog!Next, RunLog!Step
    <3>2. CASE job[p].op = "append"
      <4>1. k \in Keys
        BY <3>2 DEF Shape, Jobs
      <4>2. /\ log[r] # <<>>
            /\ log[r][Len(log[r])] \notin Ends
            /\ \A i \in 1..Len(log[r]) : log[r][i] # k
        BY <1>1, <2>2, <3>2 DEF Commit, Ready
      <4>3. RunLog!Extend(r, k)
        BY <2>2, <3>0, <4>2 DEF RunLog!Extend
      <4> QED
        BY <2>2, <4>1, <4>3 DEF RunLog!Next, RunLog!Step
    <3> QED
      BY <1>1, <3>1, <3>2 DEF Commit, Shape, Jobs
  <2> QED
    BY <1>1, <2>1, <2>2, CommitGrows
<1>2. ASSUME NEW p \in Procs, Return(p), acked' # acked
      PROVE  RunLog!Next
  <2> DEFINE r == job[p].run  events == view[p][r]
  <2>1. /\ job[p].op \in Writes
        /\ Len(events) > Len(acked[r])
        /\ acked' = [acked EXCEPT ![r] = events]
        /\ log' = log
    BY <1>2 DEF Return, ledgerVars
  <2>2. r \in Runs
    BY <2>1 DEF Writes, Shape, Jobs
  <2>3. log[r] \in Events /\ events \in Events /\ acked[r] \in Events
    BY <2>2 DEF Shape, DataTypeOK, Ledgers
  <2>4. RunLog!Prefix(events, log[r]) /\ RunLog!Prefix(acked[r], log[r])
    BY <2>2 DEF Reading
  <2>5. RunLog!Prefix(acked[r], events)
    <3>1. Len(acked[r]) <= Len(events)
      BY <2>1, <2>3 DEF Events
    <3> QED
      BY <2>3, <2>4, <3>1, PrefixesCompare
  <2>6. RunLog!Promise(r, events)
    BY <2>1, <2>4, <2>5 DEF RunLog!Promise
  <2>7. events = SubSeq(log[r], 1, Len(events)) /\ Len(events) \in 1..Len(log[r])
    BY <2>1, <2>3, <2>4, PrefixFacts DEF RunLog!Prefix, Events
  <2> QED
    BY <2>2, <2>6, <2>7 DEF RunLog!Next, RunLog!Step
<1>3. ASSUME NEW p \in Procs, CallSomething(p) \/ LockFiles(p) \/ Crash(p)
      PROVE  UNCHANGED RunLog!logVars
  BY <1>3 DEF CallSomething, Create, Read, AppendEvent, List, RebuildStateIndex, Call,
     LockFiles, Locked, Contended, OwnerDead, RemoveAbandoned, Sweep, Crash, ledgerVars,
     RunLog!logVars
<1>4. ASSUME NEW p \in Procs,
             \/ Ambiguous(p) \/ CreateCheck(p) \/ AppendCheck(p)
             \/ ProjectSnapshot(p) \/ Unindex(p) \/ RepairTargetReservation(p) \/ Untarget(p)
             \/ ReadDir(p) \/ ScanEnds(p) \/ ReplaceIndex(p) \/ \E r \in Runs : ScanRun(p, r)
      PROVE  UNCHANGED RunLog!logVars
  BY <1>4 DEF Ambiguous, CreateCheck, AppendCheck, ProjectSnapshot, Unindex,
     RepairTargetReservation, Untarget, ReadDir, ScanEnds, ReplaceIndex, ScanRun, ledgerVars,
     RunLog!logVars
<1>5. ASSUME NEW p \in Procs, Return(p), acked' = acked
      PROVE  UNCHANGED RunLog!logVars
  BY <1>5 DEF Return, ledgerVars, RunLog!logVars
<1>6. CASE UNCHANGED vars
  BY <1>6 DEF vars, ledgerVars, RunLog!logVars
<1> QED
  BY <1>1, <1>2, <1>3, <1>4, <1>5, <1>6 DEF Next, Work

\* The event store keeps the promise of FoundryRunLog: append-only ledgers with
\* each event once and none after a terminal one, and acknowledged events stay,
\* with any number of processes, crashes and stolen locks.
THEOREM ImplementsRunLog == Spec => RunLogSpec
<1>1. Init => RunLog!Init
  BY RunLogInit
<1>2. LogInv /\ [Next]_vars => [RunLog!Next]_(RunLog!logVars)
  BY RunLogStep
<1> QED
  BY <1>1, <1>2, LogInvariant, PTL DEF Spec, RunLogSpec, RunLog!Spec

-----------------------------------------------------------------------------
(* What holding the target lock keeps others from doing. *)

Writer(p) == job[p].op \in {"create", "append"}
Derives(p) == Writer(p) /\ pc[p] \in {"index", "project", "unindex", "repair"}
InTarget(p) == pc[p] \in {"run", "check", "commit", "repair", "untarget"} \/ Derives(p)

Holding == \A p \in Procs : InTarget(p) => Target \in held[p]

Alone ==
  ~stolen =>
    /\ ~Several(ActiveIn(log))
    /\ \A p \in Procs : pc[p] = "commit" /\ job[p].op = "create" => ActiveIn(log) = {}
    /\ \A p \in Procs : pc[p] = "commit" \/ Derives(p) =>
         reservation \in {NoRun, job[p].run}

\* Who else is in the target section while p is: nobody, unless its lock file
\* was stolen.
LEMMA OneInTarget ==
  ASSUME LockInv, Holding, ~stolen, NEW p \in Procs, NEW q \in Procs,
         InTarget(p), InTarget(q)
  PROVE  p = q
BY FoundryMutationLockAssumption, FoundryLedgerAssumption
DEF LockInv, LockTypeOK, HeldIsNamed, Holding

LEMMA StolenStays ==
  ASSUME LockInv, [LockNext]_lockVars, ~stolen'
  PROVE  ~stolen
BY DEF LockInv, LockTypeOK, LockNext, LockStep, Acquire, Refused, FindDead, Remove, Release,
   CrashLocks, lockVars

LEMMA HoldingStep ==
  ASSUME Shape, LockInv, Holding, [Next]_vars
  PROVE  Holding'
<1> USE DEF Shape, DataTypeOK, LockInv, LockTypeOK, Holding, InTarget, Derives, Writer
<1>1. CASE UNCHANGED vars
  BY <1>1 DEF vars, lockVars, procVars
<1>2. ASSUME NEW p \in Procs, CallSomething(p) \/ LockFiles(p) \/ Work(p) \/ Crash(p),
             \A q \in Procs \ {p} : held'[q] = held[q],
             InTarget(p)' => Target \in held'[p]
      PROVE  Holding'
  BY <1>2, OthersUndisturbed DEF Undisturbed
<1>3. ASSUME NEW p \in Procs, CallSomething(p)
      PROVE  Holding'
  <2>1. /\ held' = held
        /\ pc'[p] = "target" \/ pc'[p] = "readdir" \/ (pc'[p] = "index" /\ job'[p].op = "rebuild")
    BY <1>3 DEF CallSomething, Create, Read, AppendEvent, List, RebuildStateIndex, Call, Go,
       lockVars
  <2> QED
    BY <1>2, <1>3, <2>1
<1>4. ASSUME NEW p \in Procs, Locked(p)
      PROVE  Holding'
  <2>1. \A q \in Procs \ {p} : held'[q] = held[q]
    BY <1>4 DEF Locked, Acquire
  <2>2. held'[p] = held[p] \cup {Wanted(p)} /\ job' = job
    BY <1>4 DEF Locked, Acquire
  <2>3. CASE pc[p] = "target"
    BY <1>2, <1>4, <2>1, <2>2, <2>3 DEF Wanted, LockFiles
  <2>4. CASE pc[p] = "run"
    BY <1>2, <1>4, <2>1, <2>2, <2>4 DEF LockFiles
  <2>5. CASE pc[p] = "index"
    <3>1. pc'[p] \in {"readdir", "project"}
      BY <1>4, <2>5 DEF Locked, Go
    <3> QED
      BY <1>2, <1>4, <2>1, <2>2, <2>5, <3>1 DEF LockFiles
  <2> QED
    BY <1>4, <2>3, <2>4, <2>5 DEF Locked, LockPc
<1>5. ASSUME NEW p \in Procs, Contended(p)
      PROVE  Holding'
  <2>1. held' = held /\ pc'[p] = "abort"
    BY <1>5 DEF Contended, Refused, Go
  <2> QED
    BY <1>2, <1>5, <2>1 DEF LockFiles
<1>6. ASSUME NEW p \in Procs, OwnerDead(p) \/ RemoveAbandoned(p)
                              \/ \E f \in Files : Sweep(p, f)
      PROVE  Holding'
  <2>1. UNCHANGED <<held, pc, job>>
    BY <1>6 DEF OwnerDead, RemoveAbandoned, Sweep, FindDead, Remove, procVars
  <2> QED
    BY <2>1
<1>7. ASSUME NEW p \in Procs, Crash(p) \/ Return(p)
      PROVE  Holding'
  <2>1. pc'[p] = "idle" /\ job'[p].op = "none"
    BY <1>7 DEF Crash, Return, Idle, Go, NoJob
  <2>2. \A q \in Procs \ {p} : held'[q] = held[q]
    BY <1>7 DEF Crash, Return, CrashLocks, Release
  <2> QED
    BY <1>2, <1>7, <2>1, <2>2 DEF Work
<1>8. ASSUME NEW p \in Procs,
             \/ Ambiguous(p) \/ CreateCheck(p) \/ AppendCheck(p) \/ Commit(p)
             \/ ProjectSnapshot(p) \/ RepairTargetReservation(p)
      PROVE  Holding'
  <2>1. held' = held
    BY <1>8 DEF Ambiguous, CreateCheck, AppendCheck, Commit, ProjectSnapshot,
       RepairTargetReservation, lockVars
  <2>2. CASE Ambiguous(p)
    <3>1. pc'[p] = "abort"
      BY <2>2 DEF Ambiguous, Go
    <3> QED
      BY <1>2, <1>8, <2>1, <3>1 DEF Work
  <2>3. CASE CreateCheck(p) \/ AppendCheck(p) \/ Commit(p)
    <3>1. Target \in held[p]
      BY <2>3 DEF CreateCheck, AppendCheck, Commit
    <3> QED
      BY <1>2, <1>8, <2>1, <3>1 DEF Work
  <2>4. CASE ProjectSnapshot(p)
    <3>1. pc[p] = "project" /\ pc'[p] = "unindex" /\ job' = job
      BY <2>4 DEF ProjectSnapshot, Go
    <3> QED
      BY <1>2, <1>8, <2>1, <3>1 DEF Work
  <2>5. CASE RepairTargetReservation(p)
    <3>1. pc[p] = "repair"
      BY <2>5 DEF RepairTargetReservation
    <3> QED
      BY <1>2, <1>8, <2>1, <3>1 DEF Work
  <2> QED
    BY <1>8, <2>2, <2>3, <2>4, <2>5
<1>9. ASSUME NEW p \in Procs, Unindex(p)
      PROVE  Holding'
  <2>1. /\ held' = [held EXCEPT ![p] = @ \ {Index}]
        /\ job' = job
        /\ pc[p] = "unindex"
        /\ pc'[p] \in {"abort", "finish"} \/ (pc'[p] = "repair" /\ Writer(p))
    BY <1>9 DEF Unindex, Release, Go
  <2>2. Target # Index
    BY FoundryLedgerAssumption
  <2> QED
    BY <1>2, <1>9, <2>1, <2>2 DEF Work
<1>10. ASSUME NEW p \in Procs, Untarget(p)
       PROVE  Holding'
  <2>1. /\ held' = [held EXCEPT ![p] = @ \ {Target}]
        /\ job'[p].op = "read"
        /\ pc'[p] \in {"abort", "index"}
    BY <1>10 DEF Untarget, Release, Go, Jobs
  <2> QED
    BY <1>2, <1>10, <2>1 DEF Work
<1>11. ASSUME NEW p \in Procs,
              ReadDir(p) \/ ScanEnds(p) \/ ReplaceIndex(p) \/ \E r \in Runs : ScanRun(p, r)
       PROVE  Holding'
  <2>1. held' = held
    BY <1>11 DEF ReadDir, ScanEnds, ReplaceIndex, ScanRun, lockVars
  <2>2. pc'[p] \in {"scan", "abort", "replace", "finish", "unindex", "index"}
    BY <1>11 DEF ReadDir, ScanEnds, ReplaceIndex, ScanRun, Go
  <2>3. job'[p].op \in {"list", "rebuild"}
    BY <1>11 DEF ReadDir, ScanEnds, ReplaceIndex, ScanRun, Jobs, Job
  <2> QED
    BY <1>2, <1>11, <2>1, <2>2, <2>3 DEF Work
<1> QED
  BY <1>1, <1>3, <1>4, <1>5, <1>6, <1>7, <1>8, <1>9, <1>10, <1>11
  DEF Next, LockFiles, Work

\* A step that neither writes a ledger or the reservation nor brings its
\* process closer to writing one.
Quiet(p) ==
  /\ UNCHANGED <<log, reservation>>
  /\ pc'[p] = "commit" => UNCHANGED <<pc, job>>
  /\ Derives(p)' => Derives(p) /\ job'[p].run = job[p].run

LEMMA QuietSteps ==
  ASSUME Shape, NEW p \in Procs,
         \/ CallSomething(p) \/ LockFiles(p) \/ Crash(p) \/ Return(p)
         \/ ProjectSnapshot(p) \/ Unindex(p) \/ Untarget(p)
         \/ ReadDir(p) \/ ScanEnds(p) \/ ReplaceIndex(p) \/ \E r \in Runs : ScanRun(p, r)
  PROVE  Quiet(p)
<1> USE DEF Shape, DataTypeOK, Quiet, Derives, Writer
<1>1. CASE CallSomething(p)
  <2>1. /\ UNCHANGED <<log, reservation>>
        /\ pc'[p] = "target" \/ pc'[p] = "readdir" \/ (pc'[p] = "index" /\ job'[p].op = "rebuild")
    BY <1>1 DEF CallSomething, Create, Read, AppendEvent, List, RebuildStateIndex, Call, Go,
       ledgerVars
  <2> QED
    BY <2>1
<1>2. CASE Locked(p)
  <2>1. UNCHANGED <<log, reservation, job>>
    BY <1>2 DEF Locked, ledgerVars
  <2>2. \/ pc[p] = "target" /\ pc'[p] \in {"run", "check"}
        \/ pc[p] = "target" /\ pc'[p] = "repair" /\ job[p].op = "read"
        \/ pc[p] = "run" /\ pc'[p] = "check"
        \/ pc[p] = "index" /\ pc'[p] \in {"readdir", "project"}
    BY <1>2 DEF Locked, Go, LockPc
  <2> QED
    BY <2>1, <2>2
<1>3. CASE Contended(p)
  BY <1>3 DEF Contended, Go, ledgerVars
<1>4. CASE OwnerDead(p) \/ RemoveAbandoned(p) \/ \E f \in Files : Sweep(p, f)
  BY <1>4 DEF OwnerDead, RemoveAbandoned, Sweep, procVars, ledgerVars
<1>5. CASE Crash(p) \/ Return(p)
  BY <1>5 DEF Crash, Return, Idle, Go, NoJob, ledgerVars
<1>6. CASE ProjectSnapshot(p)
  BY <1>6 DEF ProjectSnapshot, Go
<1>7. CASE Unindex(p)
  <2>1. UNCHANGED <<log, reservation, job>> /\ pc[p] = "unindex"
    BY <1>7 DEF Unindex, ledgerVars
  <2>2. pc'[p] \in {"abort", "repair", "finish"}
    BY <1>7 DEF Unindex, Go
  <2> QED
    BY <2>1, <2>2
<1>8. CASE Untarget(p)
  <2>1. UNCHANGED <<log, reservation, job>> /\ job[p].op = "read"
    BY <1>8 DEF Untarget, ledgerVars, Jobs
  <2>2. pc'[p] \in {"abort", "index"}
    BY <1>8 DEF Untarget, Go
  <2> QED
    BY <2>1, <2>2
<1>9. CASE ReadDir(p) \/ ScanEnds(p) \/ ReplaceIndex(p) \/ \E r \in Runs : ScanRun(p, r)
  <2>1. UNCHANGED <<log, reservation>>
    BY <1>9 DEF ReadDir, ScanEnds, ReplaceIndex, ScanRun, ledgerVars
  <2>2. pc'[p] \in {"scan", "abort", "replace", "finish", "unindex", "index"}
    BY <1>9 DEF ReadDir, ScanEnds, ReplaceIndex, ScanRun, Go
  <2>3. job'[p].op \in {"list", "rebuild"}
    BY <1>9 DEF ReadDir, ScanEnds, ReplaceIndex, ScanRun, Jobs, Job
  <2> QED
    BY <2>1, <2>2, <2>3
<1> QED
  BY <1>1, <1>2, <1>3, <1>4, <1>5, <1>6, <1>7, <1>8, <1>9 DEF LockFiles

\* A process that acts on the target is the only one near it.
LEMMA OthersAway ==
  ASSUME LockInv, Holding, ~stolen, NEW p \in Procs, InTarget(p),
         NEW q \in Procs \ {p}
  PROVE  pc[q] # "commit" /\ ~Derives(q)
BY OneInTarget DEF InTarget

LEMMA AloneStep ==
  ASSUME LogInv, Holding, Alone, [Next]_vars
  PROVE  Alone'
<1> SUFFICES ASSUME ~stolen'
             PROVE  /\ ~Several(ActiveIn(log'))
                    /\ \A q \in Procs :
                         /\ pc'[q] = "commit" /\ job'[q].op = "create" => ActiveIn(log') = {}
                         /\ pc'[q] = "commit" \/ Derives(q)' =>
                              reservation' \in {NoRun, job'[q].run}
  BY DEF Alone, ActiveIn
<1> USE DEF LogInv
<1>1. ~stolen
  BY StepsAreLockSteps, StolenStays
<1>2. /\ ~Several(ActiveIn(log))
      /\ \A q \in Procs :
           /\ pc[q] = "commit" /\ job[q].op = "create" => ActiveIn(log) = {}
           /\ pc[q] = "commit" \/ Derives(q) => reservation \in {NoRun, job[q].run}
  BY <1>1 DEF Alone
<1> HIDE DEF LogInv
<1>3. CASE UNCHANGED vars
  BY <1>2, <1>3 DEF vars, ledgerVars, procVars, Derives, Writer
<1>4. ASSUME NEW p \in Procs, CallSomething(p) \/ LockFiles(p) \/ Work(p) \/ Crash(p)
      PROVE  /\ ~Several(ActiveIn(log'))
             /\ \A q \in Procs :
                  /\ pc'[q] = "commit" /\ job'[q].op = "create" => ActiveIn(log') = {}
                  /\ pc'[q] = "commit" \/ Derives(q)' =>
                       reservation' \in {NoRun, job'[q].run}
  <2>1. /\ Undisturbed(p)
        /\ \A q \in Procs \ {p} : Derives(q)' = Derives(q)
    <3>1. Undisturbed(p)
      BY <1>4, OthersUndisturbed DEF LogInv
    <3> QED
      BY <3>1 DEF Undisturbed, Derives, Writer
  <2>2. CASE Quiet(p)
    BY <1>2, <2>1, <2>2 DEF Quiet, Undisturbed
  <2>3. ASSUME InTarget(p), NEW q \in Procs \ {p}
        PROVE  pc'[q] # "commit" /\ ~Derives(q)'
    BY <1>1, <2>1, <2>3, OthersAway DEF Undisturbed, LogInv
  <2>4. CASE Ambiguous(p)
    <3>1. log' = log /\ reservation' = NoRun
      BY <2>4 DEF Ambiguous
    <3>2. pc'[p] = "abort"
      BY <2>4 DEF Ambiguous, Go, LogInv, Shape, DataTypeOK
    <3> QED
      BY <1>2, <2>1, <3>1, <3>2 DEF Undisturbed
  <2>5. CASE CreateCheck(p)
    <3>1. InTarget(p) /\ log' = log
      BY <2>5 DEF CreateCheck, InTarget
    <3>2. PICK a \in Runs \cup {NoRun} :
            /\ Reconciled(a)
            /\ Go(p, IF log[job[p].run] = <<>> /\ a = NoRun THEN "commit"
                     ELSE IF log[job[p].run] # <<>> /\ a \in {job[p].run, NoRun}
                          THEN "index" ELSE "abort")
      BY <2>5 DEF CreateCheck
    <3>3. ASSUME pc'[p] = "commit"
          PROVE  reservation' = NoRun /\ ActiveIn(log) = {}
      <4>1. a = NoRun
        BY <3>2, <3>3 DEF Go, LogInv, Shape, DataTypeOK
      <4> QED
        BY <3>2, <4>1, FoundryLedgerAssumption DEF Reconciled, Authorities, ActiveIn
    <3>4. ~Derives(p)'
      <4>1. CASE log[job[p].run] = <<>>
        BY <3>2, <4>1 DEF Go, LogInv, Shape, DataTypeOK, Derives
      <4>2. CASE log[job[p].run] # <<>>
        <5>1. job' = [job EXCEPT ![p].op = "reproject"]
          BY <2>5, <4>2 DEF CreateCheck
        <5>2. job'[p].op = "reproject"
          BY <5>1 DEF LogInv, Shape, DataTypeOK, Job
        <5> QED
          BY <5>2 DEF Derives, Writer
      <4> QED
        BY <4>1, <4>2
    <3> QED
      BY <1>2, <2>3, <3>1, <3>3, <3>4
  <2>6. CASE AppendCheck(p)
    <3>1. InTarget(p) /\ log' = log /\ job' = job /\ job[p].op = "append"
      BY <2>6 DEF AppendCheck, InTarget
    <3>2. ASSUME pc'[p] \in {"commit", "index"}
          PROVE  reservation' = job[p].run
      BY <2>6, <3>2 DEF AppendCheck, Reconciled, Go, LogInv, Shape, DataTypeOK
    <3>3. pc'[p] \in {"commit", "index", "abort"}
      BY <2>6 DEF AppendCheck, Verdict, Go, LogInv, Shape, DataTypeOK
    <3> QED
      BY <1>2, <2>3, <3>1, <3>2, <3>3 DEF Derives
  <2>7. CASE Commit(p)
    <3> DEFINE r == job[p].run  k == job[p].key
    <3>1. InTarget(p) /\ job' = job /\ reservation' = reservation /\ pc[p] = "commit"
      BY <2>7 DEF Commit, InTarget
    <3>2. pc'[p] \in {"index", "abort"}
      BY <2>7 DEF Commit, Go, LogInv, Shape, DataTypeOK
    <3>3. ~Several(ActiveIn(log'))
      <4>1. CASE UNCHANGED <<log, view>>
        BY <1>2, <4>1
      <4>2. CASE /\ r \in Runs
                 /\ log[r] \in Events /\ view[p][r] = log[r]
                 /\ log' = [log EXCEPT ![r] = Append(@, k)]
        <5>1. ActiveIn(log') \subseteq ActiveIn(log) \cup {r}
          BY <4>2 DEF ActiveIn, LogInv, Shape, DataTypeOK, Ledgers
        <5>2. CASE job[p].op = "create"
          BY <1>2, <3>1, <5>1, <5>2 DEF Several
        <5>3. CASE job[p].op = "append"
          <6>1. r \in ActiveIn(log)
            BY <3>1, <4>2, <5>3 DEF LogInv, Ready, ActiveIn, Active
          <6> QED
            BY <1>2, <5>1, <6>1 DEF Several
        <5> QED
          BY <3>1, <5>2, <5>3 DEF LogInv, Shape, Jobs
      <4> QED
        BY <2>7, <4>1, <4>2, CommitGrows DEF LogInv
    <3> QED
      BY <1>2, <2>3, <3>1, <3>2, <3>3
  <2>8. CASE RepairTargetReservation(p)
    <3>1. InTarget(p) /\ log' = log
      BY <2>8 DEF RepairTargetReservation, InTarget
    <3>2. pc'[p] \in {"abort", "untarget", "finish"}
      BY <2>8 DEF RepairTargetReservation, Go, LogInv, Shape, DataTypeOK
    <3> QED
      BY <1>2, <2>3, <3>1, <3>2 DEF Derives
  <2> QED
    BY <1>4, <2>2, <2>4, <2>5, <2>6, <2>7, <2>8, QuietSteps DEF Work, LogInv
<1> QED
  BY <1>3, <1>4 DEF Next

TargetInv == LogInv /\ Holding /\ Alone

\* Whoever is about to write for the target holds its lock, and while no lock
\* was stolen the ledgers, the reservation and that writer agree.
THEOREM TargetInvariant == Spec => []TargetInv
<1>1. Init => TargetInv
  <2> SUFFICES ASSUME Init
               PROVE  TargetInv
    OBVIOUS
  <2>1. LogInv
    BY BaseInit, ReadingInit DEF LogInv
  <2>2. Holding
    BY DEF Init, Holding, InTarget, Derives
  <2>3. ActiveIn(log) = {}
    BY DEF Init, NoLedgers, ActiveIn, Active
  <2>4. Alone
    BY <2>3 DEF Init, Alone, Several, Derives
  <2> QED
    BY <2>1, <2>2, <2>4 DEF TargetInv
<1>2. TargetInv /\ [Next]_vars => TargetInv'
  BY LogInvStep, HoldingStep, AloneStep DEF TargetInv, LogInv
<1> QED
  BY <1>1, <1>2, PTL DEF Spec

\* A target agent has at most one run that may still write, whatever crashes
\* between an event and the repair of the reservation, while no lock is stolen.
THEOREM OneActive == Spec => []OneActiveRun
<1>1. TargetInv => OneActiveRun
  BY DEF TargetInv, Alone, OneActiveRun
<1> QED
  BY TargetInvariant, <1>1, PTL

\* A writer whose event is durable never fails on the reservation file.
THEOREM RepairsSucceed == Spec => []WriterRepairs
<1>1. TargetInv => WriterRepairs
  <2> SUFFICES ASSUME TargetInv, ~stolen, NEW p \in Procs, pc[p] = "repair", job[p].op \in Writes
               PROVE  reservation \in {NoRun, job[p].run}
    BY DEF WriterRepairs, RepairConflict
  <2>1. job[p].op \in {"create", "append"}
    BY DEF TargetInv, LogInv, Shape, Jobs, Writes
  <2> QED
    BY <2>1 DEF TargetInv, Alone, Derives, Writer
<1> QED
  BY TargetInvariant, <1>1, PTL

\* create refuses a run only when the ledgers name another active one: the
\* reservation file alone, left by a crash or a stale reader, blocks nobody.
THEOREM RefusalsAreBusy == Spec => RefusedOnlyWhenBusy
<1> DEFINE Busy ==
      \A p \in Procs : pc[p] = "check" /\ job[p].op = "create" /\ pc'[p] = "abort" =>
        \E r \in ActiveIn(log) : r # job[p].run
<1>1. ASSUME Shape, NEW p \in Procs, pc[p] = "check", job[p].op = "create", pc'[p] = "abort",
             Next
      PROVE  \E r \in ActiveIn(log) : r # job[p].run
  <2> USE DEF Shape, DataTypeOK, Go
  <2>1. PICK q \in Procs : CallSomething(q) \/ LockFiles(q) \/ Work(q) \/ Crash(q)
    BY <1>1 DEF Next
  <2>2. q = p
    BY <1>1, <2>1, OthersUndisturbed DEF Undisturbed
  <2>3. Ambiguous(p) \/ CreateCheck(p)
    <3>1. ~CallSomething(p)
      BY <1>1 DEF CallSomething, Create, Read, AppendEvent, List, RebuildStateIndex, Call
    <3>2. ~LockFiles(p)
      BY <1>1 DEF LockFiles, Locked, Contended, OwnerDead, RemoveAbandoned, Sweep, procVars,
         LockPc
    <3>3. ~Crash(p)
      BY <1>1 DEF Crash, Idle
    <3>4. ~(ReadDir(p) \/ ScanEnds(p) \/ ReplaceIndex(p) \/ \E r \in Runs : ScanRun(p, r))
      BY <1>1 DEF ReadDir, ScanEnds, ReplaceIndex, ScanRun
    <3>5. ~(ProjectSnapshot(p) \/ Unindex(p) \/ RepairTargetReservation(p) \/ Untarget(p))
      BY <1>1 DEF ProjectSnapshot, Unindex, RepairTargetReservation, Untarget
    <3>6. ~(AppendCheck(p) \/ Commit(p) \/ Return(p))
      BY <1>1 DEF AppendCheck, Commit, Return
    <3> QED
      BY <2>1, <2>2, <3>1, <3>2, <3>3, <3>4, <3>5, <3>6 DEF Work
  <2>4. CASE Ambiguous(p)
    <3>1. Several(ActiveIn(log))
      BY <2>4 DEF Ambiguous, Authorities, Several
    <3> QED
      BY <3>1 DEF Several
  <2>5. CASE CreateCheck(p)
    <3>1. PICK a \in Runs \cup {NoRun} :
            /\ Reconciled(a)
            /\ Go(p, IF log[job[p].run] = <<>> /\ a = NoRun THEN "commit"
                     ELSE IF log[job[p].run] # <<>> /\ a \in {job[p].run, NoRun}
                          THEN "index" ELSE "abort")
      BY <2>5 DEF CreateCheck
    <3>2. a # NoRun /\ (log[job[p].run] # <<>> => a # job[p].run)
      BY <1>1, <3>1
    <3>3. a \in ActiveIn(log)
      BY <3>1, <3>2 DEF Reconciled, Authorities
    <3> QED
      BY <3>2, <3>3 DEF ActiveIn, Active
  <2> QED
    BY <2>3, <2>4, <2>5
<1>2. Shape /\ [Next]_vars => [Busy]_vars
  BY <1>1
<1> QED
  BY BaseInvariant, <1>2, PTL DEF Spec, RefusedOnlyWhenBusy

-----------------------------------------------------------------------------
(* What holding the index lock keeps others from doing. *)

InIndex(p) ==
  \/ pc[p] \in {"project", "unindex", "replace"}
  \/ pc[p] \in {"readdir", "scan"} /\ job[p].op = "rebuild"

HoldingIndex == \A p \in Procs : InIndex(p) => Index \in held[p]

\* A rebuild has seen, or will still visit, every event the index shows.
Covered(p) ==
  pc[p] \in {"scan", "replace"} /\ job[p].op = "rebuild" =>
    /\ \A r \in Runs : r \in pending[p] \/ Len(index[r]) <= Len(view[p][r])
    /\ pc[p] = "replace" => pending[p] = {}

\* A writer that has projected finds its events in the index.
Shown(p) ==
  pc[p] \in {"unindex", "repair", "finish"} /\ job[p].op \in Writes =>
    Len(view[p][job[p].run]) <= Len(index[job[p].run])

Indexed ==
  ~stolen =>
    /\ \A p \in Procs : Covered(p) /\ Shown(p)
    /\ \A r \in Runs : Len(acked[r]) <= Len(index[r])

IndexInv == LogInv /\ HoldingIndex /\ Indexed

LEMMA OneInIndex ==
  ASSUME LockInv, HoldingIndex, ~stolen, NEW p \in Procs, NEW q \in Procs,
         InIndex(p), InIndex(q)
  PROVE  p = q
BY FoundryMutationLockAssumption, FoundryLedgerAssumption
DEF LockInv, LockTypeOK, HeldIsNamed, HoldingIndex

LEMMA HoldingIndexStep ==
  ASSUME Shape, LockInv, HoldingIndex, [Next]_vars
  PROVE  HoldingIndex'
<1> USE DEF Shape, DataTypeOK, LockInv, LockTypeOK, HoldingIndex, InIndex
<1>1. CASE UNCHANGED vars
  BY <1>1 DEF vars, lockVars, procVars
<1>2. ASSUME NEW p \in Procs, CallSomething(p) \/ LockFiles(p) \/ Work(p) \/ Crash(p),
             \A q \in Procs \ {p} : held'[q] = held[q],
             InIndex(p)' => Index \in held'[p]
      PROVE  HoldingIndex'
  BY <1>2, OthersUndisturbed DEF Undisturbed
<1>3. ASSUME NEW p \in Procs, CallSomething(p)
      PROVE  HoldingIndex'
  <2>1. /\ held' = held
        /\ \/ pc'[p] \in {"target", "index"}
           \/ pc'[p] = "readdir" /\ job'[p].op = "list"
    BY <1>3 DEF CallSomething, Create, Read, AppendEvent, List, RebuildStateIndex, Call, Go,
       lockVars
  <2> QED
    BY <1>2, <1>3, <2>1
<1>4. ASSUME NEW p \in Procs, Locked(p)
      PROVE  HoldingIndex'
  <2>1. \A q \in Procs \ {p} : held'[q] = held[q]
    BY <1>4 DEF Locked, Acquire
  <2>2. held'[p] = held[p] \cup {Wanted(p)} /\ job' = job
    BY <1>4 DEF Locked, Acquire
  <2>3. CASE pc[p] = "index"
    BY <1>2, <1>4, <2>1, <2>2, <2>3 DEF Wanted, LockFiles
  <2>4. CASE pc[p] \in {"target", "run"}
    <3>1. pc'[p] \in {"run", "repair", "check"}
      BY <1>4, <2>4 DEF Locked, Go
    <3> QED
      BY <1>2, <1>4, <2>1, <2>2, <3>1 DEF LockFiles
  <2> QED
    BY <1>4, <2>3, <2>4 DEF Locked, LockPc
<1>5. ASSUME NEW p \in Procs, Contended(p)
      PROVE  HoldingIndex'
  <2>1. held' = held /\ pc'[p] = "abort"
    BY <1>5 DEF Contended, Refused, Go
  <2> QED
    BY <1>2, <1>5, <2>1 DEF LockFiles
<1>6. ASSUME NEW p \in Procs, OwnerDead(p) \/ RemoveAbandoned(p)
                              \/ \E f \in Files : Sweep(p, f)
      PROVE  HoldingIndex'
  <2>1. UNCHANGED <<held, pc, job>>
    BY <1>6 DEF OwnerDead, RemoveAbandoned, Sweep, FindDead, Remove, procVars
  <2> QED
    BY <2>1
<1>7. ASSUME NEW p \in Procs, Crash(p) \/ Return(p)
      PROVE  HoldingIndex'
  <2>1. pc'[p] = "idle"
    BY <1>7 DEF Crash, Return, Idle, Go
  <2>2. \A q \in Procs \ {p} : held'[q] = held[q]
    BY <1>7 DEF Crash, Return, CrashLocks, Release
  <2> QED
    BY <1>2, <1>7, <2>1, <2>2 DEF Work
<1>8. ASSUME NEW p \in Procs,
             \/ Ambiguous(p) \/ CreateCheck(p) \/ AppendCheck(p) \/ Commit(p)
             \/ RepairTargetReservation(p)
      PROVE  HoldingIndex'
  <2>1. held' = held
    BY <1>8 DEF Ambiguous, CreateCheck, AppendCheck, Commit, RepairTargetReservation, lockVars
  <2>2. pc'[p] \in {"commit", "index", "abort", "untarget", "finish"}
    BY <1>8 DEF Ambiguous, CreateCheck, AppendCheck, Verdict, Commit, RepairTargetReservation, Go
  <2> QED
    BY <1>2, <1>8, <2>1, <2>2 DEF Work
<1>9. ASSUME NEW p \in Procs, ProjectSnapshot(p) \/ ReplaceIndex(p)
      PROVE  HoldingIndex'
  <2>1. held' = held /\ pc[p] \in {"project", "replace"}
    BY <1>9 DEF ProjectSnapshot, ReplaceIndex, lockVars
  <2> QED
    BY <1>2, <1>9, <2>1 DEF Work
<1>10. ASSUME NEW p \in Procs, Unindex(p) \/ Untarget(p)
       PROVE  HoldingIndex'
  <2>1. pc'[p] \in {"abort", "repair", "finish", "index"}
    BY <1>10 DEF Unindex, Untarget, Go
  <2>2. \A q \in Procs \ {p} : held'[q] = held[q]
    BY <1>10 DEF Unindex, Untarget, Release
  <2> QED
    BY <1>2, <1>10, <2>1, <2>2 DEF Work
<1>11. ASSUME NEW p \in Procs, ReadDir(p) \/ \E r \in Runs : ScanRun(p, r)
       PROVE  HoldingIndex'
  <2>1. /\ held' = held /\ job' = job
        /\ pc[p] \in {"readdir", "scan"} /\ pc'[p] = "scan"
    BY <1>11 DEF ReadDir, ScanRun, lockVars, Go
  <2> QED
    BY <1>2, <1>11, <2>1 DEF Work
<1>12. ASSUME NEW p \in Procs, ScanEnds(p)
       PROVE  HoldingIndex'
  <2>1. held' = held /\ pc[p] = "scan"
    BY <1>12 DEF ScanEnds, lockVars
  <2>2. pc'[p] \in {"abort", "finish", "index"} \/ (pc'[p] = "replace" /\ job[p].op = "rebuild")
    BY <1>12 DEF ScanEnds, Go
  <2> QED
    BY <1>2, <1>12, <2>1, <2>2 DEF Work
<1> QED
  BY <1>1, <1>3, <1>4, <1>5, <1>6, <1>7, <1>8, <1>9, <1>10, <1>11, <1>12
  DEF Next, LockFiles, Work

\* A step that leaves the index and what callers know of it alone.
Still(p) ==
  /\ UNCHANGED <<index, acked>>
  /\ pc'[p] \in {"scan", "replace"} /\ job'[p].op = "rebuild" =>
       UNCHANGED <<pc, job, view, pending>>
  /\ pc'[p] \in {"unindex", "repair", "finish"} /\ job'[p].op \in Writes =>
       UNCHANGED <<job, view>> /\ pc[p] \in {"unindex", "repair", "finish"}

LEMMA StillSteps ==
  ASSUME Shape, NEW p \in Procs,
         \/ CallSomething(p) \/ LockFiles(p) \/ Crash(p)
         \/ Ambiguous(p) \/ CreateCheck(p) \/ AppendCheck(p) \/ Commit(p)
         \/ Unindex(p) \/ RepairTargetReservation(p) \/ Untarget(p)
  PROVE  Still(p)
<1> USE DEF Shape, DataTypeOK, Still
<1>1. CASE CallSomething(p)
  <2>1. /\ UNCHANGED <<index, acked>>
        /\ \/ pc'[p] \in {"target", "index"}
           \/ pc'[p] = "readdir"
    BY <1>1 DEF CallSomething, Create, Read, AppendEvent, List, RebuildStateIndex, Call, Go,
       ledgerVars
  <2> QED
    BY <2>1
<1>2. CASE Locked(p)
  <2>1. UNCHANGED <<index, acked, job, view>>
    BY <1>2 DEF Locked, ledgerVars
  <2>2. \/ pc'[p] \in {"run", "check", "readdir", "project"}
        \/ pc'[p] = "repair" /\ job[p].op = "read"
    BY <1>2 DEF Locked, Go, LockPc
  <2> QED
    BY <2>1, <2>2 DEF Writes
<1>3. CASE Contended(p)
  BY <1>3 DEF Contended, Go, ledgerVars
<1>4. CASE OwnerDead(p) \/ RemoveAbandoned(p) \/ \E f \in Files : Sweep(p, f)
  BY <1>4 DEF OwnerDead, RemoveAbandoned, Sweep, procVars, ledgerVars
<1>5. CASE Crash(p)
  BY <1>5 DEF Crash, Idle, Go, ledgerVars
<1>6. CASE Ambiguous(p) \/ CreateCheck(p) \/ AppendCheck(p) \/ Commit(p)
  <2>1. UNCHANGED <<index, acked>>
    BY <1>6 DEF Ambiguous, CreateCheck, AppendCheck, Commit
  <2>2. pc'[p] \in {"commit", "index", "abort"}
    <3>1. CASE Ambiguous(p) \/ Commit(p)
      BY <3>1 DEF Ambiguous, Commit, Go
    <3>2. CASE CreateCheck(p)
      BY <3>2 DEF CreateCheck, Go
    <3>3. CASE AppendCheck(p)
      BY <3>3 DEF AppendCheck, Verdict, Go
    <3> QED
      BY <1>6, <3>1, <3>2, <3>3
  <2> QED
    BY <2>1, <2>2
<1>7. CASE Unindex(p)
  <2>1. UNCHANGED <<index, acked, job, view>> /\ pc[p] = "unindex"
    BY <1>7 DEF Unindex, ledgerVars
  <2>2. pc'[p] \in {"abort", "repair", "finish"}
    BY <1>7 DEF Unindex, Go
  <2> QED
    BY <2>1, <2>2
<1>8. CASE RepairTargetReservation(p)
  <2>1. UNCHANGED <<index, acked, job, view>> /\ pc[p] = "repair"
    BY <1>8 DEF RepairTargetReservation
  <2>2. pc'[p] \in {"abort", "untarget", "finish"}
    BY <1>8 DEF RepairTargetReservation, Go
  <2> QED
    BY <2>1, <2>2
<1>9. CASE Untarget(p)
  <2>1. UNCHANGED <<index, acked>> /\ pc'[p] \in {"abort", "index"}
    BY <1>9 DEF Untarget, Go, ledgerVars
  <2> QED
    BY <2>1
<1> QED
  BY <1>1, <1>2, <1>3, <1>4, <1>5, <1>6, <1>7, <1>8, <1>9 DEF LockFiles

LEMMA IndexedStep ==
  ASSUME LogInv, LogInv', HoldingIndex, Indexed, [Next]_vars
  PROVE  Indexed'
<1> SUFFICES ASSUME ~stolen'
             PROVE  /\ \A q \in Procs : Covered(q)' /\ Shown(q)'
                    /\ \A r \in Runs : Len(acked'[r]) <= Len(index'[r])
  BY DEF Indexed
<1>1. ~stolen
  BY StepsAreLockSteps, StolenStays DEF LogInv
<1>2. /\ \A q \in Procs : Covered(q) /\ Shown(q)
      /\ \A r \in Runs : Len(acked[r]) <= Len(index[r])
  BY <1>1 DEF Indexed
<1>3. /\ Shape /\ LockInv
      /\ \A r \in Runs : /\ log[r] \in Events /\ index[r] \in Events /\ index'[r] \in Events
                         /\ acked[r] \in Events
      /\ \A q \in Procs, r \in Runs : view[q][r] \in Events /\ view'[q][r] \in Events
      /\ \A r \in Runs : Len(index[r]) <= Len(log[r])
  BY DEF LogInv, Shape, DataTypeOK, Ledgers, Reading, RunLog!Prefix
<1>4. \A q \in Procs : job[q].op \in Writes => job[q].run \in Runs
  BY DEF LogInv, Shape, Jobs, Writes
<1>5. CASE UNCHANGED vars
  BY <1>2, <1>5 DEF vars, ledgerVars, procVars, Covered, Shown
<1>6. ASSUME NEW p \in Procs, CallSomething(p) \/ LockFiles(p) \/ Work(p) \/ Crash(p)
      PROVE  /\ \A q \in Procs : Covered(q)' /\ Shown(q)'
             /\ \A r \in Runs : Len(acked'[r]) <= Len(index'[r])
  <2>1. Undisturbed(p)
    BY <1>3, <1>6, OthersUndisturbed
  <2>2. ASSUME UNCHANGED index, NEW q \in Procs \ {p}
        PROVE  Covered(q)' /\ Shown(q)'
    BY <1>2, <2>1, <2>2 DEF Undisturbed, Covered, Shown
  <2>3. CASE Still(p)
    <3>1. Covered(p)' /\ Shown(p)'
      BY <1>2, <2>3 DEF Still, Covered, Shown
    <3> QED
      BY <1>2, <2>2, <2>3, <3>1 DEF Still
  <2>4. ASSUME InIndex(p), pc'[p] = "unindex", acked' = acked,
               \A r \in Runs : Len(index[r]) <= Len(index'[r]),
               job' = job, Shown(p)'
        PROVE  /\ \A q \in Procs : Covered(q)' /\ Shown(q)'
               /\ \A r \in Runs : Len(acked'[r]) <= Len(index'[r])
    <3>1. ASSUME NEW q \in Procs \ {p}
          PROVE  Covered(q)'
      <4>1. ~InIndex(q)
        BY <1>1, <1>3, <2>4, OneInIndex
      <4> QED
        BY <2>1, <4>1 DEF Undisturbed, InIndex, Covered
    <3>2. ASSUME NEW q \in Procs \ {p}
          PROVE  Shown(q)'
      <4> SUFFICES ASSUME pc[q] \in {"unindex", "repair", "finish"}, job[q].op \in Writes
                   PROVE  Len(view[q][job[q].run]) <= Len(index'[job[q].run])
        BY <2>1 DEF Undisturbed, Shown
      <4>1. Len(view[q][job[q].run]) <= Len(index[job[q].run])
        BY <1>2 DEF Shown
      <4> QED
        BY <1>3, <1>4, <2>4, <4>1 DEF Events
    <3>3. Covered(p)'
      BY <2>4 DEF Covered
    <3>4. ASSUME NEW r \in Runs
          PROVE  Len(acked'[r]) <= Len(index'[r])
      BY <1>2, <1>3, <2>4 DEF Events
    <3> QED
      BY <2>4, <3>1, <3>2, <3>3, <3>4
  <2>5. CASE ProjectSnapshot(p)
    <3> DEFINE r == job[p].run
    <3>1. r \in Runs
      BY <1>3, <2>5 DEF ProjectSnapshot, Shape, Jobs
    <3>2. /\ pc[p] = "project" /\ pc'[p] = "unindex" /\ UNCHANGED <<acked, job, view>>
          /\ index' = [index EXCEPT ![r] = Projected(view[p][r], r)]
      BY <1>3, <2>5 DEF ProjectSnapshot, Go, Shape, DataTypeOK
    <3>3. index'[r] = Projected(view[p][r], r) /\ \A s \in Runs \ {r} : index'[s] = index[s]
      BY <1>3, <3>1, <3>2 DEF Shape, DataTypeOK, Ledgers
    <3>4. Len(view[p][r]) <= Len(index'[r]) /\ Len(index[r]) <= Len(index'[r])
      BY <1>3, <3>1, <3>3 DEF Projected, Events
    <3>5. \A s \in Runs : Len(index[s]) <= Len(index'[s])
      BY <1>3, <3>3, <3>4 DEF Events
    <3>6. Shown(p)'
      BY <3>2, <3>4 DEF Shown
    <3> QED
      BY <2>4, <3>2, <3>5, <3>6 DEF InIndex
  <2>6. CASE ReplaceIndex(p)
    <3>1. /\ pc[p] = "replace" /\ pc'[p] = "unindex" /\ UNCHANGED <<acked, job>>
          /\ index' = view[p]
      BY <1>3, <2>6 DEF ReplaceIndex, Go, Shape, DataTypeOK
    <3>2. job[p].op = "rebuild"
      BY <1>3, <3>1 DEF Shape, Jobs
    <3>3. \A s \in Runs : Len(index[s]) <= Len(index'[s])
      BY <1>2, <3>1, <3>2 DEF Covered
    <3>4. Shown(p)'
      BY <3>1, <3>2 DEF Shown, Writes
    <3> QED
      BY <2>4, <3>1, <3>3, <3>4 DEF InIndex
  <2>7. CASE ReadDir(p)
    <3>1. /\ UNCHANGED <<index, acked>> /\ pc'[p] = "scan"
          /\ pending'[p] = {r \in Runs : log[r] # <<>>}
      BY <1>3, <2>7 DEF ReadDir, Go, ledgerVars, Shape, DataTypeOK
    <3>2. ASSUME NEW r \in Runs, r \notin pending'[p]
          PROVE  Len(index'[r]) <= Len(view'[p][r])
      <4>1. Len(index'[r]) <= 0
        BY <1>3, <3>1, <3>2
      <4> QED
        BY <1>3, <4>1 DEF Events
    <3>3. Covered(p)' /\ Shown(p)'
      BY <3>1, <3>2 DEF Covered, Shown
    <3> QED
      BY <1>2, <2>2, <3>1, <3>3
  <2>8. ASSUME NEW r \in Runs, ScanRun(p, r)
        PROVE  Covered(p)' /\ Shown(p)' /\ UNCHANGED <<index, acked>>
    <3>1. /\ UNCHANGED <<index, acked, pc, job>> /\ pc[p] = "scan"
          /\ pending'[p] = pending[p] \ {r}
          /\ view'[p][r] = log[r] /\ \A s \in Runs \ {r} : view'[p][s] = view[p][s]
      BY <1>3, <2>8 DEF ScanRun, See, ledgerVars, Shape, DataTypeOK, Ledgers
    <3>2. ASSUME NEW s \in Runs, s \notin pending'[p], job[p].op = "rebuild"
          PROVE  Len(index'[s]) <= Len(view'[p][s])
      BY <1>2, <1>3, <3>1, <3>2 DEF Covered
    <3> QED
      BY <3>1, <3>2 DEF Covered, Shown
  <2>9. CASE ScanEnds(p)
    <3>1. /\ UNCHANGED <<index, acked, view, pending>> /\ pc[p] = "scan" /\ pending[p] = {}
          /\ job'[p].op = "rebuild"
      BY <1>3, <2>9 DEF ScanEnds, ledgerVars, Shape, DataTypeOK, Job
    <3>2. pc'[p] \in {"abort", "finish", "index"} \/ (pc'[p] = "replace" /\ job[p].op = "rebuild")
      BY <1>3, <2>9 DEF ScanEnds, Go, Shape, DataTypeOK
    <3>3. Covered(p)' /\ Shown(p)'
      BY <1>2, <3>1, <3>2 DEF Covered, Shown, Writes
    <3> QED
      BY <1>2, <2>2, <3>1, <3>3
  <2>10. CASE Return(p)
    <3>1. index' = index /\ pc'[p] = "idle"
      BY <1>3, <2>10 DEF Return, Idle, Go, ledgerVars, Shape, DataTypeOK
    <3>2. ASSUME NEW r \in Runs
          PROVE  Len(acked'[r]) <= Len(index[r])
      <4>1. CASE acked' = acked
        BY <1>2, <4>1
      <4>2. CASE /\ pc[p] = "finish" /\ job[p].op \in Writes
                 /\ acked' = [acked EXCEPT ![job[p].run] = view[p][job[p].run]]
        <5>1. Len(view[p][job[p].run]) <= Len(index[job[p].run])
          BY <1>2, <4>2 DEF Shown
        <5> QED
          BY <1>2, <1>3, <4>2, <5>1 DEF Shape, DataTypeOK, Ledgers
      <4> QED
        BY <2>10, <4>1, <4>2 DEF Return
    <3>3. Covered(p)' /\ Shown(p)'
      BY <3>1 DEF Covered, Shown
    <3> QED
      BY <2>2, <3>1, <3>2, <3>3
  <2> QED
    BY <1>2, <1>3, <1>6, <2>2, <2>3, <2>5, <2>6, <2>7, <2>8, <2>9, <2>10, StillSteps DEF Work
<1> QED
  BY <1>5, <1>6 DEF Next

\* While no lock was stolen, whoever holds the index lock is alone at the
\* index: rows only grow, and a writer that has projected finds its events.
THEOREM IndexInvariant == Spec => []IndexInv
<1>1. Init => IndexInv
  <2> SUFFICES ASSUME Init
               PROVE  IndexInv
    OBVIOUS
  <2>1. LogInv
    BY BaseInit, ReadingInit DEF LogInv
  <2>2. HoldingIndex
    BY DEF Init, HoldingIndex, InIndex
  <2>3. Indexed
    BY DEF Init, Indexed, Covered, Shown, NoLedgers
  <2> QED
    BY <2>1, <2>2, <2>3 DEF IndexInv
<1>2. IndexInv /\ [Next]_vars => IndexInv'
  BY LogInvStep, HoldingIndexStep, IndexedStep DEF IndexInv, LogInv
<1> QED
  BY <1>1, <1>2, PTL DEF Spec

\* What a create or append call acknowledged is in the state index and stays
\* there, whatever stale readers and rebuilds do, while no lock is stolen.
THEOREM AckedStaysIndexed == Spec => []AckedIsIndexed
<1>1. IndexInv => AckedIsIndexed
  BY DEF IndexInv, Indexed, AckedIsIndexed
<1> QED
  BY IndexInvariant, <1>1, PTL

-----------------------------------------------------------------------------
(* A scan while others write. *)

\* Outside a scan a process has read its own run only.
OneView(p) == \A r \in Runs : view[p][r] # <<>> => r = job[p].run /\ pc[p] # "idle"

\* Once a scan has seen an active run, what it has not visited yet has ended:
\* those runs existed when it listed the directory, so they were not active at
\* the moment it saw the other one, and they never will be again.
ScanSees(p) ==
  /\ ~Several(ActiveIn(view[p]))
  /\ pc[p] = "scan" =>
       \A r \in ActiveIn(view[p]) : \A s \in pending[p] \ {r} : Terminal(log[s])

Scanning ==
  /\ \A p \in Procs :
       /\ job[p].op \notin {"list", "rebuild"} => OneView(p)
       /\ pc[p] = "scan" => \A s \in pending[p] : log[s] # <<>>
  /\ ~stolen => \A p \in Procs : ScanSees(p)

LEMMA TerminalStays ==
  ASSUME LogInv, [Next]_vars, NEW r \in Runs, Terminal(log[r])
  PROVE  log'[r] = log[r]
<1>1. ASSUME NEW p \in Procs, Commit(p)
      PROVE  log'[r] = log[r]
  <2> SUFFICES ASSUME job[p].run = r, log' # log
               PROVE  FALSE
    BY <1>1, CommitGrows DEF LogInv, Shape, DataTypeOK, Ledgers
  <2>1. view[p][r] = log[r] /\ pc[p] = "commit" /\ Len(log[r]) = job[p].at
    BY <1>1, CommitGrows DEF LogInv, Commit
  <2>2. job[p].op = "append" => log[r][Len(log[r])] \notin Ends
    BY <2>1 DEF LogInv, Ready
  <2>3. job[p].op = "create" => log[r] = <<>>
    <3>1. job[p].op = "create" => Len(log[r]) = 0
      BY <2>1 DEF LogInv, Shape, Jobs
    <3>2. log[r] \in Events
      BY DEF LogInv, Shape, DataTypeOK, Ledgers
    <3> QED
      BY <3>1, <3>2 DEF Events
  <2> QED
    BY <2>1, <2>2, <2>3 DEF LogInv, Shape, Jobs, Terminal
<1>2. ASSUME NEW p \in Procs, CallSomething(p) \/ LockFiles(p) \/ Crash(p)
      PROVE  log' = log
  BY <1>2 DEF CallSomething, Create, Read, AppendEvent, List, RebuildStateIndex, Call,
     LockFiles, Locked, Contended, OwnerDead, RemoveAbandoned, Sweep, Crash, ledgerVars
<1>3. ASSUME NEW p \in Procs, Work(p), ~Commit(p)
      PROVE  log' = log
  BY <1>3 DEF Work, Ambiguous, CreateCheck, AppendCheck, ProjectSnapshot, Unindex,
     RepairTargetReservation, Untarget, ReadDir, ScanEnds, ReplaceIndex, ScanRun, Return,
     ledgerVars
<1>4. CASE UNCHANGED vars
  BY <1>4 DEF vars, ledgerVars
<1> QED
  BY <1>1, <1>2, <1>3, <1>4 DEF Next

\* A process that has read one run only has seen no two active ones.
LEMMA OneViewIsFine ==
  ASSUME NEW p \in Procs, OneView(p), pc[p] # "scan"
  PROVE  ScanSees(p)
BY DEF OneView, ScanSees, Several, ActiveIn, Active

\* What a step outside a scan does to its own process.
Blind(p) ==
  \/ UNCHANGED <<pc, job, view, pending, log>>
  \/ /\ pc'[p] # "scan"
     /\ \/ job'[p].op \notin {"list", "rebuild"} /\ OneView(p)'
        \/ view'[p] = view[p] /\ job'[p].op \in {"list", "rebuild"}

LEMMA BlindSteps ==
  ASSUME Shape, Shape', Scanning, NEW p \in Procs,
         CallSomething(p) \/ LockFiles(p) \/ Work(p) \/ Crash(p),
         ~ReadDir(p), ~ \E r \in Runs : ScanRun(p, r)
  PROVE  Blind(p)
<1> USE DEF Shape, DataTypeOK, Blind
<1>0. job[p].op \notin {"list", "rebuild"} => OneView(p)
  BY DEF Scanning
<1>1. ASSUME NEW r \in Runs, Read(p, r)
      PROVE  Blind(p)
  <2>1. pc'[p] = "target" /\ job'[p].run = r /\ job'[p].op = "read"
    BY <1>1 DEF Read, Call, Go
  <2>2. \A s \in Runs : view[p][s] = <<>>
    BY <1>0, <1>1 DEF Read, Call, Jobs, OneView
  <2>3. OneView(p)'
    BY <1>1, <2>1, <2>2 DEF Read, See, OneView, Ledgers
  <2> QED
    BY <2>1, <2>3
<1>2. CASE CallSomething(p) /\ ~ \E r \in Runs : Read(p, r)
  <2>1. pc[p] = "idle" /\ view' = view /\ pc'[p] \notin {"scan", "idle"}
    BY <1>2 DEF CallSomething, Create, AppendEvent, List, RebuildStateIndex, Call, Go
  <2>2. \A s \in Runs : view[p][s] = <<>>
    BY <1>0, <2>1 DEF Jobs, OneView
  <2>3. OneView(p)'
    BY <2>1, <2>2 DEF OneView
  <2> QED
    BY <2>1, <2>3
<1>3. CASE LockFiles(p)
  <2>1. CASE Locked(p) \/ Contended(p)
    <3>1. UNCHANGED <<job, view>> /\ pc'[p] \notin {"scan", "idle"}
      BY <2>1 DEF Locked, Contended, Go, LockPc
    <3> QED
      BY <1>0, <3>1 DEF OneView
  <2>2. CASE OwnerDead(p) \/ RemoveAbandoned(p) \/ \E f \in Files : Sweep(p, f)
    BY <2>2 DEF OwnerDead, RemoveAbandoned, Sweep, procVars, ledgerVars
  <2> QED
    BY <1>3, <2>1, <2>2 DEF LockFiles
<1>4. CASE Crash(p) \/ Return(p)
  BY <1>4 DEF Crash, Return, Idle, Go, NoJob, NoLedgers, OneView
<1>5. CASE CreateCheck(p) \/ AppendCheck(p) \/ Commit(p)
  <2>1. /\ job[p].run \in Runs /\ job[p].op \in {"create", "append"}
        /\ job'[p].run = job[p].run /\ job'[p].op \in {"create", "append", "reproject"}
    BY <1>5 DEF CreateCheck, AppendCheck, Commit, Jobs, Job
  <2>2. \A s \in Runs \ {job[p].run} : view'[p][s] = view[p][s]
    <3>1. CASE CreateCheck(p)
      BY <2>1, <3>1 DEF CreateCheck, See, Ledgers
    <3>2. CASE AppendCheck(p)
      BY <2>1, <3>2 DEF AppendCheck, See, Ledgers
    <3>3. CASE Commit(p)
      BY <2>1, <3>3 DEF Commit, See, Ledgers
    <3> QED
      BY <1>5, <3>1, <3>2, <3>3
  <2>3. pc'[p] \notin {"scan", "idle"}
    BY <1>5 DEF CreateCheck, AppendCheck, Commit, Verdict, Go
  <2> QED
    BY <1>0, <2>1, <2>2, <2>3 DEF OneView
<1>6. CASE Ambiguous(p) \/ ProjectSnapshot(p) \/ Unindex(p) \/ RepairTargetReservation(p)
             \/ Untarget(p) \/ ReplaceIndex(p)
  <2>1. UNCHANGED <<job, view>>
    BY <1>6 DEF Ambiguous, ProjectSnapshot, Unindex, RepairTargetReservation, Untarget,
       ReplaceIndex
  <2>2. pc'[p] \notin {"scan", "idle"}
    BY <1>6 DEF Ambiguous, ProjectSnapshot, Unindex, RepairTargetReservation, Untarget,
       ReplaceIndex, Go
  <2> QED
    BY <1>0, <2>1, <2>2 DEF OneView
<1>7. CASE ScanEnds(p)
  <2>1. view' = view /\ job'[p].op = "rebuild" /\ pc'[p] \notin {"scan", "idle"}
    BY <1>7 DEF ScanEnds, Go, Job
  <2> QED
    BY <2>1
<1> QED
  BY <1>1, <1>2, <1>3, <1>4, <1>5, <1>6, <1>7 DEF Work

LEMMA ScanningStep ==
  ASSUME TargetInv, TargetInv', Scanning, [Next]_vars
  PROVE  Scanning'
<1> USE DEF TargetInv
<1>1. ASSUME ~stolen'
      PROVE  ~stolen
  BY <1>1, StepsAreLockSteps, StolenStays DEF LogInv
<1>2. ASSUME NEW s \in Runs
      PROVE  /\ log[s] # <<>> => log'[s] # <<>>
             /\ Terminal(log[s]) => Terminal(log'[s])
  <2>1. log[s] # <<>> => log'[s] # <<>>
    <3>1. log'[s] = log[s] \/ \E k \in Keys \cup {Accept} : log'[s] = Append(log[s], k)
      BY EveryStepMoves DEF LogInv, Moves
    <3>2. log[s] \in Events
      BY DEF LogInv, Shape, DataTypeOK, Ledgers
    <3> QED
      BY <3>1, <3>2 DEF Events
  <2> QED
    BY <2>1, TerminalStays DEF Terminal
<1>3. CASE UNCHANGED vars
  BY <1>3 DEF vars, lockVars, ledgerVars, procVars, Scanning, OneView, ScanSees
<1>4. ASSUME NEW p \in Procs, CallSomething(p) \/ LockFiles(p) \/ Work(p) \/ Crash(p)
      PROVE  Scanning'
  <2>1. Undisturbed(p) /\ Shape /\ Shape'
    BY <1>4, OthersUndisturbed DEF LogInv
  <2>2. \A q \in Procs : pending[q] \subseteq Runs
    BY <2>1 DEF Shape, DataTypeOK
  <2>3. ASSUME NEW q \in Procs, pc'[q] = pc[q], job'[q] = job[q], view'[q] = view[q],
               pending'[q] = pending[q]
        PROVE  /\ job'[q].op \notin {"list", "rebuild"} => OneView(q)'
               /\ pc'[q] = "scan" => \A s \in pending'[q] : log'[s] # <<>>
               /\ ~stolen' => ScanSees(q)'
    BY <1>1, <1>2, <2>2, <2>3 DEF Scanning, OneView, ScanSees
  <2>4. SUFFICES /\ job'[p].op \notin {"list", "rebuild"} => OneView(p)'
                 /\ pc'[p] = "scan" => \A s \in pending'[p] : log'[s] # <<>>
                 /\ ~stolen' => ScanSees(p)'
    BY <2>1, <2>3 DEF Scanning, Undisturbed
  <2>5. CASE Blind(p)
    <3>1. CASE UNCHANGED <<pc, job, view, pending, log>>
      BY <2>3, <3>1
    <3>2. CASE pc'[p] # "scan" /\ job'[p].op \notin {"list", "rebuild"} /\ OneView(p)'
      <4>1. ScanSees(p)'
        BY <3>2 DEF OneView, ScanSees, Several, ActiveIn, Active
      <4> QED
        BY <3>2, <4>1
    <3>3. CASE pc'[p] # "scan" /\ view'[p] = view[p] /\ job'[p].op \in {"list", "rebuild"}
      BY <1>1, <3>3 DEF Scanning, ScanSees
    <3> QED
      BY <2>5, <3>1, <3>2, <3>3 DEF Blind
  <2>6. CASE ReadDir(p)
    <3>1. /\ log' = log /\ job' = job /\ job[p].op \in {"list", "rebuild"}
          /\ pending'[p] = {r \in Runs : log[r] # <<>>} /\ view'[p] = NoLedgers
      BY <2>1, <2>6 DEF ReadDir, ledgerVars, Shape, DataTypeOK, Jobs
    <3>2. ActiveIn(view'[p]) = {}
      BY <3>1 DEF NoLedgers, ActiveIn, Active
    <3> QED
      BY <3>1, <3>2 DEF ScanSees, Several
  <2>7. ASSUME NEW r \in Runs, ScanRun(p, r)
        PROVE  /\ job'[p].op \notin {"list", "rebuild"} => OneView(p)'
               /\ pc'[p] = "scan" => \A s \in pending'[p] : log'[s] # <<>>
               /\ ~stolen' => ScanSees(p)'
    <3>1. /\ UNCHANGED <<log, job, pc>> /\ pc[p] = "scan" /\ job[p].op \in {"list", "rebuild"}
          /\ r \in pending[p] /\ pending'[p] = pending[p] \ {r}
          /\ view'[p][r] = log[r] /\ \A s \in Runs \ {r} : view'[p][s] = view[p][s]
      BY <2>1, <2>7 DEF ScanRun, See, ledgerVars, Shape, DataTypeOK, Jobs, Ledgers
    <3>2. \A s \in pending[p] : s \in Runs /\ log[s] # <<>>
      BY <2>2, <3>1 DEF Scanning
    <3>3. ASSUME ~stolen'
          PROVE  ScanSees(p)'
      <4>1. ~stolen /\ ScanSees(p) /\ ~Several(ActiveIn(log))
        BY <1>1, <3>3 DEF Scanning, Alone
      <4>2. CASE Active(log[r])
        <5>1. ActiveIn(view[p]) \subseteq {r}
          BY <3>1, <4>1, <4>2 DEF ScanSees, Active, Terminal
        <5>2. ActiveIn(view'[p]) \subseteq {r}
          BY <3>1, <5>1 DEF ActiveIn
        <5>3. \A s \in pending[p] \ {r} : Terminal(log[s])
          BY <3>2, <4>1, <4>2 DEF Several, ActiveIn, Active, Terminal
        <5> QED
          BY <3>1, <5>2, <5>3 DEF ScanSees, Several
      <4>3. CASE ~Active(log[r])
        <5>1. ActiveIn(view'[p]) \subseteq ActiveIn(view[p])
          BY <3>1, <4>3 DEF ActiveIn
        <5> QED
          BY <3>1, <4>1, <5>1 DEF ScanSees, Several
      <4> QED
        BY <4>2, <4>3
    <3> QED
      BY <3>1, <3>2, <3>3
  <2> QED
    BY <1>4, <2>1, <2>5, <2>6, <2>7, BlindSteps
<1> QED
  BY <1>3, <1>4 DEF Next

\* readAllRunLedgers raises no false alarm: a scan that reads the runs one by
\* one, while others write, never sees two active runs unless a lock was stolen.
THEOREM NoFalseAlarm == Spec => []NoFalseConflict
<1>1. Init => Scanning
  <2> SUFFICES ASSUME Init
               PROVE  Scanning
    OBVIOUS
  <2>1. \A p \in Procs : OneView(p)
    BY DEF Init, OneView, NoLedgers
  <2>2. \A p \in Procs : ScanSees(p)
    BY <2>1, OneViewIsFine DEF Init
  <2> QED
    BY <2>1, <2>2 DEF Init, Scanning
<1>2. TargetInv /\ TargetInv' /\ Scanning /\ [Next]_vars => Scanning'
  BY ScanningStep
<1>3. Scanning => NoFalseConflict
  BY DEF Scanning, ScanSees, NoFalseConflict, ScanConflict
<1> QED
  BY <1>1, <1>2, <1>3, TargetInvariant, PTL DEF Spec
==============================================================================
