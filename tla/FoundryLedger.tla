---------------------------- MODULE FoundryLedger ----------------------------
(***************************************************************************)
(* LedgerFoundryEventStore for ONE target agent: the append-only event     *)
(* files of its runs, the target reservation file, the SQLite state index  *)
(* and the processes that create, append, read, list and rebuild.  Every   *)
(* method is synchronous inside its process, so the actors are processes;  *)
(* a step is the work between two points where another process can matter: *)
(* lock files, the durable rename or link, the index transaction.          *)
(***************************************************************************)
EXTENDS FoundryMutationLock, Sequences

CONSTANTS
  Runs,        \* run ids; the lock file of a run is named by the run
  Target,      \* target-*.lock
  Index,       \* state-index.lock
  NoRun,       \* no reservation file
  Accept,      \* idempotency key of a run's acceptance event
  Keys,        \* idempotency keys of the later events
  Ends,        \* those whose event enters a terminal state
  Calls        \* bound: the methods the processes call

ASSUME FoundryLedgerAssumption ==
  /\ Files = Runs \cup {Target, Index}
  /\ Target \notin Runs
  /\ Index \notin Runs
  /\ Target # Index
  /\ NoRun \notin Runs
  /\ Accept \notin Keys
  /\ Ends \subseteq Keys
  /\ Calls \subseteq {"create", "append", "read", "list", "rebuild"}

VARIABLES
  log,          \* durable events of each run, <<>> if it has no directory
  reservation,  \* run named by the target reservation file
  index,        \* events each row of the state index was projected from
  pc,           \* where each process is
  job,          \* what it was called for
  view,         \* the ledgers it has read
  pending,      \* directory entries it has listed and not visited yet
  acked         \* history: events a create or append call returned normally for

ledgerVars == <<log, reservation, index>>
procVars == <<pc, job, view, pending>>
vars == <<lockVars, ledgerVars, procVars, acked>>

Events == Seq(Keys \cup {Accept})
Ledgers == [Runs -> Events]
NoLedgers == [r \in Runs |-> <<>>]

LockPc == {"target", "run", "index"}
Pc == LockPc \cup {"idle", "check", "commit", "project", "unindex", "repair",
                   "untarget", "readdir", "scan", "replace", "finish", "abort"}
Writes == {"create", "append", "reproject"}   \* "reproject": create of a known run
Ops == Writes \cup {"none", "read", "list", "rebuild"}
Job == [op: Ops, run: Runs \cup {NoRun}, key: Keys \cup {Accept}, at: Nat]
NoJob == [op |-> "none", run |-> NoRun, key |-> Accept, at |-> 0]

DataTypeOK ==
  /\ log \in Ledgers
  /\ reservation \in Runs \cup {NoRun}
  /\ index \in Ledgers
  /\ pc \in [Procs -> Pc]
  /\ job \in [Procs -> Job]
  /\ view \in [Procs -> Ledgers]
  /\ pending \in [Procs -> SUBSET Runs]
  /\ acked \in Ledgers

TypeOK == LockTypeOK /\ DataTypeOK

Init ==
  /\ LockInit
  /\ log = NoLedgers
  /\ reservation = NoRun
  /\ index = NoLedgers
  /\ pc = [p \in Procs |-> "idle"]
  /\ job = [p \in Procs |-> NoJob]
  /\ view = [p \in Procs |-> NoLedgers]
  /\ pending = [p \in Procs |-> {}]
  /\ acked = NoLedgers

-----------------------------------------------------------------------------
(* Ledgers.  FOUNDRY_TERMINAL_STATES are entered by the events in Ends. *)

Active(events) == events # <<>> /\ events[Len(events)] \notin Ends
Terminal(events) == events # <<>> /\ events[Len(events)] \in Ends
ActiveIn(ledgers) == {r \in Runs : Active(ledgers[r])}
Several(runs) == \E a, b \in runs : a # b

\* Mutants: the reservation file is taken at its word; the ledgers are not asked.
AuthoritiesReserved ==
  IF reservation # NoRun THEN {reservation} ELSE ActiveIn(log)

AuthoritiesFileOnly == {reservation} \cap ActiveIn(log)

\* The run reconcileTargetReservation trusts: the reserved one while it is
\* active, else whatever the ledgers say.
Authorities ==
  IF reservation \in ActiveIn(log) THEN {reservation} ELSE ActiveIn(log)

\* Mutant: the list of ledgers is written where the run id belongs.
ReconciledWithList(a) ==
  /\ ~Several(Authorities)
  /\ IF Authorities = {} THEN a = NoRun ELSE a \in Authorities
  /\ reservation' = IF a = NoRun THEN NoRun ELSE Authorities

Reconciled(a) ==
  /\ ~Several(Authorities)
  /\ IF Authorities = {} THEN a = NoRun ELSE a \in Authorities
  /\ reservation' = a

Go(p, label) == pc' = [pc EXCEPT ![p] = label]

Idle(p) ==
  /\ Go(p, "idle")
  /\ job' = [job EXCEPT ![p] = NoJob]
  /\ view' = [view EXCEPT ![p] = NoLedgers]
  /\ pending' = [pending EXCEPT ![p] = {}]

See(p, r, events) == view' = [view EXCEPT ![p][r] = events]

-----------------------------------------------------------------------------
(* The calls. *)

Call(p, op, r, k, at, label) ==
  /\ op \in Calls
  /\ pc[p] = "idle"
  /\ want[p] = NoFile
  /\ job' = [job EXCEPT ![p] = [op |-> op, run |-> r, key |-> k, at |-> at]]
  /\ Go(p, label)
  /\ UNCHANGED <<lockVars, ledgerVars, pending, acked>>

Create(p, r) == Call(p, "create", r, Accept, 0, "target") /\ UNCHANGED view

\* The caller expects a revision it has read at some time, or repeats a call.
AppendEvent(p, r, k, at) == Call(p, "append", r, k, at, "target") /\ UNCHANGED view

\* Mutant: read() repairs the reservation without the target lock.
ReadUnlocked(p, r) ==
  /\ log[r] # <<>>
  /\ Call(p, "read", r, Accept, 0, "repair")
  /\ See(p, r, log[r])

\* read() takes the ledger without a lock.
Read(p, r) ==
  /\ log[r] # <<>>
  /\ Call(p, "read", r, Accept, 0, "target")
  /\ See(p, r, log[r])

List(p) == Call(p, "list", NoRun, Accept, 0, "readdir") /\ UNCHANGED view

RebuildStateIndex(p) == Call(p, "rebuild", NoRun, Accept, 0, "index") /\ UNCHANGED view

-----------------------------------------------------------------------------
(* Lock acquisition, and the sweep when a process opens the store. *)

Wanted(p) == CASE pc[p] = "target" -> Target
               [] pc[p] = "run"    -> job[p].run
               [] pc[p] = "index"  -> Index

Locked(p) ==
  /\ pc[p] \in LockPc
  /\ Acquire(p, Wanted(p))
  /\ Go(p, CASE pc[p] = "target" -> (CASE job[p].op = "append" -> "run"
                                       [] job[p].op = "read"   -> "repair"
                                       [] OTHER                -> "check")
             [] pc[p] = "run"    -> "check"
             [] pc[p] = "index"  -> IF job[p].op = "rebuild" THEN "readdir" ELSE "project")
  /\ UNCHANGED <<ledgerVars, job, view, pending, acked>>

\* "Foundry storage mutation is already in progress."
Contended(p) ==
  /\ pc[p] \in LockPc
  /\ Refused(p, Wanted(p))
  /\ Go(p, "abort")
  /\ UNCHANGED <<ledgerVars, job, view, pending, acked>>

OwnerDead(p) ==
  /\ pc[p] \in LockPc
  /\ FindDead(p, Wanted(p), "remove")
  /\ UNCHANGED <<ledgerVars, procVars, acked>>

RemoveAbandoned(p) ==
  /\ \E f \in Files : Remove(p, f)
  /\ UNCHANGED <<ledgerVars, procVars, acked>>

\* A process that opens the store reclaims the dead lock files it can read.
Sweep(p, f) ==
  /\ pc[p] = "idle"
  /\ FindDead(p, f, "sweep")
  /\ UNCHANGED <<ledgerVars, procVars, acked>>

Crash(p) ==
  /\ pc[p] # "idle"
  /\ CrashLocks(p)
  /\ Idle(p)
  /\ UNCHANGED <<ledgerVars, acked>>

-----------------------------------------------------------------------------
(* create and append, under the target lock (and the run lock). *)

\* reconcileTargetReservation meets several active runs.
Ambiguous(p) ==
  /\ pc[p] = "check"
  /\ job[p].op = "append" => log[job[p].run] # <<>>
  /\ Several(Authorities)
  /\ reservation' = NoRun
  /\ Go(p, "abort")
  /\ UNCHANGED <<lockVars, log, index, job, view, pending, acked>>

CreateCheck(p) ==
  LET r == job[p].run IN
  /\ pc[p] = "check"
  /\ job[p].op = "create"
  /\ See(p, r, log[r])
  /\ \E a \in Runs \cup {NoRun} :
       /\ Reconciled(a)
       /\ Go(p, IF log[r] = <<>> /\ a = NoRun THEN "commit"
                ELSE IF log[r] # <<>> /\ a \in {r, NoRun} THEN "index" ELSE "abort")
  /\ job' = IF log[r] = <<>> THEN job ELSE [job EXCEPT ![p].op = "reproject"]
  /\ UNCHANGED <<lockVars, log, index, pending, acked>>

\* Mutant: only the expected revision is compared.
VerdictByRevision(events, k, at) == IF Len(events) = at THEN "commit" ELSE "abort"

\* A known idempotency key is a replay of its own revision; a new one must
\* extend the revision the caller expects.
Verdict(events, k, at) ==
  IF \E i \in DOMAIN events : events[i] = k
    THEN IF at + 1 \in DOMAIN events /\ events[at + 1] = k THEN "index" ELSE "abort"
    ELSE IF Len(events) = at THEN "commit" ELSE "abort"

AppendCheck(p) ==
  LET r == job[p].run IN
  /\ pc[p] = "check"
  /\ job[p].op = "append"
  /\ See(p, r, log[r])
  /\ IF log[r] = <<>>
       THEN Go(p, "abort") /\ UNCHANGED reservation
       ELSE \E a \in Runs \cup {NoRun} :
              /\ Reconciled(a)
              /\ Go(p, IF a = r THEN Verdict(log[r], job[p].key, job[p].at) ELSE "abort")
  /\ UNCHANGED <<lockVars, log, index, job, pending, acked>>

\* Mutant: an event file that exists already counts as written.
CommitExisting(p) ==
  LET r == job[p].run IN
  /\ pc[p] = "commit"
  /\ log' = IF Len(log[r]) = job[p].at THEN [log EXCEPT ![r] = Append(@, job[p].key)] ELSE log
  /\ See(p, r, Append(view[p][r], job[p].key))
  /\ Go(p, "index")
  /\ UNCHANGED <<lockVars, reservation, index, job, pending, acked>>

\* The run directory is renamed into place, or the event file of the next
\* revision linked: both fail on an existing path.
Commit(p) ==
  LET r == job[p].run IN
  /\ pc[p] = "commit"
  /\ IF Len(log[r]) = job[p].at
       THEN /\ log' = [log EXCEPT ![r] = Append(@, job[p].key)]
            /\ See(p, r, Append(view[p][r], job[p].key))
            /\ Go(p, "index")
       ELSE /\ Go(p, "abort")
            /\ UNCHANGED <<log, view>>
  /\ UNCHANGED <<lockVars, reservation, index, job, pending, acked>>

-----------------------------------------------------------------------------
(* Derived state: the index and the reservation. *)

\* Mutant: the upsert has no revision guard.
ProjectedAlways(events, r) == events

\* ON CONFLICT ... WHERE excluded.revision >= foundry_runs.revision
Projected(events, r) == IF Len(events) >= Len(index[r]) THEN events ELSE index[r]

ProjectSnapshot(p) ==
  LET r == job[p].run IN
  /\ pc[p] = "project"
  /\ index' = [index EXCEPT ![r] = Projected(view[p][r], r)]
  /\ Go(p, "unindex")
  /\ UNCHANGED <<lockVars, log, reservation, job, view, pending, acked>>

Unindex(p) ==
  /\ pc[p] = "unindex"
  /\ Release(p, {Index})
  /\ Go(p, IF LostLock(p, {Index}) THEN "abort"
           ELSE IF job[p].op \in {"create", "append"} THEN "repair" ELSE "finish")
  /\ UNCHANGED <<ledgerVars, job, view, pending, acked>>

\* repairTargetReservation with the ledger the process has read.
RepairConflict(p) == Active(view[p][job[p].run]) /\ reservation \notin {NoRun, job[p].run}

RepairTargetReservation(p) ==
  LET r == job[p].run IN
  /\ pc[p] = "repair"
  /\ reservation' = IF Active(view[p][r])
                      THEN IF reservation = NoRun THEN r ELSE reservation
                      ELSE IF reservation = r THEN NoRun ELSE reservation
  /\ Go(p, IF RepairConflict(p) THEN "abort"
           ELSE IF job[p].op = "read" THEN "untarget" ELSE "finish")
  /\ UNCHANGED <<lockVars, log, index, job, view, pending, acked>>

\* read() repairs the reservation under the target lock and projects after it.
Untarget(p) ==
  /\ pc[p] = "untarget"
  /\ Release(p, {Target})
  /\ Go(p, IF LostLock(p, {Target}) THEN "abort" ELSE "index")
  /\ UNCHANGED <<ledgerVars, job, view, pending, acked>>

-----------------------------------------------------------------------------
(* list and rebuildStateIndex: the ledgers are read one run at a time. *)

\* Mutant: the runs are looked up while scanning instead of listed once.
ReadDirLazily(p) ==
  /\ pc[p] = "readdir"
  /\ pending' = [pending EXCEPT ![p] = Runs]
  /\ view' = [view EXCEPT ![p] = NoLedgers]
  /\ Go(p, "scan")
  /\ UNCHANGED <<lockVars, ledgerVars, job, acked>>

ReadDir(p) ==
  /\ pc[p] = "readdir"
  /\ pending' = [pending EXCEPT ![p] = {r \in Runs : log[r] # <<>>}]
  /\ view' = [view EXCEPT ![p] = NoLedgers]
  /\ Go(p, "scan")
  /\ UNCHANGED <<lockVars, ledgerVars, job, acked>>

ScanRun(p, r) ==
  /\ pc[p] = "scan"
  /\ r \in pending[p]
  /\ See(p, r, log[r])
  /\ pending' = [pending EXCEPT ![p] = @ \ {r}]
  /\ UNCHANGED <<lockVars, ledgerVars, pc, job, acked>>

\* "Foundry target has multiple non-terminal authoritative runs."
ScanConflict(p) == Several(ActiveIn(view[p]))

ScanEnds(p) ==
  /\ pc[p] = "scan"
  /\ pending[p] = {}
  /\ Go(p, IF ScanConflict(p) THEN "abort"
           ELSE IF job[p].op = "rebuild" THEN "replace"
           ELSE IF index = view[p] THEN "finish" ELSE "index")
  /\ job' = [job EXCEPT ![p].op = "rebuild"]
  /\ UNCHANGED <<lockVars, ledgerVars, view, pending, acked>>

ReplaceIndex(p) ==
  /\ pc[p] = "replace"
  /\ index' = view[p]
  /\ Go(p, "unindex")
  /\ UNCHANGED <<lockVars, log, reservation, job, view, pending, acked>>

-----------------------------------------------------------------------------
\* The call ends and releases its locks.  A create or append that ends normally
\* tells its caller that the events are stored.
Return(p) ==
  /\ pc[p] \in {"finish", "abort"}
  /\ Release(p, held[p])
  /\ acked' = IF pc[p] = "finish" /\ job[p].op \in Writes /\ ~LostLock(p, held[p])
                   /\ Len(view[p][job[p].run]) > Len(acked[job[p].run])
                THEN [acked EXCEPT ![job[p].run] = view[p][job[p].run]]
                ELSE acked
  /\ Idle(p)
  /\ UNCHANGED ledgerVars

CallSomething(p) ==
  \/ \E r \in Runs : Create(p, r) \/ Read(p, r)
  \/ \E r \in Runs : \E k \in Keys, at \in 0..Len(log[r]) : AppendEvent(p, r, k, at)
  \/ List(p) \/ RebuildStateIndex(p)

LockFiles(p) ==
  \/ Locked(p) \/ Contended(p) \/ OwnerDead(p) \/ RemoveAbandoned(p)
  \/ \E f \in Files : Sweep(p, f)

Work(p) ==
  \/ Ambiguous(p) \/ CreateCheck(p) \/ AppendCheck(p) \/ Commit(p)
  \/ ProjectSnapshot(p) \/ Unindex(p) \/ RepairTargetReservation(p) \/ Untarget(p)
  \/ ReadDir(p) \/ ScanEnds(p) \/ ReplaceIndex(p) \/ \E r \in Runs : ScanRun(p, r)
  \/ Return(p)

Next == \E p \in Procs : CallSomething(p) \/ LockFiles(p) \/ Work(p) \/ Crash(p)

Spec == Init /\ [][Next]_vars

-----------------------------------------------------------------------------
(* Properties. *)

RunLog == INSTANCE FoundryRunLog WITH promised <- acked

\* A target agent has at most one run that may still write, as long as no lock
\* file was taken from a live process: whatever crashed between the commit of
\* an event and the repair of the reservation file.
OneActiveRun == ~stolen => ~Several(ActiveIn(log))

\* "At any time a target Agent has at most one writing Run", unconditionally.
OneActiveWriter == ~Several(ActiveIn(log))

\* A create or append that returned normally is in the state index, and no
\* stale reader or rebuild takes it out again.
AckedIsIndexed ==
  ~stolen => \A r \in Runs : Len(acked[r]) <= Len(index[r])

\* "SQLite/StateIndex is only a rebuildable projection": it never shows an
\* event the ledger does not hold, even when a lock was stolen.
IndexFollowsLog == \A r \in Runs : RunLog!Prefix(index[r], log[r])

\* A scan that reads the runs one by one while others write never sees two
\* active runs: readAllRunLedgers raises no false alarm.
NoFalseConflict == ~stolen => \A p \in Procs : ~ScanConflict(p)

\* After its event is durable a writer never fails on the reservation file.
WriterRepairs ==
  ~stolen => \A p \in Procs :
    pc[p] = "repair" /\ job[p].op \in Writes => ~RepairConflict(p)

\* create refuses a run only when another one is really active: a reservation
\* left by a crash or by a stale reader blocks nobody.
RefusedOnlyWhenBusy ==
  [][\A p \in Procs :
       pc[p] = "check" /\ job[p].op = "create" /\ pc'[p] = "abort" =>
         \E r \in ActiveIn(log) : r # job[p].run]_vars

\* The event store keeps the promise of FoundryRunLog, stolen locks included.
RunLogSpec == RunLog!Spec

=============================================================================
