-------------------------- MODULE StageRunRecovery --------------------------
(***************************************************************************)
(* Closeout recovery of ONE StageRun: operators that run                   *)
(* recoverStageRunCloseoutProjection (opl family-runtime stage-run         *)
(* recover-closeout), the recovery entry they share in the launch row, and *)
(* the Temporal executions under the StageRun's workflow id.  A recovery   *)
(* execution continues the quality cycle of a closed StageRun from an      *)
(* attempt that has been corrected.  Every SQLite transaction and every    *)
(* await of an operator is a step; operators may die, outlive their lease  *)
(* or lose the answer of a Temporal RPC.                                   *)
(*                                                                         *)
(* A resume is what a recovery execution is started with.  Its id stands   *)
(* for recovery_id and the producer: ids are numbered in the order in      *)
(* which one resume may succeed another (the producer's, the reviewer's    *)
(* demand for repair, the repairer's).  The reviewer's input snapshot and  *)
(* the quality debt references are what may change under one id.           *)
(***************************************************************************)
EXTENDS Naturals, Sequences, FiniteSets

CONSTANTS
  Operators,  \* processes that may recover the StageRun
  Resume,     \* the resumes operators derive from the persisted attempts
  MaxClaims,  \* bound: claims of the recovery entry
  MaxFaults   \* bound: crashes, outlived leases and failed RPCs

ASSUME StageRunRecoveryAssumption ==
  /\ IsFiniteSet(Operators)
  /\ Resume \subseteq [id : Nat \ {0}, snapshot : BOOLEAN, debts : Nat]
  /\ {MaxClaims, MaxFaults} \subseteq Nat

VARIABLES
  row,     \* the launch: "started", or closed with this terminal status
  cycle,   \* status of the quality cycle's projection; no step here reads it
  entry,   \* recovery_runs[0] of the row's start receipt
  exec,    \* Temporal executions under the workflow id, the original first
  op,      \* where each operator is and what it carries
  faults   \* faults so far

vars == <<row, cycle, entry, exec, op, faults>>

Original == [id |-> 0, snapshot |-> FALSE, debts |-> 0]
NoRun == 0
RunRef == 0..MaxClaims + 1     \* a claim starts one execution at most

Entry == [status : {"none", "starting", "started", "start_failed"},
          resume : Resume \cup {Original}, token : 0..MaxClaims, leased : BOOLEAN,
          attempts : 0..MaxClaims, receipt : RunRef, history : SUBSET RunRef]

Claiming == {"describePrior", "claim", "describeOwn"}
Claimants == {"probe", "start", "describeExisting", "record", "failure"}
Describes == {"describeOriginal", "describePrior", "describeOwn"}
Operator == [pc : {"idle", "close", "project", "claim"} \cup Describes \cup Claimants,
             want : Resume \cup {Original}, retry : BOOLEAN,
             prior : Resume \cup {Original}, bound : RunRef,
             seen : RunRef, observed : BOOLEAN, token : 0..MaxClaims]

Idle == [pc |-> "idle", want |-> Original, retry |-> FALSE, prior |-> Original,
         bound |-> NoRun, seen |-> NoRun, observed |-> FALSE, token |-> 0]

\* Every variable has its type, a receipt belongs to a started entry, and
\* Temporal runs one execution at a time.
TypeOK ==
  /\ row \in {"started", "completed", "blocked"}
  /\ cycle \in {"running", "ended"}
  /\ entry \in Entry
  /\ entry.receipt # NoRun <=> entry.status = "started"
  /\ exec \in Seq([resume : Resume \cup {Original}, running : BOOLEAN])
  /\ Len(exec) \in 1..MaxClaims + 1
  /\ \A i \in 1..Len(exec) - 1 : ~exec[i].running
  /\ op \in [Operators -> Operator]
  /\ faults \in 0..MaxFaults

Init ==
  /\ row = "started"
  /\ cycle = "running"
  /\ entry = [status |-> "none", resume |-> Original, token |-> 0, leased |-> FALSE,
              attempts |-> 0, receipt |-> NoRun, history |-> {}]
  /\ exec = <<[resume |-> Original, running |-> TRUE]>>
  /\ op = [o \in Operators |-> Idle]
  /\ faults = 0

Latest == Len(exec)
Running == exec[Latest].running
Recovers(id) == exec[Latest].resume.id = id    \* the memo's recovery_id

Fault == faults < MaxFaults /\ faults' = faults + 1
Goto(o, pc) == op' = [op EXCEPT ![o].pc = pc]
Done(o) == op' = [op EXCEPT ![o] = Idle]
OnlyOp == UNCHANGED <<row, cycle, entry, exec, faults>>

-----------------------------------------------------------------------------
(* Which resume may take the place of another. *)

\* recoveryEntryCanAdvanceToRepairerResume, and the extension of an accepted
\* producer's snapshot before its review (which has a new recovery id).
Advances(old, new) == new.id > old.id

\* recoveryEntryCanAppendQualityDebtRefs and recoveryEntryCanRestoreOwnerRepairMap
Amends(old, new) ==
  /\ new.id = old.id /\ new.snapshot = old.snapshot
  /\ new.debts > old.debts

Enriches(old, new) ==
  /\ new.id = old.id /\ ~old.snapshot /\ new.snapshot
  /\ new.debts >= old.debts

\* The persisted execution that the operator observed, which it saw ended.
Observed(c) == c.seen # NoRun /\ entry.receipt = c.seen

MayReplace(c) ==
  \/ /\ entry.status = "started" /\ Observed(c)
     /\ \/ Advances(entry.resume, c.want)
        \/ Amends(entry.resume, c.want)
        \/ Enriches(entry.resume, c.want)
  \/ /\ entry.status = "start_failed" /\ entry.receipt = NoRun
     /\ c.observed /\ c.prior.id = entry.resume.id
     /\ Enriches(entry.resume, c.want)

-----------------------------------------------------------------------------
(* An operator, from the command to the claim. *)

\* What a call needs of the entry it read: the resume it is to replace.
Reading(c) ==
  IF c.retry /\ entry.resume # c.want
  THEN [c EXCEPT !.prior = entry.resume, !.bound = entry.receipt] ELSE c

Recover(o) ==
  /\ op[o].pc = "idle"
  /\ \E w \in Resume, flag \in BOOLEAN :
       op' = [op EXCEPT ![o] = Reading([Idle EXCEPT !.want = w, !.retry = flag,
               !.pc = IF row = "started" THEN "describeOriginal" ELSE "project"])]
  /\ OnlyOp

\* The row misses its close: only the original execution, ended, may supply it.
DescribeOriginal(o) ==
  /\ op[o].pc = "describeOriginal"
  /\ IF Latest = 1 /\ ~Running THEN Goto(o, "close") ELSE Done(o)
  /\ OnlyOp

\* recordStageRunClosed; the projected status is never one the row takes over.
Close(o) ==
  /\ op[o].pc = "close"
  /\ IF row = "blocked"
     THEN Done(o) /\ UNCHANGED row
     ELSE /\ row' = "completed"
          /\ op' = [op EXCEPT ![o] = Reading([op[o] EXCEPT !.pc = "project"])]
  /\ UNCHANGED <<cycle, entry, exec, faults>>

\* The corrected attempt and its lineage are projected before any claim, so
\* every call reopens the cycle, the refused one and the replay too.  Bound:
\* the calls that reach their claim.
Project(o) ==
  LET c == op[o] IN
  /\ c.pc = "project"
  /\ entry.attempts + Cardinality({p \in Operators : op[p].pc \in Claiming}) < MaxClaims
  /\ cycle' = "running"
  /\ Goto(o, IF c.prior # Original THEN "describePrior" ELSE "claim")
  /\ UNCHANGED <<row, entry, exec, faults>>

\* The attempt, its artifacts or its lineage are refused before that.
RefuseCloseout(o) == op[o].pc = "project" /\ Done(o) /\ OnlyOp

\* Mutant: a running execution passes for a terminal one.
DescribePriorRunning(o) ==
  /\ op[o].pc = "describePrior"
  /\ IF Recovers(op[o].prior.id) /\ op[o].bound \in {NoRun, Latest}
     THEN op' = [op EXCEPT ![o].pc = "claim", ![o].seen = Latest, ![o].observed = TRUE]
     ELSE Done(o)
  /\ OnlyOp

DescribePrior(o) ==
  /\ op[o].pc = "describePrior"
  /\ IF Recovers(op[o].prior.id) /\ op[o].bound \in {NoRun, Latest} /\ ~Running
     THEN op' = [op EXCEPT ![o].pc = "claim", ![o].seen = Latest, ![o].observed = TRUE]
     ELSE Done(o)
  /\ OnlyOp

\* Prior evidence of a retry: the bound receipt, or what the operator observed.
Evidence(c) ==
  IF c.seen = NoRun THEN {}
  ELSE IF entry.receipt # NoRun THEN {entry.receipt}
  ELSE IF c.observed THEN {c.seen} ELSE {}

\* Mutant: the entry of another resume starts an empty history.
ClaimedForgetting(c) ==
  [status |-> "starting", resume |-> c.want, token |-> entry.attempts + 1, leased |-> TRUE,
   attempts |-> entry.attempts + 1, receipt |-> NoRun,
   history |-> IF entry.resume = c.want THEN entry.history \cup Evidence(c) ELSE Evidence(c)]

\* A claim token is a fresh UUID; here the attempt it is issued with.
ClaimedEntry(c) ==
  [status |-> "starting", resume |-> c.want, token |-> entry.attempts + 1, leased |-> TRUE,
   attempts |-> entry.attempts + 1, receipt |-> NoRun,
   history |-> entry.history \cup Evidence(c)]

\* Mutant: a retry need not name the execution the entry is bound to.
AdmitsAnyRetry(c) ==
  /\ entry.status = "none" \/ entry.resume = c.want \/ MayReplace(c)
  /\ entry.status = "started" => c.seen # NoRun
  /\ ~(entry.status = "starting" /\ entry.leased)

\* The claim is granted: the same or a succeeding resume, nobody at work on it,
\* and a started one only against the observation of its execution's end.
Admits(c) ==
  /\ entry.status = "none" \/ entry.resume = c.want \/ MayReplace(c)
  /\ entry.status = "started" => Observed(c)
  /\ ~(entry.status = "starting" /\ entry.leased)

Claim(o) ==
  LET c == op[o] IN
  /\ c.pc = "claim" /\ row # "started" /\ Admits(c)
  /\ entry' = ClaimedEntry(c)
  /\ op' = [op EXCEPT ![o] = [Idle EXCEPT !.pc = "probe", !.want = c.want,
                                          !.token = entry.attempts + 1]]
  /\ UNCHANGED <<row, cycle, exec, faults>>

\* Started already: the call returns, or looks whether that execution ended.
FindStarted(o) ==
  LET c == op[o] IN
  /\ c.pc = "claim" /\ entry.status = "started" /\ entry.resume = c.want /\ c.seen = NoRun
  /\ IF c.retry
     THEN op' = [op EXCEPT ![o].pc = "describeOwn", ![o].bound = entry.receipt]
     ELSE Done(o)
  /\ OnlyOp

\* Identity conflict, an observation of another execution, or a live claimant.
RefuseClaim(o) ==
  LET c == op[o] IN
  /\ c.pc = "claim" /\ ~Admits(c)
  /\ ~(entry.status = "started" /\ entry.resume = c.want /\ c.seen = NoRun)
  /\ Done(o) /\ OnlyOp

DescribeOwn(o) ==
  LET c == op[o] IN
  /\ c.pc = "describeOwn"
  /\ IF Recovers(c.want.id) /\ c.bound = Latest /\ ~Running
     THEN op' = [op EXCEPT ![o].pc = "claim", ![o].seen = Latest]
     ELSE Done(o)
  /\ OnlyOp

-----------------------------------------------------------------------------
(* The claimant: startTemporalStageRunRecoveryWorkflow and its receipt. *)

Probe(o) ==
  LET c == op[o] IN
  /\ c.pc = "probe"
  /\ op' = [op EXCEPT ![o] =
       IF ~Running THEN [c EXCEPT !.pc = "start"]
       ELSE IF Recovers(c.want.id) THEN [c EXCEPT !.pc = "record", !.seen = Latest]
       ELSE [c EXCEPT !.pc = "failure"]]
  /\ OnlyOp

\* Mutant: a conflict policy that lets two executions run.
StartsBeside(o) ==
  /\ op[o].pc = "start"
  /\ exec' = Append(exec, [resume |-> op[o].want, running |-> TRUE])

\* WorkflowIdConflictPolicy.FAIL, WorkflowIdReusePolicy.ALLOW_DUPLICATE
StartsRecovery(o) ==
  /\ op[o].pc = "start" /\ ~Running
  /\ exec' = Append(exec, [resume |-> op[o].want, running |-> TRUE])

Start(o) ==
  /\ StartsRecovery(o)
  /\ op' = [op EXCEPT ![o].pc = "record", ![o].seen = Latest + 1]
  /\ UNCHANGED <<row, cycle, entry, faults>>

AlreadyStarted(o) ==
  /\ op[o].pc = "start" /\ Running /\ Goto(o, "describeExisting") /\ OnlyOp

\* Mutant: the execution met is taken for the requested one.
DescribeAnyExisting(o) ==
  /\ op[o].pc = "describeExisting"
  /\ op' = [op EXCEPT ![o].pc = "record", ![o].seen = Latest]
  /\ OnlyOp

DescribeExisting(o) ==
  /\ op[o].pc = "describeExisting"
  /\ IF Recovers(op[o].want.id)
     THEN op' = [op EXCEPT ![o].pc = "record", ![o].seen = Latest]
     ELSE Goto(o, "failure")
  /\ OnlyOp

Holds(o) == entry.status = "starting" /\ entry.resume.id = op[o].want.id
            /\ entry.token = op[o].token

Record(o) ==
  /\ op[o].pc = "record" /\ Holds(o)
  /\ entry' = [entry EXCEPT !.status = "started", !.token = 0, !.leased = FALSE,
                            !.receipt = op[o].seen]
  /\ Done(o)
  /\ UNCHANGED <<row, cycle, exec, faults>>

\* Another claimant recorded this execution, or the receipt is refused.
RecordLate(o) ==
  /\ op[o].pc = "record" /\ ~Holds(o)
  /\ IF entry.status = "started" /\ entry.resume.id = op[o].want.id /\ entry.receipt = op[o].seen
     THEN Done(o) ELSE Goto(o, "failure")
  /\ OnlyOp

RecordFailure(o) ==
  /\ op[o].pc = "failure"
  /\ entry' = IF Holds(o)
              THEN [entry EXCEPT !.status = "start_failed", !.token = 0, !.leased = FALSE]
              ELSE entry
  /\ Done(o)
  /\ UNCHANGED <<row, cycle, exec, faults>>

-----------------------------------------------------------------------------
(* Faults, and the executions themselves. *)

\* A describe or a start fails before it took effect.
RpcFails(o) ==
  /\ \/ op[o].pc \in Describes /\ Done(o)
     \/ op[o].pc \in {"probe", "start", "describeExisting"} /\ Goto(o, "failure")
  /\ Fault
  /\ UNCHANGED <<row, cycle, entry, exec>>

\* The start took effect, its answer or the describe that follows it is lost.
StartAnswerLost(o) ==
  /\ StartsRecovery(o) /\ Goto(o, "failure") /\ Fault
  /\ UNCHANGED <<row, cycle, entry>>

Crash(o) ==
  /\ op[o].pc # "idle" /\ Done(o) /\ Fault
  /\ UNCHANGED <<row, cycle, entry, exec>>

\* The lease of a claimant that is gone runs out; outliving it is a fault.
LeaseExpires ==
  /\ entry.leased
  /\ entry' = [entry EXCEPT !.leased = FALSE]
  /\ IF \E o \in Operators : op[o].pc \in Claimants /\ op[o].token = entry.token
     THEN Fault ELSE UNCHANGED faults
  /\ UNCHANGED <<row, cycle, exec, op>>

\* terminalize(): the projection, and the close of a row still open; that of a
\* closed one is refused or repeats it.
Terminalize ==
  /\ Running /\ cycle' = "ended"
  /\ row' \in IF row = "started" THEN {"completed", "blocked"} ELSE {row}
  /\ UNCHANGED <<entry, exec, op, faults>>

ExecutionEnds ==
  /\ Running /\ exec' = [exec EXCEPT ![Latest].running = FALSE]
  /\ UNCHANGED <<row, cycle, entry, op, faults>>

OperatorStep(o) ==
  \/ Recover(o) \/ DescribeOriginal(o) \/ Close(o) \/ Project(o) \/ RefuseCloseout(o)
  \/ DescribePrior(o) \/ Claim(o) \/ FindStarted(o) \/ RefuseClaim(o) \/ DescribeOwn(o)
  \/ Probe(o) \/ Start(o) \/ AlreadyStarted(o) \/ DescribeExisting(o)
  \/ Record(o) \/ RecordLate(o) \/ RecordFailure(o)
  \/ RpcFails(o) \/ StartAnswerLost(o) \/ Crash(o)

Next == (\E o \in Operators : OperatorStep(o)) \/ LeaseExpires \/ Terminalize \/ ExecutionEnds

Spec == Init /\ [][Next]_vars

-----------------------------------------------------------------------------
\* Executions nobody can name any more: neither bound nor in the history, and
\* no operator is on its way to record them.
Lost == {i \in 2..Latest :
           /\ i # entry.receipt /\ i \notin entry.history
           /\ ~\E o \in Operators : op[o].pc = "record" /\ op[o].seen = i}

\* Every recovery execution stays in the receipt history of the StageRun: only
\* a lost answer, a dead or an outlived operator loses one, and one each.
\* (claimStageRunRecoveryStart, recordStageRunTemporalRecoveryStart)
EveryRunKept == Cardinality(Lost) <= faults

\* A started entry is bound to a recovery execution of its own recovery id,
\* whoever started it and however late it was recorded.
\* (assertTemporalStageRunRecoveryMemoIdentity and the claim's compare-and-set)
BoundToItsOwn ==
  entry.status = "started" =>
    entry.receipt \in 2..Latest /\ exec[entry.receipt].resume.id = entry.resume.id

\* A started recovery is given up, for a retry or for another resume, only
\* when the execution it is bound to has ended.
RetriedWhenOver ==
  [][entry.status = "started" /\ entry'.status # "started" => ~exec[entry.receipt].running]_vars

=============================================================================
