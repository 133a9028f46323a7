--------------------------- MODULE StageRunLaunch ---------------------------
(***************************************************************************)
(* The durable launch of ONE StageRun invocation: its row in the SQLite    *)
(* table stage_run_launches, the callers that execute                      *)
(* launchRegisteredStageRun against it, and the Temporal workflow id the   *)
(* row owns.  Every BEGIN IMMEDIATE ... COMMIT block of the registry is    *)
(* one step; every await of a caller is a step boundary.  Several callers  *)
(* run at once (CLI processes, retried Temporal activities) and may die,   *)
(* outlive their lease or lose the answer of a Temporal RPC.               *)
(***************************************************************************)
EXTENDS Naturals

CONSTANTS
  Launchers,   \* processes that may call launchRegisteredStageRun
  Specs,       \* immutable specs (stage_run_spec_sha256) callers present
  Outcomes,    \* terminal statuses a StageRunWorkflow decides for itself
  NoSpec,      \* spec column of an absent row
  NoOutcome,   \* the workflow has not reached terminalize() yet
  MaxRuns,     \* bound: Temporal executions under the workflow id
  MaxFaults    \* bound: crashes, outlived leases and failed RPCs

ASSUME StageRunLaunchAssumption ==
  /\ NoSpec \notin Specs
  /\ NoOutcome \notin Outcomes
  /\ MaxRuns \in Nat \ {0}
  /\ MaxFaults \in Nat

VARIABLES
  row,        \* the stage_run_launches row
  run,        \* Temporal executions under the row's workflow_id, by run id
  latest,     \* id of the newest execution, NoRun if there is none
  projected,  \* status of the projected quality cycle (SQLite)
  pc,         \* where each caller is
  token,      \* claim token each caller holds
  seen,       \* Temporal receipt each caller read: run id and status
  result,     \* how each caller's last call ended
  faults      \* faults so far

vars == <<row, run, latest, projected, pc, token, seen, result, faults>>
callerVars == <<pc, token, seen, result>>
temporalVars == <<run, latest>>

NoRun == 0
NoToken == 0
RunIds == 1..MaxRuns

Closings == {"completed", "failed"}    \* terminal Temporal statuses, folded
RowStatus == {"absent", "registered", "starting", "start_failed", "started", "closed"}
Bound == {"started", "closed"}         \* an execution identity is recorded
RunStatus == {"absent", "running"} \cup Closings
Pc == {"idle", "describeStarted", "describeStarting", "persistStart", "persistClose",
       "claim", "rpc", "rpcDescribe", "record", "recordClose", "startFailure"}
InStart == {"rpc", "rpcDescribe", "record", "recordClose", "startFailure"}
Results == {"none", "returned", "threw", "specConflict", "conflict"}

RunRef == RunIds \cup {NoRun}
Decided == Outcomes \cup {NoOutcome}
Row == [status: RowStatus, spec: Specs \cup {NoSpec}, claim: Nat, leased: BOOLEAN,
        attempts: Nat, receipt: RunRef, terminal: Decided \cup RunStatus]
Execution == [status: RunStatus, outcome: Decided]
Receipt == [run: RunRef, status: RunStatus]
NoReceipt == [run |-> NoRun, status |-> "absent"]

CallersTyped ==
  /\ pc \in [Launchers -> Pc]
  /\ token \in [Launchers -> Nat]
  /\ seen \in [Launchers -> Receipt]
  /\ result \in [Launchers -> Results]

TemporalTyped ==
  /\ run \in [RunIds -> Execution]
  /\ latest \in RunRef

TypeOK ==
  /\ row \in Row
  /\ TemporalTyped
  /\ CallersTyped
  /\ projected \in Decided
  /\ faults \in 0..MaxFaults

Init ==
  /\ row = [status |-> "absent", spec |-> NoSpec, claim |-> NoToken, leased |-> FALSE,
            attempts |-> 0, receipt |-> NoRun, terminal |-> NoOutcome]
  /\ run = [i \in RunIds |-> [status |-> "absent", outcome |-> NoOutcome]]
  /\ latest = NoRun
  /\ projected = NoOutcome
  /\ pc = [l \in Launchers |-> "idle"]
  /\ token = [l \in Launchers |-> NoToken]
  /\ seen = [l \in Launchers |-> NoReceipt]
  /\ result = [l \in Launchers |-> "none"]
  /\ faults = 0

Fault == faults < MaxFaults /\ faults' = faults + 1

-----------------------------------------------------------------------------
(* What the registry's statements write to the row. *)

Registered(r, s) == [r EXCEPT !.status = "registered", !.spec = s]

Started(r, id) ==
  [r EXCEPT !.status = "started", !.receipt = id, !.terminal = NoOutcome,
            !.claim = NoToken, !.leased = FALSE]

\* Mutant: the UPDATE's positional parameters are swapped.
ClosedColumnsSwapped(r, status) ==
  [r EXCEPT !.status = status, !.terminal = "closed", !.claim = NoToken, !.leased = FALSE]

Closed(r, status) ==
  [r EXCEPT !.status = "closed", !.terminal = status, !.claim = NoToken, !.leased = FALSE]

\* Mutant: a takeover keeps the token of the claimant it replaces.
ClaimedKeepingToken(r) ==
  [r EXCEPT !.status = "starting", !.leased = TRUE, !.attempts = r.attempts + 1,
            !.claim = IF r.claim = NoToken THEN r.attempts + 1 ELSE r.claim]

Claimed(r) ==
  [r EXCEPT !.status = "starting", !.claim = r.attempts + 1, !.leased = TRUE,
            !.attempts = r.attempts + 1]

StartFailed(r) ==
  [r EXCEPT !.status = "start_failed", !.claim = NoToken, !.leased = FALSE]

Expired(r) == [r EXCEPT !.leased = FALSE]

\* recordStageRunTemporalStart refuses a second first execution.
IdentityConflict(id) == row.status \in Bound /\ row.receipt # id

\* recordStageRunClosed refuses to change a terminal status.
TerminalConflict(status) == row.status = "closed" /\ row.terminal # status

Goto(l, label) == pc' = [pc EXCEPT ![l] = label]

Return(l, how) ==
  /\ Goto(l, "idle")
  /\ result' = [result EXCEPT ![l] = how]
  /\ token' = [token EXCEPT ![l] = NoToken]
  /\ seen' = [seen EXCEPT ![l] = NoReceipt]

Continue(l, label) ==
  /\ Goto(l, label)
  /\ UNCHANGED <<token, seen, result>>

-----------------------------------------------------------------------------
(* registerStageRunLaunch, then the dispatch on the row it returns. *)

\* Mutant: a started row is taken at its word and never reconciled.
AfterRegistrationTrusting(status) == IF status = "starting" THEN "describeStarting" ELSE "claim"

AfterRegistration(status) ==
  CASE status = "started"  -> "describeStarted"
    [] status = "starting" -> "describeStarting"
    [] OTHER               -> "claim"

RegisterNew(l, s, start) ==
  /\ pc[l] = "idle"
  /\ row.status = "absent"
  /\ row' = Registered(row, s)
  /\ IF start THEN Continue(l, "claim") ELSE Return(l, "returned")
  /\ UNCHANGED <<temporalVars, projected, faults>>

Replay(l, start) ==
  /\ pc[l] = "idle"
  /\ row.status # "absent"
  /\ IF start /\ row.status # "closed"
       THEN Continue(l, AfterRegistration(row.status))
       ELSE Return(l, "returned")
  /\ UNCHANGED <<row, temporalVars, projected, faults>>

SpecConflict(l, s) ==
  /\ pc[l] = "idle"
  /\ row.status # "absent"
  /\ row.spec # s
  /\ Return(l, "specConflict")
  /\ UNCHANGED <<row, temporalVars, projected, faults>>

Register(l, s, start) ==
  \/ RegisterNew(l, s, start)
  \/ row.spec = s /\ Replay(l, start)
  \/ SpecConflict(l, s)

-----------------------------------------------------------------------------
(* describeWorkflow and persistObservation, on a started or starting row. *)

Describing == {"describeStarted", "describeStarting"}

DescribeFound(l) ==
  /\ pc[l] \in Describing
  /\ latest # NoRun
  /\ seen' = [seen EXCEPT ![l] = [run |-> latest, status |-> run[latest].status]]
  /\ Goto(l, "persistStart")
  /\ UNCHANGED <<row, temporalVars, projected, token, result, faults>>

DescribeNotFound(l) ==
  /\ pc[l] \in Describing
  /\ latest = NoRun
  /\ Continue(l, "claim")
  /\ UNCHANGED <<row, temporalVars, projected, faults>>

DescribeUnavailable(l) ==
  /\ pc[l] \in Describing
  /\ Fault
  /\ IF pc[l] = "describeStarted" THEN Return(l, "returned") ELSE Continue(l, "claim")
  /\ UNCHANGED <<row, temporalVars, projected>>

\* Mutant: a late start receipt is written without looking at the row.
BindExecutionUnguarded(id) == row' = Started(row, id)

\* recordStageRunTemporalStart as both call sites use it: it compares no claim
\* token, and it leaves a started or closed row alone.
BindExecution(id) ==
  row' = IF row.status \in Bound THEN row ELSE Started(row, id)

PersistStart(l) ==
  /\ pc[l] = "persistStart"
  /\ IF IdentityConflict(seen[l].run)
       THEN Return(l, "conflict") /\ UNCHANGED row
       ELSE /\ BindExecution(seen[l].run)
            /\ IF seen[l].status \in Closings
                 THEN Continue(l, "persistClose")
                 ELSE Return(l, "returned")
  /\ UNCHANGED <<temporalVars, projected, faults>>

CloseRow(status) ==
  row' = IF row.status = "closed" THEN row ELSE Closed(row, status)

PersistClose(l) ==
  /\ pc[l] = "persistClose"
  /\ IF TerminalConflict(seen[l].status)
       THEN Return(l, "conflict") /\ UNCHANGED row
       ELSE Return(l, "returned") /\ CloseRow(seen[l].status)
  /\ UNCHANGED <<temporalVars, projected, faults>>

-----------------------------------------------------------------------------
(* claimStageRunStart: the leased compare-and-swap before the provider. *)

\* Mutants: an expired lease is never taken over; a bound row may be claimed.
ClaimableOnce == row.status \notin Bound \cup {"starting"}
ClaimableWhenBound == ~(row.status = "starting" /\ row.leased)

Claimable == row.status \notin Bound /\ ~(row.status = "starting" /\ row.leased)

ClaimStart(l) ==
  /\ pc[l] = "claim"
  /\ Claimable
  /\ row' = Claimed(row)
  /\ token' = [token EXCEPT ![l] = row'.claim]
  /\ Goto(l, "rpc")
  /\ UNCHANGED <<temporalVars, projected, seen, result, faults>>

ClaimRefused(l) ==
  /\ pc[l] = "claim"
  /\ ~Claimable
  /\ Return(l, "returned")
  /\ UNCHANGED <<row, temporalVars, projected, faults>>

-----------------------------------------------------------------------------
(* startTemporalStageRunWorkflow: workflow.start, then describe. *)

Running(id) == run[id].status = "running"

\* Mutant: workflowIdReusePolicy ALLOW_DUPLICATE instead of REJECT_DUPLICATE.
TemporalStartAllowDuplicate ==
  IF latest < MaxRuns /\ (latest = NoRun \/ ~Running(latest))
    THEN /\ latest' = latest + 1
         /\ run' = [run EXCEPT ![latest + 1].status = "running"]
    ELSE UNCHANGED temporalVars

\* USE_EXISTING returns a running execution, REJECT_DUPLICATE refuses to start
\* another one once the id has a closed execution.
TemporalStart ==
  IF latest = NoRun
    THEN /\ latest' = 1
         /\ run' = [run EXCEPT ![1].status = "running"]
    ELSE UNCHANGED temporalVars

\* The run id the start handle carries; a refused duplicate carries none.
StartHandle == IF latest = NoRun THEN 1 ELSE IF Running(latest) THEN latest ELSE NoRun

StartRpc(l) ==
  /\ pc[l] = "rpc"
  /\ TemporalStart
  /\ seen' = [seen EXCEPT ![l] = [run |-> StartHandle, status |-> "absent"]]
  /\ Goto(l, "rpcDescribe")
  /\ UNCHANGED <<row, projected, token, result, faults>>

\* The RPC fails, before or after Temporal accepted it.
StartRpcFails(l) ==
  /\ pc[l] = "rpc"
  /\ Fault
  /\ TemporalStart \/ UNCHANGED temporalVars
  /\ Continue(l, "startFailure")
  /\ UNCHANGED <<row, projected>>

StartDescribe(l) ==
  /\ pc[l] = "rpcDescribe"
  /\ latest # NoRun
  /\ seen' = [seen EXCEPT ![l] =
                [run    |-> IF seen[l].run = NoRun THEN latest ELSE seen[l].run,
                 status |-> run[latest].status]]
  /\ Goto(l, "record")
  /\ UNCHANGED <<row, temporalVars, projected, token, result, faults>>

StartDescribeFails(l) ==
  /\ pc[l] = "rpcDescribe"
  /\ Fault
  /\ Continue(l, "startFailure")
  /\ UNCHANGED <<row, temporalVars, projected>>

-----------------------------------------------------------------------------
(* What the claimant records after the RPC. *)

RecordStart(l) ==
  /\ pc[l] = "record"
  /\ IF IdentityConflict(seen[l].run)
       THEN Continue(l, "startFailure") /\ UNCHANGED row
       ELSE /\ BindExecution(seen[l].run)
            /\ IF seen[l].status \in Closings
                 THEN Continue(l, "recordClose")
                 ELSE Return(l, "returned")
  /\ UNCHANGED <<temporalVars, projected, faults>>

RecordClose(l) ==
  /\ pc[l] = "recordClose"
  /\ IF TerminalConflict(seen[l].status)
       THEN Continue(l, "startFailure") /\ UNCHANGED row
       ELSE Return(l, "returned") /\ CloseRow(seen[l].status)
  /\ UNCHANGED <<temporalVars, projected, faults>>

HoldsClaim(l) == row.status = "starting" /\ row.claim = token[l]

\* Mutant: the failure report compares the status and not the claim token.
StartFailureAnyToken(l) ==
  /\ pc[l] = "startFailure"
  /\ row' = IF row.status = "starting" THEN StartFailed(row) ELSE row
  /\ Return(l, IF row.status \in Bound THEN "returned" ELSE "threw")
  /\ UNCHANGED <<temporalVars, projected, faults>>

\* recordStageRunStartFailure is a compare-and-swap on the claim token; the
\* caller swallows the error when the row is bound by then.
StartFailure(l) ==
  /\ pc[l] = "startFailure"
  /\ row' = IF HoldsClaim(l) THEN StartFailed(row) ELSE row
  /\ Return(l, IF row.status \in Bound THEN "returned" ELSE "threw")
  /\ UNCHANGED <<temporalVars, projected, faults>>

-----------------------------------------------------------------------------
(* Crashes and time. *)

Crash(l) ==
  /\ pc[l] # "idle"
  /\ Fault
  /\ Return(l, "none")
  /\ UNCHANGED <<row, temporalVars, projected>>

\* Time passes the lease.  It costs a fault only when the claimant is alive
\* and slower than its lease (30 s by default).
LeaseExpires ==
  /\ row.status = "starting"
  /\ row.leased
  /\ row' = Expired(row)
  /\ IF \E l \in Launchers : pc[l] \in InStart /\ HoldsClaim(l)
       THEN Fault
       ELSE UNCHANGED faults
  /\ UNCHANGED <<temporalVars, projected, callerVars>>

-----------------------------------------------------------------------------
(* The StageRunWorkflow: it decides an outcome, its projection activity     *)
(* writes the quality cycle and closes the row, and the execution completes *)
(* whether or not the projection worked.                                    *)

Terminalize(i, outcome) ==
  /\ Running(i)
  /\ run[i].outcome = NoOutcome
  /\ run' = [run EXCEPT ![i].outcome = outcome]
  /\ UNCHANGED <<row, latest, projected, callerVars, faults>>

\* The projection activity runs while the workflow waits for it ...
ProjectCycle(i) ==
  /\ Running(i)
  /\ run[i].outcome # NoOutcome
  /\ projected' = run[i].outcome
  /\ UNCHANGED <<row, temporalVars, callerVars, faults>>

\* Mutant: the row is closed before the quality cycle is projected.
CloseBeforeProjection ==
  /\ row.status = "started"
  /\ run[row.receipt].outcome # NoOutcome
  /\ row' = Closed(row, run[row.receipt].outcome)
  /\ UNCHANGED <<temporalVars, projected, callerVars, faults>>

\* ... and closes the row in a second transaction, which fails while no start
\* receipt is recorded and is skipped on a closed row.  An activity that timed
\* out still gets here after the workflow went on.
CloseFromProjection ==
  /\ projected # NoOutcome
  /\ row.status = "started"
  /\ row' = Closed(row, projected)
  /\ UNCHANGED <<temporalVars, projected, callerVars, faults>>

WorkflowCompletes(i) ==
  /\ Running(i)
  /\ run[i].outcome # NoOutcome
  /\ run' = [run EXCEPT ![i].status = "completed"]
  /\ UNCHANGED <<row, latest, projected, callerVars, faults>>

\* Failure, timeout, cancellation or termination of the execution.
WorkflowFails(i) ==
  /\ Running(i)
  /\ run' = [run EXCEPT ![i].status = "failed"]
  /\ UNCHANGED <<row, latest, projected, callerVars, faults>>

-----------------------------------------------------------------------------
CallerStep(l) ==
  \/ DescribeFound(l) \/ DescribeNotFound(l) \/ PersistStart(l) \/ PersistClose(l)
  \/ ClaimStart(l) \/ ClaimRefused(l) \/ StartRpc(l) \/ StartDescribe(l)
  \/ RecordStart(l) \/ RecordClose(l) \/ StartFailure(l)

CallerFault(l) ==
  \/ DescribeUnavailable(l) \/ StartRpcFails(l) \/ StartDescribeFails(l) \/ Crash(l)

WorkflowStep(i) ==
  \/ \E outcome \in Outcomes : Terminalize(i, outcome)
  \/ ProjectCycle(i) \/ WorkflowCompletes(i) \/ WorkflowFails(i)

Next ==
  \/ \E l \in Launchers, s \in Specs, start \in BOOLEAN : Register(l, s, start)
  \/ \E l \in Launchers : CallerStep(l) \/ CallerFault(l)
  \/ LeaseExpires \/ CloseFromProjection
  \/ \E i \in RunIds : WorkflowStep(i)

Spec == Init /\ [][Next]_vars

\* Callers and workflow workers keep running, leases run out, and somebody
\* keeps asking for the StageRun (retryStageRunRouteLaunchActivity has no
\* attempt limit); faults are finite.
Fairness ==
  /\ \A l \in Launchers : WF_vars(CallerStep(l))
  /\ WF_vars(LeaseExpires)
  /\ WF_vars(\E l \in Launchers : row.status # "absent" /\ Replay(l, TRUE))
  /\ \A i \in RunIds : WF_vars(WorkflowCompletes(i) \/ \E o \in Outcomes : Terminalize(i, o))

FairSpec == Spec /\ Fairness

-----------------------------------------------------------------------------
(* Properties. *)

\* "Temporal USE_EXISTING + REJECT_DUPLICATE" makes the execution exactly one:
\* however many callers retry, crash or lose an RPC, the workflow id gets one
\* execution and a bound row names it.
ExactlyOneExecution ==
  /\ latest \in {NoRun, 1}
  /\ row.status \in Bound <=> row.receipt # NoRun
  /\ row.receipt # NoRun => row.receipt = latest

\* A row is closed only when its own execution has an outcome: with the outcome
\* of the quality cycle, which is in SQLite by then, or with the terminal
\* status Temporal reports.
ClosedOnItsOutcome ==
  row.status = "closed" =>
    LET exec == run[row.receipt]
    IN  \/ /\ exec.outcome # NoOutcome
           /\ row.terminal = exec.outcome
           /\ projected = exec.outcome
        \/ exec.status \in Closings /\ row.terminal = exec.status

\* Callers between claim and record hold pairwise different claims, and a claim
\* the row still honours is the newest one (start_attempt_count).
OneClaimant ==
  /\ \A l \in Launchers : pc[l] \in InStart => token[l] \in 1..row.attempts
  /\ \A l, m \in Launchers :
       l # m /\ pc[l] \in InStart /\ pc[m] \in InStart => token[l] # token[m]
  /\ row.status = "starting" => row.claim = row.attempts /\ row.claim # NoToken

\* "started" never degrades and "closed" is final: the execution identity, once
\* recorded, survives late claims, late failure reports and late receipts.
NeverDegrades ==
  [][/\ row.status = "started" => row'.status \in Bound /\ row'.receipt = row.receipt
     /\ row.status = "closed" => row' = row]_vars

\* While a caller holds a live lease nobody else ends its claim, except by
\* recording an execution: not a rival claim, not the late failure report of
\* a caller whose own lease ran out.
ClaimProtected ==
  [][\A l \in Launchers :
       pc[l] \in InStart /\ HoldsClaim(l) /\ row.leased =>
         \/ row'.status = "starting" /\ row'.claim = row.claim
         \/ row'.status \in Bound
         \/ pc[l] = "startFailure" /\ pc'[l] = "idle"]_vars

\* A registered StageRun is eventually bound to its execution and closed: past
\* claimants that died holding a lease, start RPCs whose answer was lost, and a
\* projection that never managed to close the row, because replays reconcile it.
RegisteredCloses == row.status # "absent" ~> row.status = "closed"

\* "The same invocation with the same spec returns idempotently for a running
\* or closed Run": no replay of launchRegisteredStageRun ends in a contract
\* error.
ReplayReturns == \A l \in Launchers : result[l] # "conflict"

\* The registry implements the promise of DurableStageRun.
Durable == INSTANCE DurableStageRun WITH
  spec      <- row.spec,
  execution <- IF latest = NoRun THEN "none"
               ELSE IF run[latest].status # "running" THEN "ended"
               ELSE IF run[latest].outcome = NoOutcome THEN "running" ELSE "decided",
  known     <- IF row.status \in Bound THEN row.status ELSE "nothing"

DurableSpec == Durable!Spec
=============================================================================
