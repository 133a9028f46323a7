----------------------- MODULE StageRunLaunch_proofs -----------------------
(***************************************************************************)
(* Proofs about StageRunLaunch, for every set of callers, specs and        *)
(* outcomes and for every bound on runs and faults.                        *)
(***************************************************************************)
EXTENDS StageRunLaunch, TLAPS

\* A row exists before anybody works on it, and exactly then it has a spec.
RowFirst ==
  /\ row.status = "absent" <=> row.spec = NoSpec
  /\ latest # NoRun => row.status # "absent"
  /\ \A l \in Launchers : pc[l] # "idle" => row.status # "absent"

\* Temporal: run ids other than the first stay unused, the first is absent
\* exactly while there is no latest execution, and the projected quality cycle
\* carries the outcome of that one.
RunsInOrder ==
  /\ \A i \in RunIds : i # 1 => run[i].status = "absent"
  /\ latest = NoRun <=> run[1].status = "absent"
  /\ projected # NoOutcome => projected = run[1].outcome

\* What a caller read of Temporal is still true of the one execution when the
\* caller acts on it: the run id always, a terminal status as well.
SeenIsStable ==
  \A l \in Launchers :
    /\ pc[l] = "rpcDescribe" => latest = 1 /\ seen[l].run \in {NoRun, 1}
    /\ pc[l] \in {"persistStart", "persistClose", "record", "recordClose"} =>
         /\ latest = 1
         /\ seen[l].run = 1
         /\ seen[l].status \in Closings => run[1].status = seen[l].status
    /\ pc[l] \in {"persistClose", "recordClose"} =>
         seen[l].status \in Closings /\ row.status \in Bound

IInv ==
  /\ TypeOK
  /\ RowFirst
  /\ RunsInOrder
  /\ SeenIsStable
  /\ ExactlyOneExecution
  /\ ClosedOnItsOutcome
  /\ OneClaimant

-----------------------------------------------------------------------------
(* Types.  Each statement of the registry keeps the shape of a row; each      *)
(* action is then typed one group of variables at a time.                     *)

\* The UPDATE and INSERT statements of the registry keep a row a row.
LEMMA RowUpdates ==
  ASSUME NEW r \in Row
  PROVE  /\ \A s \in Specs : Registered(r, s) \in Row
         /\ \A id \in RunRef : Started(r, id) \in Row
         /\ \A st \in Decided \cup RunStatus : Closed(r, st) \in Row
         /\ Claimed(r) \in Row
         /\ StartFailed(r) \in Row
         /\ Expired(r) \in Row
<1>1. ASSUME NEW s \in Specs PROVE Registered(r, s) \in Row
  BY DEF Registered, Row, RowStatus
<1>2. ASSUME NEW id \in RunRef PROVE Started(r, id) \in Row
  BY DEF Started, Row, RowStatus, Decided, NoToken
<1>3. ASSUME NEW st \in Decided \cup RunStatus PROVE Closed(r, st) \in Row
  BY DEF Closed, Row, RowStatus, NoToken
<1>4. Claimed(r) \in Row
  <2>1. r.attempts + 1 \in Nat
    BY DEF Row
  <2> DEFINE next == r.attempts + 1
  <2>2. next \in Nat => [r EXCEPT !.status = "starting", !.claim = next, !.leased = TRUE,
                                   !.attempts = next] \in Row
    <3> HIDE DEF next
    <3> QED
      BY DEF Row, RowStatus
  <2> QED
    BY <2>1, <2>2 DEF Claimed
<1>5. StartFailed(r) \in Row
  BY DEF StartFailed, Row, RowStatus, NoToken
<1>6. Expired(r) \in Row
  BY DEF Expired, Row
<1> QED
  BY <1>1, <1>2, <1>3, <1>4, <1>5, <1>6

\* Returning to the caller, or going on to another statement, keeps the
\* callers typed.
LEMMA CallerMoves ==
  ASSUME CallersTyped, NEW l \in Launchers
  PROVE  /\ \A how \in Results : Return(l, how) => CallersTyped'
         /\ \A label \in Pc : Continue(l, label) => CallersTyped'
<1>1. NoReceipt \in Receipt /\ NoToken \in Nat /\ "idle" \in Pc
  BY DEF NoReceipt, Receipt, RunRef, NoRun, RunStatus, NoToken, Pc
<1>2. ASSUME NEW how \in Results, Return(l, how) PROVE CallersTyped'
  BY <1>1, <1>2 DEF CallersTyped, Return, Goto
<1>3. ASSUME NEW label \in Pc, Continue(l, label) PROVE CallersTyped'
  BY <1>3 DEF CallersTyped, Continue, Goto
<1> QED
  BY <1>2, <1>3

\* Reading a Temporal receipt keeps the callers typed.
LEMMA CallerReads ==
  ASSUME CallersTyped, NEW l \in Launchers, NEW label \in Pc, NEW rcpt \in Receipt,
         Goto(l, label), seen' = [seen EXCEPT ![l] = rcpt], UNCHANGED <<token, result>>
  PROVE  CallersTyped'
BY DEF CallersTyped, Goto

\* workflow.start keeps the executions typed and returns a run id or none.
LEMMA TemporalStartTyped ==
  ASSUME TemporalTyped
  PROVE  /\ TemporalStart => TemporalTyped'
         /\ StartHandle \in RunRef
<1> USE StageRunLaunchAssumption DEF TemporalTyped, RunRef, RunIds, NoRun
<1>1. "running" \in RunStatus /\ 1 \in RunIds
  BY DEF RunStatus
<1>2. CASE latest = NoRun
  <2>1. [run EXCEPT ![1].status = "running"] \in [RunIds -> Execution]
    BY <1>1 DEF Execution
  <2> QED
    BY <1>1, <1>2, <2>1 DEF TemporalStart, StartHandle
<1>3. CASE latest # NoRun
  BY <1>3 DEF TemporalStart, StartHandle, temporalVars
<1> QED
  BY <1>2, <1>3

\* Every step of the callers, of time and of Temporal keeps every variable
\* typed.
LEMMA TypeStep == TypeOK /\ [Next]_vars => TypeOK'
<1> SUFFICES ASSUME TypeOK, [Next]_vars PROVE TypeOK'
  OBVIOUS
<1>t. /\ row \in Row
      /\ TemporalTyped
      /\ CallersTyped
      /\ projected \in Decided
      /\ faults \in 0..MaxFaults
  BY DEF TypeOK
<1>p. ASSUME UNCHANGED temporalVars PROVE TemporalTyped'
  BY <1>t, <1>p DEF TemporalTyped, temporalVars
<1>c. ASSUME UNCHANGED callerVars PROVE CallersTyped'
  BY <1>t, <1>c DEF CallersTyped, callerVars
<1>f. ASSUME Fault PROVE faults' \in 0..MaxFaults
  BY <1>t, <1>f, StageRunLaunchAssumption DEF Fault
<1>s. ASSUME NEW l \in Launchers
      PROVE seen[l] \in Receipt /\ seen[l].run \in RunRef /\ seen[l].status \in RunStatus
  BY <1>t DEF CallersTyped, Receipt
<1>1. ASSUME NEW l \in Launchers, NEW s \in Specs, NEW start \in BOOLEAN,
             RegisterNew(l, s, start)
      PROVE TypeOK'
  <2>1. row' \in Row
    BY <1>1, <1>t, RowUpdates DEF RegisterNew
  <2>2. CallersTyped'
    BY <1>1, <1>t, CallerMoves DEF RegisterNew, Pc, Results
  <2> QED
    BY <1>1, <1>t, <1>p, <2>1, <2>2 DEF RegisterNew, TypeOK
<1>2. ASSUME NEW l \in Launchers, NEW start \in BOOLEAN, Replay(l, start) PROVE TypeOK'
  <2>1. AfterRegistration(row.status) \in Pc
    BY DEF AfterRegistration, Pc
  <2>2. CallersTyped'
    BY <1>2, <1>t, <2>1, CallerMoves DEF Replay, Results
  <2> QED
    BY <1>2, <1>t, <1>p, <2>2 DEF Replay, TypeOK
<1>3. ASSUME NEW l \in Launchers, NEW s \in Specs, SpecConflict(l, s) PROVE TypeOK'
  <2>1. CallersTyped'
    BY <1>3, <1>t, CallerMoves DEF SpecConflict, Results
  <2> QED
    BY <1>3, <1>t, <1>p, <2>1 DEF SpecConflict, TypeOK
<1>4. ASSUME NEW l \in Launchers, DescribeFound(l) PROVE TypeOK'
  <2>1. latest \in RunIds /\ run[latest].status \in RunStatus
    BY <1>4, <1>t DEF DescribeFound, TemporalTyped, RunRef, Execution
  <2>2. [run |-> latest, status |-> run[latest].status] \in Receipt
    BY <2>1 DEF Receipt, RunRef
  <2>3. CallersTyped'
    BY <1>4, <1>t, <2>2, CallerReads DEF DescribeFound, Pc
  <2> QED
    BY <1>4, <1>t, <1>p, <2>3 DEF DescribeFound, TypeOK
<1>5. ASSUME NEW l \in Launchers, DescribeNotFound(l) PROVE TypeOK'
  <2>1. CallersTyped'
    BY <1>5, <1>t, CallerMoves DEF DescribeNotFound, Pc
  <2> QED
    BY <1>5, <1>t, <1>p, <2>1 DEF DescribeNotFound, TypeOK
<1>6. ASSUME NEW l \in Launchers, DescribeUnavailable(l) PROVE TypeOK'
  <2>1. CallersTyped'
    BY <1>6, <1>t, CallerMoves DEF DescribeUnavailable, Pc, Results
  <2> QED
    BY <1>6, <1>t, <1>p, <1>f, <2>1 DEF DescribeUnavailable, TypeOK
<1>7. ASSUME NEW l \in Launchers, PersistStart(l) PROVE TypeOK'
  <2>1. row' \in Row
    BY <1>7, <1>t, <1>s, RowUpdates DEF PersistStart, BindExecution
  <2>2. CallersTyped'
    BY <1>7, <1>t, CallerMoves DEF PersistStart, Pc, Results
  <2> QED
    BY <1>7, <1>t, <1>p, <2>1, <2>2 DEF PersistStart, TypeOK
<1>8. ASSUME NEW l \in Launchers, PersistClose(l) PROVE TypeOK'
  <2>1. row' \in Row
    BY <1>8, <1>t, <1>s, RowUpdates DEF PersistClose, CloseRow
  <2>2. CallersTyped'
    BY <1>8, <1>t, CallerMoves DEF PersistClose, Results
  <2> QED
    BY <1>8, <1>t, <1>p, <2>1, <2>2 DEF PersistClose, TypeOK
<1>9. ASSUME NEW l \in Launchers, ClaimStart(l) PROVE TypeOK'
  <2>1. row' \in Row
    BY <1>9, <1>t, RowUpdates DEF ClaimStart
  <2>2. row'.claim \in Nat
    BY <2>1 DEF Row
  <2>3. CallersTyped'
    BY <1>9, <1>t, <2>2 DEF ClaimStart, CallersTyped, Goto, Pc
  <2> QED
    BY <1>9, <1>t, <1>p, <2>1, <2>3 DEF ClaimStart, TypeOK
<1>10. ASSUME NEW l \in Launchers, ClaimRefused(l) PROVE TypeOK'
  <2>1. CallersTyped'
    BY <1>10, <1>t, CallerMoves DEF ClaimRefused, Results
  <2> QED
    BY <1>10, <1>t, <1>p, <2>1 DEF ClaimRefused, TypeOK
<1>11. ASSUME NEW l \in Launchers, StartRpc(l) PROVE TypeOK'
  <2>1. TemporalTyped' /\ StartHandle \in RunRef
    BY <1>11, <1>t, TemporalStartTyped DEF StartRpc
  <2>2. [run |-> StartHandle, status |-> "absent"] \in Receipt
    BY <2>1 DEF Receipt, RunStatus
  <2>3. CallersTyped'
    BY <1>11, <1>t, <2>2, CallerReads DEF StartRpc, Pc
  <2> QED
    BY <1>11, <1>t, <2>1, <2>3 DEF StartRpc, TypeOK
<1>12. ASSUME NEW l \in Launchers, StartRpcFails(l) PROVE TypeOK'
  <2>1. TemporalTyped'
    BY <1>12, <1>t, <1>p, TemporalStartTyped DEF StartRpcFails
  <2>2. CallersTyped'
    BY <1>12, <1>t, CallerMoves DEF StartRpcFails, Pc
  <2> QED
    BY <1>12, <1>t, <1>f, <2>1, <2>2 DEF StartRpcFails, TypeOK
<1>13. ASSUME NEW l \in Launchers, StartDescribe(l) PROVE TypeOK'
  <2>1. latest \in RunIds /\ run[latest].status \in RunStatus
    BY <1>13, <1>t DEF StartDescribe, TemporalTyped, RunRef, Execution
  <2>2. [run    |-> IF seen[l].run = NoRun THEN latest ELSE seen[l].run,
         status |-> run[latest].status] \in Receipt
    BY <2>1, <1>s DEF Receipt, RunRef
  <2>3. CallersTyped'
    BY <1>13, <1>t, <2>2, CallerReads DEF StartDescribe, Pc
  <2> QED
    BY <1>13, <1>t, <1>p, <2>3 DEF StartDescribe, TypeOK
<1>14. ASSUME NEW l \in Launchers, StartDescribeFails(l) PROVE TypeOK'
  <2>1. CallersTyped'
    BY <1>14, <1>t, CallerMoves DEF StartDescribeFails, Pc
  <2> QED
    BY <1>14, <1>t, <1>p, <1>f, <2>1 DEF StartDescribeFails, TypeOK
<1>15. ASSUME NEW l \in Launchers, RecordStart(l) PROVE TypeOK'
  <2>1. row' \in Row
    BY <1>15, <1>t, <1>s, RowUpdates DEF RecordStart, BindExecution
  <2>2. CallersTyped'
    BY <1>15, <1>t, CallerMoves DEF RecordStart, Pc, Results
  <2> QED
    BY <1>15, <1>t, <1>p, <2>1, <2>2 DEF RecordStart, TypeOK
<1>16. ASSUME NEW l \in Launchers, RecordClose(l) PROVE TypeOK'
  <2>1. row' \in Row
    BY <1>16, <1>t, <1>s, RowUpdates DEF RecordClose, CloseRow
  <2>2. CallersTyped'
    BY <1>16, <1>t, CallerMoves DEF RecordClose, Pc, Results
  <2> QED
    BY <1>16, <1>t, <1>p, <2>1, <2>2 DEF RecordClose, TypeOK
<1>17. ASSUME NEW l \in Launchers, StartFailure(l) PROVE TypeOK'
  <2>1. row' \in Row
    BY <1>17, <1>t, RowUpdates DEF StartFailure
  <2>2. CallersTyped'
    BY <1>17, <1>t, CallerMoves DEF StartFailure, Results
  <2> QED
    BY <1>17, <1>t, <1>p, <2>1, <2>2 DEF StartFailure, TypeOK
<1>18. ASSUME NEW l \in Launchers, Crash(l) PROVE TypeOK'
  <2>1. CallersTyped'
    BY <1>18, <1>t, CallerMoves DEF Crash, Results
  <2> QED
    BY <1>18, <1>t, <1>p, <1>f, <2>1 DEF Crash, TypeOK
<1>19. ASSUME LeaseExpires PROVE TypeOK'
  <2>1. row' \in Row
    BY <1>19, <1>t, RowUpdates DEF LeaseExpires
  <2>2. faults' \in 0..MaxFaults
    BY <1>19, <1>t, <1>f DEF LeaseExpires
  <2> QED
    BY <1>19, <1>t, <1>p, <1>c, <2>1, <2>2 DEF LeaseExpires, TypeOK
<1>20. ASSUME NEW i \in RunIds, NEW outcome \in Outcomes, Terminalize(i, outcome)
       PROVE TypeOK'
  <2>1. TemporalTyped'
    BY <1>20, <1>t DEF Terminalize, TemporalTyped, Execution, Decided
  <2> QED
    BY <1>20, <1>t, <1>c, <2>1 DEF Terminalize, TypeOK
<1>21. ASSUME NEW i \in RunIds, ProjectCycle(i) PROVE TypeOK'
  <2>1. run[i].outcome \in Decided
    BY <1>t DEF TemporalTyped, Execution
  <2> QED
    BY <1>21, <1>t, <1>c, <1>p, <2>1 DEF ProjectCycle, TypeOK
<1>22. ASSUME CloseFromProjection PROVE TypeOK'
  <2>1. row' \in Row
    BY <1>22, <1>t, RowUpdates DEF CloseFromProjection
  <2> QED
    BY <1>22, <1>t, <1>c, <1>p, <2>1 DEF CloseFromProjection, TypeOK
<1>23. ASSUME NEW i \in RunIds, WorkflowCompletes(i) \/ WorkflowFails(i) PROVE TypeOK'
  <2>1. TemporalTyped'
    BY <1>23, <1>t DEF WorkflowCompletes, WorkflowFails, TemporalTyped, Execution, RunStatus,
       Closings
  <2> QED
    BY <1>23, <1>t, <1>c, <2>1 DEF WorkflowCompletes, WorkflowFails, TypeOK
<1>24. CASE UNCHANGED vars
  BY <1>24, <1>t, <1>p, <1>c DEF vars, temporalVars, callerVars, TypeOK
<1> QED
  BY <1>1, <1>2, <1>3, <1>4, <1>5, <1>6, <1>7, <1>8, <1>9, <1>10, <1>11, <1>12, <1>13, <1>14,
     <1>15, <1>16, <1>17, <1>18, <1>19, <1>20, <1>21, <1>22, <1>23, <1>24
  DEF Next, Register, CallerStep, CallerFault, WorkflowStep

LEMMA TypeInit == Init => TypeOK
<1> SUFFICES ASSUME Init PROVE TypeOK
  OBVIOUS
<1>1. row \in Row
  BY DEF Init, Row, RowStatus, NoToken, RunRef, NoRun, Decided
<1>2. TemporalTyped
  BY DEF Init, TemporalTyped, Execution, RunStatus, Decided, RunRef
<1>3. CallersTyped
  BY DEF Init, CallersTyped, Pc, NoToken, NoReceipt, Receipt, RunRef, RunStatus, Results
<1> QED
  BY <1>1, <1>2, <1>3, StageRunLaunchAssumption DEF Init, TypeOK, Decided

\* Whatever the callers, retries, crashes and lost answers, a row of
\* stage_run_launches, a Temporal receipt and the state of a caller keep the
\* shape launchRegisteredStageRun relies on.
THEOREM TypeCorrect == Spec => []TypeOK
<1>1. Init => TypeOK
  BY TypeInit
<1>2. TypeOK /\ [Next]_vars => TypeOK'
  BY TypeStep
<1> QED
  BY <1>1, <1>2, PTL DEF Spec
-----------------------------------------------------------------------------
(* The inductive invariant, one action at a time.                              *)

\* The shapes TypeOK stands for, unfolded for the provers.
LEMMA Shape ==
  ASSUME TypeOK
  PROVE  /\ row \in [status: RowStatus, spec: Specs \cup {NoSpec}, claim: Nat, leased: BOOLEAN,
                     attempts: Nat, receipt: RunRef, terminal: Decided \cup RunStatus]
         /\ run \in [RunIds -> [status: RunStatus, outcome: Decided]]
         /\ latest \in RunRef
         /\ pc \in [Launchers -> Pc]
         /\ token \in [Launchers -> Nat]
         /\ seen \in [Launchers -> [run: RunRef, status: RunStatus]]
         /\ 1 \in RunIds
BY StageRunLaunchAssumption
   DEF TypeOK, Row, TemporalTyped, CallersTyped, Execution, Receipt, RunIds

\* Where a caller goes when all it did was read, give up or die.
Leaves(l) ==
  \/ \E how \in Results : Return(l, how)
  \/ \E label \in {"describeStarted", "describeStarting", "claim"} : Continue(l, label)
  \/ pc[l] \in InStart /\ Continue(l, "startFailure")

\* A caller that leaves no trace in the row or in Temporal disturbs nothing:
\* its token and what it read go with it.
LEMMA LeavesNoTrace ==
  ASSUME IInv, TypeOK', NEW l \in Launchers, row.status # "absent", Leaves(l),
         UNCHANGED <<row, temporalVars, projected>>
  PROVE  IInv'
<1>t. TypeOK
  BY DEF IInv
<1> USE <1>t, Shape DEF IInv, NoRun, NoToken, Closings, temporalVars
<1>1. RowFirst'
  BY DEF RowFirst, Leaves, Return, Continue, Goto
<1>2. RunsInOrder' /\ ExactlyOneExecution' /\ ClosedOnItsOutcome'
  BY DEF RunsInOrder, ExactlyOneExecution, ClosedOnItsOutcome, Bound
<1>3. SeenIsStable'
  BY DEF SeenIsStable, Leaves, Return, Continue, Goto, Bound
<1>4. OneClaimant'
  <2>1. \A m \in Launchers : pc'[m] \in InStart => pc[m] \in InStart /\ token'[m] = token[m]
    BY DEF Leaves, Return, Continue, Goto, InStart
  <2> QED
    BY <2>1 DEF OneClaimant
<1> QED
  BY <1>1, <1>2, <1>3, <1>4

\* A caller that recorded or closed the row: it has read the one execution
\* there is, so it meets no identity conflict.
LEMMA ReadTheOneExecution ==
  ASSUME IInv, NEW l \in Launchers,
         pc[l] \in {"persistStart", "persistClose", "record", "recordClose"}
  PROVE  /\ ~IdentityConflict(seen[l].run)
         /\ latest = 1 /\ seen[l].run = 1
         /\ row.status # "absent"
         /\ seen[l].status \in Closings => run[1].status = seen[l].status
BY DEF IInv, SeenIsStable, ExactlyOneExecution, IdentityConflict, RowFirst, NoRun

\* The effect on the row of recording that execution.
LEMMA BindsTheOneExecution ==
  ASSUME IInv, row.status # "absent", latest = 1, BindExecution(1)
  PROVE  /\ row'.status \in Bound /\ row'.receipt = 1 /\ row'.spec = row.spec
         /\ row'.attempts = row.attempts
         /\ row'.status = "closed" => row' = row
<1>t. TypeOK
  BY DEF IInv
<1> QED
  BY <1>t, Shape DEF IInv, BindExecution, Started, ExactlyOneExecution, Bound, NoRun

\* The effect on the row of closing it.
LEMMA ClosesTheRow ==
  ASSUME IInv, row.status \in Bound, NEW st \in Decided \cup RunStatus, CloseRow(st)
  PROVE  /\ row'.status = "closed" /\ row'.receipt = row.receipt /\ row'.spec = row.spec
         /\ row'.attempts = row.attempts
         /\ IF row.status = "closed" THEN row' = row ELSE row'.terminal = st
<1>t. TypeOK
  BY DEF IInv
<1> QED
  BY <1>t, Shape DEF CloseRow, Closed, Bound

\* The caller's side of recording a start: it returns, or goes on to close with
\* a terminal status it read.
LEMMA AfterRecording ==
  ASSUME IInv, TypeOK', NEW l \in Launchers,
         NEW from \in {"persistStart", "record"}, NEW to \in {"persistClose", "recordClose"},
         pc[l] = from, from = "persistStart" => to = "persistClose",
         BindExecution(seen[l].run),
         IF seen[l].status \in Closings THEN Continue(l, to) ELSE Return(l, "returned"),
         UNCHANGED <<temporalVars, projected>>,
         to = "recordClose" => pc[l] \in InStart
  PROVE  IInv'
<1>t. TypeOK
  BY DEF IInv
<1>r. /\ latest = 1 /\ seen[l].run = 1 /\ row.status # "absent"
      /\ seen[l].status \in Closings => run[1].status = seen[l].status
  BY ReadTheOneExecution
<1>b. /\ row'.status \in Bound /\ row'.receipt = 1 /\ row'.spec = row.spec
      /\ row'.attempts = row.attempts
      /\ row'.status = "closed" => row' = row
  BY <1>r, BindsTheOneExecution
<1> USE <1>t, <1>r, <1>b, Shape DEF IInv, NoRun, NoToken, Closings, Bound, temporalVars
<1>1. RowFirst'
  BY DEF RowFirst, Return, Continue, Goto
<1>2. RunsInOrder' /\ ExactlyOneExecution'
  BY DEF RunsInOrder, ExactlyOneExecution
<1>3. ClosedOnItsOutcome'
  BY DEF ClosedOnItsOutcome
<1>4. SeenIsStable'
  <2>1. CASE Return(l, "returned")
    BY <2>1 DEF SeenIsStable, Return, Goto
  <2>2. CASE seen[l].status \in Closings /\ Continue(l, to)
    BY <2>2 DEF SeenIsStable, Continue, Goto
  <2> QED
    BY <2>1, <2>2
<1>5. OneClaimant'
  <2>1. \A m \in Launchers : pc'[m] \in InStart => pc[m] \in InStart /\ token'[m] = token[m]
    BY DEF Return, Continue, Goto, InStart
  <2> QED
    BY <2>1 DEF OneClaimant
<1> QED
  BY <1>1, <1>2, <1>3, <1>4, <1>5

\* Closing the row with the terminal status the caller read.
LEMMA AfterClosing ==
  ASSUME IInv, TypeOK', NEW l \in Launchers, pc[l] \in {"persistClose", "recordClose"},
         CloseRow(seen[l].status), Return(l, "returned"),
         UNCHANGED <<temporalVars, projected>>
  PROVE  IInv'
<1>t. TypeOK
  BY DEF IInv
<1>r. /\ latest = 1 /\ seen[l].status \in Closings /\ run[1].status = seen[l].status
      /\ row.status \in Bound /\ row.receipt = 1
  BY ReadTheOneExecution DEF IInv, SeenIsStable, ExactlyOneExecution, NoRun
<1>b. /\ row'.status = "closed" /\ row'.receipt = row.receipt /\ row'.spec = row.spec
      /\ row'.attempts = row.attempts
      /\ IF row.status = "closed" THEN row' = row ELSE row'.terminal = seen[l].status
  BY <1>r, ClosesTheRow DEF RunStatus
<1> USE <1>t, <1>r, <1>b, Shape DEF IInv, NoRun, NoToken, Closings, Bound, temporalVars
<1>1. RowFirst'
  BY DEF RowFirst, Return, Goto
<1>2. RunsInOrder' /\ ExactlyOneExecution'
  BY DEF RunsInOrder, ExactlyOneExecution
<1>3. ClosedOnItsOutcome'
  BY DEF ClosedOnItsOutcome
<1>4. SeenIsStable'
  BY DEF SeenIsStable, Return, Goto
<1>5. OneClaimant'
  <2>1. \A m \in Launchers : pc'[m] \in InStart => pc[m] \in InStart /\ token'[m] = token[m]
    BY DEF Return, Goto, InStart
  <2> QED
    BY <2>1 DEF OneClaimant
<1> QED
  BY <1>1, <1>2, <1>3, <1>4, <1>5

LEMMA InductiveStep == IInv /\ TypeOK' /\ [Next]_vars => IInv'
<1> SUFFICES ASSUME IInv, TypeOK', [Next]_vars PROVE IInv'
  OBVIOUS
<1>t. TypeOK
  BY DEF IInv
<1> USE <1>t, Shape, StageRunLaunchAssumption
    DEF IInv, Bound, NoRun, NoToken, Closings, temporalVars, callerVars
<1>1. ASSUME NEW l \in Launchers, NEW s \in Specs, NEW start \in BOOLEAN,
             RegisterNew(l, s, start)
      PROVE IInv'
  <2>1. RowFirst'
    BY <1>1 DEF RowFirst, RegisterNew, Registered
  <2>2. RunsInOrder'
    BY <1>1 DEF RunsInOrder, RegisterNew
  <2>3. SeenIsStable'
    BY <1>1 DEF SeenIsStable, RegisterNew, Continue, Return, Goto
  <2>4. ExactlyOneExecution'
    BY <1>1 DEF ExactlyOneExecution, RegisterNew, Registered
  <2>5. ClosedOnItsOutcome'
    BY <1>1 DEF ClosedOnItsOutcome, RegisterNew, Registered
  <2>6. OneClaimant'
    BY <1>1 DEF OneClaimant, InStart, RegisterNew, Registered, Continue, Return, Goto
  <2> QED
    BY <2>1, <2>2, <2>3, <2>4, <2>5, <2>6
<1>2. ASSUME NEW l \in Launchers, NEW start \in BOOLEAN, Replay(l, start)
      PROVE IInv'
  <2>1. Leaves(l) /\ row.status # "absent" /\ UNCHANGED <<row, temporalVars, projected>>
    BY <1>2 DEF Leaves, Results, Replay, AfterRegistration
  <2> QED
    BY <2>1, LeavesNoTrace
<1>3. ASSUME NEW l \in Launchers, NEW s \in Specs, SpecConflict(l, s)
      PROVE IInv'
  <2>1. Leaves(l) /\ row.status # "absent" /\ UNCHANGED <<row, temporalVars, projected>>
    BY <1>3 DEF Leaves, Results, SpecConflict
  <2> QED
    BY <2>1, LeavesNoTrace
<1>4. ASSUME NEW l \in Launchers, DescribeFound(l)
      PROVE IInv'
  <2>1. RowFirst'
    BY <1>4 DEF RowFirst, DescribeFound
  <2>2. RunsInOrder'
    BY <1>4 DEF RunsInOrder, DescribeFound
  <2>3. SeenIsStable'
    BY <1>4 DEF SeenIsStable, ExactlyOneExecution, DescribeFound, Goto
  <2>4. ExactlyOneExecution'
    BY <1>4 DEF ExactlyOneExecution, DescribeFound
  <2>5. ClosedOnItsOutcome'
    BY <1>4 DEF ClosedOnItsOutcome, DescribeFound
  <2>6. OneClaimant'
    BY <1>4 DEF OneClaimant, InStart, DescribeFound, Goto
  <2> QED
    BY <2>1, <2>2, <2>3, <2>4, <2>5, <2>6
<1>5. ASSUME NEW l \in Launchers, DescribeNotFound(l)
      PROVE IInv'
  <2>1. Leaves(l) /\ row.status # "absent" /\ UNCHANGED <<row, temporalVars, projected>>
    BY <1>5 DEF Leaves, DescribeNotFound, Describing, RowFirst
  <2> QED
    BY <2>1, LeavesNoTrace
<1>6. ASSUME NEW l \in Launchers, DescribeUnavailable(l)
      PROVE IInv'
  <2>1. Leaves(l) /\ row.status # "absent" /\ UNCHANGED <<row, temporalVars, projected>>
    BY <1>6 DEF Leaves, Results, DescribeUnavailable, Describing, RowFirst
  <2> QED
    BY <2>1, LeavesNoTrace
<1>7. ASSUME NEW l \in Launchers, PersistStart(l)
      PROVE IInv'
  BY <1>7, ReadTheOneExecution, AfterRecording DEF PersistStart
<1>8. ASSUME NEW l \in Launchers, PersistClose(l)
      PROVE IInv'
  <2>1. CASE TerminalConflict(seen[l].status)
    <3>1. Leaves(l) /\ row.status # "absent" /\ UNCHANGED <<row, temporalVars, projected>>
      BY <1>8, <2>1 DEF PersistClose, TerminalConflict, Leaves, Results
    <3> QED
      BY <3>1, LeavesNoTrace
  <2>2. CASE ~TerminalConflict(seen[l].status)
    BY <1>8, <2>2, AfterClosing DEF PersistClose
  <2> QED
    BY <2>1, <2>2
<1>9. ASSUME NEW l \in Launchers, ClaimStart(l)
      PROVE IInv'
  <2>1. RowFirst'
    BY <1>9 DEF RowFirst, ClaimStart, Claimed
  <2>2. RunsInOrder'
    BY <1>9 DEF RunsInOrder, ClaimStart
  <2>3. SeenIsStable'
    BY <1>9 DEF SeenIsStable, ClaimStart, Claimable, Goto
  <2>4. ExactlyOneExecution'
    BY <1>9 DEF ExactlyOneExecution, ClaimStart, Claimable, Claimed
  <2>5. ClosedOnItsOutcome'
    BY <1>9 DEF ClosedOnItsOutcome, ClaimStart, Claimed
  <2>6. OneClaimant'
    BY <1>9 DEF OneClaimant, ClaimStart, Claimed, Goto
  <2> QED
    BY <2>1, <2>2, <2>3, <2>4, <2>5, <2>6
<1>10. ASSUME NEW l \in Launchers, ClaimRefused(l)
      PROVE IInv'
  <2>1. Leaves(l) /\ row.status # "absent" /\ UNCHANGED <<row, temporalVars, projected>>
    BY <1>10 DEF Leaves, Results, ClaimRefused, RowFirst
  <2> QED
    BY <2>1, LeavesNoTrace
<1>11. ASSUME NEW l \in Launchers, StartRpc(l)
      PROVE IInv'
  <2>1. RowFirst'
    BY <1>11 DEF RowFirst, StartRpc
  <2>2. RunsInOrder'
    BY <1>11 DEF RunsInOrder, StartRpc, TemporalStart
  <2>3. SeenIsStable'
    BY <1>11 DEF SeenIsStable, ExactlyOneExecution, StartRpc, TemporalStart, StartHandle, Goto
  <2>4. ExactlyOneExecution'
    BY <1>11 DEF ExactlyOneExecution, StartRpc, TemporalStart
  <2>5. ClosedOnItsOutcome'
    BY <1>11 DEF ClosedOnItsOutcome, ExactlyOneExecution, StartRpc, TemporalStart
  <2>6. OneClaimant'
    BY <1>11 DEF OneClaimant, InStart, StartRpc, Goto
  <2> QED
    BY <2>1, <2>2, <2>3, <2>4, <2>5, <2>6
<1>12. ASSUME NEW l \in Launchers, StartRpcFails(l)
      PROVE IInv'
  <2>1. RowFirst'
    BY <1>12 DEF RowFirst, StartRpcFails
  <2>2. RunsInOrder'
    BY <1>12 DEF RunsInOrder, StartRpcFails, TemporalStart
  <2>3. SeenIsStable'
    BY <1>12 DEF SeenIsStable, StartRpcFails, TemporalStart, Continue, Goto
  <2>4. ExactlyOneExecution'
    BY <1>12 DEF ExactlyOneExecution, StartRpcFails, TemporalStart
  <2>5. ClosedOnItsOutcome'
    BY <1>12 DEF ClosedOnItsOutcome, ExactlyOneExecution, StartRpcFails, TemporalStart
  <2>6. OneClaimant'
    BY <1>12 DEF OneClaimant, InStart, StartRpcFails, Continue, Goto
  <2> QED
    BY <2>1, <2>2, <2>3, <2>4, <2>5, <2>6
<1>13. ASSUME NEW l \in Launchers, StartDescribe(l)
      PROVE IInv'
  <2>1. RowFirst'
    BY <1>13 DEF RowFirst, StartDescribe
  <2>2. RunsInOrder'
    BY <1>13 DEF RunsInOrder, StartDescribe
  <2>3. SeenIsStable'
    BY <1>13 DEF SeenIsStable, StartDescribe, Goto
  <2>4. ExactlyOneExecution'
    BY <1>13 DEF ExactlyOneExecution, StartDescribe
  <2>5. ClosedOnItsOutcome'
    BY <1>13 DEF ClosedOnItsOutcome, StartDescribe
  <2>6. OneClaimant'
    BY <1>13 DEF OneClaimant, InStart, StartDescribe, Goto
  <2> QED
    BY <2>1, <2>2, <2>3, <2>4, <2>5, <2>6
<1>14. ASSUME NEW l \in Launchers, StartDescribeFails(l)
      PROVE IInv'
  <2>1. Leaves(l) /\ row.status # "absent" /\ UNCHANGED <<row, temporalVars, projected>>
    BY <1>14 DEF Leaves, StartDescribeFails, InStart, RowFirst
  <2> QED
    BY <2>1, LeavesNoTrace
<1>15. ASSUME NEW l \in Launchers, RecordStart(l)
      PROVE IInv'
  BY <1>15, ReadTheOneExecution, AfterRecording DEF RecordStart, InStart
<1>16. ASSUME NEW l \in Launchers, RecordClose(l)
      PROVE IInv'
  <2>1. CASE TerminalConflict(seen[l].status)
    <3>1. Leaves(l) /\ row.status # "absent" /\ UNCHANGED <<row, temporalVars, projected>>
      BY <1>16, <2>1 DEF RecordClose, TerminalConflict, Leaves, InStart
    <3> QED
      BY <3>1, LeavesNoTrace
  <2>2. CASE ~TerminalConflict(seen[l].status)
    BY <1>16, <2>2, AfterClosing DEF RecordClose
  <2> QED
    BY <2>1, <2>2
<1>17. ASSUME NEW l \in Launchers, StartFailure(l)
      PROVE IInv'
  <2>1. RowFirst'
    BY <1>17 DEF RowFirst, StartFailure, StartFailed
  <2>2. RunsInOrder'
    BY <1>17 DEF RunsInOrder, StartFailure
  <2>3. SeenIsStable'
    BY <1>17 DEF SeenIsStable, StartFailure, HoldsClaim, Return, Goto
  <2>4. ExactlyOneExecution'
    BY <1>17 DEF ExactlyOneExecution, StartFailure, HoldsClaim, StartFailed
  <2>5. ClosedOnItsOutcome'
    BY <1>17 DEF ClosedOnItsOutcome, StartFailure, StartFailed
  <2>6. OneClaimant'
    BY <1>17 DEF OneClaimant, InStart, StartFailure, StartFailed, Return, Goto
  <2> QED
    BY <2>1, <2>2, <2>3, <2>4, <2>5, <2>6
<1>18. ASSUME NEW l \in Launchers, Crash(l)
      PROVE IInv'
  <2>1. Leaves(l) /\ row.status # "absent" /\ UNCHANGED <<row, temporalVars, projected>>
    BY <1>18 DEF Leaves, Results, Crash, RowFirst
  <2> QED
    BY <2>1, LeavesNoTrace
<1>19. ASSUME LeaseExpires
      PROVE IInv'
  <2>1. RowFirst'
    BY <1>19 DEF RowFirst, LeaseExpires, Expired
  <2>2. RunsInOrder'
    BY <1>19 DEF RunsInOrder, LeaseExpires
  <2>3. SeenIsStable'
    BY <1>19 DEF SeenIsStable, LeaseExpires
  <2>4. ExactlyOneExecution'
    BY <1>19 DEF ExactlyOneExecution, LeaseExpires, Expired
  <2>5. ClosedOnItsOutcome'
    BY <1>19 DEF ClosedOnItsOutcome, LeaseExpires, Expired
  <2>6. OneClaimant'
    BY <1>19 DEF OneClaimant, LeaseExpires, Expired
  <2> QED
    BY <2>1, <2>2, <2>3, <2>4, <2>5, <2>6
<1>20. ASSUME NEW i \in RunIds, NEW outcome \in Outcomes, Terminalize(i, outcome)
      PROVE IInv'
  <2>1. RowFirst'
    BY <1>20 DEF RowFirst, Terminalize
  <2>2. RunsInOrder'
    BY <1>20 DEF RunsInOrder, Terminalize
  <2>3. SeenIsStable'
    BY <1>20 DEF SeenIsStable, Terminalize
  <2>4. ExactlyOneExecution'
    BY <1>20 DEF ExactlyOneExecution, Terminalize
  <2>5. ClosedOnItsOutcome'
    BY <1>20 DEF ClosedOnItsOutcome, Terminalize
  <2>6. OneClaimant'
    BY <1>20 DEF OneClaimant, Terminalize
  <2> QED
    BY <2>1, <2>2, <2>3, <2>4, <2>5, <2>6
<1>21. ASSUME NEW i \in RunIds, ProjectCycle(i)
      PROVE IInv'
  <2>1. RowFirst'
    BY <1>21 DEF RowFirst, ProjectCycle
  <2>2. RunsInOrder'
    BY <1>21 DEF RunsInOrder, ProjectCycle, Running
  <2>3. SeenIsStable'
    BY <1>21 DEF SeenIsStable, ProjectCycle
  <2>4. ExactlyOneExecution'
    BY <1>21 DEF ExactlyOneExecution, ProjectCycle
  <2>5. ClosedOnItsOutcome'
    BY <1>21 DEF ClosedOnItsOutcome, RunsInOrder, ProjectCycle, Running
  <2>6. OneClaimant'
    BY <1>21 DEF OneClaimant, ProjectCycle
  <2> QED
    BY <2>1, <2>2, <2>3, <2>4, <2>5, <2>6
<1>22. ASSUME CloseFromProjection
      PROVE IInv'
  <2>1. RowFirst'
    BY <1>22 DEF RowFirst, CloseFromProjection, Closed
  <2>2. RunsInOrder'
    BY <1>22 DEF RunsInOrder, CloseFromProjection
  <2>3. SeenIsStable'
    BY <1>22 DEF SeenIsStable, CloseFromProjection, Closed
  <2>4. ExactlyOneExecution'
    BY <1>22 DEF ExactlyOneExecution, CloseFromProjection, Closed
  <2>5. ClosedOnItsOutcome'
    BY <1>22 DEF ClosedOnItsOutcome, ExactlyOneExecution, RunsInOrder, CloseFromProjection, Closed
  <2>6. OneClaimant'
    BY <1>22 DEF OneClaimant, CloseFromProjection, Closed
  <2> QED
    BY <2>1, <2>2, <2>3, <2>4, <2>5, <2>6
<1>23. ASSUME NEW i \in RunIds, WorkflowCompletes(i) \/ WorkflowFails(i)
      PROVE IInv'
  <2>1. RowFirst'
    BY <1>23 DEF RowFirst, WorkflowCompletes, WorkflowFails
  <2>2. RunsInOrder'
    BY <1>23 DEF RunsInOrder, WorkflowCompletes, WorkflowFails, Running
  <2>3. SeenIsStable'
    BY <1>23 DEF SeenIsStable, RunsInOrder, WorkflowCompletes, WorkflowFails, Running
  <2>4. ExactlyOneExecution'
    BY <1>23 DEF ExactlyOneExecution, WorkflowCompletes, WorkflowFails
  <2>5. ClosedOnItsOutcome'
    BY <1>23 DEF ClosedOnItsOutcome, ExactlyOneExecution, WorkflowCompletes, WorkflowFails, Running
  <2>6. OneClaimant'
    BY <1>23 DEF OneClaimant, WorkflowCompletes, WorkflowFails
  <2> QED
    BY <2>1, <2>2, <2>3, <2>4, <2>5, <2>6
<1>24. CASE UNCHANGED vars
  BY <1>24 DEF vars, RowFirst, RunsInOrder, SeenIsStable, ExactlyOneExecution, ClosedOnItsOutcome,
     OneClaimant
<1> QED
  BY <1>1, <1>2, <1>3, <1>4, <1>5, <1>6, <1>7, <1>8, <1>9, <1>10, <1>11, <1>12, <1>13, <1>14,
     <1>15, <1>16, <1>17, <1>18, <1>19, <1>20, <1>21, <1>22, <1>23, <1>24
  DEF Next, Register, CallerStep, CallerFault, WorkflowStep

\* For every set of callers and any number of faults: one execution, closed on
\* its outcome, one claimant.
THEOREM InductiveInvariant == Spec => []IInv
<1>1. Init => IInv
  <2> SUFFICES ASSUME Init PROVE IInv
    OBVIOUS
  <2>1. TypeOK
    BY TypeInit
  <2>2. 1 \in RunIds
    BY StageRunLaunchAssumption DEF RunIds
  <2>3. RowFirst /\ RunsInOrder /\ SeenIsStable
    BY <2>2, StageRunLaunchAssumption DEF Init, RowFirst, RunsInOrder, SeenIsStable, NoRun
  <2>4. ExactlyOneExecution /\ ClosedOnItsOutcome /\ OneClaimant
    BY DEF Init, ExactlyOneExecution, ClosedOnItsOutcome, OneClaimant, Bound, InStart, NoRun
  <2> QED
    BY <2>1, <2>3, <2>4 DEF IInv
<1>2. IInv /\ [Next]_vars => IInv'
  <2> SUFFICES ASSUME IInv, [Next]_vars PROVE IInv'
    OBVIOUS
  <2>1. TypeOK'
    BY TypeStep DEF IInv
  <2> QED
    BY <2>1, InductiveStep
<1> QED
  BY <1>1, <1>2, PTL DEF Spec

\* "Exactly one execution": retries, lost answers and rival callers never give
\* the workflow id a second execution.
THEOREM OneExecution == Spec => []ExactlyOneExecution
<1>1. IInv => ExactlyOneExecution
  BY DEF IInv
<1> QED
  BY <1>1, InductiveInvariant, PTL

\* recordStageRunClosed closes a row with the outcome of its own execution only.
THEOREM ClosesOnOutcome == Spec => []ClosedOnItsOutcome
<1>1. IInv => ClosedOnItsOutcome
  BY DEF IInv
<1> QED
  BY <1>1, InductiveInvariant, PTL

\* claimStageRunStart hands every caller a claim of its own.
THEOREM OneClaim == Spec => []OneClaimant
<1>1. IInv => OneClaimant
  BY DEF IInv
<1> QED
  BY <1>1, InductiveInvariant, PTL

-----------------------------------------------------------------------------
(* What no step may do, from the inductive invariant.                         *)

\* No step changes the row except as listed here.
LEMMA RowSteps ==
  ASSUME IInv, Next
  PROVE  \/ UNCHANGED row
         \/ row.status = "absent" /\ \E s \in Specs : row' = Registered(row, s)
         \/ row.status \notin Bound /\ row' = Started(row, 1)
         \/ row.status = "started" /\ \E st \in Decided \cup RunStatus : row' = Closed(row, st)
         \/ Claimable /\ row' = Claimed(row)
         \/ \E l \in Launchers : /\ pc[l] = "startFailure" /\ pc'[l] = "idle"
                                 /\ HoldsClaim(l) /\ row' = StartFailed(row)
         \/ row.status = "starting" /\ row' = Expired(row)
<1>t. TypeOK /\ TypeOK'
  BY TypeStep DEF IInv
<1>1. ASSUME NEW l \in Launchers, NEW s \in Specs, NEW start \in BOOLEAN, Register(l, s, start)
      PROVE \/ UNCHANGED row
            \/ row.status = "absent" /\ row' = Registered(row, s)
  BY <1>1 DEF Register, RegisterNew, Replay, SpecConflict
<1>2. ASSUME NEW l \in Launchers, PersistStart(l) \/ RecordStart(l)
      PROVE \/ UNCHANGED row
            \/ row.status \notin Bound /\ row' = Started(row, 1)
  <2>1. seen[l].run = 1
    BY <1>2, ReadTheOneExecution DEF PersistStart, RecordStart
  <2> QED
    BY <1>2, <2>1 DEF PersistStart, RecordStart, BindExecution
<1>3. ASSUME NEW l \in Launchers, PersistClose(l) \/ RecordClose(l)
      PROVE \/ UNCHANGED row
            \/ row.status = "started" /\ row' = Closed(row, seen[l].status)
  BY <1>3 DEF IInv, PersistClose, RecordClose, CloseRow, SeenIsStable, Bound
<1>4. ASSUME NEW l \in Launchers, StartFailure(l)
      PROVE \/ UNCHANGED row
            \/ /\ pc[l] = "startFailure" /\ pc'[l] = "idle"
               /\ HoldsClaim(l) /\ row' = StartFailed(row)
  BY <1>4, <1>t, Shape DEF StartFailure, Return, Goto
<1>5. ASSUME NEW l \in Launchers
      PROVE seen[l].status \in Decided \cup RunStatus
  BY <1>t, Shape
<1>6. projected \in Decided
  BY <1>t DEF TypeOK
<1> QED
  BY <1>1, <1>2, <1>3, <1>4, <1>5, <1>6
  DEF Next, CallerStep, CallerFault, WorkflowStep, DescribeFound, DescribeNotFound,
      DescribeUnavailable, ClaimStart, ClaimRefused, StartRpc, StartRpcFails, StartDescribe,
      StartDescribeFails, Crash, LeaseExpires, Terminalize, ProjectCycle, CloseFromProjection,
      WorkflowCompletes, WorkflowFails

\* "started never degrades, closed is final", whoever writes to the row and
\* however late: late claims, failure reports and receipts included.
THEOREM StartedStays == Spec => NeverDegrades
<1>1. IInv /\ [Next]_vars =>
        [/\ row.status = "started" => row'.status \in Bound /\ row'.receipt = row.receipt
         /\ row.status = "closed" => row' = row]_vars
  <2> SUFFICES ASSUME IInv, Next
               PROVE /\ row.status = "started" =>
                          row'.status \in Bound /\ row'.receipt = row.receipt
                     /\ row.status = "closed" => row' = row
    OBVIOUS
  <2>1. TypeOK
    BY DEF IInv
  <2> QED
    BY <2>1, RowSteps, Shape DEF Bound, Closed, Claimable, HoldsClaim
<1> QED
  BY <1>1, InductiveInvariant, PTL DEF Spec, NeverDegrades

\* The claim token is the compare-and-swap that protects a live lease: neither
\* a rival claim nor the failure report of a caller whose lease ran out ends it.
THEOREM LiveLeaseStays == Spec => ClaimProtected
<1> DEFINE Protected ==
      \A l \in Launchers :
        pc[l] \in InStart /\ HoldsClaim(l) /\ row.leased =>
          \/ row'.status = "starting" /\ row'.claim = row.claim
          \/ row'.status \in Bound
          \/ pc[l] = "startFailure" /\ pc'[l] = "idle"
<1>1. IInv /\ [Next]_vars => [Protected]_vars
  <2> SUFFICES ASSUME IInv, Next, NEW l \in Launchers,
                      pc[l] \in InStart, HoldsClaim(l), row.leased
               PROVE \/ row'.status = "starting" /\ row'.claim = row.claim
                     \/ row'.status \in Bound
                     \/ pc[l] = "startFailure" /\ pc'[l] = "idle"
    OBVIOUS
  <2>t. TypeOK
    BY DEF IInv
  <2>1. ASSUME NEW m \in Launchers, pc[m] = "startFailure", HoldsClaim(m) PROVE m = l
    BY <2>1 DEF IInv, OneClaimant, HoldsClaim, InStart
  <2> QED
    BY <2>t, <2>1, RowSteps, Shape DEF HoldsClaim, Started, Closed, Claimable, Expired, Bound
<1> QED
  BY <1>1, InductiveInvariant, PTL DEF Spec, ClaimProtected

-----------------------------------------------------------------------------
(* The registry implements DurableStageRun.                                   *)

\* A workflow that was never started has no outcome.
Unstarted == \A i \in RunIds : run[i].status = "absent" => run[i].outcome = NoOutcome

\* No step changes Temporal's executions except as listed here, and such a
\* step leaves the row alone.
LEMMA TemporalSteps ==
  ASSUME IInv, Next
  PROVE  \/ UNCHANGED temporalVars
         \/ /\ UNCHANGED row
            /\ \/ latest = NoRun /\ latest' = 1 /\ run' = [run EXCEPT ![1].status = "running"]
               \/ /\ latest = 1 /\ latest' = 1 /\ Running(1)
                  /\ \/ /\ run[1].outcome = NoOutcome
                        /\ \E o \in Outcomes : run' = [run EXCEPT ![1].outcome = o]
                     \/ \E st \in Closings : run' = [run EXCEPT ![1].status = st]
<1>1. ASSUME NEW l \in Launchers, StartRpc(l) \/ StartRpcFails(l)
      PROVE  /\ UNCHANGED row
             /\ TemporalStart \/ UNCHANGED temporalVars
  BY <1>1 DEF StartRpc, StartRpcFails
<1>2. ASSUME NEW i \in RunIds, Running(i)
      PROVE  i = 1 /\ latest = 1
  BY <1>2 DEF IInv, RunsInOrder, ExactlyOneExecution, Running
<1>3. ASSUME NEW i \in RunIds, NEW o \in Outcomes, Terminalize(i, o)
      PROVE  /\ UNCHANGED <<row, latest>> /\ latest = 1 /\ Running(1)
             /\ run[1].outcome = NoOutcome /\ run' = [run EXCEPT ![1].outcome = o]
  BY <1>2, <1>3 DEF Terminalize
<1>4. ASSUME NEW i \in RunIds, WorkflowCompletes(i) \/ WorkflowFails(i)
      PROVE  /\ UNCHANGED <<row, latest>> /\ latest = 1 /\ Running(1)
             /\ \E st \in Closings : run' = [run EXCEPT ![1].status = st]
  BY <1>2, <1>4 DEF WorkflowCompletes, WorkflowFails, Closings
<1>5. ASSUME NEW l \in Launchers, NEW s \in Specs, NEW start \in BOOLEAN, Register(l, s, start)
      PROVE  UNCHANGED temporalVars
  BY <1>5 DEF Register, RegisterNew, Replay, SpecConflict
<1>6. ASSUME NEW l \in Launchers, CallerStep(l) \/ CallerFault(l),
             ~StartRpc(l), ~StartRpcFails(l)
      PROVE  UNCHANGED temporalVars
  BY <1>6 DEF CallerStep, CallerFault, DescribeFound, DescribeNotFound, DescribeUnavailable,
     PersistStart, PersistClose, ClaimStart, ClaimRefused, StartDescribe, StartDescribeFails,
     RecordStart, RecordClose, StartFailure, Crash
<1>7. ASSUME LeaseExpires \/ CloseFromProjection \/ \E i \in RunIds : ProjectCycle(i)
      PROVE  UNCHANGED temporalVars
  BY <1>7 DEF LeaseExpires, CloseFromProjection, ProjectCycle
<1> QED
  BY <1>1, <1>3, <1>4, <1>5, <1>6, <1>7 DEF Next, WorkflowStep, TemporalStart

LEMMA UnstartedStep ==
  ASSUME IInv, Unstarted, [Next]_vars
  PROVE  Unstarted'
<1>1. run \in [RunIds -> Execution]
  BY DEF IInv, TypeOK, TemporalTyped
<1>2. CASE UNCHANGED temporalVars
  BY <1>2 DEF temporalVars, Unstarted
<1>3. CASE run' = [run EXCEPT ![1].status = "running"]
  BY <1>1, <1>3 DEF Unstarted, Execution
<1>4. ASSUME Running(1), NEW o \in Outcomes, run' = [run EXCEPT ![1].outcome = o]
      PROVE  Unstarted'
  BY <1>1, <1>4 DEF Unstarted, Running, Execution
<1>5. ASSUME NEW st \in Closings, run' = [run EXCEPT ![1].status = st]
      PROVE  Unstarted'
  BY <1>1, <1>5 DEF Unstarted, Closings, Execution
<1>6. CASE UNCHANGED vars
  BY <1>2, <1>6 DEF vars, temporalVars
<1> QED
  BY <1>2, <1>3, <1>4, <1>5, <1>6, TemporalSteps

LEMMA DurableStep ==
  ASSUME IInv, IInv', Unstarted, [Next]_vars
  PROVE  [Durable!Next]_(Durable!durableVars)
<1> USE DEF Durable!durableVars
<1>t. TypeOK /\ TypeOK'
  BY DEF IInv
<1>1. latest \in {NoRun, 1} /\ latest' \in {NoRun, 1}
  BY DEF IInv, ExactlyOneExecution
<1>2. /\ row.status = "absent" <=> row.spec = NoSpec
      /\ latest # NoRun => row.status # "absent"
      /\ latest' # NoRun => row'.status # "absent"
  BY DEF IInv, RowFirst
<1>3. CASE UNCHANGED vars
  BY <1>3 DEF vars
<1>4. ASSUME UNCHANGED temporalVars, UNCHANGED row
      PROVE  UNCHANGED Durable!durableVars
  BY <1>4 DEF temporalVars
<1>5. ASSUME NEW s \in Specs, row.status = "absent", row' = Registered(row, s),
             UNCHANGED temporalVars
      PROVE  Durable!Next
  <2>1. row'.spec = s /\ row'.status = "registered"
    BY <1>5, <1>t, Shape DEF Registered
  <2>2. Durable!Bind(s)
    BY <1>2, <1>5, <2>1 DEF Durable!Bind, temporalVars, Bound
  <2> QED
    BY <2>2 DEF Durable!Next
<1>6. ASSUME row.status \notin Bound, row' = Started(row, 1), UNCHANGED temporalVars
      PROVE  Durable!Next
  <2>1. row'.spec = row.spec /\ row'.status = "started" /\ row'.receipt = 1
    BY <1>6, <1>t, Shape DEF Started
  <2>2. latest = 1
    BY <1>6, <2>1 DEF IInv, ExactlyOneExecution, temporalVars, NoRun
  <2>3. Durable!Learn
    BY <1>6, <2>1, <2>2 DEF Durable!Learn, temporalVars, Bound, NoRun
  <2> QED
    BY <2>3 DEF Durable!Next
<1>7. ASSUME row.status = "started", NEW st \in Decided \cup RunStatus, row' = Closed(row, st),
             UNCHANGED temporalVars
      PROVE  Durable!Next
  <2>1. row'.spec = row.spec /\ row'.status = "closed" /\ row'.receipt = row.receipt
    BY <1>7, <1>t, Shape DEF Closed
  <2>2. latest = 1 /\ row.receipt = 1
    BY <1>1, <1>7 DEF IInv, ExactlyOneExecution, Bound
  <2>3. run[1].outcome # NoOutcome \/ run[1].status \in Closings
    BY <1>7, <2>1, <2>2 DEF IInv, ClosedOnItsOutcome, temporalVars
  <2>4. Durable!Close
    BY <1>7, <2>1, <2>2, <2>3 DEF Durable!Close, temporalVars, Bound, NoRun, Closings
  <2> QED
    BY <2>4 DEF Durable!Next
<1>8. ASSUME row'.spec = row.spec, row.status \notin Bound, row'.status \notin Bound,
             UNCHANGED temporalVars
      PROVE  UNCHANGED Durable!durableVars
  BY <1>8 DEF temporalVars
<1>9. ASSUME Next, UNCHANGED temporalVars
      PROVE  Durable!Next \/ UNCHANGED Durable!durableVars
  <2>1. CASE Claimable /\ row' = Claimed(row)
    BY <1>8, <1>9, <1>t, <2>1, Shape DEF Claimable, Claimed, Bound
  <2>2. CASE row.status = "starting" /\ row' = StartFailed(row)
    BY <1>8, <1>9, <1>t, <2>2, Shape DEF StartFailed, Bound
  <2>3. CASE row.status = "starting" /\ row' = Expired(row)
    BY <1>8, <1>9, <1>t, <2>3, Shape DEF Expired, Bound
  <2> QED
    BY <1>4, <1>5, <1>6, <1>7, <1>9, <2>1, <2>2, <2>3, RowSteps DEF HoldsClaim
<1>10. ASSUME UNCHANGED row, latest = NoRun, latest' = 1,
              run' = [run EXCEPT ![1].status = "running"]
       PROVE  Durable!Next
  <2>1. run[1].outcome = NoOutcome /\ run'[1].status = "running" /\ run'[1].outcome = NoOutcome
    BY <1>10, <1>t, Shape DEF IInv, RunsInOrder, Unstarted
  <2>2. row.spec # NoSpec
    BY <1>2, <1>10 DEF NoRun
  <2>3. Durable!Execute
    BY <1>10, <2>1, <2>2 DEF Durable!Execute, NoRun
  <2> QED
    BY <2>3 DEF Durable!Next
<1>11. ASSUME UNCHANGED row, latest = 1, latest' = 1, Running(1), run[1].outcome = NoOutcome,
              NEW o \in Outcomes, run' = [run EXCEPT ![1].outcome = o]
       PROVE  Durable!Next
  <2>1. run'[1].status = "running" /\ run'[1].outcome = o /\ o # NoOutcome
    BY <1>11, <1>t, Shape, StageRunLaunchAssumption DEF Running
  <2>2. Durable!Decide
    BY <1>11, <2>1 DEF Durable!Decide, Running, NoRun
  <2> QED
    BY <2>2 DEF Durable!Next
<1>12. ASSUME UNCHANGED row, latest = 1, latest' = 1, Running(1),
              NEW st \in Closings, run' = [run EXCEPT ![1].status = st]
       PROVE  Durable!Next
  <2>1. run'[1].status # "running"
    BY <1>12, <1>t, Shape DEF Closings
  <2>2. Durable!End
    BY <1>12, <2>1 DEF Durable!End, Running, NoRun
  <2> QED
    BY <2>2 DEF Durable!Next
<1> QED
  BY <1>3, <1>9, <1>10, <1>11, <1>12, TemporalSteps

\* launchRegisteredStageRun, the workflow and its projection together keep the
\* promise of DurableStageRun: one immutable spec, executed once, known only
\* after it exists, closed for good only after it reached its outcome.
THEOREM ImplementsDurable == Spec => DurableSpec
<1>1. Init => Durable!Init /\ Unstarted
  BY StageRunLaunchAssumption DEF Init, Durable!Init, Unstarted, RunIds, NoRun, Bound
<1>2. IInv /\ Unstarted /\ [Next]_vars => Unstarted'
  BY UnstartedStep
<1>3. IInv /\ IInv' /\ Unstarted /\ [Next]_vars => [Durable!Next]_(Durable!durableVars)
  BY DurableStep
<1> QED
  BY <1>1, <1>2, <1>3, InductiveInvariant, PTL DEF Spec, DurableSpec, Durable!Spec
=============================================================================
