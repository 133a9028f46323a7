---------------------------- MODULE FoundryWorkflow ----------------------------
(***************************************************************************)
(* FoundryRunWorkflow of one run: the workflow function (Main), the cancel *)
(* and decision update handlers that interleave with it at every await,    *)
(* the activities they call on the run's ledger, and the provider's        *)
(* StageRuns, which move on their own.  What an activity does and the      *)
(* workflow's receipt of its answer are two steps.  The kernel's states    *)
(* are grouped: "evaluating" stands for every automatic state that calls   *)
(* no provider, "awaiting" for both owner gates, "completed" for every     *)
(* completion.                                                             *)
(***************************************************************************)
EXTENDS Integers, Sequences, FiniteSets

CONSTANTS
  Main,
  Cancels, Decisions,  \* the updates, each delivered at most once
  Instances            \* the updates and bounds; each behaviour has one of them

Handlers == Cancels \cup Decisions
Actors == Handlers \cup {Main}

ASSUME FoundryWorkflowAssumption ==
  /\ Main \notin Handlers /\ Cancels \cap Decisions = {}
  /\ \A i \in Instances :
       /\ i.updates \subseteq Handlers
       /\ i.stages \in Nat \ {0} /\ i.observations \in Nat \ {0}
       /\ i.diagnoses \in Nat /\ i.faults \in Nat

VARIABLES
  ledger,       \* states of the run, one per revision
  provider,     \* StageRun chain of each operation launched, by its revision
  seen,         \* revision of the adopted inspection, 0 before the first
  cursor,       \* provider_operation_cursor of the workflow's state
  active,       \* activeProviderOperation is set; its cursor is `cursor`
  requested,    \* providerCancellationRequested
  transition,   \* providerTransitionInFlight
  observations, \* providerObservations
  tail,         \* callers of serialize: the head holds, the others wait in order
  op,           \* operation of the current iteration: its expected_revision
  pc, reply,    \* where an actor is; the revision its activity answers, Failed if it throws
  expected,     \* expected_revision of an update
  captured,     \* a cancel's providerOperation
  target,       \* StageRun its provider cancel has found running
  committed,    \* providerCancelCommitted
  faults,
  instance

flow == <<cursor, active, requested, transition, observations, op>>
update == <<expected, captured, target, committed>>
vars == <<ledger, provider, seen, flow, tail, pc, reply, update, faults, instance>>

Stages == instance.stages                \* StageRuns of one provider operation
MaxObservations == instance.observations \* PROVIDER_OBSERVATIONS_PER_EXECUTION
MaxDiagnoses == instance.diagnoses       \* bound: generations that follow the first
MaxFaults == instance.faults             \* bound: exhausted retries, lost answers, broken StageRuns

Terminal == {"completed", "rejected", "cancelled", "failed"}
ProviderStates == {"designing", "diagnosing"}
States == ProviderStates \cup {"evaluating", "awaiting", "activating"} \cup Terminal

Failed == -1
None == [op |-> 0, status |-> "none"]
Cursor(r, status) == [op |-> r, status |-> status]

Over(r) == r > 0 /\ ledger[r] \in Terminal
Newer(r) == IF r > seen THEN r ELSE seen

Successors(s) ==
  CASE s = "designing"  -> {"evaluating"}
    [] s = "evaluating" -> {"diagnosing", "awaiting", "activating", "completed"}
    [] s = "diagnosing" -> {"evaluating", "completed"}
    [] s = "activating" -> {"completed"}

Diagnosed == Cardinality({r \in DOMAIN ledger : ledger[r] = "diagnosing"})

TypeOK ==
  /\ ledger \in Seq(States)
  /\ DOMAIN provider \subseteq {r \in DOMAIN ledger : ledger[r] \in ProviderStates}
  /\ \A r \in DOMAIN provider :
       provider[r] \in [stage : 1..Stages, status : {"running", "finished", "stopped", "broken"}]
  /\ seen \in 0..Len(ledger) /\ op \in 0..Len(ledger)
  /\ cursor \in {None} \cup [op : DOMAIN provider, status : {"pending", "terminal"}]
  /\ active \in BOOLEAN /\ (active => cursor # None)
  /\ requested \in BOOLEAN /\ transition \in BOOLEAN
  /\ observations \in 0..MaxObservations
  /\ tail \in Seq(Actors) /\ \A i, j \in DOMAIN tail : i # j => tail[i] # tail[j]
  /\ pc \in [Actors -> {"idle", "start", "awaiting", "launch", "observe", "handlers", "read",
                        "settle", "advance", "authorize", "waiting", "query", "stop", "stopped",
                        "cancel", "submit", "fail", "done", "closed"}]
  /\ reply \in [Actors -> {Failed} \cup 0..Len(ledger)]
  /\ expected \in [Handlers -> 0..Len(ledger)]
  /\ captured \in [Handlers -> {None} \cup [op : DOMAIN provider, status : {"pending", "terminal"}]]
  /\ target \in [Handlers -> 0..Stages]
  /\ committed \in [Handlers -> BOOLEAN]
  /\ faults \in 0..MaxFaults /\ instance \in Instances

Init ==
  /\ ledger = <<>> /\ provider = <<>>
  /\ seen = 0 /\ cursor = None /\ op = 0 /\ observations = 0
  /\ active = FALSE /\ requested = FALSE /\ transition = FALSE
  /\ tail = <<Main>>
  /\ pc = [a \in Actors |-> IF a = Main THEN "start" ELSE "idle"]
  /\ reply = [a \in Actors |-> 0]
  /\ expected = [h \in Handlers |-> 0]
  /\ captured = [h \in Handlers |-> None] /\ target = [h \in Handlers |-> 0]
  /\ committed = [h \in Handlers |-> FALSE]
  /\ faults = 0
  /\ instance \in Instances

-----------------------------------------------------------------------------
(* Activities.  An activity at the ledger either succeeds with `next`, is   *)
(* refused, or exhausts its retries with or without its effect.             *)

Answer(a, r) == reply' = [reply EXCEPT ![a] = r]

Attempt(a, allowed, next) ==
  \/ /\ allowed /\ ledger' = next /\ Answer(a, Len(next)) /\ UNCHANGED faults
  \/ /\ ~allowed /\ Answer(a, Failed) /\ UNCHANGED <<ledger, faults>>
  \/ /\ faults < MaxFaults /\ faults' = faults + 1
     /\ Answer(a, Failed)
     /\ ledger' \in {ledger} \cup (IF allowed THEN {next} ELSE {})

Calling(a, where) == pc[a] = where /\ reply[a] = 0
Serialized(a, where) == Calling(a, where) /\ tail # <<>> /\ Head(tail) = a

IsReplay(h) == expected[h] < Len(ledger) /\ ledger[expected[h] + 1] = "cancelled"
AtExpected(h) == Len(ledger) = expected[h] /\ ~Over(Len(ledger))

StartRun ==
  /\ Serialized(Main, "start")
  /\ Attempt(Main, TRUE, IF ledger = <<>> THEN <<"designing">> ELSE ledger)
  /\ UNCHANGED <<provider, seen, flow, tail, pc, update>>

AuthorizeCancelRun(h) ==
  /\ Serialized(h, "authorize")
  /\ Attempt(h, IsReplay(h) \/ AtExpected(h), ledger)
  /\ UNCHANGED <<provider, seen, flow, tail, pc, update>>

CancelRun(h) ==
  /\ Serialized(h, "cancel")
  /\ IF IsReplay(h) THEN Attempt(h, TRUE, ledger)
     ELSE Attempt(h, AtExpected(h) /\ ledger[expected[h]] # "activating",
                  Append(ledger, "cancelled"))
  /\ UNCHANGED <<provider, seen, flow, tail, pc, update>>

FailRun(a) ==
  /\ Serialized(a, "fail")
  /\ IF Over(Len(ledger)) THEN Attempt(a, TRUE, ledger)
     ELSE Attempt(a, ledger[Len(ledger)] # "awaiting", Append(ledger, "failed"))
  /\ UNCHANGED <<provider, seen, flow, tail, pc, update>>

SubmitOwnerDecision(h) ==
  /\ Serialized(h, "submit")
  /\ \E s \in {"evaluating", "activating", "rejected"} :
       Attempt(h, AtExpected(h) /\ ledger[expected[h]] = "awaiting", Append(ledger, s))
  /\ UNCHANGED <<provider, seen, flow, tail, pc, update>>

(* Its own transition found already committed is `recovered`; a step that   *)
(* fails inside the kernel ends the run and is an answer like any other.    *)
AdvanceRun ==
  LET recovered == /\ Len(ledger) = op + 1
                   /\ ledger[op + 1] \in Successors(ledger[op]) \cup {"failed"}
  IN
  /\ Calling(Main, "advance")
  /\ IF recovered THEN Attempt(Main, TRUE, ledger)
     ELSE \/ \E s \in Successors(ledger[op]) :
               /\ s = "diagnosing" => Diagnosed < MaxDiagnoses
               /\ Attempt(Main, Len(ledger) = op, Append(ledger, s))
          \/ /\ Len(ledger) = op /\ faults < MaxFaults /\ faults' = faults + 1
             /\ ledger' = Append(ledger, "failed") /\ Answer(Main, op + 1)
  /\ UNCHANGED <<provider, seen, flow, tail, pc, update>>

LaunchProviderOperation ==
  LET launched == [r \in DOMAIN provider \cup {op} |->
                     IF r \in DOMAIN provider THEN provider[r]
                                              ELSE [stage |-> 1, status |-> "running"]]
  IN
  /\ Calling(Main, "launch")
  /\ \/ /\ Len(ledger) = op /\ provider' = launched /\ Answer(Main, op) /\ UNCHANGED faults
     \/ /\ Len(ledger) # op /\ Answer(Main, Failed) /\ UNCHANGED <<provider, faults>>
     \/ /\ faults < MaxFaults /\ faults' = faults + 1 /\ Answer(Main, Failed)
        /\ provider' \in {provider} \cup (IF Len(ledger) = op THEN {launched} ELSE {})
  /\ UNCHANGED <<ledger, seen, flow, tail, pc, update>>

(* The provider cancel follows the chain to the StageRun it finds running,  *)
(* and only then cancels that one.  A StageRun that has ended meanwhile is  *)
(* taken for cancelled; one that completes although it has accepted the     *)
(* cancel makes the activity fail.                                          *)
QueryProviderOperation(h) ==
  LET stageRun == provider[captured[h].op] IN
  /\ Calling(h, "query")
  /\ \/ /\ captured[h].status = "pending" /\ stageRun.status = "running"
        /\ pc' = [pc EXCEPT ![h] = "stop"] /\ target' = [target EXCEPT ![h] = stageRun.stage]
        /\ UNCHANGED <<reply, faults>>
     \/ /\ ~(captured[h].status = "pending" /\ stageRun.status = "running")
        /\ pc' = [pc EXCEPT ![h] = "stopped"] /\ Answer(h, captured[h].op)
        /\ UNCHANGED <<target, faults>>
     \/ /\ faults < MaxFaults /\ faults' = faults + 1
        /\ pc' = [pc EXCEPT ![h] = "stopped"] /\ Answer(h, Failed) /\ UNCHANGED target
  /\ UNCHANGED <<ledger, provider, seen, flow, tail, expected, captured, committed>>

CancelStageRun(h) ==
  LET r == captured[h].op
      found == provider[r] = [stage |-> target[h], status |-> "running"]
      stopped == [provider EXCEPT ![r].status = "stopped"]
  IN
  /\ Calling(h, "stop")
  /\ \/ /\ found /\ provider' = stopped /\ Answer(h, r) /\ UNCHANGED faults
     \/ /\ ~found /\ Answer(h, r) /\ UNCHANGED <<provider, faults>>
     \/ /\ ~found /\ provider[r].status # "stopped" /\ Answer(h, Failed)
        /\ UNCHANGED <<provider, faults>>
     \/ /\ faults < MaxFaults /\ faults' = faults + 1 /\ Answer(h, Failed)
        /\ provider' \in {provider} \cup (IF found THEN {stopped} ELSE {})
  /\ pc' = [pc EXCEPT ![h] = "stopped"]
  /\ UNCHANGED <<ledger, seen, flow, tail, update>>

-----------------------------------------------------------------------------
(* The workflow function. *)

Running == pc[Main] # "closed"
Returned(a, where) == Running /\ pc[a] = where /\ reply[a] # 0
Taken(a) == reply' = [reply EXCEPT ![a] = 0]
AllHandlersFinished == \A h \in Handlers : pc[h] \in {"idle", "done"}

NextAwaitWhileRunning(r, c) ==
  IF ledger[r] \in Terminal \cup {"awaiting"} THEN "closed"
  ELSE IF ledger[r] \in ProviderStates
       THEN IF c = Cursor(r, "pending") THEN "observe" ELSE "launch"
       ELSE "advance"

NextAwait(r, c) ==
  CASE Over(r) -> "closed"
    [] ~Over(r) /\ ledger[r] = "awaiting" -> "awaiting"
    [] ledger[r] \in ProviderStates /\ c = Cursor(r, "pending") -> "observe"
    [] ledger[r] \in ProviderStates /\ c # Cursor(r, "pending") -> "launch"
    [] ledger[r] \in {"evaluating", "activating"} -> "advance"

(* From the end of an iteration, `finally` included, to the next await.  A  *)
(* launch is begun whether or not a cancel has been requested.              *)
Iterate(r, c) ==
  LET next == NextAwait(r, c)
  IN /\ pc' = [pc EXCEPT ![Main] = next]
     /\ seen' = r /\ cursor' = c /\ op' = r
     /\ active' = (next = "observe") /\ transition' = (next = "launch")

(* An error of an operation that is no longer current is dropped. *)
Catch ==
  \/ /\ Over(seen) \/ seen # op
     /\ Iterate(seen, cursor) /\ UNCHANGED tail
  \/ /\ ~Over(seen) /\ seen = op
     /\ pc' = [pc EXCEPT ![Main] = "fail"] /\ tail' = Append(tail, Main)
     /\ transition' = FALSE
     /\ UNCHANGED <<seen, cursor, op, active>>

Close ==
  /\ pc' = [pc EXCEPT ![Main] = "closed"]
  /\ UNCHANGED <<seen, flow>>

(* A pending cursor handed over by the previous execution must bind the     *)
(* operation of the inspection; else the workflow fails.                    *)
Started ==
  LET r == Newer(reply[Main]) IN
  /\ Returned(Main, "start") /\ Taken(Main) /\ tail' = Tail(tail)
  /\ IF reply[Main] = Failed \/ (cursor.status = "pending" /\ cursor.op # r)
     THEN Close
     ELSE Iterate(r, cursor) /\ UNCHANGED <<requested, observations>>
  /\ UNCHANGED <<ledger, provider, update, faults>>

Decided ==
  /\ pc[Main] = "awaiting" /\ ledger[seen] # "awaiting"
  /\ Iterate(seen, cursor)
  /\ UNCHANGED <<ledger, provider, requested, observations, tail, reply, update, faults>>

LaunchedUnobserved ==
  /\ Returned(Main, "launch") /\ Taken(Main)
  /\ IF reply[Main] = Failed THEN Catch
     ELSE /\ pc' = [pc EXCEPT ![Main] = "settle"]
          /\ cursor' = Cursor(op, "pending") /\ active' = TRUE /\ transition' = FALSE
          /\ UNCHANGED <<seen, op, tail>>
  /\ UNCHANGED <<ledger, provider, requested, observations, update, faults>>

Launched ==
  /\ Returned(Main, "launch") /\ Taken(Main)
  /\ IF reply[Main] = Failed THEN Catch
     ELSE /\ pc' = [pc EXCEPT ![Main] = "observe"]
          /\ cursor' = Cursor(op, "pending") /\ active' = TRUE /\ transition' = FALSE
          /\ UNCHANGED <<seen, op, tail>>
  /\ UNCHANGED <<ledger, provider, requested, observations, update, faults>>

SucceededOnceTerminal(r) == provider[r].status # "running"

Succeeded(r) == provider[r].status = "finished"
Ended(r) == provider[r].status # "running" /\ ~Succeeded(r)

(* One round of the observation loop, sleep included.  A transient failure  *)
(* of the observation counts like a StageRun found running.                 *)
ObserveProviderOperation ==
  /\ pc[Main] = "observe" /\ ~requested
  /\ \/ /\ \/ provider[op].status = "running" /\ UNCHANGED faults
           \/ faults < MaxFaults /\ faults' = faults + 1
        /\ observations' = observations + 1
        /\ pc' = [pc EXCEPT ![Main] = IF observations' = MaxObservations THEN "handlers" ELSE @]
        /\ cursor' = Cursor(op, "pending") /\ active' = TRUE
        /\ UNCHANGED <<seen, op, transition, tail>>
     \/ /\ Succeeded(op) /\ ~Over(seen)
        /\ cursor' = Cursor(op, "terminal") /\ active' = TRUE
        /\ pc' = [pc EXCEPT ![Main] = "read"] /\ transition' = TRUE
        /\ UNCHANGED <<seen, op, observations, tail, faults>>
     \/ /\ Succeeded(op) /\ Over(seen)
        /\ Iterate(seen, Cursor(op, "terminal")) /\ UNCHANGED <<observations, tail, faults>>
     \/ /\ Ended(op)
        /\ Catch /\ UNCHANGED <<observations, faults>>
     \/ /\ faults < MaxFaults /\ faults' = faults + 1
        /\ Catch /\ UNCHANGED observations
  /\ UNCHANGED <<ledger, provider, requested, reply, update>>

CancelObserved ==
  /\ pc[Main] = "observe" /\ requested /\ Over(seen)
  /\ Iterate(seen, cursor)
  /\ UNCHANGED <<ledger, provider, requested, observations, tail, reply, update, faults>>

NewExecutionCounting ==
  /\ pc' = [pc EXCEPT ![Main] = "start"] /\ tail' = <<Main>>
  /\ seen' = 0 /\ cursor' = Cursor(op, "pending") /\ op' = 0 /\ UNCHANGED observations
  /\ active' = FALSE /\ requested' = FALSE /\ transition' = FALSE

(* It keeps the loop's own cursor and nothing else. *)
NewExecution ==
  /\ pc' = [pc EXCEPT ![Main] = "start"] /\ tail' = <<Main>>
  /\ seen' = 0 /\ cursor' = Cursor(op, "pending") /\ op' = 0 /\ observations' = 0
  /\ active' = FALSE /\ requested' = FALSE /\ transition' = FALSE

ContinueAsNew ==
  /\ pc[Main] = "handlers" /\ AllHandlersFinished
  /\ \/ Over(seen) /\ Iterate(seen, cursor) /\ UNCHANGED <<requested, observations, tail>>
     \/ ~Over(seen) /\ NewExecution
  /\ UNCHANGED <<ledger, provider, reply, update, faults>>

ReadInFlight ==
  /\ pc[Main] = "read" /\ pc' = [pc EXCEPT ![Main] = "settle"]
  /\ cursor' = Cursor(op, "terminal") /\ active' = TRUE
  /\ UNCHANGED <<ledger, provider, seen, requested, transition, observations, tail, op,
                 reply, update, faults>>

ReadProviderOperationTerminal ==
  /\ pc[Main] = "read"
  /\ \/ /\ pc' = [pc EXCEPT ![Main] = "settle"] /\ transition' = FALSE
        /\ cursor' = Cursor(op, "terminal") /\ active' = TRUE
        /\ UNCHANGED <<seen, op, tail, faults>>
     \/ faults < MaxFaults /\ faults' = faults + 1 /\ Catch
  /\ UNCHANGED <<ledger, provider, requested, observations, reply, update>>

(* All handlers have finished, and then a cancel still requested has taken  *)
(* effect or is given up, before the result is used.                        *)
Settle ==
  /\ pc[Main] = "settle" /\ AllHandlersFinished
  /\ IF Over(seen) THEN Iterate(seen, cursor)
     ELSE /\ ~requested /\ pc' = [pc EXCEPT ![Main] = "advance"]
          /\ UNCHANGED <<seen, cursor, op, active, transition>>
  /\ UNCHANGED <<ledger, provider, requested, observations, tail, reply, update, faults>>

Advanced ==
  /\ Returned(Main, "advance") /\ Taken(Main)
  /\ IF reply[Main] = Failed THEN Catch
     ELSE Iterate(Newer(reply[Main]), cursor) /\ UNCHANGED tail
  /\ UNCHANGED <<ledger, provider, requested, observations, update, faults>>

RunFailed ==
  /\ Returned(Main, "fail") /\ Taken(Main) /\ tail' = Tail(tail)
  /\ IF reply[Main] = Failed THEN Close
     ELSE Iterate(Newer(reply[Main]), cursor) /\ UNCHANGED <<requested, observations>>
  /\ UNCHANGED <<ledger, provider, update, faults>>

-----------------------------------------------------------------------------
(* The update handlers.  A client names a revision it has read. *)

Deliver(h) ==
  /\ Running /\ pc[h] = "idle" /\ h \in instance.updates
  /\ \E r \in DOMAIN ledger : expected' = [expected EXCEPT ![h] = r]
  /\ pc' = [pc EXCEPT ![h] = IF h \in Cancels THEN "authorize" ELSE "submit"]
  /\ tail' = Append(tail, h)
  /\ UNCHANGED <<ledger, provider, seen, flow, reply, captured, target, committed, faults>>

(* What an update handler has kept is gone once it has answered. *)
Done(h) ==
  /\ reply' = [reply EXCEPT ![h] = 0]
  /\ expected' = [expected EXCEPT ![h] = 0] /\ captured' = [captured EXCEPT ![h] = None]
  /\ target' = [target EXCEPT ![h] = 0]

(* An error before the provider cancel is committed lets Main go on. *)
GiveUpForgetsRequest(h) == pc' = [pc EXCEPT ![h] = "done"] /\ Done(h) /\ UNCHANGED requested

GiveUp(h) == pc' = [pc EXCEPT ![h] = "done"] /\ Done(h) /\ requested' = FALSE

Submitted(h) ==
  /\ Returned(h, "submit") /\ tail' = Tail(tail)
  /\ pc' = [pc EXCEPT ![h] = "done"]
  /\ seen' = Newer(reply[h]) /\ Done(h)
  /\ UNCHANGED <<ledger, provider, flow, committed, faults>>

Authorized(h) ==
  /\ Returned(h, "authorize") /\ tail' = Tail(tail)
  /\ \/ /\ reply[h] # Failed /\ Taken(h)
        /\ requested' = TRUE /\ pc' = [pc EXCEPT ![h] = "waiting"]
        /\ UNCHANGED <<expected, captured, target>>
     \/ /\ reply[h] = Failed /\ Done(h)
        /\ pc' = [pc EXCEPT ![h] = "done"] /\ UNCHANGED requested
  /\ UNCHANGED <<ledger, provider, seen, cursor, active, transition, observations, op,
                 committed, faults>>

Capture(h) ==
  /\ Running /\ pc[h] = "waiting" /\ ~transition
  /\ \/ /\ active /\ captured' = [captured EXCEPT ![h] = cursor]
        /\ pc' = [pc EXCEPT ![h] = "query"] /\ UNCHANGED tail
     \/ /\ ~active /\ tail' = Append(tail, h)
        /\ pc' = [pc EXCEPT ![h] = "cancel"] /\ UNCHANGED captured
  /\ UNCHANGED <<ledger, provider, seen, flow, reply, expected, target, committed, faults>>

(* The captured cursor is adopted whatever operation Main has gone on to. *)
ProviderCancelled(h) ==
  /\ Returned(h, "stopped")
  /\ \/ /\ reply[h] # Failed /\ Taken(h)
        /\ committed' = [committed EXCEPT ![h] = TRUE]
        /\ cursor' = captured[h] /\ active' = TRUE
        /\ pc' = [pc EXCEPT ![h] = "cancel"] /\ tail' = Append(tail, h)
        /\ UNCHANGED <<requested, expected, captured, target>>
     \/ /\ reply[h] = Failed /\ GiveUp(h)
        /\ UNCHANGED <<cursor, active, tail, committed>>
  /\ UNCHANGED <<ledger, provider, seen, transition, observations, op, faults>>

RunCancelledOrFailed(h) ==
  /\ Returned(h, "cancel")
  /\ \/ /\ reply[h] # Failed /\ Done(h)
        /\ seen' = Newer(reply[h]) /\ tail' = Tail(tail)
        /\ pc' = [pc EXCEPT ![h] = "done",
                            ![Main] = IF @ = "advance" THEN "closed" ELSE @]
        /\ UNCHANGED requested
     \/ /\ reply[h] = Failed /\ Taken(h)
        /\ pc' = [pc EXCEPT ![h] = "fail"] /\ tail' = Append(Tail(tail), h)
        /\ UNCHANGED <<seen, requested, expected, captured, target>>
  /\ UNCHANGED <<ledger, provider, cursor, active, transition, observations, op,
                 committed, faults>>

(* activeAdvanceScope is cancelled: Main gives its advance up and finds the *)
(* run over.                                                                *)
RunCancelled(h) ==
  /\ Returned(h, "cancel")
  /\ \/ /\ reply[h] # Failed /\ Done(h)
        /\ seen' = Newer(reply[h]) /\ tail' = Tail(tail)
        /\ pc' = [pc EXCEPT ![h] = "done",
                            ![Main] = IF @ = "advance" THEN "closed" ELSE @]
        /\ UNCHANGED requested
     \/ /\ reply[h] = Failed /\ committed[h] /\ Taken(h)
        /\ pc' = [pc EXCEPT ![h] = "fail"] /\ tail' = Append(Tail(tail), h)
        /\ UNCHANGED <<seen, requested, expected, captured, target>>
     \/ /\ reply[h] = Failed /\ ~committed[h] /\ GiveUp(h)
        /\ tail' = Tail(tail) /\ UNCHANGED seen
  /\ UNCHANGED <<ledger, provider, cursor, active, transition, observations, op,
                 committed, faults>>

CancelFailedKeepsRequest(h) ==
  /\ Returned(h, "fail") /\ tail' = Tail(tail)
  /\ seen' = Newer(reply[h])
  /\ pc' = [pc EXCEPT ![h] = "done"] /\ Done(h)
  /\ UNCHANGED <<ledger, provider, flow, committed, faults>>

(* The update fails whatever failRun answered. *)
CancelFailed(h) ==
  /\ Returned(h, "fail") /\ tail' = Tail(tail)
  /\ seen' = Newer(reply[h])
  /\ requested' = (requested /\ Over(seen'))
  /\ pc' = [pc EXCEPT ![h] = "done"] /\ Done(h)
  /\ UNCHANGED <<ledger, provider, cursor, active, transition, observations, op,
                 committed, faults>>

-----------------------------------------------------------------------------
(* The provider's StageRuns. *)

Move(r, at, next) ==
  /\ provider[r] = at /\ provider' = [provider EXCEPT ![r] = next]
  /\ UNCHANGED <<ledger, seen, flow, tail, pc, reply, update>>

ProgressStageRun(r) ==
  \E stage \in 1..Stages :
    /\ Move(r, [stage |-> stage, status |-> "running"],
            IF stage < Stages THEN [stage |-> stage + 1, status |-> "running"]
                              ELSE [stage |-> stage, status |-> "finished"])
    /\ UNCHANGED faults

BreakStageRun(r) ==
  \E stage \in 1..Stages :
    /\ faults < MaxFaults /\ faults' = faults + 1
    /\ Move(r, [stage |-> stage, status |-> "running"], [stage |-> stage, status |-> "broken"])

-----------------------------------------------------------------------------

MainStep ==
  \/ StartRun \/ Started \/ Decided \/ LaunchProviderOperation \/ Launched
  \/ ObserveProviderOperation \/ CancelObserved \/ ContinueAsNew
  \/ ReadProviderOperationTerminal \/ Settle
  \/ AdvanceRun \/ Advanced \/ FailRun(Main) \/ RunFailed

CancelStep(h) ==
  \/ AuthorizeCancelRun(h) \/ Authorized(h) \/ Capture(h)
  \/ QueryProviderOperation(h) \/ CancelStageRun(h) \/ ProviderCancelled(h)
  \/ CancelRun(h) \/ RunCancelled(h) \/ FailRun(h) \/ CancelFailed(h)

DecisionStep(h) == SubmitOwnerDecision(h) \/ Submitted(h)

Progress == \E r \in DOMAIN provider : ProgressStageRun(r)

Step ==
  \/ MainStep
  \/ \E h \in Handlers : Deliver(h)
  \/ \E h \in Cancels : CancelStep(h)
  \/ \E h \in Decisions : DecisionStep(h)
  \/ Progress
  \/ \E r \in DOMAIN provider : BreakStageRun(r)

Next == Step /\ UNCHANGED instance

(* The service schedules every workflow task and activity whose execution   *)
(* is open, and a StageRun ends; clients need not send anything.            *)
Fairness ==
  /\ WF_vars(MainStep /\ UNCHANGED instance)
  /\ WF_vars(Progress /\ UNCHANGED instance)
  /\ \A h \in Cancels : WF_vars(CancelStep(h) /\ UNCHANGED instance)
  /\ \A h \in Decisions : WF_vars(DecisionStep(h) /\ UNCHANGED instance)

Spec == Init /\ [][Next]_vars /\ Fairness

-----------------------------------------------------------------------------
(* Properties *)

Last == ledger[Len(ledger)]

\* The workflow ends only with its run: unless an activity has exhausted its
\* retries, a closed workflow leaves no run in a state that somebody should
\* advance or decide.
ClosedMeansOver == pc[Main] = "closed" /\ faults = 0 => Over(Len(ledger))

\* No provider operation is left behind by a run that goes on: one that still
\* runs belongs to the run's current revision, or the run is over.
RunningIsCurrent ==
  \A r \in DOMAIN provider :
    provider[r].status = "running" => r = Len(ledger) \/ Over(Len(ledger))

\* Once a cancel has stopped the provider, the run never uses the operation:
\* all that can follow its revision is the end of the run.
StoppedIsNeverUsed ==
  \A r \in DOMAIN provider :
    provider[r].status = "stopped" /\ r < Len(ledger) => ledger[r + 1] \in {"cancelled", "failed"}

\* A provider operation and its run agree on whether they go on.
ProviderFollowsRun == RunningIsCurrent /\ StoppedIsNeverUsed

\* A run fails for a reason: an activity or StageRun has failed, or a cancel
\* has reached the provider, whether or not its handler knows it yet.
FailureHasCause ==
  ledger # <<>> /\ Last = "failed" =>
    \/ faults > 0
    \/ \E h \in Cancels : committed[h]
    \/ \E r \in DOMAIN provider : provider[r].status = "stopped"

\* The workflow ends only with its run, and a run fails only with a cause.
EndsAreJustified == ClosedMeansOver /\ FailureHasCause

MainSettles == <>[](pc[Main] \in {"awaiting", "closed"})
CancelsEnd == \A h \in Cancels : pc[h] = "authorize" ~> pc[h] = "done" \/ ~Running

\* Whatever updates race with it, the workflow comes to rest at an owner gate
\* or ends, and every cancel delivered is answered or finds it ended.
Settles == MainSettles /\ CancelsEnd

\* The test of cancellation says it "commits ledger cancellation only after
\* provider stop": a cancelled run has no StageRun left running.
CancelStopsProvider ==
  ledger # <<>> /\ Last = "cancelled" => \A r \in DOMAIN provider : provider[r].status # "running"

=============================================================================
