----------------------------- MODULE FoundryKernel -----------------------------
(***************************************************************************)
(* FoundryKernel for ONE target agent: runs are advanced step by step by   *)
(* Temporal activities, decided on and cancelled by an owner, failed by    *)
(* their workflow, and at the end switch the active AgentVersion; an owner *)
(* may roll the switch back.  The stores are what FoundryRunLog and        *)
(* FoundryActivationRegister promise: each of their calls is one step.     *)
(* What is read before a step and used in it (the inspected revision) is   *)
(* kept per process, so attempts of one activity overlap freely.           *)
(***************************************************************************)
EXTENDS Naturals, Sequences

CONSTANTS
  Procs,     \* worker and command-line processes
  Runs,
  NoRun,
  NoVersion,
  NoReceipt,
  Instances  \* the requests, providers and bounds; each behaviour has one of them

ASSUME FoundryKernelAssumption ==
  /\ NoRun \notin Runs
  /\ NoVersion \notin [run: Runs, gen: Nat]
  /\ NoReceipt \notin [action: {"approve", "reject", "cancel"}, run: Runs, rev: Nat]
  /\ \A i \in Instances :
       /\ i.procs \subseteq Procs /\ i.runs \subseteq Runs /\ i.qualify \subseteq Runs
       /\ i.tiers # {} /\ i.tiers \subseteq {"low", "medium", "high"}
       /\ i.scores \subseteq Nat \ {0}
       /\ i.generations \in Nat /\ i.switches \in Nat /\ i.overlaps \in Nat /\ i.faults \in Nat
       /\ i.calls \subseteq {"start", "advance", "decide", "cancel", "fail", "rollback"}
       /\ i.failing \in BOOLEAN

VARIABLES
  log,       \* the events of each run
  start,     \* activation revision of its accept event
  base,      \* target_version_ref of its DesignRequest
  design,    \* what its provider designs in each generation
  journal,   \* operation results: evidence by operation
  versions,  \* registered AgentVersions
  history,   \* activation transactions
  pc, job, at, event,  \* where a process is, its call, the revision it inspected
                       \* and the event it is about to append
  adopted,   \* revision of the inspection a run's workflow has adopted last
  begun,     \* history: the highest revision an advance activity has begun for
  overlaps,  \* history: attempts and decisions on a run that began beside an attempt
  broken,    \* runs whose advance activity failed for good
  stranded,  \* runs whose workflow ended because it could not fail them either
  caused,    \* history: runs whose provider or evaluator failed
  faults,
  instance

\* Of the requests: delivery_policy.max_generations, and the runs whose
\* activation_mode is qualify_only.
MaxGenerations == instance.generations
QualifyOnly == instance.qualify
\* Of the designer and the evaluator: risk tiers, gate scores (all positive), and
\* whether they may fail.
Tiers == instance.tiers
Scores == instance.scores
BadProviders == instance.failing
\* Bounds: the calls that are made, activation transactions, attempts and
\* decisions on a run beside an attempt, and faults (contended locks, lost
\* answers, dead processes).
Calls == instance.calls
MaxSwitches == instance.switches
MaxOverlaps == instance.overlaps
MaxFaults == instance.faults

storeVars == <<log, start, base, design, journal, versions, history>>
procVars == <<pc, job, at, event>>
noteVars == <<adopted, begun, overlaps, broken, stranded, caused>>
vars == <<storeVars, procVars, noteVars, faults, instance>>

Ended == {"completed_active", "completed_qualified", "completed_unqualified",
          "rejected", "cancelled", "failed", "quarantined"}
Awaiting == {"awaiting_owner_canary", "awaiting_owner_active"}
Fails == {"failed", "quarantined"}

\* ALLOWED_TRANSITIONS.
Transitions ==
  [accepted              |-> {"designing", "rejected", "cancelled"} \cup Fails,
   designing             |-> {"materializing", "cancelled"} \cup Fails,
   materializing         |-> {"evaluating", "cancelled"} \cup Fails,
   evaluating            |-> {"qualified", "evidence_ready", "completed_unqualified", "cancelled"} \cup Fails,
   evidence_ready        |-> {"diagnosing", "completed_unqualified", "cancelled"} \cup Fails,
   diagnosing            |-> {"materializing", "completed_unqualified", "cancelled"} \cup Fails,
   qualified             |-> {"canary", "awaiting_owner_canary", "completed_qualified", "cancelled"} \cup Fails,
   awaiting_owner_canary |-> {"canary", "rejected", "cancelled"},
   canary                |-> {"activating", "awaiting_owner_active", "evidence_ready",
                              "completed_unqualified", "cancelled"} \cup Fails,
   awaiting_owner_active |-> {"activating", "rejected", "cancelled"},
   activating            |-> {"completed_active"} \cup Fails]
States == DOMAIN Transitions \cup Ended
Phases == {"accepted", "design", "blueprint", "materialize", "evaluate", "canary", "diagnose",
           "evolve", "evolve_no_change", "qualify", "qualification_route", "activate",
           "owner_approve", "owner_reject", "cancel", "failure", "quarantine"}

Versions == [run: Runs, gen: 0..MaxGenerations]
Actions == {"approve", "reject", "cancel"}
\* A verified receipt covers exactly one decision on one revision, or a rollback.
Receipts == [action: Actions, run: Runs, rev: Nat] \cup [action: {"rollback"}, to: Versions, rev: Nat]
Evidence == [qualified: BOOLEAN, score: Scores \cup {0}]
NoEvidence == [qualified |-> FALSE, score |-> 0]

\* An event with what the run's snapshot accumulates: generation, tier, last
\* evidence, generations without improvement.
Event == [phase: Phases, to: States, gen: 0..MaxGenerations, tier: {"low", "medium", "high"},
          evidence: Evidence, flat: Nat, receipt: Receipts \cup {NoReceipt}]
Accepted == [phase |-> "accepted", to |-> "accepted", gen |-> 0, tier |-> "low",
             evidence |-> NoEvidence, flat |-> 0, receipt |-> NoReceipt]

Transaction == [kind: {"activate", "rollback"}, to: Versions, receipt: Receipts \cup {NoReceipt}]
Ops == {"none", "start", "advance", "approve", "reject", "cancel", "fail", "rollback"}
Pc == {"idle", "start", "create", "before", "inspect", "work", "evaluate", "register", "authority",
       "switch", "append", "reinspect", "after", "rollback"}
Job == [op: Ops, run: Runs \cup {NoRun}, rev: Nat, base: Versions \cup {NoVersion},
        replay: BOOLEAN, receipt: Receipts \cup {NoReceipt}, failing: {"no"} \cup Fails]
NoJob == [op |-> "none", run |-> NoRun, rev |-> 0, base |-> NoVersion,
          replay |-> FALSE, receipt |-> NoReceipt, failing |-> "no"]

TypeOK ==
  /\ instance \in Instances
  /\ log \in [Runs -> Seq(Event)]
  /\ start \in [Runs -> Nat]
  /\ base \in [Runs -> Versions \cup {NoVersion}]
  /\ design \in [Runs -> [0..MaxGenerations -> Tiers \cup {"unchanged"}]]
  /\ \A k \in DOMAIN journal : k \in Runs \X Nat /\ journal[k] \in Evidence
  /\ versions \in SUBSET Versions
  /\ history \in Seq(Transaction)
  /\ pc \in [Procs -> Pc]
  /\ job \in [Procs -> Job]
  /\ at \in [Procs -> Nat]
  /\ event \in [Procs -> Event]
  /\ adopted \in [Runs -> Nat] /\ begun \in [Runs -> Nat]
  /\ overlaps \in [Runs -> 0..MaxOverlaps]
  /\ broken \in SUBSET Runs /\ stranded \in SUBSET Runs /\ caused \in SUBSET Runs
  /\ faults \in 0..MaxFaults

Init ==
  /\ instance \in Instances
  /\ log = [r \in Runs |-> <<>>]
  /\ start = [r \in Runs |-> 0]
  /\ base = [r \in Runs |-> NoVersion]
  /\ design \in [Runs -> [0..MaxGenerations -> Tiers \cup {"unchanged"}]]
  /\ \A r \in instance.runs : design[r][0] # "unchanged"
  /\ \A r \in Runs \ instance.runs : \A k \in 0..MaxGenerations : design[r][k] = "unchanged"
  /\ journal = <<>>
  /\ versions = {}
  /\ history = <<>>
  /\ pc = [p \in Procs |-> "idle"]
  /\ job = [p \in Procs |-> NoJob]
  /\ at = [p \in Procs |-> 0]
  /\ event = [p \in Procs |-> Accepted]
  /\ adopted = [r \in Runs |-> 0]
  /\ begun = [r \in Runs |-> 0]
  /\ overlaps = [r \in Runs |-> 0]
  /\ broken = {} /\ stranded = {} /\ caused = {}
  /\ faults = 0

-----------------------------------------------------------------------------
(* Reading the stores. *)

Latest(r) == log[r][Len(log[r])]
State(r) == Latest(r).to
Exists(r) == log[r] # <<>>
Over(r) == Exists(r) /\ State(r) \in Ended

Active == IF history = <<>> THEN NoVersion ELSE history[Len(history)].to
WasActive(v) == \E i \in DOMAIN history : history[i].to = v

\* The state a process has inspected, and the version of that generation.
Seen(p) == log[job[p].run][at[p]]
Candidate(p) == [run |-> job[p].run, gen |-> Seen(p).gen]

\* Approvals of a run; latestOwnerAuthority takes the last.
Approved(r) == {i \in DOMAIN log[r] : log[r][i].phase = "owner_approve"}
LatestOwnerAuthority(r) ==
  IF Approved(r) = {} THEN NoReceipt
  ELSE log[r][CHOOSE i \in Approved(r) : \A k \in Approved(r) : k <= i].receipt

-----------------------------------------------------------------------------
(* How a step of a process ends. *)

Go(p, label) == pc' = [pc EXCEPT ![p] = label]

Done(p) ==
  /\ Go(p, "idle")
  /\ job' = [job EXCEPT ![p] = NoJob]
  /\ at' = [at EXCEPT ![p] = 0]
  /\ event' = [event EXCEPT ![p] = Accepted]

\* An error that leaves an advance activity fails it for good, unless the
\* workflow has moved on.
Throw(p) ==
  /\ Done(p)
  /\ broken' = IF job[p].op = "advance" /\ job[p].rev = adopted[job[p].run]
                 THEN broken \cup {job[p].run} ELSE broken
  /\ stranded' = IF job[p].op = "fail" THEN stranded \cup {job[p].run} ELSE stranded

Return(p) == Done(p) /\ UNCHANGED <<broken, stranded>>

\* adoptInspection: the workflow goes on from the revision that is returned.
Adopt(p) == Return(p) /\ adopted' = [adopted EXCEPT ![job[p].run] = Len(log[job[p].run])]

\* Mutant: the cause of the failure is not kept.
TerminateNoCause(p, why) == Go(p, "reinspect") /\ UNCHANGED <<job, at, event, broken, stranded>>

\* An error inside #advanceOne goes to #terminateAfterFailure.
Terminate(p, why) ==
  /\ Go(p, "reinspect")
  /\ job' = [job EXCEPT ![p].failing = why]
  /\ UNCHANGED <<at, event, broken, stranded>>

Fail(p, why) ==
  IF job[p].op = "advance" /\ job[p].failing = "no" THEN Terminate(p, why) ELSE Throw(p)

\* An event after the inspected one.
Prepare(p, label, e) ==
  /\ Go(p, label)
  /\ event' = [event EXCEPT ![p] = e]
  /\ UNCHANGED <<job, at, broken, stranded>>

After(p, phase, to) == [Seen(p) EXCEPT !.phase = phase, !.to = to, !.receipt = NoReceipt]

Inspect(p, label) ==
  /\ Go(p, label)
  /\ at' = [at EXCEPT ![p] = Len(log[job[p].run])]
  /\ UNCHANGED <<job, event, broken, stranded>>

-----------------------------------------------------------------------------
(* The calls. *)

Call(p, op, j, label) ==
  /\ op \in Calls
  /\ pc[p] = "idle"
  /\ job' = [job EXCEPT ![p] = j]
  /\ Go(p, label)
  /\ UNCHANGED <<storeVars, at, event, adopted, broken, stranded, caused, faults>>

Overlap(r) ==
  IF \E q \in Procs : job[q].op = "advance" /\ job[q].run = r
    THEN overlaps[r] < MaxOverlaps /\ overlaps' = [overlaps EXCEPT ![r] = @ + 1]
    ELSE UNCHANGED overlaps

StartRun(p, r, b) ==
  /\ b \in versions \cup {NoVersion}
  /\ Call(p, "start", [NoJob EXCEPT !.op = "start", !.run = r, !.base = b], "start")
  /\ UNCHANGED <<begun, overlaps>>

\* The workflow runs one advance activity per revision it has adopted; a second
\* attempt may begin when the first was given up and is still at work.
AdvanceRun(p, r) ==
  /\ Exists(r) /\ ~Over(r) /\ r \notin broken
  /\ LET n == adopted[r] IN
     /\ log[r][n].to \notin Awaiting
     /\ Call(p, "advance", [NoJob EXCEPT !.op = "advance", !.run = r, !.rev = n, !.replay = begun[r] >= n], "before")
     /\ begun' = [begun EXCEPT ![r] = n]
     /\ Overlap(r)

\* A decision on the latest revision, or once more the one that was just taken.
Decide(p, r, action, n) ==
  /\ Exists(r) /\ ~Over(r)
  /\ n \in {Len(log[r]) - 1, Len(log[r])} \ {0}
  /\ log[r][n].to \in Awaiting
  /\ Call(p, "decide", [NoJob EXCEPT !.op = action, !.run = r, !.rev = n,
                         !.receipt = [action |-> action, run |-> r, rev |-> n]], "inspect")
  /\ Overlap(r)
  /\ UNCHANGED begun

CancelRun(p, r) ==
  /\ Exists(r) /\ ~Over(r)
  /\ Call(p, "cancel", [NoJob EXCEPT !.op = "cancel", !.run = r, !.rev = Len(log[r]),
                         !.receipt = [action |-> "cancel", run |-> r, rev |-> Len(log[r])]], "inspect")
  /\ UNCHANGED <<begun, overlaps>>

\* The workflow fails a run whose advance activity has failed, or ends with the
\* error of that.
FailRun(p, r) ==
  /\ r \in broken \ stranded /\ ~Over(r)
  /\ Call(p, "fail", [NoJob EXCEPT !.op = "fail", !.run = r], "inspect")
  /\ UNCHANGED <<begun, overlaps>>

RollbackActivation(p, v) ==
  /\ Len(history) < MaxSwitches
  /\ WasActive(v)
  /\ Call(p, "rollback", [NoJob EXCEPT !.op = "rollback", !.base = v, !.rev = Len(history),
                           !.receipt = [action |-> "rollback", to |-> v, rev |-> Len(history)]], "rollback")
  /\ UNCHANGED <<begun, overlaps>>

-----------------------------------------------------------------------------
(* startRun *)

\* The baseline is the active version, and there is none in create mode.
CheckBaseline(p) ==
  /\ pc[p] = "start"
  /\ IF ~Exists(job[p].run) /\ Active = job[p].base
       THEN /\ Go(p, "create")
            /\ at' = [at EXCEPT ![p] = Len(history)]
            /\ UNCHANGED <<job, event, broken, stranded>>
       ELSE Return(p)
  /\ UNCHANGED <<storeVars, adopted, begun, overlaps, caused, faults>>

\* events.create refuses a run while another one of the target is active.
CreateRun(p) ==
  /\ pc[p] = "create"
  /\ LET r == job[p].run IN
     IF ~Exists(r) /\ \A q \in Runs : Exists(q) => Over(q)
       THEN /\ log' = [log EXCEPT ![r] = <<Accepted>>]
            /\ start' = [start EXCEPT ![r] = at[p]]
            /\ base' = [base EXCEPT ![r] = job[p].base]
            /\ adopted' = [adopted EXCEPT ![r] = 1]
       ELSE UNCHANGED <<log, start, base, adopted>>
  /\ Return(p)
  /\ UNCHANGED <<design, journal, versions, history, begun, overlaps, caused, faults>>

-----------------------------------------------------------------------------
(* foundryAdvanceRunActivity around advanceRunStep. *)

\* Mutant: a state that waits for the owner is missing from ADVANCE_SUCCESSORS.
RecoveredNotAwaiting(p) ==
  LET r == job[p].run IN
  Len(log[r]) = job[p].rev + 1 /\ State(r) \notin {"rejected", "cancelled", "awaiting_owner_active"}

\* recoveredResult: one transition after the expected revision, not an owner's.
Recovered(p) ==
  LET r == job[p].run IN
  Len(log[r]) = job[p].rev + 1 /\ State(r) \notin {"rejected", "cancelled"}

Unchanged == UNCHANGED <<storeVars, adopted, begun, overlaps, caused, faults>>

BeforeAdvance(p) ==
  /\ pc[p] = "before"
  /\ IF Recovered(p) THEN Adopt(p)
     ELSE /\ IF Len(log[job[p].run]) = job[p].rev
               THEN Go(p, "inspect") /\ UNCHANGED <<job, at, event, broken, stranded>>
               ELSE Throw(p)
          /\ UNCHANGED adopted
  /\ UNCHANGED <<storeVars, begun, overlaps, caused, faults>>

AfterAdvance(p) ==
  /\ pc[p] = "after"
  /\ IF Recovered(p) \/ job[p].op = "approve" THEN Adopt(p) ELSE Throw(p) /\ UNCHANGED adopted
  /\ UNCHANGED <<storeVars, begun, overlaps, caused, faults>>

\* advanceRunStep inspects again, whatever revision that is.
InspectRun(p) ==
  /\ pc[p] = "inspect"
  /\ job[p].op = "advance"
  /\ Inspect(p, IF State(job[p].run) \in Ended \cup Awaiting THEN "after" ELSE "work")
  /\ Unchanged

\* Mutant: only the activation is gated, not the canary.
RouteNoOwner(p) ==
  /\ pc[p] = "work"
  /\ \/ Seen(p).to = "accepted" /\ Prepare(p, "append", After(p, "design", "designing"))
     \/ Seen(p).to = "evidence_ready" /\ Prepare(p, "append", After(p, "diagnose", "diagnosing"))
     \/ Seen(p).to = "qualified" /\ Prepare(p, "append", After(p, "qualification_route", "canary"))
  /\ Unchanged

\* The steps that only append.
Route(p) ==
  /\ pc[p] = "work"
  /\ \/ /\ Seen(p).to = "accepted"
        /\ Prepare(p, "append", After(p, "design", "designing"))
     \/ /\ Seen(p).to = "evidence_ready"
        /\ Prepare(p, "append", After(p, "diagnose", "diagnosing"))
     \/ /\ Seen(p).to = "qualified"
        /\ Prepare(p, "append",
             IF job[p].run \in QualifyOnly THEN After(p, "qualify", "completed_qualified")
             ELSE After(p, "qualification_route",
                        IF Seen(p).tier = "high" THEN "awaiting_owner_canary" ELSE "canary"))
  /\ Unchanged

Rank == [low |-> 0, medium |-> 1, high |-> 2]
MaximumRiskTier(a, b) == IF Rank[a] >= Rank[b] THEN a ELSE b

\* A provider's output is found by the operation it was made for, so every
\* attempt sees the same one.
Design(p) ==
  /\ pc[p] = "work"
  /\ Seen(p).to = "designing"
  /\ Prepare(p, "append", [After(p, "blueprint", "materializing")
                             EXCEPT !.tier = MaximumRiskTier(@, design[job[p].run][0])])
  /\ Unchanged

Materialize(p) ==
  /\ pc[p] = "work"
  /\ Seen(p).to = "materializing"
  /\ Prepare(p, "append", After(p, "materialize", "evaluating"))
  /\ Unchanged

\* Mutant: the risk of a generation forgets that of the ones before it.
DiagnoseForgetsRisk(p) ==
  /\ pc[p] = "work"
  /\ Seen(p).to = "diagnosing"
  /\ LET next == Seen(p).gen + 1
         tier == design[job[p].run][next] IN
     Prepare(p, "append",
       IF tier = "unchanged"
         THEN After(p, "evolve_no_change", "completed_unqualified")
         ELSE [After(p, "evolve", "materializing") EXCEPT !.gen = next, !.tier = tier])
  /\ Unchanged

Diagnose(p) ==
  /\ pc[p] = "work"
  /\ Seen(p).to = "diagnosing"
  /\ LET next == Seen(p).gen + 1
         tier == design[job[p].run][next] IN
     Prepare(p, "append",
       IF tier = "unchanged"
         THEN [After(p, "evolve_no_change", "completed_unqualified") EXCEPT !.flat = @ + 1]
         ELSE [After(p, "evolve", "materializing")
                 EXCEPT !.gen = next, !.tier = MaximumRiskTier(@, tier)])
  /\ Unchanged

-----------------------------------------------------------------------------
(* #evaluate, of a candidate or of its canary. *)

Evaluating == {"evaluating", "canary"}
Operation(p) == <<job[p].run, at[p]>>
Phase(p) == IF Seen(p).to = "canary" THEN "canary" ELSE "evaluate"

\* What an evidence leads to.
Improved(p, e) == Seen(p).evidence.score = 0 \/ e.score > Seen(p).evidence.score
Flat(p, e) == IF Improved(p, e) THEN 0 ELSE Seen(p).flat + 1
\* Mutant: generations without improvement are not limited.
ExhaustedByGeneration(p, e) == Seen(p).gen >= MaxGenerations

Exhausted(p, e) == Seen(p).gen >= MaxGenerations \/ Flat(p, e) >= 2

Judged(p, e) ==
  IF e.qualified
    THEN [After(p, Phase(p), IF Seen(p).to = "evaluating" THEN "qualified"
                             ELSE IF Seen(p).tier = "low" THEN "activating" ELSE "awaiting_owner_active")
            EXCEPT !.evidence = e]
    ELSE [After(p, Phase(p), IF Exhausted(p, e) THEN "completed_unqualified" ELSE "evidence_ready")
            EXCEPT !.evidence = e, !.flat = Flat(p, e)]

\* Mutant: the event is appended without registering the version first.
JudgeUnregistered(p, e) == Prepare(p, "append", Judged(p, e))

JudgeResult(p, e) ==
  Prepare(p, IF e.qualified /\ Seen(p).to = "evaluating" THEN "register" ELSE "append", Judged(p, e))

\* The operation key of the activity is that of the revision it expects.
ReadResult(p) ==
  /\ pc[p] = "work"
  /\ Seen(p).to \in Evaluating
  /\ IF log[job[p].run][job[p].rev].to \in Evaluating /\ at[p] # job[p].rev
       THEN Fail(p, "quarantined")
     ELSE IF Operation(p) \in DOMAIN journal
       THEN JudgeResult(p, journal[Operation(p)])
     ELSE IF job[p].replay THEN Throw(p)
     ELSE Go(p, "evaluate") /\ UNCHANGED <<job, at, event, broken, stranded>>
  /\ Unchanged

\* Mutant: the journal keeps the first answer, but the attempt goes on with its own.
EvaluateOwnAnswer(p, e) ==
  /\ pc[p] = "evaluate"
  /\ LET op == Operation(p) IN
     journal' = IF op \in DOMAIN journal THEN journal
                ELSE [k \in DOMAIN journal \cup {op} |-> IF k = op THEN e ELSE journal[k]]
  /\ JudgeResult(p, e)
  /\ UNCHANGED <<log, start, base, design, versions, history, adopted, begun, overlaps, caused, faults>>

\* The evaluator's answer is committed to the operation journal, once.
Evaluate(p, e) ==
  /\ pc[p] = "evaluate"
  /\ LET op == Operation(p) IN
     IF op \in DOMAIN journal
       THEN /\ IF journal[op] = e THEN JudgeResult(p, e) ELSE Fail(p, "quarantined")
            /\ UNCHANGED journal
       ELSE /\ journal' = [k \in DOMAIN journal \cup {op} |-> IF k = op THEN e ELSE journal[k]]
            /\ JudgeResult(p, e)
  /\ UNCHANGED <<log, start, base, design, versions, history, adopted, begun, overlaps, caused, faults>>

RegisterVersion(p) ==
  /\ pc[p] = "register"
  /\ versions' = versions \cup {Candidate(p)}
  /\ Go(p, "append")
  /\ UNCHANGED <<log, start, base, design, journal, history, job, at, event, noteVars, faults>>

-----------------------------------------------------------------------------
(* #activate and rollbackActivation *)

\* Mutant: the first approval is taken for the latest.
ReadAuthorityFirst(p) ==
  /\ pc[p] = "work"
  /\ Seen(p).to = "activating"
  /\ LET r == job[p].run
         approval == IF Approved(r) = {} THEN NoReceipt
                     ELSE log[r][CHOOSE i \in Approved(r) : \A k \in Approved(r) : i <= k].receipt IN
     Prepare(p, "switch", [After(p, "activate", "completed_active") EXCEPT !.receipt = approval])
  /\ Unchanged

ReadAuthority(p) ==
  /\ pc[p] = "work"
  /\ Seen(p).to = "activating"
  /\ LET approval == LatestOwnerAuthority(job[p].run) IN
     IF Candidate(p) \notin versions \/ (Seen(p).tier # "low" /\ approval = NoReceipt)
       THEN Fail(p, "quarantined")
       ELSE Prepare(p, "switch", [After(p, "activate", "completed_active") EXCEPT !.receipt = approval])
  /\ Unchanged

Activation(p) == [kind |-> "activate", to |-> Candidate(p), receipt |-> event[p].receipt]

\* Mutant: the switch takes the current activation revision, not that of the start.
SwitchAtCurrent(p) ==
  /\ pc[p] = "switch"
  /\ history' = Append(history, Activation(p))
  /\ Go(p, "append") /\ UNCHANGED <<job, at, event, broken, stranded>>
  /\ UNCHANGED <<log, start, base, design, journal, versions, adopted, begun, overlaps, caused, faults>>

\* commitFoundryActivation: a transaction that took the revision the run
\* started from is this one, or the run is too late.
SwitchActivation(p) ==
  /\ pc[p] = "switch"
  /\ LET r == job[p].run IN
     IF Len(history) > start[r]
       THEN /\ IF history[start[r] + 1] = Activation(p)
                 THEN Go(p, "append") /\ UNCHANGED <<job, at, event, broken, stranded>>
                 ELSE Fail(p, "quarantined")
            /\ UNCHANGED history
       ELSE /\ history' = Append(history, Activation(p))
            /\ Go(p, "append") /\ UNCHANGED <<job, at, event, broken, stranded>>
  /\ UNCHANGED <<log, start, base, design, journal, versions, adopted, begun, overlaps, caused, faults>>

RollBack(p) ==
  /\ pc[p] = "rollback"
  /\ history' = IF Len(history) = job[p].rev /\ job[p].base # Active
                  THEN Append(history, [kind |-> "rollback", to |-> job[p].base, receipt |-> job[p].receipt])
                  ELSE history
  /\ Return(p)
  /\ UNCHANGED <<log, start, base, design, journal, versions, adopted, begun, overlaps, caused, faults>>

-----------------------------------------------------------------------------
(* Owner decisions, cancellation and failures inspect the latest revision and *)
(* append to it.                                                              *)

AppendTo(p, phase, to, receipt) ==
  LET r == job[p].run IN
  /\ Go(p, "append")
  /\ at' = [at EXCEPT ![p] = Len(log[r])]
  /\ event' = [event EXCEPT ![p] = [Latest(r) EXCEPT !.phase = phase, !.to = to, !.receipt = receipt]]
  /\ UNCHANGED <<job, broken, stranded>>

\* What follows an owner's decision on the state the run waits in.
Decided(r, op) ==
  CASE op = "reject" -> "rejected"
    [] op = "cancel" -> "cancelled"
    [] op = "approve" -> IF State(r) = "awaiting_owner_canary" THEN "canary" ELSE "activating"
DecisionPhase(op) ==
  CASE op = "approve" -> "owner_approve" [] op = "reject" -> "owner_reject" [] op = "cancel" -> "cancel"

\* A run that has moved on is refused, unless it has this very decision.
InspectDecision(p) ==
  /\ pc[p] = "inspect"
  /\ job[p].op \in Actions
  /\ LET r == job[p].run
         n == job[p].rev IN
     IF Len(log[r]) = n
       THEN AppendTo(p, DecisionPhase(job[p].op), Decided(r, job[p].op), job[p].receipt) /\ UNCHANGED adopted
     ELSE IF log[r][n + 1].receipt = job[p].receipt
       THEN Adopt(p)
       ELSE Return(p) /\ UNCHANGED adopted
  /\ UNCHANGED <<storeVars, begun, overlaps, caused, faults>>

InspectFailure(p) ==
  /\ pc[p] = "inspect"
  /\ job[p].op = "fail"
  /\ IF Over(job[p].run) THEN Return(p) ELSE AppendTo(p, "failure", "failed", NoReceipt)
  /\ Unchanged

\* #terminateAfterFailure looks at the run again, whatever it is by now.
TerminateAfterFailure(p) ==
  /\ pc[p] = "reinspect"
  /\ IF Over(job[p].run)
       THEN Go(p, "after") /\ UNCHANGED <<job, at, event, broken, stranded>>
       ELSE AppendTo(p, IF job[p].failing = "failed" THEN "failure" ELSE "quarantine", job[p].failing, NoReceipt)
  /\ Unchanged

-----------------------------------------------------------------------------
(* #append *)

\* run / generation / phase / input digest
IdempotencyKey(e) == <<e.gen, e.phase, e.evidence, e.receipt>>

\* Mutant: an event is not held against the transitions of its run.
VerdictAnyTransition(r, n, e) ==
  LET same == {i \in DOMAIN log[r] : IdempotencyKey(log[r][i]) = IdempotencyKey(e)} IN
  IF Over(r) THEN "refused"
  ELSE IF same # {} THEN IF same = {n + 1} /\ log[r][n + 1] = e THEN "replayed" ELSE "refused"
  ELSE IF Len(log[r]) = n THEN "appended" ELSE "refused"

\* The store replays the event that has this key after the expected revision,
\* else compares and swaps; a run that is over takes nothing, replay or not.
Verdict(r, n, e) ==
  LET same == {i \in DOMAIN log[r] : IdempotencyKey(log[r][i]) = IdempotencyKey(e)} IN
  IF Over(r) \/ e.to \notin Transitions[log[r][n].to] THEN "refused"
  ELSE IF same # {} THEN IF same = {n + 1} /\ log[r][n + 1] = e THEN "replayed" ELSE "refused"
  ELSE IF Len(log[r]) = n THEN "appended" ELSE "refused"

Commit(p) == log' = [log EXCEPT ![job[p].run] = Append(@, event[p])]

Appended(p) ==
  IF job[p].op \in {"advance", "approve"} THEN Go(p, "after") /\ UNCHANGED <<job, at, event, broken, stranded>> ELSE Return(p)

AppendEvent(p) ==
  /\ pc[p] = "append"
  /\ LET verdict == Verdict(job[p].run, at[p], event[p]) IN
     /\ IF verdict = "appended" THEN Commit(p) ELSE UNCHANGED log
     /\ IF verdict = "refused" THEN Fail(p, "quarantined") ELSE Appended(p)
  /\ UNCHANGED <<start, base, design, journal, versions, history, adopted, begun, overlaps, caused, faults>>

-----------------------------------------------------------------------------
(* Failures. *)

Fault == faults < MaxFaults /\ faults' = faults + 1

\* A lock file of another process turns any call of a store into a contract error.
Contended(p) ==
  /\ Fault
  /\ pc[p] \in Pc \ {"idle", "work"}
  /\ IF pc[p] \in {"before", "inspect", "reinspect", "after"} THEN Throw(p) ELSE Fail(p, "quarantined")
  /\ UNCHANGED <<storeVars, adopted, begun, overlaps, caused>>

\* The event or transaction is durable, but the call fails; after a journaled
\* result the attempt is repeated.
AppendLost(p, why) ==
  /\ Fault
  /\ pc[p] = "append"
  /\ Verdict(job[p].run, at[p], event[p]) = "appended"
  /\ Commit(p)
  /\ IF why = "failed" /\ event[p].phase \in {"evaluate", "canary"} THEN Return(p) ELSE Fail(p, why)
  /\ UNCHANGED <<start, base, design, journal, versions, history, adopted, begun, overlaps, caused>>

SwitchLost(p) ==
  /\ Fault
  /\ pc[p] = "switch"
  /\ Len(history) = start[job[p].run]
  /\ history' = Append(history, Activation(p))
  /\ Fail(p, "failed")
  /\ UNCHANGED <<log, start, base, design, journal, versions, adopted, begun, overlaps, caused>>

Crash(p) ==
  /\ Fault
  /\ pc[p] # "idle"
  /\ Return(p)
  /\ UNCHANGED <<storeVars, adopted, begun, overlaps, caused>>

\* Bad output is a contract failure, any other error a runtime failure; a
\* transient one is thrown for Temporal to retry until it gives up (a retried
\* evaluation finds no journaled result, and fails).
ProviderFails(p, how) ==
  /\ BadProviders
  /\ \/ pc[p] = "work" /\ Seen(p).to \in {"designing", "materializing", "diagnosing"}
     \/ pc[p] \in {"evaluate", "switch"}
  /\ caused' = caused \cup {job[p].run}
  /\ CASE how = "transient" -> Return(p)
       [] how = "exhausted" -> Throw(p)
       [] OTHER -> Fail(p, how)
  /\ UNCHANGED <<storeVars, adopted, begun, overlaps, faults>>

-----------------------------------------------------------------------------
CallSomething(p) ==
  \/ \E r \in instance.runs, b \in Versions \cup {NoVersion} : StartRun(p, r, b)
  \/ \E r \in Runs : AdvanceRun(p, r) \/ CancelRun(p, r) \/ FailRun(p, r)
  \/ \E r \in Runs, action \in {"approve", "reject"} : \E n \in DOMAIN log[r] : Decide(p, r, action, n)
  \/ \E v \in Versions : RollbackActivation(p, v)

AdvanceOne(p) ==
  \/ Route(p) \/ Design(p) \/ Materialize(p) \/ Diagnose(p)
  \/ ReadResult(p) \/ (\E e \in Evidence : e.score # 0 /\ Evaluate(p, e)) \/ RegisterVersion(p)
  \/ ReadAuthority(p) \/ SwitchActivation(p)

Step(p) ==
  \/ CheckBaseline(p) \/ CreateRun(p)
  \/ BeforeAdvance(p) \/ InspectRun(p) \/ AdvanceOne(p) \/ AfterAdvance(p)
  \/ InspectDecision(p) \/ InspectFailure(p) \/ TerminateAfterFailure(p)
  \/ AppendEvent(p) \/ RollBack(p)

Trouble(p) ==
  \/ Contended(p) \/ SwitchLost(p) \/ Crash(p)
  \/ \E why \in Fails : AppendLost(p, why)
  \/ \E how \in Fails \cup {"transient", "exhausted"} : ProviderFails(p, how)

Next ==
  /\ \E p \in instance.procs : CallSomething(p) \/ Step(p) \/ Trouble(p)
  /\ UNCHANGED instance

Spec == Init /\ [][Next]_vars

-----------------------------------------------------------------------------
(* Properties. *)

\* What a version must have gone through before it becomes active.
Passed(r, g, phase, to) == \E i \in DOMAIN log[r] : log[r][i].gen = g /\ log[r][i].phase = phase /\ log[r][i].to \in to
Risky(r, g, tiers) == \E k \in 0..g : design[r][k] \in tiers
ApprovedIn(r, g, from) ==
  \E i \in DOMAIN log[r] :
    /\ log[r][i].gen = g /\ log[r][i].phase = "owner_approve"
    /\ log[r][i - 1].to = from

\* A version became active only after it was registered, qualified and passed
\* its canary in its generation, and with the owner's approvals in that very
\* generation that the riskiest change since the baseline asks for: of the
\* canary for a high risk, of the switch unless all are low.  The transaction
\* carries the approval of the switch.
ActivatedWasEarned ==
  \A i \in DOMAIN history :
    history[i].kind = "activate" =>
      LET r == history[i].to.run
          g == history[i].to.gen IN
      /\ history[i].to \in versions
      /\ Passed(r, g, "evaluate", {"qualified"})
      /\ Passed(r, g, "canary", {"activating", "awaiting_owner_active"})
      /\ Risky(r, g, {"high"}) => ApprovedIn(r, g, "awaiting_owner_canary")
      /\ Risky(r, g, {"medium", "high"}) =>
           \E k \in DOMAIN log[r] : /\ log[r][k].gen = g /\ log[r][k].receipt = history[i].receipt
                                    /\ log[r][k].phase = "owner_approve"
                                    /\ log[r][k - 1].to = "awaiting_owner_active"

\* A run switches from the very version it was started to improve, or from none
\* in create mode: no switch or rollback came between.
ImprovesItsBaseline ==
  \A i \in DOMAIN history :
    history[i].kind = "activate" =>
      LET r == history[i].to.run IN
      /\ start[r] = i - 1
      /\ base[r] = IF i = 1 THEN NoVersion ELSE history[i - 1].to

\* inspectRun never fails on a run (buildFoundryRunTerminalReadback): its
\* version is registered, and a completed activation has its transaction, with
\* the approval the tier asks for.
InspectionHolds ==
  \A r \in Runs :
    /\ Exists(r) /\ State(r) \in {"qualified", "awaiting_owner_canary", "canary", "awaiting_owner_active",
                               "activating", "completed_active", "completed_qualified"}
         => [run |-> r, gen |-> Latest(r).gen] \in versions
    /\ Exists(r) /\ State(r) = "completed_active" =>
         /\ Len(history) > start[r]
         /\ history[start[r] + 1] = [kind |-> "activate", to |-> [run |-> r, gen |-> Latest(r).gen],
                                    receipt |-> LatestOwnerAuthority(r)]

\* A run that switched the active version completes, or may still: its switch
\* is the one its next attempt will ask for.  A run the owner cancelled or
\* rejected, or that did not qualify, never switches the active version,
\* whatever attempt of it is still at work.
SwitchFollowsRun ==
  \A i \in DOMAIN history :
    LET r == history[i].to.run IN
    history[i].kind = "activate" =>
      /\ State(r) \in {"activating", "completed_active"} \cup Fails
      /\ State(r) = "activating" =>
           history[i] = [kind |-> "activate", to |-> [run |-> r, gen |-> Latest(r).gen],
                         receipt |-> LatestOwnerAuthority(r)]

\* The version registry and the run it serves agree, whichever is read first.
RunAndSwitchAgree == InspectionHolds /\ SwitchFollowsRun

\* A run never has more generations than its policy allows, nor three
\* evaluations in a row without improvement.
BudgetHolds ==
  \A r \in Runs : \A i \in DOMAIN log[r] : log[r][i].gen <= MaxGenerations /\ log[r][i].flat <= 2

\* The evidence in the log is the journaled result of the operation on the
\* revision before it.
LogMatchesJournal ==
  \A r \in Runs : \A i \in DOMAIN log[r] :
    log[r][i].phase \in {"evaluate", "canary"} =>
      <<r, i - 1>> \in DOMAIN journal /\ journal[<<r, i - 1>>] = log[r][i].evidence

\* The log keeps within the policy and reports what the operations answered,
\* however attempts overlap and die between an operation and its event.
LogHolds == BudgetHolds /\ LogMatchesJournal

\* A run fails or is quarantined only because its provider or evaluator failed,
\* a store failed, the active version moved away, or another attempt or an
\* owner's decision began while an attempt was at work.
FailureHasCause ==
  \A r \in Runs :
    Exists(r) /\ State(r) \in Fails =>
      \/ r \in caused \/ overlaps[r] > 0
      \/ faults > 0
      \/ Len(history) > start[r] /\ history[start[r] + 1].to.run # r

\* "瞬时平台失败最多重试三次": a run is quarantined for what its provider or
\* evaluator put out, not because another process held a lock for a moment.
QuarantineNeedsOutput ==
  \A r \in Runs : Exists(r) /\ State(r) = "quarantined" => r \in caused
=============================================================================
