------------------------ MODULE FoundryKernel_proofs ------------------------
(* Theorems about the kernel of one target, for any processes, runs,       *)
(* requests, providers and bounds.                                         *)
EXTENDS FoundryKernel, SequenceTheorems, WellFoundedInduction, NaturalsInduction, TLAPS

-----------------------------------------------------------------------------
(* What a call carries, and what has been inspected for it. *)

OnRun == {"advance", "fail"} \cup Actions
AtWork == {"work", "evaluate", "register", "switch", "append"}
Risks == {"low", "medium", "high"}

\* The calls that reach a point.
OpsAt ==
  [l \in Pc |->
     CASE l = "idle" -> {"none"}
       [] l \in {"start", "create"} -> {"start"}
       [] l \in {"inspect", "append"} -> OnRun
       [] l = "after" -> {"advance", "approve"}
       [] l = "rollback" -> {"rollback"}
       [] l = "authority" -> {}
       [] OTHER -> {"advance"}]

\* What a call carries, and what it has been called with or has inspected.
CallFits(p) ==
  LET j == job[p] IN
  /\ j.op \in OpsAt[pc[p]]
  /\ j.op = "start" => j.run \in instance.runs
  /\ j.op = "rollback" => j.base \in Versions /\ j.receipt \in Receipts
  /\ j.op \in OnRun => j.run \in Runs /\ Exists(j.run)
  /\ j.op \in OnRun \ {"fail"} => j.rev \in 1..Len(log[j.run])
  /\ j.op \in Actions => /\ j.receipt = [action |-> j.op, run |-> j.run, rev |-> j.rev]
                         /\ log[j.run][j.rev].to \notin Ended
  /\ j.op \in {"approve", "reject"} => log[j.run][j.rev].to \in Awaiting
  /\ pc[p] \in AtWork => at[p] \in 1..Len(log[j.run])
  /\ pc[p] = "reinspect" => j.failing \in Fails
  /\ pc[p] \notin {"reinspect", "append", "after"} => j.failing = "no"

RunFits(r) ==
  /\ Exists(r) => r \in instance.runs /\ adopted[r] \in 1..Len(log[r])
  /\ ~Exists(r) => r \notin broken /\ begun[r] = 0

\* Every request is designed for before anything else.
Designed == \A r \in instance.runs : design[r][0] # "unchanged"

\* Three evaluations in a row without improvement end a run, and so does the
\* last generation.
Budgeted(e) ==
  /\ e.flat <= IF e.to = "completed_unqualified" THEN 2 ELSE 1
  /\ e.to \in {"evidence_ready", "diagnosing"} => e.gen < MaxGenerations

Shape ==
  /\ TypeOK /\ Designed
  /\ \A p \in Procs : CallFits(p)
  /\ \A r \in Runs : RunFits(r)

-----------------------------------------------------------------------------
(* Where a phase leads, and what an event keeps of the one before it. *)

Leads(d, e) ==
  \/ e.phase = "design" /\ d.to = "accepted" /\ e.to = "designing"
  \/ e.phase = "blueprint" /\ d.to = "designing" /\ e.to = "materializing"
  \/ e.phase = "materialize" /\ d.to = "materializing" /\ e.to = "evaluating"
  \/ e.phase = "evaluate" /\ d.to = "evaluating" /\ e.to \in {"qualified", "evidence_ready", "completed_unqualified"}
  \/ e.phase = "qualify" /\ d.to = "qualified" /\ e.to = "completed_qualified"
  \/ /\ e.phase = "qualification_route" /\ d.to = "qualified"
     /\ e.to = IF d.tier = "high" THEN "awaiting_owner_canary" ELSE "canary"
  \/ /\ e.phase = "canary" /\ d.to = "canary"
     /\ e.to \in {"evidence_ready", "completed_unqualified",
                  IF d.tier = "low" THEN "activating" ELSE "awaiting_owner_active"}
  \/ e.phase = "diagnose" /\ d.to = "evidence_ready" /\ e.to = "diagnosing"
  \/ e.phase = "evolve" /\ d.to = "diagnosing" /\ e.to = "materializing"
  \/ e.phase = "evolve_no_change" /\ d.to = "diagnosing" /\ e.to = "completed_unqualified"
  \/ e.phase = "activate" /\ d.to = "activating" /\ e.to = "completed_active"
  \/ e.phase = "owner_approve" /\ d.to = "awaiting_owner_canary" /\ e.to = "canary"
  \/ e.phase = "owner_approve" /\ d.to = "awaiting_owner_active" /\ e.to = "activating"
  \/ e.phase = "owner_reject" /\ d.to \in Awaiting /\ e.to = "rejected"
  \/ e.phase = "cancel" /\ d.to \notin Ended /\ e.to = "cancelled"
  \/ e.phase \in {"failure", "quarantine"} /\ d.to \notin Ended /\ e.to \in Fails

Keeps(r, d, e) ==
  /\ e.phase = "evolve" => e.gen = d.gen + 1 /\ design[r][e.gen] \in Risks /\ e.tier = MaximumRiskTier(d.tier, design[r][e.gen])
  /\ e.phase # "evolve" => e.gen = d.gen
  /\ e.phase = "blueprint" => e.tier = MaximumRiskTier(d.tier, design[r][0])
  /\ e.phase \notin {"evolve", "blueprint"} => e.tier = d.tier

\* An event that may come next after revision n of a run.
Fits(r, n, e) ==
  /\ Leads(log[r][n], e) /\ Keeps(r, log[r][n], e) /\ Budgeted(e)
  /\ e.phase \in {"evaluate", "canary"} => <<r, n>> \in DOMAIN journal /\ journal[<<r, n>>] = e.evidence
  /\ e.phase = "owner_approve" => e.receipt = [action |-> "approve", run |-> r, rev |-> n]

Registered(r, e) == e.to = "qualified" => [run |-> r, gen |-> e.gen] \in versions

Chained(r) ==
  /\ Exists(r) => log[r][1] = Accepted
  /\ \A n \in 1..Len(log[r]) - 1 :
       LET e == log[r][n + 1] IN
       Fits(r, n, e) /\ Registered(r, e) /\ e.to \in Transitions[log[r][n].to]

Prepared(p) ==
  LET r == job[p].run IN
  /\ pc[p] \in {"register", "switch", "append"} => Fits(r, at[p], event[p])
  /\ pc[p] = "register" => event[p].to = "qualified"
  /\ pc[p] = "switch" => event[p].phase = "activate"
  /\ pc[p] = "append" =>
       /\ Registered(r, event[p])
       /\ event[p].to \in Fails => job[p].op = "fail" \/ job[p].failing # "no"
       /\ job[p].op \in Actions => at[p] = job[p].rev /\ event[p].phase = DecisionPhase(job[p].op)
       /\ job[p].op = "fail" => event[p].phase = "failure"
       /\ job[p].op = "advance" /\ job[p].failing = "no" => event[p].phase \notin {"owner_approve", "owner_reject", "cancel"}
  /\ pc[p] = "evaluate" => log[r][at[p]].to \in Evaluating
  /\ pc[p] \in {"work", "evaluate"} => log[r][at[p]].to \notin Ended \cup Awaiting

-----------------------------------------------------------------------------
(* What a run has gone through in its generation. *)
Qualified == {"qualified", "canary", "activating", "completed_active", "completed_qualified"} \cup Awaiting
Canaried == {"awaiting_owner_active", "activating", "completed_active"}
Risked == {"materializing", "evaluating", "evidence_ready", "diagnosing"} \cup Qualified

\* The risk tier covers what is designed in the generation and the ones before.
Covers(r, e) == \A k \in 0..e.gen : design[r][k] \in Risks /\ Rank[design[r][k]] <= Rank[e.tier]

Earned(r, n) ==
  LET e == log[r][n] IN
  /\ e.to \in {"accepted", "designing"} => e.gen = 0
  /\ e.to \in Risked => Covers(r, e)
  /\ e.to \in Qualified => /\ [run |-> r, gen |-> e.gen] \in versions
                           /\ Passed(r, e.gen, "evaluate", {"qualified"})
  /\ e.to \in Canaried => Passed(r, e.gen, "canary", {"activating", "awaiting_owner_active"})
  /\ e.to \in Canaried \cup {"canary"} /\ e.tier = "high" => ApprovedIn(r, e.gen, "awaiting_owner_canary")
  /\ e.to = "activating" /\ e.tier # "low" => e.phase = "owner_approve" /\ log[r][n - 1].to = "awaiting_owner_active"

-----------------------------------------------------------------------------
(* Switches. *)
ActiveAt(n) == IF n = 0 THEN NoVersion ELSE history[n].to

Based ==
  /\ \A r \in Runs : Exists(r) => start[r] \in 0..Len(history) /\ base[r] = ActiveAt(start[r])
  /\ \A p \in Procs : pc[p] = "create" => at[p] \in 0..Len(history) /\ job[p].base = ActiveAt(at[p])

SwitchOf(r, n) == [kind |-> "activate", to |-> [run |-> r, gen |-> log[r][n].gen], receipt |-> LatestOwnerAuthority(r)]

Switched(i) ==
  LET r == history[i].to.run IN
  /\ history[i].kind = "activate" =>
       /\ Exists(r) /\ start[r] = i - 1
       /\ \E n \in DOMAIN log[r] : log[r][n].to = "activating" /\ history[i] = SwitchOf(r, n)
  /\ history[i].kind = "rollback" =>
       \E k \in 1..i - 1 : history[k].kind = "activate" /\ history[k].to = history[i].to

Switches(p) ==
  LET r == job[p].run IN
  /\ pc[p] = "rollback" => WasActive(job[p].base)
  /\ pc[p] \in {"switch", "append"} /\ event[p].phase = "activate" =>
       /\ event[p].receipt = LatestOwnerAuthority(r)
       /\ pc[p] = "append" => Len(history) > start[r] /\ history[start[r] + 1] = SwitchOf(r, at[p])

Completed(r) ==
  Exists(r) /\ State(r) = "completed_active" =>
    Len(history) > start[r] /\ history[start[r] + 1] = SwitchOf(r, Len(log[r]))


-----------------------------------------------------------------------------
(* Numbers. *)

\* A non-empty set of numbers has a smallest one, and a largest one if it is
\* bounded.
LEMMA SmallestOf ==
  ASSUME NEW S \in SUBSET Nat, S # {}
  PROVE  \E i \in S : \A k \in S : i <= k
<1> DEFINE R == OpToRel(<, Nat)
<1>1. IsWellFoundedOn(R, Nat)
  BY NatLessThanWellFounded
<1>2. R = {ss \in Nat \X Nat : ss[1] < ss[2]}
  BY DEF OpToRel
<1> HIDE DEF R
<1>3. PICK i \in S : \A k \in S : ~ (<<k, i>> \in R)
  BY <1>1, WFMin
<1>4. ASSUME NEW k \in S
      PROVE  i <= k
  <2>1. ~(k < i) /\ i \in Nat /\ k \in Nat
    BY <1>2, <1>3
  <2> QED
    BY <2>1
<1> QED
  BY <1>4

LEMMA LargestOf ==
  ASSUME NEW n \in Nat, NEW S \in SUBSET (1..n), S # {}
  PROVE  \E i \in S : \A k \in S : k <= i
<1> DEFINE T == {n - k : k \in S}
<1>0. ASSUME NEW k \in S
      PROVE  n - k \in Nat
  OBVIOUS
<1>1. T \subseteq Nat
  BY <1>0
<1>5. T # {}
  OBVIOUS
<1>2. PICK x \in T : \A y \in T : x <= y
  BY <1>1, <1>5, SmallestOf
<1>3. PICK i \in S : x = n - i
  BY <1>2
<1>4. ASSUME NEW k \in S
      PROVE  k <= i
  <2>1. n - i <= n - k
    BY <1>2, <1>3
  <2> QED
    BY <2>1
<1> QED
  BY <1>4

-----------------------------------------------------------------------------
(* What a step does to the stores, and how its process moves. *)

Acts(p) == CallSomething(p) \/ Step(p) \/ Trouble(p)

Goes(p, l, j, n, e) ==
  /\ pc' = [pc EXCEPT ![p] = l] /\ job' = [job EXCEPT ![p] = j]
  /\ at' = [at EXCEPT ![p] = n] /\ event' = [event EXCEPT ![p] = e]

Creates(p) ==
  LET r == job[p].run IN
  /\ pc[p] = "create" /\ ~Exists(r)
  /\ \A q \in Runs : Exists(q) => Over(q)
  /\ log' = [log EXCEPT ![r] = <<Accepted>>]
  /\ start' = [start EXCEPT ![r] = at[p]]
  /\ base' = [base EXCEPT ![r] = job[p].base]
  /\ adopted' = [adopted EXCEPT ![r] = 1]
  /\ UNCHANGED <<design, journal, versions, history>>

Commits(p) ==
  /\ pc[p] = "append" /\ Verdict(job[p].run, at[p], event[p]) = "appended"
  /\ Commit(p)
  /\ UNCHANGED <<start, base, design, journal, versions, history>>

Journals(p, e) ==
  /\ pc[p] = "evaluate" /\ Operation(p) \notin DOMAIN journal
  /\ journal' = [k \in DOMAIN journal \cup {Operation(p)} |-> IF k = Operation(p) THEN e ELSE journal[k]]
  /\ UNCHANGED <<log, start, base, design, versions, history>>

Registers(p) ==
  /\ pc[p] = "register" /\ versions' = versions \cup {Candidate(p)}
  /\ UNCHANGED <<log, start, base, design, journal, history>>

SwitchesOver(p) ==
  /\ pc[p] = "switch" /\ ~(Len(history) > start[job[p].run])
  /\ history' = Append(history, Activation(p))
  /\ UNCHANGED <<log, start, base, design, journal, versions>>

RollsBack(p) ==
  /\ pc[p] = "rollback"
  /\ history' = Append(history, [kind |-> "rollback", to |-> job[p].base, receipt |-> job[p].receipt])
  /\ UNCHANGED <<log, start, base, design, journal, versions>>

Stores(p) ==
  \/ UNCHANGED storeVars
  \/ Creates(p) \/ Commits(p) \/ (\E e \in Evidence : Journals(p, e)) \/ Registers(p)
  \/ SwitchesOver(p) \/ RollsBack(p)

LEMMA StepOfOne ==
  ASSUME TypeOK, Next
  PROVE  UNCHANGED instance /\ \E p \in Procs : Acts(p)
BY FoundryKernelAssumption DEF TypeOK, Next, Acts

LEMMA StoreMoves ==
  ASSUME TypeOK, NEW p \in Procs, Acts(p)
  PROVE  Stores(p)
<1> USE DEF Stores, storeVars
<1>1. CASE CallSomething(p)
  BY <1>1, ZenonT(40) DEF CallSomething, StartRun, AdvanceRun, Decide, CancelRun, FailRun, RollbackActivation, Call
<1>2. CASE CheckBaseline(p) \/ BeforeAdvance(p) \/ InspectRun(p) \/ AfterAdvance(p)
  BY <1>2 DEF CheckBaseline, BeforeAdvance, InspectRun, AfterAdvance, Unchanged
<1>3. CASE InspectDecision(p) \/ InspectFailure(p) \/ TerminateAfterFailure(p)
  BY <1>3 DEF InspectDecision, InspectFailure, TerminateAfterFailure, Unchanged
<1>4. CASE Contended(p) \/ Crash(p) \/ \E how \in Fails \cup {"transient", "exhausted"} : ProviderFails(p, how)
  BY <1>4 DEF Contended, Crash, ProviderFails
<1>5. CASE Route(p) \/ Design(p) \/ Materialize(p) \/ Diagnose(p) \/ ReadResult(p) \/ ReadAuthority(p)
  BY <1>5 DEF Route, Design, Materialize, Diagnose, ReadResult, ReadAuthority, Unchanged
<1>6. CASE CreateRun(p)
  BY <1>6 DEF CreateRun, Creates
<1>7. CASE AppendEvent(p) \/ \E why \in Fails : AppendLost(p, why)
  BY <1>7 DEF AppendEvent, AppendLost, Commits
<1>8. CASE \E e \in Evidence : e.score # 0 /\ Evaluate(p, e)
  BY <1>8 DEF Evaluate, Journals
<1>9. CASE RegisterVersion(p)
  BY <1>9 DEF RegisterVersion, Registers
<1>10. CASE SwitchActivation(p) \/ SwitchLost(p)
  <2>1. Len(history) \in Nat
    BY DEF TypeOK
  <2>2. CASE SwitchActivation(p)
    BY <2>2 DEF SwitchActivation, SwitchesOver
  <2>3. CASE SwitchLost(p)
    BY <2>1, <2>3 DEF SwitchLost, SwitchesOver
  <2> QED
    BY <1>10, <2>2, <2>3
<1>11. CASE RollBack(p)
  BY <1>11 DEF RollBack, RollsBack
<1> QED
  BY <1>1, <1>2, <1>3, <1>4, <1>5, <1>6, <1>7, <1>8, <1>9, <1>10, <1>11 DEF Acts, Step, AdvanceOne, Trouble

\* The event that a process at work prepares, and where it goes with it.
Label(e) == IF e.phase = "activate" THEN "switch" ELSE IF e.to = "qualified" THEN "register" ELSE "append"

FitsNow(p, e) ==
  LET r == job[p].run IN
  /\ Leads(Seen(p), e) /\ Keeps(r, Seen(p), e) /\ Budgeted(e)
  /\ e.phase \in {"evaluate", "canary"} => Operation(p) \in DOMAIN journal' /\ journal'[Operation(p)] = e.evidence
  /\ e.phase \notin {"owner_approve", "owner_reject", "cancel", "failure", "quarantine"}
  /\ e.phase = "activate" => e.receipt = LatestOwnerAuthority(r)

Prepares(p) ==
  /\ pc[p] \in {"work", "evaluate"} /\ UNCHANGED <<log, design, history, versions>>
  /\ \E e \in Event : FitsNow(p, e) /\ Goes(p, Label(e), job[p], at[p], e)

AppendsTo(p) ==
  LET r == job[p].run IN
  /\ UNCHANGED storeVars /\ ~Over(r)
  /\ \E e \in Event :
       /\ Goes(p, "append", job[p], Len(log[r]), e)
       /\ Leads(Latest(r), e) /\ Keeps(r, Latest(r), e) /\ Budgeted(e)
       /\ \/ /\ pc[p] = "inspect" /\ job[p].op \in Actions /\ Len(log[r]) = job[p].rev
             /\ e.receipt = job[p].receipt /\ e.phase = DecisionPhase(job[p].op)
          \/ pc[p] = "inspect" /\ job[p].op = "fail" /\ e.phase = "failure"
          \/ pc[p] = "reinspect" /\ e.phase \in {"failure", "quarantine"}

Terminates(p) ==
  /\ pc[p] \in AtWork /\ job[p].op = "advance" /\ job[p].failing = "no"
  /\ \E why \in Fails : Goes(p, "reinspect", [job[p] EXCEPT !.failing = why], at[p], event[p])

Advances(p, l) == Goes(p, l, job[p], at[p], event[p])

Moves(p) ==
  \/ Done(p)
  \/ CallSomething(p)
  \/ /\ pc[p] = "start" /\ UNCHANGED storeVars /\ Active = job[p].base
     /\ Goes(p, "create", job[p], Len(history), event[p])
  \/ pc[p] = "before" /\ UNCHANGED storeVars /\ Advances(p, "inspect")
  \/ /\ pc[p] = "inspect" /\ job[p].op = "advance" /\ UNCHANGED storeVars
     /\ Goes(p, IF State(job[p].run) \in Ended \cup Awaiting THEN "after" ELSE "work",
             job[p], Len(log[job[p].run]), event[p])
  \/ Prepares(p)
  \/ /\ pc[p] = "work" /\ UNCHANGED storeVars /\ Seen(p).to \in Evaluating /\ Operation(p) \notin DOMAIN journal
     /\ Advances(p, "evaluate")
  \/ pc[p] = "register" /\ Registers(p) /\ Advances(p, "append")
  \/ /\ pc[p] = "switch" /\ Advances(p, "append")
     /\ \/ UNCHANGED storeVars /\ Len(history) > start[job[p].run] /\ history[start[job[p].run] + 1] = Activation(p)
        \/ SwitchesOver(p)
  \/ AppendsTo(p)
  \/ Terminates(p)
  \/ pc[p] \in {"append", "reinspect"} /\ job[p].op \in {"advance", "approve"} /\ Advances(p, "after")

LogInv == Shape /\ (\A r \in Runs : Chained(r)) /\ (\A p \in Procs : Prepared(p))

LEMMA GoesOn ==
  ASSUME TypeOK, NEW p \in Procs, NEW l, Go(p, l)
  PROVE  /\ UNCHANGED <<job, at, event>> => Advances(p, l)
         /\ UNCHANGED <<job, at>> => \A e : event' = [event EXCEPT ![p] = e] => Goes(p, l, job[p], at[p], e)
         /\ UNCHANGED <<job, event>> => \A n : at' = [at EXCEPT ![p] = n] => Goes(p, l, job[p], n, event[p])
         /\ UNCHANGED <<job>> => \A n, e : at' = [at EXCEPT ![p] = n] /\ event' = [event EXCEPT ![p] = e] => Goes(p, l, job[p], n, e)
         /\ UNCHANGED <<at, event>> => \A j : job' = [job EXCEPT ![p] = j] => Goes(p, l, j, at[p], event[p])
<1>1. /\ job = [job EXCEPT ![p] = job[p]] /\ at = [at EXCEPT ![p] = at[p]] /\ event = [event EXCEPT ![p] = event[p]]
  BY DEF TypeOK
<1> QED
  BY <1>1 DEF Go, Goes, Advances

\* Every event of a run keeps within the policy.
LEMMA LogBudgeted ==
  ASSUME LogInv, NEW r \in Runs, NEW n \in 1..Len(log[r])
  PROVE  log[r][n] \in Event /\ Budgeted(log[r][n])
<1>1. log[r] \in Seq(Event)
  BY DEF LogInv, Shape, TypeOK
<1>2. log[r][n] \in Event /\ Len(log[r]) \in Nat
  BY <1>1, ElementOfSeq
<1>3. Exists(r)
  BY <1>1, <1>2 DEF Exists
<1>4. CASE n = 1
  BY <1>2, <1>3, <1>4 DEF LogInv, Chained, Accepted, Budgeted
<1>5. CASE n # 1
  <2>1. n - 1 \in 1..Len(log[r]) - 1 /\ (n - 1) + 1 = n
    BY <1>2, <1>5
  <2> QED
    BY <1>2, <2>1 DEF LogInv, Chained, Fits
<1> QED
  BY <1>4, <1>5

LEMMA FailMoves ==
  ASSUME TypeOK, NEW p \in Procs, CallFits(p), NEW why \in Fails, Fail(p, why),
         pc[p] \in AtWork \cup {"start", "create", "rollback"}
  PROVE  Done(p) \/ Terminates(p)
<1>1. CASE job[p].op = "advance" /\ job[p].failing = "no"
  <2>1. Terminate(p, why)
    BY <1>1 DEF Fail
  <2>2. Goes(p, "reinspect", [job[p] EXCEPT !.failing = why], at[p], event[p])
    <3>1. job' = [job EXCEPT ![p] = [job[p] EXCEPT !.failing = why]]
      BY <2>1 DEF Terminate, TypeOK
    <3> QED
      BY <2>1, <3>1, GoesOn DEF Terminate
  <2>3. pc[p] \in AtWork
    BY <1>1 DEF CallFits, OpsAt, Pc
  <2> QED
    BY <1>1, <2>2, <2>3 DEF Terminates
<1>2. CASE ~(job[p].op = "advance" /\ job[p].failing = "no")
  BY <1>2 DEF Fail, Throw
<1> QED
  BY <1>1, <1>2

\* What a process at work has in hand.
LEMMA AtWorkFacts ==
  ASSUME LogInv, NEW p \in Procs, pc[p] \in AtWork
  PROVE  /\ job[p] \in Job /\ job[p].run \in Runs /\ at[p] \in 1..Len(log[job[p].run])
         /\ log[job[p].run] \in Seq(Event) /\ Exists(job[p].run) /\ job[p].run \in instance.runs
         /\ Seen(p) \in Event /\ Budgeted(Seen(p)) /\ Operation(p) \in Runs \X Nat
<1>1. job[p] \in Job /\ CallFits(p) /\ log \in [Runs -> Seq(Event)]
  BY DEF LogInv, Shape, TypeOK
<1>2. job[p].op \in OnRun
  BY <1>1 DEF CallFits, OpsAt, Pc, AtWork, OnRun
<1>3. job[p].run \in Runs /\ Exists(job[p].run) /\ at[p] \in 1..Len(log[job[p].run])
  BY <1>1, <1>2 DEF CallFits
<1>4. Seen(p) \in Event /\ Budgeted(Seen(p))
  BY <1>3, LogBudgeted DEF Seen
<1>5. job[p].run \in instance.runs /\ at[p] \in Nat
  BY <1>3 DEF LogInv, Shape, RunFits, TypeOK
<1> QED
  BY <1>1, <1>3, <1>4, <1>5 DEF Operation

LEMMA PrepareMoves ==
  ASSUME LogInv, NEW p \in Procs, pc[p] \in {"work", "evaluate"}, NEW e \in Event, FitsNow(p, e),
         UNCHANGED <<log, design, history, versions>>, Prepare(p, Label(e), e)
  PROVE  Prepares(p)
<1>1. TypeOK
  BY DEF LogInv, Shape
<1>2. Goes(p, Label(e), job[p], at[p], e)
  BY <1>1, GoesOn DEF Prepare
<1> QED
  BY <1>2 DEF Prepares

\* What follows an inspected event.
LEMMA AfterFields ==
  ASSUME NEW p, Seen(p) \in Event, NEW phase \in Phases, NEW to \in States
  PROVE  LET e == After(p, phase, to)
             d == Seen(p) IN
         /\ e \in Event /\ e.phase = phase /\ e.to = to /\ e.gen = d.gen /\ e.tier = d.tier
         /\ e.flat = d.flat /\ e.evidence = d.evidence /\ e.receipt = NoReceipt
BY DEF After, Event

LEMMA Tiered ==
  ASSUME NEW a \in Risks, NEW b \in Risks
  PROVE  /\ MaximumRiskTier(a, b) \in Risks
         /\ Rank[a] \in Nat /\ Rank[b] \in Nat /\ Rank[MaximumRiskTier(a, b)] \in Nat
         /\ Rank[a] <= Rank[MaximumRiskTier(a, b)] /\ Rank[b] <= Rank[MaximumRiskTier(a, b)]
BY DEF MaximumRiskTier, Rank, Risks

LEMMA RouteFits == ASSUME LogInv, NEW p \in Procs, Route(p) PROVE Prepares(p)
<1>1. pc[p] = "work" /\ UNCHANGED storeVars
  BY DEF Route, Unchanged
<1>2. Seen(p) \in Event /\ Budgeted(Seen(p))
  BY <1>1, AtWorkFacts DEF AtWork
<1> HIDE DEF Seen
<1>3. ASSUME NEW phase \in Phases, NEW to \in States, Leads(Seen(p), After(p, phase, to)),
             phase \in {"design", "diagnose", "qualify", "qualification_route"},
             to \notin {"evidence_ready", "qualified", "completed_unqualified"},
             Seen(p).to # "completed_unqualified",
             to = "diagnosing" => Seen(p).to = "evidence_ready",
             Prepare(p, "append", After(p, phase, to))
      PROVE  Prepares(p)
  <2> DEFINE e == After(p, phase, to)
  <2>1. /\ e \in Event /\ e.phase = phase /\ e.to = to /\ e.gen = Seen(p).gen /\ e.tier = Seen(p).tier
        /\ e.flat = Seen(p).flat
    BY <1>2, <1>3, AfterFields
  <2>2. Leads(Seen(p), e) /\ Prepare(p, "append", e)
    BY <1>3
  <2> HIDE DEF e
  <2>3. Budgeted(e) /\ Keeps(job[p].run, Seen(p), e) /\ Label(e) = "append"
    BY <1>2, <1>3, <2>1 DEF Budgeted, Keeps, Label
  <2>4. FitsNow(p, e)
    BY <1>3, <2>1, <2>2, <2>3 DEF FitsNow
  <2> QED
    BY <1>1, <2>1, <2>2, <2>3, <2>4, PrepareMoves DEF storeVars
<1> USE DEF Leads
<1>4. CASE Seen(p).to = "accepted" /\ Prepare(p, "append", After(p, "design", "designing"))
  <2>1. After(p, "design", "designing").phase = "design" /\ After(p, "design", "designing").to = "designing"
    BY <1>2, AfterFields DEF Phases, States, Transitions
  <2> QED
    BY <1>3, <1>4, <2>1 DEF Phases, States, Transitions
<1>5. CASE Seen(p).to = "evidence_ready" /\ Prepare(p, "append", After(p, "diagnose", "diagnosing"))
  <2>1. After(p, "diagnose", "diagnosing").phase = "diagnose" /\ After(p, "diagnose", "diagnosing").to = "diagnosing"
    BY <1>2, AfterFields DEF Phases, States, Transitions
  <2> QED
    BY <1>3, <1>5, <2>1 DEF Phases, States, Transitions
<1>6. ASSUME Seen(p).to = "qualified", Prepare(p, "append", After(p, "qualify", "completed_qualified"))
      PROVE  Prepares(p)
  <2>1. /\ After(p, "qualify", "completed_qualified").phase = "qualify"
        /\ After(p, "qualify", "completed_qualified").to = "completed_qualified"
    BY <1>2, AfterFields DEF Phases, States, Ended
  <2> QED
    BY <1>3, <1>6, <2>1 DEF Phases, States, Ended
<1>7. ASSUME NEW to, to = IF Seen(p).tier = "high" THEN "awaiting_owner_canary" ELSE "canary",
             Seen(p).to = "qualified", Prepare(p, "append", After(p, "qualification_route", to))
      PROVE  Prepares(p)
  <2>0. to \in States
    BY <1>7 DEF States, Transitions
  <2>1. /\ After(p, "qualification_route", to).phase = "qualification_route" /\ After(p, "qualification_route", to).to = to
    BY <1>2, <2>0, AfterFields DEF Phases
  <2>2. Leads(Seen(p), After(p, "qualification_route", to))
    BY <1>7, <2>1
  <2>3. to \notin {"evidence_ready", "qualified", "completed_unqualified", "diagnosing"}
    BY <1>7
  <2> HIDE DEF Leads
  <2>4. "qualification_route" \in Phases
    BY DEF Phases
  <2> QED
    BY <1>3, <1>7, <2>0, <2>2, <2>3, <2>4
<1>8. CASE /\ Seen(p).to = "qualified"
           /\ Prepare(p, "append",
                IF job[p].run \in QualifyOnly THEN After(p, "qualify", "completed_qualified")
                ELSE After(p, "qualification_route",
                           IF Seen(p).tier = "high" THEN "awaiting_owner_canary" ELSE "canary"))
  <2>1. CASE job[p].run \in QualifyOnly
    BY <1>6, <1>8, <2>1
  <2>2. CASE job[p].run \notin QualifyOnly
    <3> DEFINE to == IF Seen(p).tier = "high" THEN "awaiting_owner_canary" ELSE "canary"
    <3>1. Prepare(p, "append", After(p, "qualification_route", to))
      BY <1>8, <2>2
    <3> QED
      BY <1>7, <1>8, <3>1
  <2> QED
    BY <2>1, <2>2
<1> QED
  BY <1>4, <1>5, <1>8 DEF Route

LEMMA DesignTyped ==
  ASSUME LogInv
  PROVE  /\ MaxGenerations \in Nat
         /\ \A r \in Runs : \A k \in 0..MaxGenerations : design[r][k] \in Risks \cup {"unchanged"}
<1>1. instance \in Instances /\ design \in [Runs -> [0..MaxGenerations -> Tiers \cup {"unchanged"}]]
  BY DEF LogInv, Shape, TypeOK
<1>2. Tiers \subseteq Risks /\ MaxGenerations \in Nat
  BY <1>1, FoundryKernelAssumption DEF Tiers, Risks, MaxGenerations
<1> QED
  BY <1>1, <1>2

LEMMA DesignFits == ASSUME LogInv, NEW p \in Procs, Design(p) PROVE Prepares(p)
<1>1. pc[p] = "work" /\ UNCHANGED storeVars /\ Seen(p).to = "designing"
  BY DEF Design, Unchanged
<1>2. Seen(p) \in Event /\ Budgeted(Seen(p)) /\ job[p].run \in Runs /\ job[p].run \in instance.runs
  BY <1>1, AtWorkFacts DEF AtWork
<1> DEFINE e0 == After(p, "blueprint", "materializing")
           first == design[job[p].run][0]
           e == [e0 EXCEPT !.tier = MaximumRiskTier(@, first)]
<1>3. /\ e0 \in Event /\ e0.phase = "blueprint" /\ e0.to = "materializing"
      /\ e0.gen = Seen(p).gen /\ e0.tier = Seen(p).tier /\ e0.flat = Seen(p).flat
  BY <1>2, AfterFields DEF Phases, States, Transitions
<1>4. first \in Risks
  BY <1>2, DesignTyped DEF LogInv, Shape, Designed
<1>5. Seen(p).tier \in Risks
  BY <1>2 DEF Event, Risks
<1>6. MaximumRiskTier(Seen(p).tier, first) \in Risks
  BY <1>4, <1>5, Tiered
<1>7. Prepare(p, "append", e)
  BY DEF Design
<1> HIDE DEF first, e0
<1>8. e \in Event /\ e.phase = "blueprint" /\ e.to = "materializing" /\ e.gen = Seen(p).gen
      /\ e.tier = MaximumRiskTier(Seen(p).tier, first) /\ e.flat = Seen(p).flat
  BY <1>3, <1>6 DEF Event, Risks
<1> HIDE DEF e
<1>9. Label(e) = "append" /\ FitsNow(p, e)
  BY <1>1, <1>2, <1>8 DEF FitsNow, Leads, Keeps, Budgeted, Label, first
<1> QED
  BY <1>1, <1>7, <1>8, <1>9, PrepareMoves DEF storeVars

LEMMA MaterializeFits == ASSUME LogInv, NEW p \in Procs, Materialize(p) PROVE Prepares(p)
<1>1. pc[p] = "work" /\ UNCHANGED storeVars /\ Seen(p).to = "materializing"
  BY DEF Materialize, Unchanged
<1>2. Seen(p) \in Event /\ Budgeted(Seen(p))
  BY <1>1, AtWorkFacts DEF AtWork
<1> DEFINE e == After(p, "materialize", "evaluating")
<1>3. /\ e \in Event /\ e.phase = "materialize" /\ e.to = "evaluating"
      /\ e.gen = Seen(p).gen /\ e.tier = Seen(p).tier /\ e.flat = Seen(p).flat
  BY <1>2, AfterFields DEF Phases, States, Transitions
<1>4. Prepare(p, "append", e)
  BY DEF Materialize
<1> HIDE DEF e
<1>5. Label(e) = "append" /\ FitsNow(p, e)
  BY <1>1, <1>2, <1>3 DEF FitsNow, Leads, Keeps, Budgeted, Label
<1> QED
  BY <1>1, <1>3, <1>4, <1>5, PrepareMoves DEF storeVars

LEMMA DiagnoseFits == ASSUME LogInv, NEW p \in Procs, Diagnose(p) PROVE Prepares(p)
<1>1. pc[p] = "work" /\ UNCHANGED storeVars /\ Seen(p).to = "diagnosing"
  BY DEF Diagnose, Unchanged
<1>2. Seen(p) \in Event /\ Budgeted(Seen(p)) /\ job[p].run \in Runs
  BY <1>1, AtWorkFacts DEF AtWork
<1> DEFINE next == Seen(p).gen + 1
           tier == design[job[p].run][next]
<1>3. /\ MaxGenerations \in Nat /\ Seen(p).gen \in 0..MaxGenerations /\ Seen(p).tier \in Risks
      /\ Seen(p).flat \in Nat
  BY <1>2, FoundryKernelAssumption DEF Event, Risks, LogInv, Shape, TypeOK, MaxGenerations
<1>4. next \in 0..MaxGenerations /\ Seen(p).flat <= 1
  BY <1>1, <1>2, <1>3 DEF Budgeted
<1>5. tier \in Risks \cup {"unchanged"}
  BY <1>2, <1>4, DesignTyped
<1>6. CASE tier = "unchanged"
  <2> DEFINE e0 == After(p, "evolve_no_change", "completed_unqualified")
             e == [e0 EXCEPT !.flat = @ + 1]
  <2>1. /\ e0 \in Event /\ e0.phase = "evolve_no_change" /\ e0.to = "completed_unqualified"
        /\ e0.gen = Seen(p).gen /\ e0.tier = Seen(p).tier /\ e0.flat = Seen(p).flat
    BY <1>2, AfterFields DEF Phases, States, Ended
  <2>2. Prepare(p, "append", e)
    BY <1>6 DEF Diagnose
  <2> HIDE DEF e0
  <2>3. e \in Event /\ e.phase = "evolve_no_change" /\ e.to = "completed_unqualified" /\ e.gen = Seen(p).gen
        /\ e.tier = Seen(p).tier /\ e.flat = Seen(p).flat + 1
    BY <1>3, <2>1 DEF Event
  <2> HIDE DEF e
  <2>4. Label(e) = "append" /\ FitsNow(p, e)
    BY <1>1, <1>3, <1>4, <2>3 DEF FitsNow, Leads, Keeps, Budgeted, Label
  <2> QED
    BY <1>1, <2>2, <2>3, <2>4, PrepareMoves DEF storeVars
<1>7. CASE tier # "unchanged"
  <2> DEFINE e0 == After(p, "evolve", "materializing")
             e == [e0 EXCEPT !.gen = next, !.tier = MaximumRiskTier(@, tier)]
  <2>1. /\ e0 \in Event /\ e0.phase = "evolve" /\ e0.to = "materializing"
        /\ e0.gen = Seen(p).gen /\ e0.tier = Seen(p).tier /\ e0.flat = Seen(p).flat
    BY <1>2, AfterFields DEF Phases, States, Transitions
  <2>2. Prepare(p, "append", e)
    BY <1>7 DEF Diagnose
  <2>3. MaximumRiskTier(Seen(p).tier, tier) \in Risks
    BY <1>3, <1>5, <1>7, Tiered
  <2> HIDE DEF e0, next, tier
  <2>4. e \in Event /\ e.phase = "evolve" /\ e.to = "materializing" /\ e.gen = next
        /\ e.tier = MaximumRiskTier(Seen(p).tier, tier) /\ e.flat = Seen(p).flat
    BY <1>4, <2>1, <2>3 DEF Event, Risks
  <2> HIDE DEF e
  <2>5. Keeps(job[p].run, Seen(p), e)
    BY <1>5, <1>7, <2>4 DEF Keeps, next, tier
  <2>6. Label(e) = "append" /\ FitsNow(p, e)
    BY <1>1, <1>3, <1>4, <2>4, <2>5 DEF FitsNow, Leads, Budgeted, Label
  <2> QED
    BY <1>1, <2>2, <2>4, <2>6, PrepareMoves DEF storeVars
<1> QED
  BY <1>6, <1>7

LEMMA JudgeFits ==
  ASSUME LogInv, NEW p \in Procs, pc[p] \in {"work", "evaluate"}, Seen(p).to \in Evaluating,
         NEW v \in Evidence, Operation(p) \in DOMAIN journal', journal'[Operation(p)] = v,
         UNCHANGED <<log, design, history, versions>>, JudgeResult(p, v)
  PROVE  Prepares(p)
<1>1. Seen(p) \in Event /\ Budgeted(Seen(p))
  BY AtWorkFacts DEF AtWork
<1>2. /\ MaxGenerations \in Nat /\ Seen(p).gen \in 0..MaxGenerations /\ Seen(p).flat \in Nat /\ Seen(p).flat <= 1
      /\ Seen(p).tier \in Risks
  BY <1>1, FoundryKernelAssumption DEF Event, Risks, LogInv, Shape, TypeOK, MaxGenerations, Budgeted, Evaluating
<1>3. Flat(p, v) \in Nat /\ Flat(p, v) <= 2
  BY <1>2 DEF Flat
<1>6. Phase(p) \in {"evaluate", "canary"} /\ (Phase(p) = "evaluate" <=> Seen(p).to = "evaluating")
  BY DEF Phase, Evaluating
<1>7. CASE v.qualified
  <2> DEFINE to == IF Seen(p).to = "evaluating" THEN "qualified"
                   ELSE IF Seen(p).tier = "low" THEN "activating" ELSE "awaiting_owner_active"
             e0 == After(p, Phase(p), to)
             e == [e0 EXCEPT !.evidence = v]
  <2>0. to \in States /\ Phase(p) \in Phases
    BY <1>6 DEF States, Transitions, Phases
  <2>1. /\ e0 \in Event /\ e0.phase = Phase(p) /\ e0.to = to
        /\ e0.gen = Seen(p).gen /\ e0.tier = Seen(p).tier /\ e0.flat = Seen(p).flat
    BY <1>1, <2>0, AfterFields
  <2>2. Prepare(p, IF Seen(p).to = "evaluating" THEN "register" ELSE "append", e)
    BY <1>7 DEF JudgeResult, Judged
  <2> HIDE DEF e0
  <2>3. e \in Event /\ e.phase = Phase(p) /\ e.to = to /\ e.gen = Seen(p).gen
        /\ e.tier = Seen(p).tier /\ e.flat = Seen(p).flat /\ e.evidence = v
    BY <2>1 DEF Event
  <2> HIDE DEF e
  <2>4. Label(e) = IF Seen(p).to = "evaluating" THEN "register" ELSE "append"
    BY <1>6, <2>3 DEF Label, Evaluating
  <2>5. Leads(Seen(p), e)
    BY <1>6, <2>3 DEF Leads, Evaluating
  <2>6. Budgeted(e) /\ Keeps(job[p].run, Seen(p), e)
    BY <1>2, <1>6, <2>3 DEF Budgeted, Keeps
  <2>7. FitsNow(p, e)
    BY <1>6, <2>3, <2>5, <2>6 DEF FitsNow
  <2> QED
    BY <2>2, <2>3, <2>4, <2>7, PrepareMoves
<1>8. CASE ~v.qualified
  <2> DEFINE to == IF Exhausted(p, v) THEN "completed_unqualified" ELSE "evidence_ready"
             e0 == After(p, Phase(p), to)
             e == [e0 EXCEPT !.evidence = v, !.flat = Flat(p, v)]
  <2>0. to \in States /\ Phase(p) \in Phases
    BY <1>6 DEF States, Transitions, Phases, Ended
  <2>1. /\ e0 \in Event /\ e0.phase = Phase(p) /\ e0.to = to
        /\ e0.gen = Seen(p).gen /\ e0.tier = Seen(p).tier
    BY <1>1, <2>0, AfterFields
  <2>2. Prepare(p, "append", e)
    BY <1>8 DEF JudgeResult, Judged
  <2> HIDE DEF e0
  <2>3. e \in Event /\ e.phase = Phase(p) /\ e.to = to /\ e.gen = Seen(p).gen
        /\ e.tier = Seen(p).tier /\ e.flat = Flat(p, v) /\ e.evidence = v
    BY <1>3, <2>1 DEF Event
  <2> HIDE DEF e
  <2>4. Label(e) = "append"
    BY <1>6, <2>3 DEF Label
  <2>5. Leads(Seen(p), e)
    BY <1>6, <2>3 DEF Leads, Evaluating
  <2>6. Budgeted(e)
    BY <1>2, <1>3, <2>3 DEF Budgeted, Exhausted
  <2>7. Keeps(job[p].run, Seen(p), e)
    BY <1>6, <2>3 DEF Keeps
  <2>8. FitsNow(p, e)
    BY <1>6, <2>3, <2>5, <2>6, <2>7 DEF FitsNow
  <2> QED
    BY <2>2, <2>3, <2>4, <2>8, PrepareMoves
<1> QED
  BY <1>7, <1>8

LEMMA ReadAuthorityMoves == ASSUME LogInv, NEW p \in Procs, ReadAuthority(p) PROVE Prepares(p) \/ Terminates(p) \/ Done(p)
<1>1. pc[p] = "work" /\ UNCHANGED storeVars /\ Seen(p).to = "activating"
  BY DEF ReadAuthority, Unchanged
<1>2. Seen(p) \in Event /\ Budgeted(Seen(p)) /\ job[p].run \in Runs /\ log[job[p].run] \in Seq(Event)
  BY <1>1, AtWorkFacts DEF AtWork
<1> DEFINE approval == LatestOwnerAuthority(job[p].run)
           e0 == After(p, "activate", "completed_active")
           e == [e0 EXCEPT !.receipt = approval]
<1>3. approval \in Receipts \cup {NoReceipt}
  <2>1. CASE Approved(job[p].run) = {}
    BY <2>1 DEF LatestOwnerAuthority
  <2>2. CASE Approved(job[p].run) # {}
    <3> DEFINE top == CHOOSE i \in Approved(job[p].run) : \A k \in Approved(job[p].run) : k <= i
    <3>1. Approved(job[p].run) \subseteq 1..Len(log[job[p].run]) /\ Len(log[job[p].run]) \in Nat
      BY <1>2 DEF Approved
    <3>2. \E i \in Approved(job[p].run) : \A k \in Approved(job[p].run) : k <= i
      BY <2>2, <3>1, LargestOf
    <3>3. top \in Approved(job[p].run)
      BY <3>2
    <3>4. log[job[p].run][top] \in Event
      BY <1>2, <3>1, <3>3, ElementOfSeq
    <3> QED
      BY <2>2, <3>4 DEF LatestOwnerAuthority, Event
  <2> QED
    BY <2>1, <2>2
<1>4. /\ e0 \in Event /\ e0.phase = "activate" /\ e0.to = "completed_active"
      /\ e0.gen = Seen(p).gen /\ e0.tier = Seen(p).tier /\ e0.flat = Seen(p).flat
  BY <1>2, AfterFields DEF Phases, States, Ended
<1>5. CASE Candidate(p) \notin versions \/ (Seen(p).tier # "low" /\ approval = NoReceipt)
  <2>1. Fail(p, "quarantined")
    BY <1>5 DEF ReadAuthority
  <2> QED
    BY <1>1, <2>1, FailMoves DEF LogInv, Shape, AtWork, Fails
<1>6. CASE ~(Candidate(p) \notin versions \/ (Seen(p).tier # "low" /\ approval = NoReceipt))
  <2>1. Prepare(p, "switch", e)
    BY <1>6 DEF ReadAuthority
  <2> HIDE DEF e0, approval
  <2>2. e \in Event /\ e.phase = "activate" /\ e.to = "completed_active" /\ e.gen = Seen(p).gen
        /\ e.tier = Seen(p).tier /\ e.flat = Seen(p).flat /\ e.receipt = approval
    BY <1>3, <1>4 DEF Event
  <2> HIDE DEF e
  <2>3. Label(e) = "switch"
    BY <2>2 DEF Label
  <2>4. Leads(Seen(p), e) /\ Budgeted(e) /\ Keeps(job[p].run, Seen(p), e)
    BY <1>1, <1>2, <2>2 DEF Leads, Budgeted, Keeps
  <2>5. FitsNow(p, e)
    BY <2>2, <2>4 DEF FitsNow, approval
  <2> QED
    BY <1>1, <2>1, <2>2, <2>3, <2>5, PrepareMoves DEF storeVars
<1> QED
  BY <1>5, <1>6

LEMMA ReadResultMoves ==
  ASSUME LogInv, NEW p \in Procs, ReadResult(p)
  PROVE  \/ Prepares(p) \/ Terminates(p) \/ Done(p)
         \/ /\ pc[p] = "work" /\ UNCHANGED storeVars /\ Seen(p).to \in Evaluating /\ Operation(p) \notin DOMAIN journal
            /\ Advances(p, "evaluate")
<1>1. pc[p] = "work" /\ UNCHANGED storeVars /\ Seen(p).to \in Evaluating
  BY DEF ReadResult, Unchanged
<1>2. ASSUME Fail(p, "quarantined") \/ Throw(p)
      PROVE  Done(p) \/ Terminates(p)
  BY <1>1, <1>2, FailMoves DEF LogInv, Shape, AtWork, Fails, Throw
<1>3. ASSUME Operation(p) \in DOMAIN journal, JudgeResult(p, journal[Operation(p)])
      PROVE  Prepares(p)
  <2>1. journal[Operation(p)] \in Evidence
    BY <1>3 DEF LogInv, Shape, TypeOK
  <2>2. journal' = journal /\ UNCHANGED <<log, design, history, versions>>
    BY <1>1 DEF storeVars
  <2> QED
    BY <1>1, <1>3, <2>1, <2>2, JudgeFits
<1>4. ASSUME Go(p, "evaluate") /\ UNCHANGED <<job, at, event, broken, stranded>>
      PROVE  Advances(p, "evaluate")
  BY <1>4, GoesOn DEF LogInv, Shape
<1> QED
  BY <1>1, <1>2, <1>3, <1>4 DEF ReadResult

LEMMA EvaluateMoves ==
  ASSUME LogInv, NEW p \in Procs, NEW v \in Evidence, Evaluate(p, v)
  PROVE  Prepares(p) \/ Terminates(p) \/ Done(p)
<1>1. pc[p] = "evaluate" /\ UNCHANGED <<log, design, history, versions>>
  BY DEF Evaluate
<1>2. Seen(p).to \in Evaluating
  BY <1>1 DEF LogInv, Prepared, Seen
<1>3. ASSUME JudgeResult(p, v), Operation(p) \in DOMAIN journal', journal'[Operation(p)] = v
      PROVE  Prepares(p)
  BY <1>1, <1>2, <1>3, JudgeFits
<1>4. CASE Operation(p) \in DOMAIN journal
  BY <1>1, <1>3, <1>4, FailMoves DEF Evaluate, LogInv, Shape, AtWork, Fails
<1>5. CASE Operation(p) \notin DOMAIN journal
  <2>1. journal' = [k \in DOMAIN journal \cup {Operation(p)} |-> IF k = Operation(p) THEN v ELSE journal[k]] /\ JudgeResult(p, v)
    BY <1>5 DEF Evaluate
  <2>2. Operation(p) \in DOMAIN journal' /\ journal'[Operation(p)] = v
    BY <2>1
  <2> QED
    BY <1>3, <2>1, <2>2
<1> QED
  BY <1>4, <1>5

LEMMA AppendToMoves ==
  ASSUME LogInv, NEW p \in Procs, NEW phase \in Phases, NEW to \in States, NEW receipt \in Receipts \cup {NoReceipt},
         AppendTo(p, phase, to, receipt), UNCHANGED storeVars,
         job[p].run \in Runs, Exists(job[p].run), ~Over(job[p].run),
         phase \notin {"evolve", "blueprint"}, to \notin {"completed_unqualified", "evidence_ready", "diagnosing"},
         \A e \in Event : e.phase = phase /\ e.to = to => Leads(Latest(job[p].run), e),
         \/ /\ pc[p] = "inspect" /\ job[p].op \in Actions /\ Len(log[job[p].run]) = job[p].rev
            /\ receipt = job[p].receipt /\ phase = DecisionPhase(job[p].op)
         \/ pc[p] = "inspect" /\ job[p].op = "fail" /\ phase = "failure"
         \/ pc[p] = "reinspect" /\ phase \in {"failure", "quarantine"}
  PROVE  AppendsTo(p)
<1> DEFINE r == job[p].run
           e == [Latest(r) EXCEPT !.phase = phase, !.to = to, !.receipt = receipt]
<1>1. log[r] \in Seq(Event) /\ Len(log[r]) \in 1..Len(log[r])
  BY DEF LogInv, Shape, TypeOK, RunFits
<1>2. Latest(r) \in Event /\ Budgeted(Latest(r)) /\ Latest(r).to \notin Ended
  BY <1>1, LogBudgeted DEF Latest, Over, State
<1>3. Goes(p, "append", job[p], Len(log[r]), e)
  BY GoesOn DEF AppendTo, LogInv, Shape
<1>4. e \in Event /\ e.phase = phase /\ e.to = to /\ e.receipt = receipt
      /\ e.gen = Latest(r).gen /\ e.tier = Latest(r).tier /\ e.flat = Latest(r).flat
  BY <1>2 DEF Event
<1> HIDE DEF e
<1>5. Leads(Latest(r), e)
  BY <1>4
<1>6. Keeps(r, Latest(r), e) /\ Budgeted(e)
  BY <1>2, <1>4 DEF Keeps, Budgeted, Ended
<1> QED
  BY <1>3, <1>4, <1>5, <1>6 DEF AppendsTo

LEMMA InspectDecisionMoves == ASSUME LogInv, NEW p \in Procs, InspectDecision(p) PROVE Done(p) \/ AppendsTo(p)
<1> DEFINE r == job[p].run
           op == job[p].op
<1>1. pc[p] = "inspect" /\ op \in Actions
  BY DEF InspectDecision
<1>2. CallFits(p) /\ job[p] \in Job
  BY DEF LogInv, Shape, TypeOK
<1>3. /\ r \in Runs /\ Exists(r) /\ job[p].rev \in 1..Len(log[r]) /\ log[r][job[p].rev].to \notin Ended
      /\ op \in {"approve", "reject"} => log[r][job[p].rev].to \in Awaiting
  BY <1>1, <1>2 DEF CallFits, OnRun, Actions
<1>4. CASE Len(log[r]) = job[p].rev
  <2> DEFINE phase == DecisionPhase(op)
             to == Decided(r, op)
             receipt == job[p].receipt
  <2>1. AppendTo(p, phase, to, receipt) /\ UNCHANGED storeVars
    BY <1>4 DEF InspectDecision
  <2>2. State(r) = log[r][job[p].rev].to /\ ~Over(r)
    BY <1>3, <1>4 DEF State, Latest, Over
  <2>3. receipt \in Receipts \cup {NoReceipt}
    BY <1>2 DEF Job
  <2>4. CASE op = "approve"
    <3>1. phase = "owner_approve" /\ to = IF State(r) = "awaiting_owner_canary" THEN "canary" ELSE "activating"
      BY <2>4 DEF DecisionPhase, Decided
    <3>2. State(r) \in Awaiting
      BY <1>3, <2>2, <2>4
    <3>3. \A e \in Event : e.phase = phase /\ e.to = to => Leads(Latest(r), e)
      BY <3>1, <3>2 DEF Leads, State, Awaiting
    <3>4. phase \in Phases /\ to \in States /\ phase \notin {"evolve", "blueprint"}
          /\ to \notin {"completed_unqualified", "evidence_ready", "diagnosing"}
      BY <3>1 DEF Phases, States, Transitions
    <3> HIDE DEF phase, to, receipt
    <3> QED
      BY <1>1, <1>3, <1>4, <2>1, <2>2, <2>3, <3>3, <3>4, AppendToMoves DEF phase, receipt
  <2>5. CASE op = "reject"
    <3>1. phase = "owner_reject" /\ to = "rejected"
      BY <2>5 DEF DecisionPhase, Decided
    <3>2. State(r) \in Awaiting
      BY <1>3, <2>2, <2>5
    <3>3. \A e \in Event : e.phase = phase /\ e.to = to => Leads(Latest(r), e)
      BY <3>1, <3>2 DEF Leads, State, Awaiting
    <3>4. phase \in Phases /\ to \in States /\ phase \notin {"evolve", "blueprint"}
          /\ to \notin {"completed_unqualified", "evidence_ready", "diagnosing"}
      BY <3>1 DEF Phases, States, Ended
    <3> HIDE DEF phase, to, receipt
    <3> QED
      BY <1>1, <1>3, <1>4, <2>1, <2>2, <2>3, <3>3, <3>4, AppendToMoves DEF phase, receipt
  <2>6. CASE op = "cancel"
    <3>1. phase = "cancel" /\ to = "cancelled"
      BY <2>6 DEF DecisionPhase, Decided
    <3>2. State(r) \notin Ended
      BY <1>3, <2>2
    <3>3. \A e \in Event : e.phase = phase /\ e.to = to => Leads(Latest(r), e)
      BY <3>1, <3>2 DEF Leads, State
    <3>4. phase \in Phases /\ to \in States /\ phase \notin {"evolve", "blueprint"}
          /\ to \notin {"completed_unqualified", "evidence_ready", "diagnosing"}
      BY <3>1 DEF Phases, States, Ended
    <3> HIDE DEF phase, to, receipt
    <3> QED
      BY <1>1, <1>3, <1>4, <2>1, <2>2, <2>3, <3>3, <3>4, AppendToMoves DEF phase, receipt
  <2> QED
    BY <1>1, <2>4, <2>5, <2>6 DEF Actions
<1>5. CASE Len(log[r]) # job[p].rev
  BY <1>5 DEF InspectDecision, Adopt, Return
<1> QED
  BY <1>4, <1>5

LEMMA FailureMoves ==
  ASSUME LogInv, NEW p \in Procs, InspectFailure(p) \/ TerminateAfterFailure(p)
  PROVE  Done(p) \/ AppendsTo(p) \/ (pc[p] = "reinspect" /\ job[p].op = "advance" /\ Advances(p, "after"))
<1> DEFINE r == job[p].run
<1>1. CallFits(p) /\ job[p] \in Job /\ TypeOK /\ UNCHANGED storeVars
  BY DEF LogInv, Shape, TypeOK, InspectFailure, TerminateAfterFailure, Unchanged
<1>2. pc[p] \in {"inspect", "reinspect"} /\ job[p].op \in OnRun /\ (pc[p] = "reinspect" => job[p].op = "advance")
  BY <1>1 DEF InspectFailure, TerminateAfterFailure, CallFits, OpsAt, Pc, OnRun
<1>3. r \in Runs /\ Exists(r)
  BY <1>1, <1>2 DEF CallFits
<1>4. ASSUME NEW phase \in {"failure", "quarantine"}, NEW to \in Fails, AppendTo(p, phase, to, NoReceipt), ~Over(r),
             \/ pc[p] = "inspect" /\ job[p].op = "fail" /\ phase = "failure"
             \/ pc[p] = "reinspect"
      PROVE  AppendsTo(p)
  <2>1. phase \in Phases /\ to \in States /\ phase \notin {"evolve", "blueprint"}
        /\ to \notin {"completed_unqualified", "evidence_ready", "diagnosing"}
    BY DEF Phases, States, Ended, Fails
  <2>2. \A e \in Event : e.phase = phase /\ e.to = to => Leads(Latest(r), e)
    BY <1>3, <1>4 DEF Leads, Over, State
  <2> QED
    BY <1>1, <1>3, <1>4, <2>1, <2>2, AppendToMoves
<1>5. CASE InspectFailure(p)
  BY <1>4, <1>5 DEF InspectFailure, Return, Fails
<1>6. CASE TerminateAfterFailure(p)
  <2>1. job[p].failing \in Fails
    BY <1>1, <1>6 DEF CallFits, TerminateAfterFailure
  <2>2. CASE Over(r)
    BY <1>1, <1>2, <1>6, <2>2, GoesOn DEF TerminateAfterFailure
  <2>3. CASE ~Over(r)
    <3> DEFINE phase == IF job[p].failing = "failed" THEN "failure" ELSE "quarantine"
    <3>1. AppendTo(p, phase, job[p].failing, NoReceipt) /\ pc[p] = "reinspect"
      BY <1>6, <2>3 DEF TerminateAfterFailure
    <3>2. phase \in {"failure", "quarantine"}
      OBVIOUS
    <3> HIDE DEF phase
    <3> QED
      BY <1>4, <2>1, <2>3, <3>1, <3>2
  <2> QED
    BY <2>2, <2>3
<1> QED
  BY <1>5, <1>6

LEMMA ProcMoves == ASSUME LogInv, NEW p \in Procs, Acts(p) PROVE Moves(p)
<1>0. TypeOK /\ CallFits(p)
  BY DEF LogInv, Shape
<1>1. CASE CallSomething(p)
  BY <1>1 DEF Moves
<1>2. CASE CheckBaseline(p)
  BY <1>0, <1>2, GoesOn DEF CheckBaseline, Return, Moves
<1>3. CASE CreateRun(p) \/ RollBack(p) \/ Crash(p)
  BY <1>3 DEF CreateRun, RollBack, Crash, Return, Moves
<1>4. CASE BeforeAdvance(p)
  BY <1>0, <1>4, GoesOn DEF BeforeAdvance, Adopt, Return, Throw, Moves, storeVars
<1>5. CASE InspectRun(p)
  BY <1>0, <1>5, GoesOn DEF InspectRun, Inspect, Unchanged, Moves
<1>6. CASE AfterAdvance(p)
  BY <1>6 DEF AfterAdvance, Adopt, Return, Throw, Moves
<1>7. CASE InspectDecision(p) \/ InspectFailure(p) \/ TerminateAfterFailure(p)
  BY <1>7, InspectDecisionMoves, FailureMoves DEF Moves
<1>8. CASE Route(p) \/ Design(p) \/ Materialize(p) \/ Diagnose(p)
  BY <1>8, RouteFits, DesignFits, MaterializeFits, DiagnoseFits DEF Moves
<1>9. CASE ReadResult(p) \/ ReadAuthority(p) \/ \E e \in Evidence : e.score # 0 /\ Evaluate(p, e)
  BY <1>9, ReadResultMoves, ReadAuthorityMoves, EvaluateMoves DEF Moves
<1>10. CASE RegisterVersion(p)
  BY <1>0, <1>10, GoesOn DEF RegisterVersion, Registers, Moves
<1>11. ASSUME NEW why \in Fails, Fail(p, why), pc[p] \in AtWork \cup {"start", "create", "rollback"}
       PROVE  Moves(p)
  BY <1>0, <1>11, FailMoves DEF Moves
<1>12. CASE SwitchActivation(p)
  <2>1. CASE Fail(p, "quarantined")
    BY <1>11, <1>12, <2>1 DEF SwitchActivation, AtWork, Fails
  <2>2. CASE ~Fail(p, "quarantined")
    <3>1. pc[p] = "switch" /\ Go(p, "append") /\ UNCHANGED <<job, at, event>>
      BY <1>12, <2>2 DEF SwitchActivation
    <3>2. Advances(p, "append")
      BY <1>0, <3>1, GoesOn
    <3>3. \/ UNCHANGED storeVars /\ Len(history) > start[job[p].run] /\ history[start[job[p].run] + 1] = Activation(p)
          \/ SwitchesOver(p)
      BY <1>12, <2>2 DEF SwitchActivation, SwitchesOver, storeVars
    <3> QED
      BY <3>1, <3>2, <3>3 DEF Moves
  <2> QED
    BY <2>1, <2>2
<1>13. CASE AppendEvent(p)
  <2>1. CASE Fail(p, "quarantined")
    BY <1>11, <1>13, <2>1 DEF AppendEvent, AtWork, Fails
  <2>2. CASE Appended(p)
    BY <1>0, <1>13, <2>2, GoesOn DEF AppendEvent, Appended, Return, Moves
  <2> QED
    BY <1>13, <2>1, <2>2 DEF AppendEvent
<1>14. CASE \E why \in Fails : AppendLost(p, why)
  <2>1. PICK why \in Fails : AppendLost(p, why)
    BY <1>14
  <2>2. CASE Return(p)
    BY <2>2 DEF Return, Moves
  <2>3. CASE Fail(p, why)
    BY <1>11, <2>1, <2>3 DEF AppendLost, AtWork
  <2> QED
    BY <2>1, <2>2, <2>3 DEF AppendLost
<1>15. CASE SwitchLost(p)
  BY <1>11, <1>15 DEF SwitchLost, AtWork, Fails
<1>16. CASE Contended(p)
  <2>1. CASE Throw(p)
    BY <2>1 DEF Throw, Moves
  <2>2. CASE Fail(p, "quarantined") /\ pc[p] \notin {"before", "inspect", "reinspect", "after"}
    <3>1. pc[p] \in AtWork \cup {"start", "create", "rollback"}
      BY <1>0, <1>16, <2>2 DEF Contended, Pc, AtWork, CallFits, OpsAt
    <3> QED
      BY <1>11, <2>2, <3>1 DEF Fails
  <2> QED
    BY <1>16, <2>1, <2>2 DEF Contended
<1>17. CASE \E how \in Fails \cup {"transient", "exhausted"} : ProviderFails(p, how)
  <2>1. PICK how \in Fails \cup {"transient", "exhausted"} : ProviderFails(p, how)
    BY <1>17
  <2>2. pc[p] \in AtWork
    BY <2>1 DEF ProviderFails, AtWork
  <2>3. CASE Return(p) \/ Throw(p)
    BY <2>3 DEF Return, Throw, Moves
  <2>4. CASE how \in Fails /\ Fail(p, how)
    BY <1>11, <2>2, <2>4
  <2>5. Return(p) \/ Throw(p) \/ (how \in Fails /\ Fail(p, how))
    BY <2>1 DEF ProviderFails
  <2> QED
    BY <2>3, <2>4, <2>5
<1> QED
  BY <1>1, <1>2, <1>3, <1>4, <1>5, <1>6, <1>7, <1>8, <1>9, <1>10, <1>12, <1>13, <1>14, <1>15, <1>16, <1>17
     DEF Acts, Step, AdvanceOne, Trouble

-----------------------------------------------------------------------------
(* The stores only grow. *)

Grows ==
  /\ UNCHANGED <<instance, design>>
  /\ \A r \in Runs : /\ Len(log[r]) \in Nat /\ Len(log'[r]) \in Nat /\ Len(log[r]) <= Len(log'[r])
                     /\ \A n \in 1..Len(log[r]) : log'[r][n] = log[r][n]
                     /\ Exists(r) => Exists(r)' /\ start'[r] = start[r] /\ base'[r] = base[r]
                     /\ Exists(r) <=> Len(log[r]) # 0
  /\ \A k \in DOMAIN journal : k \in DOMAIN journal' /\ journal'[k] = journal[k]
  /\ versions \subseteq versions'
  /\ Len(history) \in Nat /\ Len(history') \in Nat /\ Len(history) <= Len(history')
  /\ \A i \in 1..Len(history) : history'[i] = history[i]

\* What a run's log may become.
LEMMA LogStep ==
  ASSUME LogInv, NEW p \in Procs, Acts(p), NEW r \in Runs
  PROVE  /\ log' \in [Runs -> Seq(Event)] /\ Len(log[r]) \in Nat /\ Len(log'[r]) \in Nat
         /\ Exists(r) <=> Len(log[r]) # 0
         /\ Exists(r)' <=> Len(log'[r]) # 0
         /\ \/ log'[r] = log[r]
            \/ /\ Creates(p) /\ job[p].run = r /\ ~Exists(r) /\ Len(log'[r]) = 1 /\ log'[r][1] = Accepted
            \/ /\ Commits(p) /\ job[p].run = r /\ Exists(r)
               /\ Len(log'[r]) = Len(log[r]) + 1 /\ log'[r][Len(log[r]) + 1] = event[p]
               /\ \A n \in 1..Len(log[r]) : log'[r][n] = log[r][n]
<1>1. Stores(p) /\ log \in [Runs -> Seq(Event)] /\ event[p] \in Event /\ job[p] \in Job
  BY StoreMoves DEF LogInv, Shape, TypeOK
<1>2. Accepted \in Event
  BY FoundryKernelAssumption DEF LogInv, Shape, TypeOK, MaxGenerations, Accepted, Event, Phases, States, Transitions, Evidence, NoEvidence
<1>3. Len(log[r]) \in Nat /\ (Exists(r) <=> Len(log[r]) # 0)
  BY <1>1 DEF Exists
<1>4. CASE log' = log
  BY <1>1, <1>3, <1>4 DEF Exists
<1>5. CASE Creates(p)
  <2> DEFINE first == <<Accepted>>
  <2>1. first \in Seq(Event) /\ first # <<>> /\ Len(first) = 1 /\ first[1] = Accepted
    BY <1>2
  <2>2. log' = [log EXCEPT ![job[p].run] = first] /\ ~Exists(job[p].run)
    BY <1>5 DEF Creates
  <2> HIDE DEF first
  <2>3. log' \in [Runs -> Seq(Event)] /\ log'[r] = IF job[p].run = r THEN first ELSE log[r]
    BY <1>1, <2>1, <2>2
  <2> QED
    BY <1>3, <1>5, <2>1, <2>2, <2>3 DEF Exists
<1>6. CASE Commits(p)
  <2> DEFINE q == job[p].run
             more == Append(log[q], event[p])
  <2>0. pc[p] = "append" /\ log' = [log EXCEPT ![q] = more]
    BY <1>1, <1>6 DEF Commits, Commit
  <2>3. q \in Runs /\ Exists(q)
    BY <2>0, AtWorkFacts DEF AtWork
  <2>4. more \in Seq(Event)
    BY <1>1, <2>3
  <2>1. log' \in [Runs -> Seq(Event)] /\ log'[r] = IF q = r THEN more ELSE log[r]
    <3> HIDE DEF more, q
    <3> QED
      BY <1>1, <2>0, <2>3, <2>4
  <2>2. /\ Len(Append(log[r], event[p])) = Len(log[r]) + 1
        /\ Append(log[r], event[p])[Len(log[r]) + 1] = event[p]
        /\ \A n \in 1..Len(log[r]) : Append(log[r], event[p])[n] = log[r][n]
    BY <1>1
  <2>5. CASE q = r
    <3>1. log'[r] = Append(log[r], event[p])
      BY <2>1, <2>5
    <3>2. Exists(r)' <=> Len(log'[r]) # 0
      BY <2>1 DEF Exists
    <3> DEFINE n == Len(log[r])
    <3>3. /\ Len(log'[r]) = n + 1 /\ log'[r][n + 1] = event[p]
          /\ \A k \in 1..n : log'[r][k] = log[r][k]
      BY <2>2, <3>1
    <3>4. n \in Nat /\ (Exists(r) <=> n # 0)
      BY <1>3
    <3>5. job[p].run = r /\ Exists(r) /\ log' \in [Runs -> Seq(Event)]
      BY <2>1, <2>3, <2>5
    <3>7. Len(log'[r]) \in Nat
      <4> HIDE DEF n
      <4> QED
        BY <3>3, <3>4
    <3> HIDE DEF more, q
    <3> QED
      BY <1>6, <3>2, <3>3, <3>4, <3>5, <3>7, Zenon
  <2>6. CASE q # r
    BY <1>3, <2>1, <2>6 DEF Exists
  <2> QED
    BY <2>5, <2>6
<1> QED
  BY <1>1, <1>4, <1>5, <1>6 DEF Stores, storeVars, Journals, Registers, SwitchesOver, RollsBack

LEMMA HistoryStep ==
  ASSUME LogInv, NEW p \in Procs, Acts(p)
  PROVE  /\ Len(history) \in Nat
         /\ \/ history' = history
            \/ /\ SwitchesOver(p) /\ Len(history') = Len(history) + 1
               /\ history'[Len(history) + 1] = Activation(p)
               /\ \A i \in 1..Len(history) : history'[i] = history[i]
            \/ /\ RollsBack(p) /\ Len(history') = Len(history) + 1
               /\ history'[Len(history) + 1] = [kind |-> "rollback", to |-> job[p].base, receipt |-> job[p].receipt]
               /\ \A i \in 1..Len(history) : history'[i] = history[i]
<1>1. Stores(p) /\ history \in Seq(Transaction)
  BY StoreMoves DEF LogInv, Shape, TypeOK
<1>2. ASSUME NEW t, history' = Append(history, t)
      PROVE  /\ Len(history') = Len(history) + 1 /\ history'[Len(history) + 1] = t
             /\ \A i \in 1..Len(history) : history'[i] = history[i]
  BY <1>1, <1>2
<1>3. CASE SwitchesOver(p)
  BY <1>1, <1>2, <1>3 DEF SwitchesOver
<1>4. CASE RollsBack(p)
  BY <1>1, <1>2, <1>4 DEF RollsBack
<1> QED
  BY <1>1, <1>3, <1>4 DEF Stores, storeVars, Creates, Commits, Journals, Registers

LEMMA StoresGrow ==
  ASSUME LogInv, NEW p \in Procs, Acts(p), UNCHANGED instance
  PROVE  Grows
<1>1. Stores(p) /\ TypeOK
  BY StoreMoves DEF LogInv, Shape
<1>2. design' = design /\ versions \subseteq versions'
  BY <1>1 DEF Stores, storeVars, Creates, Commits, Journals, Registers, SwitchesOver, RollsBack
<1>3. \A k \in DOMAIN journal : k \in DOMAIN journal' /\ journal'[k] = journal[k]
  BY <1>1 DEF Stores, storeVars, Creates, Commits, Journals, Registers, SwitchesOver, RollsBack
<1>4. ASSUME NEW r \in Runs
      PROVE  /\ Len(log[r]) \in Nat /\ Len(log'[r]) \in Nat /\ Len(log[r]) <= Len(log'[r])
             /\ \A n \in 1..Len(log[r]) : log'[r][n] = log[r][n]
             /\ Exists(r) => Exists(r)'
             /\ Exists(r) <=> Len(log[r]) # 0
  BY LogStep
<1>5. ASSUME NEW r \in Runs, Exists(r)
      PROVE  start'[r] = start[r] /\ base'[r] = base[r]
  BY <1>1, <1>5 DEF Stores, storeVars, Creates, Commits, Journals, Registers, SwitchesOver, RollsBack, TypeOK
<1>6. /\ Len(history) \in Nat /\ Len(history') \in Nat /\ Len(history) <= Len(history')
      /\ \A i \in 1..Len(history) : history'[i] = history[i]
  <2>1. CASE history' = history
    BY <2>1, HistoryStep
  <2>2. CASE history' # history
    <3>1. Len(history') = Len(history) + 1 /\ \A i \in 1..Len(history) : history'[i] = history[i]
      BY <2>2, HistoryStep, Zenon
    <3>2. Len(history) \in Nat
      BY HistoryStep, Zenon
    <3> QED
      BY <3>1, <3>2
  <2> QED
    BY <2>1, <2>2
<1> QED
  BY <1>2, <1>3, <1>4, <1>5, <1>6 DEF Grows

-----------------------------------------------------------------------------
(* What the workflow around a run notes. *)

\* The inspections that are adopted, the attempts that begin and fail.
Notes(p) ==
  LET r == job[p].run IN
  /\ \/ UNCHANGED adopted
     \/ Creates(p)
     \/ r \in Runs /\ Exists(r) /\ UNCHANGED log /\ adopted' = [adopted EXCEPT ![r] = Len(log[r])] /\ Done(p)
  /\ \/ UNCHANGED <<begun, overlaps>>
     \/ \E q \in Runs : Exists(q) /\ UNCHANGED begun /\ Overlap(q)
     \/ \E q \in Runs : AdvanceRun(p, q) /\ Exists(q) /\ begun' = [begun EXCEPT ![q] = adopted[q]] /\ Overlap(q)
  /\ (UNCHANGED broken \/ (r \in Runs /\ Exists(r) /\ job[p].op = "advance" /\ broken' = broken \cup {r}))
  /\ (UNCHANGED stranded \/ (r \in Runs /\ stranded' = stranded \cup {r}))
  /\ (UNCHANGED caused \/ (r \in Runs /\ caused' = caused \cup {r}))
  /\ \/ UNCHANGED faults \/ Fault

LEMMA DoneNotes ==
  ASSUME TypeOK, NEW p \in Procs, CallFits(p), Return(p) \/ Throw(p)
  PROVE  LET r == job[p].run IN
         /\ (UNCHANGED broken \/ (r \in Runs /\ Exists(r) /\ job[p].op = "advance" /\ broken' = broken \cup {r}))
         /\ (UNCHANGED stranded \/ (r \in Runs /\ stranded' = stranded \cup {r}))
BY DEF Return, Throw, CallFits, OnRun

LEMMA FailNotes ==
  ASSUME TypeOK, NEW p \in Procs, CallFits(p), NEW why, Fail(p, why)
  PROVE  LET r == job[p].run IN
         /\ (UNCHANGED broken \/ (r \in Runs /\ Exists(r) /\ job[p].op = "advance" /\ broken' = broken \cup {r}))
         /\ (UNCHANGED stranded \/ (r \in Runs /\ stranded' = stranded \cup {r}))
BY DoneNotes DEF Fail, Terminate

LEMMA NoteMoves == ASSUME LogInv, NEW p \in Procs, Acts(p) PROVE Notes(p)
<1>0. TypeOK /\ CallFits(p)
  BY DEF LogInv, Shape
<1>1. CASE CallSomething(p)
  <2>1. UNCHANGED <<broken, stranded, caused, faults, adopted>>
    BY <1>1 DEF CallSomething, StartRun, AdvanceRun, Decide, CancelRun, FailRun, RollbackActivation, Call
  <2>2. \/ UNCHANGED <<begun, overlaps>>
        \/ \E q \in Runs : Exists(q) /\ UNCHANGED begun /\ Overlap(q)
        \/ \E q \in Runs : AdvanceRun(p, q) /\ Exists(q) /\ begun' = [begun EXCEPT ![q] = adopted[q]] /\ Overlap(q)
    BY <1>1 DEF CallSomething, StartRun, AdvanceRun, Decide, CancelRun, FailRun, RollbackActivation, Call
  <2> QED
    BY <2>1, <2>2 DEF Notes
<1>2. CASE CheckBaseline(p)
  <2>1. UNCHANGED <<adopted, begun, overlaps, broken, stranded, caused, faults>>
    BY <1>2 DEF CheckBaseline, Return
  <2> QED
    BY <2>1 DEF Notes
<1>3. CASE CreateRun(p)
  <2>1. UNCHANGED <<begun, overlaps, broken, stranded, caused, faults>> /\ (UNCHANGED adopted \/ Creates(p))
    BY <1>3 DEF CreateRun, Creates, Return
  <2> QED
    BY <2>1 DEF Notes
<1>4. CASE BeforeAdvance(p) \/ AfterAdvance(p) \/ InspectDecision(p)
  <2>1. UNCHANGED <<begun, overlaps, caused, faults, log>>
    BY <1>4 DEF BeforeAdvance, AfterAdvance, InspectDecision, storeVars
  <2>2. pc[p] \in {"before", "after", "inspect"}
    BY <1>4 DEF BeforeAdvance, AfterAdvance, InspectDecision
  <2>3. job[p].run \in Runs /\ Exists(job[p].run)
    <3>1. job[p].op \in OnRun
      BY <1>0, <2>2 DEF CallFits, OpsAt, Pc, OnRun, Actions
    <3> QED
      BY <1>0, <3>1 DEF CallFits
  <2>4. \/ UNCHANGED adopted
        \/ adopted' = [adopted EXCEPT ![job[p].run] = Len(log[job[p].run])] /\ Done(p)
    BY <1>4 DEF BeforeAdvance, AfterAdvance, InspectDecision, Adopt, Return
  <2>5. Return(p) \/ Throw(p) \/ UNCHANGED <<broken, stranded>>
    BY <1>4 DEF BeforeAdvance, AfterAdvance, InspectDecision, Adopt, AppendTo
  <2> QED
    BY <1>0, <2>1, <2>3, <2>4, <2>5, DoneNotes DEF Notes
<1>5. CASE InspectRun(p) \/ InspectFailure(p) \/ TerminateAfterFailure(p) \/ RollBack(p)
  <2>1. UNCHANGED <<adopted, begun, overlaps, broken, stranded, caused, faults>>
    BY <1>5 DEF InspectRun, InspectFailure, TerminateAfterFailure, Inspect, Return, AppendTo, Unchanged, RollBack
  <2> QED
    BY <2>1 DEF Notes
<1>6. CASE Route(p) \/ Design(p) \/ Materialize(p) \/ Diagnose(p)
  <2>1. UNCHANGED <<adopted, begun, overlaps, broken, stranded, caused, faults>>
    BY <1>6 DEF Route, Design, Materialize, Diagnose, Prepare, Unchanged
  <2> QED
    BY <2>1 DEF Notes
<1>7. CASE ReadResult(p) \/ ReadAuthority(p)
  <2>1. UNCHANGED <<adopted, begun, overlaps, caused, faults>>
    BY <1>7 DEF ReadResult, ReadAuthority, Unchanged
  <2>2. Fail(p, "quarantined") \/ Throw(p) \/ UNCHANGED <<broken, stranded>>
    BY <1>7 DEF ReadResult, ReadAuthority, Prepare, JudgeResult
  <2> QED
    BY <1>0, <2>1, <2>2, DoneNotes, FailNotes DEF Notes
<1>8. CASE \E e \in Evidence : e.score # 0 /\ Evaluate(p, e)
  <2>1. UNCHANGED <<adopted, begun, overlaps, caused, faults>>
    BY <1>8 DEF Evaluate
  <2>2. Fail(p, "quarantined") \/ UNCHANGED <<broken, stranded>>
    BY <1>8 DEF Evaluate, Prepare, JudgeResult
  <2> QED
    BY <1>0, <2>1, <2>2, FailNotes DEF Notes
<1>9. CASE RegisterVersion(p)
  BY <1>9 DEF RegisterVersion, Notes, noteVars
<1>10. CASE SwitchActivation(p) \/ AppendEvent(p)
  <2>1. UNCHANGED <<adopted, begun, overlaps, caused, faults>>
    BY <1>10 DEF SwitchActivation, AppendEvent
  <2>2. Fail(p, "quarantined") \/ UNCHANGED <<broken, stranded>>
    BY <1>10 DEF SwitchActivation, AppendEvent, Appended, Return
  <2> QED
    BY <1>0, <2>1, <2>2, FailNotes DEF Notes
<1>11. CASE SwitchLost(p) \/ Crash(p) \/ Contended(p) \/ \E why \in Fails : AppendLost(p, why)
  <2>1. UNCHANGED <<adopted, begun, overlaps, caused>> /\ Fault
    BY <1>11 DEF SwitchLost, Crash, Contended, AppendLost
  <2>2. (\E why : Fail(p, why)) \/ Throw(p) \/ Return(p)
    BY <1>11 DEF SwitchLost, Crash, Contended, AppendLost
  <2> QED
    BY <1>0, <2>1, <2>2, FailNotes, DoneNotes DEF Notes
<1>12. CASE \E how \in Fails \cup {"transient", "exhausted"} : ProviderFails(p, how)
  <2>1. UNCHANGED <<adopted, begun, overlaps, faults>> /\ caused' = caused \cup {job[p].run} /\ pc[p] \in AtWork
    BY <1>12 DEF ProviderFails, AtWork
  <2>2. (\E why : Fail(p, why)) \/ Throw(p) \/ Return(p)
    BY <1>12 DEF ProviderFails
  <2>3. job[p].run \in Runs
    BY <2>1, AtWorkFacts
  <2> QED
    BY <1>0, <2>1, <2>2, <2>3, FailNotes, DoneNotes DEF Notes
<1> QED
  BY <1>1, <1>2, <1>3, <1>4, <1>5, <1>6, <1>7, <1>8, <1>9, <1>10, <1>11, <1>12 DEF Acts, Step, AdvanceOne, Trouble

-----------------------------------------------------------------------------
(* Types. *)

LEMMA SameSets ==
  ASSUME UNCHANGED instance
  PROVE  /\ MaxGenerations' = MaxGenerations /\ Tiers' = Tiers /\ MaxOverlaps' = MaxOverlaps /\ MaxFaults' = MaxFaults
         /\ Versions' = Versions /\ Receipts' = Receipts /\ Evidence' = Evidence /\ Event' = Event
         /\ Transaction' = Transaction /\ Job' = Job
BY DEF MaxGenerations, Tiers, MaxOverlaps, MaxFaults, Versions, Receipts, Evidence, Scores, Event, Transaction, Job

LEMMA Constants ==
  ASSUME LogInv
  PROVE  /\ Accepted \in Event /\ NoJob \in Job /\ NoReceipt \in Receipts \cup {NoReceipt}
         /\ instance.runs \subseteq Runs /\ instance.procs \subseteq Procs
         /\ MaxGenerations \in Nat /\ MaxOverlaps \in Nat /\ MaxFaults \in Nat
<1>1. instance \in Instances
  BY DEF LogInv, Shape, TypeOK
<1>2. /\ instance.runs \subseteq Runs /\ instance.procs \subseteq Procs
      /\ MaxGenerations \in Nat /\ MaxOverlaps \in Nat /\ MaxFaults \in Nat
  BY <1>1, FoundryKernelAssumption DEF MaxGenerations, MaxOverlaps, MaxFaults
<1>3. Accepted \in Event
  BY <1>2 DEF Accepted, Event, Phases, States, Transitions, Evidence, NoEvidence
<1>4. NoJob \in Job
  BY DEF NoJob, Job, Ops
<1> QED
  BY <1>2, <1>3, <1>4

\* What the calls are called with.
Called(p, l, j) ==
  /\ pc[p] = "idle" /\ UNCHANGED storeVars
  /\ l \in Pc /\ j \in Job /\ Goes(p, l, j, at[p], event[p])
  /\ j.failing = "no" /\ j.op \in OpsAt[l] /\ l \in {"start", "before", "inspect", "rollback"}
  /\ j.op = "start" => j.run \in instance.runs
  /\ j.op = "rollback" => j.base \in Versions /\ j.receipt \in Receipts /\ WasActive(j.base)
  /\ j.op \in OnRun => j.run \in Runs /\ Exists(j.run)
  /\ j.op \in OnRun \ {"fail"} => j.rev \in 1..Len(log[j.run])
  /\ j.op \in Actions => /\ j.receipt = [action |-> j.op, run |-> j.run, rev |-> j.rev]
                         /\ log[j.run][j.rev].to \notin Ended
  /\ j.op \in {"approve", "reject"} => log[j.run][j.rev].to \in Awaiting

LEMMA CallMoves == ASSUME LogInv, NEW p \in Procs, CallSomething(p) PROVE \E l, j : Called(p, l, j)
<1>0. TypeOK /\ NoJob \in Job /\ instance.runs \subseteq Runs
  BY Constants DEF LogInv, Shape
<1>1. ASSUME NEW op, NEW j, NEW l, Call(p, op, j, l)
      PROVE  pc[p] = "idle" /\ UNCHANGED storeVars /\ Goes(p, l, j, at[p], event[p])
  BY <1>0, <1>1, GoesOn DEF Call
<1>2. ASSUME NEW r \in instance.runs, NEW b \in Versions \cup {NoVersion}, StartRun(p, r, b)
      PROVE  \E l, j : Called(p, l, j)
  <2> DEFINE j == [NoJob EXCEPT !.op = "start", !.run = r, !.base = b]
  <2>1. r \in Runs
    BY <1>0
  <2>2. j \in Job /\ j.op = "start" /\ j.run = r /\ j.failing = "no"
    BY <2>1 DEF NoJob, Job, Ops
  <2>3. Call(p, "start", j, "start")
    BY <1>2 DEF StartRun
  <2> HIDE DEF j
  <2>4. Called(p, "start", j)
    BY <1>1, <1>2, <2>2, <2>3 DEF Called, OpsAt, Pc, OnRun, Actions
  <2> QED
    BY <2>4
<1>3. ASSUME NEW r \in Runs, AdvanceRun(p, r)
      PROVE  \E l, j : Called(p, l, j)
  <2> DEFINE again == begun[r] >= adopted[r]
             j == [NoJob EXCEPT !.op = "advance", !.run = r, !.rev = adopted[r], !.replay = again]
  <2>1. Exists(r) /\ Call(p, "advance", j, "before")
    BY <1>3 DEF AdvanceRun
  <2>2. adopted[r] \in 1..Len(log[r]) /\ adopted[r] \in Nat
    BY <2>1 DEF LogInv, Shape, RunFits, TypeOK
  <2>5. again \in BOOLEAN
    OBVIOUS
  <2> HIDE DEF again
  <2>3. j \in Job /\ j.op = "advance" /\ j.run = r /\ j.rev = adopted[r] /\ j.failing = "no"
    BY <2>2, <2>5 DEF NoJob, Job, Ops
  <2> HIDE DEF j
  <2>4. Called(p, "before", j)
    BY <1>1, <2>1, <2>2, <2>3 DEF Called, OpsAt, Pc, OnRun, Actions
  <2> QED
    BY <2>4
<1>4. ASSUME NEW r \in Runs, NEW op \in Actions, NEW name, NEW n \in 1..Len(log[r]), Exists(r),
             log[r][n].to \notin Ended, op # "cancel" => log[r][n].to \in Awaiting,
             Call(p, name, [NoJob EXCEPT !.op = op, !.run = r, !.rev = n,
                              !.receipt = [action |-> op, run |-> r, rev |-> n]], "inspect")
      PROVE  \E l, j : Called(p, l, j)
  <2> DEFINE receipt == [action |-> op, run |-> r, rev |-> n]
             j == [NoJob EXCEPT !.op = op, !.run = r, !.rev = n, !.receipt = receipt]
  <2>1. n \in Nat
    BY <1>0, <1>4 DEF TypeOK
  <2>2. receipt \in Receipts
    BY <2>1 DEF Receipts
  <2> HIDE DEF receipt
  <2>3. op \in Ops
    BY DEF Ops, Actions
  <2>4. j \in Job /\ j.op = op /\ j.run = r /\ j.rev = n /\ j.failing = "no" /\ j.receipt = receipt
    BY <2>1, <2>2, <2>3 DEF NoJob, Job
  <2>5. Call(p, name, j, "inspect")
    BY <1>4 DEF receipt
  <2> HIDE DEF j
  <2>6. Called(p, "inspect", j)
    BY <1>1, <1>4, <2>4, <2>5 DEF Called, OpsAt, Pc, OnRun, Actions, receipt
  <2> QED
    BY <2>6
<1>5. ASSUME NEW r \in Runs, NEW action \in {"approve", "reject"}, NEW n \in DOMAIN log[r], Decide(p, r, action, n)
      PROVE  \E l, j : Called(p, l, j)
  <2>1. log[r] \in Seq(Event) /\ n \in 1..Len(log[r])
    BY <1>0 DEF TypeOK
  <2>2. Exists(r) /\ log[r][n].to \in Awaiting /\ log[r][n].to \notin Ended /\ action \in Actions
    BY <1>5 DEF Decide, Awaiting, Ended, Actions
  <2>3. Call(p, "decide", [NoJob EXCEPT !.op = action, !.run = r, !.rev = n,
                             !.receipt = [action |-> action, run |-> r, rev |-> n]], "inspect")
    BY <1>5 DEF Decide
  <2> QED
    BY <1>4, <2>1, <2>2, <2>3
<1>6. ASSUME NEW r \in Runs, CancelRun(p, r)
      PROVE  \E l, j : Called(p, l, j)
  <2>1. log[r] \in Seq(Event) /\ Exists(r) /\ State(r) \notin Ended /\ "cancel" \in Actions
    BY <1>0, <1>6 DEF TypeOK, CancelRun, Over, Actions
  <2>2. Len(log[r]) \in 1..Len(log[r]) /\ log[r][Len(log[r])].to \notin Ended
    BY <2>1 DEF Exists, State, Latest
  <2>3. Call(p, "cancel", [NoJob EXCEPT !.op = "cancel", !.run = r, !.rev = Len(log[r]),
                             !.receipt = [action |-> "cancel", run |-> r, rev |-> Len(log[r])]], "inspect")
    BY <1>6 DEF CancelRun
  <2> QED
    BY <1>4, <2>1, <2>2, <2>3
<1>7. ASSUME NEW r \in Runs, FailRun(p, r)
      PROVE  \E l, j : Called(p, l, j)
  <2> DEFINE j == [NoJob EXCEPT !.op = "fail", !.run = r]
  <2>1. Exists(r) /\ Call(p, "fail", j, "inspect")
    BY <1>7 DEF FailRun, LogInv, Shape, RunFits
  <2>2. j \in Job /\ j.op = "fail" /\ j.run = r /\ j.failing = "no"
    BY DEF NoJob, Job, Ops
  <2> HIDE DEF j
  <2>3. Called(p, "inspect", j)
    BY <1>1, <2>1, <2>2 DEF Called, OpsAt, Pc, OnRun, Actions
  <2> QED
    BY <2>3
<1>8. ASSUME NEW v \in Versions, RollbackActivation(p, v)
      PROVE  \E l, j : Called(p, l, j)
  <2> DEFINE receipt == [action |-> "rollback", to |-> v, rev |-> Len(history)]
             j == [NoJob EXCEPT !.op = "rollback", !.base = v, !.rev = Len(history), !.receipt = receipt]
  <2>1. Len(history) \in Nat
    BY <1>0 DEF TypeOK
  <2>2. receipt \in Receipts
    BY <2>1 DEF Receipts
  <2>3. Call(p, "rollback", j, "rollback") /\ WasActive(v)
    BY <1>8 DEF RollbackActivation
  <2> HIDE DEF receipt
  <2>4. j \in Job /\ j.op = "rollback" /\ j.base = v /\ j.failing = "no" /\ j.receipt = receipt
    BY <2>1, <2>2 DEF NoJob, Job, Ops
  <2> HIDE DEF j
  <2>5. Called(p, "rollback", j)
    BY <1>1, <2>2, <2>3, <2>4 DEF Called, OpsAt, Pc, OnRun, Actions
  <2> QED
    BY <2>5
<1> QED
  BY <1>2, <1>3, <1>5, <1>6, <1>7, <1>8 DEF CallSomething

\* The step goes on with the types.
LEMMA GoesTyped ==
  ASSUME LogInv, NEW p \in Procs, Acts(p)
  PROVE  \E l \in Pc, j \in Job, n \in Nat, e \in Event : Goes(p, l, j, n, e)
<1>1. Moves(p) /\ TypeOK /\ CallFits(p)
  BY ProcMoves DEF LogInv, Shape
<1>2. job[p] \in Job /\ at[p] \in Nat /\ event[p] \in Event /\ pc[p] \in Pc
  BY <1>1 DEF TypeOK
<1>3. {"idle", "create", "inspect", "after", "work", "evaluate", "append", "switch", "register", "reinspect"} \subseteq Pc
  BY DEF Pc
<1>4. CASE Done(p)
  BY <1>3, <1>4, Constants DEF Done, Go, Goes
<1>5. CASE CallSomething(p)
  BY <1>2, <1>5, CallMoves DEF Called
<1>6. ASSUME NEW l \in {"idle", "create", "inspect", "after", "work", "evaluate", "append"}, Advances(p, l)
      PROVE  \E m \in Pc, j \in Job, n \in Nat, e \in Event : Goes(p, m, j, n, e)
  BY <1>2, <1>3, <1>6 DEF Advances
<1>7. CASE Goes(p, "create", job[p], Len(history), event[p])
  <2>1. Len(history) \in Nat
    BY <1>1 DEF TypeOK
  <2> QED
    BY <1>2, <1>3, <1>7, <2>1
<1>8. CASE /\ pc[p] = "inspect" /\ job[p].op = "advance"
           /\ Goes(p, IF State(job[p].run) \in Ended \cup Awaiting THEN "after" ELSE "work",
                   job[p], Len(log[job[p].run]), event[p])
  <2>1. job[p].run \in Runs
    BY <1>1, <1>8 DEF CallFits, OnRun
  <2>2. Len(log[job[p].run]) \in Nat
    BY <1>1, <2>1 DEF TypeOK
  <2>3. (IF State(job[p].run) \in Ended \cup Awaiting THEN "after" ELSE "work") \in Pc
    BY <1>3
  <2> QED
    BY <1>2, <1>8, <2>2, <2>3
<1>9. CASE Prepares(p)
  <2>1. PICK e \in Event : Goes(p, Label(e), job[p], at[p], e)
    BY <1>9 DEF Prepares
  <2>2. Label(e) \in Pc
    BY <1>3 DEF Label
  <2> QED
    BY <1>2, <2>1, <2>2
<1>10. CASE AppendsTo(p)
  <2>1. PICK e \in Event : /\ Goes(p, "append", job[p], Len(log[job[p].run]), e)
                           /\ pc[p] \in {"inspect", "reinspect"}
    BY <1>10 DEF AppendsTo
  <2>2. job[p].op \in OnRun
    BY <1>1, <2>1 DEF CallFits, OpsAt, Pc, OnRun, Actions
  <2>3. Len(log[job[p].run]) \in Nat
    BY <1>1, <2>2 DEF CallFits, TypeOK
  <2> QED
    BY <1>2, <1>3, <2>1, <2>3
<1>11. CASE Terminates(p)
  <2>1. PICK why \in Fails : Goes(p, "reinspect", [job[p] EXCEPT !.failing = why], at[p], event[p])
    BY <1>11 DEF Terminates
  <2>2. [job[p] EXCEPT !.failing = why] \in Job
    BY <1>2 DEF Job
  <2> QED
    BY <1>2, <1>3, <2>1, <2>2
<1> QED
  BY <1>1, <1>4, <1>5, <1>6, <1>7, <1>8, <1>9, <1>10, <1>11 DEF Moves

LEMMA TypeStep == ASSUME LogInv, NEW p \in Procs, Acts(p), UNCHANGED instance PROVE TypeOK' /\ Designed'
<1>0. TypeOK /\ CallFits(p) /\ Stores(p) /\ Grows /\ Notes(p)
  BY StoreMoves, StoresGrow, NoteMoves DEF LogInv, Shape
<1>1. pc' \in [Procs -> Pc] /\ job' \in [Procs -> Job] /\ at' \in [Procs -> Nat] /\ event' \in [Procs -> Event]
  <2>1. PICK l \in Pc, j \in Job, n \in Nat, e \in Event : Goes(p, l, j, n, e)
    BY GoesTyped
  <2> QED
    BY <1>0, <2>1 DEF TypeOK, Goes
<1>2. log' \in [Runs -> Seq(Event)]
  <2>1. CASE Runs = {}
    <3>1. log' = log \/ Commits(p)
      BY <1>0, <2>1 DEF Stores, storeVars, Creates, Journals, Registers, SwitchesOver, RollsBack, CallFits, OpsAt, Pc, LogInv, Shape, TypeOK
    <3> QED
      BY <1>0, <2>1, <3>1, AtWorkFacts DEF TypeOK, Commits, AtWork
  <2>2. CASE Runs # {}
    BY <2>2, LogStep
  <2> QED
    BY <2>1, <2>2
<1>3. start' \in [Runs -> Nat] /\ base' \in [Runs -> Versions \cup {NoVersion}]
  <2>1. job[p].base \in Versions \cup {NoVersion} /\ at[p] \in Nat
    BY <1>0 DEF TypeOK, Job
  <2> QED
    BY <1>0, <2>1 DEF TypeOK, Stores, storeVars, Creates, Commits, Journals, Registers, SwitchesOver, RollsBack
<1>4. \A k \in DOMAIN journal' : k \in Runs \X Nat /\ journal'[k] \in Evidence
  <2>1. CASE journal' = journal
    BY <1>0, <2>1 DEF TypeOK
  <2>2. CASE \E v \in Evidence : Journals(p, v)
    <3>1. PICK v \in Evidence : Journals(p, v)
      BY <2>2
    <3>2. Operation(p) \in Runs \X Nat
      BY <3>1, AtWorkFacts DEF Journals, AtWork
    <3> QED
      BY <1>0, <3>1, <3>2 DEF TypeOK, Journals
  <2> QED
    BY <1>0, <2>1, <2>2 DEF Stores, storeVars, Creates, Commits, Registers, SwitchesOver, RollsBack
<1>5. versions' \in SUBSET Versions
  <2>1. CASE versions' = versions
    BY <1>0, <2>1 DEF TypeOK
  <2>2. CASE Registers(p)
    <3>1. pc[p] \in AtWork
      BY <2>2 DEF Registers, AtWork
    <3>2. Candidate(p) \in Versions
      BY <3>1, AtWorkFacts DEF Candidate, Versions, Event
    <3> QED
      BY <1>0, <2>2, <3>2 DEF TypeOK, Registers
  <2> QED
    BY <1>0, <2>1, <2>2 DEF Stores, storeVars, Creates, Commits, Journals, SwitchesOver, RollsBack
<1>6. history' \in Seq(Transaction)
  <2>1. CASE history' = history
    BY <1>0, <2>1 DEF TypeOK
  <2>2. CASE SwitchesOver(p)
    <3>1. pc[p] \in AtWork
      BY <2>2 DEF SwitchesOver, AtWork
    <3>2. Candidate(p) \in Versions
      BY <3>1, AtWorkFacts DEF Candidate, Versions, Event
    <3>3. event[p].receipt \in Receipts \cup {NoReceipt}
      BY <1>0 DEF TypeOK, Event
    <3>4. Activation(p) \in Transaction
      BY <3>2, <3>3 DEF Activation, Transaction
    <3> QED
      BY <1>0, <2>2, <3>4 DEF TypeOK, SwitchesOver
  <2>3. CASE RollsBack(p)
    <3>1. job[p].op = "rollback"
      BY <1>0, <2>3 DEF RollsBack, CallFits, OpsAt, Pc
    <3>2. [kind |-> "rollback", to |-> job[p].base, receipt |-> job[p].receipt] \in Transaction
      BY <1>0, <3>1 DEF CallFits, Transaction
    <3> QED
      BY <1>0, <2>3, <3>2 DEF TypeOK, RollsBack
  <2> QED
    BY <1>0, <2>1, <2>2, <2>3 DEF Stores, storeVars, Creates, Commits, Journals, Registers
<1>7. adopted' \in [Runs -> Nat] /\ begun' \in [Runs -> Nat]
  <2>1. adopted' \in [Runs -> Nat]
    <3>1. \A r \in Runs : Len(log[r]) \in Nat
      BY <1>0 DEF TypeOK
    <3>2. CASE Creates(p)
      BY <1>0, <3>2 DEF TypeOK, Creates
    <3>3. ASSUME job[p].run \in Runs, adopted' = [adopted EXCEPT ![job[p].run] = Len(log[job[p].run])]
          PROVE  adopted' \in [Runs -> Nat]
      BY <1>0, <3>1, <3>3 DEF TypeOK
    <3> QED
      BY <1>0, <3>2, <3>3 DEF TypeOK, Notes
  <2>2. begun' \in [Runs -> Nat]
    BY <1>0 DEF TypeOK, Notes
  <2> QED
    BY <2>1, <2>2
<1>8. overlaps' \in [Runs -> 0..MaxOverlaps]
  <2>1. CASE UNCHANGED overlaps
    BY <1>0, <2>1 DEF TypeOK
  <2>2. ASSUME NEW q \in Runs, overlaps[q] < MaxOverlaps, overlaps' = [overlaps EXCEPT ![q] = @ + 1]
        PROVE  overlaps' \in [Runs -> 0..MaxOverlaps]
    <3>1. MaxOverlaps \in Nat /\ overlaps[q] \in 0..MaxOverlaps
      BY <1>0, Constants DEF TypeOK
    <3>2. overlaps[q] + 1 \in 0..MaxOverlaps
      BY <2>2, <3>1
    <3> QED
      BY <1>0, <2>2, <3>2 DEF TypeOK
  <2> QED
    BY <1>0, <2>1, <2>2 DEF Notes, Overlap
<1>9. broken' \in SUBSET Runs /\ stranded' \in SUBSET Runs /\ caused' \in SUBSET Runs
  BY <1>0 DEF TypeOK, Notes
<1>10. faults' \in 0..MaxFaults
  <2>1. MaxFaults \in Nat /\ faults \in 0..MaxFaults
    BY <1>0, Constants DEF TypeOK
  <2> QED
    BY <1>0, <2>1 DEF Notes, Fault
<1>11. design' = design /\ instance' = instance
  BY <1>0 DEF Grows
<1>12. Designed'
  BY <1>11 DEF Designed, LogInv, Shape
<1>13. design' \in [Runs -> [0..MaxGenerations -> Tiers \cup {"unchanged"}]] /\ instance' \in Instances
  BY <1>0, <1>11 DEF TypeOK
<1> QED
  BY <1>1, <1>2, <1>3, <1>4, <1>5, <1>6, <1>7, <1>8, <1>9, <1>10, <1>12, <1>13, SameSets DEF TypeOK

-----------------------------------------------------------------------------
(* What a call carries stays right. *)

LEMMA GoesTo ==
  ASSUME TypeOK, NEW p \in Procs, NEW l, NEW j, NEW n, NEW e, Goes(p, l, j, n, e)
  PROVE  /\ pc'[p] = l /\ job'[p] = j /\ at'[p] = n /\ event'[p] = e
         /\ \A q \in Procs \ {p} : pc'[q] = pc[q] /\ job'[q] = job[q] /\ at'[q] = at[q] /\ event'[q] = event[q]
BY DEF TypeOK, Goes

LEMMA OthersStay ==
  ASSUME LogInv, NEW p \in Procs, Acts(p), NEW q \in Procs, q # p
  PROVE  pc'[q] = pc[q] /\ job'[q] = job[q] /\ at'[q] = at[q] /\ event'[q] = event[q]
<1>1. PICK l \in Pc, j \in Job, n \in Nat, e \in Event : Goes(p, l, j, n, e)
  BY GoesTyped
<1> QED
  BY <1>1, GoesTo DEF LogInv, Shape

\* What is right of a call stays so while the stores grow.
LEMMA CallKeeps ==
  ASSUME Grows, NEW q \in Procs, CallFits(q), job'[q] = job[q],
         job'[q].op \in OpsAt[pc'[q]],
         pc'[q] \in AtWork => at'[q] \in 1..Len(log[job[q].run]),
         pc'[q] = "reinspect" => job[q].failing \in Fails,
         pc'[q] \notin {"reinspect", "append", "after"} => job[q].failing = "no"
  PROVE  CallFits(q)'
<1> DEFINE j == job[q]
<1>1. Versions' = Versions /\ Receipts' = Receipts /\ instance' = instance
  BY SameSets DEF Grows
<1>2. ASSUME j.op \in OnRun
      PROVE  /\ j.run \in Runs /\ log'[j.run] # <<>>
             /\ Len(log[j.run]) \in Nat /\ Len(log'[j.run]) \in Nat /\ Len(log[j.run]) <= Len(log'[j.run])
             /\ \A n \in 1..Len(log[j.run]) : log'[j.run][n] = log[j.run][n]
  BY <1>2 DEF CallFits, Grows, Exists
<1>3. OpsAt' = OpsAt
  BY DEF OpsAt
<1>4. pc'[q] \in AtWork /\ pc'[q] \in Pc => j.op \in OnRun
  BY DEF OpsAt, Pc, AtWork, OnRun, Actions
<1>5. j.op \in OnRun \ {"fail"} => j.rev \in 1..Len(log'[j.run])
  BY <1>2 DEF CallFits
<1>6. j.op \in Actions => /\ j.receipt = [action |-> j.op, run |-> j.run, rev |-> j.rev]
                          /\ log'[j.run][j.rev].to \notin Ended
  BY <1>2 DEF CallFits, OnRun, Actions
<1>7. j.op \in {"approve", "reject"} => log'[j.run][j.rev].to \in Awaiting
  BY <1>2 DEF CallFits, OnRun, Actions
<1>8. j.op = "rollback" => j.base \in Versions /\ j.receipt \in Receipts
  BY DEF CallFits
<1>9. j.op = "start" => j.run \in instance.runs
  BY DEF CallFits
<1>10. pc'[q] \in AtWork /\ pc'[q] \in Pc => at'[q] \in 1..Len(log'[j.run])
  BY <1>2, <1>4
<1>11. AtWork \subseteq Pc
  BY DEF AtWork, Pc
<1> HIDE DEF j
<1>12. /\ j.op \in OpsAt[pc'[q]]
       /\ pc'[q] = "reinspect" => j.failing \in Fails
       /\ pc'[q] \notin {"reinspect", "append", "after"} => j.failing = "no"
  BY DEF j
<1>13. job'[q] = j
  BY DEF j
<1> QED
  BY <1>1, <1>2, <1>3, <1>5, <1>6, <1>7, <1>8, <1>9, <1>10, <1>11, <1>12, <1>13 DEF CallFits, Exists

LEMMA OwnCallFits ==
  ASSUME LogInv, NEW p \in Procs, Acts(p), UNCHANGED instance
  PROVE  CallFits(p)'
<1>0. TypeOK /\ CallFits(p) /\ Grows /\ Moves(p)
  BY StoresGrow, ProcMoves DEF LogInv, Shape
<1>1. ASSUME NEW l \in Pc, NEW n, NEW e, Goes(p, l, job[p], n, e), job[p].op \in OpsAt[l],
             l \in AtWork => n \in 1..Len(log[job[p].run]), l # "reinspect",
             l \notin {"append", "after"} => job[p].failing = "no"
      PROVE  CallFits(p)'
  <2>1. pc'[p] = l /\ job'[p] = job[p] /\ at'[p] = n
    BY <1>0, <1>1, GoesTo
  <2> QED
    BY <1>0, <1>1, <2>1, CallKeeps
<1> DEFINE r == job[p].run
<1>2. /\ pc[p] \in AtWork => job[p].op \in OnRun /\ at[p] \in 1..Len(log[r])
      /\ pc[p] \in AtWork \ {"append"} => job[p].op = "advance" /\ job[p].failing = "no"
  BY <1>0 DEF CallFits, OpsAt, Pc, AtWork, OnRun, Actions
<1>3. job[p].op \in OnRun => r \in Runs /\ Len(log[r]) \in 1..Len(log[r])
  BY <1>0 DEF CallFits, Exists, TypeOK
<1>4. CASE Done(p)
  <2>1. pc'[p] = "idle" /\ job'[p] = NoJob
    BY <1>0, <1>4 DEF Done, Go, TypeOK
  <2>2. OpsAt' = OpsAt /\ "none" \in OpsAt["idle"] /\ "none" \notin OnRun \cup {"start", "rollback"} \cup Actions
    BY DEF OpsAt, Pc, OnRun, Actions
  <2>3. NoJob.op = "none" /\ NoJob.failing = "no"
    BY DEF NoJob
  <2> QED
    BY <2>1, <2>2, <2>3 DEF CallFits, AtWork
<1>5. CASE CallSomething(p)
  <2>1. PICK l, j : Called(p, l, j)
    BY <1>5, CallMoves
  <2>2. pc'[p] = l /\ job'[p] = j /\ UNCHANGED log
    BY <1>0, <2>1, GoesTo DEF Called, storeVars
  <2>3. OpsAt' = OpsAt /\ Versions' = Versions /\ Receipts' = Receipts /\ instance' = instance
    BY <1>0, SameSets DEF OpsAt, Grows
  <2>4. l \in {"start", "before", "inspect", "rollback"} /\ l \notin AtWork
    BY <2>1 DEF Called, AtWork
  <2>5. j.op \in OnRun => j.run \in Runs /\ Exists(j.run)'
    BY <2>1, <2>2 DEF Called, Exists
  <2>6. /\ j.op \in OpsAt[l] /\ j.failing = "no"
        /\ j.op = "start" => j.run \in instance.runs
        /\ j.op = "rollback" => j.base \in Versions /\ j.receipt \in Receipts
        /\ j.op \in OnRun \ {"fail"} => j.rev \in 1..Len(log'[j.run])
        /\ j.op \in Actions => /\ j.receipt = [action |-> j.op, run |-> j.run, rev |-> j.rev]
                               /\ log'[j.run][j.rev].to \notin Ended
        /\ j.op \in {"approve", "reject"} => log'[j.run][j.rev].to \in Awaiting
    BY <2>1, <2>2 DEF Called
  <2> QED
    BY <2>2, <2>3, <2>4, <2>5, <2>6 DEF CallFits
<1>6. CASE pc[p] = "start" /\ Goes(p, "create", job[p], Len(history), event[p])
  <2>1. job[p].op \in OpsAt["create"] /\ job[p].failing = "no" /\ "create" \in Pc \ AtWork
    BY <1>0, <1>6 DEF CallFits, OpsAt, Pc, AtWork
  <2> QED
    BY <1>1, <1>6, <2>1
<1>7. CASE pc[p] = "before" /\ Advances(p, "inspect")
  <2>1. job[p].op \in OpsAt["inspect"] /\ job[p].failing = "no" /\ "inspect" \in Pc \ AtWork
    BY <1>0, <1>7 DEF CallFits, OpsAt, Pc, AtWork, OnRun
  <2> QED
    BY <1>1, <1>7, <2>1 DEF Advances
<1>8. CASE /\ pc[p] = "inspect" /\ job[p].op = "advance"
           /\ Goes(p, IF State(r) \in Ended \cup Awaiting THEN "after" ELSE "work", job[p], Len(log[r]), event[p])
  <2>1. job[p].op \in OpsAt["after"] /\ job[p].op \in OpsAt["work"] /\ {"work", "after"} \subseteq Pc
    BY <1>8 DEF OpsAt, Pc
  <2>2. job[p].failing = "no" /\ Len(log[r]) \in 1..Len(log[r])
    BY <1>0, <1>3, <1>8 DEF CallFits, OnRun
  <2>3. CASE State(r) \in Ended \cup Awaiting
    BY <1>1, <1>8, <2>1, <2>2, <2>3 DEF AtWork
  <2>4. CASE State(r) \notin Ended \cup Awaiting
    BY <1>1, <1>8, <2>1, <2>2, <2>4
  <2> QED
    BY <2>3, <2>4
<1>9. CASE Prepares(p)
  <2>1. PICK e \in Event : Goes(p, Label(e), job[p], at[p], e) /\ pc[p] \in {"work", "evaluate"}
    BY <1>9 DEF Prepares
  <2>2. Label(e) \in {"switch", "register", "append"}
    BY DEF Label
  <2>3. job[p].op = "advance" /\ job[p].failing = "no" /\ at[p] \in 1..Len(log[r])
    BY <1>2, <2>1 DEF AtWork
  <2>4. job[p].op \in OpsAt[Label(e)] /\ Label(e) \in Pc /\ Label(e) # "reinspect"
    BY <2>2, <2>3 DEF OpsAt, Pc, OnRun
  <2> QED
    BY <1>1, <2>1, <2>3, <2>4
<1>10. CASE pc[p] = "work" /\ Advances(p, "evaluate")
  <2>1. job[p].op \in OpsAt["evaluate"] /\ "evaluate" \in Pc
    BY <1>2, <1>10 DEF OpsAt, Pc, AtWork
  <2> QED
    BY <1>1, <1>2, <1>10, <2>1 DEF Advances, AtWork
<1>11. CASE pc[p] \in {"register", "switch"} /\ Advances(p, "append")
  <2>1. job[p].op \in OpsAt["append"] /\ "append" \in Pc
    BY <1>2, <1>11 DEF OpsAt, Pc, AtWork
  <2> QED
    BY <1>1, <1>2, <1>11, <2>1 DEF Advances, AtWork
<1>12. CASE AppendsTo(p)
  <2>1. PICK e \in Event : Goes(p, "append", job[p], Len(log[r]), e) /\ pc[p] \in {"inspect", "reinspect"}
    BY <1>12 DEF AppendsTo
  <2>2. job[p].op \in OnRun
    BY <1>0, <2>1 DEF CallFits, OpsAt, Pc, OnRun, Actions
  <2>3. job[p].op \in OpsAt["append"] /\ "append" \in Pc
    BY <2>2 DEF OpsAt, Pc
  <2> QED
    BY <1>1, <1>3, <2>1, <2>2, <2>3
<1>13. CASE Terminates(p)
  <2>1. PICK why \in Fails : Goes(p, "reinspect", [job[p] EXCEPT !.failing = why], at[p], event[p])
    BY <1>13 DEF Terminates
  <2> DEFINE j == [job[p] EXCEPT !.failing = why]
  <2>2. job[p] \in Job /\ job[p].op = "advance"
    BY <1>0, <1>13 DEF TypeOK, Terminates
  <2>3. j.op = "advance" /\ j.run = r /\ j.rev = job[p].rev /\ j.failing = why
    BY <2>2 DEF Job
  <2> HIDE DEF j
  <2>4. pc'[p] = "reinspect" /\ job'[p] = j
    BY <1>0, <2>1, GoesTo DEF j
  <2>5. OpsAt' = OpsAt /\ "advance" \in OpsAt["reinspect"] /\ "reinspect" \notin AtWork
    BY DEF OpsAt, Pc, AtWork
  <2>7. r \in Runs /\ Exists(r) /\ job[p].rev \in 1..Len(log[r])
    BY <1>0, <2>2 DEF CallFits, OnRun
  <2>6. r \in Runs /\ log'[r] # <<>> /\ job[p].rev \in 1..Len(log'[r])
    BY <1>0, <2>7 DEF Grows, Exists
  <2> QED
    BY <2>3, <2>4, <2>5, <2>6 DEF CallFits, Actions, Exists
<1>14. CASE pc[p] \in {"append", "reinspect"} /\ job[p].op \in {"advance", "approve"} /\ Advances(p, "after")
  <2>1. job[p].op \in OpsAt["after"] /\ "after" \in Pc \ AtWork
    BY <1>14 DEF OpsAt, Pc, AtWork
  <2> QED
    BY <1>1, <1>14, <2>1 DEF Advances
<1> QED
  BY <1>0, <1>4, <1>5, <1>6, <1>7, <1>8, <1>9, <1>10, <1>11, <1>12, <1>13, <1>14 DEF Moves
LEMMA CallFitsStep ==
  ASSUME LogInv, NEW p \in Procs, Acts(p), UNCHANGED instance
  PROVE  \A q \in Procs : CallFits(q)'
<1>1. ASSUME NEW q \in Procs, q # p
      PROVE  CallFits(q)'
  <2>0. CallFits(q) /\ Grows
    BY StoresGrow DEF LogInv, Shape
  <2>1. pc'[q] = pc[q] /\ job'[q] = job[q] /\ at'[q] = at[q]
    BY <1>1, OthersStay
  <2>2. /\ job[q].op \in OpsAt[pc[q]]
        /\ pc[q] \in AtWork => at[q] \in 1..Len(log[job[q].run])
        /\ pc[q] = "reinspect" => job[q].failing \in Fails
        /\ pc[q] \notin {"reinspect", "append", "after"} => job[q].failing = "no"
    BY <2>0 DEF CallFits
  <2> QED
    BY <2>0, <2>1, <2>2, CallKeeps
<1>2. CallFits(p)'
  BY OwnCallFits
<1> QED
  BY <1>1, <1>2, Zenon

LEMMA RunFitsStep ==
  ASSUME LogInv, NEW p \in Procs, Acts(p), UNCHANGED instance, NEW r \in Runs
  PROVE  RunFits(r)'
<1>0. TypeOK /\ Grows /\ Notes(p) /\ RunFits(r) /\ CallFits(p)
  BY StoresGrow, NoteMoves DEF LogInv, Shape
<1>1. \/ log'[r] = log[r]
      \/ Creates(p) /\ job[p].run = r /\ Len(log'[r]) = 1
      \/ Exists(r) /\ Len(log'[r]) = Len(log[r]) + 1
  BY LogStep
<1>2. (Exists(r) <=> Len(log[r]) # 0) /\ (Exists(r)' <=> Len(log'[r]) # 0) /\ Len(log[r]) \in Nat
  BY LogStep
<1>3. ASSUME Exists(r)'
      PROVE  r \in instance'.runs
  <2>1. CASE Exists(r)
    BY <1>0, <2>1 DEF RunFits, Grows
  <2>2. CASE ~Exists(r)
    <3>1. Creates(p) /\ job[p].run = r
      BY <1>1, <1>2, <1>3, <2>2 DEF Exists
    <3>2. job[p].op = "start"
      BY <1>0, <3>1 DEF Creates, CallFits, OpsAt, Pc
    <3> QED
      BY <1>0, <3>1, <3>2 DEF CallFits
  <2> QED
    BY <2>1, <2>2
<1>4. ASSUME Exists(r)'
      PROVE  adopted'[r] \in 1..Len(log'[r])
  <2>1. CASE Creates(p)
    <3>1. CASE job[p].run = r
      <4>1. adopted'[r] = 1 /\ Len(log'[r]) = 1
        BY <1>0, <1>1, <1>2, <2>1, <3>1, LogStep DEF Creates, TypeOK, Commits
      <4> QED
        BY <4>1
    <3>2. CASE job[p].run # r
      <4>1. adopted'[r] = adopted[r] /\ log'[r] = log[r]
        BY <1>0, <2>1, <3>2 DEF Creates, TypeOK
      <4> QED
        BY <1>0, <1>4, <4>1 DEF RunFits, Exists
    <3> QED
      BY <3>1, <3>2
  <2>2. CASE ~Creates(p)
    <3>1. Exists(r) /\ Len(log'[r]) \in Nat /\ Len(log[r]) <= Len(log'[r])
      BY <1>0, <1>1, <1>4, <2>2 DEF Exists, Grows
    <3>2. adopted[r] \in 1..Len(log[r]) /\ (adopted'[r] = adopted[r] \/ adopted'[r] = Len(log[r]))
      BY <1>0, <2>2, <3>1 DEF RunFits, Notes, TypeOK
    <3> QED
      BY <1>2, <3>1, <3>2
  <2> QED
    BY <2>1, <2>2
<1>5. ASSUME ~Exists(r)'
      PROVE  r \notin broken' /\ begun'[r] = 0
  <2>1. ~Exists(r)
    BY <1>0, <1>5 DEF Grows
  <2> QED
    BY <1>0, <2>1 DEF RunFits, Notes, TypeOK
<1> QED
  BY <1>3, <1>4, <1>5 DEF RunFits

-----------------------------------------------------------------------------
(* The log stays a chain of events that fit. *)

\* That an event will fit, when the design and the policy are as they were.
FitsAfter(r, n, e) ==
  /\ Leads(log'[r][n], e) /\ Keeps(r, log'[r][n], e) /\ Budgeted(e)
  /\ e.phase \in {"evaluate", "canary"} => <<r, n>> \in DOMAIN journal' /\ journal'[<<r, n>>] = e.evidence
  /\ e.phase = "owner_approve" => e.receipt = [action |-> "approve", run |-> r, rev |-> n]

LEMMA FitsKeeps ==
  ASSUME Grows, NEW r \in Runs, NEW n \in 1..Len(log[r]), NEW e, Fits(r, n, e)
  PROVE  FitsAfter(r, n, e)
<1>1. log'[r][n] = log[r][n]
  BY DEF Grows
<1>2. \A k \in DOMAIN journal : k \in DOMAIN journal' /\ journal'[k] = journal[k]
  BY DEF Grows
<1> QED
  BY <1>1, <1>2 DEF Fits, FitsAfter

LEMMA SamePolicy ==
  ASSUME Grows
  PROVE  design' = design /\ MaxGenerations' = MaxGenerations
BY SameSets DEF Grows

LEMMA RegisteredKeeps ==
  ASSUME Grows, NEW r, NEW e, Registered(r, e)
  PROVE  Registered(r, e)'
BY DEF Grows, Registered

LEMMA ChainedStep ==
  ASSUME LogInv, NEW p \in Procs, Acts(p), UNCHANGED instance, NEW r \in Runs
  PROVE  Chained(r)'
<1>0. Grows /\ Chained(r) /\ Prepared(p)
  BY StoresGrow DEF LogInv
<1>1. /\ Len(log[r]) \in Nat /\ Len(log'[r]) \in Nat
      /\ (Exists(r) <=> Len(log[r]) # 0) /\ (Exists(r)' <=> Len(log'[r]) # 0)
      /\ \A n \in 1..Len(log[r]) : log'[r][n] = log[r][n]
  BY <1>0, LogStep DEF Grows
<1>2. \/ log'[r] = log[r]
      \/ ~Exists(r) /\ Len(log'[r]) = 1 /\ log'[r][1] = Accepted
      \/ /\ Commits(p) /\ job[p].run = r /\ Exists(r)
         /\ Len(log'[r]) = Len(log[r]) + 1 /\ log'[r][Len(log[r]) + 1] = event[p]
  BY LogStep
<1>3. Exists(r)' => log'[r][1] = Accepted
  BY <1>0, <1>1, <1>2 DEF Chained
<1>4. ASSUME NEW n \in 1..Len(log'[r]) - 1
      PROVE  \E e : e = log'[r][n + 1] /\ FitsAfter(r, n, e) /\ Registered(r, e)' /\ e.to \in Transitions[log'[r][n].to]
  <2>1. CASE n \in 1..Len(log[r]) - 1
    <3>1. PICK e : e = log[r][n + 1] /\ Fits(r, n, e) /\ Registered(r, e) /\ e.to \in Transitions[log[r][n].to]
      BY <1>0, <2>1 DEF Chained
    <3>2. n \in 1..Len(log[r]) /\ n + 1 \in 1..Len(log[r])
      BY <1>1, <2>1
    <3>3. FitsAfter(r, n, e) /\ Registered(r, e)'
      BY <1>0, <3>1, <3>2, FitsKeeps, RegisteredKeeps
    <3> QED
      BY <1>1, <3>1, <3>2, <3>3
  <2>2. CASE n \notin 1..Len(log[r]) - 1
    <3>1. /\ Commits(p) /\ job[p].run = r /\ n = Len(log[r]) /\ n \in 1..Len(log[r])
          /\ log'[r][n + 1] = event[p]
      <4> DEFINE a == Len(log[r])
                 b == Len(log'[r])
      <4>2. a \in Nat /\ b \in Nat /\ n \in 1..b - 1 /\ n \notin 1..a - 1
        BY <1>1, <1>4, <2>2
      <4> HIDE DEF a, b
      <4>3. a # b /\ b # 1
        BY <4>2
      <4>0. Len(log'[r]) # Len(log[r]) /\ Len(log'[r]) # 1
        BY <4>3 DEF a, b
      <4>1. log'[r] # log[r] /\ ~(Len(log'[r]) = 1)
        BY <4>0
      <4> QED
        BY <1>1, <1>2, <1>4, <2>2, <4>1
    <3>2. /\ pc[p] = "append" /\ at[p] = n /\ event[p].to \in Transitions[log[r][n].to]
      BY <3>1 DEF Commits, Verdict
    <3>3. Fits(r, n, event[p]) /\ Registered(r, event[p])
      BY <1>0, <3>1, <3>2 DEF Prepared
    <3>4. PICK e : e = event[p]
      OBVIOUS
    <3>5. Fits(r, n, e) /\ Registered(r, e)
      BY <3>3, <3>4
    <3>6. FitsAfter(r, n, e) /\ Registered(r, e)'
      BY <1>0, <3>1, <3>5, FitsKeeps, RegisteredKeeps
    <3> QED
      BY <1>1, <3>1, <3>2, <3>4, <3>6
  <2> QED
    BY <2>1, <2>2
<1>5. \A n \in 1..Len(log'[r]) - 1 :
        /\ FitsAfter(r, n, log'[r][n + 1])
        /\ log'[r][n + 1].to = "qualified" => [run |-> r, gen |-> log'[r][n + 1].gen] \in versions'
        /\ log'[r][n + 1].to \in Transitions[log'[r][n].to]
  BY <1>4 DEF Registered
<1> QED
  BY <1>0, <1>3, <1>5, SamePolicy DEF Chained, Fits, FitsAfter, Keeps, Budgeted, Registered

LEMMA PreparedKeeps ==
  ASSUME LogInv, Grows, NEW q \in Procs, Prepared(q),
         pc'[q] = pc[q], job'[q] = job[q], at'[q] = at[q], event'[q] = event[q]
  PROVE  Prepared(q)'
<1> DEFINE r == job[q].run
<1>1. CASE pc[q] \notin AtWork
  BY <1>1 DEF Prepared, AtWork
<1>2. CASE pc[q] \in AtWork
  <2>1. r \in Runs /\ at[q] \in 1..Len(log[r])
    BY <1>2, AtWorkFacts
  <2>2. log'[r][at[q]] = log[r][at[q]]
    BY <2>1 DEF Grows
  <2>3. PICK e, n, s : e = event[q] /\ n = at[q] /\ s = job[q].run
    OBVIOUS
  <2>4. pc[q] \in {"register", "switch", "append"} => FitsAfter(s, n, e)
    <3>1. pc[q] \in {"register", "switch", "append"} => Fits(s, n, e)
      BY <2>3 DEF Prepared
    <3> QED
      BY <2>1, <2>3, <3>1, FitsKeeps
  <2>5. pc[q] = "append" => Registered(s, e)'
    <3>1. pc[q] = "append" => Registered(s, e)
      BY <2>3 DEF Prepared
    <3> QED
      BY <3>1, RegisteredKeeps
  <2>6. pc'[q] \in {"register", "switch", "append"} => Fits(job[q].run, at[q], event[q])'
    BY <2>3, <2>4, SamePolicy DEF Fits, FitsAfter, Keeps, Budgeted
  <2>7. pc'[q] = "append" => Registered(job[q].run, event[q])'
    BY <2>3, <2>5 DEF Registered
  <2> QED
    BY <2>2, <2>6, <2>7 DEF Prepared
<1> QED
  BY <1>1, <1>2

LEMMA OwnPrepared ==
  ASSUME LogInv, NEW p \in Procs, Acts(p), UNCHANGED instance
  PROVE  Prepared(p)'
<1> DEFINE r == job[p].run
<1>0. TypeOK /\ CallFits(p) /\ Grows /\ Moves(p) /\ Prepared(p)
  BY StoresGrow, ProcMoves DEF LogInv, Shape
<1>1. ASSUME pc'[p] \notin AtWork
      PROVE  Prepared(p)'
  BY <1>1 DEF Prepared, AtWork
<1>2. ASSUME NEW l, NEW j, NEW n, NEW e, Goes(p, l, j, n, e), l \notin AtWork
      PROVE  Prepared(p)'
  BY <1>0, <1>1, <1>2, GoesTo
<1>3. ASSUME NEW l \in {"register", "switch", "append"}, NEW n \in 1..Len(log[r]), NEW e, r \in Runs,
             Goes(p, l, job[p], n, e), FitsAfter(r, n, e),
             l = "register" => e.to = "qualified",
             l = "switch" => e.phase = "activate",
             l = "append" =>
               /\ e.to = "qualified" => [run |-> r, gen |-> e.gen] \in versions'
               /\ e.to \in Fails => job[p].op = "fail" \/ job[p].failing # "no"
               /\ job[p].op \in Actions => n = job[p].rev /\ e.phase = DecisionPhase(job[p].op)
               /\ job[p].op = "fail" => e.phase = "failure"
               /\ job[p].op = "advance" /\ job[p].failing = "no" => e.phase \notin {"owner_approve", "owner_reject", "cancel"}
      PROVE  Prepared(p)'
  <2>1. pc'[p] = l /\ job'[p] = job[p] /\ at'[p] = n /\ event'[p] = e
    BY <1>0, <1>3, GoesTo
  <2>2. Fits(job[p].run, at[p], event[p])'
    BY <1>0, <1>3, <2>1, SamePolicy DEF Fits, FitsAfter, Keeps, Budgeted
  <2>3. pc'[p] = "append" => Registered(job[p].run, event[p])'
    BY <1>3, <2>1 DEF Registered
  <2> QED
    BY <1>3, <2>1, <2>2, <2>3 DEF Prepared
<1>4. CASE Done(p)
  <2>1. pc'[p] = "idle"
    BY <1>0, <1>4 DEF Done, Go, TypeOK
  <2> QED
    BY <1>1, <2>1 DEF AtWork
<1>5. CASE CallSomething(p)
  <2>1. PICK l, j : Called(p, l, j)
    BY <1>5, CallMoves
  <2> QED
    BY <1>2, <2>1 DEF Called, AtWork
<1>6. CASE pc[p] = "start" /\ Goes(p, "create", job[p], Len(history), event[p])
  BY <1>2, <1>6 DEF AtWork
<1>7. CASE Advances(p, "inspect") \/ Advances(p, "after")
  BY <1>2, <1>7 DEF Advances, AtWork
<1>8. CASE /\ pc[p] = "inspect" /\ job[p].op = "advance" /\ UNCHANGED storeVars
           /\ Goes(p, IF State(r) \in Ended \cup Awaiting THEN "after" ELSE "work", job[p], Len(log[r]), event[p])
  <2>1. CASE State(r) \in Ended \cup Awaiting
    BY <1>2, <1>8, <2>1 DEF AtWork
  <2>2. CASE State(r) \notin Ended \cup Awaiting
    <3>1. pc'[p] = "work" /\ job'[p] = job[p] /\ at'[p] = Len(log[r]) /\ log' = log
      BY <1>0, <1>8, <2>2, GoesTo DEF storeVars
    <3> QED
      BY <2>2, <3>1 DEF Prepared, State, Latest, Actions
  <2> QED
    BY <2>1, <2>2
<1>9. CASE Prepares(p)
  <2>1. PICK e \in Event : FitsNow(p, e) /\ Goes(p, Label(e), job[p], at[p], e)
    BY <1>9 DEF Prepares
  <2>2. /\ r \in Runs /\ at[p] \in 1..Len(log[r]) /\ job[p].op = "advance" /\ job[p].failing = "no"
        /\ Seen(p) = log[r][at[p]] /\ log' = log
    BY <1>0, <1>9, AtWorkFacts DEF Prepares, AtWork, CallFits, OpsAt, Pc, Seen
  <2>3. FitsAfter(r, at[p], e)
    BY <2>1, <2>2 DEF FitsNow, FitsAfter, Operation
  <2>4. /\ Leads(Seen(p), e)
        /\ e.phase \notin {"owner_approve", "owner_reject", "cancel", "failure", "quarantine"}
    BY <2>1 DEF FitsNow
  <2>5. e.to \notin Fails
    BY <2>4 DEF Leads, Fails
  <2>6. /\ Label(e) \in {"register", "switch", "append"}
        /\ Label(e) = "register" => e.to = "qualified"
        /\ Label(e) = "switch" => e.phase = "activate"
        /\ Label(e) = "append" => e.to # "qualified"
    BY DEF Label
  <2> HIDE DEF r
  <2> DEFINE l == Label(e)
  <2>7. Goes(p, l, job[p], at[p], e)
    BY <2>1
  <2> HIDE DEF l
  <2> QED
    BY <1>3, <2>2, <2>3, <2>4, <2>5, <2>6, <2>7 DEF Actions, r, l
<1>10. CASE /\ pc[p] = "work" /\ UNCHANGED storeVars /\ Seen(p).to \in Evaluating /\ Operation(p) \notin DOMAIN journal
            /\ Advances(p, "evaluate")
  <2>1. pc'[p] = "evaluate" /\ job'[p] = job[p] /\ at'[p] = at[p] /\ log' = log
    BY <1>0, <1>10, GoesTo DEF Advances, storeVars
  <2>2. log[r][at[p]].to \in Evaluating /\ log[r][at[p]].to \notin Ended \cup Awaiting
    BY <1>0, <1>10 DEF Prepared, Seen
  <2> QED
    BY <2>1, <2>2 DEF Prepared
<1>11. CASE pc[p] = "register" /\ Registers(p) /\ Advances(p, "append")
  <2>1. /\ r \in Runs /\ at[p] \in 1..Len(log[r]) /\ job[p].op = "advance" /\ job[p].failing = "no"
    BY <1>0, <1>11, AtWorkFacts DEF AtWork, CallFits, OpsAt, Pc
  <2>2. Fits(r, at[p], event[p]) /\ event[p].to = "qualified"
    BY <1>0, <1>11 DEF Prepared
  <2>3. FitsAfter(r, at[p], event[p])
    BY <1>0, <2>1, <2>2, FitsKeeps
  <2>4. event[p].phase = "evaluate" /\ event[p].gen = log[r][at[p]].gen
    BY <2>2 DEF Fits, Leads, Keeps, Fails
  <2>5. [run |-> r, gen |-> event[p].gen] \in versions'
    BY <1>11, <2>4 DEF Registers, Candidate, Seen
  <2> QED
    BY <1>3, <1>11, <2>1, <2>2, <2>3, <2>4, <2>5 DEF Advances, Fails, Actions
<1>12. CASE pc[p] = "switch" /\ Advances(p, "append")
  <2>1. /\ r \in Runs /\ at[p] \in 1..Len(log[r]) /\ job[p].op = "advance" /\ job[p].failing = "no"
    BY <1>0, <1>12, AtWorkFacts DEF AtWork, CallFits, OpsAt, Pc
  <2>2. Fits(r, at[p], event[p]) /\ event[p].phase = "activate"
    BY <1>0, <1>12 DEF Prepared
  <2>3. FitsAfter(r, at[p], event[p])
    BY <1>0, <2>1, <2>2, FitsKeeps
  <2>4. event[p].to = "completed_active"
    BY <2>2 DEF Fits, Leads
  <2> QED
    BY <1>3, <1>12, <2>1, <2>2, <2>3, <2>4 DEF Advances, Fails, Actions
<1>13. CASE AppendsTo(p)
  <2>1. PICK e \in Event :
           /\ Goes(p, "append", job[p], Len(log[r]), e)
           /\ Leads(Latest(r), e) /\ Keeps(r, Latest(r), e) /\ Budgeted(e)
           /\ \/ /\ pc[p] = "inspect" /\ job[p].op \in Actions /\ Len(log[r]) = job[p].rev
                 /\ e.receipt = job[p].receipt /\ e.phase = DecisionPhase(job[p].op)
              \/ pc[p] = "inspect" /\ job[p].op = "fail" /\ e.phase = "failure"
              \/ pc[p] = "reinspect" /\ e.phase \in {"failure", "quarantine"}
    BY <1>13 DEF AppendsTo
  <2>2. /\ job[p].op \in OnRun /\ log' = log
        /\ pc[p] = "reinspect" => job[p].op = "advance" /\ job[p].failing # "no"
    BY <1>0, <1>13 DEF AppendsTo, storeVars, CallFits, OpsAt, Pc, OnRun, Actions, Fails
  <2>3. r \in Runs /\ Len(log[r]) \in 1..Len(log[r])
    BY <1>0, <2>2 DEF CallFits, Exists, TypeOK
  <2>4. job[p].op \in Actions => DecisionPhase(job[p].op) \in {"owner_approve", "owner_reject", "cancel"}
                                /\ (DecisionPhase(job[p].op) = "owner_approve" => job[p].op = "approve")
                                /\ job[p].receipt = [action |-> job[p].op, run |-> r, rev |-> job[p].rev]
    BY <1>0 DEF DecisionPhase, Actions, CallFits
  <2>5. e.phase \in {"owner_approve", "owner_reject", "cancel", "failure", "quarantine"}
    BY <2>1, <2>4
  <2>6. e.phase = "owner_approve" => e.receipt = [action |-> "approve", run |-> r, rev |-> Len(log[r])]
    BY <2>1, <2>4
  <2>7. FitsAfter(r, Len(log[r]), e)
    BY <2>1, <2>2, <2>5, <2>6 DEF FitsAfter, Latest
  <2>8. e.to # "qualified" /\ (e.to \in Fails => e.phase \in {"failure", "quarantine"})
    BY <2>1, <2>5 DEF Leads, Fails
  <2>9. /\ job[p].op \in Actions => Len(log[r]) = job[p].rev /\ e.phase = DecisionPhase(job[p].op)
        /\ job[p].op = "fail" => e.phase = "failure"
        /\ job[p].op = "advance" /\ job[p].failing = "no" => e.phase \notin {"owner_approve", "owner_reject", "cancel"}
        /\ e.to \in Fails => job[p].op = "fail" \/ job[p].failing # "no"
    BY <2>1, <2>2, <2>4, <2>8 DEF Actions
  <2> QED
    BY <1>3, <2>1, <2>3, <2>7, <2>8, <2>9
<1>14. CASE Terminates(p)
  BY <1>2, <1>14 DEF Terminates, AtWork
<1> QED
  BY <1>0, <1>4, <1>5, <1>6, <1>7, <1>8, <1>9, <1>10, <1>11, <1>12, <1>13, <1>14 DEF Moves

-----------------------------------------------------------------------------
(* The log's invariant, and what it says of the log. *)

LEMMA LogInvInit == Init => LogInv
<1> SUFFICES ASSUME Init PROVE LogInv
  OBVIOUS
<1>1. /\ instance \in Instances /\ MaxOverlaps \in Nat /\ MaxFaults \in Nat /\ MaxGenerations \in Nat
      /\ instance.runs \subseteq Runs
  BY FoundryKernelAssumption DEF Init, MaxGenerations, MaxOverlaps, MaxFaults
<1>2. Accepted \in Event /\ NoJob \in Job /\ NoJob.op = "none" /\ NoJob.failing = "no"
  BY <1>1 DEF Accepted, Event, Phases, States, Transitions, Evidence, NoEvidence, NoJob, Job, Ops
<1>3. TypeOK
  <2>1. log \in [Runs -> Seq(Event)] /\ history \in Seq(Transaction)
    BY DEF Init
  <2>2. pc \in [Procs -> Pc] /\ job \in [Procs -> Job] /\ at \in [Procs -> Nat] /\ event \in [Procs -> Event]
    BY <1>2 DEF Init, Pc
  <2>3. DOMAIN journal = {}
    BY DEF Init
  <2>4. overlaps \in [Runs -> 0..MaxOverlaps] /\ faults \in 0..MaxFaults
    BY <1>1 DEF Init
  <2> QED
    BY <1>1, <2>1, <2>2, <2>3, <2>4 DEF Init, TypeOK
<1>4. Designed
  BY DEF Init, Designed
<1>5. ASSUME NEW p \in Procs PROVE CallFits(p) /\ Prepared(p)
  <2>1. pc[p] = "idle" /\ job[p] = NoJob
    BY DEF Init
  <2>2. "none" \in OpsAt["idle"]
    BY DEF OpsAt, Pc
  <2> QED
    BY <1>2, <2>1, <2>2 DEF CallFits, Prepared, OnRun, Actions, AtWork
<1>6. ASSUME NEW r \in Runs PROVE RunFits(r) /\ Chained(r)
  <2>1. log[r] = <<>> /\ begun[r] = 0 /\ broken = {}
    BY DEF Init
  <2>2. ~Exists(r) /\ Len(log[r]) = 0
    BY <2>1 DEF Exists
  <2> QED
    BY <2>1, <2>2 DEF RunFits, Chained
<1> QED
  BY <1>3, <1>4, <1>5, <1>6 DEF LogInv, Shape

LEMMA LogInvStep == LogInv /\ [Next]_vars => LogInv'
<1> SUFFICES ASSUME LogInv, [Next]_vars PROVE LogInv'
  OBVIOUS
<1>1. CASE Next
  <2>1. UNCHANGED instance /\ \E p \in Procs : Acts(p)
    BY <1>1, StepOfOne DEF LogInv, Shape
  <2>2. PICK p \in Procs : Acts(p)
    BY <2>1
  <2>3. TypeOK' /\ Designed'
    BY <2>1, <2>2, TypeStep
  <2>4. (\A q \in Procs : CallFits(q)') /\ (\A r \in Runs : RunFits(r)') /\ \A r \in Runs : Chained(r)'
    BY <2>1, <2>2, CallFitsStep, RunFitsStep, ChainedStep
  <2>5. ASSUME NEW q \in Procs, q # p PROVE Prepared(q)'
    <3>1. Grows /\ Prepared(q)
      BY <2>1, <2>2, StoresGrow DEF LogInv
    <3> QED
      BY <2>2, <2>5, <3>1, OthersStay, PreparedKeeps
  <2>6. Prepared(p)'
    BY <2>1, <2>2, OwnPrepared
  <2>7. \A q \in Procs : Prepared(q)'
    BY <2>5, <2>6, Zenon
  <2> QED
    BY <2>3, <2>4, <2>7 DEF LogInv, Shape
<1>2. CASE UNCHANGED vars
  <2>1. UNCHANGED <<log, start, base, design, journal, versions, history, pc, job, at, event,
                    adopted, begun, overlaps, broken, stranded, caused, faults, instance>>
    BY <1>2 DEF vars, storeVars, procVars, noteVars
  <2>2. TypeOK' /\ Designed'
    BY <2>1, SameSets DEF LogInv, Shape, TypeOK, Designed
  <2>3. ASSUME NEW p \in Procs PROVE CallFits(p)' /\ Prepared(p)'
    BY <2>1, SameSets DEF LogInv, Shape, CallFits, Exists, OpsAt, Prepared, Fits, Keeps, Budgeted, Registered
  <2>4. ASSUME NEW r \in Runs PROVE RunFits(r)' /\ Chained(r)'
    BY <2>1, SameSets DEF LogInv, Shape, RunFits, Exists, Chained, Fits, Keeps, Budgeted, Registered
  <2> QED
    BY <2>2, <2>3, <2>4 DEF LogInv, Shape
<1> QED
  BY <1>1, <1>2

\* Every event of a run is the accepted request or one that the phase before it
\* leads to, within the policy, with the evidence the journal holds; and every
\* process is about to append such an event.
THEOREM LogInvariant == Spec => []LogInv
<1> QED
  BY LogInvInit, LogInvStep, PTL DEF Spec

\* TypeOK: the stores and the processes hold what the code keeps in them.
THEOREM TypeCorrect == Spec => []TypeOK
<1>1. LogInv => TypeOK
  BY DEF LogInv, Shape
<1> QED
  BY <1>1, LogInvariant, PTL

LEMMA LogIsHeld == LogInv => LogHolds
<1> SUFFICES ASSUME LogInv, NEW r \in Runs, NEW i \in DOMAIN log[r]
             PROVE  /\ log[r][i].gen <= MaxGenerations /\ log[r][i].flat <= 2
                    /\ log[r][i].phase \in {"evaluate", "canary"} =>
                         <<r, i - 1>> \in DOMAIN journal /\ journal[<<r, i - 1>>] = log[r][i].evidence
  BY DEF LogHolds, BudgetHolds, LogMatchesJournal
<1>0. log[r] \in Seq(Event) /\ MaxGenerations \in Nat
  BY Constants DEF LogInv, Shape, TypeOK
<1>1. Len(log[r]) \in Nat /\ i \in 1..Len(log[r])
  BY <1>0
<1>2. log[r][i] \in Event /\ Budgeted(log[r][i])
  BY <1>1, LogBudgeted
<1>3. log[r][i].gen <= MaxGenerations /\ log[r][i].flat <= 2
  BY <1>0, <1>1, <1>2 DEF Event, Budgeted
<1>4. CASE i = 1
  <2>1. log[r][i].phase = "accepted"
    BY <1>1, <1>4 DEF LogInv, Chained, Exists, Accepted
  <2> QED
    BY <1>3, <2>1
<1>5. CASE i # 1
  <2>1. i - 1 \in 1..Len(log[r]) - 1 /\ (i - 1) + 1 = i
    BY <1>1, <1>5
  <2>2. Fits(r, i - 1, log[r][i])
    BY <2>1 DEF LogInv, Chained
  <2> QED
    BY <1>3, <2>2 DEF Fits
<1> QED
  BY <1>4, <1>5

\* LogHolds: no run has more generations than its policy allows or three
\* evaluations in a row without improvement, and the evidence in its log is what
\* the operation answered, whatever attempts overlap, die or are repeated.
THEOREM LogWithinPolicy == Spec => []LogHolds
<1> QED
  BY LogIsHeld, LogInvariant, PTL

-----------------------------------------------------------------------------
(* What a run has gone through, event by event. *)

\* The event after revision n.
LEMMA NextEvent ==
  ASSUME LogInv, NEW r \in Runs, NEW n \in 1..Len(log[r]) - 1
  PROVE  /\ n \in 1..Len(log[r]) /\ n + 1 \in 1..Len(log[r])
         /\ log[r][n] \in Event /\ log[r][n + 1] \in Event
         /\ Leads(log[r][n], log[r][n + 1]) /\ Keeps(r, log[r][n], log[r][n + 1])
         /\ Fits(r, n, log[r][n + 1]) /\ Registered(r, log[r][n + 1])
         /\ log[r][n + 1].to \in Transitions[log[r][n].to]
<1>1. Len(log[r]) \in Nat
  BY DEF LogInv, Shape, TypeOK
<1>2. n \in 1..Len(log[r]) /\ n + 1 \in 1..Len(log[r])
  BY <1>1
<1>3. log[r][n] \in Event /\ log[r][n + 1] \in Event
  BY <1>2, LogBudgeted
<1>4. Fits(r, n, log[r][n + 1]) /\ Registered(r, log[r][n + 1]) /\ log[r][n + 1].to \in Transitions[log[r][n].to]
  BY DEF LogInv, Chained
<1> QED
  BY <1>2, <1>3, <1>4 DEF Fits

LEMMA CoversNext ==
  ASSUME LogInv, NEW r \in Runs, NEW n \in 1..Len(log[r]) - 1, Earned(r, n), log[r][n + 1].to \in Risked
  PROVE  Covers(r, log[r][n + 1])
<1> DEFINE d == log[r][n]
           e == log[r][n + 1]
<1>1. Leads(d, e) /\ Keeps(r, d, e) /\ d \in Event /\ e \in Event
  BY NextEvent
<1>2. /\ d.to \in {"accepted", "designing"} => d.gen = 0
      /\ d.to \in Risked => \A k \in 0..d.gen : design[r][k] \in Risks /\ Rank[design[r][k]] <= Rank[d.tier]
  BY DEF Earned, Covers
<1>3. e.to \in Risked
  OBVIOUS
<1>4. design[r][0] \in Risks
  <2>1. Exists(r)
    BY DEF Exists, LogInv, Shape, TypeOK
  <2>2. r \in instance.runs
    BY <2>1 DEF LogInv, Shape, RunFits
  <2>3. design[r][0] # "unchanged"
    BY <2>2 DEF LogInv, Shape, Designed
  <2>4. MaxGenerations \in Nat /\ \A k \in 0..MaxGenerations : design[r][k] \in Risks \cup {"unchanged"}
    BY DesignTyped
  <2> QED
    BY <2>3, <2>4
<1>5. d.tier \in Risks /\ d.gen \in Nat
  BY <1>1 DEF Event, Risks
<1> HIDE DEF d, e
<1>6. CASE e.phase = "blueprint"
  <2>1. d.to = "designing"
    BY <1>1, <1>6 DEF Leads
  <2>2. e.gen = 0 /\ e.tier = MaximumRiskTier(d.tier, design[r][0])
    BY <1>1, <1>2, <1>6, <2>1 DEF Keeps
  <2>3. Rank[design[r][0]] <= Rank[e.tier]
    BY <1>4, <1>5, <2>2, Tiered
  <2>4. Covers(r, e)
    BY <1>4, <2>2, <2>3 DEF Covers
  <2> QED
    BY <2>4 DEF e
<1>7. CASE e.phase = "evolve"
  <2>1. d.to = "diagnosing"
    BY <1>1, <1>7 DEF Leads
  <2> DEFINE next == design[r][e.gen]
  <2>2. e.gen = d.gen + 1 /\ next \in Risks /\ e.tier = MaximumRiskTier(d.tier, next)
    BY <1>1, <1>7 DEF Keeps
  <2> HIDE DEF next
  <2>3. /\ Rank[next] <= Rank[e.tier] /\ Rank[d.tier] <= Rank[e.tier] /\ Rank[d.tier] \in Nat /\ Rank[e.tier] \in Nat
    BY <1>5, <2>2, Tiered
  <2>4. ASSUME NEW k \in 0..e.gen PROVE design[r][k] \in Risks /\ Rank[design[r][k]] <= Rank[e.tier]
    <3>1. CASE k = e.gen
      BY <2>2, <2>3, <3>1 DEF next
    <3>2. CASE k # e.gen
      <4>1. k \in 0..d.gen
        BY <1>5, <2>2, <3>2
      <4>2. design[r][k] \in Risks /\ Rank[design[r][k]] <= Rank[d.tier]
        BY <1>2, <2>1, <4>1 DEF Risked
      <4>3. Rank[design[r][k]] \in Nat
        BY <1>5, <4>2, Tiered
      <4> QED
        BY <2>3, <4>2, <4>3
    <3> QED
      BY <3>1, <3>2
  <2> QED
    BY <2>4 DEF e, Covers
<1>8. CASE e.phase \notin {"blueprint", "evolve"}
  <2>1. e.gen = d.gen /\ e.tier = d.tier
    BY <1>1, <1>8 DEF Keeps
  <2>2. d.to \in Risked
    BY <1>1, <1>3, <1>8 DEF Leads, Risked, Qualified, Awaiting, Fails
  <2>3. Covers(r, e)
    BY <1>2, <2>1, <2>2 DEF Covers
  <2> QED
    BY <2>3 DEF e
<1> QED
  BY <1>6, <1>7, <1>8

LEMMA EarnedNext ==
  ASSUME LogInv, NEW r \in Runs, NEW n \in 1..Len(log[r]) - 1, Earned(r, n)
  PROVE  Earned(r, n + 1)
<1> DEFINE d == log[r][n]
           e == log[r][n + 1]
<1>1. /\ Leads(d, e) /\ Keeps(r, d, e) /\ d \in Event /\ e \in Event /\ Registered(r, e)
      /\ n \in DOMAIN log[r] /\ n + 1 \in DOMAIN log[r] /\ (n + 1) - 1 = n
  BY NextEvent, SMTT(30) DEF LogInv, Shape, TypeOK
<1>2. /\ d.to \in {"accepted", "designing"} => d.gen = 0
      /\ d.to \in Qualified => /\ [run |-> r, gen |-> d.gen] \in versions
                               /\ Passed(r, d.gen, "evaluate", {"qualified"})
      /\ d.to \in Canaried => Passed(r, d.gen, "canary", {"activating", "awaiting_owner_active"})
      /\ d.to \in Canaried \cup {"canary"} /\ d.tier = "high" => ApprovedIn(r, d.gen, "awaiting_owner_canary")
  BY DEF Earned
<1>3. e.to \in Risked => Covers(r, e)
  BY CoversNext
<1>4. \A phase, to : e.phase = phase /\ e.to \in to => Passed(r, e.gen, phase, to)
  BY <1>1 DEF Passed
<1>5. e.phase = "owner_approve" => ApprovedIn(r, e.gen, d.to)
  BY <1>1 DEF ApprovedIn
<1>10. log[r][(n + 1) - 1] = d
  BY <1>1
<1>11. e = log[r][n + 1]
  OBVIOUS
<1> HIDE DEF d, e
<1>6. e.to \in {"accepted", "designing"} => e.gen = 0
  BY <1>1, <1>2 DEF Leads, Keeps, Awaiting, Fails
<1>7. e.to \in Qualified => /\ [run |-> r, gen |-> e.gen] \in versions
                            /\ Passed(r, e.gen, "evaluate", {"qualified"})
  <2>1. CASE e.to = "qualified"
    <3>1. e.phase = "evaluate"
      BY <1>1, <2>1 DEF Leads, Awaiting, Fails
    <3> QED
      BY <1>1, <1>4, <2>1, <3>1 DEF Registered
  <2>2. CASE e.to \in Qualified /\ e.to # "qualified"
    <3>1. d.to \in Qualified /\ e.phase # "evolve"
      BY <1>1, <2>2 DEF Leads, Awaiting, Fails, Qualified
    <3> QED
      BY <1>1, <1>2, <3>1 DEF Keeps
  <2> QED
    BY <2>1, <2>2
<1>8. e.to \in Canaried => Passed(r, e.gen, "canary", {"activating", "awaiting_owner_active"})
  <2>1. CASE e.phase = "canary" /\ e.to \in Canaried
    <3>1. e.to \in {"activating", "awaiting_owner_active"}
      BY <1>1, <2>1 DEF Leads, Canaried
    <3> QED
      BY <1>4, <2>1, <3>1
  <2>2. CASE e.phase # "canary" /\ e.to \in Canaried
    <3>1. d.to \in Canaried /\ e.phase # "evolve"
      BY <1>1, <2>2 DEF Leads, Awaiting, Fails, Canaried
    <3> QED
      BY <1>1, <1>2, <3>1 DEF Keeps
  <2> QED
    BY <2>1, <2>2
<1>9. e.to \in Canaried \cup {"canary"} /\ e.tier = "high" => ApprovedIn(r, e.gen, "awaiting_owner_canary")
  <2> SUFFICES ASSUME e.to \in Canaried \cup {"canary"}, e.tier = "high"
               PROVE  ApprovedIn(r, e.gen, "awaiting_owner_canary")
    OBVIOUS
  <2>1. e.phase \notin {"evolve", "blueprint"}
    BY <1>1 DEF Leads, Canaried
  <2>2. e.gen = d.gen /\ d.tier = "high"
    BY <1>1, <2>1 DEF Keeps
  <2>3. d.to \in Canaried \cup {"canary"} \/ (e.phase = "owner_approve" /\ d.to = "awaiting_owner_canary")
    BY <1>1, <2>2 DEF Leads, Canaried, Awaiting, Fails
  <2> QED
    BY <1>2, <1>5, <2>2, <2>3
<1>12. e.to = "activating" /\ e.tier # "low" => e.phase = "owner_approve" /\ d.to = "awaiting_owner_active"
  BY <1>1 DEF Leads, Keeps, Awaiting, Fails
<1> QED
  BY <1>3, <1>6, <1>7, <1>8, <1>9, <1>10, <1>11, <1>12 DEF Earned

\* By the smallest revision that would not have.
LEMMA AllEarned ==
  ASSUME LogInv, NEW r \in Runs, NEW n \in 1..Len(log[r])
  PROVE  Earned(r, n)
<1>1. Len(log[r]) \in Nat
  BY DEF LogInv, Shape, TypeOK
<1>2. Earned(r, 1)
  <2>1. Exists(r)
    BY <1>1 DEF Exists, LogInv, Shape, TypeOK
  <2>2. log[r][1] = Accepted
    BY <2>1 DEF LogInv, Chained
  <2> QED
    BY <2>2 DEF Earned, Accepted, Risked, Qualified, Canaried, Awaiting
<1> DEFINE S == {k \in 1..Len(log[r]) : ~Earned(r, k)}
<1>3. S # {} => \E m \in S : \A k \in S : m <= k
  <2>1. S \in SUBSET Nat
    OBVIOUS
  <2> HIDE DEF S
  <2> QED
    BY <2>1, SmallestOf
<1>4. ASSUME NEW m \in S, \A k \in S : m <= k PROVE FALSE
  <2>1. m \in 1..Len(log[r]) /\ ~Earned(r, m) /\ m # 1
    BY <1>2, <1>4
  <2>2. m - 1 \in 1..Len(log[r]) - 1 /\ m - 1 \in 1..Len(log[r]) /\ (m - 1) + 1 = m /\ ~(m <= m - 1)
    BY <1>1, <2>1
  <2>3. Earned(r, m - 1)
    BY <1>4, <2>2
  <2> HIDE DEF S
  <2>4. Earned(r, (m - 1) + 1)
    BY <2>2, <2>3, EarnedNext
  <2> QED
    BY <2>1, <2>2, <2>4
<1> QED
  BY <1>3, <1>4

-----------------------------------------------------------------------------
(* The activation register and the runs. *)

\* An activating run completes or fails, and nothing comes after that.
LEMMA ActivatingLast ==
  ASSUME LogInv, NEW r \in Runs, NEW n \in 1..Len(log[r]), log[r][n].to = "activating"
  PROVE  /\ Len(log[r]) \in Nat
         /\ Len(log[r]) = n \/ Len(log[r]) = n + 1
         /\ Len(log[r]) = n + 1 => /\ log[r][n + 1].to \in {"completed_active"} \cup Fails
                                   /\ log[r][n + 1].phase # "owner_approve"
<1>1. Len(log[r]) \in Nat
  BY DEF LogInv, Shape, TypeOK
<1>2. CASE n = Len(log[r])
  BY <1>1, <1>2
<1>3. CASE n # Len(log[r])
  <2>1. n \in 1..Len(log[r]) - 1
    BY <1>1, <1>3
  <2>2. /\ log[r][n + 1].to \in Transitions[log[r][n].to]
        /\ Leads(log[r][n], log[r][n + 1])
    BY <2>1, NextEvent
  <2>3. log[r][n + 1].to \in {"completed_active"} \cup Fails
    BY <2>2 DEF Transitions
  <2>4. log[r][n + 1].phase # "owner_approve"
    BY <2>2 DEF Leads
  <2>5. ASSUME Len(log[r]) # n + 1
        PROVE  FALSE
    <3>1. n + 1 \in 1..Len(log[r]) - 1
      BY <1>1, <2>1, <2>5
    <3>2. Leads(log[r][n + 1], log[r][(n + 1) + 1])
      BY <3>1, NextEvent
    <3> QED
      BY <2>3, <3>2 DEF Leads, Fails, Ended, Awaiting
  <2> QED
    BY <1>1, <2>3, <2>4, <2>5
<1> QED
  BY <1>2, <1>3

\* The owner's last approval.
LEMMA LastApproval ==
  ASSUME LogInv, NEW r \in Runs
  PROVE  \/ Approved(r) = {} /\ LatestOwnerAuthority(r) = NoReceipt
         \/ \E i \in Approved(r) : (\A k \in Approved(r) : k <= i) /\ LatestOwnerAuthority(r) = log[r][i].receipt
<1>1. Len(log[r]) \in Nat /\ Approved(r) \in SUBSET (1..Len(log[r]))
  BY DEF LogInv, Shape, TypeOK, Approved
<1>2. CASE Approved(r) = {}
  BY <1>2 DEF LatestOwnerAuthority
<1>3. CASE Approved(r) # {}
  <2> DEFINE i == CHOOSE i \in Approved(r) : \A k \in Approved(r) : k <= i
  <2>1. \E m \in Approved(r) : \A k \in Approved(r) : k <= m
    BY <1>1, <1>3, LargestOf
  <2>2. i \in Approved(r) /\ \A k \in Approved(r) : k <= i
    BY <2>1
  <2> QED
    BY <1>3, <2>2 DEF LatestOwnerAuthority
<1> QED
  BY <1>2, <1>3

\* It is that of the activation when the tier asks for one.
LEMMA ApprovedLast ==
  ASSUME LogInv, NEW r \in Runs, NEW n \in 1..Len(log[r]), log[r][n].to = "activating", log[r][n].phase = "owner_approve"
  PROVE  LatestOwnerAuthority(r) = log[r][n].receipt
<1>1. n \in Approved(r) /\ Approved(r) \subseteq 1..Len(log[r]) /\ n \in Nat
  BY DEF Approved, LogInv, Shape, TypeOK
<1>2. PICK i \in Approved(r) : (\A k \in Approved(r) : k <= i) /\ LatestOwnerAuthority(r) = log[r][i].receipt
  BY <1>1, LastApproval
<1>3. n <= i /\ i \in 1..Len(log[r]) /\ log[r][i].phase = "owner_approve"
  BY <1>1, <1>2 DEF Approved
<1>4. i = n
  <2>1. /\ Len(log[r]) \in Nat /\ (Len(log[r]) = n \/ Len(log[r]) = n + 1)
        /\ Len(log[r]) = n + 1 => log[r][n + 1].phase # "owner_approve"
    BY ActivatingLast
  <2> QED
    BY <1>1, <1>3, <2>1
<1> QED
  BY <1>2, <1>4

LEMMA AuthorityStays ==
  ASSUME LogInv, NEW p \in Procs, Acts(p), UNCHANGED instance, NEW r \in Runs,
         NEW n \in 1..Len(log[r]), log[r][n].to = "activating"
  PROVE  /\ n \in 1..Len(log'[r]) /\ log'[r][n] = log[r][n]
         /\ LatestOwnerAuthority(r)' = LatestOwnerAuthority(r) /\ SwitchOf(r, n)' = SwitchOf(r, n)
<1>1. Grows /\ Prepared(p)
  BY StoresGrow DEF LogInv
<1>2. /\ Len(log[r]) \in Nat /\ Len(log'[r]) \in Nat /\ Len(log[r]) <= Len(log'[r])
      /\ \A k \in 1..Len(log[r]) : log'[r][k] = log[r][k]
  BY <1>1 DEF Grows
<1>3. DOMAIN log[r] = 1..Len(log[r]) /\ DOMAIN log'[r] = 1..Len(log'[r])
  BY LogStep DEF LogInv, Shape, TypeOK
<1>4. Approved(r)' = Approved(r)
  <2>1. CASE log'[r] = log[r]
    BY <2>1 DEF Approved
  <2>2. CASE log'[r] # log[r]
    <3>0. Exists(r)
      BY <1>2, LogStep
    <3>1. /\ Commits(p) /\ job[p].run = r
          /\ Len(log'[r]) = Len(log[r]) + 1 /\ log'[r][Len(log[r]) + 1] = event[p]
      BY <2>2, <3>0, LogStep
    <3>2. pc[p] = "append" /\ at[p] = Len(log[r]) /\ ~Over(r) /\ event[p].to \in Transitions[log[r][at[p]].to]
      BY <3>1 DEF Commits, Verdict
    <3>3. Len(log[r]) = n
      BY <3>0, <3>2, ActivatingLast DEF Over, State, Latest, Ended, Fails
    <3>4. Leads(log[r][n], event[p])
      BY <1>1, <3>1, <3>2, <3>3 DEF Prepared, Fits
    <3>5. event[p].phase # "owner_approve"
      BY <3>4 DEF Leads
    <3>6. ASSUME NEW i
          PROVE  i \in Approved(r)' <=> i \in Approved(r)
      BY <1>2, <1>3, <3>1, <3>5 DEF Approved
    <3> QED
      BY <3>6 DEF Approved
  <2> QED
    BY <2>1, <2>2
<1>5. LatestOwnerAuthority(r)' = LatestOwnerAuthority(r)
  <2> DEFINE i == CHOOSE i \in Approved(r) : \A k \in Approved(r) : k <= i
  <2>1. CASE Approved(r) = {}
    BY <1>4, <2>1 DEF LatestOwnerAuthority
  <2>2. CASE Approved(r) # {}
    <3>1. Approved(r) \in SUBSET (1..Len(log[r]))
      BY <1>3 DEF Approved
    <3>2. \E m \in Approved(r) : \A k \in Approved(r) : k <= m
      BY <1>2, <2>2, <3>1, LargestOf
    <3>3. i \in 1..Len(log[r])
      BY <3>1, <3>2
    <3>4. log'[r][i] = log[r][i]
      BY <1>2, <3>3
    <3>5. LatestOwnerAuthority(r) = log[r][i].receipt
      BY <2>2 DEF LatestOwnerAuthority
    <3>6. LatestOwnerAuthority(r)' = log'[r][i].receipt
      BY <1>4, <2>2 DEF LatestOwnerAuthority
    <3> HIDE DEF i
    <3> QED
      BY <3>4, <3>5, <3>6
  <2> QED
    BY <2>1, <2>2
<1>6. n \in 1..Len(log'[r]) /\ log'[r][n] = log[r][n]
  BY <1>2
<1> QED
  BY <1>5, <1>6 DEF SwitchOf

SwitchInv ==
  /\ LogInv /\ Based
  /\ \A i \in DOMAIN history : Switched(i)
  /\ \A p \in Procs : Switches(p)
  /\ \A r \in Runs : Completed(r)

LEMMA ActiveStays ==
  ASSUME Grows
  PROVE  \A n \in 0..Len(history) : ActiveAt(n)' = ActiveAt(n)
BY DEF Grows, ActiveAt

LEMMA BasedStep ==
  ASSUME SwitchInv, NEW p \in Procs, Acts(p), UNCHANGED instance
  PROVE  Based'
<1>0. LogInv /\ Grows /\ Moves(p) /\ Stores(p) /\ TypeOK /\ CallFits(p) /\ Based
  BY StoresGrow, ProcMoves, StoreMoves DEF SwitchInv, LogInv, Shape
<1>1. Len(history) \in Nat /\ Len(history') \in Nat /\ Len(history) <= Len(history')
  BY <1>0 DEF Grows
<1>2. \A n \in 0..Len(history) : ActiveAt(n)' = ActiveAt(n)
  BY <1>0, ActiveStays
<1>3. ASSUME NEW r \in Runs, Exists(r)'
      PROVE  start'[r] \in 0..Len(history') /\ base'[r] = ActiveAt(start[r])'
  <2>1. CASE Exists(r)
    <3>1. start'[r] = start[r] /\ base'[r] = base[r]
      BY <1>0, <2>1 DEF Grows
    <3>2. start[r] \in 0..Len(history) /\ base[r] = ActiveAt(start[r])
      BY <1>0, <2>1 DEF Based
    <3>3. PICK n : n = start[r]
      OBVIOUS
    <3>4. ActiveAt(n)' = ActiveAt(n)
      BY <1>2, <3>2, <3>3
    <3>5. ActiveAt(start[r])' = ActiveAt(n)'
      BY <3>1, <3>3 DEF ActiveAt
    <3> QED
      BY <1>1, <3>1, <3>2, <3>3, <3>4, <3>5
  <2>2. CASE ~Exists(r)
    <3>1. Creates(p) /\ job[p].run = r
      BY <1>0, <1>3, <2>2, LogStep DEF Exists
    <3>2. pc[p] = "create" /\ start'[r] = at[p] /\ base'[r] = job[p].base
      BY <1>0, <3>1 DEF Creates, TypeOK
    <3>3. at[p] \in 0..Len(history) /\ job[p].base = ActiveAt(at[p])
      BY <1>0, <3>2 DEF Based
    <3>4. PICK n : n = at[p]
      OBVIOUS
    <3>5. ActiveAt(n)' = ActiveAt(n)
      BY <1>2, <3>3, <3>4
    <3>6. ActiveAt(start[r])' = ActiveAt(n)'
      BY <3>2, <3>4 DEF ActiveAt
    <3> QED
      BY <1>1, <3>2, <3>3, <3>4, <3>5, <3>6
  <2> QED
    BY <2>1, <2>2
<1>4. ASSUME NEW q \in Procs, pc'[q] = "create"
      PROVE  at'[q] \in 0..Len(history') /\ job'[q].base = ActiveAt(at[q])'
  <2>1. CASE q # p
    <3>1. pc[q] = "create" /\ job'[q] = job[q] /\ at'[q] = at[q]
      BY <1>0, <1>4, <2>1, OthersStay
    <3>2. at[q] \in 0..Len(history) /\ job[q].base = ActiveAt(at[q])
      BY <1>0, <3>1 DEF Based
    <3>3. PICK n : n = at[q]
      OBVIOUS
    <3>4. ActiveAt(n)' = ActiveAt(n)
      BY <1>2, <3>2, <3>3
    <3>5. ActiveAt(at[q])' = ActiveAt(n)'
      BY <3>1, <3>3 DEF ActiveAt
    <3> QED
      BY <1>1, <3>1, <3>2, <3>3, <3>4, <3>5
  <2>2. CASE q = p
    <3>1. /\ UNCHANGED storeVars /\ Active = job[p].base
          /\ Goes(p, "create", job[p], Len(history), event[p])
      <4>1. ASSUME NEW l, NEW j, NEW n, NEW e, Goes(p, l, j, n, e) PROVE l = "create"
        BY <1>0, <1>4, <2>2, <4>1, GoesTo
      <4>2. CASE Done(p)
        BY <1>0, <1>4, <2>2, <4>2 DEF Done, Go, TypeOK
      <4>3. CASE CallSomething(p)
        <5>1. PICK l, j : Called(p, l, j)
          BY <1>0, <4>3, CallMoves
        <5> QED
          BY <4>1, <5>1 DEF Called
      <4>4. CASE Prepares(p)
        BY <4>1, <4>4 DEF Prepares, Label
      <4>5. ~ Terminates(p) /\ ~ AppendsTo(p) /\ ~Advances(p, "inspect") /\ ~Advances(p, "evaluate")
            /\ ~Advances(p, "append") /\ ~Advances(p, "after")
        BY <4>1 DEF Terminates, AppendsTo, Advances
      <4>6. ~ Goes(p, IF State(job[p].run) \in Ended \cup Awaiting THEN "after" ELSE "work",
                     job[p], Len(log[job[p].run]), event[p])
        BY <4>1
      <4> QED
        BY <1>0, <4>2, <4>3, <4>4, <4>5, <4>6 DEF Moves
    <3>2. job'[p] = job[p] /\ at'[p] = Len(history) /\ history' = history
      BY <1>0, <3>1, GoesTo DEF storeVars
    <3>3. ActiveAt(Len(history)) = Active
      BY <1>0 DEF ActiveAt, Active, TypeOK
    <3>4. ActiveAt(at[p])' = ActiveAt(Len(history))
      BY <3>2 DEF ActiveAt
    <3>5. at'[p] \in 0..Len(history') /\ job'[p].base = ActiveAt(at[p])'
      BY <1>1, <3>1, <3>2, <3>3, <3>4
    <3>6. ActiveAt(at[p])' = ActiveAt(at[q])'
      BY <2>2 DEF ActiveAt
    <3> QED
      BY <2>2, <3>5, <3>6
  <2> QED
    BY <2>1, <2>2
<1> QED
  BY <1>3, <1>4 DEF Based

\* What has switched goes on to be so.
LEMMA SwitchedKeeps ==
  ASSUME SwitchInv, NEW p \in Procs, Acts(p), UNCHANGED instance, NEW i \in 1..Len(history)
  PROVE  Switched(i)'
<1>0. LogInv /\ Grows /\ Switched(i) /\ history \in Seq(Transaction)
  BY StoresGrow DEF SwitchInv, LogInv, Shape, TypeOK
<1>1. history'[i] = history[i] /\ \A k \in 1..i - 1 : history'[k] = history[k]
  BY <1>0 DEF Grows
<1>2. ASSUME history[i].kind = "activate"
      PROVE  \E r \in Runs :
             /\ r = history[i].to.run /\ log'[r] # <<>> /\ start'[r] = i - 1
             /\ \E n \in DOMAIN log'[r] : log'[r][n].to = "activating" /\ history[i] = SwitchOf(r, n)'
  <2>1. history[i].to \in Versions
    <3>1. history[i] \in Transaction
      BY <1>0, ElementOfSeq
    <3> QED
      BY <3>1 DEF Transaction
  <2>2. PICK r \in Runs : r = history[i].to.run
    BY <2>1 DEF Versions
  <2>3. Exists(r) /\ start[r] = i - 1
    BY <1>0, <1>2, <2>2 DEF Switched
  <2>4. PICK n \in DOMAIN log[r] : log[r][n].to = "activating" /\ history[i] = SwitchOf(r, n)
    BY <1>0, <1>2, <2>2 DEF Switched
  <2>5. n \in 1..Len(log[r])
    BY <1>0 DEF LogInv, Shape, TypeOK
  <2>6. n \in 1..Len(log'[r]) /\ log'[r][n] = log[r][n] /\ SwitchOf(r, n)' = SwitchOf(r, n)
    BY <1>0, <2>4, <2>5, AuthorityStays
  <2>7. DOMAIN log'[r] = 1..Len(log'[r])
    BY <1>0, LogStep
  <2>8. Exists(r)' /\ start'[r] = start[r]
    BY <1>0, <2>3 DEF Grows
  <2> QED
    BY <2>2, <2>3, <2>4, <2>6, <2>7, <2>8 DEF Exists
<1>3. history[i].kind = "rollback" =>
        \E k \in 1..i - 1 : history'[k].kind = "activate" /\ history'[k].to = history[i].to
  BY <1>0, <1>1 DEF Switched
<1>4. CASE history[i].kind = "activate"
  <2>1. PICK r \in Runs :
          /\ r = history[i].to.run /\ log'[r] # <<>> /\ start'[r] = i - 1
          /\ \E n \in DOMAIN log'[r] : log'[r][n].to = "activating" /\ history[i] = SwitchOf(r, n)'
    BY <1>2, <1>4
  <2>2. PICK n \in DOMAIN log'[r] : log'[r][n].to = "activating" /\ history[i] = SwitchOf(r, n)'
    BY <2>1
  <2>3. /\ history'[i].to.run = r /\ history'[i].kind = "activate"
        /\ Exists(r)' /\ start'[r] = i - 1 /\ n \in DOMAIN log'[r] /\ log'[r][n].to = "activating"
        /\ history'[i] = SwitchOf(r, n)'
    BY <1>1, <1>4, <2>1, <2>2 DEF Exists
  <2> QED
    BY <2>3 DEF Switched, Exists, SwitchOf, LatestOwnerAuthority, Approved
<1>5. CASE history[i].kind # "activate"
  BY <1>1, <1>3, <1>5 DEF Switched
<1> QED
  BY <1>4, <1>5

LEMMA SwitchedStep ==
  ASSUME SwitchInv, NEW p \in Procs, Acts(p), UNCHANGED instance
  PROVE  \A i \in DOMAIN history' : Switched(i)'
<1>0. LogInv /\ Grows /\ CallFits(p) /\ history \in Seq(Transaction) /\ Len(history) \in Nat
  BY StoresGrow DEF SwitchInv, LogInv, Shape, TypeOK, Grows
<1>1. history' \in Seq(Transaction)
  BY <1>0, TypeStep, SameSets DEF TypeOK
<1>6. PICK m \in Nat : m = Len(history) + 1
  BY <1>0
<1>2. CASE history' = history
  <2>1. ASSUME NEW i \in 1..Len(history) PROVE Switched(i)'
    BY SwitchedKeeps
  <2> QED
    BY <1>0, <1>2, <2>1
<1>3. ASSUME Len(history') = m, Switched(m)'
      PROVE  \A i \in DOMAIN history' : Switched(i)'
  <2>1. ASSUME NEW i \in 1..Len(history) PROVE Switched(i)'
    BY SwitchedKeeps
  <2>2. \A i \in DOMAIN history' : i \in 1..Len(history) \/ i = m
    BY <1>0, <1>1, <1>3, <1>6
  <2> QED
    BY <1>3, <2>1, <2>2, Zenon
<1>4. CASE SwitchesOver(p) /\ Len(history') = m /\ history'[m] = Activation(p)
  <2> DEFINE r == job[p].run
             n == at[p]
  <2>1. /\ r \in Runs /\ n \in 1..Len(log[r]) /\ Exists(r) /\ log[r] \in Seq(Event) /\ pc[p] = "switch"
    BY <1>0, <1>4, AtWorkFacts DEF SwitchesOver, AtWork
  <2>2. event[p].phase = "activate" /\ Leads(log[r][n], event[p])
    BY <1>0, <2>1 DEF LogInv, Prepared, Fits
  <2>3. log[r][n].to = "activating"
    BY <2>2 DEF Leads
  <2>4. event[p].receipt = LatestOwnerAuthority(r)
    BY <2>1, <2>2 DEF SwitchInv, Switches
  <2>5. start[r] = Len(history) /\ log' = log /\ start' = start
    <3>1. start[r] \in 0..Len(history) /\ ~(Len(history) > start[r]) /\ log' = log /\ start' = start
      BY <1>4, <2>1 DEF SwitchInv, Based, SwitchesOver
    <3> QED
      BY <1>0, <3>1
  <2>6. Activation(p) = SwitchOf(r, n)
    BY <2>4 DEF Activation, Candidate, Seen, SwitchOf
  <2>7. LatestOwnerAuthority(r) = LatestOwnerAuthority(r)
    OBVIOUS
  <2>8. Activation(p).to.run = r /\ Activation(p).kind = "activate"
    BY DEF Activation, Candidate
  <2>9. PICK s, k : s = r /\ k = n
    OBVIOUS
  <2>10. SwitchOf(s, k)' = SwitchOf(r, n)
    BY <2>5, <2>9 DEF SwitchOf, LatestOwnerAuthority, Approved
  <2>11. /\ history'[m].to.run = s /\ history'[m].kind = "activate"
         /\ Exists(s)' /\ start'[s] = m - 1 /\ k \in DOMAIN log'[s] /\ log'[s][k].to = "activating"
         /\ history'[m] = SwitchOf(s, k)'
    BY <1>0, <1>4, <1>6, <2>1, <2>3, <2>5, <2>6, <2>8, <2>9, <2>10 DEF Exists
  <2> HIDE DEF r, n
  <2>12. Switched(m)'
    BY <2>11 DEF Switched, Exists, SwitchOf, LatestOwnerAuthority, Approved
  <2> QED
    BY <1>3, <1>4, <2>12
<1>5. CASE /\ RollsBack(p) /\ Len(history') = m
           /\ history'[m] = [kind |-> "rollback", to |-> job[p].base, receipt |-> job[p].receipt]
           /\ \A i \in 1..Len(history) : history'[i] = history[i]
  <2>1. WasActive(job[p].base)
    BY <1>5 DEF SwitchInv, Switches, RollsBack
  <2>2. PICK i \in 1..Len(history) : history[i].to = job[p].base
    BY <1>0, <2>1 DEF WasActive
  <2>3. Switched(i) /\ history[i].kind \in {"activate", "rollback"}
    <3>1. history[i] \in Transaction /\ i \in DOMAIN history
      BY <1>0, ElementOfSeq
    <3> QED
      BY <3>1 DEF SwitchInv, Transaction
  <2>4. \E k \in 1..Len(history) : history[k].kind = "activate" /\ history[k].to = job[p].base
    <3>1. CASE history[i].kind = "activate"
      BY <2>2, <3>1
    <3>2. CASE history[i].kind = "rollback"
      <4>1. PICK k \in 1..i - 1 : history[k].kind = "activate" /\ history[k].to = history[i].to
        BY <2>3, <3>2 DEF Switched
      <4>2. k \in 1..Len(history)
        BY <1>0
      <4> QED
        BY <2>2, <4>1, <4>2
    <3> QED
      BY <2>3, <3>1, <3>2
  <2>5. \E k \in 1..m - 1 : history'[k].kind = "activate" /\ history'[k].to = history'[m].to
    BY <1>0, <1>5, <1>6, <2>4
  <2>6. history'[m].kind = "rollback"
    BY <1>5
  <2>7. Switched(m)'
    BY <2>5, <2>6 DEF Switched
  <2> QED
    BY <1>3, <1>5, <2>7
<1> QED
  BY <1>0, <1>2, <1>4, <1>5, <1>6, HistoryStep

\* A switched or recorded activation is that of the activating run.
LEMMA ActivateFacts ==
  ASSUME LogInv, NEW q \in Procs, pc[q] \in {"register", "switch", "append"}, event[q].phase = "activate"
  PROVE  /\ job[q].run \in Runs /\ Exists(job[q].run) /\ at[q] \in 1..Len(log[job[q].run])
         /\ log[job[q].run][at[q]].to = "activating" /\ event[q].to = "completed_active"
         /\ event[q].gen = log[job[q].run][at[q]].gen
<1>1. job[q].run \in Runs /\ Exists(job[q].run) /\ at[q] \in 1..Len(log[job[q].run])
  BY AtWorkFacts DEF AtWork
<1>2. Fits(job[q].run, at[q], event[q])
  BY DEF LogInv, Prepared
<1> QED
  BY <1>1, <1>2 DEF Fits, Leads, Keeps

LEMMA SwitchesKeeps ==
  ASSUME SwitchInv, NEW p \in Procs, Acts(p), UNCHANGED instance, NEW q \in Procs, q # p
  PROVE  Switches(q)'
<1>0. /\ LogInv /\ Grows /\ Switches(q) /\ TypeOK
      /\ pc'[q] = pc[q] /\ job'[q] = job[q] /\ at'[q] = at[q] /\ event'[q] = event[q]
  BY StoresGrow, OthersStay DEF SwitchInv, LogInv, Shape
<1>1. Len(history) \in Nat /\ Len(history') \in Nat /\ Len(history) <= Len(history')
      /\ (\A i \in 1..Len(history) : history'[i] = history[i])
      /\ DOMAIN history = 1..Len(history) /\ DOMAIN history' = 1..Len(history')
  <2>1. history' \in Seq(Transaction)
    BY <1>0, TypeStep, SameSets DEF TypeOK
  <2> QED
    BY <1>0, <2>1 DEF Grows, TypeOK
<1>2. pc'[q] = "rollback" => WasActive(job[q].base)'
  BY <1>0, <1>1 DEF Switches, WasActive
<1>3. ASSUME pc[q] \in {"switch", "append"}, event[q].phase = "activate"
      PROVE  /\ event'[q].receipt = LatestOwnerAuthority(job[q].run)'
             /\ pc[q] = "append" => Len(history') > start'[job[q].run] /\ history'[start'[job[q].run] + 1] = SwitchOf(job[q].run, at[q])'
  <2>1. PICK r \in Runs, n \in Nat :
          r = job[q].run /\ n = at[q] /\ Exists(r) /\ n \in 1..Len(log[r]) /\ log[r][n].to = "activating"
    BY <1>0, <1>3, ActivateFacts
  <2>2. LatestOwnerAuthority(r)' = LatestOwnerAuthority(r) /\ SwitchOf(r, n)' = SwitchOf(r, n)
    BY <1>0, <2>1, AuthorityStays
  <2>3. event[q].receipt = LatestOwnerAuthority(r)
    BY <1>0, <1>3, <2>1 DEF Switches
  <2>4. pc[q] = "append" => Len(history) > start[r] /\ history[start[r] + 1] = SwitchOf(r, n)
    BY <1>0, <1>3, <2>1 DEF Switches
  <2>5. start'[r] = start[r] /\ start[r] \in Nat
    BY <1>0, <2>1 DEF Grows, TypeOK
  <2>6. pc[q] = "append" => Len(history') > start'[r] /\ history'[start'[r] + 1] = SwitchOf(r, n)'
    BY <1>1, <2>2, <2>4, <2>5
  <2>7. event'[q].receipt = LatestOwnerAuthority(r)'
    BY <1>0, <2>2, <2>3
  <2>8. job'[q].run = r /\ at'[q] = n
    BY <1>0, <2>1
  <2>9. LatestOwnerAuthority(job[q].run)' = LatestOwnerAuthority(r)'
    BY <2>8 DEF LatestOwnerAuthority, Approved
  <2>10. SwitchOf(job[q].run, at[q])' = SwitchOf(r, n)'
    BY <2>8, <2>9 DEF SwitchOf
  <2> QED
    BY <2>1, <2>6, <2>7, <2>9, <2>10
<1> QED
  BY <1>0, <1>2, <1>3 DEF Switches

LEMMA OwnSwitches ==
  ASSUME SwitchInv, NEW p \in Procs, Acts(p), UNCHANGED instance
  PROVE  Switches(p)'
<1> DEFINE r == job[p].run
<1>0. LogInv /\ Grows /\ Switches(p) /\ TypeOK /\ Moves(p) /\ CallFits(p) /\ Prepared(p)
  BY StoresGrow, ProcMoves DEF SwitchInv, LogInv, Shape
<1>1. ASSUME pc'[p] \notin {"rollback", "switch", "append"}
      PROVE  Switches(p)'
  BY <1>1 DEF Switches
<1>2. ASSUME NEW l, NEW j, NEW n, NEW e, Goes(p, l, j, n, e), l \notin {"rollback", "switch", "append"}
      PROVE  Switches(p)'
  BY <1>0, <1>1, <1>2, GoesTo
<1>3. ASSUME NEW l, NEW j, NEW n, NEW e, Goes(p, l, j, n, e), l # "rollback", e.phase # "activate"
      PROVE  Switches(p)'
  <2>1. pc'[p] = l /\ event'[p] = e
    BY <1>0, <1>3, GoesTo
  <2> QED
    BY <1>3, <2>1 DEF Switches
<1>4. CASE Done(p)
  <2>1. pc'[p] = "idle"
    BY <1>0, <1>4 DEF Done, Go, TypeOK
  <2> QED
    BY <1>1, <2>1
<1>5. CASE CallSomething(p)
  <2>1. PICK l, j : Called(p, l, j)
    BY <1>0, <1>5, CallMoves
  <2>2. pc'[p] = l /\ job'[p] = j /\ history' = history /\ l \notin {"switch", "append"} /\ j.op \in OpsAt[l]
    BY <1>0, <2>1, GoesTo DEF Called, storeVars
  <2>3. l = "rollback" => j.op = "rollback"
    BY <2>2 DEF OpsAt, Pc
  <2>4. l = "rollback" => WasActive(j.base)
    BY <2>1, <2>3 DEF Called
  <2> QED
    BY <2>2, <2>4 DEF Switches, WasActive
<1>6. CASE pc[p] = "start" /\ Goes(p, "create", job[p], Len(history), event[p])
  BY <1>2, <1>6
<1>7. CASE Advances(p, "inspect") \/ Advances(p, "evaluate") \/ Advances(p, "after")
  BY <1>2, <1>7 DEF Advances
<1>8. CASE Goes(p, IF State(r) \in Ended \cup Awaiting THEN "after" ELSE "work", job[p], Len(log[r]), event[p])
  BY <1>2, <1>8
<1>9. CASE Prepares(p)
  <2>1. PICK e \in Event : FitsNow(p, e) /\ Goes(p, Label(e), job[p], at[p], e)
    BY <1>9 DEF Prepares
  <2>2. pc'[p] = Label(e) /\ job'[p] = job[p] /\ event'[p] = e /\ log' = log
    BY <1>0, <1>9, <2>1, GoesTo DEF Prepares
  <2>3. CASE e.phase = "activate"
    <3>1. Label(e) = "switch" /\ e.receipt = LatestOwnerAuthority(r)
      BY <2>1, <2>3 DEF Label, FitsNow
    <3> QED
      BY <2>2, <3>1 DEF Switches, LatestOwnerAuthority, Approved
  <2>4. CASE e.phase # "activate"
    <3>1. Label(e) # "rollback"
      BY DEF Label
    <3> QED
      BY <1>3, <2>1, <2>4, <3>1
  <2> QED
    BY <2>3, <2>4
<1>10. CASE pc[p] = "register" /\ Registers(p) /\ Advances(p, "append")
  <2>1. Leads(Seen(p), event[p]) /\ event[p].to = "qualified"
    BY <1>0, <1>10 DEF Prepared, Fits, Seen
  <2>2. event[p].phase # "activate"
    BY <2>1 DEF Leads
  <2> QED
    BY <1>3, <1>10, <2>2 DEF Advances
<1>11. CASE /\ pc[p] = "switch" /\ Advances(p, "append")
            /\ \/ UNCHANGED storeVars /\ Len(history) > start[r] /\ history[start[r] + 1] = Activation(p)
               \/ SwitchesOver(p)
  <2>1. event[p].phase = "activate"
    BY <1>0, <1>11 DEF Prepared
  <2>2. PICK s \in Runs, n \in Nat :
          s = r /\ n = at[p] /\ Exists(s) /\ n \in 1..Len(log[s]) /\ log[s][n].to = "activating"
    BY <1>0, <1>11, <2>1, ActivateFacts
  <2>3. /\ pc'[p] = "append" /\ job'[p] = job[p] /\ at'[p] = at[p] /\ event'[p] = event[p]
        /\ log' = log /\ start' = start
    BY <1>0, <1>11, GoesTo DEF Advances, storeVars, SwitchesOver
  <2>4. event[p].receipt = LatestOwnerAuthority(s)
    BY <1>0, <1>11, <2>1, <2>2 DEF Switches
  <2>5. Activation(p) = SwitchOf(s, n)
    BY <2>2, <2>4 DEF Activation, Candidate, Seen, SwitchOf
  <2>6. start[s] \in 0..Len(history) /\ Len(history) \in Nat
    BY <1>0, <2>2 DEF SwitchInv, Based, Grows
  <2>7. Len(history') > start[s] /\ history'[start[s] + 1] = SwitchOf(s, n)
    <3>1. CASE UNCHANGED storeVars /\ Len(history) > start[r] /\ history[start[r] + 1] = Activation(p)
      BY <2>2, <2>5, <3>1 DEF storeVars
    <3>2. CASE SwitchesOver(p)
      <4>1. start[s] = Len(history)
        BY <2>2, <2>6, <3>2 DEF SwitchesOver
      <4>2. Len(history') = Len(history) + 1 /\ history'[Len(history) + 1] = Activation(p)
        BY <1>0, <3>2 DEF SwitchesOver, TypeOK
      <4> QED
        BY <2>5, <2>6, <4>1, <4>2
    <3> QED
      BY <1>11, <3>1, <3>2
  <2>8. LatestOwnerAuthority(job[p].run)' = LatestOwnerAuthority(s)
    BY <2>2, <2>3 DEF LatestOwnerAuthority, Approved
  <2>9. SwitchOf(job[p].run, at[p])' = SwitchOf(s, n)
    BY <2>2, <2>3, <2>8 DEF SwitchOf
  <2> QED
    BY <2>2, <2>3, <2>4, <2>7, <2>8, <2>9 DEF Switches
<1>12. CASE AppendsTo(p)
  <2>1. PICK e \in Event :
           /\ Goes(p, "append", job[p], Len(log[r]), e)
           /\ \/ /\ pc[p] = "inspect" /\ job[p].op \in Actions /\ Len(log[r]) = job[p].rev
                 /\ e.receipt = job[p].receipt /\ e.phase = DecisionPhase(job[p].op)
              \/ pc[p] = "inspect" /\ job[p].op = "fail" /\ e.phase = "failure"
              \/ pc[p] = "reinspect" /\ e.phase \in {"failure", "quarantine"}
    BY <1>12 DEF AppendsTo
  <2>2. e.phase # "activate"
    BY <2>1 DEF DecisionPhase, Actions
  <2> QED
    BY <1>3, <2>1, <2>2
<1>13. CASE Terminates(p)
  BY <1>2, <1>13 DEF Terminates
<1> QED
  BY <1>0, <1>4, <1>5, <1>6, <1>7, <1>8, <1>9, <1>10, <1>11, <1>12, <1>13 DEF Moves

LEMMA CompletedStep ==
  ASSUME SwitchInv, NEW p \in Procs, Acts(p), UNCHANGED instance, NEW r \in Runs
  PROVE  Completed(r)'
<1> SUFFICES ASSUME Exists(r)', State(r)' = "completed_active"
             PROVE  Len(history') > start'[r] /\ history'[start'[r] + 1] = SwitchOf(r, Len(log[r]))'
  BY DEF Completed
<1>0. LogInv /\ Grows /\ TypeOK
  BY StoresGrow DEF SwitchInv, LogInv, Shape
<1>1. /\ Len(log[r]) \in Nat /\ Len(log'[r]) \in Nat /\ (Exists(r) <=> Len(log[r]) # 0)
      /\ State(r)' = log'[r][Len(log'[r])].to
      /\ Len(history) \in Nat /\ Len(history') \in Nat /\ Len(history) <= Len(history')
      /\ \A i \in 1..Len(history) : history'[i] = history[i]
  BY <1>0 DEF Grows, State, Latest
<1>2. ASSUME NEW n \in 1..Len(log[r]), log[r][n].to = "activating", Exists(r),
             Len(history) > start[r], history[start[r] + 1] = SwitchOf(r, n),
             log'[r][Len(log'[r])].gen = log[r][n].gen
      PROVE  Len(history') > start'[r] /\ history'[start'[r] + 1] = SwitchOf(r, Len(log[r]))'
  <2>1. SwitchOf(r, n)' = SwitchOf(r, n) /\ log'[r][n] = log[r][n]
    BY <1>0, <1>2, AuthorityStays
  <2>2. start'[r] = start[r] /\ start[r] \in Nat
    BY <1>0, <1>2 DEF Grows, TypeOK
  <2>3. history'[start'[r] + 1] = SwitchOf(r, n)' /\ Len(history') > start'[r]
    BY <1>1, <1>2, <2>1, <2>2
  <2>4. SwitchOf(r, Len(log[r]))' = SwitchOf(r, n)'
    BY <1>2, <2>1 DEF SwitchOf
  <2> QED
    BY <2>3, <2>4
<1>3. CASE log'[r] = log[r]
  <2>1. Exists(r) /\ State(r) = "completed_active"
    BY <1>3 DEF Exists, State, Latest
  <2>2. Len(history) > start[r] /\ history[start[r] + 1] = SwitchOf(r, Len(log[r]))
    BY <2>1 DEF SwitchInv, Completed
  <2> DEFINE a == Len(log[r])
             n == a - 1
  <2>3. Len(log[r]) # 1
    BY <1>0, <2>1 DEF LogInv, Chained, State, Latest, Accepted
  <2>8. a \in Nat /\ a # 0 /\ a # 1
    BY <1>1, <2>1, <2>3
  <2> HIDE DEF a
  <2>9. n \in 1..a - 1 /\ n + 1 = a
    BY <2>8
  <2> HIDE DEF n
  <2>4. n \in 1..Len(log[r]) - 1 /\ n + 1 = Len(log[r])
    BY <2>9 DEF a
  <2>5. Leads(log[r][n], Latest(r)) /\ Keeps(r, log[r][n], Latest(r)) /\ n \in 1..Len(log[r])
    BY <1>0, <2>4, NextEvent DEF Latest
  <2>6. log[r][n].to = "activating" /\ Latest(r).gen = log[r][n].gen
    BY <2>1, <2>5 DEF Leads, Keeps, State, Fails, Awaiting
  <2>7. SwitchOf(r, Len(log[r])) = SwitchOf(r, n)
    BY <2>6 DEF SwitchOf, Latest
  <2> QED
    BY <1>2, <1>3, <2>1, <2>2, <2>5, <2>6, <2>7 DEF Latest
<1>4. CASE Len(log'[r]) = 1 /\ log'[r][1] = Accepted
  BY <1>1, <1>4 DEF Accepted
<1>5. CASE /\ Commits(p) /\ job[p].run = r /\ Exists(r)
           /\ Len(log'[r]) = Len(log[r]) + 1 /\ log'[r][Len(log[r]) + 1] = event[p]
  <2>1. pc[p] = "append" /\ at[p] = Len(log[r]) /\ event[p].to = "completed_active"
    BY <1>1, <1>5 DEF Commits, Verdict
  <2>2. event[p].phase = "activate"
    <3>1. Leads(log[r][at[p]], event[p])
      BY <1>0, <1>5, <2>1 DEF LogInv, Prepared, Fits
    <3> QED
      BY <2>1, <3>1 DEF Leads, Fails, Awaiting
  <2>3. /\ at[p] \in 1..Len(log[r]) /\ log[r][at[p]].to = "activating" /\ event[p].gen = log[r][at[p]].gen
    BY <1>0, <1>5, <2>1, <2>2, ActivateFacts
  <2>4. Len(history) > start[r] /\ history[start[r] + 1] = SwitchOf(r, at[p])
    BY <1>5, <2>1, <2>2 DEF SwitchInv, Switches
  <2> QED
    BY <1>2, <1>5, <2>3, <2>4
<1> QED
  BY <1>0, <1>3, <1>4, <1>5, LogStep

LEMMA SwitchInvInit == Init => SwitchInv
<1> SUFFICES ASSUME Init PROVE SwitchInv
  OBVIOUS
<1>1. LogInv
  BY LogInvInit
<1>2. \A r \in Runs : ~Exists(r)
  BY DEF Init, Exists
<1>3. \A p \in Procs : pc[p] = "idle"
  BY DEF Init
<1>4. DOMAIN history = {}
  BY DEF Init
<1> QED
  BY <1>1, <1>2, <1>3, <1>4 DEF SwitchInv, Based, Switches, Completed

LEMMA SwitchInvStep == SwitchInv /\ [Next]_vars => SwitchInv'
<1> SUFFICES ASSUME SwitchInv, [Next]_vars PROVE SwitchInv'
  OBVIOUS
<1>1. LogInv'
  BY LogInvStep DEF SwitchInv
<1>2. CASE Next
  <2>1. UNCHANGED instance /\ \E p \in Procs : Acts(p)
    BY <1>2, StepOfOne DEF SwitchInv, LogInv, Shape
  <2>2. PICK p \in Procs : Acts(p)
    BY <2>1
  <2>3. Based' /\ (\A i \in DOMAIN history' : Switched(i)') /\ \A r \in Runs : Completed(r)'
    BY <2>1, <2>2, BasedStep, SwitchedStep, CompletedStep
  <2>4. \A q \in Procs \ {p} : Switches(q)'
    BY <2>1, <2>2, SwitchesKeeps
  <2>5. Switches(p)'
    BY <2>1, <2>2, OwnSwitches
  <2>6. \A q \in Procs : Switches(q)'
    BY <2>4, <2>5, Zenon
  <2> QED
    BY <1>1, <2>3, <2>6 DEF SwitchInv
<1>3. CASE UNCHANGED vars
  <2>1. UNCHANGED <<log, start, base, design, journal, versions, history, pc, job, at, event>>
    BY <1>3 DEF vars, storeVars, procVars
  <2>2. Based'
    BY <2>1 DEF SwitchInv, Based, Exists, ActiveAt
  <2>3. ASSUME NEW r
        PROVE  /\ Exists(r)' = Exists(r) /\ State(r)' = State(r)
               /\ LatestOwnerAuthority(r)' = LatestOwnerAuthority(r)
    BY <2>1 DEF Exists, State, Latest, LatestOwnerAuthority, Approved
  <2>4. ASSUME NEW i \in DOMAIN history PROVE Switched(i)'
    <3>1. Switched(i)
      BY <2>4 DEF SwitchInv
    <3> QED
      BY <2>1, <3>1, ZenonT(40) DEF Switched, Exists, SwitchOf, LatestOwnerAuthority, Approved
  <2>5. ASSUME NEW p \in Procs PROVE Switches(p)'
    <3>1. Switches(p)
      BY DEF SwitchInv
    <3> QED
      BY <2>1, <3>1, ZenonT(40) DEF Switches, WasActive, SwitchOf, LatestOwnerAuthority, Approved
  <2>6. ASSUME NEW r \in Runs PROVE Completed(r)'
    <3>1. Completed(r)
      BY DEF SwitchInv
    <3> QED
      BY <2>1, <3>1 DEF Completed, Exists, State, Latest, SwitchOf, LatestOwnerAuthority, Approved
  <2> QED
    BY <1>1, <2>1, <2>2, <2>4, <2>5, <2>6 DEF SwitchInv
<1> QED
  BY <1>2, <1>3

\* Every activation transaction is the one its run's activating revision asks
\* for, at the activation revision the run was accepted at.
THEOREM SwitchInvariant == Spec => []SwitchInv
<1> QED
  BY SwitchInvInit, SwitchInvStep, PTL DEF Spec

\* What the invariant says of an activation.
LEMMA ActivationFacts ==
  ASSUME SwitchInv, NEW i \in DOMAIN history, history[i].kind = "activate"
  PROVE  \E r \in Runs, n \in Nat :
           /\ r = history[i].to.run /\ Exists(r) /\ start[r] = i - 1
           /\ n \in 1..Len(log[r]) /\ n \in DOMAIN log[r] /\ log[r][n].to = "activating" /\ Earned(r, n)
           /\ history[i].to = [run |-> r, gen |-> log[r][n].gen]
           /\ history[i] = SwitchOf(r, n) /\ history[i].receipt = LatestOwnerAuthority(r)
<1>1. LogInv /\ Switched(i) /\ history[i] \in Transaction
  BY ElementOfSeq DEF SwitchInv, LogInv, Shape, TypeOK
<1>2. PICK r \in Runs : r = history[i].to.run
  BY <1>1 DEF Transaction, Versions
<1>3. PICK n \in DOMAIN log[r] : log[r][n].to = "activating" /\ history[i] = SwitchOf(r, n)
  BY <1>1, <1>2 DEF Switched
<1>4. Exists(r) /\ start[r] = i - 1
  BY <1>1, <1>2 DEF Switched
<1>5. n \in 1..Len(log[r]) /\ n \in Nat
  BY <1>1 DEF LogInv, Shape, TypeOK
<1>6. Earned(r, n)
  BY <1>1, <1>5, AllEarned
<1>7. history[i].to = [run |-> r, gen |-> log[r][n].gen] /\ history[i].receipt = LatestOwnerAuthority(r)
  BY <1>3 DEF SwitchOf
<1> QED
  BY <1>2, <1>3, <1>4, <1>5, <1>6, <1>7

LEMMA BaselineImproved == SwitchInv => ImprovesItsBaseline
<1> SUFFICES ASSUME SwitchInv, NEW i \in DOMAIN history, history[i].kind = "activate"
             PROVE  /\ start[history[i].to.run] = i - 1
                    /\ base[history[i].to.run] = IF i = 1 THEN NoVersion ELSE history[i - 1].to
  BY DEF ImprovesItsBaseline
<1>1. PICK r \in Runs : r = history[i].to.run /\ Exists(r) /\ start[r] = i - 1
  BY ActivationFacts
<1>2. base[r] = ActiveAt(i - 1)
  BY <1>1 DEF SwitchInv, Based
<1>3. i \in Nat /\ (i - 1 = 0 <=> i = 1)
  BY DEF SwitchInv, LogInv, Shape, TypeOK
<1> QED
  BY <1>1, <1>2, <1>3 DEF ActiveAt

\* ImprovesItsBaseline: a run switches from the very version it was started to
\* improve, though other runs and rollbacks may switch while it is at work.
THEOREM SwitchesFromBaseline == Spec => []ImprovesItsBaseline
<1> QED
  BY BaselineImproved, SwitchInvariant, PTL

LEMMA ActivationEarned == SwitchInv => ActivatedWasEarned
<1> SUFFICES ASSUME SwitchInv, NEW i \in DOMAIN history, history[i].kind = "activate"
             PROVE  LET r == history[i].to.run
                        g == history[i].to.gen IN
                    /\ history[i].to \in versions
                    /\ Passed(r, g, "evaluate", {"qualified"})
                    /\ Passed(r, g, "canary", {"activating", "awaiting_owner_active"})
                    /\ Risky(r, g, {"high"}) => ApprovedIn(r, g, "awaiting_owner_canary")
                    /\ Risky(r, g, {"medium", "high"}) =>
                         \E k \in DOMAIN log[r] : /\ log[r][k].gen = g /\ log[r][k].receipt = history[i].receipt
                                                  /\ log[r][k].phase = "owner_approve"
                                                  /\ log[r][k - 1].to = "awaiting_owner_active"
  BY DEF ActivatedWasEarned
<1>0. LogInv
  BY DEF SwitchInv
<1>1. PICK r \in Runs, n \in Nat :
           /\ r = history[i].to.run /\ Exists(r) /\ start[r] = i - 1
           /\ n \in 1..Len(log[r]) /\ n \in DOMAIN log[r] /\ log[r][n].to = "activating" /\ Earned(r, n)
           /\ history[i].to = [run |-> r, gen |-> log[r][n].gen]
           /\ history[i] = SwitchOf(r, n) /\ history[i].receipt = LatestOwnerAuthority(r)
  BY ActivationFacts
<1> DEFINE e == log[r][n]
           g == e.gen
<1>2. /\ Covers(r, e) /\ [run |-> r, gen |-> g] \in versions
      /\ Passed(r, g, "evaluate", {"qualified"})
      /\ Passed(r, g, "canary", {"activating", "awaiting_owner_active"})
      /\ e.tier = "high" => ApprovedIn(r, g, "awaiting_owner_canary")
      /\ e.tier # "low" => e.phase = "owner_approve" /\ log[r][n - 1].to = "awaiting_owner_active"
  BY <1>1 DEF Earned, Risked, Qualified, Canaried
<1>3. e \in Event
  BY <1>0, <1>1, LogBudgeted
<1>4. Risky(r, g, {"high"}) => e.tier = "high"
  BY <1>2, <1>3 DEF Risky, Covers, Rank, Event
<1>5. Risky(r, g, {"medium", "high"}) => e.tier # "low"
  BY <1>2, <1>3 DEF Risky, Covers, Rank, Event
<1>6. e.phase = "owner_approve" => e.receipt = history[i].receipt
  BY <1>0, <1>1, ApprovedLast
<1>9. history[i].to = [run |-> r, gen |-> g]
  BY <1>1
<1>7. history[i].to.run = r /\ history[i].to.gen = g /\ history[i].to \in versions
  <2> HIDE DEF g
  <2> QED
    BY <1>2, <1>9
<1>8. Risky(r, g, {"medium", "high"}) =>
        \E k \in DOMAIN log[r] : /\ log[r][k].gen = g /\ log[r][k].receipt = history[i].receipt
                                 /\ log[r][k].phase = "owner_approve"
                                 /\ log[r][k - 1].to = "awaiting_owner_active"
  BY <1>1, <1>2, <1>5, <1>6
<1> HIDE DEF g
<1> QED
  BY <1>2, <1>4, <1>7, <1>8

\* ActivatedWasEarned: a version became active only after it was registered,
\* qualified and passed its canary in its generation, with the approvals its
\* risk asks for, whatever attempts and decisions overlap and fail.
THEOREM ActivationWasEarned == Spec => []ActivatedWasEarned
<1> QED
  BY ActivationEarned, SwitchInvariant, PTL

LEMMA RunsAndSwitchesAgree == SwitchInv => RunAndSwitchAgree
<1> SUFFICES ASSUME SwitchInv PROVE InspectionHolds /\ SwitchFollowsRun
  BY DEF RunAndSwitchAgree
<1>0. LogInv
  BY DEF SwitchInv
<1>1. ASSUME NEW r \in Runs, Exists(r)
      PROVE  /\ State(r) \in {"qualified", "awaiting_owner_canary", "canary", "awaiting_owner_active",
                              "activating", "completed_active", "completed_qualified"}
                  => [run |-> r, gen |-> Latest(r).gen] \in versions
             /\ State(r) = "completed_active" =>
                  /\ Len(history) > start[r]
                  /\ history[start[r] + 1] = [kind |-> "activate", to |-> [run |-> r, gen |-> Latest(r).gen],
                                              receipt |-> LatestOwnerAuthority(r)]
  <2>1. Len(log[r]) \in 1..Len(log[r])
    BY <1>0, <1>1 DEF LogInv, Shape, TypeOK, Exists
  <2>2. Earned(r, Len(log[r]))
    BY <1>0, <2>1, AllEarned
  <2> QED
    BY <1>1, <2>2 DEF Earned, Latest, State, Qualified, Awaiting, SwitchInv, Completed, SwitchOf
<1>2. ASSUME NEW i \in DOMAIN history, history[i].kind = "activate"
      PROVE  LET r == history[i].to.run IN
             /\ State(r) \in {"activating", "completed_active"} \cup Fails
             /\ State(r) = "activating" =>
                  history[i] = [kind |-> "activate", to |-> [run |-> r, gen |-> Latest(r).gen],
                                receipt |-> LatestOwnerAuthority(r)]
  <2>1. PICK r \in Runs, n \in Nat :
           /\ r = history[i].to.run /\ n \in 1..Len(log[r]) /\ log[r][n].to = "activating"
           /\ history[i] = SwitchOf(r, n)
    BY <1>2, ActivationFacts
  <2>2. /\ Len(log[r]) = n \/ Len(log[r]) = n + 1
        /\ Len(log[r]) = n + 1 => log[r][n + 1].to \in {"completed_active"} \cup Fails
    BY <1>0, <2>1, ActivatingLast
  <2>3. /\ State(r) \in {"activating", "completed_active"} \cup Fails
        /\ State(r) = "activating" => Len(log[r]) = n
    BY <2>1, <2>2 DEF State, Latest, Fails
  <2>4. State(r) = "activating" => SwitchOf(r, n) = [kind |-> "activate", to |-> [run |-> r, gen |-> Latest(r).gen],
                                                    receipt |-> LatestOwnerAuthority(r)]
    BY <2>3 DEF SwitchOf, Latest
  <2> QED
    BY <2>1, <2>3, <2>4
<1> QED
  BY <1>1, <1>2 DEF InspectionHolds, SwitchFollowsRun

\* RunAndSwitchAgree: an inspection of a run finds its version and its
\* transaction in the registry, and a switch belongs to a run that is activating,
\* has completed or has failed since.
THEOREM RegistryFollowsRuns == Spec => []RunAndSwitchAgree
<1> QED
  BY RunsAndSwitchesAgree, SwitchInvariant, PTL

-----------------------------------------------------------------------------
(* A run goes forward: no phase comes twice in a generation. *)

Stage == [s \in States |->
  CASE s = "accepted" -> 0 [] s = "designing" -> 1 [] s = "materializing" -> 2 [] s = "evaluating" -> 3
    [] s = "qualified" -> 4 [] s = "awaiting_owner_canary" -> 5 [] s = "canary" -> 6
    [] s \in {"awaiting_owner_active", "evidence_ready"} -> 7 [] s \in {"activating", "diagnosing"} -> 8
    [] OTHER -> 9]
Progress(e) == 10 * e.gen + Stage[e.to]

LEMMA StageOf ==
  /\ Stage["accepted"] = 0 /\ Stage["designing"] = 1 /\ Stage["materializing"] = 2 /\ Stage["evaluating"] = 3
  /\ Stage["qualified"] = 4 /\ Stage["awaiting_owner_canary"] = 5 /\ Stage["canary"] = 6
  /\ Stage["awaiting_owner_active"] = 7 /\ Stage["evidence_ready"] = 7
  /\ Stage["activating"] = 8 /\ Stage["diagnosing"] = 8
  /\ \A s \in Ended : Stage[s] = 9
  /\ \A s \in States : Stage[s] \in 0..9 /\ (s \notin Ended => Stage[s] <= 8)
<1>1. States = {"accepted", "designing", "materializing", "evaluating", "qualified", "awaiting_owner_canary", "canary",
                "awaiting_owner_active", "evidence_ready", "activating", "diagnosing"} \cup Ended
  BY DEF States, Transitions
<1> QED
  BY <1>1 DEF Stage, Ended

LEMMA ProgressNext ==
  ASSUME LogInv, NEW r \in Runs, NEW n \in 1..Len(log[r]) - 1
  PROVE  /\ Progress(log[r][n]) \in Nat /\ Progress(log[r][n + 1]) \in Nat
         /\ Progress(log[r][n]) < Progress(log[r][n + 1])
<1> DEFINE d == log[r][n]
           e == log[r][n + 1]
           g == d.gen
           h == e.gen
           s == Stage[d.to]
           t == Stage[e.to]
<1>1. Leads(d, e) /\ Keeps(r, d, e) /\ d \in Event /\ e \in Event
  BY NextEvent
<1>2. Progress(d) = 10 * g + s /\ Progress(e) = 10 * h + t
  BY DEF Progress
<1> HIDE DEF d, e
<1>3. d.to \in States /\ e.to \in States
  BY <1>1 DEF Event
<1>4. g \in Nat /\ h \in Nat /\ s \in 0..9 /\ t \in 0..9
  BY <1>1, <1>3, StageOf DEF Event
<1>5. (g < h /\ s = 8 /\ t = 2) \/ (g = h /\ s < t)
  <2>1. CASE e.phase = "evolve"
    <3>1. d.to = "diagnosing" /\ e.to = "materializing" /\ h = g + 1
      BY <1>1, <2>1 DEF Leads, Keeps
    <3> QED
      BY <1>4, <3>1, StageOf
  <2>2. CASE e.phase # "evolve"
    <3>1. h = g
      BY <1>1, <2>2 DEF Keeps
    <3>2. CASE e.to \in Ended
      <4>1. d.to \notin Ended
        BY <1>1, <3>2 DEF Leads, Ended, Awaiting
      <4>2. s <= 8 /\ t = 9
        BY <1>3, <3>2, <4>1, StageOf
      <4> QED
        BY <1>4, <3>1, <4>2
    <3>3. CASE e.to \notin Ended
      <4>1. \/ d.to = "accepted" /\ e.to = "designing"
            \/ d.to = "designing" /\ e.to = "materializing"
            \/ d.to = "materializing" /\ e.to = "evaluating"
            \/ d.to = "evaluating" /\ e.to \in {"qualified", "evidence_ready"}
            \/ d.to = "qualified" /\ e.to \in {"awaiting_owner_canary", "canary"}
            \/ d.to = "canary" /\ e.to \in {"evidence_ready", "activating", "awaiting_owner_active"}
            \/ d.to = "evidence_ready" /\ e.to = "diagnosing"
            \/ d.to = "awaiting_owner_canary" /\ e.to = "canary"
            \/ d.to = "awaiting_owner_active" /\ e.to = "activating"
        BY <1>1, <2>2, <3>3 DEF Leads, Ended, Fails, Awaiting
      <4>2. s < t
        BY <4>1, StageOf
      <4> QED
        BY <3>1, <4>2
    <3> QED
      BY <3>2, <3>3
  <2> QED
    BY <2>1, <2>2
<1> HIDE DEF g, h, s, t
<1>6. 10 * g + s \in Nat /\ 10 * h + t \in Nat /\ 10 * g + s < 10 * h + t
  BY <1>4, <1>5
<1>7. Progress(d) \in Nat /\ Progress(e) \in Nat /\ Progress(d) < Progress(e)
  BY <1>2, <1>6
<1> QED
  BY <1>7 DEF d, e

LEMMA Progresses ==
  ASSUME LogInv, NEW r \in Runs, NEW j \in 1..Len(log[r]), NEW i \in 1..j - 1
  PROVE  Progress(log[r][i]) < Progress(log[r][j])
<1> DEFINE N == Len(log[r])
           P(k) == Progress(log[r][k])
           S == {m \in 1..N : \E k \in 1..m - 1 : ~(P(k) < P(m))}
<1>1. N \in Nat
  BY DEF LogInv, Shape, TypeOK
<1>2. ASSUME NEW k \in 1..N - 1
      PROVE  P(k) \in Nat /\ P(k + 1) \in Nat /\ P(k) < P(k + 1)
  BY ProgressNext
<1> HIDE DEF N, P
<1>3. S # {} => \E m \in S : \A k \in S : m <= k
  <2>1. S \in SUBSET Nat
    OBVIOUS
  <2> HIDE DEF S
  <2> QED
    BY <2>1, SmallestOf
<1>4. ASSUME NEW m \in S, \A k \in S : m <= k
      PROVE  FALSE
  <2>1. m \in 1..N
    OBVIOUS
  <2>2. PICK k \in 1..m - 1 : ~(P(k) < P(m))
    BY <1>4
  <2>3. k \in Nat /\ m \in Nat /\ m - 1 \in 1..N - 1 /\ (m - 1) + 1 = m /\ k \in 1..N - 1
    BY <1>1, <2>1, <2>2
  <2>4. P(m - 1) \in Nat /\ P(m) \in Nat /\ P(m - 1) < P(m) /\ P(k) \in Nat
    BY <1>2, <2>3
  <2>5. CASE k = m - 1
    BY <2>2, <2>4, <2>5
  <2>6. CASE k # m - 1
    <3>1. m - 1 \in 1..N /\ k \in 1..(m - 1) - 1 /\ m - 1 \notin S
      <4>1. ~(m <= m - 1)
        BY <2>3
      <4>2. m - 1 \notin S
        BY <1>4, <4>1
      <4> HIDE DEF S
      <4> QED
        BY <1>1, <2>1, <2>2, <2>3, <2>6, <4>2
    <3>2. P(k) < P(m - 1)
      BY <3>1
    <3> QED
      BY <2>2, <2>4, <3>2
  <2> QED
    BY <2>5, <2>6
<1>5. S = {}
  BY <1>3, <1>4
<1>6. P(i) < P(j)
  BY <1>5 DEF N
<1> QED
  BY <1>6 DEF P

\* So an attempt at the latest revision never finds its event in the log.
LEMMA KeyIsNew ==
  ASSUME LogInv, NEW r \in Runs, NEW n, n = Len(log[r]), Exists(r), NEW e, Fits(r, n, e),
         e.phase \notin {"owner_approve", "owner_reject", "cancel", "failure", "quarantine"},
         NEW i \in DOMAIN log[r]
  PROVE  IdempotencyKey(log[r][i]) # IdempotencyKey(e)
<1>1. n \in 1..Len(log[r]) /\ i \in 1..Len(log[r]) /\ n \in Nat
  BY DEF LogInv, Shape, TypeOK, Exists
<1> SUFFICES ASSUME log[r][i].gen = e.gen, log[r][i].phase = e.phase
             PROVE  FALSE
  BY DEF IdempotencyKey
<1>2. Leads(log[r][n], e) /\ Keeps(r, log[r][n], e)
  BY DEF Fits
<1>3. i # 1
  <2>1. log[r][1].phase = "accepted"
    BY DEF LogInv, Chained, Accepted
  <2>2. e.phase # "accepted"
    BY <1>2 DEF Leads
  <2> QED
    BY <2>1, <2>2
<1> DEFINE m == i - 1
<1>4. m \in 1..Len(log[r]) - 1 /\ m + 1 = i /\ m \in 1..n - 1
  BY <1>1, <1>3
<1> HIDE DEF m
<1> DEFINE d == log[r][m]
           f == log[r][i]
           c == log[r][n]
<1>5. Leads(d, f) /\ Keeps(r, d, f) /\ d \in Event
  BY <1>4, NextEvent
<1>6. c \in Event /\ Leads(c, e) /\ Keeps(r, c, e) /\ f.gen = e.gen /\ f.phase = e.phase
  BY <1>1, <1>2, LogBudgeted
<1>7. Progress(d) < Progress(c)
  BY <1>1, <1>4, Progresses
<1> HIDE DEF d, f, c
<1>8. d.to = c.to
  BY <1>5, <1>6 DEF Leads
<1>9. d.gen = c.gen
  BY <1>5, <1>6 DEF Keeps, Event
<1>10. Progress(c) = Progress(d)
  BY <1>8, <1>9 DEF Progress
<1>11. Progress(c) \in Nat
  <2> DEFINE g == c.gen
             s == Stage[c.to]
  <2>1. c.gen \in Nat /\ c.to \in States
    BY <1>6 DEF Event
  <2>2. g \in Nat /\ s \in 0..9
    BY <2>1, StageOf
  <2>3. Progress(c) = 10 * g + s
    BY DEF Progress
  <2> HIDE DEF g, s
  <2>4. 10 * g + s \in Nat
    BY <2>2
  <2> QED
    BY <2>3, <2>4
<1> QED
  BY <1>7, <1>10, <1>11

\* Where a phase leads is a transition the run allows.
LEMMA LeadsIsAllowed ==
  ASSUME NEW d, NEW e, Leads(d, e), d.tier \in Risks, e.to \notin Fails,
         e.phase \notin {"owner_approve", "owner_reject", "cancel"}
  PROVE  e.to \in Transitions[d.to]
BY DEF Leads, Transitions, Awaiting, Fails, Risks

-----------------------------------------------------------------------------
(* Runs that nothing has happened to: one attempt at a time, at the latest    *)
(* revision, and whatever it needs is there.                                  *)

Excused(r) ==
  \/ r \in caused \/ overlaps[r] > 0 \/ faults > 0
  \/ Len(history) > start[r] /\ history[start[r] + 1].to.run # r

Advancing(p, r) == job[p].op = "advance" /\ job[p].run = r

CalmAdvance(p, r) ==
  LET n == job[p].rev IN
  /\ ~job[p].replay /\ log[r][n].to \notin Awaiting /\ begun[r] = n
  /\ job[p].failing = "no" /\ pc[p] # "reinspect"
  /\ Len(log[r]) = IF pc[p] = "after" THEN n + 1 ELSE n
  /\ pc[p] \in AtWork => at[p] = n
  /\ pc[p] = "evaluate" => <<r, n>> \notin DOMAIN journal

Calm(r) ==
  /\ State(r) \notin Fails
  /\ \A p, q \in Procs : Advancing(p, r) /\ Advancing(q, r) => p = q
  /\ Over(r) \/
     /\ r \notin broken /\ \A p \in Procs : job[p].run = r => job[p].op # "fail"
     /\ \A p \in Procs : Advancing(p, r) => CalmAdvance(p, r)
     /\ \A p, q \in Procs : Advancing(p, r) /\ job[q].run = r /\ job[q].op \in {"approve", "reject"} => job[q].rev <= job[p].rev
     /\ (\A p \in Procs : ~Advancing(p, r)) =>
          /\ begun[r] < Len(log[r])
          /\ adopted[r] = Len(log[r]) \/ log[r][adopted[r]].to \in Awaiting

CalmRuns == \A r \in Runs : Exists(r) => Excused(r) \/ Calm(r)

\* Once excused, a run stays so; one that is not has had no trouble.
LEMMA NotExcused ==
  ASSUME LogInv, NEW p \in Procs, Acts(p), UNCHANGED instance, NEW r \in Runs, Exists(r), ~Excused(r)'
  PROVE  /\ ~Excused(r) /\ faults' = 0 /\ overlaps'[r] = 0 /\ r \notin caused'
         /\ Len(history') > start[r] => history'[start[r] + 1].to.run = r
<1>0. TypeOK /\ TypeOK' /\ Grows /\ Notes(p)
  BY TypeStep, StoresGrow, NoteMoves DEF LogInv, Shape
<1>1. MaxOverlaps' \in Nat /\ MaxFaults' \in Nat /\ MaxOverlaps \in Nat /\ MaxFaults \in Nat
  BY <1>0, SameSets, Constants
<1>2. faults' \in Nat /\ overlaps'[r] \in Nat /\ faults \in Nat /\ overlaps[r] \in Nat
  BY <1>0, <1>1 DEF TypeOK
<1>3. r \notin caused' /\ faults' = 0 /\ overlaps'[r] = 0
      /\ (Len(history') > start'[r] => history'[start'[r] + 1].to.run = r)
  BY <1>2 DEF Excused
<1>4. start'[r] = start[r] /\ start[r] \in Nat
  BY <1>0 DEF Grows, TypeOK
<1>5. r \notin caused
  BY <1>0, <1>3 DEF Notes
<1>6. faults = 0
  BY <1>0, <1>2, <1>3 DEF Notes, Fault
<1>7. overlaps[r] = 0
  <2>1. CASE UNCHANGED overlaps
    BY <1>3, <2>1
  <2>2. CASE \E q \in Runs : Overlap(q)
    <3>1. PICK q \in Runs : Overlap(q)
      BY <2>2
    <3>2. UNCHANGED overlaps \/ overlaps' = [overlaps EXCEPT ![q] = overlaps[q] + 1]
      BY <3>1 DEF Overlap
    <3>3. overlaps'[r] = overlaps[r] \/ overlaps'[r] = overlaps[r] + 1
      BY <1>0, <3>2 DEF TypeOK
    <3> QED
      BY <1>2, <1>3, <3>3
  <2> QED
    BY <1>0, <2>1, <2>2 DEF Notes
<1>8. Len(history) > start[r] => history[start[r] + 1].to.run = r
  <2> SUFFICES ASSUME Len(history) > start[r]
               PROVE  history[start[r] + 1].to.run = r
    OBVIOUS
  <2>1. /\ Len(history) \in Nat /\ Len(history') \in Nat /\ Len(history) <= Len(history')
        /\ \A i \in 1..Len(history) : history'[i] = history[i]
    BY <1>0 DEF Grows
  <2>2. Len(history') > start[r] /\ start[r] + 1 \in 1..Len(history)
    BY <1>4, <2>1
  <2> QED
    BY <1>3, <1>4, <2>1, <2>2
<1> QED
  BY <1>3, <1>4, <1>5, <1>6, <1>7, <1>8 DEF Excused

\* What the calls start on a run.
LEMMA CallsOn ==
  ASSUME LogInv, NEW p \in Procs, CallSomething(p), NEW r \in Runs
  PROVE  /\ pc[p] = "idle" /\ UNCHANGED <<log, journal, adopted, broken>>
         /\ job'[p].op = "advance" /\ job'[p].run = r => AdvanceRun(p, r)
         /\ job'[p].op = "fail" /\ job'[p].run = r => r \in broken
         /\ job'[p].op \in {"approve", "reject"} /\ job'[p].run = r => Overlap(r)
<1>0. TypeOK /\ instance.runs \subseteq Runs
  BY Constants DEF LogInv, Shape
<1>1. pc[p] = "idle" /\ UNCHANGED <<log, journal, adopted, broken>>
  BY DEF CallSomething, StartRun, AdvanceRun, Decide, CancelRun, FailRun, RollbackActivation, Call, storeVars
<1>2. ASSUME NEW op, NEW j, NEW l, Call(p, op, j, l)
      PROVE  job'[p] = j
  BY <1>0, <1>2 DEF Call, TypeOK
<1>3. ASSUME NEW q \in instance.runs, NEW b \in Versions \cup {NoVersion}, StartRun(p, q, b)
      PROVE  job'[p].op = "start"
  <2>1. job'[p] = [NoJob EXCEPT !.op = "start", !.run = q, !.base = b]
    BY <1>2, <1>3 DEF StartRun
  <2> QED
    BY <2>1 DEF NoJob
<1>4. ASSUME NEW q \in Runs, AdvanceRun(p, q)
      PROVE  job'[p].op = "advance" /\ job'[p].run = q
  <2> DEFINE again == begun[q] >= adopted[q]
  <2>1. job'[p] = [NoJob EXCEPT !.op = "advance", !.run = q, !.rev = adopted[q], !.replay = again]
    BY <1>2, <1>4 DEF AdvanceRun
  <2> HIDE DEF again
  <2> QED
    BY <2>1 DEF NoJob
<1>5. ASSUME NEW q \in Runs, NEW action \in {"approve", "reject"}, NEW n, Decide(p, q, action, n)
      PROVE  job'[p].op = action /\ job'[p].run = q /\ Overlap(q)
  <2> DEFINE receipt == [action |-> action, run |-> q, rev |-> n]
  <2>1. job'[p] = [NoJob EXCEPT !.op = action, !.run = q, !.rev = n, !.receipt = receipt] /\ Overlap(q)
    BY <1>2, <1>5 DEF Decide
  <2> HIDE DEF receipt
  <2> QED
    BY <2>1 DEF NoJob
<1>6. ASSUME NEW q \in Runs, CancelRun(p, q)
      PROVE  job'[p].op = "cancel"
  <2> DEFINE receipt == [action |-> "cancel", run |-> q, rev |-> Len(log[q])]
  <2>1. job'[p] = [NoJob EXCEPT !.op = "cancel", !.run = q, !.rev = Len(log[q]), !.receipt = receipt]
    BY <1>2, <1>6 DEF CancelRun
  <2> HIDE DEF receipt
  <2> QED
    BY <2>1 DEF NoJob
<1>7. ASSUME NEW q \in Runs, FailRun(p, q)
      PROVE  job'[p].op = "fail" /\ job'[p].run = q /\ q \in broken
  <2>1. job'[p] = [NoJob EXCEPT !.op = "fail", !.run = q] /\ q \in broken
    BY <1>2, <1>7 DEF FailRun
  <2> QED
    BY <2>1 DEF NoJob
<1>8. ASSUME NEW v \in Versions, RollbackActivation(p, v)
      PROVE  job'[p].op = "rollback"
  <2> DEFINE receipt == [action |-> "rollback", to |-> v, rev |-> Len(history)]
  <2>1. job'[p] = [NoJob EXCEPT !.op = "rollback", !.base = v, !.rev = Len(history), !.receipt = receipt]
    BY <1>2, <1>8 DEF RollbackActivation
  <2> HIDE DEF receipt
  <2> QED
    BY <2>1 DEF NoJob
<1>9. \/ job'[p].op \in {"start", "cancel", "rollback"}
      \/ \E q \in Runs : AdvanceRun(p, q) /\ job'[p].op = "advance" /\ job'[p].run = q
      \/ \E q \in Runs : job'[p].op \in {"approve", "reject"} /\ job'[p].run = q /\ Overlap(q)
      \/ \E q \in Runs : job'[p].op = "fail" /\ job'[p].run = q /\ q \in broken
  BY <1>3, <1>4, <1>5, <1>6, <1>7, <1>8 DEF CallSomething
<1> QED
  BY <1>1, <1>9

\* A call that goes on is the same one, or is over.
LEMMA JobStays ==
  ASSUME LogInv, NEW p \in Procs, Acts(p), ~CallSomething(p)
  PROVE  \/ job'[p].op = "none"
         \/ /\ job'[p].op = job[p].op /\ job'[p].run = job[p].run /\ job'[p].rev = job[p].rev
            /\ job'[p].replay = job[p].replay
<1>0. TypeOK /\ job[p] \in Job /\ Moves(p)
  BY ProcMoves DEF LogInv, Shape, TypeOK
<1>1. CASE Done(p)
  BY <1>0, <1>1 DEF Done, TypeOK, NoJob
<1>2. CASE Terminates(p)
  <2>1. PICK why \in Fails : Goes(p, "reinspect", [job[p] EXCEPT !.failing = why], at[p], event[p])
    BY <1>2 DEF Terminates
  <2>2. job'[p] = [job[p] EXCEPT !.failing = why]
    BY <1>0, <2>1, GoesTo
  <2> QED
    BY <1>0, <2>2 DEF Job
<1>3. CASE \E l, n, e : Goes(p, l, job[p], n, e)
  BY <1>0, <1>3, GoesTo
<1> QED
  BY <1>0, <1>1, <1>2, <1>3 DEF Moves, Advances, Prepares, AppendsTo

\* An attempt begins only when it is called for.
LEMMA BegunStays ==
  ASSUME LogInv, NEW p \in Procs, Acts(p), NEW r \in Runs, ~AdvanceRun(p, r)
  PROVE  begun'[r] = begun[r]
<1>1. CASE UNCHANGED begun
  BY <1>1
<1>2. CASE \E q \in Runs : AdvanceRun(p, q) /\ begun' = [begun EXCEPT ![q] = adopted[q]]
  BY <1>2 DEF LogInv, Shape, TypeOK
<1> QED
  BY <1>1, <1>2, NoteMoves DEF Notes

\* A run stays calm while its attempt goes on as one, or there is none.
LEMMA CalmKeeps ==
  ASSUME LogInv, NEW p \in Procs, Acts(p), NEW r \in Runs, Calm(r), ~Over(r),
         log'[r] = log[r], begun'[r] = begun[r], r \notin broken', adopted'[r] \in {adopted[r], Len(log[r])},
         (job'[p].op = "advance" /\ job'[p].run = r) <=> Advancing(p, r),
         ~(job'[p].op = "fail" /\ job'[p].run = r),
         job'[p].op \in {"approve", "reject"} /\ job'[p].run = r =>
           \/ job[p].op = job'[p].op /\ job[p].run = r /\ job'[p].rev = job[p].rev
           \/ \A q \in Procs : ~Advancing(q, r),
         Advancing(p, r) => job'[p].rev = job[p].rev /\ CalmAdvance(p, r)'
  PROVE  Calm(r)'
<1>1. ASSUME NEW q \in Procs, q # p
      PROVE  pc'[q] = pc[q] /\ job'[q] = job[q] /\ at'[q] = at[q]
  BY <1>1, OthersStay
<1>2. ASSUME NEW q \in Procs
      PROVE  Advancing(q, r)' <=> Advancing(q, r)
  BY <1>1 DEF Advancing
<1>3. State(r)' = State(r)
  BY DEF State, Latest
<1>4. \A q, s \in Procs : Advancing(q, r) /\ Advancing(s, r) => q = s
  BY DEF Calm
<1>5. \A q \in Procs : job'[q].run = r => job'[q].op # "fail"
  BY <1>1 DEF Calm
<1>6. ASSUME NEW q \in Procs, Advancing(q, r)
      PROVE  CalmAdvance(q, r)' /\ job'[q].rev = job[q].rev
  <2>1. CASE q = p
    BY <1>6, <2>1
  <2>2. CASE q # p
    <3>1. CalmAdvance(q, r)
      BY <1>6 DEF Calm
    <3>2. journal' = journal \/ \E e : Journals(p, e)
      BY StoreMoves DEF LogInv, Shape, Stores, storeVars, Creates, Commits, Registers, SwitchesOver, RollsBack
    <3>3. <<r, job[q].rev>> \notin DOMAIN journal => <<r, job[q].rev>> \notin DOMAIN journal'
      <4>1. CASE journal' = journal
        BY <4>1
      <4>2. CASE \E e : Journals(p, e)
        <5>1. pc[p] = "evaluate" /\ DOMAIN journal' = DOMAIN journal \cup {Operation(p)}
          BY <4>2 DEF Journals
        <5>2. job[p].op = "advance"
          BY <5>1 DEF LogInv, Shape, CallFits, OpsAt, Pc
        <5>3. job[p].run # r
          BY <1>4, <1>6, <2>2, <5>2 DEF Advancing
        <5> QED
          BY <5>1, <5>3 DEF Operation
      <4> QED
        BY <3>2, <4>1, <4>2
    <3>4. AtWork' = AtWork
      BY DEF AtWork
    <3> QED
      BY <1>1, <2>2, <3>1, <3>3, <3>4 DEF CalmAdvance
  <2> QED
    BY <2>1, <2>2
<1>7. ASSUME NEW q \in Procs, NEW s \in Procs, Advancing(q, r), job'[s].run = r, job'[s].op \in {"approve", "reject"}
      PROVE  job'[s].rev <= job'[q].rev
  <2>1. job[s].run = r /\ job[s].op \in {"approve", "reject"} /\ job'[s].rev = job[s].rev
    BY <1>1, <1>7
  <2>2. job[s].rev <= job[q].rev
    BY <1>7, <2>1 DEF Calm
  <2> QED
    BY <1>6, <1>7, <2>1, <2>2
<1>8. (\A q \in Procs : ~Advancing(q, r)) =>
        begun[r] < Len(log[r]) /\ (adopted[r] = Len(log[r]) \/ log[r][adopted[r]].to \in Awaiting)
  BY DEF Calm
<1>9. Awaiting' = Awaiting /\ Fails' = Fails
  BY DEF Awaiting, Fails
<1>10. State(r)' \notin Fails
  BY <1>3 DEF Calm
<1>11. \A q, s \in Procs : Advancing(q, r)' /\ Advancing(s, r)' => q = s
  BY <1>2, <1>4
<1>12. \A q \in Procs : Advancing(q, r)' => CalmAdvance(q, r)'
  BY <1>2, <1>6
<1>13. \A q, s \in Procs : Advancing(q, r)' /\ job'[s].run = r /\ job'[s].op \in {"approve", "reject"}
                             => job'[s].rev <= job'[q].rev
  BY <1>2, <1>7
<1>14. (\A q \in Procs : ~Advancing(q, r)') =>
         begun'[r] < Len(log'[r]) /\ (adopted'[r] = Len(log'[r]) \/ log'[r][adopted'[r]].to \in Awaiting)
  BY <1>2, <1>8
<1> QED
  BY <1>5, <1>9, <1>10, <1>11, <1>12, <1>13, <1>14 DEF Calm

\* What the notes of another step leave of a run.
LEMMA NotesKeep ==
  ASSUME LogInv, NEW p \in Procs, Acts(p), NEW r \in Runs, Exists(r), ~Advancing(p, r), r \notin broken
  PROVE  /\ r \notin broken'
         /\ adopted'[r] = adopted[r] \/ (adopted'[r] = Len(log[r]) /\ log'[r] = log[r])
<1>1. Notes(p) /\ adopted \in [Runs -> Nat]
  BY NoteMoves DEF LogInv, Shape, TypeOK
<1>2. r \notin broken'
  BY <1>1 DEF Notes, Advancing
<1>3. CASE Creates(p)
  <2>1. adopted' = [adopted EXCEPT ![job[p].run] = 1] /\ ~Exists(job[p].run)
    BY <1>3 DEF Creates
  <2> QED
    BY <1>1, <1>2, <2>1
<1>4. CASE UNCHANGED log /\ adopted' = [adopted EXCEPT ![job[p].run] = Len(log[job[p].run])]
  BY <1>1, <1>2, <1>4
<1> QED
  BY <1>1, <1>2, <1>3, <1>4 DEF Notes

\* Nothing begins beside an attempt.
LEMMA NoneBeside ==
  ASSUME LogInv, NEW p \in Procs, Acts(p), UNCHANGED instance, NEW r \in Runs, Exists(r), ~Excused(r)', Overlap(r)
  PROVE  \A q \in Procs : ~Advancing(q, r)
<1>1. overlaps \in [Runs -> 0..MaxOverlaps] /\ MaxOverlaps \in Nat
  BY Constants DEF LogInv, Shape, TypeOK
<1>2. overlaps'[r] = 0
  BY NotExcused
<1>3. overlaps' # [overlaps EXCEPT ![r] = overlaps[r] + 1]
  BY <1>1, <1>2
<1> QED
  BY <1>3 DEF Overlap, Advancing

\* Another step that leaves the log of a run.
LEMMA CalmBeside ==
  ASSUME LogInv, NEW p \in Procs, Acts(p), UNCHANGED instance, NEW r \in Runs, Exists(r), Calm(r), ~Over(r),
         ~Excused(r)', ~Advancing(p, r), ~AdvanceRun(p, r), log'[r] = log[r]
  PROVE  Calm(r)'
<1>1. r \notin broken /\ ~(job[p].run = r /\ job[p].op = "fail")
  BY DEF Calm
<1>2. r \notin broken' /\ adopted'[r] \in {adopted[r], Len(log[r])} /\ begun'[r] = begun[r]
  BY <1>1, NotesKeep, BegunStays
<1>3. CASE CallSomething(p)
  <2>1. /\ ~(job'[p].op = "advance" /\ job'[p].run = r)
        /\ ~(job'[p].op = "fail" /\ job'[p].run = r)
        /\ job'[p].op \in {"approve", "reject"} /\ job'[p].run = r => Overlap(r)
    BY <1>1, <1>3, CallsOn
  <2>2. Overlap(r) => \A q \in Procs : ~Advancing(q, r)
    BY NoneBeside
  <2> QED
    BY <1>2, <2>1, <2>2, CalmKeeps
<1>4. CASE ~CallSomething(p)
  <2>1. \/ job'[p].op = "none"
        \/ job'[p].op = job[p].op /\ job'[p].run = job[p].run /\ job'[p].rev = job[p].rev
    BY <1>4, JobStays
  <2>2. /\ ~(job'[p].op = "advance" /\ job'[p].run = r)
        /\ ~(job'[p].op = "fail" /\ job'[p].run = r)
        /\ job'[p].op \in {"approve", "reject"} /\ job'[p].run = r =>
             job[p].op = job'[p].op /\ job[p].run = r /\ job'[p].rev = job[p].rev
    BY <1>1, <2>1 DEF Advancing
  <2> QED
    BY <1>2, <2>2, CalmKeeps
<1> QED
  BY <1>3, <1>4

\* An attempt begins, at the latest revision and as the only one.
LEMMA CalmBegins ==
  ASSUME LogInv, NEW p \in Procs, Acts(p), UNCHANGED instance, NEW r \in Runs, Exists(r), Calm(r), ~Over(r),
         ~Excused(r)', AdvanceRun(p, r)
  PROVE  Calm(r)'
<1> DEFINE n == adopted[r]
           again == begun[r] >= n
           j == [NoJob EXCEPT !.op = "advance", !.run = r, !.rev = n, !.replay = again]
<1>0. TypeOK /\ RunFits(r)
  BY DEF LogInv, Shape
<1>1. /\ log[r][n].to \notin Awaiting /\ Call(p, "advance", j, "before") /\ Overlap(r)
      /\ begun' = [begun EXCEPT ![r] = n] /\ r \notin broken
  BY DEF AdvanceRun
<1>2. UNCHANGED <<log, broken, adopted, journal>> /\ job' = [job EXCEPT ![p] = j] /\ pc' = [pc EXCEPT ![p] = "before"]
  BY <1>1 DEF Call, storeVars, Go
<1>3. \A q \in Procs : ~Advancing(q, r)
  BY <1>1, NoneBeside
<1>4. begun[r] < Len(log[r]) /\ n = Len(log[r])
  BY <1>1, <1>3 DEF Calm
<1>5. begun[r] \in Nat /\ n \in Nat /\ begun'[r] = n
  BY <1>0, <1>1 DEF TypeOK
<1>6. ~again
  BY <1>4, <1>5
<1> HIDE DEF again
<1>7. j.op = "advance" /\ j.run = r /\ j.rev = n /\ j.replay = again /\ j.failing = "no"
  BY DEF NoJob
<1>8. job'[p] = j /\ pc'[p] = "before"
  BY <1>0, <1>2 DEF TypeOK
<1> HIDE DEF j
<1>9. ASSUME NEW q \in Procs, q # p
      PROVE  job'[q] = job[q]
  BY <1>9, OthersStay
<1>10. \A q \in Procs : Advancing(q, r)' <=> q = p
  BY <1>3, <1>7, <1>8, <1>9 DEF Advancing
<1>11. State(r)' \notin Fails'
  BY <1>2 DEF Calm, State, Latest, Fails
<1>12. \A q \in Procs : job'[q].run = r => job'[q].op # "fail"
  BY <1>7, <1>8, <1>9 DEF Calm
<1>13. CalmAdvance(p, r)'
  <2>1. job'[p].rev = n /\ ~job'[p].replay /\ job'[p].failing = "no"
    BY <1>6, <1>7, <1>8
  <2>2. log'[r][n].to \notin Awaiting' /\ Len(log'[r]) = n
    BY <1>1, <1>2, <1>4 DEF Awaiting
  <2>3. pc'[p] \notin AtWork'
    BY <1>8 DEF AtWork
  <2> HIDE DEF n
  <2> QED
    BY <1>5, <1>8, <2>1, <2>2, <2>3 DEF CalmAdvance
<1>14. ASSUME NEW s \in Procs, job'[s].run = r, job'[s].op \in {"approve", "reject"}
       PROVE  job'[s].rev <= n
  <2>1. s # p
    BY <1>7, <1>8, <1>14
  <2>2. job[s].run = r /\ job[s].op \in {"approve", "reject"} /\ job'[s].rev = job[s].rev
    BY <1>9, <1>14, <2>1
  <2>3. job[s].rev \in 1..Len(log[r])
    BY <2>2 DEF LogInv, Shape, CallFits, OnRun, Actions
  <2> QED
    BY <1>4, <1>5, <2>2, <2>3
<1>15. job'[p].rev = n
  BY <1>7, <1>8
<1> HIDE DEF n
<1> QED
  BY <1>1, <1>2, <1>10, <1>11, <1>12, <1>13, <1>14, <1>15 DEF Calm

\* Who is at work on a run was, unless it is called.
LEMMA AdvancingBefore ==
  ASSUME LogInv, NEW p \in Procs, Acts(p), NEW r \in Runs, ~AdvanceRun(p, r), NEW q \in Procs, Advancing(q, r)'
  PROVE  Advancing(q, r)
<1>1. CASE q # p
  BY <1>1, OthersStay DEF Advancing
<1>2. CASE q = p
  <2>1. job'[p].op = "advance" /\ job'[p].run = r
    BY <1>2 DEF Advancing
  <2>2. ~CallSomething(p)
    BY <2>1, CallsOn
  <2> QED
    BY <1>2, <2>1, <2>2, JobStays DEF Advancing
<1> QED
  BY <1>1, <1>2

\* A run that is over stays as it is.
LEMMA CalmOver ==
  ASSUME LogInv, NEW p \in Procs, Acts(p), NEW r \in Runs, Over(r), Calm(r)
  PROVE  Calm(r)'
<1>1. log'[r] = log[r]
  <2>1. ~(Commits(p) /\ job[p].run = r)
    BY DEF Commits, Verdict
  <2> QED
    BY <2>1, LogStep DEF Over
<1>2. State(r)' = State(r) /\ Over(r)' /\ Fails' = Fails
  BY <1>1 DEF State, Latest, Over, Exists, Ended, Fails
<1>3. ~AdvanceRun(p, r)
  BY DEF AdvanceRun
<1>4. \A q, s \in Procs : Advancing(q, r)' /\ Advancing(s, r)' => q = s
  BY <1>3, AdvancingBefore DEF Calm
<1>5. State(r)' \notin Fails
  BY <1>2 DEF Calm
<1> QED
  BY <1>2, <1>4, <1>5 DEF Calm

\* A run is accepted.
LEMMA CalmCreated ==
  ASSUME LogInv, NEW p \in Procs, Acts(p), NEW r \in Runs, ~Exists(r), Exists(r)'
  PROVE  Calm(r)'
<1>0. TypeOK /\ RunFits(r)
  BY DEF LogInv, Shape
<1>1. Creates(p) /\ job[p].run = r /\ Len(log'[r]) = 1 /\ log'[r][1] = Accepted
  BY LogStep DEF Exists
<1>2. State(r)' = "accepted"
  BY <1>1 DEF State, Latest, Accepted
<1>3. begun[r] = 0 /\ r \notin broken
  BY <1>0 DEF RunFits
<1>4. pc[p] = "create" /\ adopted' = [adopted EXCEPT ![r] = 1] /\ job[p].op = "start"
  BY <1>1 DEF Creates, LogInv, Shape, CallFits, OpsAt, Pc
<1>5. adopted'[r] = 1
  BY <1>0, <1>4 DEF TypeOK
<1>6. ~CallSomething(p)
  BY <1>4, CallMoves DEF Called
<1>7. begun'[r] = 0
  <2>1. ~AdvanceRun(p, r)
    BY DEF AdvanceRun
  <2> QED
    BY <1>3, <2>1, BegunStays
<1>8. broken' = broken
  BY <1>4, NoteMoves DEF Notes
<1>9. ASSUME NEW q \in Procs
      PROVE  ~(job'[q].run = r /\ job'[q].op \in OnRun)
  <2>1. ~(job[q].run = r /\ job[q].op \in OnRun)
    BY DEF LogInv, Shape, CallFits
  <2>2. CASE q # p
    BY <2>1, <2>2, OthersStay
  <2>3. CASE q = p
    BY <1>6, <2>1, <2>3, JobStays DEF OnRun, Actions
  <2> QED
    BY <2>2, <2>3
<1>10. \A q \in Procs : ~Advancing(q, r)' /\ (job'[q].run = r => job'[q].op # "fail")
  BY <1>9 DEF Advancing, OnRun
<1>11. State(r)' \notin Fails'
  BY <1>2 DEF Fails
<1>12. begun'[r] < Len(log'[r]) /\ adopted'[r] = Len(log'[r])
  BY <1>1, <1>5, <1>7
<1> QED
  BY <1>3, <1>8, <1>10, <1>11, <1>12 DEF Calm

\* What the log becomes when an event is committed.
LEMMA CommitFacts ==
  ASSUME LogInv, NEW p \in Procs, Acts(p), Commits(p), NEW r, r = job[p].run, NEW n, n = at[p]
  PROVE  /\ r \in Runs /\ n \in Nat /\ n \in 1..Len(log[r]) /\ n = Len(log[r]) /\ ~Over(r) /\ Exists(r)
         /\ Fits(r, n, event[p]) /\ event[p].to \in Transitions[log[r][n].to]
         /\ Len(log'[r]) = n + 1 /\ log'[r][n + 1] = event[p] /\ State(r)' = event[p].to
         /\ \A i \in 1..n : log'[r][i] = log[r][i]
<1>1. pc[p] = "append" /\ n = Len(log[r]) /\ ~Over(r) /\ event[p].to \in Transitions[log[r][n].to]
  BY DEF Commits, Verdict
<1>2. r \in Runs /\ n \in 1..Len(log[r]) /\ Exists(r)
  BY <1>1, AtWorkFacts DEF AtWork
<1>3. Fits(r, n, event[p])
  BY <1>1 DEF LogInv, Prepared
<1>8. n \in Nat
  BY DEF LogInv, Shape, TypeOK
<1>4. log' = [log EXCEPT ![r] = Append(log[r], event[p])] /\ log[r] \in Seq(Event)
  BY <1>2 DEF Commits, Commit, LogInv, Shape, TypeOK
<1>5. log'[r] = Append(log[r], event[p])
  BY <1>2, <1>4 DEF LogInv, Shape, TypeOK
<1>6. Len(log'[r]) = n + 1 /\ log'[r][n + 1] = event[p] /\ \A i \in 1..n : log'[r][i] = log[r][i]
  BY <1>1, <1>4, <1>5
<1>7. State(r)' = event[p].to
  BY <1>6 DEF State, Latest
<1> QED
  BY <1>1, <1>2, <1>3, <1>6, <1>7, <1>8

\* The owner decides or cancels.
LEMMA CalmDecided ==
  ASSUME LogInv, NEW p \in Procs, Acts(p), UNCHANGED instance, NEW r \in Runs, Calm(r), Commits(p), job[p].run = r,
         ~Advancing(p, r)
  PROVE  Calm(r)'
<1> DEFINE n == at[p]
           e == event[p]
<1>0. TypeOK /\ RunFits(r) /\ CallFits(p) /\ Prepared(p)
  BY DEF LogInv, Shape
<1>1. /\ n \in Nat /\ n \in 1..Len(log[r]) /\ n = Len(log[r]) /\ ~Over(r) /\ Exists(r) /\ Fits(r, n, e)
      /\ Len(log'[r]) = n + 1 /\ State(r)' = e.to /\ \A i \in 1..n : log'[r][i] = log[r][i]
  BY CommitFacts
<1>2. pc[p] = "append" /\ ~CallSomething(p)
  BY CallMoves DEF Called, Commits
<1>3. job[p].op \in Actions
  <2>1. job[p].op # "fail"
    BY <1>1 DEF Calm
  <2> QED
    BY <1>0, <1>2, <2>1 DEF CallFits, OpsAt, Pc, OnRun, Advancing
<1>4. job[p].rev = n /\ e.phase = DecisionPhase(job[p].op)
  BY <1>0, <1>2, <1>3 DEF Prepared
<1>5. \/ e.to \in {"rejected", "cancelled"}
      \/ job[p].op = "approve" /\ log[r][n].to \in Awaiting /\ e.to \in {"canary", "activating"}
  BY <1>1, <1>3, <1>4 DEF Fits, Leads, DecisionPhase, Actions, Awaiting
<1> HIDE DEF n, e
<1>6. State(r)' \notin Fails'
  BY <1>1, <1>5 DEF Fails
<1>7. ~AdvanceRun(p, r)
  BY <1>2 DEF AdvanceRun, Call
<1>8. \A q, s \in Procs : Advancing(q, r)' /\ Advancing(s, r)' => q = s
  BY <1>7, AdvancingBefore DEF Calm
<1>9. CASE e.to \in {"rejected", "cancelled"}
  <2>1. Over(r)'
    BY <1>1, <1>9, LogStep DEF Over, Ended
  <2> QED
    BY <1>6, <1>8, <2>1 DEF Calm
<1>10. CASE job[p].op = "approve" /\ log[r][n].to \in Awaiting
  <2>1. ASSUME NEW q \in Procs, Advancing(q, r)
        PROVE  FALSE
    <3>1. CalmAdvance(q, r) /\ job[p].rev <= job[q].rev
      BY <1>1, <1>10, <2>1 DEF Calm
    <3>2. job[q].rev # n /\ job[q].rev \in Nat
      <4>1. job[q].rev \in Nat
        BY <1>0 DEF TypeOK, Job
      <4> QED
        BY <1>10, <3>1, <4>1 DEF CalmAdvance
    <3>3. n = job[q].rev \/ n = job[q].rev + 1
      BY <1>1, <3>1 DEF CalmAdvance
    <3> QED
      BY <1>1, <1>4, <3>1, <3>2, <3>3
  <2>2. \A q \in Procs : ~Advancing(q, r)'
    BY <1>7, <2>1, AdvancingBefore
  <2>3. /\ r \notin broken /\ begun[r] < n /\ adopted[r] \in 1..n /\ log[r][adopted[r]].to \in Awaiting
        /\ \A q \in Procs : job[q].run = r => job[q].op # "fail"
    BY <1>0, <1>1, <1>10, <2>1 DEF Calm, RunFits
  <2>4. r \notin broken' /\ adopted'[r] = adopted[r] /\ begun'[r] = begun[r]
    <3>1. log'[r] # log[r]
      BY <1>1
    <3> QED
      BY <1>1, <1>7, <2>3, <3>1, NotesKeep, BegunStays
  <2>5. \A q \in Procs : job'[q].run = r => job'[q].op # "fail"
    BY <1>2, <2>3, JobStays, OthersStay
  <2>6. begun'[r] < Len(log'[r]) /\ log'[r][adopted'[r]].to \in Awaiting'
    <3>1. begun[r] \in Nat /\ begun[r] < n + 1
      BY <1>0, <1>1, <2>3 DEF TypeOK
    <3> QED
      BY <1>1, <2>3, <2>4, <3>1 DEF Awaiting
  <2> QED
    BY <1>6, <2>2, <2>4, <2>5, <2>6 DEF Calm
<1> QED
  BY <1>5, <1>9, <1>10

-----------------------------------------------------------------------------
(* The attempt on a calm run. *)

\* Without trouble, a point of the attempt has its own actions.
LEMMA StepAt ==
  ASSUME NEW p \in Procs, Step(p), job[p].op = "advance"
  PROVE  /\ pc[p] = "before" => BeforeAdvance(p)
         /\ pc[p] = "inspect" => InspectRun(p)
         /\ pc[p] = "work" => \/ Route(p) \/ Design(p) \/ Materialize(p) \/ Diagnose(p)
                              \/ ReadResult(p) \/ ReadAuthority(p)
         /\ pc[p] = "evaluate" => \E e \in Evidence : Evaluate(p, e)
         /\ pc[p] = "register" => RegisterVersion(p)
         /\ pc[p] = "switch" => SwitchActivation(p)
         /\ pc[p] = "append" => AppendEvent(p)
         /\ pc[p] = "after" => AfterAdvance(p)
<1>1. CASE CheckBaseline(p) \/ CreateRun(p) \/ RollBack(p) \/ TerminateAfterFailure(p)
  BY <1>1 DEF CheckBaseline, CreateRun, RollBack, TerminateAfterFailure
<1>2. CASE InspectDecision(p) \/ InspectFailure(p)
  BY <1>2 DEF InspectDecision, InspectFailure, Actions
<1>3. CASE BeforeAdvance(p) \/ InspectRun(p) \/ AfterAdvance(p) \/ AppendEvent(p)
  BY <1>3 DEF BeforeAdvance, InspectRun, AfterAdvance, AppendEvent
<1>4. CASE RegisterVersion(p) \/ SwitchActivation(p) \/ \E e \in Evidence : e.score # 0 /\ Evaluate(p, e)
  BY <1>4 DEF RegisterVersion, SwitchActivation, Evaluate
<1>5. CASE Route(p) \/ Design(p) \/ Materialize(p) \/ Diagnose(p) \/ ReadResult(p) \/ ReadAuthority(p)
  BY <1>5 DEF Route, Design, Materialize, Diagnose, ReadResult, ReadAuthority
<1> QED
  BY <1>1, <1>2, <1>3, <1>4, <1>5 DEF Step, AdvanceOne

\* A run that is not excused has its attempt do what it is to do.
LEMMA NoTrouble ==
  ASSUME LogInv, NEW p \in Procs, Acts(p), UNCHANGED instance, NEW r \in Runs, ~Excused(r)', Advancing(p, r), Calm(r), ~Over(r)
  PROVE  /\ Step(p) /\ ~CallSomething(p) /\ Exists(r) /\ CalmAdvance(p, r) /\ job[p].failing = "no"
         /\ pc[p] \in {"before", "inspect", "work", "evaluate", "register", "switch", "append", "after"}
         /\ job[p].rev \in Nat /\ job[p].rev \in 1..Len(log[r]) /\ r \notin broken /\ begun'[r] = begun[r]
<1>0. TypeOK /\ CallFits(p)
  BY DEF LogInv, Shape
<1>1. job[p].op = "advance" /\ job[p].run = r /\ CalmAdvance(p, r) /\ r \notin broken
  BY DEF Advancing, Calm
<1>2. pc[p] \in {"before", "inspect", "work", "evaluate", "register", "switch", "append", "after"}
  BY <1>0, <1>1 DEF CallFits, OpsAt, Pc, CalmAdvance, OnRun, TypeOK
<1>3. ~CallSomething(p)
  BY <1>2, CallMoves DEF Called
<1>4. Exists(r) /\ job[p].rev \in 1..Len(log[r]) /\ job[p].rev \in Nat
  BY <1>0, <1>1 DEF CallFits, OnRun, TypeOK, Job, Actions
<1>5. faults' = 0 /\ r \notin caused' /\ faults \in Nat
  <2>1. faults \in Nat
    BY <1>0, Constants DEF TypeOK
  <2>2. faults' = 0 /\ r \notin caused'
    BY <1>4, NotExcused
  <2> QED
    BY <2>1, <2>2
<1>6. ~Trouble(p)
  <2>1. ~Fault
    BY <1>5 DEF Fault
  <2>2. ~\E how \in Fails \cup {"transient", "exhausted"} : ProviderFails(p, how)
    BY <1>1, <1>5 DEF ProviderFails
  <2> QED
    BY <2>1, <2>2 DEF Trouble, Contended, SwitchLost, Crash, AppendLost
<1>7. begun'[r] = begun[r]
  BY <1>2, BegunStays DEF AdvanceRun, Call
<1> QED
  BY <1>1, <1>2, <1>3, <1>4, <1>6, <1>7 DEF Acts, CalmAdvance

\* The attempt goes on at its revision.
LEMMA AttemptGoesOn ==
  ASSUME LogInv, NEW p \in Procs, Acts(p), UNCHANGED instance, NEW r \in Runs, ~Excused(r)', Advancing(p, r), Calm(r),
         ~Over(r), pc[p] # "after",
         NEW l \in {"inspect", "work", "evaluate", "register", "switch", "append"}, Go(p, l),
         UNCHANGED <<job, broken, adopted>>, log'[r] = log[r],
         l = "inspect" \/ at'[p] = job[p].rev,
         l = "evaluate" => <<r, job[p].rev>> \notin DOMAIN journal'
  PROVE  Calm(r)'
<1>1. /\ CalmAdvance(p, r) /\ Exists(r) /\ r \notin broken /\ begun'[r] = begun[r]
      /\ job[p].op = "advance" /\ job[p].run = r
  BY NoTrouble DEF Advancing
<1>2. pc'[p] = l /\ job'[p] = job[p]
  BY DEF Go, LogInv, Shape, TypeOK
<1>3. CalmAdvance(p, r)'
  BY <1>1, <1>2 DEF CalmAdvance, AtWork, Awaiting
<1> QED
  BY <1>1, <1>2, <1>3, CalmKeeps DEF Advancing

LEMMA CalmBefore ==
  ASSUME LogInv, NEW p \in Procs, Acts(p), UNCHANGED instance, NEW r \in Runs, ~Excused(r)', Advancing(p, r), Calm(r),
         ~Over(r), pc[p] \in {"before", "inspect"}
  PROVE  Calm(r)'
<1>1. /\ Step(p) /\ CalmAdvance(p, r) /\ Exists(r) /\ job[p].op = "advance" /\ job[p].run = r
      /\ job[p].rev \in Nat /\ Len(log[r]) = job[p].rev
  BY NoTrouble DEF Advancing, CalmAdvance
<1>2. CASE pc[p] = "before"
  <2>1. BeforeAdvance(p)
    BY <1>1, <1>2, StepAt
  <2>2. ~Recovered(p)
    BY <1>1 DEF Recovered
  <2>3. Go(p, "inspect") /\ UNCHANGED <<job, broken, adopted, log>>
    BY <1>1, <2>1, <2>2 DEF BeforeAdvance, storeVars
  <2> QED
    BY <1>2, <2>3, AttemptGoesOn
<1>3. CASE pc[p] = "inspect"
  <2>1. InspectRun(p)
    BY <1>1, <1>3, StepAt
  <2>2. State(r) \notin Ended \cup Awaiting
    BY <1>1 DEF CalmAdvance, Over, State, Latest
  <2>3. Go(p, "work") /\ UNCHANGED <<job, broken, adopted, log>> /\ at' = [at EXCEPT ![p] = job[p].rev]
    BY <1>1, <2>1, <2>2 DEF InspectRun, Inspect, Unchanged, storeVars
  <2>4. at'[p] = job[p].rev
    BY <2>3 DEF LogInv, Shape, TypeOK
  <2> QED
    BY <1>3, <2>3, <2>4, AttemptGoesOn
<1> QED
  BY <1>2, <1>3

\* Its event is prepared, or its operation begins.
LEMMA CalmWork ==
  ASSUME LogInv, NEW p \in Procs, Acts(p), UNCHANGED instance, NEW r \in Runs, ~Excused(r)', Advancing(p, r), Calm(r),
         ~Over(r),
         \/ Route(p) \/ Design(p) \/ Materialize(p) \/ Diagnose(p) \/ ReadResult(p) \/ RegisterVersion(p)
         \/ \E e \in Evidence : Evaluate(p, e)
  PROVE  Calm(r)'
<1>0. pc[p] \in AtWork /\ pc[p] # "after"
  BY DEF Route, Design, Materialize, Diagnose, ReadResult, RegisterVersion, Evaluate, AtWork
<1>1. /\ CalmAdvance(p, r) /\ Exists(r) /\ job[p].op = "advance" /\ job[p].run = r
      /\ job[p].rev \in Nat /\ at[p] = job[p].rev /\ ~job[p].replay
      /\ pc[p] = "evaluate" => <<r, job[p].rev>> \notin DOMAIN journal
  BY <1>0, NoTrouble DEF Advancing, CalmAdvance
<1>2. ASSUME NEW l \in {"register", "switch", "append"}, NEW e, Prepare(p, l, e), UNCHANGED <<adopted, log>>
      PROVE  Calm(r)'
  <2>1. Go(p, l) /\ UNCHANGED <<job, at, broken>>
    BY <1>2 DEF Prepare
  <2> QED
    BY <1>0, <1>1, <1>2, <2>1, AttemptGoesOn
<1>3. CASE Route(p)
  <2>1. (\E e : Prepare(p, "append", e)) /\ UNCHANGED <<adopted, log>>
    BY <1>3 DEF Route, Unchanged, storeVars
  <2> QED
    BY <1>2, <2>1
<1>4. CASE Design(p) \/ Materialize(p) \/ Diagnose(p)
  <2>1. (\E e : Prepare(p, "append", e)) /\ UNCHANGED <<adopted, log>>
    BY <1>4 DEF Design, Materialize, Diagnose, Unchanged, storeVars
  <2> QED
    BY <1>2, <2>1
<1>5. ASSUME NEW e, JudgeResult(p, e), UNCHANGED <<adopted, log>>
      PROVE  Calm(r)'
  <2>1. CASE e.qualified /\ Seen(p).to = "evaluating"
    BY <1>2, <1>5, <2>1 DEF JudgeResult
  <2>2. CASE ~(e.qualified /\ Seen(p).to = "evaluating")
    BY <1>2, <1>5, <2>2 DEF JudgeResult
  <2> QED
    BY <2>1, <2>2
<1>6. CASE ReadResult(p)
  <2>1. UNCHANGED <<adopted, log, journal>>
    BY <1>6 DEF ReadResult, Unchanged, storeVars
  <2>2. \/ JudgeResult(p, journal[Operation(p)])
        \/ Operation(p) \notin DOMAIN journal /\ Go(p, "evaluate") /\ UNCHANGED <<job, at, broken>>
    BY <1>1, <1>6 DEF ReadResult
  <2>3. CASE Operation(p) \notin DOMAIN journal /\ Go(p, "evaluate") /\ UNCHANGED <<job, at, broken>>
    BY <1>0, <1>1, <2>1, <2>3, AttemptGoesOn DEF Operation
  <2> QED
    BY <1>5, <2>1, <2>2, <2>3
<1>7. ASSUME NEW e, Evaluate(p, e)
      PROVE  Calm(r)'
  <2>1. Operation(p) \notin DOMAIN journal
    BY <1>1, <1>7 DEF Evaluate, Operation
  <2>2. JudgeResult(p, e) /\ UNCHANGED <<adopted, log>>
    BY <1>7, <2>1 DEF Evaluate
  <2> QED
    BY <1>5, <2>2
<1>8. CASE RegisterVersion(p)
  <2>1. Go(p, "append") /\ UNCHANGED <<job, at, broken, adopted, log>>
    BY <1>8 DEF RegisterVersion, noteVars
  <2> QED
    BY <1>0, <1>1, <2>1, AttemptGoesOn
<1> QED
  BY <1>3, <1>4, <1>6, <1>7, <1>8

\* The version is registered and the owner has approved it.
LEMMA CalmAuthority ==
  ASSUME LogInv, NEW p \in Procs, Acts(p), UNCHANGED instance, NEW r \in Runs, ~Excused(r)', Advancing(p, r), Calm(r),
         ~Over(r), ReadAuthority(p)
  PROVE  Calm(r)'
<1> DEFINE n == job[p].rev
<1>1. /\ pc[p] = "work" /\ Exists(r) /\ job[p].run = r /\ n \in Nat /\ n \in 1..Len(log[r]) /\ at[p] = n
      /\ log[r][n].to = "activating"
  BY NoTrouble DEF ReadAuthority, Advancing, CalmAdvance, AtWork, Seen
<1> HIDE DEF n
<1>2. Earned(r, n)
  BY <1>1, AllEarned
<1>3. Candidate(p) \in versions
  BY <1>1, <1>2 DEF Earned, Qualified, Candidate, Seen
<1>4. ASSUME log[r][n].tier # "low"
      PROVE  LatestOwnerAuthority(r) # NoReceipt
  <2>1. log[r][n].phase = "owner_approve"
    BY <1>1, <1>2, <1>4 DEF Earned
  <2>2. n # 1
    BY <1>1, <2>1 DEF LogInv, Chained, Accepted
  <2>3. n - 1 \in 1..Len(log[r]) - 1 /\ (n - 1) + 1 = n /\ n - 1 \in Nat
    <3>1. Len(log[r]) \in Nat
      BY LogStep
    <3> QED
      BY <1>1, <2>2, <3>1
  <2>4. Fits(r, n - 1, log[r][n])
    BY <2>3, NextEvent
  <2>5. log[r][n].receipt = [action |-> "approve", run |-> r, rev |-> n - 1]
    BY <2>1, <2>4 DEF Fits
  <2>6. LatestOwnerAuthority(r) = log[r][n].receipt
    BY <1>1, <2>1, ApprovedLast
  <2>7. [action |-> "approve", run |-> r, rev |-> n - 1] \in [action : {"approve", "reject", "cancel"}, run : Runs, rev : Nat]
    BY <2>3
  <2> QED
    BY <2>5, <2>6, <2>7, FoundryKernelAssumption
<1>5. ~(Candidate(p) \notin versions \/ (Seen(p).tier # "low" /\ LatestOwnerAuthority(job[p].run) = NoReceipt))
  BY <1>1, <1>3, <1>4 DEF Seen
<1>6. (\E e : Prepare(p, "switch", e)) /\ UNCHANGED <<adopted, log>>
  BY <1>5 DEF ReadAuthority, Unchanged, storeVars
<1>7. Go(p, "switch") /\ UNCHANGED <<job, at, broken, adopted, log>>
  BY <1>6 DEF Prepare
<1> QED
  BY <1>1, <1>7, AttemptGoesOn DEF n

\* The active version has not moved but by this very switch.
LEMMA OwnSwitch ==
  ASSUME SwitchInv, NEW p \in Procs, pc[p] = "switch", NEW r, r = job[p].run,
         NEW i, i = start[r] + 1, Len(history) > start[r], history[i].to.run = r, Len(log[r]) = at[p]
  PROVE  history[i] = Activation(p)
<1>0. LogInv /\ TypeOK /\ Prepared(p) /\ Switches(p)
  BY DEF SwitchInv, LogInv, Shape
<1> DEFINE n == at[p]
<1>1. event[p].phase = "activate"
  BY <1>0 DEF Prepared
<1>2. /\ r \in Runs /\ Exists(r) /\ n \in 1..Len(log[r]) /\ n \in Nat /\ log[r][n].to = "activating"
  BY <1>0, <1>1, ActivateFacts
<1>3. event[p].receipt = LatestOwnerAuthority(r)
  BY <1>0, <1>1 DEF Switches
<1>4. i \in DOMAIN history /\ i \in Nat /\ start[r] \in Nat
  BY <1>0, <1>2 DEF TypeOK
<1>5. Switched(i) /\ history[i] \in Transaction
  BY <1>0, <1>4, ElementOfSeq DEF SwitchInv, TypeOK
<1>6. CASE history[i].kind = "activate"
  <2>1. PICK m \in Nat : m \in 1..Len(log[r]) /\ log[r][m].to = "activating" /\ history[i] = SwitchOf(r, m)
    <3>1. PICK q \in Runs, m \in Nat : /\ q = history[i].to.run /\ m \in 1..Len(log[q])
                                       /\ log[q][m].to = "activating" /\ history[i] = SwitchOf(q, m)
      BY <1>4, <1>6, ActivationFacts
    <3> QED
      BY <3>1
  <2>2. /\ Len(log[r]) = m \/ Len(log[r]) = m + 1
        /\ Len(log[r]) = m + 1 => log[r][m + 1].to \in {"completed_active"} \cup Fails
    BY <1>0, <1>2, <2>1, ActivatingLast
  <2>3. m = n
    BY <1>2, <2>1, <2>2 DEF Fails
  <2>4. Activation(p) = SwitchOf(r, n)
    BY <1>3 DEF Activation, Candidate, Seen, SwitchOf
  <2> QED
    BY <2>1, <2>3, <2>4
<1>7. CASE history[i].kind = "rollback"
  <2>1. PICK k \in 1..i - 1 : history[k].kind = "activate" /\ history[k].to = history[i].to
    BY <1>5, <1>7 DEF Switched
  <2>2. k \in DOMAIN history
    BY <1>0, <1>4, <2>1 DEF TypeOK
  <2>3. start[r] = k - 1
    BY <2>1, <2>2, ActivationFacts
  <2> QED
    BY <1>4, <2>1, <2>3
<1> QED
  BY <1>5, <1>6, <1>7 DEF Transaction

LEMMA CalmSwitch ==
  ASSUME SwitchInv, NEW p \in Procs, Acts(p), UNCHANGED instance, NEW r \in Runs, ~Excused(r)', Advancing(p, r), Calm(r),
         ~Over(r), SwitchActivation(p)
  PROVE  Calm(r)'
<1>0. LogInv
  BY DEF SwitchInv
<1>1. pc[p] = "switch" /\ Exists(r) /\ job[p].run = r /\ at[p] = job[p].rev /\ Len(log[r]) = at[p]
  BY <1>0, NoTrouble DEF SwitchActivation, Advancing, CalmAdvance, AtWork
<1>2. Len(history) > start[r] => history[start[r] + 1].to.run = r
  BY <1>0, <1>1, NotExcused DEF Excused
<1>3. Len(history) > start[r] => history[start[r] + 1] = Activation(p)
  BY <1>1, <1>2, OwnSwitch
<1>4. Go(p, "append") /\ UNCHANGED <<job, at, broken, adopted, log>>
  BY <1>1, <1>3 DEF SwitchActivation
<1> QED
  BY <1>0, <1>1, <1>4, AttemptGoesOn

\* The event is new, and committed.
LEMMA CalmAppend ==
  ASSUME LogInv, NEW p \in Procs, Acts(p), UNCHANGED instance, NEW r \in Runs, ~Excused(r)', Advancing(p, r), Calm(r),
         ~Over(r), AppendEvent(p)
  PROVE  Calm(r)'
<1> DEFINE n == job[p].rev
           e == event[p]
<1>0. TypeOK /\ Prepared(p)
  BY DEF LogInv, Shape
<1>1. pc[p] = "append" /\ Exists(r) /\ ~CallSomething(p) /\ CalmAdvance(p, r) /\ job[p].failing = "no" /\ r \notin broken
      /\ n \in Nat /\ n \in 1..Len(log[r]) /\ begun'[r] = begun[r]
  BY NoTrouble DEF AppendEvent
<1>2. /\ job[p].run = r /\ job[p].op = "advance" /\ at[p] = n /\ Len(log[r]) = n
      /\ log[r][n].to \notin Awaiting /\ begun[r] = n /\ ~job[p].replay
  BY <1>1 DEF Advancing, CalmAdvance, AtWork
<1>3. /\ Fits(r, n, e) /\ e.to \notin Fails /\ e.phase \notin {"owner_approve", "owner_reject", "cancel"}
  BY <1>0, <1>1, <1>2 DEF Prepared
<1> HIDE DEF n, e
<1>4. e.phase \notin {"failure", "quarantine"} /\ Leads(log[r][n], e)
  BY <1>3 DEF Fits, Leads
<1>5. {i \in DOMAIN log[r] : IdempotencyKey(log[r][i]) = IdempotencyKey(e)} = {}
  BY <1>1, <1>2, <1>3, <1>4, KeyIsNew
<1>6. e.to \in Transitions[log[r][n].to]
  <2>1. log[r][n].tier \in Risks
    BY <1>1, LogBudgeted DEF Event, Risks
  <2> QED
    BY <1>3, <1>4, <2>1, LeadsIsAllowed
<1>7. Verdict(r, n, e) = "appended"
  BY <1>2, <1>5, <1>6 DEF Verdict
<1>8. Verdict(job[p].run, at[p], event[p]) = "appended"
  BY <1>2, <1>7 DEF e
<1>9. Commits(p) /\ Go(p, "after") /\ UNCHANGED <<job, at, broken, adopted>>
  BY <1>1, <1>2, <1>8 DEF AppendEvent, Commits, Appended
<1>10. /\ Len(log'[r]) = n + 1 /\ log'[r][n] = log[r][n] /\ State(r)' = e.to /\ Exists(r)'
  <2>1. /\ Len(log'[r]) = n + 1 /\ (\A i \in 1..n : log'[r][i] = log[r][i]) /\ State(r)' = e.to
    BY <1>2, <1>9, CommitFacts DEF e
  <2>2. n \in 1..n
    BY <1>1
  <2>3. Exists(r)'
    BY <1>1, <2>1, LogStep
  <2> QED
    BY <2>1, <2>2, <2>3
<1>11. pc'[p] = "after"
  BY <1>0, <1>9 DEF Go, TypeOK
<1>12. \A q \in Procs : Advancing(q, r)' <=> q = p
  BY <1>9 DEF Calm, Advancing
<1>13. CalmAdvance(p, r)'
  BY <1>1, <1>2, <1>9, <1>10, <1>11 DEF CalmAdvance, AtWork, Awaiting, n
<1>14. State(r)' \notin Fails'
  BY <1>3, <1>10 DEF Fails
<1>15. \A q, s \in Procs : Advancing(q, r)' /\ job'[s].run = r /\ job'[s].op \in {"approve", "reject"} => job'[s].rev <= job'[q].rev
  BY <1>9, <1>12 DEF Calm
<1>16. r \notin broken' /\ \A q \in Procs : job'[q].run = r => job'[q].op # "fail"
  BY <1>1, <1>9 DEF Calm
<1> QED
  BY <1>12, <1>13, <1>14, <1>15, <1>16 DEF Calm

\* The event is adopted.
LEMMA CalmAfter ==
  ASSUME LogInv, NEW p \in Procs, Acts(p), UNCHANGED instance, NEW r \in Runs, ~Excused(r)', Advancing(p, r), Calm(r),
         ~Over(r), AfterAdvance(p)
  PROVE  Calm(r)'
<1>0. TypeOK
  BY DEF LogInv, Shape
<1>1. pc[p] = "after" /\ Exists(r) /\ CalmAdvance(p, r) /\ r \notin broken /\ job[p].rev \in Nat /\ begun'[r] = begun[r]
  BY NoTrouble DEF AfterAdvance
<1>2. job[p].run = r /\ Len(log[r]) = job[p].rev + 1 /\ begun[r] = job[p].rev
  BY <1>1 DEF Advancing, CalmAdvance
<1>3. Recovered(p)
  BY <1>1, <1>2 DEF Recovered, Over, Ended
<1>4. Done(p) /\ UNCHANGED <<log, broken>> /\ adopted' = [adopted EXCEPT ![r] = Len(log[r])]
  BY <1>2, <1>3 DEF AfterAdvance, Adopt, Return, storeVars
<1>5. adopted'[r] = Len(log[r])
  BY <1>0, <1>4 DEF TypeOK
<1>6. job'[p].op = "none"
  BY <1>0, <1>4 DEF Done, TypeOK, NoJob
<1>7. \A q \in Procs : ~Advancing(q, r)'
  BY <1>6, OthersStay DEF Calm, Advancing
<1>8. \A q \in Procs : job'[q].run = r => job'[q].op # "fail"
  BY <1>6, OthersStay DEF Calm
<1>9. State(r)' \notin Fails'
  BY <1>4 DEF Calm, State, Latest, Fails
<1>10. begun'[r] < Len(log'[r]) /\ adopted'[r] = Len(log'[r])
  BY <1>1, <1>2, <1>4, <1>5
<1> QED
  BY <1>1, <1>4, <1>7, <1>8, <1>9, <1>10 DEF Calm

\* A run that nothing has happened to stays calm.
LEMMA CalmStep ==
  ASSUME SwitchInv, CalmRuns, NEW p \in Procs, Acts(p), UNCHANGED instance, NEW r \in Runs, Exists(r)', ~Excused(r)'
  PROVE  Calm(r)'
<1>0. LogInv
  BY DEF SwitchInv
<1>1. CASE ~Exists(r)
  BY <1>0, <1>1, CalmCreated
<1>2. ASSUME Exists(r)
      PROVE  Calm(r)
  BY <1>0, <1>2, NotExcused DEF CalmRuns
<1>3. CASE Over(r)
  BY <1>0, <1>2, <1>3, CalmOver DEF Over
<1>4. CASE Exists(r) /\ ~Over(r) /\ Advancing(p, r)
  <2>1. Calm(r) /\ Step(p) /\ job[p].op = "advance"
    BY <1>0, <1>2, <1>4, NoTrouble DEF Advancing
  <2>2. pc[p] \in {"before", "inspect", "work", "evaluate", "register", "switch", "append", "after"}
    BY <1>0, <1>4, <2>1, NoTrouble
  <2>3. CASE pc[p] \in {"before", "inspect"}
    BY <1>0, <1>4, <2>1, <2>3, CalmBefore
  <2>4. CASE pc[p] = "work"
    <3>1. Route(p) \/ Design(p) \/ Materialize(p) \/ Diagnose(p) \/ ReadResult(p) \/ ReadAuthority(p)
      BY <2>1, <2>4, StepAt
    <3> QED
      BY <1>0, <1>4, <2>1, <3>1, CalmWork, CalmAuthority
  <2>5. CASE pc[p] \in {"evaluate", "register"}
    <3>1. RegisterVersion(p) \/ \E e \in Evidence : Evaluate(p, e)
      BY <2>1, <2>5, StepAt
    <3> QED
      BY <1>0, <1>4, <2>1, <3>1, CalmWork
  <2>6. CASE pc[p] = "switch"
    BY <1>4, <2>1, <2>6, StepAt, CalmSwitch
  <2>7. CASE pc[p] = "append"
    BY <1>0, <1>4, <2>1, <2>7, StepAt, CalmAppend
  <2>8. CASE pc[p] = "after"
    BY <1>0, <1>4, <2>1, <2>8, StepAt, CalmAfter
  <2> QED
    BY <2>2, <2>3, <2>4, <2>5, <2>6, <2>7, <2>8
<1>5. CASE Exists(r) /\ ~Over(r) /\ ~Advancing(p, r)
  <2>1. CASE AdvanceRun(p, r)
    BY <1>0, <1>2, <1>5, <2>1, CalmBegins
  <2>2. CASE Commits(p) /\ job[p].run = r
    BY <1>0, <1>2, <1>5, <2>2, CalmDecided
  <2>3. CASE ~AdvanceRun(p, r) /\ ~(Commits(p) /\ job[p].run = r)
    <3>1. log'[r] = log[r]
      BY <1>0, <1>5, <2>3, LogStep
    <3> QED
      BY <1>0, <1>2, <1>5, <2>3, <3>1, CalmBeside
  <2> QED
    BY <2>1, <2>2, <2>3
<1> QED
  BY <1>1, <1>3, <1>4, <1>5

LEMMA CalmRunsStep == SwitchInv /\ CalmRuns /\ [Next]_vars => CalmRuns'
<1> SUFFICES ASSUME SwitchInv, CalmRuns, [Next]_vars PROVE CalmRuns'
  OBVIOUS
<1>1. CASE Next
  <2>1. PICK p \in Procs : Acts(p) /\ UNCHANGED instance
    BY <1>1, StepOfOne DEF SwitchInv, LogInv, Shape
  <2>2. \A r \in Runs : Exists(r)' => Excused(r)' \/ Calm(r)'
    BY <2>1, CalmStep
  <2> QED
    BY <2>2 DEF CalmRuns
<1>2. CASE UNCHANGED vars
  <2>1. UNCHANGED <<log, start, journal, history, pc, job, at, adopted, begun, overlaps, broken, caused, faults>>
    BY <1>2 DEF vars, storeVars, procVars, noteVars
  <2>2. ASSUME NEW r \in Runs
        PROVE  /\ Exists(r)' = Exists(r) /\ Excused(r)' = Excused(r) /\ Over(r)' = Over(r) /\ State(r)' = State(r)
               /\ \A p \in Procs : Advancing(p, r)' = Advancing(p, r)
    BY <2>1 DEF Exists, Excused, Over, State, Latest, Advancing
  <2>3. ASSUME NEW r \in Runs, NEW p \in Procs
        PROVE  CalmAdvance(p, r)' = CalmAdvance(p, r)
    BY <2>1 DEF CalmAdvance, AtWork
  <2>4. ASSUME NEW r \in Runs, Calm(r)
        PROVE  Calm(r)'
    BY <2>1, <2>2, <2>3, <2>4 DEF Calm
  <2> QED
    BY <2>2, <2>4 DEF CalmRuns
<1> QED
  BY <1>1, <1>2

\* A run whose provider answers, that has one attempt at a time and is not
\* overtaken by another's switch, has all it needs at every step: each attempt
\* is at the latest revision, with its operation not begun before, its version
\* registered and its approval given.
THEOREM CalmInvariant == Spec => [](SwitchInv /\ CalmRuns)
<1>1. Init => CalmRuns
  BY DEF Init, CalmRuns, Exists
<1> QED
  BY <1>1, SwitchInvInit, SwitchInvStep, CalmRunsStep, PTL DEF Spec

\* FailureHasCause: a run fails or is quarantined only for a failing provider, a
\* failing store, another's switch, or an overlap of attempts.
THEOREM FailuresHaveCauses == Spec => []FailureHasCause
<1>1. CalmRuns => FailureHasCause
  BY DEF CalmRuns, FailureHasCause, Calm, Excused
<1> QED
  BY <1>1, CalmInvariant, PTL
=============================================================================
