---------------------- MODULE StageRunRecovery_proofs ----------------------
(* Theorems about closeout recovery, for any finite set of operators, any  *)
(* resumes and bounds.  The invariant says what each operator carries to   *)
(* its next step, counts claims against executions, keeps the claim tokens *)
(* apart, and charges every execution that may leave the history to a      *)
(* fault.                                                                  *)
EXTENDS StageRunRecovery, FiniteSetTheorems, SequenceTheorems, TLAPS

\* Operators that stand for one more claim, and for one more execution.
Claimers == {o \in Operators : op[o].pc \in Claiming}
Starters == {o \in Operators : op[o].pc \in {"probe", "start"}}

\* Types, and what bounds the claims and the executions.
Shape ==
  /\ row \in {"started", "completed", "blocked"}
  /\ cycle \in {"running", "ended"}
  /\ entry \in Entry
  /\ exec \in Seq([resume : Resume \cup {Original}, running : BOOLEAN])
  /\ op \in [Operators -> Operator]
  /\ faults \in 0..MaxFaults
  /\ Len(exec) >= 1

Counted ==
  /\ entry.attempts + Cardinality(Claimers) <= MaxClaims
  /\ Len(exec) + Cardinality(Starters) <= entry.attempts + 1

\* The first execution is the original one, and only the last may run.
OneRuns ==
  /\ exec[1].resume = Original
  /\ \A i \in 1..Len(exec) - 1 : ~exec[i].running

\* A receipt, a lease and a token belong to a status of the entry.
EntryFits ==
  /\ entry.receipt # NoRun <=> entry.status = "started"
  /\ entry.status # "starting" => entry.token = 0 /\ ~entry.leased
  /\ entry.token <= entry.attempts

Ended(i) == i \in 1..Len(exec) /\ ~exec[i].running
Its(i, id) == i \in 2..Len(exec) /\ exec[i].resume.id = id

\* What an operator carries from one step to the next.
Carries(o) ==
  LET c == op[o] IN
  /\ c.pc # "idle" => c.want \in Resume
  /\ c.pc \in {"describeOriginal", "close", "project", "describePrior", "describeOwn"} => c.seen = NoRun
  /\ c.pc = "claim" /\ c.seen # NoRun => Ended(c.seen)
  /\ c.pc = "record" => Its(c.seen, c.want.id)

Carried == \A o \in Operators : Carries(o)

\* No two claimants have the same token, and the entry's is its claimant's.
Tokens ==
  \A o \in Operators : op[o].pc \in Claimants =>
    /\ op[o].token \in 1..entry.attempts
    /\ entry.token = op[o].token => entry.resume = op[o].want
    /\ \A p \in Operators \ {o} : op[p].pc \in Claimants => op[p].token # op[o].token

\* Claimants that may yet lose an execution: their lease was outlived.
Outlived ==
  {o \in Operators : /\ op[o].pc \in Claimants \ {"failure"}
                     /\ ~(entry.leased /\ entry.token = op[o].token)}

\* Every lost execution, and every one that may still get lost, has its fault.
Charged == Cardinality(Lost) + Cardinality(Outlived) <= faults

RecoveryInv ==
  /\ Shape /\ Counted /\ OneRuns /\ EntryFits /\ Carried /\ Tokens
  /\ BoundToItsOwn /\ Charged

-----------------------------------------------------------------------------
(* Counting a set that a step changes by one element. *)

LEMMA CountLess ==
  ASSUME NEW S, NEW T, IsFiniteSet(S), T \subseteq S
  PROVE  IsFiniteSet(T) /\ Cardinality(T) \in Nat /\ Cardinality(S) \in Nat
         /\ Cardinality(T) <= Cardinality(S)
BY FS_Subset, FS_CardinalityType

LEMMA CountOneMore ==
  ASSUME NEW S, NEW T, NEW x, IsFiniteSet(S), T \subseteq S \cup {x}
  PROVE  Cardinality(T) \in Nat /\ Cardinality(S) \in Nat
         /\ Cardinality(T) <= Cardinality(S) + 1
<1>1. /\ IsFiniteSet(S \cup {x}) /\ Cardinality(S) \in Nat
      /\ Cardinality(S \cup {x}) <= Cardinality(S) + 1
  <2>1. Cardinality(S) \in Nat
    BY FS_CardinalityType
  <2>2. /\ IsFiniteSet(S \cup {x})
        /\ Cardinality(S \cup {x}) = IF x \in S THEN Cardinality(S) ELSE Cardinality(S) + 1
    BY FS_AddElement
  <2> QED
    BY <2>1, <2>2
<1>2. /\ Cardinality(T) \in Nat /\ Cardinality(S \cup {x}) \in Nat
      /\ Cardinality(T) <= Cardinality(S \cup {x})
  BY <1>1, CountLess
<1> QED
  BY <1>1, <1>2

LEMMA CountOneLess ==
  ASSUME NEW S, NEW T, NEW x \in S, IsFiniteSet(S), T \subseteq S \ {x}
  PROVE  Cardinality(T) \in Nat /\ Cardinality(S) \in Nat
         /\ Cardinality(T) + 1 <= Cardinality(S)
<1>1. IsFiniteSet(S \ {x}) /\ Cardinality(S \ {x}) = Cardinality(S) - 1 /\ Cardinality(S) \in Nat
  BY FS_RemoveElement, FS_CardinalityType
<1>2. /\ Cardinality(T) \in Nat /\ Cardinality(S \ {x}) \in Nat
      /\ Cardinality(T) <= Cardinality(S \ {x})
  BY <1>1, CountLess
<1> QED
  BY <1>1, <1>2

LEMMA Finite ==
  ASSUME Shape
  PROVE  /\ IsFiniteSet(Claimers) /\ IsFiniteSet(Starters) /\ IsFiniteSet(Outlived)
         /\ IsFiniteSet(Lost)
<1>1. Claimers \subseteq Operators /\ Starters \subseteq Operators /\ Outlived \subseteq Operators
  BY DEF Claimers, Starters, Outlived
<1>2. Lost \subseteq 2..Len(exec) /\ Len(exec) \in Nat
  BY DEF Lost, Latest, Shape
<1>3. IsFiniteSet(2..Len(exec))
  BY <1>2, FS_Interval
<1> QED
  BY <1>1, <1>2, <1>3, CountLess, StageRunRecoveryAssumption

-----------------------------------------------------------------------------
(* Shape. *)

LEMMA Bounds ==
  ASSUME Shape, Counted
  PROVE  /\ entry.attempts \in 0..MaxClaims /\ Len(exec) \in 1..MaxClaims + 1
         /\ \A o \in Operators : op[o].pc = "start" => Len(exec) + 1 \in RunRef
         /\ \A o \in Operators : op[o].pc \in Claiming => entry.attempts + 1 <= MaxClaims
<1>1. /\ entry.attempts \in 0..MaxClaims /\ Len(exec) \in Nat /\ Len(exec) >= 1
      /\ MaxClaims \in Nat
  BY StageRunRecoveryAssumption DEF Shape, Entry
<1>2. Cardinality(Starters) \in Nat /\ Cardinality(Claimers) \in Nat
  BY Finite, FS_CardinalityType
<1>3. Len(exec) + Cardinality(Starters) <= MaxClaims + 1
  BY <1>1, <1>2 DEF Counted
<1>4. ASSUME NEW o \in Operators, op[o].pc = "start"
      PROVE  Len(exec) + 1 \in RunRef
  <2>1. o \in Starters
    BY <1>4 DEF Starters
  <2>2. Cardinality(Starters) # 0
    BY <2>1, Finite, FS_EmptySet
  <2> QED
    BY <1>1, <1>2, <1>3, <2>2 DEF RunRef
<1>5. ASSUME NEW o \in Operators, op[o].pc \in Claiming
      PROVE  entry.attempts + 1 <= MaxClaims
  <2>1. o \in Claimers
    BY <1>5 DEF Claimers
  <2>2. Cardinality(Claimers) # 0
    BY <2>1, Finite, FS_EmptySet
  <2> QED
    BY <1>1, <1>2, <2>2 DEF Counted
<1> QED
  BY <1>1, <1>2, <1>3, <1>4, <1>5

LEMMA ReadingKeeps ==
  ASSUME NEW c \in Operator
  PROVE  /\ Reading(c).pc = c.pc /\ Reading(c).want = c.want
         /\ Reading(c).seen = c.seen /\ Reading(c).token = c.token
BY DEF Reading, Operator

\* A step of an operator changes its own record only, and keeps its type.
LEMMA OperatorShape ==
  ASSUME Shape, Counted, NEW o \in Operators, OperatorStep(o)
  PROVE  op'[o] \in Operator /\ op' = [op EXCEPT ![o] = op'[o]]
<1> USE DEF Shape, Claiming, Claimants, Describes, Goto, Done, OnlyOp
<1>1. /\ op \in [Operators -> Operator] /\ op[o] \in Operator
      /\ entry.resume \in Resume \cup {Original} /\ entry.receipt \in RunRef
  BY DEF Entry
<1>2. Len(exec) \in RunRef /\ (op[o].pc = "start" => Len(exec) + 1 \in RunRef)
  BY Bounds, StageRunRecoveryAssumption DEF RunRef
<1>3. Idle \in Operator
  BY StageRunRecoveryAssumption DEF Idle, Operator, RunRef, NoRun
<1>4. ASSUME NEW c \in Operator, op' = [op EXCEPT ![o] = c]
      PROVE  op'[o] \in Operator /\ op' = [op EXCEPT ![o] = op'[o]]
  BY <1>1, <1>4
<1>5. ASSUME NEW c \in Operator
      PROVE  Reading(c) \in Operator
  <2>1. [c EXCEPT !.prior = entry.resume, !.bound = entry.receipt] \in Operator
    BY <1>1 DEF Operator
  <2> QED
    BY <2>1 DEF Reading
<1>6. CASE Recover(o)
  <2>1. PICK w \in Resume, flag \in BOOLEAN :
          op' = [op EXCEPT ![o] = Reading([Idle EXCEPT !.want = w, !.retry = flag,
                  !.pc = IF row = "started" THEN "describeOriginal" ELSE "project"])]
    BY <1>6 DEF Recover
  <2>2. [Idle EXCEPT !.want = w, !.retry = flag,
           !.pc = IF row = "started" THEN "describeOriginal" ELSE "project"] \in Operator
    BY <1>3 DEF Operator
  <2> QED
    BY <1>4, <1>5, <2>1, <2>2
<1>7. CASE DescribeOriginal(o) \/ RefuseCloseout(o) \/ Project(o) \/ RefuseClaim(o) \/ AlreadyStarted(o)
           \/ Record(o) \/ RecordLate(o) \/ RecordFailure(o) \/ RpcFails(o) \/ StartAnswerLost(o) \/ Crash(o)
  <2>1. \/ \E pc \in {"close", "describePrior", "claim", "describeExisting", "failure"} :
             op' = [op EXCEPT ![o].pc = pc]
        \/ op' = [op EXCEPT ![o] = Idle]
    BY <1>7 DEF DescribeOriginal, RefuseCloseout, Project, RefuseClaim, AlreadyStarted, Record, RecordLate,
       RecordFailure, RpcFails, StartAnswerLost, Crash
  <2>2. ASSUME NEW pc \in {"close", "describePrior", "claim", "describeExisting", "failure"}
        PROVE  [op[o] EXCEPT !.pc = pc] \in Operator
    BY <1>1 DEF Operator
  <2> QED
    BY <1>3, <1>4, <2>1, <2>2
<1>8. CASE Close(o)
  <2>1. [op[o] EXCEPT !.pc = "project"] \in Operator
    BY <1>1 DEF Operator
  <2> QED
    BY <1>3, <1>4, <1>5, <1>8, <2>1 DEF Close
<1>9. CASE DescribePrior(o) \/ FindStarted(o) \/ DescribeOwn(o) \/ DescribeExisting(o)
  BY <1>1, <1>2, <1>3, <1>9, SMTT(30) DEF DescribePrior, FindStarted, DescribeOwn, DescribeExisting, Operator, Latest
<1>10. CASE Claim(o)
  <2>1. entry.attempts + 1 \in 0..MaxClaims
    BY <1>10, Bounds DEF Claim, Entry
  <2>2. [Idle EXCEPT !.pc = "probe", !.want = op[o].want, !.token = entry.attempts + 1] \in Operator
    BY <1>1, <1>3, <2>1 DEF Operator
  <2> QED
    BY <1>4, <1>10, <2>2 DEF Claim
<1>11. CASE Probe(o)
  BY <1>1, <1>2, <1>4, <1>11 DEF Probe, Operator, Latest
<1>12. CASE Start(o)
  BY <1>1, <1>2, <1>12 DEF Start, StartsRecovery, Operator, Latest
<1> QED
  BY <1>6, <1>7, <1>8, <1>9, <1>10, <1>11, <1>12 DEF OperatorStep

\* Which steps of an operator reach a claim or a start, and which write.
LEMMA Moves ==
  ASSUME Shape, Counted, NEW o \in Operators, OperatorStep(o)
  PROVE  /\ op'[o].pc \in Claiming /\ op[o].pc \notin Claiming => Project(o)
         /\ op'[o].pc \in {"probe", "start"} /\ op[o].pc \notin {"probe", "start"} => Claim(o)
         /\ op'[o].pc \in Claimants /\ op[o].pc \notin Claimants => Claim(o)
         /\ op'[o].pc \in Claimants /\ ~Claim(o) => op'[o].token = op[o].token /\ op'[o].want = op[o].want
         /\ op[o].pc = "failure" => op'[o].pc = "idle"
         /\ op[o].pc = "record" => Record(o) \/ RecordLate(o) \/ Crash(o)
         /\ entry' # entry => Claim(o) \/ Record(o) \/ RecordFailure(o)
         /\ exec' # exec => /\ StartsRecovery(o) /\ op'[o].pc \notin {"probe", "start"}
                            /\ Start(o) \/ StartAnswerLost(o)
         /\ faults' \in {faults, faults + 1} /\ (faults' # faults => faults < MaxFaults)
         /\ row' # row => row' = "completed"
         /\ cycle' # cycle => cycle' = "running"
<1> USE DEF Claiming, Claimants, Describes, Goto, Done, OnlyOp, Operator
<1>1. /\ op \in [Operators -> Operator] /\ op[o] \in Operator /\ Idle.pc = "idle"
      /\ faults \in Nat
  BY StageRunRecoveryAssumption DEF Idle, Shape
<1>2. CASE Recover(o)
  <2>1. op'[o].pc \in {"describeOriginal", "project"}
    BY <1>1, <1>2 DEF Recover, Reading, Idle
  <2> QED
    BY <1>2, <2>1 DEF Recover
<1>3. CASE DescribeOriginal(o) \/ RefuseCloseout(o) \/ RefuseClaim(o)
  BY <1>1, <1>3 DEF DescribeOriginal, RefuseCloseout, RefuseClaim
<1>4. CASE Close(o)
  <2>1. [op[o] EXCEPT !.pc = "project"] \in Operator
    BY <1>1
  <2>2. op'[o].pc \in {"idle", "project"}
    BY <1>1, <1>4, <2>1, ReadingKeeps DEF Close
  <2> QED
    BY <1>4, <2>2 DEF Close
<1>5. CASE Project(o)
  BY <1>1, <1>5 DEF Project
<1>6. CASE DescribePrior(o) \/ FindStarted(o) \/ DescribeOwn(o)
  BY <1>1, <1>6 DEF DescribePrior, FindStarted, DescribeOwn
<1>7. CASE Claim(o)
  BY <1>1, <1>7 DEF Claim, Idle
<1>8. CASE Probe(o)
  BY <1>1, <1>8 DEF Probe
<1>9. CASE Start(o) \/ StartAnswerLost(o)
  BY <1>1, <1>9 DEF Start, StartAnswerLost, StartsRecovery, Fault
<1>10. CASE AlreadyStarted(o) \/ DescribeExisting(o)
  BY <1>1, <1>10 DEF AlreadyStarted, DescribeExisting
<1>11. CASE Record(o) \/ RecordLate(o) \/ RecordFailure(o)
  BY <1>1, <1>11 DEF Record, RecordLate, RecordFailure
<1>12. CASE RpcFails(o) \/ Crash(o)
  BY <1>1, <1>12 DEF RpcFails, Crash, Fault
<1> QED
  BY <1>2, <1>3, <1>4, <1>5, <1>6, <1>7, <1>8, <1>9, <1>10, <1>11, <1>12 DEF OperatorStep

\* What a step of an operator does to the executions.
LEMMA ExecKept ==
  ASSUME Shape, Counted, NEW o \in Operators, OperatorStep(o)
  PROVE  /\ Len(exec') \in Nat /\ Len(exec') >= Len(exec)
         /\ \A i \in 1..Len(exec) : exec'[i] = exec[i]
         /\ exec' # exec => /\ Len(exec') = Len(exec) + 1 /\ ~exec[Len(exec)].running
                            /\ exec'[Len(exec')].resume = op[o].want
         /\ exec' \in Seq([resume : Resume \cup {Original}, running : BOOLEAN])
<1>1. exec \in Seq([resume : Resume \cup {Original}, running : BOOLEAN]) /\ Len(exec) \in Nat
  BY DEF Shape
<1>2. CASE exec' = exec
  BY <1>1, <1>2
<1>3. CASE exec' # exec
  <2>1. StartsRecovery(o)
    BY <1>3, Moves
  <2>2. exec' = Append(exec, [resume |-> op[o].want, running |-> TRUE]) /\ ~exec[Len(exec)].running
    BY <2>1 DEF StartsRecovery, Running, Latest
  <2>3. [resume |-> op[o].want, running |-> TRUE] \in [resume : Resume \cup {Original}, running : BOOLEAN]
    BY DEF Shape, Operator
  <2> QED
    BY <1>1, <2>2, <2>3
<1> QED
  BY <1>2, <1>3

LEMMA EndKeepsLength ==
  ASSUME Shape, LeaseExpires \/ Terminalize \/ ExecutionEnds \/ UNCHANGED vars
  PROVE  /\ exec' \in Seq([resume : Resume \cup {Original}, running : BOOLEAN])
         /\ Len(exec') = Len(exec)
<1>1. CASE ExecutionEnds
  <2> DEFINE Run == [resume : Resume \cup {Original}, running : BOOLEAN]
             e == [exec[Len(exec)] EXCEPT !.running = FALSE]
  <2>1. exec' = [exec EXCEPT ![Len(exec)] = e]
    BY <1>1 DEF ExecutionEnds, Latest
  <2>2. exec \in Seq(Run) /\ Len(exec) \in 1..Len(exec)
    BY DEF Shape
  <2>3. \A x \in Run : [x EXCEPT !.running = FALSE] \in Run
    OBVIOUS
  <2> HIDE DEF Run, e
  <2>4. exec[Len(exec)] \in Run
    BY <2>2
  <2>5. e \in Run
    BY <2>3, <2>4 DEF e
  <2>6. [exec EXCEPT ![Len(exec)] = e] \in Seq(Run) /\ Len([exec EXCEPT ![Len(exec)] = e]) = Len(exec)
    BY <2>2, <2>5, ExceptSeq
  <2> QED
    BY <2>1, <2>6 DEF Run
<1>2. CASE exec' = exec
  BY <1>2 DEF Shape
<1> QED
  BY <1>1, <1>2 DEF LeaseExpires, Terminalize, vars

LEMMA ShapeStep ==
  ASSUME Shape, Counted, [Next]_vars
  PROVE  Shape' /\ Counted'
<1> USE StageRunRecoveryAssumption
<1>1. ASSUME NEW o \in Operators, OperatorStep(o)
      PROVE  Shape' /\ Counted'
  <2> USE <1>1
  <2>1. /\ op'[o] \in Operator /\ op' = [op EXCEPT ![o] = op'[o]] /\ op \in [Operators -> Operator]
        /\ \A p \in Operators \ {o} : op'[p] = op[p]
    BY OperatorShape DEF Shape
  <2>2. /\ entry.attempts \in Nat /\ Len(exec) \in Nat
        /\ IsFiniteSet(Claimers) /\ IsFiniteSet(Starters)
        /\ Cardinality(Claimers) \in Nat /\ Cardinality(Starters) \in Nat
    BY Finite, FS_CardinalityType DEF Shape, Entry
  <2>3. entry' \in Entry
    <3>1. op[o].want \in Resume \cup {Original} /\ op[o].seen \in RunRef /\ entry.receipt \in RunRef
      BY DEF Shape, Operator, Entry
    <3>2. CASE Claim(o)
      <4>1. entry.attempts + 1 \in 0..MaxClaims
        BY <3>2, <2>2, Bounds DEF Claim, Claiming
      <4>2. entry.history \cup Evidence(op[o]) \in SUBSET RunRef
        BY <3>1 DEF Evidence, Shape, Entry
      <4>3. NoRun \in RunRef
        BY DEF NoRun, RunRef
      <4>4. ClaimedEntry(op[o]) \in Entry
        BY <3>1, <4>1, <4>2, <4>3 DEF ClaimedEntry, Entry
      <4> QED
        BY <3>2, <4>4 DEF Claim
    <3>3. CASE Record(o) \/ RecordFailure(o)
      <4>1. /\ 0 \in 0..MaxClaims /\ entry \in Entry
            /\ \/ entry' = [entry EXCEPT !.status = "started", !.token = 0, !.leased = FALSE,
                                         !.receipt = op[o].seen]
               \/ entry' = [entry EXCEPT !.status = "start_failed", !.token = 0, !.leased = FALSE]
               \/ entry' = entry
        BY <3>3 DEF Record, RecordFailure, Shape
      <4> QED
        BY <3>1, <4>1 DEF Entry
    <3> QED
      BY <3>2, <3>3, Moves DEF Shape
  <2>a. /\ row' \in {"started", "completed", "blocked"} /\ cycle' \in {"running", "ended"}
        /\ faults' \in 0..MaxFaults
    BY Moves DEF Shape
  <2>b. exec' \in Seq([resume : Resume \cup {Original}, running : BOOLEAN]) /\ Len(exec') >= 1
    BY ExecKept DEF Shape
  <2>4. Shape'
    BY <2>1, <2>3, <2>a, <2>b DEF Shape
  <2>5. CASE Claim(o)
    <3>1. Claimers' \subseteq Claimers \ {o} /\ o \in Claimers /\ Starters' \subseteq Starters \cup {o}
      BY <2>1, <2>5 DEF Claim, Claimers, Starters, Claiming, Idle
    <3>2. /\ Cardinality(Claimers') \in Nat /\ Cardinality(Claimers') + 1 <= Cardinality(Claimers)
          /\ Cardinality(Starters') \in Nat /\ Cardinality(Starters') <= Cardinality(Starters) + 1
      BY <2>2, <3>1, CountOneLess, CountOneMore
    <3>3. entry'.attempts = entry.attempts + 1 /\ exec' = exec
      BY <2>5 DEF Claim, ClaimedEntry
    <3> QED
      BY <2>2, <2>4, <3>2, <3>3, SMTT(30) DEF Counted
  <2>6. CASE ~Claim(o)
    <3>1. entry'.attempts = entry.attempts
      BY <2>6, Moves DEF Record, RecordFailure, Shape, Entry
    <3>2. entry'.attempts + Cardinality(Claimers') <= MaxClaims
      <4>1. CASE Project(o)
        <5>1. Claimers' \subseteq Claimers \cup {o}
          BY <2>1 DEF Claimers
        <5>2. Cardinality(Claimers') \in Nat /\ Cardinality(Claimers') <= Cardinality(Claimers) + 1
          BY <2>2, <5>1, CountOneMore
        <5>3. entry.attempts + Cardinality(Claimers) < MaxClaims
          BY <4>1 DEF Project, Claimers
        <5> QED
          BY <2>2, <3>1, <5>2, <5>3
      <4>2. CASE ~Project(o)
        <5>1. Claimers' \subseteq Claimers
          BY <2>1, <4>2, Moves DEF Claimers
        <5>2. Cardinality(Claimers') \in Nat /\ Cardinality(Claimers') <= Cardinality(Claimers)
          BY <2>2, <5>1, CountLess
        <5> QED
          BY <2>2, <3>1, <5>2 DEF Counted
      <4> QED
        BY <4>1, <4>2
    <3>3. Len(exec') + Cardinality(Starters') <= entry'.attempts + 1
      <4>1. Starters' \subseteq Starters
        BY <2>1, <2>6, Moves DEF Starters
      <4>2. Cardinality(Starters') \in Nat /\ Cardinality(Starters') <= Cardinality(Starters)
        BY <2>2, <4>1, CountLess
      <4>3. CASE exec' # exec
        <5>1. o \in Starters /\ Starters' \subseteq Starters \ {o}
          BY <4>1, <4>3, Moves DEF Starters, StartsRecovery
        <5>2. Cardinality(Starters') + 1 <= Cardinality(Starters)
          BY <2>2, <5>1, CountOneLess
        <5> QED
          BY <2>2, <3>1, <4>2, <4>3, <5>2, ExecKept DEF Counted
      <4> QED
        BY <2>2, <3>1, <4>2, <4>3 DEF Counted
    <3> QED
      BY <2>4, <3>2, <3>3 DEF Counted
  <2> QED
    BY <2>4, <2>5, <2>6
<1>2. ASSUME LeaseExpires \/ Terminalize \/ ExecutionEnds \/ UNCHANGED vars
      PROVE  Shape' /\ Counted'
  <2>1. op' = op /\ entry'.attempts = entry.attempts /\ entry' \in Entry
    BY <1>2 DEF LeaseExpires, Terminalize, ExecutionEnds, vars, Shape, Entry
  <2>2. Claimers' = Claimers /\ Starters' = Starters
    BY <2>1 DEF Claimers, Starters
  <2>3. /\ exec' \in Seq([resume : Resume \cup {Original}, running : BOOLEAN])
        /\ Len(exec') = Len(exec)
    BY <1>2, EndKeepsLength
  <2>4. /\ row' \in {"started", "completed", "blocked"} /\ cycle' \in {"running", "ended"}
        /\ faults' \in 0..MaxFaults
    BY <1>2 DEF LeaseExpires, Terminalize, ExecutionEnds, Fault, vars, Shape
  <2> QED
    BY <2>1, <2>2, <2>3, <2>4 DEF Shape, Counted
<1> QED
  BY <1>1, <1>2 DEF Next

-----------------------------------------------------------------------------
(* Executions, the entry and what operators carry. *)

LEMMA ExecutionsStay ==
  ASSUME Shape, Counted, [Next]_vars
  PROVE  /\ Len(exec') \in Nat /\ Len(exec) \in Nat /\ Len(exec') >= Len(exec)
         /\ \A i \in 1..Len(exec) : /\ exec'[i].resume = exec[i].resume
                                    /\ ~exec[i].running => ~exec'[i].running
<1>1. ASSUME NEW o \in Operators, OperatorStep(o)
      PROVE  /\ Len(exec') \in Nat /\ Len(exec') >= Len(exec)
             /\ \A i \in 1..Len(exec) : exec'[i] = exec[i]
  BY <1>1, ExecKept
<1>2. CASE ExecutionEnds
  <2>1. /\ exec' = [exec EXCEPT ![Len(exec)].running = FALSE]
        /\ exec \in Seq([resume : Resume \cup {Original}, running : BOOLEAN])
    BY <1>2 DEF ExecutionEnds, Latest, Shape
  <2> QED
    BY <2>1
<1>3. CASE exec' = exec
  BY <1>3 DEF Shape
<1> QED
  BY <1>1, <1>2, <1>3 DEF Next, LeaseExpires, Terminalize, vars, Shape

LEMMA SightingsStay ==
  ASSUME Shape, Counted, [Next]_vars
  PROVE  /\ \A i : Ended(i) => Ended(i)'
         /\ \A i, id : Its(i, id) => Its(i, id)'
BY ExecutionsStay DEF Ended, Its

LEMMA OneRunsStep ==
  ASSUME Shape, Counted, OneRuns, [Next]_vars
  PROVE  OneRuns'
<1>1. exec'[1].resume = Original
  BY ExecutionsStay DEF OneRuns, Shape
<1>2. ASSUME NEW o \in Operators, OperatorStep(o)
      PROVE  \A i \in 1..Len(exec') - 1 : ~exec'[i].running
  BY <1>2, ExecKept DEF OneRuns, Shape
<1>3. CASE LeaseExpires \/ Terminalize \/ ExecutionEnds \/ UNCHANGED vars
  <2>1. Len(exec') = Len(exec)
    BY <1>3, EndKeepsLength
  <2> QED
    BY <1>1, <2>1, ExecutionsStay DEF OneRuns
<1> QED
  BY <1>1, <1>2, <1>3 DEF Next, OneRuns

\* What an operator carries after its own step.
LEMMA CarriesStep ==
  ASSUME Shape, Counted, OneRuns, EntryFits, NEW o \in Operators, Carries(o), OperatorStep(o)
  PROVE  Carries(o)'
<1> USE DEF Goto, Done, OnlyOp
<1>1. /\ op \in [Operators -> Operator] /\ op[o] \in Operator /\ Idle.pc = "idle" /\ Idle.seen = NoRun
      /\ Idle \in Operator /\ Len(exec) \in Nat /\ Len(exec) >= 1
  BY StageRunRecoveryAssumption DEF Idle, Shape, Operator, RunRef, NoRun
<1>2. CASE op'[o].pc = "idle"
  BY <1>2 DEF Carries
<1>3. CASE Recover(o)
  <2>1. PICK w \in Resume, flag \in BOOLEAN :
          op'[o] = Reading([Idle EXCEPT !.want = w, !.retry = flag,
                  !.pc = IF row = "started" THEN "describeOriginal" ELSE "project"])
    BY <1>1, <1>3 DEF Recover
  <2> DEFINE c == [Idle EXCEPT !.want = w, !.retry = flag,
                    !.pc = IF row = "started" THEN "describeOriginal" ELSE "project"]
  <2>2. c \in Operator
    BY <1>1 DEF Operator, Describes
  <2>a. c.seen = NoRun /\ c.want = w /\ c.pc \in {"describeOriginal", "project"}
    BY DEF Idle
  <2>3. op'[o].seen = NoRun /\ op'[o].want \in Resume /\ op'[o].pc \in {"describeOriginal", "project"}
    BY <2>1, <2>2, <2>a, ReadingKeeps, ZenonT(40)
  <2> QED
    BY <2>3 DEF Carries
<1>4. CASE DescribeOriginal(o) \/ RefuseCloseout(o) \/ Project(o)
  BY <1>1, <1>4 DEF DescribeOriginal, RefuseCloseout, Project, Carries, Operator
<1>5. CASE Close(o)
  <2> DEFINE c == [op[o] EXCEPT !.pc = "project"]
  <2>1. c \in Operator /\ c.seen = op[o].seen /\ c.want = op[o].want /\ c.pc = "project"
    BY <1>1 DEF Operator
  <2>2. \/ op'[o].pc = "idle"
        \/ op'[o].seen = NoRun /\ op'[o].want \in Resume /\ op'[o].pc = "project"
    BY <1>1, <1>5, <2>1, ReadingKeeps DEF Close, Carries
  <2> QED
    BY <2>2 DEF Carries
<1>6. CASE DescribePrior(o) \/ DescribeOwn(o) \/ FindStarted(o) \/ RefuseClaim(o)
  BY <1>1, <1>6 DEF DescribePrior, DescribeOwn, FindStarted, RefuseClaim, Carries, Operator, Ended, Latest, Running
<1>7. CASE Claim(o)
  BY <1>1, <1>7 DEF Claim, Carries, Operator
<1>8. CASE Probe(o) \/ DescribeExisting(o)
  <2>1. \/ op'[o].pc \in {"start", "failure"} /\ op'[o].want = op[o].want
        \/ /\ op'[o].pc = "record" /\ op'[o].want = op[o].want /\ op'[o].seen = Len(exec)
           /\ exec[Len(exec)].resume.id = op[o].want.id
    <3>1. CASE DescribeExisting(o)
      BY <1>1, <3>1 DEF DescribeExisting, Recovers, Latest, Operator
    <3>2. CASE Probe(o)
      <4>1. op'[o] = IF ~Running THEN [op[o] EXCEPT !.pc = "start"]
                     ELSE IF Recovers(op[o].want.id) THEN [op[o] EXCEPT !.pc = "record", !.seen = Len(exec)]
                     ELSE [op[o] EXCEPT !.pc = "failure"]
        BY <1>1, <3>2 DEF Probe, Latest
      <4> QED
        BY <1>1, <4>1 DEF Recovers, Latest, Operator
    <3> QED
      BY <1>8, <3>1, <3>2
  <2>2. op[o].want \in Resume
    BY <1>8 DEF Probe, DescribeExisting, Carries
  <2>3. op[o].want.id # Original.id
    BY <2>2, StageRunRecoveryAssumption DEF Original
  <2>4. exec' = exec
    BY <1>8 DEF Probe, DescribeExisting
  <2> QED
    BY <1>1, <2>1, <2>2, <2>3, <2>4 DEF Carries, Its, OneRuns
<1>9. CASE Start(o)
  <2>1. exec' = Append(exec, [resume |-> op[o].want, running |-> TRUE])
    BY <1>9 DEF Start, StartsRecovery
  <2>2. op'[o].pc = "record" /\ op'[o].want = op[o].want /\ op'[o].seen = Len(exec) + 1
    BY <1>1, <1>9 DEF Start, Latest, Operator
  <2>3. op[o].want \in Resume
    BY <1>9 DEF Start, StartsRecovery, Carries
  <2> QED
    BY <1>1, <2>1, <2>2, <2>3 DEF Carries, Its, Shape
<1>10. CASE AlreadyStarted(o) \/ Record(o) \/ RecordLate(o) \/ RecordFailure(o)
            \/ RpcFails(o) \/ StartAnswerLost(o) \/ Crash(o)
  <2>1. op'[o].pc \in {"idle", "describeExisting", "failure"} /\ (op'[o].pc = "idle" \/ op'[o].want = op[o].want)
        /\ op[o].pc # "idle"
    BY <1>1, <1>10 DEF AlreadyStarted, Record, RecordLate, RecordFailure, RpcFails, StartAnswerLost, Crash,
       StartsRecovery, Operator, Describes
  <2> QED
    BY <2>1 DEF Carries
<1> QED
  BY <1>3, <1>4, <1>5, <1>6, <1>7, <1>8, <1>9, <1>10 DEF OperatorStep

LEMMA CarriedStep ==
  ASSUME Shape, Counted, OneRuns, EntryFits, Carried, [Next]_vars
  PROVE  Carried'
<1>1. ASSUME NEW o \in Operators, op'[o] = op[o]
      PROVE  Carries(o)'
  BY <1>1, SightingsStay DEF Carried, Carries
<1>2. ASSUME NEW o \in Operators, OperatorStep(o)
      PROVE  Carried'
  <2>1. Carries(o)'
    BY <1>2, CarriesStep DEF Carried
  <2>2. \A p \in Operators \ {o} : op'[p] = op[p]
    BY <1>2, OperatorShape DEF Shape
  <2> QED
    BY <1>1, <2>1, <2>2 DEF Carried
<1>3. CASE op' = op
  BY <1>1, <1>3 DEF Carried
<1> QED
  BY <1>2, <1>3 DEF Next, LeaseExpires, Terminalize, ExecutionEnds, vars

\* The entry's token is fresh at a claim and gone when its claimant is done.
LEMMA EntryStep ==
  ASSUME Shape, Counted, EntryFits, Carried, Tokens, [Next]_vars
  PROVE  EntryFits' /\ Tokens'
<1>0. /\ entry \in Entry /\ entry.attempts \in Nat /\ entry.token \in Nat /\ op \in [Operators -> Operator]
      /\ MaxClaims \in Nat
  BY StageRunRecoveryAssumption DEF Shape, Entry
<1>1. ASSUME NEW o \in Operators, OperatorStep(o)
      PROVE  EntryFits' /\ Tokens'
  <2> USE <1>1
  <2>1. \A p \in Operators \ {o} : op'[p] = op[p]
    BY OperatorShape DEF Shape
  <2>2. CASE Claim(o)
    <3>1. /\ entry'.attempts = entry.attempts + 1 /\ entry'.token = entry.attempts + 1
          /\ entry'.resume = op[o].want /\ entry'.status = "starting" /\ entry'.receipt = NoRun
      BY <2>2 DEF Claim, ClaimedEntry
    <3>2. op'[o].token = entry.attempts + 1 /\ op'[o].want = op[o].want
      BY <1>0, <2>2 DEF Claim, Idle
    <3>3. EntryFits'
      BY <1>0, <3>1 DEF EntryFits
    <3>4. \A p \in Operators \ {o} : op[p].pc \in Claimants => op[p].token \in 1..entry.attempts
      BY DEF Tokens
    <3>5. Tokens'
      BY <1>0, <2>1, <3>1, <3>2, <3>4 DEF Tokens
    <3> QED
      BY <3>3, <3>5
  <2>3. CASE ~Claim(o)
    <3>1. op'[o].pc \in Claimants =>
            op[o].pc \in Claimants /\ op'[o].token = op[o].token /\ op'[o].want = op[o].want
      BY <2>3, Moves
    <3>2. \/ entry' = entry
          \/ /\ entry'.token = 0 /\ ~entry'.leased /\ entry'.attempts = entry.attempts
             /\ \/ entry'.status = "started" /\ entry'.receipt # NoRun
                \/ entry'.status = "start_failed" /\ entry'.receipt = NoRun
      <4>1. CASE Record(o)
        <5>1. op[o].seen # NoRun
          BY <4>1 DEF Record, Carried, Carries, Its, NoRun
        <5> QED
          BY <1>0, <4>1, <5>1 DEF Record, Entry
      <4>2. CASE RecordFailure(o)
        BY <1>0, <4>2 DEF RecordFailure, Holds, EntryFits, Entry
      <4> QED
        BY <2>3, <4>1, <4>2, Moves
    <3>3. EntryFits'
      BY <1>0, <3>2 DEF EntryFits
    <3>4. entry'.attempts = entry.attempts /\ (entry'.token = 0 \/ entry' = entry)
      BY <3>2
    <3>5. Tokens'
      BY <1>0, <2>1, <3>1, <3>4 DEF Tokens
    <3> QED
      BY <3>3, <3>5
  <2> QED
    BY <2>2, <2>3
<1>2. CASE LeaseExpires \/ Terminalize \/ ExecutionEnds \/ UNCHANGED vars
  <2>1. op' = op /\ (entry' = entry \/ entry' = [entry EXCEPT !.leased = FALSE])
    BY <1>2 DEF LeaseExpires, Terminalize, ExecutionEnds, vars
  <2> QED
    BY <1>0, <2>1 DEF EntryFits, Tokens, Entry
<1> QED
  BY <1>1, <1>2 DEF Next

LEMMA BoundStep ==
  ASSUME Shape, Counted, OneRuns, EntryFits, Carried, BoundToItsOwn, [Next]_vars
  PROVE  BoundToItsOwn'
<1> USE DEF BoundToItsOwn, Latest
<1>1. CASE \E o \in Operators : Record(o)
  <2>1. PICK o \in Operators : Record(o)
    BY <1>1
  <2>2. Its(op[o].seen, op[o].want.id) /\ entry.resume.id = op[o].want.id
    BY <2>1 DEF Record, Holds, Carried, Carries
  <2>3. entry'.receipt = op[o].seen /\ entry'.resume = entry.resume /\ exec' = exec
    BY <2>1 DEF Record, Shape, Entry
  <2> QED
    BY <2>2, <2>3 DEF Its
<1>2. CASE entry'.status # "started"
  BY <1>2
<1>3. CASE entry'.status = entry.status /\ entry'.receipt = entry.receipt /\ entry'.resume = entry.resume
  BY <1>3, ExecutionsStay
<1>4. ASSUME NEW o \in Operators, OperatorStep(o), ~Record(o)
      PROVE  entry' = entry \/ entry'.status # "started"
  <2>1. entry' = entry \/ Claim(o) \/ RecordFailure(o)
    BY <1>4, Moves
  <2>2. RecordFailure(o) => entry' = entry \/ entry' = [entry EXCEPT !.status = "start_failed", !.token = 0,
                                                                     !.leased = FALSE]
    BY DEF RecordFailure
  <2>3. Claim(o) => entry'.status # "started"
    BY DEF Claim, ClaimedEntry
  <2> QED
    BY <2>1, <2>2, <2>3 DEF Shape, Entry
<1>5. CASE LeaseExpires \/ Terminalize \/ ExecutionEnds \/ UNCHANGED vars
  <2>1. entry' = entry \/ entry' = [entry EXCEPT !.leased = FALSE]
    BY <1>5 DEF LeaseExpires, Terminalize, ExecutionEnds, vars
  <2> QED
    BY <1>3, <2>1 DEF Shape, Entry
<1> QED
  BY <1>1, <1>2, <1>3, <1>4, <1>5 DEF Next

-----------------------------------------------------------------------------
(* What is lost is charged to a fault. *)

\* A step of an operator that is no claim outlives nobody's lease.
LEMMA OutlivedShrinks ==
  ASSUME RecoveryInv, NEW o \in Operators, OperatorStep(o)
  PROVE  Outlived' \subseteq Outlived
<1> USE DEF RecoveryInv
<1>1. \A p \in Operators \ {o} : op'[p] = op[p]
  BY OperatorShape DEF Shape
<1>2. CASE Claim(o)
  <2>1. ~entry.leased
    BY <1>2 DEF Claim, Admits, EntryFits
  <2>2. entry'.leased /\ entry'.token = op'[o].token
    BY <1>2 DEF Claim, ClaimedEntry, Idle, Shape
  <2> QED
    BY <1>1, <2>1, <2>2 DEF Outlived
<1>3. CASE ~Claim(o)
  <2>1. op'[o].pc \in Claimants \ {"failure"} =>
          op[o].pc \in Claimants \ {"failure"} /\ op'[o].token = op[o].token
    BY <1>3, Moves DEF Claimants
  <2>2. CASE entry' = entry
    BY <1>1, <2>1, <2>2 DEF Outlived
  <2>3. CASE entry' # entry
    <3>1. op[o].pc \in Claimants /\ Holds(o) /\ op'[o].pc = "idle"
      <4>1. Record(o) \/ RecordFailure(o)
        BY <1>3, <2>3, Moves
      <4> QED
        BY <2>3, <4>1 DEF Record, RecordFailure, Claimants, Done, Idle, Shape
    <3>2. \A p \in Operators \ {o} : op[p].pc \in Claimants => op[p].token # entry.token
      BY <3>1 DEF Tokens, Holds
    <3> QED
      BY <1>1, <3>1, <3>2 DEF Outlived, Claimants
  <2> QED
    BY <2>2, <2>3
<1> QED
  BY <1>2, <1>3

\* Only an operator on its way to record an execution can lose it.
LEMMA LostGrowsByOne ==
  ASSUME RecoveryInv, NEW o \in Operators, OperatorStep(o)
  PROVE  /\ ~RecordLate(o) /\ ~Crash(o) /\ ~StartAnswerLost(o) => Lost' \subseteq Lost
         /\ \E x : Lost' \subseteq Lost \cup {x}
         /\ RecordLate(o) => Lost' \subseteq Lost \/ (o \in Outlived /\ o \notin Outlived')
<1> USE DEF RecoveryInv
<1>1. /\ \A p \in Operators \ {o} : op'[p] = op[p]
      /\ op \in [Operators -> Operator] /\ Len(exec) \in Nat
  BY OperatorShape DEF Shape
<1>2. CASE Claim(o)
  <2>1. exec' = exec /\ entry'.receipt = NoRun /\ entry'.history = entry.history \cup Evidence(op[o])
    BY <1>2 DEF Claim, ClaimedEntry
  <2>2. entry.receipt # NoRun => entry.receipt \in entry'.history
    BY <1>2, <2>1 DEF Claim, Admits, Observed, Evidence, EntryFits
  <2>3. op[o].pc = "claim" /\ op'[o].pc = "probe"
    BY <1>1, <1>2 DEF Claim, Idle
  <2>4. Lost' \subseteq Lost
    BY <1>1, <2>1, <2>2, <2>3 DEF Lost, Latest, NoRun
  <2> QED
    BY <2>3, <2>4 DEF RecordLate
<1>3. CASE Record(o)
  <2>1. entry'.receipt = op[o].seen /\ entry'.history = entry.history /\ entry.receipt = NoRun /\ exec' = exec
        /\ op[o].pc = "record" /\ op'[o].pc = "idle"
    BY <1>1, <1>3 DEF Record, Holds, EntryFits, Done, Idle, Shape, Entry
  <2>2. Lost' \subseteq Lost
    BY <1>1, <2>1 DEF Lost, Latest, NoRun
  <2> QED
    BY <2>2
<1>4. CASE StartsRecovery(o)
  <2>1. exec' = Append(exec, [resume |-> op[o].want, running |-> TRUE])
    BY <1>4 DEF StartsRecovery
  <2>a. op[o].pc = "start"
    BY <1>4 DEF StartsRecovery
  <2>b. Len(exec') = Len(exec) + 1
    BY <2>1 DEF Shape
  <2>2. Len(exec') = Len(exec) + 1 /\ op[o].pc = "start" /\ entry' = entry
    BY <2>a, <2>b, Moves DEF Claim, Record, RecordFailure
  <2>3. Lost' \subseteq Lost \cup {Len(exec) + 1}
    BY <1>1, <2>2 DEF Lost, Latest
  <2>4. CASE Start(o)
    <3>1. op'[o].pc = "record" /\ op'[o].seen = Len(exec')
      BY <1>1, <2>2, <2>4 DEF Start, Latest, Shape, Operator
    <3> QED
      BY <2>2, <2>3, <3>1 DEF Lost, Latest, RecordLate
  <2>5. Start(o) \/ StartAnswerLost(o)
    BY <2>2, Moves DEF Shape
  <2> QED
    BY <2>2, <2>3, <2>4, <2>5 DEF RecordLate
<1>5. CASE ~Claim(o) /\ ~Record(o) /\ ~StartsRecovery(o)
  <2>1. exec' = exec /\ entry'.receipt = entry.receipt /\ entry'.history = entry.history
    BY <1>5, Moves DEF RecordFailure, Shape, Entry
  <2>2. Lost' \subseteq Lost \cup {op[o].seen}
    BY <1>1, <2>1 DEF Lost, Latest
  <2>3. op[o].pc # "record" => Lost' \subseteq Lost
    BY <1>1, <2>1 DEF Lost, Latest
  <2>4. CASE RecordLate(o)
    <3>1. CASE entry.status = "started" /\ entry.resume.id = op[o].want.id /\ entry.receipt = op[o].seen
      BY <1>1, <2>1, <2>2, <2>4, <3>1 DEF Lost, Latest
    <3>2. CASE ~(entry.status = "started" /\ entry.resume.id = op[o].want.id /\ entry.receipt = op[o].seen)
      <4>1. op[o].pc = "record" /\ ~Holds(o) /\ op'[o].pc = "failure"
        BY <1>1, <2>4, <3>2 DEF RecordLate, Goto, Shape, Operator
      <4>2. ~(entry.leased /\ entry.token = op[o].token)
        BY <4>1 DEF Tokens, Holds, EntryFits, Claimants
      <4> QED
        BY <2>2, <2>4, <4>1, <4>2 DEF Outlived, Claimants, RecordLate, Crash, StartAnswerLost, StartsRecovery
    <3> QED
      BY <3>1, <3>2
  <2> QED
    BY <1>5, <2>2, <2>3, <2>4, Moves
<1> QED
  BY <1>2, <1>3, <1>4, <1>5

LEMMA ChargedStep ==
  ASSUME RecoveryInv, [Next]_vars
  PROVE  Charged'
<1> USE DEF RecoveryInv
<1>1. /\ IsFiniteSet(Lost) /\ IsFiniteSet(Outlived)
      /\ Cardinality(Lost) \in Nat /\ Cardinality(Outlived) \in Nat /\ faults \in Nat
  BY Finite, FS_CardinalityType, StageRunRecoveryAssumption DEF Shape
<1>2. ASSUME NEW o \in Operators, OperatorStep(o)
      PROVE  Charged'
  <2> USE <1>2
  <2>1. /\ Cardinality(Outlived') \in Nat /\ Cardinality(Outlived') <= Cardinality(Outlived)
    BY <1>1, OutlivedShrinks, CountLess
  <2>2. PICK x : Lost' \subseteq Lost \cup {x}
    BY LostGrowsByOne
  <2>3. Cardinality(Lost') \in Nat /\ Cardinality(Lost') <= Cardinality(Lost) + 1
    BY <1>1, <2>2, CountOneMore
  <2>4. faults' \in {faults, faults + 1}
    BY Moves
  <2>5. CASE Lost' \subseteq Lost
    <3>1. Cardinality(Lost') <= Cardinality(Lost)
      BY <1>1, <2>5, CountLess
    <3> QED
      BY <1>1, <2>1, <2>3, <2>4, <3>1 DEF Charged
  <2>6. CASE RecordLate(o) /\ o \in Outlived /\ o \notin Outlived'
    <3>1. Outlived' \subseteq Outlived \ {o}
      BY <2>6, OutlivedShrinks
    <3>2. Cardinality(Outlived') + 1 <= Cardinality(Outlived)
      BY <1>1, <2>6, <3>1, CountOneLess
    <3> QED
      BY <1>1, <2>1, <2>3, <2>4, <3>2 DEF Charged
  <2>7. CASE Crash(o) \/ StartAnswerLost(o)
    <3>1. faults' = faults + 1
      BY <2>7 DEF Crash, StartAnswerLost, Fault
    <3> QED
      BY <1>1, <2>1, <2>3, <3>1 DEF Charged
  <2> QED
    BY <2>5, <2>6, <2>7, LostGrowsByOne
<1>3. CASE LeaseExpires
  <2>1. /\ op' = op /\ exec' = exec /\ entry.leased /\ ~entry'.leased
        /\ entry'.receipt = entry.receipt /\ entry'.history = entry.history /\ entry'.token = entry.token
    BY <1>3 DEF LeaseExpires, Shape, Entry
  <2>2. Lost' = Lost
    BY <2>1 DEF Lost, Latest
  <2>3. CASE \E o \in Operators : op[o].pc \in Claimants /\ op[o].token = entry.token
    <3>1. PICK o \in Operators : op[o].pc \in Claimants /\ op[o].token = entry.token
      BY <2>3
    <3>2. \A p \in Operators \ {o} : op[p].pc \in Claimants => op[p].token # entry.token
      BY <3>1 DEF Tokens
    <3>3. Outlived' \subseteq Outlived \cup {o}
      BY <2>1, <3>2 DEF Outlived
    <3>4. Cardinality(Outlived') \in Nat /\ Cardinality(Outlived') <= Cardinality(Outlived) + 1
      BY <1>1, <3>3, CountOneMore
    <3>5. faults' = faults + 1
      BY <1>3, <2>3 DEF LeaseExpires, Fault
    <3> QED
      BY <1>1, <2>2, <3>4, <3>5 DEF Charged
  <2>4. CASE ~\E o \in Operators : op[o].pc \in Claimants /\ op[o].token = entry.token
    <3>1. Outlived' = Outlived
      BY <2>1, <2>4 DEF Outlived
    <3> QED
      BY <1>3, <2>2, <2>4, <3>1 DEF Charged, LeaseExpires
  <2> QED
    BY <2>3, <2>4
<1>4. CASE Terminalize \/ ExecutionEnds \/ UNCHANGED vars
  <2>1. op' = op /\ entry' = entry /\ faults' = faults /\ Len(exec') = Len(exec)
    BY <1>4, EndKeepsLength DEF Terminalize, ExecutionEnds, vars
  <2>2. Lost' = Lost /\ Outlived' = Outlived
    BY <2>1 DEF Lost, Outlived, Latest
  <2> QED
    BY <2>1, <2>2 DEF Charged
<1> QED
  BY <1>2, <1>3, <1>4 DEF Next

-----------------------------------------------------------------------------
(* The theorems. *)

LEMMA RecoveryInit == Init => RecoveryInv
<1> SUFFICES ASSUME Init
             PROVE  RecoveryInv
  OBVIOUS
<1> USE StageRunRecoveryAssumption
<1>1. Idle \in Operator /\ Idle.pc = "idle"
  BY DEF Idle, Operator, RunRef, NoRun
<1>2. /\ entry \in Entry /\ entry.attempts = 0 /\ entry.receipt = NoRun /\ entry.status = "none"
      /\ entry.token = 0 /\ ~entry.leased
  BY DEF Init, Entry, RunRef, NoRun
<1>3. exec = <<[resume |-> Original, running |-> TRUE]>> /\ Len(exec) = 1
  BY DEF Init
<1>4. \A o \in Operators : op[o] = Idle
  BY DEF Init
<1>5. Shape
  BY <1>1, <1>2, <1>3 DEF Init, Shape
<1>6. Claimers = {} /\ Starters = {} /\ Outlived = {} /\ Lost = {}
  BY <1>1, <1>3, <1>4 DEF Claimers, Starters, Outlived, Lost, Claiming, Claimants, Latest
<1>7. Counted /\ Charged
  BY <1>2, <1>3, <1>6, FS_EmptySet DEF Init, Counted, Charged
<1>8. OneRuns /\ EntryFits /\ BoundToItsOwn
  BY <1>2, <1>3 DEF OneRuns, EntryFits, BoundToItsOwn, NoRun
<1>9. Carried /\ Tokens
  BY <1>1, <1>4 DEF Carried, Carries, Tokens, Claimants
<1> QED
  BY <1>5, <1>7, <1>8, <1>9 DEF RecoveryInv

LEMMA RecoveryStep == RecoveryInv /\ [Next]_vars => RecoveryInv'
BY ShapeStep, OneRunsStep, CarriedStep, EntryStep, BoundStep, ChargedStep DEF RecoveryInv

\* The inductive invariant of closeout recovery.
THEOREM RecoveryInvariant == Spec => []RecoveryInv
  BY RecoveryInit, RecoveryStep, PTL DEF Spec

\* The row, the entry, the executions and the operators keep their shape, and
\* Temporal runs one execution at a time.
THEOREM TypeCorrect == Spec => []TypeOK
<1>1. RecoveryInv => TypeOK
  BY Bounds DEF RecoveryInv, Shape, OneRuns, EntryFits, TypeOK
<1> QED
  BY RecoveryInvariant, <1>1, PTL

\* claimStageRunRecoveryStart, recordStageRunTemporalRecoveryStart: executions
\* that leave the history are outnumbered by faults.
THEOREM RunsKept == Spec => []EveryRunKept
<1>1. RecoveryInv => EveryRunKept
  <2> SUFFICES ASSUME RecoveryInv
               PROVE  EveryRunKept
    OBVIOUS
  <2>1. Cardinality(Lost) \in Nat /\ Cardinality(Outlived) \in Nat /\ faults \in Nat
    BY Finite, FS_CardinalityType, StageRunRecoveryAssumption DEF RecoveryInv, Shape
  <2> QED
    BY <2>1 DEF RecoveryInv, Charged, EveryRunKept
<1> QED
  BY RecoveryInvariant, <1>1, PTL

\* recordStageRunTemporalRecoveryStart: a started entry is bound to a recovery
\* execution of its own recovery id.
THEOREM BoundCorrectly == Spec => []BoundToItsOwn
<1>1. RecoveryInv => BoundToItsOwn
  BY DEF RecoveryInv
<1> QED
  BY RecoveryInvariant, <1>1, PTL

\* claimStageRunRecoveryStart: a started recovery is given up only when the
\* execution it is bound to has ended.
THEOREM GivenUpWhenOver == Spec => RetriedWhenOver
<1>1. RecoveryInv /\ [Next]_vars =>
        [entry.status = "started" /\ entry'.status # "started" => ~exec[entry.receipt].running]_vars
  <2> SUFFICES ASSUME RecoveryInv, Next, entry.status = "started", entry'.status # "started"
               PROVE  ~exec[entry.receipt].running
    BY DEF vars
  <2> USE DEF RecoveryInv
  <2>1. PICK o \in Operators : OperatorStep(o)
    BY DEF Next, LeaseExpires, Terminalize, ExecutionEnds, Shape, Entry
  <2>2. Claim(o)
    BY <2>1, Moves DEF Record, RecordFailure, Holds, Shape, Entry
  <2>3. Observed(op[o]) /\ op[o].pc = "claim"
    BY <2>2 DEF Claim, Admits
  <2> QED
    BY <2>3 DEF Observed, Carried, Carries, Ended
<1> QED
  BY RecoveryInvariant, <1>1, PTL DEF RetriedWhenOver, Spec
============================================================================
