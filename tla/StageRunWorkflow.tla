---------------------------- MODULE StageRunWorkflow ----------------------------
(***************************************************************************)
(* StageRunWorkflow, the controller of one StageRun's quality cycle: a     *)
(* producer, a review, and rounds of repair and re-review, each a child    *)
(* attempt; then the handoff of the decisive attempt's route and the       *)
(* projection.  One action is what the workflow does between two awaits.   *)
(* An attempt is known by its position, an artifact by the attempt whose   *)
(* identity receipt it carries, and of the findings only whether a         *)
(* required one is open.  Debt references, route recommendations and the   *)
(* branches of executions begun before a patch are left out.               *)
(***************************************************************************)
EXTENDS Integers, Sequences, FiniteSets

CONSTANT MaxRounds \* the largest repair budget a quality policy may set

ASSUME StageRunWorkflowAssumption == MaxRounds \in Nat

VARIABLES
  state,     \* TemporalStageRunWorkflowState
  scope,     \* max_attempts of its quality_scope_budget
  required,  \* formalReviewRequired of the producer's execution policy
  producer,  \* currentArtifactProducerAttemptRef
  attempt,   \* role and round of the attempt in hand; whether it re-reviews a recovered repair
  review,    \* what the review in hand has returned
  at,        \* the call the workflow awaits
  handoffs,  \* routes handed over by the launch activity: deciding attempt and artifact
  cancelled  \* the execution's cancellation has been requested

vars == <<state, scope, required, producer, attempt, review, at, handoffs, cancelled>>

None == 0 \* no artifact, no attempt
Inherited == -1 \* the artifact of the StageRun's input

Roles == {"producer", "reviewer", "repairer", "re_reviewer"}
Reviewing(role) == role \in {"reviewer", "re_reviewer"}

\* "zero" is the lack of a consumable artifact, "human" the need of a decision.
Classes == {"zero", "human", "other"}

Outcomes == {"pass", "debt", "repair", "blocked", "human_gate"}
HardStop(outcome) == outcome \in {"blocked", "human_gate"}

Last(s) == Len(s.attempts)

TypeOK ==
  /\ state.status \in {"running", "completed", "debt", "blocked", "human_gate", "failed"}
  /\ state.attempts \in Seq([role : Roles, artifact : {Inherited} \cup 0..Last(state)])
  /\ state.artifact \in {Inherited} \cup 0..Last(state)
  /\ state.used \in 0..scope /\ state.limit \in 0..MaxRounds
  /\ state.stop \in {"none"} \cup Classes
  /\ state.route \in 0..Last(state) /\ state.launched \in BOOLEAN
  /\ state.reviews \in Seq([by : 1..Last(state), of : 1..Last(state),
                            verdict : {"pass", "debt", "repair", "hard_stop"}])
  /\ scope \in 0..MaxRounds /\ required \in BOOLEAN
  /\ producer \in 0..Last(state)
  /\ attempt \in [role : Roles, round : 0..scope, resumed : BOOLEAN]
  /\ review \in [outcome : Outcomes, open : BOOLEAN, snapshotDebt : BOOLEAN, back : BOOLEAN]
  /\ at \in {"start", "materialize", "child", "receipt", "handoff", "project", "closed",
             "cancelled"}
  /\ handoffs \subseteq [by : 1..Last(state), artifact : {Inherited} \cup 0..Last(state)]
  /\ cancelled \in BOOLEAN

Entry(role, artifact) == [role |-> role, artifact |-> artifact]

Fresh(artifact) ==
  [status |-> "running", attempts |-> <<>>, artifact |-> artifact, used |-> 0,
   limit |-> scope, stop |-> "none", route |-> None, reviews |-> <<>>, launched |-> FALSE]

Repairing == [by |-> 2, of |-> 1, verdict |-> "repair"]

(* recovery_resume, of a StageRun whose first round was interrupted. *)
Recovered ==
  {[Fresh(1) EXCEPT !.attempts = <<Entry("producer", 1)>>],
   [Fresh(1) EXCEPT !.attempts = <<Entry("producer", 1), Entry("reviewer", 1)>>,
                    !.reviews = <<Repairing>>]}
  \cup {s \in {[Fresh(3) EXCEPT !.attempts = <<Entry("producer", 1), Entry("reviewer", 1),
                                               Entry("repairer", 3)>>,
                                !.reviews = <<Repairing>>, !.used = 1]} : s.used <= scope}

Init ==
  /\ scope \in 0..MaxRounds
  /\ \/ state \in {Fresh(None), Fresh(Inherited)} /\ producer = None /\ required = FALSE
     \/ state \in Recovered /\ producer = state.artifact /\ required = TRUE
  /\ attempt = [role |-> "producer", round |-> 0, resumed |-> FALSE]
  /\ review = [outcome |-> "pass", open |-> FALSE, snapshotDebt |-> FALSE, back |-> FALSE]
  /\ at = "start" /\ handoffs = {} /\ cancelled = FALSE

-----------------------------------------------------------------------------
(* How the workflow goes on. *)

Stopped(s) == s.status \in {"debt", "blocked", "human_gate", "failed"}
Consumable(s) == s.artifact # None

\* An artifact that a failed attempt has merely been given counts as well.
Produced(s) ==
  \E i \in DOMAIN s.attempts : ~Reviewing(s.attempts[i].role) /\ s.attempts[i].artifact # None

End(s, status) == [s EXCEPT !.status = status]
Stop(s, status, class) == [s EXCEPT !.status = status, !.stop = class]
StopStatus(class) == IF class = "human" THEN "human_gate" ELSE "blocked"

NeedsHandoff(s) == s.status \in {"completed", "debt"} /\ s.route # None /\ ~s.launched

(* A cancelled execution cannot call the launch activity any more. *)
Terminalize(s) ==
  /\ state' = IF NeedsHandoff(s) /\ cancelled THEN End(s, "failed") ELSE s
  /\ at' = IF NeedsHandoff(s) /\ ~cancelled THEN "handoff" ELSE "project"
  /\ UNCHANGED <<attempt, review, producer>>

AfterErrorUnchecked(s, class) ==
  CASE class # "none" /\ ~(class = "zero" /\ Produced(s)) -> Stop(s, StopStatus(class), class)
    [] ~(class # "none" /\ ~(class = "zero" /\ Produced(s))) /\ Consumable(s) -> End(s, "debt")
    [] OTHER -> Stop(s, "blocked", "zero")

AfterError(s, class) ==
  LET terminates == class # "none" /\ ~(class = "zero" /\ Produced(s))
  IN CASE Stopped(s) -> s
       [] ~Stopped(s) /\ terminates -> Stop(s, StopStatus(class), class)
       [] ~Stopped(s) /\ ~terminates /\ Consumable(s) -> End(s, "debt")
       [] OTHER -> Stop(s, "blocked", "zero")

Caught(s, class) == Terminalize(AfterError(s, class))

(* A cancellation that reaches the outer `catch` ends the execution there. *)
Cancelled ==
  /\ cancelled /\ at' = "cancelled"
  /\ UNCHANGED <<state, attempt, review, producer>>

Call(s, role, round, resumed) ==
  /\ state' = s
  /\ at' = "materialize"
  /\ attempt' = [role |-> role, round |-> round, resumed |-> resumed]
  /\ UNCHANGED review

(* The elapsed time or the tokens may be spent at any time. *)
ScopeExhaustedByTime(s, spent) == spent

ScopeExhausted(s, spent) == spent \/ s.used >= scope

-----------------------------------------------------------------------------

(* A recovery whose findings or repair map are invalid ends as one whose    *)
(* budget is exhausted.                                                     *)
Start ==
  /\ at = "start"
  /\ \/ /\ state.attempts = <<>>
        /\ Call(state, "producer", 0, FALSE) /\ UNCHANGED producer
     \/ /\ state.attempts # <<>> /\ state.attempts[Last(state)].role = "producer"
        /\ Call(state, "reviewer", 0, FALSE) /\ UNCHANGED producer
     \/ /\ state.attempts # <<>> /\ state.attempts[Last(state)].role = "reviewer"
        /\ \E spent \in BOOLEAN :
             IF ScopeExhausted(state, spent) THEN Terminalize(End(state, "debt"))
             ELSE Call(state, "repairer", state.used + 1, FALSE) /\ UNCHANGED producer
     \/ /\ state.attempts # <<>> /\ state.attempts[Last(state)].role = "repairer"
        /\ \/ Call(state, "re_reviewer", state.used, TRUE) /\ UNCHANGED producer
           \/ Caught(state, "none")
  /\ UNCHANGED <<scope, required, handoffs, cancelled>>

MaterializeUnverified ==
  /\ at = "materialize"
  /\ \/ /\ ~cancelled
        /\ \E l \in 0..MaxRounds, q \in BOOLEAN :
             /\ state' = [state EXCEPT !.limit = l]
             /\ required' = IF attempt.role = "producer" THEN q ELSE required
        /\ at' = "child" /\ UNCHANGED <<attempt, review, producer>>
     \/ ~cancelled /\ Caught(state, "none") /\ UNCHANGED required
     \/ Cancelled /\ UNCHANGED required
  /\ UNCHANGED <<scope, handoffs, cancelled>>

(* Every attempt brings the policy of its own binding.  The artifact that a *)
(* later attempt is to work on must carry the receipt of its producer.      *)
Materialize ==
  /\ at = "materialize"
  /\ \/ /\ ~cancelled /\ (attempt.role = "producer" \/ state.artifact = producer)
        /\ \E l \in 0..MaxRounds, q \in BOOLEAN :
             /\ state' = [state EXCEPT !.limit = l]
             /\ required' = IF attempt.role = "producer" THEN q ELSE required
        /\ at' = "child" /\ UNCHANGED <<attempt, review, producer>>
     \/ ~cancelled /\ Caught(state, "none") /\ UNCHANGED required
     \/ Cancelled /\ UNCHANGED required
  /\ UNCHANGED <<scope, handoffs, cancelled>>

-----------------------------------------------------------------------------
(* The child attempt has ended.  It may do so normally although the         *)
(* cancellation has been passed on to it.  Its synchronization follows, and *)
(* leaves no more than a debt reference when it fails or is cancelled.      *)

Number == Last(state) + 1

\* A repairer's artifact becomes the run's only when its round goes on.
Appended(artifact) ==
  [state EXCEPT !.attempts = Append(@, Entry(attempt.role, artifact)),
                !.artifact = IF attempt.role = "repairer" THEN @ ELSE artifact]

Commit(s, decides) == IF decides THEN [s EXCEPT !.route = Last(s)] ELSE s

(* The attempt, or the check of its identity or envelope, has failed. *)
ChildFails ==
  /\ at = "child"
  /\ Caught(state, "none") \/ Cancelled
  /\ UNCHANGED <<scope, required, handoffs, cancelled>>

(* No artifact or an unverified one, or a review of another artifact.  The  *)
(* cancelled synchronization takes the place of an error of no class.       *)
IdentityFails ==
  /\ at = "child"
  /\ \E class \in {"other"} \cup (IF Reviewing(attempt.role) THEN {} ELSE {"zero"})
                             \cup (IF cancelled THEN {} ELSE {"none"}) :
       Caught([state EXCEPT !.attempts = Append(@, Entry(attempt.role, None))], class)
  /\ UNCHANGED <<scope, required, handoffs, cancelled>>

(* What an attempt without a result makes of the run: a review that says    *)
(* nothing, a human gate, or an attempt blocked or failed, possibly by a    *)
(* hard stop of the provider's runtime.                                     *)
Recoverable == attempt.role = "repairer" \/ (attempt.role = "producer" /\ required)

Unsuccessful(s) ==
  {Stop(s, "human_gate", "human")}
  \cup (IF Reviewing(attempt.role) THEN {End(s, "blocked")} ELSE {})
  \cup {Stop(s, StopStatus(class), class) : class \in Classes}
  \cup {CASE Consumable(s) /\ Recoverable -> s
          [] Consumable(s) /\ ~Recoverable /\ ~Reviewing(attempt.role) -> End(s, "debt")
          [] Consumable(s) /\ Reviewing(attempt.role) -> End(s, "blocked")
          [] OTHER -> Stop(s, "blocked", "zero")}

\* A completed producer or repairer has made an artifact; another one may have.
Results(made) ==
  LET s == Appended(IF made THEN Number ELSE state.artifact)
  IN Unsuccessful(s) \cup (IF made THEN {s} ELSE {})

ProducerReturns ==
  /\ at = "child" /\ attempt.role = "producer"
  /\ \E made, decides \in BOOLEAN : \E s \in Results(made) :
       \/ /\ Stopped(s)
          /\ Terminalize(IF ~required /\ s.status = "debt" THEN Commit(s, decides) ELSE s)
       \/ /\ ~Stopped(s) /\ ~required
          /\ Terminalize(End(Commit(s, decides), "completed"))
       \/ /\ ~Stopped(s) /\ required
          /\ Call(s, "reviewer", 0, FALSE) /\ producer' = Number
  /\ UNCHANGED <<scope, required, handoffs, cancelled>>

RepairerReturns ==
  /\ at = "child" /\ attempt.role = "repairer"
  /\ \E made \in BOOLEAN : \E s \in Results(made) :
       \/ Stopped(s) /\ Terminalize(s)
       \/ ~Stopped(s) /\ ~made /\ Terminalize(End(s, "debt"))
       \/ ~Stopped(s) /\ made /\ Caught(s, "none") \* repair_map invalid
       \/ /\ ~Stopped(s) /\ made
          /\ LET repaired == [s EXCEPT !.artifact = Number]
             IN \/ Terminalize(End(repaired, "debt")) \* time or tokens spent
                \/ /\ Call(repaired, "re_reviewer", attempt.round, FALSE)
                   /\ producer' = Number
  /\ UNCHANGED <<scope, required, handoffs, cancelled>>

Reviewed ==
  LET s == Appended(state.artifact)
  IN IF attempt.role = "re_reviewer" THEN [s EXCEPT !.used = attempt.round] ELSE s

ReviewerStops ==
  /\ at = "child" /\ Reviewing(attempt.role)
  /\ \E s \in Unsuccessful(Reviewed) : Terminalize(s)
  /\ UNCHANGED <<scope, required, handoffs, cancelled>>

(* A verdict must agree with the required findings it leaves open. *)
ConsistentIfRepair(outcome, open) == outcome = "repair" => open

Consistent(outcome, open) == HardStop(outcome) \/ (outcome = "repair") = open

DecisiveWhileRepairing(outcome, consistent, back) ==
  /\ ~HardStop(outcome)
  /\ attempt.role = "re_reviewer" => consistent /\ attempt.round \in 1..state.limit

(* terminalDecisionRejectionReasons: a review decides the route only if the *)
(* run ends with it.  An initial review's findings are not looked at.       *)
Decisive(outcome, consistent, back) ==
  /\ ~HardStop(outcome)
  /\ attempt.role = "re_reviewer" => consistent /\ attempt.round \in 1..state.limit
  /\ outcome = "repair" => back \/ state.limit = attempt.round

(* The decision is committed before the review itself is validated, which   *)
(* is stricter about its form.                                              *)
ReviewReturns ==
  /\ at = "child" /\ Reviewing(attempt.role)
  /\ \E outcome \in Outcomes, open, wellFormed, decides, back, snapshotDebt \in BOOLEAN :
       LET valid == wellFormed /\ Consistent(outcome, open)
           decided == decides /\ Decisive(outcome, Consistent(outcome, open), back)
           s == Commit(Reviewed, decided)
           overBudget == /\ attempt.role = "re_reviewer" /\ ~attempt.resumed
                         /\ ~HardStop(outcome) /\ attempt.round \notin 1..state.limit
       IN \/ (~valid \/ overBudget) /\ Caught(s, "none")
          \/ /\ valid /\ ~overBudget
             /\ state' \in IF HardStop(outcome)
                           THEN {Stop(s, outcome, class) :
                                   class \in IF outcome = "blocked" THEN Classes ELSE {"human"}}
                           ELSE {s}
             /\ review' = [outcome |-> outcome, open |-> open, snapshotDebt |-> snapshotDebt,
                           back |-> decided /\ back /\ outcome = "repair"]
             /\ at' = "receipt" /\ UNCHANGED <<attempt, producer>>
  /\ UNCHANGED <<scope, required, handoffs, cancelled>>

-----------------------------------------------------------------------------
(* The receipt of the review has come back. *)

Received ==
  [state EXCEPT !.reviews =
     Append(@, [by |-> Last(state), of |-> producer,
                verdict |-> IF HardStop(review.outcome) THEN "hard_stop" ELSE review.outcome])]

ReceiptFails ==
  /\ at = "receipt"
  /\ (~cancelled /\ Caught(state, "none")) \/ Cancelled
  /\ UNCHANGED <<scope, required, handoffs, cancelled>>

EndsWithReview ==
  /\ at = "receipt" /\ ~cancelled /\ review.outcome # "repair"
  /\ Terminalize(CASE HardStop(review.outcome) -> Received
                   [] review.outcome = "pass" /\ ~review.snapshotDebt -> End(Received, "completed")
                   [] OTHER -> End(Received, "debt"))
  /\ UNCHANGED <<scope, required, handoffs, cancelled>>

(* The initial review's route back goes before the scope budget, whose end  *)
(* is the same: the artifact under review is there and is passed on.        *)
RepairRequired ==
  /\ at = "receipt" /\ ~cancelled /\ review.outcome = "repair"
  /\ \E spent \in BOOLEAN :
       LET terminal == ScopeExhausted(Received, spent) \/ review.back
       IN \/ terminal /\ Terminalize(End(Received, "debt"))
          \/ /\ ~terminal /\ attempt.round = state.limit
             /\ Terminalize(End(Received, "debt"))
          \/ /\ ~terminal /\ attempt.round < state.limit
             /\ Call(Received, "repairer", attempt.round + 1, FALSE) /\ UNCHANGED producer
          \/ /\ ~terminal /\ attempt.round > state.limit
             /\ Caught(Received, "none") \* of a recovered repair only
  /\ UNCHANGED <<scope, required, handoffs, cancelled>>

-----------------------------------------------------------------------------

Handed == [by |-> state.route, artifact |-> state.artifact]

HandoffUncancelled ==
  /\ at = "handoff" /\ at' = "project"
  /\ ~cancelled
  /\ \/ state' = [state EXCEPT !.launched = TRUE] /\ handoffs' = handoffs \cup {Handed}
     \/ state' = End(state, "failed") /\ handoffs' \in {handoffs, handoffs \cup {Handed}}
  /\ UNCHANGED <<scope, required, producer, attempt, review, cancelled>>

(* The launch is retried until it succeeds, is refused or is cancelled; it  *)
(* may have taken effect although its answer was lost.                      *)
Handoff ==
  /\ at = "handoff" /\ at' = "project"
  /\ \/ ~cancelled /\ state' = [state EXCEPT !.launched = TRUE]
                   /\ handoffs' = handoffs \cup {Handed}
     \/ state' = End(state, "failed") /\ handoffs' \in {handoffs, handoffs \cup {Handed}}
  /\ UNCHANGED <<scope, required, producer, attempt, review, cancelled>>

(* A failed or cancelled projection is only recorded. *)
Project ==
  /\ at = "project" /\ at' = "closed"
  /\ UNCHANGED <<state, scope, required, producer, attempt, review, handoffs, cancelled>>

RequestCancel ==
  /\ at \notin {"closed", "cancelled"} /\ ~cancelled /\ cancelled' = TRUE
  /\ UNCHANGED <<state, scope, required, producer, attempt, review, at, handoffs>>

-----------------------------------------------------------------------------

WorkflowStep ==
  \/ Start \/ Materialize \/ ChildFails \/ IdentityFails
  \/ ProducerReturns \/ RepairerReturns \/ ReviewerStops \/ ReviewReturns
  \/ ReceiptFails \/ EndsWithReview \/ RepairRequired
  \/ Handoff \/ Project

Next == WorkflowStep \/ RequestCancel

(* Every activity and child attempt ends; nobody need cancel. *)
Spec == Init /\ [][Next]_vars /\ WF_vars(WorkflowStep)

-----------------------------------------------------------------------------
(* Properties *)

\* The status a query shows.
Shown == IF at = "handoff" THEN "running" ELSE state.status

\* What is accepted is what was made and reviewed: every verdict names an
\* attempt that produced the artifact under review, and a run that needed a
\* formal review completes only on a pass of exactly the artifact it holds,
\* given by its last attempt, with nothing required left open.
CompletedIsAccepted ==
  /\ \A i \in DOMAIN state.reviews : LET r == state.reviews[i] IN
       state.attempts[r.of].artifact = r.of /\ state.attempts[r.by].artifact = r.of
  /\ state.status = "completed" /\ required =>
       /\ state.reviews # <<>>
       /\ state.reviews[Len(state.reviews)] =
            [by |-> Last(state), of |-> state.artifact, verdict |-> "pass"]
       /\ ~review.open
  /\ state.status \in {"completed", "debt"} => Consumable(state)

\* A stop is final: no error, receipt or cancellation that follows turns it
\* into another end.  Only a handoff that fails still changes the status.
EndsAsDecided ==
  [][state.status # "running" =>
       \/ state'.status = state.status /\ state'.stop = state.stop
       \/ at = "handoff" /\ state'.status = "failed"]_vars

\* The route a successor is launched on was decided by the attempt the run
\* ended with, on the artifact that attempt was given or made; where a formal
\* review is required, by a review.  A run shown as completed has been handed
\* over.
HandoffIsDecisive ==
  /\ state.route # None => state.route = Last(state)
  /\ \A l \in handoffs :
       /\ l.by = Last(state) /\ l.artifact = state.attempts[l.by].artifact
       /\ required => Reviewing(state.attempts[l.by].role)
  /\ Shown \in {"completed", "debt"} /\ state.route # None => state.launched

\* Whatever the attempts return, the cycle ends.
Terminates == <>(at \in {"closed", "cancelled"})

=============================================================================
