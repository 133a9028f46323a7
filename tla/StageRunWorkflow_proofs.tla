---------------------- MODULE StageRunWorkflow_proofs ----------------------
(* Theorems about the controller of one StageRun, for every repair budget. *)
(* The invariant has two parts: what holds of any state the run may have   *)
(* (SoundState, also of the states a step builds on its way), and what the *)
(* controller knows at each await.                                         *)
EXTENDS StageRunWorkflow, SequenceTheorems, TLAPS

Statuses == {"running", "completed", "debt", "blocked", "human_gate", "failed"}
Verdicts == {"pass", "debt", "repair", "hard_stop"}
Artifacts == Nat \cup {Inherited}

StateRecord ==
  [status : Statuses, attempts : Seq([role : Roles, artifact : Artifacts]),
   artifact : Artifacts, used : Nat, limit : Nat, stop : {"none"} \cup Classes,
   route : Nat, reviews : Seq([by : Nat, of : Nat, verdict : Verdicts]), launched : BOOLEAN]

\* A review names the attempt that made the artifact it was given.
SoundReview(s, r) ==
  /\ r.by \in 1..Last(s) /\ r.of \in 1..Last(s)
  /\ s.attempts[r.of].artifact = r.of /\ s.attempts[r.by].artifact = r.of

\* The history of a run: artifacts come from its attempts, the one it holds
\* from the attempt it is named by.
SoundHistory(s) ==
  /\ s \in StateRecord
  /\ s.used <= scope /\ s.limit <= MaxRounds
  /\ \A i \in 1..Last(s) : s.attempts[i].artifact <= Last(s)
  /\ s.artifact <= Last(s)
  /\ s.artifact >= 1 => s.attempts[s.artifact].artifact = s.artifact
  /\ \A i \in 1..Len(s.reviews) : SoundReview(s, s.reviews[i])

\* The route was decided by the last attempt, on the artifact the run holds.
SoundRoute(s, formal) ==
  s.route # None =>
    /\ s.route = Last(s)
    /\ s.attempts[Last(s)].artifact = s.artifact
    /\ formal => Reviewing(s.attempts[Last(s)].role)

\* The review that a completed run rests on.
Accepted(s) ==
  /\ s.reviews # <<>>
  /\ s.reviews[Len(s.reviews)] = [by |-> Last(s), of |-> s.artifact, verdict |-> "pass"]

\* An end without a class of its own passes an artifact on.
SoundEnd(s) == s.status \in {"completed", "debt"} => Consumable(s)

Types ==
  /\ scope \in 0..MaxRounds /\ required \in BOOLEAN /\ cancelled \in BOOLEAN
  /\ producer \in 0..Last(state)
  /\ attempt \in [role : Roles, round : 0..scope, resumed : BOOLEAN]
  /\ review \in [outcome : Outcomes, open : BOOLEAN, snapshotDebt : BOOLEAN, back : BOOLEAN]
  /\ at \in {"start", "materialize", "child", "receipt", "handoff", "project", "closed", "cancelled"}

SoundState == SoundHistory(state) /\ SoundRoute(state, required) /\ SoundEnd(state)

CompletedOnReview ==
  state.status = "completed" /\ required => Accepted(state) /\ ~review.open

\* Before the attempt in hand has returned nothing is decided.
Undecided ==
  at \in {"start", "materialize", "child"} => state.status = "running" /\ state.route = None

AtStart ==
  at = "start" =>
    /\ state.attempts # <<>> => producer = state.artifact /\ producer >= 1
    /\ state.attempts = <<>> \/ state.attempts[Last(state)].role \in {"producer", "reviewer"} => state.used = 0

\* What an attempt after the producer's works on, and the rounds it counts.
InHand ==
  at \in {"materialize", "child"} =>
    /\ attempt.role # "producer" => producer >= 1
    /\ attempt.role = "producer" => state.used = 0
    /\ attempt.role = "reviewer" => attempt.round = 0 /\ state.used = 0
    /\ at = "child" /\ attempt.role # "producer" => state.artifact = producer

AtReceipt ==
  at = "receipt" =>
    /\ Reviewing(attempt.role) /\ attempt.round = state.used
    /\ producer >= 1 /\ state.artifact = producer
    /\ state.attempts[Last(state)].artifact = producer
    /\ state.status = IF HardStop(review.outcome) THEN review.outcome ELSE "running"
    /\ HardStop(review.outcome) \/ (review.outcome = "repair") = review.open
    /\ state.route # None /\ review.outcome = "repair" => review.back \/ state.limit = attempt.round

\* Who ends with a route hands it over, once.
Handing ==
  /\ at \in {"start", "materialize", "child", "receipt", "handoff"} => handoffs = {} /\ ~state.launched
  /\ at = "handoff" => NeedsHandoff(state)
  /\ at \in {"project", "closed"} => ~NeedsHandoff(state)
  /\ at = "cancelled" => state.status \notin {"completed", "debt"}
  /\ \A l \in handoffs : state.route # None /\ l = Handed

WorkflowInv ==
  /\ Types /\ SoundState /\ CompletedOnReview /\ Undecided /\ AtStart
  /\ InHand /\ AtReceipt /\ Handing

-----------------------------------------------------------------------------
(* What a step does to a state it builds. *)

\* A state that the controller may end with, or go on from.
Sound(s, formal) ==
  SoundHistory(s) /\ SoundRoute(s, formal) /\ SoundEnd(s) /\ s.launched = FALSE

LEMMA LastType ==
  ASSUME NEW s \in StateRecord
  PROVE  Last(s) \in Nat /\ Len(s.reviews) \in Nat
BY DEF Last, StateRecord

LEMMA EndSound ==
  ASSUME NEW s, NEW formal, Sound(s, formal), NEW status \in Statuses,
         status \in {"completed", "debt"} => Consumable(s)
  PROVE  /\ Sound(End(s, status), formal) /\ End(s, status).status = status
         /\ \A class \in {"none"} \cup Classes :
              Sound(Stop(s, status, class), formal) /\ Stop(s, status, class).status = status
         /\ End(s, status).route = s.route /\ End(s, status).artifact = s.artifact
         /\ End(s, status).attempts = s.attempts /\ End(s, status).reviews = s.reviews
         /\ \A class : /\ Stop(s, status, class).route = s.route
                       /\ Stop(s, status, class).artifact = s.artifact
                       /\ Stop(s, status, class).attempts = s.attempts
                       /\ Stop(s, status, class).reviews = s.reviews
                       /\ Stop(s, status, class).used = s.used
                       /\ Stop(s, status, class).limit = s.limit
<1>1. s \in StateRecord
  BY DEF Sound, SoundHistory
<1>2. ASSUME NEW t, t \in StateRecord, t.status = status, t.attempts = s.attempts, t.artifact = s.artifact,
             t.used = s.used, t.limit = s.limit, t.route = s.route, t.reviews = s.reviews,
             t.launched = s.launched
      PROVE  Sound(t, formal)
  BY <1>2 DEF Sound, SoundHistory, SoundRoute, SoundEnd, Consumable, SoundReview, Last
<1>3. ASSUME NEW class \in {"none"} \cup Classes
      PROVE  [s EXCEPT !.status = status, !.stop = class] \in StateRecord
  BY <1>1 DEF StateRecord
<1>4. [s EXCEPT !.status = status] \in StateRecord
  BY <1>1 DEF StateRecord
<1>5. ASSUME NEW class
      PROVE  LET t == [s EXCEPT !.status = status, !.stop = class] IN
             /\ t.status = status /\ t.attempts = s.attempts /\ t.artifact = s.artifact
             /\ t.used = s.used /\ t.limit = s.limit /\ t.route = s.route /\ t.reviews = s.reviews
             /\ t.launched = s.launched
  BY <1>1 DEF StateRecord
<1>6. LET t == [s EXCEPT !.status = status] IN
             /\ t.status = status /\ t.attempts = s.attempts /\ t.artifact = s.artifact
             /\ t.used = s.used /\ t.limit = s.limit /\ t.route = s.route /\ t.reviews = s.reviews
             /\ t.launched = s.launched
  BY <1>1 DEF StateRecord
<1> QED
  BY <1>2, <1>3, <1>4, <1>5, <1>6 DEF End, Stop

LEMMA AfterErrorSound ==
  ASSUME NEW s, NEW formal, Sound(s, formal), s.status \notin {"completed"},
         NEW class \in {"none"} \cup Classes
  PROVE  LET t == AfterError(s, class) IN
         /\ Sound(t, formal) /\ t.status \notin {"running", "completed"}
         /\ t.attempts = s.attempts
         /\ Stopped(s) => t = s
<1> DEFINE terminates == class # "none" /\ ~(class = "zero" /\ Produced(s))
<1>1. CASE Stopped(s)
  BY <1>1 DEF AfterError, Stopped
<1>2. CASE ~Stopped(s) /\ terminates
  <2>1. StopStatus(class) \in {"blocked", "human_gate"}
    BY DEF StopStatus
  <2>2. AfterError(s, class) = Stop(s, StopStatus(class), class)
    BY <1>2 DEF AfterError
  <2> QED
    BY <1>2, <2>1, <2>2, EndSound DEF Statuses, Stopped
<1>3. CASE ~Stopped(s) /\ ~terminates /\ Consumable(s)
  <2>1. AfterError(s, class) = End(s, "debt")
    BY <1>3 DEF AfterError
  <2> QED
    BY <1>3, <2>1, EndSound DEF Statuses
<1>4. CASE ~Stopped(s) /\ ~terminates /\ ~Consumable(s)
  <2>1. AfterError(s, class) = Stop(s, "blocked", "zero")
    BY <1>4 DEF AfterError
  <2> QED
    BY <1>4, <2>1, EndSound DEF Statuses, Classes
<1> QED
  BY <1>1, <1>2, <1>3, <1>4

\* t is s with one more attempt and, perhaps, another artifact.
Appends(s, t, role, made, a) ==
  /\ t \in StateRecord
  /\ t.attempts = Append(s.attempts, Entry(role, made)) /\ t.artifact = a
  /\ t.used = s.used /\ t.limit = s.limit /\ t.status = s.status /\ t.route = s.route
  /\ t.reviews = s.reviews /\ t.launched = s.launched

LEMMA AppendsAttempt ==
  ASSUME NEW s \in StateRecord, NEW role \in Roles, NEW made \in Artifacts, NEW a \in Artifacts
  PROVE  /\ Appends(s, [s EXCEPT !.attempts = Append(@, Entry(role, made)), !.artifact = a], role, made, a)
         /\ Appends(s, [s EXCEPT !.attempts = Append(@, Entry(role, made))], role, made, s.artifact)
<1> DEFINE more == Append(s.attempts, Entry(role, made))
<1>1. more \in Seq([role : Roles, artifact : Artifacts])
  BY DEF StateRecord, Entry
<1> HIDE DEF more
<1>2. \A x : [s EXCEPT !.attempts = more, !.artifact = a] = x => 
             /\ x \in StateRecord
             /\ x.attempts = more /\ x.artifact = a
             /\ x.used = s.used /\ x.limit = s.limit /\ x.status = s.status /\ x.route = s.route
             /\ x.reviews = s.reviews /\ x.launched = s.launched
  BY <1>1 DEF StateRecord
<1>3. \A x : [s EXCEPT !.attempts = more] = x => 
             /\ x \in StateRecord
             /\ x.attempts = more /\ x.artifact = s.artifact
             /\ x.used = s.used /\ x.limit = s.limit /\ x.status = s.status /\ x.route = s.route
             /\ x.reviews = s.reviews /\ x.launched = s.launched
  BY <1>1 DEF StateRecord
<1> QED
  BY <1>2, <1>3 DEF Appends, more

\* An attempt is added, and with it perhaps the artifact it made.
LEMMA AppendSound ==
  ASSUME NEW s, NEW formal, Sound(s, formal), s.route = None,
         NEW role \in Roles, NEW made \in Artifacts, made <= Last(s) + 1,
         NEW a \in Artifacts, a = s.artifact \/ (a = Last(s) + 1 /\ made = a),
         s.status \in {"completed", "debt"} => a # None,
         NEW t, Appends(s, t, role, made, a)
  PROVE  /\ Sound(t, formal) /\ Last(t) = Last(s) + 1 /\ t.attempts[Last(t)] = Entry(role, made)
         /\ t.artifact = a /\ t.used = s.used /\ t.limit = s.limit /\ t.status = s.status
         /\ t.route = None /\ t.reviews = s.reviews
         /\ \A i \in 1..Last(s) : t.attempts[i] = s.attempts[i]
<1>1. s \in StateRecord /\ Last(s) \in Nat /\ Entry(role, made) \in [role : Roles, artifact : Artifacts]
  BY LastType DEF Sound, SoundHistory, Entry
<1>2. /\ t.attempts = Append(s.attempts, Entry(role, made)) /\ t.artifact = a
      /\ t.used = s.used /\ t.limit = s.limit /\ t.status = s.status /\ t.route = s.route
      /\ t.reviews = s.reviews /\ t.launched = s.launched
  BY DEF Appends
<1>3. s.attempts \in Seq([role : Roles, artifact : Artifacts])
  BY <1>1 DEF StateRecord
<1>4. /\ t.attempts \in Seq([role : Roles, artifact : Artifacts])
      /\ Len(t.attempts) = Len(s.attempts) + 1 /\ t.attempts[Len(s.attempts) + 1] = Entry(role, made)
      /\ \A i \in 1..Len(s.attempts) : t.attempts[i] = s.attempts[i]
  BY <1>1, <1>2, <1>3
<1>5. t \in StateRecord
  BY DEF Appends
<1>6. Last(t) = Last(s) + 1
  BY <1>4 DEF Last
<1>7. SoundHistory(t)
  <2>1. ASSUME NEW i \in 1..Last(t)
        PROVE  t.attempts[i].artifact <= Last(t)
    <3>1. CASE i = Last(s) + 1
      BY <1>4, <1>6, <3>1 DEF Last, Entry
    <3>2. CASE i # Last(s) + 1
      <4>1. i \in 1..Last(s)
        BY <1>1, <1>6, <3>2
      <4>2. t.attempts[i] = s.attempts[i]
        BY <1>4, <4>1 DEF Last
      <4>3. s.attempts[i].artifact <= Last(s)
        BY <4>1 DEF Sound, SoundHistory
      <4>4. s.attempts[i] \in [role : Roles, artifact : Artifacts]
        BY <1>3, <4>1, ElementOfSeq DEF Last
      <4>5. s.attempts[i].artifact \in Int
        BY <4>4 DEF Artifacts, Inherited
      <4> QED
        BY <1>1, <1>6, <4>2, <4>3, <4>5
    <3> QED
      BY <3>1, <3>2
  <2>2. t.artifact >= 1 => t.artifact <= Last(t) /\ t.attempts[t.artifact].artifact = t.artifact
    BY <1>1, <1>2, <1>4, <1>6 DEF Last, Entry, Sound, SoundHistory, Artifacts, Inherited
  <2>3. \A i \in 1..Len(t.reviews) : SoundReview(t, t.reviews[i])
    BY <1>1, <1>2, <1>4, <1>6, SMTT(30) DEF Last, Sound, SoundHistory, SoundReview
  <2>4. t.artifact <= Last(t)
    BY <1>1, <1>2, <1>6 DEF Sound, SoundHistory, Artifacts, Inherited
  <2> QED
    BY <1>2, <1>5, <2>1, <2>2, <2>3, <2>4 DEF SoundHistory, Sound
<1> QED
  BY <1>2, <1>4, <1>6, <1>7 DEF Sound, SoundRoute, SoundEnd, Consumable, Last

LEMMA CommitSound ==
  ASSUME NEW s, NEW formal, Sound(s, formal), NEW decides \in BOOLEAN, s.route = None,
         decides => /\ s.attempts[Last(s)].artifact = s.artifact
                    /\ formal => Reviewing(s.attempts[Last(s)].role)
  PROVE  LET t == Commit(s, decides) IN
         /\ Sound(t, formal) /\ t.attempts = s.attempts /\ t.artifact = s.artifact /\ t.used = s.used
         /\ t.limit = s.limit /\ t.status = s.status /\ t.reviews = s.reviews
         /\ t.route # None => decides
<1>1. s \in StateRecord /\ Last(s) \in Nat
  BY LastType DEF Sound, SoundHistory
<1>2. CASE ~decides
  BY <1>2 DEF Commit
<1>3. CASE decides
  <2> DEFINE t == [s EXCEPT !.route = Last(s)]
  <2>1. t \in StateRecord
    BY <1>1 DEF StateRecord
  <2>2. /\ t.attempts = s.attempts /\ t.artifact = s.artifact /\ t.used = s.used
        /\ t.limit = s.limit /\ t.status = s.status /\ t.reviews = s.reviews /\ t.launched = s.launched
        /\ t.route = Last(s)
    BY <1>1 DEF StateRecord
  <2> HIDE DEF t
  <2>3. Sound(t, formal)
    BY <1>3, <2>1, <2>2 DEF Sound, SoundHistory, SoundReview, SoundRoute, SoundEnd, Consumable, Last
  <2>4. Commit(s, decides) = t
    BY <1>3 DEF Commit, t
  <2> QED
    BY <1>3, <2>2, <2>3, <2>4
<1> QED
  BY <1>2, <1>3

-----------------------------------------------------------------------------
(* What the controller does with it. *)

\* terminalize(): the state of an ended run goes to the handoff or is projected.
LEMMA TerminalizeKeeps ==
  ASSUME Types, handoffs = {}, UNCHANGED <<scope, handoffs, cancelled>>, required' \in BOOLEAN,
         NEW s, Sound(s, required'), s.status # "running", producer <= Last(s),
         s.status = "completed" /\ required' => Accepted(s) /\ ~review.open,
         Terminalize(s)
  PROVE  WorkflowInv'
<1>1. s \in StateRecord /\ Last(s) \in Nat
  BY LastType DEF Sound, SoundHistory
<1>2. /\ Sound(state', required') /\ state'.attempts = s.attempts /\ state'.reviews = s.reviews
      /\ state'.artifact = s.artifact
      /\ state'.status # "running" /\ (state'.status = "completed" => s.status = "completed")
      /\ at' \in {"handoff", "project"}
      /\ at' = "handoff" <=> NeedsHandoff(state')
  <2>1. CASE NeedsHandoff(s) /\ cancelled
    <3>1. state' = End(s, "failed") /\ at' = "project"
      BY <2>1 DEF Terminalize
    <3> QED
      BY <3>1, EndSound DEF Statuses, NeedsHandoff
  <2>2. CASE ~(NeedsHandoff(s) /\ cancelled)
    <3>1. state' = s /\ at' = IF NeedsHandoff(s) THEN "handoff" ELSE "project"
      BY <2>2 DEF Terminalize
    <3> QED
      BY <3>1
  <2> QED
    BY <2>1, <2>2
<1>3. UNCHANGED <<attempt, review, producer>>
  BY DEF Terminalize
<1>4. Types'
  BY <1>1, <1>2, <1>3 DEF Types, Last
<1>5. SoundState'
  BY <1>2 DEF Sound, SoundState, SoundHistory, SoundReview, SoundRoute, SoundEnd
<1>6. CompletedOnReview'
  BY <1>2, <1>3 DEF CompletedOnReview, Accepted, Last
<1>7. Undecided' /\ AtStart' /\ InHand' /\ AtReceipt'
  BY <1>2 DEF Undecided, AtStart, InHand, AtReceipt
<1>8. Handing'
  BY <1>2 DEF Handing, Sound
<1> QED
  BY <1>4, <1>5, <1>6, <1>7, <1>8 DEF WorkflowInv

LEMMA CaughtKeeps ==
  ASSUME Types, handoffs = {}, UNCHANGED <<scope, handoffs, cancelled>>, required' \in BOOLEAN,
         NEW s, Sound(s, required'), s.status # "completed", producer <= Last(s),
         NEW class \in {"none"} \cup Classes, Caught(s, class)
  PROVE  WorkflowInv'
<1> DEFINE t == AfterError(s, class)
<1>1. Sound(t, required') /\ t.status \notin {"running", "completed"} /\ t.attempts = s.attempts
  BY AfterErrorSound
<1>2. Terminalize(t)
  BY DEF Caught
<1>3. producer <= Last(t)
  BY <1>1 DEF Last
<1> HIDE DEF t
<1> QED
  BY <1>1, <1>2, <1>3, TerminalizeKeeps

\* The next attempt is materialized.
LEMMA CallKeeps ==
  ASSUME Types, handoffs = {}, UNCHANGED <<scope, handoffs, cancelled>>, required' \in BOOLEAN,
         NEW s, Sound(s, required'), s.status = "running", s.route = None,
         NEW role \in Roles, NEW round \in 0..scope, NEW resumed \in BOOLEAN, Call(s, role, round, resumed),
         producer' \in 0..Last(s),
         role # "producer" => producer' >= 1,
         role \in {"producer", "reviewer"} => s.used = 0,
         role = "reviewer" => round = 0
  PROVE  WorkflowInv'
<1>1. s \in StateRecord /\ Last(s) \in Nat
  BY LastType DEF Sound, SoundHistory
<1>2. /\ state' = s /\ at' = "materialize" /\ review' = review
      /\ attempt' = [role |-> role, round |-> round, resumed |-> resumed]
  BY DEF Call
<1>3. Types'
  BY <1>1, <1>2 DEF Types, Last
<1>4. SoundState'
  BY <1>2 DEF Sound, SoundState, SoundHistory, SoundReview, SoundRoute, SoundEnd
<1>5. CompletedOnReview' /\ Undecided' /\ AtStart' /\ AtReceipt'
  BY <1>2 DEF CompletedOnReview, Undecided, AtStart, AtReceipt
<1>6. InHand' /\ Handing'
  BY <1>2 DEF InHand, Handing, Sound, NeedsHandoff
<1> QED
  BY <1>3, <1>4, <1>5, <1>6 DEF WorkflowInv

LEMMA CancelledKeeps ==
  ASSUME WorkflowInv, at \in {"materialize", "child", "receipt"}, Cancelled,
         UNCHANGED <<scope, required, handoffs, cancelled>>
  PROVE  WorkflowInv'
<1>1. at' = "cancelled" /\ UNCHANGED <<state, attempt, review, producer>>
  BY DEF Cancelled
<1>2. state.status \notin {"completed", "debt"}
  BY DEF WorkflowInv, Undecided, AtReceipt, HardStop
<1>3. Types' /\ SoundState' /\ CompletedOnReview'
  BY <1>1 DEF WorkflowInv, Types, SoundState, SoundHistory, SoundReview, SoundRoute, SoundEnd, Consumable,
     CompletedOnReview, Accepted, Last
<1>4. Undecided' /\ AtStart' /\ InHand' /\ AtReceipt' /\ Handing'
  BY <1>1, <1>2 DEF WorkflowInv, Undecided, AtStart, InHand, AtReceipt, Handing
<1> QED
  BY <1>3, <1>4 DEF WorkflowInv

-----------------------------------------------------------------------------
(* The actions. *)

\* What the state is at each await before the handoff.
LEMMA StateSound ==
  ASSUME WorkflowInv, at \in {"start", "materialize", "child", "receipt"}
  PROVE  /\ Sound(state, required) /\ state.status # "completed" /\ Last(state) \in Nat
         /\ handoffs = {} /\ producer <= Last(state) /\ Types
         /\ at # "receipt" => state.status = "running" /\ state.route = None
<1>1. Last(state) \in Nat
  BY LastType DEF WorkflowInv, SoundState, SoundHistory
<1>2. state.launched = FALSE
  BY DEF WorkflowInv, Handing, SoundState, SoundHistory, StateRecord
<1> QED
  BY <1>1, <1>2 DEF WorkflowInv, SoundState, Sound, Undecided, AtReceipt, HardStop, Handing, Types

LEMMA StartKeeps == ASSUME WorkflowInv, Start PROVE WorkflowInv'
<1>1. at = "start" /\ UNCHANGED <<scope, required, handoffs, cancelled>>
  BY DEF Start
<1>2. /\ Sound(state, required') /\ state.status = "running" /\ state.route = None /\ Last(state) \in Nat
      /\ handoffs = {} /\ producer \in 0..Last(state) /\ required' \in BOOLEAN
  BY <1>1, StateSound DEF Types
<1>3. Types /\ scope \in Nat /\ state.used \in 0..scope
  BY <1>1, StateSound, StageRunWorkflowAssumption DEF Sound, SoundHistory, StateRecord, Types
<1>4. state.attempts # <<>> => producer >= 1 /\ Consumable(state)
  BY <1>1 DEF WorkflowInv, AtStart, Consumable, None
<1>5. CASE state.attempts = <<>> /\ Call(state, "producer", 0, FALSE) /\ UNCHANGED producer
  BY <1>1, <1>2, <1>3, <1>5, CallKeeps DEF WorkflowInv, AtStart, Roles
<1>6. CASE /\ state.attempts # <<>> /\ state.attempts[Last(state)].role = "producer"
           /\ Call(state, "reviewer", 0, FALSE) /\ UNCHANGED producer
  BY <1>1, <1>2, <1>3, <1>4, <1>6, CallKeeps DEF WorkflowInv, AtStart, Roles
<1>7. CASE /\ state.attempts # <<>>
           /\ \E spent \in BOOLEAN :
                IF ScopeExhausted(state, spent) THEN Terminalize(End(state, "debt"))
                ELSE Call(state, "repairer", state.used + 1, FALSE) /\ UNCHANGED producer
  <2>0. \/ Terminalize(End(state, "debt"))
        \/ ~(state.used >= scope) /\ Call(state, "repairer", state.used + 1, FALSE) /\ UNCHANGED producer
    BY <1>7 DEF ScopeExhausted
  <2>1. CASE Terminalize(End(state, "debt"))
    <3> DEFINE t == End(state, "debt")
    <3>1. Sound(t, required') /\ t.status = "debt" /\ t.attempts = state.attempts
      BY <1>2, <1>4, <1>7, EndSound DEF Statuses
    <3>2. producer <= Last(t)
      BY <1>2, <3>1 DEF Last
    <3>3. Terminalize(t)
      BY <2>1
    <3> HIDE DEF t
    <3> QED
      BY <1>1, <1>2, <1>3, <3>1, <3>2, <3>3, TerminalizeKeeps
  <2>2. CASE /\ ~(state.used >= scope) /\ Call(state, "repairer", state.used + 1, FALSE) /\ UNCHANGED producer
    <3>1. state.used + 1 \in 0..scope
      BY <1>3, <2>2
    <3> QED
      BY <1>1, <1>2, <1>3, <1>4, <1>7, <2>2, <3>1, CallKeeps DEF Roles
  <2> QED
    BY <2>0, <2>1, <2>2
<1>8. CASE /\ state.attempts # <<>>
           /\ Call(state, "re_reviewer", state.used, TRUE) /\ UNCHANGED producer
  BY <1>1, <1>2, <1>3, <1>4, <1>8, CallKeeps DEF Roles
<1>9. CASE Caught(state, "none")
  BY <1>1, <1>2, <1>3, <1>9, CaughtKeeps
<1> QED
  BY <1>5, <1>6, <1>7, <1>8, <1>9 DEF Start

LEMMA MaterializeKeeps == ASSUME WorkflowInv, Materialize PROVE WorkflowInv'
<1>1. at = "materialize" /\ UNCHANGED <<scope, handoffs, cancelled>>
  BY DEF Materialize
<1>2. /\ Sound(state, required) /\ state.status = "running" /\ state.route = None /\ Last(state) \in Nat
      /\ handoffs = {} /\ producer <= Last(state) /\ Types /\ state.launched = FALSE
  BY <1>1, StateSound DEF Sound
<1>3. CASE /\ attempt.role = "producer" \/ state.artifact = producer
           /\ \E l \in 0..MaxRounds, q \in BOOLEAN :
                /\ state' = [state EXCEPT !.limit = l]
                /\ required' = IF attempt.role = "producer" THEN q ELSE required
           /\ at' = "child" /\ UNCHANGED <<attempt, review, producer>>
  <2>1. PICK l \in 0..MaxRounds : state' = [state EXCEPT !.limit = l]
    BY <1>3
  <2>2. l \in Nat /\ l <= MaxRounds /\ required' \in BOOLEAN
    BY <1>2, <1>3, StageRunWorkflowAssumption DEF Types
  <2>3. /\ state' \in StateRecord /\ state'.limit = l /\ state'.attempts = state.attempts
        /\ state'.artifact = state.artifact /\ state'.used = state.used /\ state'.status = state.status
        /\ state'.route = state.route /\ state'.reviews = state.reviews /\ state'.launched = state.launched
    BY <1>2, <2>1, <2>2 DEF Sound, SoundHistory, StateRecord
  <2>4. SoundState'
    BY <1>1, <1>2, <2>2, <2>3 DEF Sound, SoundState, SoundHistory, SoundReview, SoundRoute, SoundEnd, Consumable,
       Last
  <2>5. Types'
    BY <1>1, <1>2, <1>3, <2>2, <2>3 DEF Types, Last
  <2>6. CompletedOnReview' /\ Undecided' /\ AtStart' /\ AtReceipt' /\ Handing'
    BY <1>1, <1>2, <1>3, <2>3 DEF CompletedOnReview, Undecided, AtStart, AtReceipt, Handing
  <2>7. InHand'
    BY <1>1, <1>3, <2>3 DEF WorkflowInv, InHand
  <2> QED
    BY <2>4, <2>5, <2>6, <2>7 DEF WorkflowInv
<1>4. CASE Caught(state, "none") /\ UNCHANGED required
  BY <1>1, <1>2, <1>4, CaughtKeeps DEF Types
<1>5. CASE Cancelled /\ UNCHANGED required
  BY <1>1, <1>5, CancelledKeeps
<1> QED
  BY <1>3, <1>4, <1>5 DEF Materialize

LEMMA ChildFailsKeeps == ASSUME WorkflowInv, ChildFails PROVE WorkflowInv'
<1>1. at = "child" /\ UNCHANGED <<scope, required, handoffs, cancelled>>
  BY DEF ChildFails
<1>2. CASE Caught(state, "none")
  BY <1>1, <1>2, StateSound, CaughtKeeps DEF Types
<1>3. CASE Cancelled
  BY <1>1, <1>3, CancelledKeeps
<1> QED
  BY <1>2, <1>3 DEF ChildFails

LEMMA IdentityFailsKeeps == ASSUME WorkflowInv, IdentityFails PROVE WorkflowInv'
<1>1. at = "child" /\ UNCHANGED <<scope, required, handoffs, cancelled>>
  BY DEF IdentityFails
<1>2. /\ Sound(state, required') /\ state.status = "running" /\ state.route = None /\ Last(state) \in Nat
      /\ handoffs = {} /\ producer \in 0..Last(state) /\ Types /\ required' \in BOOLEAN
  BY <1>1, StateSound DEF Types
<1> DEFINE t == [state EXCEPT !.attempts = Append(@, Entry(attempt.role, None))]
<1>3. PICK class \in {"none"} \cup Classes : Caught(t, class)
  BY DEF IdentityFails, Classes
<1>5. attempt.role \in Roles /\ None \in Artifacts /\ None <= Last(state) + 1 /\ state.artifact \in Artifacts
  BY <1>2 DEF Types, None, Artifacts, Sound, SoundHistory, StateRecord
<1>4. Appends(state, t, attempt.role, None, state.artifact)
  BY <1>2, <1>5, AppendsAttempt DEF Sound, SoundHistory
<1> HIDE DEF t
<1>6. Sound(t, required') /\ t.status = "running" /\ Last(t) = Last(state) + 1
  BY <1>2, <1>4, <1>5, AppendSound
<1> QED
  BY <1>1, <1>2, <1>3, <1>6, CaughtKeeps

-----------------------------------------------------------------------------
(* An attempt has returned. *)

\* The state with the attempt in hand appended.
LEMMA AppendedSound ==
  ASSUME WorkflowInv, at = "child", NEW artifact \in {Number, state.artifact}
  PROVE  LET t == Appended(artifact) IN
         /\ Sound(t, required) /\ t.status = "running" /\ t.route = None /\ t.used = state.used
         /\ t.limit = state.limit
         /\ Last(t) = Number /\ Number \in Nat /\ Number >= 1 /\ producer < Number
         /\ t.attempts[Last(t)] = Entry(attempt.role, artifact)
         /\ t.artifact = IF attempt.role = "repairer" THEN state.artifact ELSE artifact
<1> DEFINE t == Appended(artifact)
           a == IF attempt.role = "repairer" THEN state.artifact ELSE artifact
<1>1. /\ Sound(state, required) /\ state.status = "running" /\ state.route = None /\ Last(state) \in Nat
      /\ producer \in 0..Last(state) /\ attempt.role \in Roles
  BY StateSound DEF Types
<1>2. /\ state \in StateRecord /\ state.artifact \in Artifacts /\ state.artifact <= Last(state)
  BY <1>1 DEF Sound, SoundHistory, StateRecord
<1>3. state.artifact \in Int /\ Number \in Nat /\ Number = Last(state) + 1
  BY <1>1, <1>2 DEF Artifacts, Inherited, Number
<1>4. /\ artifact \in Artifacts /\ artifact <= Last(state) + 1 /\ a \in Artifacts
      /\ a = state.artifact \/ (a = Last(state) + 1 /\ artifact = a)
  BY <1>1, <1>2, <1>3 DEF Artifacts
<1>5. Appends(state, t, attempt.role, artifact, a)
  BY <1>2, <1>1, <1>4, AppendsAttempt DEF Appended
<1> HIDE DEF t, a
<1>6. /\ Sound(t, required) /\ Last(t) = Last(state) + 1 /\ t.attempts[Last(t)] = Entry(attempt.role, artifact)
      /\ t.artifact = a /\ t.used = state.used /\ t.limit = state.limit /\ t.status = state.status
      /\ t.route = None
  BY <1>1, <1>4, <1>5, AppendSound
<1> QED
  BY <1>1, <1>3, <1>6 DEF t, a

\* An attempt without a result ends the run, but for one that may be recovered.
LEMMA UnsuccessfulSound ==
  ASSUME NEW s, NEW formal, Sound(s, formal), s.status = "running", NEW r \in Unsuccessful(s)
  PROVE  /\ Sound(r, formal) /\ r.status # "completed" /\ r.attempts = s.attempts /\ r.artifact = s.artifact
         /\ r.route = s.route
         /\ ~Stopped(r) => r = s /\ Consumable(s) /\ Recoverable /\ ~Reviewing(attempt.role)
         /\ Stopped(r) => r.status # "running"
<1>1. CASE \E status \in {"human_gate", "blocked"}, class \in Classes : r = Stop(s, status, class)
  <2>1. PICK status \in {"human_gate", "blocked"}, class \in Classes : r = Stop(s, status, class)
    BY <1>1
  <2>2. status \in Statuses /\ status \notin {"completed", "debt"} /\ class \in {"none"} \cup Classes
    BY DEF Statuses
  <2>3. Sound(r, formal) /\ r.status = status
    BY <2>1, <2>2, EndSound
  <2>4. r.route = s.route /\ r.attempts = s.attempts /\ r.artifact = s.artifact
    BY <2>1, <2>2, EndSound
  <2> QED
    BY <2>2, <2>3, <2>4 DEF Stopped
<1>2. CASE r = End(s, "blocked")
  BY <1>2, EndSound DEF Statuses, Stopped
<1>3. CASE r = End(s, "debt") /\ Consumable(s)
  BY <1>3, EndSound DEF Statuses, Stopped
<1>4. CASE r = s /\ Consumable(s) /\ Recoverable
  BY <1>4 DEF Stopped, Recoverable, Reviewing
<1>5. \/ \E status \in {"human_gate", "blocked"}, class \in Classes : r = Stop(s, status, class)
      \/ r = End(s, "blocked")
      \/ r = End(s, "debt") /\ Consumable(s)
      \/ r = s /\ Consumable(s) /\ Recoverable
  <2>1. \A class \in Classes : StopStatus(class) \in {"human_gate", "blocked"}
    BY DEF StopStatus
  <2>2. "human" \in Classes /\ "zero" \in Classes
    BY DEF Classes
  <2> DEFINE rest == CASE Consumable(s) /\ Recoverable -> s
                       [] Consumable(s) /\ ~Recoverable /\ ~Reviewing(attempt.role) -> End(s, "debt")
                       [] Consumable(s) /\ Reviewing(attempt.role) -> End(s, "blocked")
                       [] OTHER -> Stop(s, "blocked", "zero")
  <2>3. \/ rest = s /\ Consumable(s) /\ Recoverable
        \/ rest = End(s, "debt") /\ Consumable(s)
        \/ rest = End(s, "blocked") \/ rest = Stop(s, "blocked", "zero")
    <3>1. Recoverable => ~Reviewing(attempt.role)
      BY DEF Recoverable, Reviewing
    <3> QED
      BY <3>1
  <2> HIDE DEF rest
  <2>4. \/ r = Stop(s, "human_gate", "human") \/ r = End(s, "blocked")
        \/ \E class \in Classes : r = Stop(s, StopStatus(class), class)
        \/ r = rest
    BY DEF Unsuccessful, rest
  <2> QED
    BY <2>1, <2>2, <2>3, <2>4
<1> QED
  BY <1>1, <1>2, <1>3, <1>4, <1>5

LEMMA ProducerReturnsKeeps == ASSUME WorkflowInv, ProducerReturns PROVE WorkflowInv'
<1>1. at = "child" /\ attempt.role = "producer" /\ UNCHANGED <<scope, required, handoffs, cancelled>>
  BY DEF ProducerReturns
<1>2. PICK made \in BOOLEAN, decides \in BOOLEAN : \E r \in Results(made) :
         \/ /\ Stopped(r)
            /\ Terminalize(IF ~required /\ r.status = "debt" THEN Commit(r, decides) ELSE r)
         \/ /\ ~Stopped(r) /\ ~required
            /\ Terminalize(End(Commit(r, decides), "completed"))
         \/ /\ ~Stopped(r) /\ required
            /\ Call(r, "reviewer", 0, FALSE) /\ producer' = Number
  BY DEF ProducerReturns
<1>3. PICK r \in Results(made) :
         \/ /\ Stopped(r)
            /\ Terminalize(IF ~required /\ r.status = "debt" THEN Commit(r, decides) ELSE r)
         \/ /\ ~Stopped(r) /\ ~required
            /\ Terminalize(End(Commit(r, decides), "completed"))
         \/ /\ ~Stopped(r) /\ required
            /\ Call(r, "reviewer", 0, FALSE) /\ producer' = Number
  BY <1>2
<1> DEFINE s == Appended(IF made THEN Number ELSE state.artifact)
<1>4. /\ Sound(s, required) /\ s.status = "running" /\ s.route = None /\ s.used = 0
      /\ Last(s) = Number /\ Number \in Nat /\ Number >= 1 /\ producer < Number
      /\ s.attempts[Last(s)].artifact = s.artifact
      /\ made => s.artifact = Number
  <2>1. state.used = 0
    BY <1>1 DEF WorkflowInv, InHand
  <2>2. (IF made THEN Number ELSE state.artifact) \in {Number, state.artifact}
    OBVIOUS
  <2> QED
    BY <1>1, <2>1, <2>2, AppendedSound DEF Entry
<1>5. r \in Unsuccessful(s) \/ (made /\ r = s)
  BY DEF Results
<1> HIDE DEF s
<1>6. /\ Sound(r, required) /\ r.status # "completed" /\ r.attempts = s.attempts /\ r.artifact = s.artifact
      /\ r.route = None /\ Last(r) = Number
      /\ ~Stopped(r) => r = s /\ Consumable(r) /\ (~required => made)
      /\ Stopped(r) => r.status # "running"
  <2>1. CASE r \in Unsuccessful(s)
    BY <1>1, <1>4, <2>1, UnsuccessfulSound DEF Recoverable, Last
  <2>2. CASE made /\ r = s
    BY <1>4, <2>2 DEF Stopped, Consumable, None
  <2> QED
    BY <1>5, <2>1, <2>2
<1>7. /\ Types /\ handoffs = {} /\ UNCHANGED <<scope, handoffs, cancelled>> /\ required' = required
      /\ required' \in BOOLEAN /\ producer \in Nat
  BY <1>1, StateSound, LastType DEF Types, Sound, SoundHistory
<1> DEFINE c == Commit(r, decides)
<1>8. ASSUME ~required
      PROVE  /\ Sound(c, required) /\ c.status = r.status /\ c.artifact = r.artifact /\ Last(c) = Number
  BY <1>4, <1>6, <1>8, CommitSound DEF Last
<1> HIDE DEF c
<1>9. CASE Stopped(r) /\ Terminalize(IF ~required /\ r.status = "debt" THEN c ELSE r)
  <2>1. CASE ~required /\ r.status = "debt"
    BY <1>4, <1>6, <1>7, <1>8, <1>9, <2>1, TerminalizeKeeps
  <2>2. CASE ~(~required /\ r.status = "debt")
    BY <1>4, <1>6, <1>7, <1>9, <2>2, TerminalizeKeeps
  <2> QED
    BY <2>1, <2>2
<1>10. CASE ~Stopped(r) /\ ~required /\ Terminalize(End(c, "completed"))
  <2> DEFINE e == End(c, "completed")
  <2>1. Consumable(c)
    BY <1>6, <1>8, <1>10 DEF Consumable
  <2>2. Sound(e, required) /\ e.status = "completed" /\ e.attempts = c.attempts
    BY <1>8, <1>10, <2>1, EndSound DEF Statuses
  <2>3. producer <= Last(e)
    BY <1>4, <1>7, <1>8, <1>10, <2>2 DEF Last
  <2>4. Terminalize(e)
    BY <1>10
  <2> HIDE DEF e
  <2> QED
    BY <1>7, <1>10, <2>2, <2>3, <2>4, TerminalizeKeeps
<1>11. CASE ~Stopped(r) /\ required /\ Call(r, "reviewer", 0, FALSE) /\ producer' = Number
  <2>1. 0 \in 0..scope /\ "reviewer" \in Roles /\ FALSE \in BOOLEAN
    BY <1>7, StageRunWorkflowAssumption DEF Types, Roles
  <2>2. Sound(r, required') /\ r.status = "running" /\ r.route = None /\ r.used = 0
    BY <1>4, <1>6, <1>7, <1>11
  <2>3. producer' \in 0..Last(r) /\ producer' >= 1
    BY <1>4, <1>6, <1>11
  <2> QED
    BY <1>7, <1>11, <2>1, <2>2, <2>3, CallKeeps
<1> QED
  BY <1>3, <1>9, <1>10, <1>11 DEF c

\* The state with a repairer's artifact become the run's.
LEMMA RepairedSound ==
  ASSUME WorkflowInv, at = "child", attempt.role = "repairer"
  PROVE  LET t == [Appended(Number) EXCEPT !.artifact = Number] IN
         /\ Sound(t, required) /\ t.status = "running" /\ t.route = None /\ Last(t) = Number
         /\ Consumable(t)
<1> DEFINE s == Appended(Number)
           t == [s EXCEPT !.artifact = Number]
<1>1. /\ Sound(state, required) /\ state.status = "running" /\ state.route = None /\ Last(state) \in Nat
      /\ state \in StateRecord
  BY StateSound DEF Sound, SoundHistory
<1>2. Number \in Artifacts /\ Number = Last(state) + 1 /\ Number # None /\ "repairer" \in Roles
  BY <1>1 DEF Artifacts, Number, None, Roles
<1>3. Appends(state, s, "repairer", Number, state.artifact)
  <2>1. state.artifact \in Artifacts
    BY <1>1 DEF StateRecord
  <2> QED
    BY <1>1, <1>2, <2>1, AppendsAttempt DEF Appended
<1> HIDE DEF s
<1>4. Appends(state, t, "repairer", Number, Number)
  BY <1>2, <1>3 DEF Appends, StateRecord
<1> HIDE DEF t
<1>5. /\ Sound(t, required) /\ Last(t) = Number /\ t.artifact = Number /\ t.status = "running"
      /\ t.route = None
  BY <1>1, <1>2, <1>4, AppendSound
<1> QED
  BY <1>2, <1>5 DEF Consumable, s, t

LEMMA RepairerReturnsKeeps == ASSUME WorkflowInv, RepairerReturns PROVE WorkflowInv'
<1>1. at = "child" /\ attempt.role = "repairer" /\ UNCHANGED <<scope, required, handoffs, cancelled>>
  BY DEF RepairerReturns
<1>2. PICK made \in BOOLEAN : \E r \in Results(made) :
         \/ Stopped(r) /\ Terminalize(r)
         \/ ~Stopped(r) /\ ~made /\ Terminalize(End(r, "debt"))
         \/ ~Stopped(r) /\ made /\ Caught(r, "none")
         \/ /\ ~Stopped(r) /\ made
            /\ \/ Terminalize(End([r EXCEPT !.artifact = Number], "debt"))
               \/ /\ Call([r EXCEPT !.artifact = Number], "re_reviewer", attempt.round, FALSE)
                  /\ producer' = Number
  BY DEF RepairerReturns
<1>3. PICK r \in Results(made) :
         \/ Stopped(r) /\ Terminalize(r)
         \/ ~Stopped(r) /\ ~made /\ Terminalize(End(r, "debt"))
         \/ ~Stopped(r) /\ made /\ Caught(r, "none")
         \/ /\ ~Stopped(r) /\ made
            /\ \/ Terminalize(End([r EXCEPT !.artifact = Number], "debt"))
               \/ /\ Call([r EXCEPT !.artifact = Number], "re_reviewer", attempt.round, FALSE)
                  /\ producer' = Number
  BY <1>2
<1> DEFINE s == Appended(IF made THEN Number ELSE state.artifact)
<1>4. /\ Sound(s, required) /\ s.status = "running" /\ s.route = None
      /\ Last(s) = Number /\ Number \in Nat /\ Number >= 1 /\ producer < Number
      /\ Consumable(s)
  <2>1. (IF made THEN Number ELSE state.artifact) \in {Number, state.artifact}
    OBVIOUS
  <2>2. state.artifact # None
    BY <1>1 DEF WorkflowInv, InHand, None
  <2> QED
    BY <1>1, <2>1, <2>2, AppendedSound DEF Consumable
<1>5. r \in Unsuccessful(s) \/ (made /\ r = s)
  BY DEF Results
<1>6. made => s = Appended(Number)
  OBVIOUS
<1> HIDE DEF s
<1>7. /\ Sound(r, required) /\ r.status # "completed" /\ Last(r) = Number
      /\ ~Stopped(r) => r = s
      /\ Stopped(r) => r.status # "running"
  <2>1. CASE r \in Unsuccessful(s)
    BY <1>4, <2>1, UnsuccessfulSound DEF Last
  <2>2. CASE made /\ r = s
    BY <1>4, <2>2 DEF Stopped
  <2> QED
    BY <1>5, <2>1, <2>2
<1>8. /\ Types /\ handoffs = {} /\ UNCHANGED <<scope, handoffs, cancelled>> /\ required' = required
      /\ required' \in BOOLEAN /\ producer \in Nat /\ "none" \in {"none"} \cup Classes
  BY <1>1, StateSound, LastType DEF Types, Sound, SoundHistory
<1> DEFINE repaired == [r EXCEPT !.artifact = Number]
<1>9. ~Stopped(r) /\ made => /\ Sound(repaired, required) /\ repaired.status = "running"
                             /\ repaired.route = None /\ Last(repaired) = Number /\ Consumable(repaired)
  BY <1>1, <1>6, <1>7, RepairedSound
<1> HIDE DEF repaired
<1>10. CASE Stopped(r) /\ Terminalize(r)
  BY <1>4, <1>7, <1>8, <1>10, TerminalizeKeeps
<1>11. ASSUME NEW t, Sound(t, required), Consumable(t), Last(t) = Number, Terminalize(End(t, "debt"))
       PROVE  WorkflowInv'
  <2> DEFINE e == End(t, "debt")
  <2>1. Sound(e, required) /\ e.status = "debt" /\ e.attempts = t.attempts
    BY <1>11, EndSound DEF Statuses
  <2>2. producer <= Last(e)
    BY <1>4, <1>8, <1>11, <2>1 DEF Last
  <2>3. Terminalize(e)
    BY <1>11
  <2> HIDE DEF e
  <2> QED
    BY <1>8, <2>1, <2>2, <2>3, TerminalizeKeeps
<1>12. CASE ~Stopped(r) /\ Terminalize(End(r, "debt"))
  BY <1>4, <1>7, <1>11, <1>12
<1>13. CASE ~Stopped(r) /\ Caught(r, "none")
  BY <1>4, <1>7, <1>8, <1>13, CaughtKeeps
<1>14. CASE ~Stopped(r) /\ made /\ Terminalize(End(repaired, "debt"))
  BY <1>9, <1>11, <1>14
<1>15. CASE ~Stopped(r) /\ made /\ Call(repaired, "re_reviewer", attempt.round, FALSE) /\ producer' = Number
  <2>1. attempt.round \in 0..scope /\ "re_reviewer" \in Roles /\ FALSE \in BOOLEAN
    BY <1>8 DEF Types, Roles
  <2>2. producer' \in 0..Last(repaired) /\ producer' >= 1
    BY <1>4, <1>9, <1>15
  <2>3. Sound(repaired, required') /\ repaired.status = "running" /\ repaired.route = None
    BY <1>8, <1>9, <1>15
  <2> QED
    BY <1>8, <1>15, <2>1, <2>2, <2>3, CallKeeps
<1> QED
  BY <1>3, <1>10, <1>12, <1>13, <1>14, <1>15 DEF repaired

-----------------------------------------------------------------------------
(* A review has returned, and its receipt. *)

\* The state with the review in hand appended: it was given the producer's artifact.
LEMMA ReviewedSound ==
  ASSUME WorkflowInv, at = "child", Reviewing(attempt.role)
  PROVE  LET t == Reviewed IN
         /\ Sound(t, required) /\ t.status = "running" /\ t.route = None /\ t.used = attempt.round
         /\ t.limit = state.limit /\ Last(t) = Number /\ Number \in Nat /\ t.artifact = producer
         /\ t.attempts[Last(t)] = Entry(attempt.role, producer)
         /\ producer \in Nat /\ producer >= 1 /\ producer < Number
<1> DEFINE s == Appended(state.artifact)
<1>1. attempt.role \in {"reviewer", "re_reviewer"}
  BY DEF Reviewing
<1>2. /\ producer >= 1 /\ state.artifact = producer /\ producer \in Nat
      /\ attempt.role = "reviewer" => attempt.round = 0 /\ state.used = 0
      /\ attempt.round \in 0..scope /\ scope \in Nat
  BY <1>1, StateSound, StageRunWorkflowAssumption DEF WorkflowInv, InHand, Types
<1>3. /\ Sound(s, required) /\ s.status = "running" /\ s.route = None /\ s.used = state.used
      /\ s.limit = state.limit
      /\ Last(s) = Number /\ Number \in Nat /\ producer < Number
      /\ s.attempts[Last(s)] = Entry(attempt.role, producer) /\ s.artifact = producer
  BY <1>1, <1>2, AppendedSound
<1>4. s \in StateRecord
  BY <1>3 DEF Sound, SoundHistory
<1>5. Reviewed = IF attempt.role = "re_reviewer" THEN [s EXCEPT !.used = attempt.round] ELSE s
  BY DEF Reviewed
<1> HIDE DEF s
<1>6. CASE attempt.role = "re_reviewer"
  <2> DEFINE t == [s EXCEPT !.used = attempt.round]
  <2>7. attempt.round \in Nat
    BY <1>2
  <2>1. /\ t \in StateRecord /\ t.attempts = s.attempts /\ t.artifact = s.artifact /\ t.used = attempt.round
        /\ t.limit = s.limit /\ t.status = s.status /\ t.reviews = s.reviews /\ t.launched = s.launched
        /\ t.route = s.route
    BY <1>4, <2>7 DEF StateRecord
  <2> HIDE DEF t
  <2>5. attempt.round \in Nat /\ attempt.round <= scope /\ Last(t) = Last(s) /\ s.route = None
    BY <1>2, <1>3, <2>1 DEF Last
  <2>6. SoundHistory(t)
    BY <1>3, <2>1, <2>5 DEF Sound, SoundHistory, SoundReview
  <2>2. Sound(t, required)
    BY <1>3, <2>1, <2>5, <2>6 DEF Sound, SoundRoute, SoundEnd, Consumable
  <2>3. Last(t) = Last(s)
    BY <2>1 DEF Last
  <2>4. Reviewed = t
    BY <1>5, <1>6 DEF t
  <2> QED
    BY <1>2, <1>3, <2>1, <2>2, <2>3, <2>4
<1>7. CASE attempt.role = "reviewer"
  BY <1>2, <1>3, <1>5, <1>7
<1> QED
  BY <1>1, <1>6, <1>7

LEMMA ReviewerStopsKeeps == ASSUME WorkflowInv, ReviewerStops PROVE WorkflowInv'
<1>1. at = "child" /\ Reviewing(attempt.role) /\ UNCHANGED <<scope, required, handoffs, cancelled>>
  BY DEF ReviewerStops
<1>2. PICK r \in Unsuccessful(Reviewed) : Terminalize(r)
  BY DEF ReviewerStops
<1>3. /\ Sound(r, required) /\ r.status # "completed" /\ r.status # "running" /\ producer <= Last(r)
  BY <1>1, ReviewedSound, UnsuccessfulSound DEF Last
<1> QED
  BY <1>1, <1>2, <1>3, StateSound, TerminalizeKeeps DEF Types

LEMMA ReviewReturnsKeeps == ASSUME WorkflowInv, ReviewReturns PROVE WorkflowInv'
<1>1. at = "child" /\ Reviewing(attempt.role) /\ UNCHANGED <<scope, required, handoffs, cancelled>>
  BY DEF ReviewReturns
<1>2. PICK outcome \in Outcomes, open \in BOOLEAN, wellFormed \in BOOLEAN, decides \in BOOLEAN,
           back \in BOOLEAN, snapshotDebt \in BOOLEAN :
       LET valid == wellFormed /\ Consistent(outcome, open)
           decided == decides /\ Decisive(outcome, Consistent(outcome, open), back)
           s == Commit(Reviewed, decided)
           overBudget == /\ attempt.role = "re_reviewer" /\ ~attempt.resumed
                         /\ ~HardStop(outcome) /\ attempt.round \notin 1..state.limit
       IN \/ (~valid \/ overBudget) /\ Caught(s, "none")
          \/ /\ valid /\ ~overBudget
             /\ state' \in IF HardStop(outcome)
                           THEN {Stop(s, outcome, class) :
                                   class \in IF outcome = "blocked" THEN Classes ELSE {"human"}}
                           ELSE {s}
             /\ review' = [outcome |-> outcome, open |-> open, snapshotDebt |-> snapshotDebt,
                           back |-> decided /\ back /\ outcome = "repair"]
             /\ at' = "receipt" /\ UNCHANGED <<attempt, producer>>
  BY DEF ReviewReturns
<1> DEFINE decided == decides /\ Decisive(outcome, Consistent(outcome, open), back)
           s == Commit(Reviewed, decided)
<1>3. \/ Caught(s, "none")
      \/ /\ Consistent(outcome, open)
         /\ state' \in IF HardStop(outcome)
                       THEN {Stop(s, outcome, class) :
                               class \in IF outcome = "blocked" THEN Classes ELSE {"human"}}
                       ELSE {s}
         /\ review' = [outcome |-> outcome, open |-> open, snapshotDebt |-> snapshotDebt,
                       back |-> decided /\ back /\ outcome = "repair"]
         /\ at' = "receipt" /\ UNCHANGED <<attempt, producer>>
  BY <1>2
<1>4. decided \in BOOLEAN /\ (decided /\ outcome = "repair" => back \/ state.limit = attempt.round)
  BY DEF Decisive
<1> HIDE DEF decided
<1>5. /\ Sound(s, required) /\ s.status = "running" /\ s.used = attempt.round /\ s.limit = state.limit
      /\ s.artifact = producer /\ s.attempts[Last(s)].artifact = producer
      /\ s.route # None => decided
      /\ producer \in Nat /\ producer >= 1 /\ producer < Last(s) /\ Last(s) \in Nat
  <2> DEFINE t == Reviewed
  <2>1. /\ Sound(t, required) /\ t.status = "running" /\ t.route = None /\ t.used = attempt.round
        /\ t.limit = state.limit /\ Last(t) = Number /\ Number \in Nat /\ t.artifact = producer
        /\ t.attempts[Last(t)].artifact = producer /\ t.attempts[Last(t)].role = attempt.role
        /\ producer \in Nat /\ producer >= 1 /\ producer < Number
    BY <1>1, ReviewedSound DEF Entry
  <2> HIDE DEF t
  <2>2. /\ Sound(Commit(t, decided), required) /\ Commit(t, decided).attempts = t.attempts
        /\ Commit(t, decided).artifact = t.artifact /\ Commit(t, decided).used = t.used
        /\ Commit(t, decided).limit = t.limit /\ Commit(t, decided).status = t.status
        /\ Commit(t, decided).route # None => decided
    BY <1>1, <1>4, <2>1, CommitSound
  <2>3. s = Commit(t, decided)
    BY DEF t
  <2> HIDE DEF s
  <2> QED
    BY <2>1, <2>2, <2>3 DEF Last
<1> HIDE DEF s
<1>6. /\ Types /\ handoffs = {} /\ required' \in BOOLEAN /\ required' = required
      /\ "none" \in {"none"} \cup Classes
  BY <1>1, StateSound DEF Types
<1>7. CASE Caught(s, "none")
  BY <1>1, <1>5, <1>6, <1>7, CaughtKeeps
<1>8. CASE /\ Consistent(outcome, open)
           /\ state' \in IF HardStop(outcome)
                         THEN {Stop(s, outcome, class) :
                                 class \in IF outcome = "blocked" THEN Classes ELSE {"human"}}
                         ELSE {s}
           /\ review' = [outcome |-> outcome, open |-> open, snapshotDebt |-> snapshotDebt,
                         back |-> decided /\ back /\ outcome = "repair"]
           /\ at' = "receipt" /\ UNCHANGED <<attempt, producer>>
  <2>1. /\ Sound(state', required) /\ state'.artifact = producer /\ state'.attempts = s.attempts
        /\ state'.used = attempt.round /\ state'.limit = state.limit /\ state'.route = s.route
        /\ state'.status = IF HardStop(outcome) THEN outcome ELSE "running"
    <3>1. CASE HardStop(outcome)
      <4>1. PICK class \in Classes : state' = Stop(s, outcome, class)
        BY <1>8, <3>1 DEF Classes
      <4>2. outcome \in Statuses /\ outcome \notin {"completed", "debt"}
        BY <3>1 DEF HardStop, Statuses
      <4>5. class \in {"none"} \cup Classes
        OBVIOUS
      <4>3. Sound(state', required) /\ state'.status = outcome
        BY <1>5, <4>1, <4>2, <4>5, EndSound
      <4>4. /\ state'.artifact = s.artifact /\ state'.attempts = s.attempts /\ state'.used = s.used
            /\ state'.limit = s.limit /\ state'.route = s.route
        BY <1>5, <4>1, <4>2, EndSound
      <4> QED
        BY <1>5, <3>1, <4>3, <4>4
    <3>2. CASE ~HardStop(outcome)
      BY <1>5, <1>8, <3>2
    <3> QED
      BY <3>1, <3>2
  <2>2. state'.status \notin {"completed", "debt"} /\ Last(state') = Last(s)
    BY <2>1 DEF HardStop, Last
  <2>3. /\ review'.outcome = outcome /\ review'.open = open
        /\ review'.back = (decided /\ back /\ outcome = "repair")
        /\ review' \in [outcome : Outcomes, open : BOOLEAN, snapshotDebt : BOOLEAN, back : BOOLEAN]
    BY <1>4, <1>8
  <2>4. Types'
    BY <1>1, <1>5, <1>6, <1>8, <2>2, <2>3 DEF Types
  <2>5. SoundState'
    BY <1>1, <2>1 DEF Sound, SoundState, SoundHistory, SoundReview, SoundRoute, SoundEnd
  <2>6. CompletedOnReview' /\ Undecided' /\ AtStart' /\ InHand'
    BY <1>8, <2>2 DEF CompletedOnReview, Undecided, AtStart, InHand
  <2>7. Handing'
    BY <1>1, <1>6, <1>8, <2>1 DEF Handing, Sound
  <2>8. AtReceipt'
    <3>1. state'.route # None /\ outcome = "repair" => review'.back \/ state'.limit = attempt.round
      BY <1>4, <1>5, <2>1, <2>3
    <3>2. HardStop(outcome) \/ (outcome = "repair") = open
      BY <1>8 DEF Consistent
    <3>3. state'.attempts[Last(state')].artifact = producer
      BY <1>5, <2>1, <2>2
    <3> QED
      BY <1>1, <1>5, <1>8, <2>1, <2>3, <3>1, <3>2, <3>3 DEF AtReceipt
  <2> QED
    BY <2>4, <2>5, <2>6, <2>7, <2>8 DEF WorkflowInv
<1> QED
  BY <1>3, <1>7, <1>8

\* The state with the receipt's review.
LEMMA ReceivedSound ==
  ASSUME WorkflowInv, at = "receipt"
  PROVE  LET t == Received
             verdict == IF HardStop(review.outcome) THEN "hard_stop" ELSE review.outcome IN
         /\ Sound(t, required) /\ t.attempts = state.attempts /\ t.artifact = producer
         /\ t.used = attempt.round /\ t.status = state.status /\ t.route = state.route
         /\ t.reviews # <<>>
         /\ t.reviews[Len(t.reviews)] = [by |-> Last(t), of |-> producer, verdict |-> verdict]
         /\ producer >= 1 /\ producer \in 0..Last(t)
<1> DEFINE verdict == IF HardStop(review.outcome) THEN "hard_stop" ELSE review.outcome
           given == [by |-> Last(state), of |-> producer, verdict |-> verdict]
           t == Received
<1>1. /\ Sound(state, required) /\ Last(state) \in Nat /\ producer \in 1..Last(state)
      /\ state.artifact = producer /\ state.attempts[Last(state)].artifact = producer
      /\ state.used = attempt.round /\ state \in StateRecord /\ review.outcome \in Outcomes
  <2>1. Sound(state, required) /\ Last(state) \in Nat /\ Types /\ state \in StateRecord
    BY StateSound DEF Sound, SoundHistory
  <2>2. /\ producer >= 1 /\ state.artifact = producer /\ state.used = attempt.round
        /\ state.attempts[Last(state)].artifact = producer
    BY DEF WorkflowInv, AtReceipt
  <2>3. producer \in 0..Last(state) /\ review.outcome \in Outcomes
    BY <2>1 DEF Types
  <2> QED
    BY <2>1, <2>2, <2>3
<1>2. given \in [by : Nat, of : Nat, verdict : Verdicts]
  BY <1>1 DEF Verdicts, Outcomes, HardStop
<1>3. t = [state EXCEPT !.reviews = Append(@, given)]
  BY DEF Received
<1> DEFINE more == Append(state.reviews, given)
<1>4. state.reviews \in Seq([by : Nat, of : Nat, verdict : Verdicts])
  BY <1>1 DEF StateRecord
<1>11. given.by = Last(state) /\ given.of = producer
  OBVIOUS
<1> HIDE DEF t, given
<1>5. /\ more \in Seq([by : Nat, of : Nat, verdict : Verdicts])
      /\ Len(more) = Len(state.reviews) + 1 /\ more[Len(more)] = given /\ Len(state.reviews) \in Nat
      /\ \A i \in 1..Len(state.reviews) : more[i] = state.reviews[i]
  BY <1>2, <1>4
<1>6. t = [state EXCEPT !.reviews = more]
  BY <1>3
<1> HIDE DEF more
<1>7. /\ t \in StateRecord /\ t.attempts = state.attempts /\ t.artifact = state.artifact /\ t.used = state.used
      /\ t.limit = state.limit /\ t.status = state.status /\ t.route = state.route /\ t.reviews = more
      /\ t.launched = state.launched
  BY <1>1, <1>5, <1>6 DEF StateRecord
<1>8. Last(t) = Last(state)
  BY <1>7 DEF Last
<1>9. SoundHistory(t)
  <2>1. ASSUME NEW i \in 1..Len(t.reviews)
        PROVE  SoundReview(t, t.reviews[i])
    <3>1. CASE i = Len(more)
      <4>1. t.reviews[i] = given
        BY <1>5, <1>7, <3>1
      <4>2. state.attempts[producer].artifact = producer
        BY <1>1 DEF Sound, SoundHistory
      <4> QED
        BY <1>1, <1>7, <1>8, <1>11, <4>1, <4>2 DEF SoundReview
    <3>2. CASE i # Len(more)
      <4>1. i \in 1..Len(state.reviews) /\ t.reviews[i] = state.reviews[i]
        BY <1>5, <1>7, <3>2, SMTT(30)
      <4> QED
        BY <1>1, <1>7, <1>8, <4>1 DEF Sound, SoundHistory, SoundReview
    <3> QED
      BY <3>1, <3>2
  <2> QED
    BY <1>1, <1>7, <1>8, <2>1 DEF Sound, SoundHistory
<1>10. Sound(t, required)
  BY <1>1, <1>7, <1>8, <1>9 DEF Sound, SoundRoute, SoundEnd, Consumable
<1>12. t.reviews # <<>> /\ t.reviews[Len(t.reviews)] = given
  BY <1>5, <1>7
<1> QED
  BY <1>1, <1>7, <1>8, <1>10, <1>12 DEF t, given

LEMMA ReceiptFailsKeeps == ASSUME WorkflowInv, ReceiptFails PROVE WorkflowInv'
<1>1. at = "receipt" /\ UNCHANGED <<scope, required, handoffs, cancelled>>
  BY DEF ReceiptFails
<1>2. CASE Caught(state, "none")
  BY <1>1, <1>2, StateSound, CaughtKeeps DEF Types
<1>3. CASE Cancelled
  BY <1>1, <1>3, CancelledKeeps
<1> QED
  BY <1>2, <1>3 DEF ReceiptFails

LEMMA EndsWithReviewKeeps == ASSUME WorkflowInv, EndsWithReview PROVE WorkflowInv'
<1>1. at = "receipt" /\ review.outcome # "repair" /\ UNCHANGED <<scope, required, handoffs, cancelled>>
  BY DEF EndsWithReview
<1>2. /\ Types /\ handoffs = {} /\ required' \in BOOLEAN /\ required' = required
  BY <1>1, StateSound DEF Types
<1> DEFINE t == Received
<1>3. /\ Sound(t, required) /\ t.artifact = producer /\ t.status = state.status /\ t.reviews # <<>>
      /\ producer >= 1 /\ producer <= Last(t) /\ producer \in Nat
  BY <1>1, <1>2, ReceivedSound DEF Types
<1>4. ~HardStop(review.outcome) =>
        t.reviews[Len(t.reviews)] = [by |-> Last(t), of |-> producer, verdict |-> review.outcome]
  BY <1>1, ReceivedSound
<1>5. /\ state.status = IF HardStop(review.outcome) THEN review.outcome ELSE "running"
      /\ HardStop(review.outcome) \/ ~review.open
  BY <1>1 DEF WorkflowInv, AtReceipt
<1>6. \/ HardStop(review.outcome) /\ Terminalize(t)
      \/ ~HardStop(review.outcome) /\ review.outcome = "pass" /\ Terminalize(End(t, "completed"))
      \/ ~HardStop(review.outcome) /\ Terminalize(End(t, "debt"))
  <2> DEFINE end == CASE HardStop(review.outcome) -> t
                      [] review.outcome = "pass" /\ ~review.snapshotDebt -> End(t, "completed")
                      [] OTHER -> End(t, "debt")
  <2>1. Terminalize(end)
    BY DEF EndsWithReview
  <2>2. HardStop(review.outcome) => review.outcome # "pass"
    BY DEF HardStop
  <2>3. \/ HardStop(review.outcome) /\ end = t
        \/ ~HardStop(review.outcome) /\ review.outcome = "pass" /\ end = End(t, "completed")
        \/ ~HardStop(review.outcome) /\ end = End(t, "debt")
    BY <2>2
  <2> HIDE DEF t, end
  <2> QED
    BY <2>1, <2>3
<1> HIDE DEF t
<1>7. Consumable(t)
  BY <1>3 DEF Consumable, None
<1>8. CASE HardStop(review.outcome) /\ Terminalize(t)
  <2>1. t.status \notin {"running", "completed"}
    BY <1>3, <1>5, <1>8 DEF HardStop
  <2> QED
    BY <1>1, <1>2, <1>3, <1>8, <2>1, TerminalizeKeeps
<1>9. CASE ~HardStop(review.outcome) /\ review.outcome = "pass" /\ Terminalize(End(t, "completed"))
  <2> DEFINE e == End(t, "completed")
  <2>1. /\ Sound(e, required) /\ e.status = "completed" /\ e.attempts = t.attempts
        /\ e.artifact = t.artifact /\ e.reviews = t.reviews
    BY <1>3, <1>7, EndSound, ZenonT(40) DEF Statuses
  <2>2. Terminalize(e)
    BY <1>9
  <2> HIDE DEF e
  <2>3. Last(e) = Last(t)
    BY <2>1 DEF Last
  <2>4. Accepted(e)
    BY <1>3, <1>4, <1>9, <2>1, <2>3 DEF Accepted
  <2> QED
    BY <1>1, <1>2, <1>3, <1>5, <1>9, <2>1, <2>2, <2>3, <2>4, TerminalizeKeeps
<1>10. CASE Terminalize(End(t, "debt"))
  <2> DEFINE e == End(t, "debt")
  <2>1. Sound(e, required) /\ e.status = "debt" /\ e.attempts = t.attempts
    BY <1>3, <1>7, EndSound DEF Statuses
  <2>2. Terminalize(e)
    BY <1>10
  <2> HIDE DEF e
  <2>3. Last(e) = Last(t)
    BY <2>1 DEF Last
  <2> QED
    BY <1>1, <1>2, <1>3, <2>1, <2>2, <2>3, TerminalizeKeeps
<1> QED
  BY <1>6, <1>8, <1>9, <1>10

LEMMA RepairRequiredKeeps == ASSUME WorkflowInv, RepairRequired PROVE WorkflowInv'
<1>1. at = "receipt" /\ review.outcome = "repair" /\ UNCHANGED <<scope, required, handoffs, cancelled>>
  BY DEF RepairRequired
<1>2. /\ Types /\ handoffs = {} /\ required' \in BOOLEAN /\ required' = required /\ producer \in Nat
      /\ scope \in Nat /\ attempt.round \in 0..scope /\ "none" \in {"none"} \cup Classes
  BY <1>1, StateSound, StageRunWorkflowAssumption DEF Types
<1> DEFINE t == Received
<1>3. /\ Sound(t, required) /\ t.artifact = producer /\ t.status = "running" /\ t.route = state.route
      /\ t.used = attempt.round
      /\ producer >= 1 /\ producer \in 0..Last(t) /\ producer <= Last(t)
  <2>1. state.status = "running"
    BY <1>1 DEF WorkflowInv, AtReceipt, HardStop
  <2> QED
    BY <1>1, <1>2, <2>1, ReceivedSound
<1>4. state.route # None => review.back \/ state.limit = attempt.round
  BY <1>1 DEF WorkflowInv, AtReceipt
<1>5. \/ Terminalize(End(t, "debt"))
      \/ /\ ~(t.used >= scope) /\ ~review.back /\ attempt.round < state.limit
         /\ Call(t, "repairer", attempt.round + 1, FALSE) /\ UNCHANGED producer
      \/ Caught(t, "none")
  BY DEF RepairRequired, ScopeExhausted
<1> HIDE DEF t
<1>6. CASE Terminalize(End(t, "debt"))
  <2> DEFINE e == End(t, "debt")
  <2>1. Sound(e, required) /\ e.status = "debt" /\ e.attempts = t.attempts
    BY <1>3, EndSound DEF Statuses, Consumable, None
  <2>2. Terminalize(e)
    BY <1>6
  <2> HIDE DEF e
  <2>3. Last(e) = Last(t)
    BY <2>1 DEF Last
  <2> QED
    BY <1>1, <1>2, <1>3, <2>1, <2>2, <2>3, TerminalizeKeeps
<1>7. CASE /\ ~(t.used >= scope) /\ ~review.back /\ attempt.round < state.limit
           /\ Call(t, "repairer", attempt.round + 1, FALSE) /\ UNCHANGED producer
  <2>1. attempt.round + 1 \in 0..scope /\ "repairer" \in Roles /\ FALSE \in BOOLEAN
    BY <1>2, <1>3, <1>7 DEF Roles
  <2>2. t.route = None
    <3>1. attempt.round # state.limit
      BY <1>1, <1>2, <1>7, StateSound DEF Sound, SoundHistory, StateRecord
    <3> QED
      BY <1>3, <1>4, <1>7, <3>1
  <2>3. Sound(t, required') /\ producer' \in 0..Last(t) /\ producer' >= 1
    BY <1>2, <1>3, <1>7
  <2> QED
    BY <1>1, <1>2, <1>3, <1>7, <2>1, <2>2, <2>3, CallKeeps
<1>8. CASE Caught(t, "none")
  BY <1>1, <1>2, <1>3, <1>8, CaughtKeeps
<1> QED
  BY <1>5, <1>6, <1>7, <1>8

-----------------------------------------------------------------------------
(* The end. *)

LEMMA HandoffKeeps == ASSUME WorkflowInv, Handoff PROVE WorkflowInv'
<1>1. /\ at = "handoff" /\ at' = "project"
      /\ UNCHANGED <<scope, required, producer, attempt, review, cancelled>>
  BY DEF Handoff
<1>2. /\ Types /\ SoundState /\ state \in StateRecord /\ NeedsHandoff(state) /\ handoffs = {} 
      /\ Last(state) \in Nat
  BY <1>1, LastType DEF WorkflowInv, Handing, SoundState, SoundHistory
<1>3. \/ state' = [state EXCEPT !.launched = TRUE]
      \/ state' = [state EXCEPT !.status = "failed"]
  BY DEF Handoff, End
<1>4. handoffs' \subseteq {Handed}
  BY <1>2 DEF Handoff
<1>5. /\ state' \in StateRecord /\ state'.attempts = state.attempts /\ state'.artifact = state.artifact
      /\ state'.used = state.used /\ state'.limit = state.limit /\ state'.route = state.route
      /\ state'.reviews = state.reviews
      /\ state'.status = "failed" \/ (state'.status = state.status /\ state'.launched = TRUE)
  <2>1. CASE state' = [state EXCEPT !.launched = TRUE]
    BY <1>2, <2>1 DEF StateRecord
  <2>2. CASE state' = [state EXCEPT !.status = "failed"]
    BY <1>2, <2>2 DEF StateRecord, Statuses
  <2> QED
    BY <1>3, <2>1, <2>2
<1>6. Types'
  BY <1>1, <1>2, <1>5 DEF Types, Last
<1>7. SoundState'
  BY <1>1, <1>2, <1>5 DEF SoundState, SoundHistory, SoundReview, SoundRoute, SoundEnd, Consumable, Last
<1>8. CompletedOnReview'
  BY <1>1, <1>5 DEF WorkflowInv, CompletedOnReview, Accepted, Last
<1>9. Undecided' /\ AtStart' /\ InHand' /\ AtReceipt'
  BY <1>1 DEF Undecided, AtStart, InHand, AtReceipt
<1>10. Handing'
  BY <1>1, <1>2, <1>4, <1>5 DEF Handing, NeedsHandoff, Handed
<1> QED
  BY <1>6, <1>7, <1>8, <1>9, <1>10 DEF WorkflowInv

\* A step that leaves the run alone.
LEMMA OthersKeep ==
  ASSUME WorkflowInv, Project \/ RequestCancel \/ UNCHANGED vars
  PROVE  WorkflowInv'
<1>1. /\ UNCHANGED <<state, scope, required, producer, attempt, review, handoffs>>
      /\ ((at = "project" /\ at' = "closed") \/ at' = at)
      /\ cancelled' \in {cancelled, TRUE}
  BY DEF Project, RequestCancel, vars
<1>2. Types'
  BY <1>1 DEF WorkflowInv, Types, Last
<1>3. SoundState' /\ CompletedOnReview'
  BY <1>1 DEF WorkflowInv, SoundState, SoundHistory, SoundReview, SoundRoute, SoundEnd, Consumable,
     CompletedOnReview, Accepted, Last
<1>4. Undecided' /\ AtStart' /\ InHand' /\ AtReceipt'
  BY <1>1 DEF WorkflowInv, Undecided, AtStart, InHand, AtReceipt, Last
<1>5. Handing'
  BY <1>1 DEF WorkflowInv, Handing, NeedsHandoff, Handed
<1> QED
  BY <1>2, <1>3, <1>4, <1>5 DEF WorkflowInv

LEMMA WorkflowNext == ASSUME WorkflowInv, [Next]_vars PROVE WorkflowInv'
BY StartKeeps, MaterializeKeeps, ChildFailsKeeps, IdentityFailsKeeps, ProducerReturnsKeeps,
   RepairerReturnsKeeps, ReviewerStopsKeeps, ReviewReturnsKeeps, ReceiptFailsKeeps, EndsWithReviewKeeps,
   RepairRequiredKeeps, HandoffKeeps, OthersKeep DEF Next, WorkflowStep

\* A fresh run, and each of the runs that may be recovered.
LEMMA BeginSound ==
  ASSUME scope \in 0..MaxRounds, NEW formal,
         \/ state \in {Fresh(None), Fresh(Inherited)}
         \/ state \in Recovered
  PROVE  /\ Sound(state, formal) /\ state.status = "running" /\ state.route = None
         /\ state \in Recovered =>
              /\ state.artifact >= 1 /\ state.artifact <= Last(state)
              /\ state.attempts[Last(state)].role \in {"producer", "reviewer"} => state.used = 0
<1> DEFINE entries == [role : Roles, artifact : Artifacts]
           verdicts == [by : Nat, of : Nat, verdict : Verdicts]
<1>0. scope \in Nat /\ scope <= MaxRounds /\ MaxRounds \in Nat
  BY StageRunWorkflowAssumption
<1>1. /\ Entry("producer", 1) \in entries /\ Entry("reviewer", 1) \in entries
      /\ Entry("repairer", 3) \in entries /\ Repairing \in verdicts
  BY DEF Entry, Repairing, Roles, Artifacts, Verdicts
<1> HIDE DEF entries, verdicts
<1>2. ASSUME NEW attempts \in Seq(entries), NEW artifact \in Artifacts, NEW used \in Nat,
             NEW reviews \in Seq(verdicts),
             state = [status |-> "running", attempts |-> attempts, artifact |-> artifact, used |-> used,
                      limit |-> scope, stop |-> "none", route |-> None, reviews |-> reviews,
                      launched |-> FALSE]
      PROVE  /\ state \in StateRecord /\ state.status = "running" /\ state.attempts = attempts
             /\ state.artifact = artifact /\ state.used = used /\ state.limit = scope
             /\ state.route = None /\ state.reviews = reviews /\ state.launched = FALSE
  BY <1>0, <1>2 DEF StateRecord, Statuses, None, entries, verdicts
<1>8. ASSUME state \in StateRecord, state.status = "running", state.limit = scope, state.used <= scope,
             state.route = None, state.launched = FALSE,
             state.artifact <= Last(state),
             state.artifact >= 1 => state.attempts[state.artifact].artifact = state.artifact,
             \A i \in 1..Last(state) : state.attempts[i].artifact <= Last(state),
             \A i \in 1..Len(state.reviews) : SoundReview(state, state.reviews[i])
      PROVE  Sound(state, formal)
  BY <1>0, <1>8 DEF Sound, SoundHistory, SoundRoute, SoundEnd
<1>9. ASSUME Len(state.reviews) = 1, state.reviews[1].by = 2, state.reviews[1].of = 1,
             Last(state) \in {2, 3}, state.attempts[1].artifact = 1, state.attempts[2].artifact = 1
      PROVE  \A i \in 1..Len(state.reviews) : SoundReview(state, state.reviews[i])
  <2>1. state.reviews[1].by \in 1..Last(state) /\ state.reviews[1].of \in 1..Last(state)
    BY <1>9
  <2>2. /\ state.attempts[state.reviews[1].of].artifact = state.reviews[1].of
        /\ state.attempts[state.reviews[1].by].artifact = state.reviews[1].of
    BY <1>9
  <2>3. SoundReview(state, state.reviews[1])
    BY <2>1, <2>2 DEF SoundReview
  <2>4. \A i \in 1..Len(state.reviews) : i = 1
    BY <1>9
  <2> QED
    BY <2>3, <2>4
<1>3. CASE \E artifact \in {None, Inherited} : state = Fresh(artifact)
  <2>1. PICK artifact \in {None, Inherited} : state = Fresh(artifact)
    BY <1>3
  <2>2. artifact \in Artifacts /\ artifact <= 0
    BY DEF Artifacts, None, Inherited
  <2>3. state = [status |-> "running", attempts |-> <<>>, artifact |-> artifact, used |-> 0,
                 limit |-> scope, stop |-> "none", route |-> None, reviews |-> <<>>, launched |-> FALSE]
    BY <2>1 DEF Fresh
  <2>4. <<>> \in Seq(entries) /\ <<>> \in Seq(verdicts) /\ Len(<<>>) = 0
    OBVIOUS
  <2>5. /\ state \in StateRecord /\ state.status = "running" /\ state.attempts = <<>>
        /\ state.artifact = artifact /\ state.used = 0 /\ state.limit = scope
        /\ state.route = None /\ state.reviews = <<>> /\ state.launched = FALSE
    BY <1>2, <2>2, <2>3, <2>4
  <2>7. Last(state) = 0 /\ Len(state.reviews) = 0
    BY <2>5 DEF Last
  <2>8. artifact <= 0 /\ ~(artifact >= 1)
    BY <2>1 DEF None, Inherited
  <2>9. /\ \A i \in 1..Last(state) : state.attempts[i].artifact <= Last(state)
        /\ \A i \in 1..Len(state.reviews) : SoundReview(state, state.reviews[i])
    BY <2>7
  <2>10. /\ state.artifact <= Last(state) /\ state.used <= scope
         /\ state.artifact >= 1 => state.attempts[state.artifact].artifact = state.artifact
    BY <1>0, <2>5, <2>7, <2>8
  <2>6. Sound(state, formal)
    BY <1>8, <2>5, <2>9, <2>10
  <2>11. state \notin Recovered
    <3> SUFFICES ASSUME state \in Recovered PROVE FALSE
      OBVIOUS
    <3>1. \/ state.attempts = <<Entry("producer", 1)>>
          \/ state.attempts = <<Entry("producer", 1), Entry("reviewer", 1)>>
          \/ state.attempts = <<Entry("producer", 1), Entry("reviewer", 1), Entry("repairer", 3)>>
      BY DEF Recovered, Fresh
    <3> QED
      BY <2>4, <2>5, <3>1
  <2> QED
    BY <2>5, <2>6, <2>11
<1>4. CASE state = [Fresh(1) EXCEPT !.attempts = <<Entry("producer", 1)>>]
  <2> DEFINE attempts == <<Entry("producer", 1)>>
  <2>1. state = [status |-> "running", attempts |-> attempts, artifact |-> 1, used |-> 0,
                 limit |-> scope, stop |-> "none", route |-> None, reviews |-> <<>>, launched |-> FALSE]
    BY <1>4 DEF Fresh
  <2>2. attempts \in Seq(entries) /\ Len(attempts) = 1 /\ attempts[1].artifact = 1 /\ 1 \in Artifacts
    BY <1>1 DEF Entry, Artifacts
  <2> HIDE DEF attempts
  <2>5. <<>> \in Seq(verdicts) /\ Len(<<>>) = 0
    OBVIOUS
  <2>6. /\ state \in StateRecord /\ state.status = "running" /\ state.attempts = attempts
        /\ state.artifact = 1 /\ state.used = 0 /\ state.limit = scope
        /\ state.route = None /\ state.reviews = <<>> /\ state.launched = FALSE
    BY <1>2, <2>1, <2>2, <2>5
  <2>7. Last(state) = 1 /\ Len(state.reviews) = 0 /\ state.attempts[1].artifact = 1
    BY <2>2, <2>6 DEF Last
  <2>8. \A i \in 1..Last(state) : state.attempts[i].artifact <= Last(state)
    BY <2>7
  <2>9. state.artifact <= Last(state) /\ state.attempts[state.artifact].artifact = state.artifact
    BY <2>6, <2>7
  <2>10. state.used <= scope /\ \A i \in 1..Len(state.reviews) : SoundReview(state, state.reviews[i])
    BY <1>0, <2>6, <2>7
  <2>3. Sound(state, formal)
    BY <1>8, <2>6, <2>8, <2>9, <2>10
  <2>4. state \in Recovered
    BY <1>4 DEF Recovered
  <2> QED
    BY <2>3, <2>4, <2>6, <2>7
<1>5. CASE state = [Fresh(1) EXCEPT !.attempts = <<Entry("producer", 1), Entry("reviewer", 1)>>,
                                    !.reviews = <<Repairing>>]
  <2> DEFINE attempts == <<Entry("producer", 1), Entry("reviewer", 1)>>
             reviews == <<Repairing>>
  <2>1. state = [status |-> "running", attempts |-> attempts, artifact |-> 1, used |-> 0,
                 limit |-> scope, stop |-> "none", route |-> None, reviews |-> reviews, launched |-> FALSE]
    BY <1>5 DEF Fresh
  <2>2. /\ attempts \in Seq(entries) /\ Len(attempts) = 2 /\ attempts[1].artifact = 1
        /\ attempts[2].artifact = 1 /\ 1 \in Artifacts
    BY <1>1 DEF Entry, Artifacts
  <2>5. reviews \in Seq(verdicts) /\ Len(reviews) = 1 /\ reviews[1].by = 2 /\ reviews[1].of = 1
    BY <1>1 DEF Repairing
  <2> HIDE DEF attempts, reviews
  <2>6. /\ state \in StateRecord /\ state.status = "running" /\ state.attempts = attempts
        /\ state.artifact = 1 /\ state.used = 0 /\ state.limit = scope
        /\ state.route = None /\ state.reviews = reviews /\ state.launched = FALSE
    BY <1>2, <2>1, <2>2, <2>5
  <2>7. Last(state) = 2 /\ state.attempts[1].artifact = 1 /\ state.attempts[2].artifact = 1
    BY <2>2, <2>6 DEF Last
  <2>8. \A i \in 1..Last(state) : state.attempts[i].artifact <= Last(state)
    BY <2>7
  <2>9. state.artifact <= Last(state) /\ state.attempts[state.artifact].artifact = state.artifact
    BY <2>6, <2>7
  <2>10. state.used <= scope /\ \A i \in 1..Len(state.reviews) : SoundReview(state, state.reviews[i])
    BY <1>0, <1>9, <2>5, <2>6, <2>7
  <2>3. Sound(state, formal)
    BY <1>8, <2>6, <2>8, <2>9, <2>10
  <2>4. state \in Recovered
    BY <1>5 DEF Recovered
  <2> QED
    BY <2>3, <2>4, <2>6, <2>7
<1>6. CASE /\ state = [Fresh(3) EXCEPT !.attempts = <<Entry("producer", 1), Entry("reviewer", 1),
                                                      Entry("repairer", 3)>>,
                                       !.reviews = <<Repairing>>, !.used = 1]
           /\ state.used <= scope /\ state \in Recovered
  <2> DEFINE attempts == <<Entry("producer", 1), Entry("reviewer", 1), Entry("repairer", 3)>>
             reviews == <<Repairing>>
  <2>1. state = [status |-> "running", attempts |-> attempts, artifact |-> 3, used |-> 1,
                 limit |-> scope, stop |-> "none", route |-> None, reviews |-> reviews, launched |-> FALSE]
    BY <1>6 DEF Fresh
  <2>2. /\ attempts \in Seq(entries) /\ Len(attempts) = 3 /\ attempts[1].artifact = 1
        /\ attempts[2].artifact = 1 /\ attempts[3].artifact = 3 /\ attempts[3].role = "repairer"
        /\ 3 \in Artifacts
    BY <1>1 DEF Entry, Artifacts
  <2>5. reviews \in Seq(verdicts) /\ Len(reviews) = 1 /\ reviews[1].by = 2 /\ reviews[1].of = 1
    BY <1>1 DEF Repairing
  <2>6. 1 <= scope
    BY <1>6, <2>1
  <2> HIDE DEF attempts, reviews
  <2>7. /\ state \in StateRecord /\ state.status = "running" /\ state.attempts = attempts
        /\ state.artifact = 3 /\ state.used = 1 /\ state.limit = scope
        /\ state.route = None /\ state.reviews = reviews /\ state.launched = FALSE
    BY <1>2, <2>1, <2>2, <2>5
  <2>8. /\ Last(state) = 3 /\ state.attempts[1].artifact = 1 /\ state.attempts[2].artifact = 1
        /\ state.attempts[3].artifact = 3 /\ state.attempts[3].role = "repairer"
    BY <2>2, <2>7 DEF Last
  <2>9. \A i \in 1..Last(state) : state.attempts[i].artifact <= Last(state)
    BY <2>8
  <2>10. state.artifact <= Last(state) /\ state.attempts[state.artifact].artifact = state.artifact
    BY <2>7, <2>8
  <2>11. state.used <= scope /\ \A i \in 1..Len(state.reviews) : SoundReview(state, state.reviews[i])
    BY <1>9, <2>5, <2>6, <2>7, <2>8
  <2>3. Sound(state, formal)
    BY <1>8, <2>7, <2>9, <2>10, <2>11
  <2> QED
    BY <1>6, <2>3, <2>7, <2>8
<1>7. \/ \E artifact \in {None, Inherited} : state = Fresh(artifact)
      \/ state = [Fresh(1) EXCEPT !.attempts = <<Entry("producer", 1)>>]
      \/ state = [Fresh(1) EXCEPT !.attempts = <<Entry("producer", 1), Entry("reviewer", 1)>>,
                                  !.reviews = <<Repairing>>]
      \/ /\ state = [Fresh(3) EXCEPT !.attempts = <<Entry("producer", 1), Entry("reviewer", 1),
                                                    Entry("repairer", 3)>>,
                                     !.reviews = <<Repairing>>, !.used = 1]
         /\ state.used <= scope /\ state \in Recovered
  BY DEF Recovered
<1> QED
  BY <1>3, <1>4, <1>5, <1>6, <1>7

LEMMA WorkflowInit == Init => WorkflowInv
<1> SUFFICES ASSUME Init PROVE WorkflowInv
  OBVIOUS
<1>1. /\ scope \in 0..MaxRounds /\ required \in BOOLEAN
      /\ attempt = [role |-> "producer", round |-> 0, resumed |-> FALSE]
      /\ review = [outcome |-> "pass", open |-> FALSE, snapshotDebt |-> FALSE, back |-> FALSE]
      /\ at = "start" /\ handoffs = {} /\ cancelled = FALSE
      /\ \/ state \in {Fresh(None), Fresh(Inherited)} /\ producer = None
         \/ state \in Recovered /\ producer = state.artifact
  BY DEF Init
<1>2. /\ Sound(state, required) /\ state.status = "running" /\ state.route = None
      /\ state \in Recovered =>
           /\ state.artifact >= 1 /\ state.artifact <= Last(state)
           /\ state.attempts[Last(state)].role \in {"producer", "reviewer"} => state.used = 0
  BY <1>1, BeginSound
<1>3. /\ state \in StateRecord /\ Last(state) \in Nat /\ state.launched = FALSE
      /\ 0 \in 0..scope /\ "producer" \in Roles /\ "pass" \in Outcomes
  BY <1>1, <1>2, LastType, StageRunWorkflowAssumption DEF Sound, SoundHistory, Roles, Outcomes
<1>4. producer \in 0..Last(state) /\ AtStart
  <2>1. CASE state \in {Fresh(None), Fresh(Inherited)} /\ producer = None
    <3>1. state.attempts = <<>> /\ state.used = 0
      BY <2>1 DEF Fresh
    <3> QED
      BY <1>3, <2>1, <3>1 DEF AtStart, None
  <2>2. CASE state \in Recovered /\ producer = state.artifact
    <3>1. state.artifact \in Int
      BY <1>3 DEF StateRecord, Artifacts, Inherited
    <3>2. state.artifact >= 1 /\ state.artifact <= Last(state)
      BY <1>2, <2>2
    <3>3. state.attempts # <<>>
      <4>1. Len(<<>>) = 0
        OBVIOUS
      <4> QED
        BY <3>1, <3>2, <4>1 DEF Last
    <3> QED
      BY <1>2, <1>3, <2>2, <3>1, <3>2, <3>3 DEF AtStart
  <2> QED
    BY <1>1, <2>1, <2>2
<1>5. Types
  BY <1>1, <1>3, <1>4 DEF Types
<1>6. SoundState /\ CompletedOnReview /\ Undecided
  BY <1>2 DEF Sound, SoundState, CompletedOnReview, Undecided
<1>7. InHand /\ AtReceipt /\ Handing
  BY <1>1, <1>3 DEF InHand, AtReceipt, Handing
<1> QED
  BY <1>4, <1>5, <1>6, <1>7 DEF WorkflowInv

-----------------------------------------------------------------------------
(* The theorems. *)

\* Whatever the attempts return and whenever the execution is cancelled, the
\* controller knows at each await what the invariant says.
THEOREM WorkflowInvariant == Spec => []WorkflowInv
BY WorkflowInit, WorkflowNext, PTL DEF Spec

\* A sequence all of whose elements are in a smaller set is one over that set.
LEMMA NarrowSeq ==
  ASSUME NEW S, NEW T, NEW s \in Seq(S), \A i \in 1..Len(s) : s[i] \in T
  PROVE  s \in Seq(T)
OBVIOUS

\* Every variable keeps its type; artifacts and reviews name attempts of the run.
THEOREM TypeCorrect == Spec => []TypeOK
<1>1. ASSUME WorkflowInv PROVE TypeOK
  <2>1. /\ state \in StateRecord /\ Last(state) \in Nat /\ scope \in 0..MaxRounds /\ Types
        /\ SoundHistory(state) /\ MaxRounds \in Nat
    BY <1>1, LastType, StageRunWorkflowAssumption DEF WorkflowInv, SoundState, SoundHistory, Types
  <2>2. /\ state.status \in Statuses /\ state.stop \in {"none"} \cup Classes /\ state.launched \in BOOLEAN
        /\ state.used \in Nat /\ state.limit \in Nat /\ state.route \in Nat /\ state.artifact \in Artifacts
        /\ state.attempts \in Seq([role : Roles, artifact : Artifacts])
        /\ state.reviews \in Seq([by : Nat, of : Nat, verdict : Verdicts])
    BY <2>1 DEF StateRecord
  <2> DEFINE entry == [role : Roles, artifact : {Inherited} \cup 0..Last(state)]
             receipt == [by : 1..Last(state), of : 1..Last(state),
                         verdict : {"pass", "debt", "repair", "hard_stop"}]
  <2>3. state.attempts \in Seq(entry)
    <3>1. ASSUME NEW i \in 1..Len(state.attempts)
          PROVE  state.attempts[i] \in entry
      <4>1. state.attempts[i] \in [role : Roles, artifact : Artifacts]
        BY <2>2, ElementOfSeq
      <4>2. state.attempts[i].artifact <= Last(state)
        BY <2>1 DEF SoundHistory, Last
      <4>3. state.attempts[i].artifact \in {Inherited} \cup 0..Last(state)
        BY <2>1, <4>1, <4>2 DEF Artifacts
      <4> QED
        BY <4>1, <4>3
    <3> QED
      BY <2>2, <3>1, NarrowSeq
  <2>4. state.reviews \in Seq(receipt)
    <3>1. ASSUME NEW i \in 1..Len(state.reviews)
          PROVE  state.reviews[i] \in receipt
      <4>1. state.reviews[i] \in [by : Nat, of : Nat, verdict : Verdicts]
        BY <2>2, ElementOfSeq
      <4>2. state.reviews[i].by \in 1..Last(state) /\ state.reviews[i].of \in 1..Last(state)
        BY <2>1 DEF SoundHistory, SoundReview
      <4> QED
        BY <4>1, <4>2 DEF Verdicts
    <3> HIDE DEF receipt
    <3> QED
      BY <2>2, <3>1, NarrowSeq
  <2>5. state.artifact \in {Inherited} \cup 0..Last(state) /\ state.used \in 0..scope /\ state.limit \in 0..MaxRounds
    BY <2>1, <2>2 DEF SoundHistory, Artifacts
  <2>6. state.route \in 0..Last(state)
    BY <1>1, <2>1, <2>2 DEF WorkflowInv, SoundState, SoundRoute, None
  <2>7. handoffs \subseteq [by : 1..Last(state), artifact : {Inherited} \cup 0..Last(state)]
    <3> SUFFICES ASSUME NEW l \in handoffs
                 PROVE  l \in [by : 1..Last(state), artifact : {Inherited} \cup 0..Last(state)]
      OBVIOUS
    <3>1. state.route # None /\ l = [by |-> state.route, artifact |-> state.artifact]
      BY <1>1 DEF WorkflowInv, Handing, Handed
    <3> QED
      BY <2>1, <2>5, <2>6, <3>1 DEF None
  <2> HIDE DEF entry, receipt
  <2> QED
    BY <2>1, <2>2, <2>3, <2>4, <2>5, <2>6, <2>7 DEF TypeOK, Types, Statuses, entry, receipt
<1> QED
  BY <1>1, WorkflowInvariant, PTL

\* Every verdict is on the artifact of the attempt it names; a run that needs a
\* formal review completes only on a pass of exactly the artifact it holds.
THEOREM CompletedAccepted == Spec => []CompletedIsAccepted
<1>1. ASSUME WorkflowInv PROVE CompletedIsAccepted
  <2>1. DOMAIN state.reviews = 1..Len(state.reviews)
    <3>1. state.reviews \in Seq([by : Nat, of : Nat, verdict : Verdicts])
      BY <1>1 DEF WorkflowInv, SoundState, SoundHistory, StateRecord
    <3> QED
      BY <3>1
  <2>2. \A i \in DOMAIN state.reviews : LET r == state.reviews[i] IN
          state.attempts[r.of].artifact = r.of /\ state.attempts[r.by].artifact = r.of
    BY <1>1, <2>1 DEF WorkflowInv, SoundState, SoundHistory, SoundReview
  <2>3. state.status = "completed" /\ required => Accepted(state) /\ ~review.open
    BY <1>1 DEF WorkflowInv, CompletedOnReview
  <2>4. state.status \in {"completed", "debt"} => Consumable(state)
    BY <1>1 DEF WorkflowInv, SoundState, SoundEnd
  <2> QED
    BY <2>2, <2>3, <2>4 DEF CompletedIsAccepted, Accepted
<1> QED
  BY <1>1, WorkflowInvariant, PTL

\* The route of a run is its last attempt's, decided on the artifact the run
\* holds, by a review where one is required, and handed over before the run is
\* shown as ended.
THEOREM HandoffDecisive == Spec => []HandoffIsDecisive
<1>1. ASSUME WorkflowInv PROVE HandoffIsDecisive
  <2>1. /\ SoundRoute(state, required) /\ Last(state) \in Nat /\ state.launched \in BOOLEAN /\ Types
        /\ state.status \in Statuses
    BY <1>1, LastType DEF WorkflowInv, SoundState, SoundHistory, StateRecord
  <2>2. state.route # None => state.route = Last(state)
    BY <2>1 DEF SoundRoute
  <2>3. ASSUME NEW l \in handoffs
        PROVE  /\ l.by = Last(state) /\ l.artifact = state.attempts[l.by].artifact
               /\ required => Reviewing(state.attempts[l.by].role)
    <3>1. state.route # None /\ l.by = state.route /\ l.artifact = state.artifact
      BY <1>1 DEF WorkflowInv, Handing, Handed
    <3> QED
      BY <2>1, <3>1 DEF SoundRoute
  <2>4. Shown \in {"completed", "debt"} /\ state.route # None => state.launched
    BY <1>1, <2>1 DEF WorkflowInv, Types, Undecided, AtReceipt, HardStop, Handing, NeedsHandoff, Shown
  <2> QED
    BY <2>2, <2>3, <2>4 DEF HandoffIsDecisive
<1> QED
  BY <1>1, WorkflowInvariant, PTL

\* A stop is final: what follows it changes neither its status nor its class,
\* but for a handoff that fails.
THEOREM EndsStay == Spec => EndsAsDecided
<1> DEFINE A == state.status # "running" =>
                  \/ state'.status = state.status /\ state'.stop = state.stop
                  \/ at = "handoff" /\ state'.status = "failed"
<1>1. ASSUME WorkflowInv, [Next]_vars PROVE [A]_vars
  <2> SUFFICES ASSUME Next, state.status # "running"
               PROVE  \/ state'.status = state.status /\ state'.stop = state.stop
                      \/ at = "handoff" /\ state'.status = "failed"
    BY <1>1
  <2>1. at \notin {"start", "materialize", "child"}
    BY <1>1 DEF WorkflowInv, Undecided
  <2>2. state \in StateRecord
    BY <1>1 DEF WorkflowInv, SoundState, SoundHistory
  <2>3. at = "receipt" => HardStop(review.outcome) /\ state.status = review.outcome
    BY <1>1 DEF WorkflowInv, AtReceipt
  <2>4. ASSUME NEW s, at = "receipt", s.status = state.status, s.stop = state.stop, Terminalize(s)
        PROVE  state'.status = state.status /\ state'.stop = state.stop
    <3>1. ~NeedsHandoff(s)
      BY <2>3, <2>4 DEF NeedsHandoff, HardStop
    <3> QED
      BY <2>4, <3>1 DEF Terminalize
  <2>5. CASE ReceiptFails
    <3>1. CASE Caught(state, "none") /\ at = "receipt"
      <4>1. AfterError(state, "none") = state
        BY <2>3, <3>1 DEF AfterError, Stopped, HardStop
      <4> QED
        BY <2>4, <3>1, <4>1 DEF Caught
    <3>2. CASE Cancelled
      BY <3>2 DEF Cancelled
    <3> QED
      BY <2>5, <3>1, <3>2 DEF ReceiptFails
  <2>6. CASE EndsWithReview
    <3>1. at = "receipt" /\ HardStop(review.outcome)
      BY <2>3, <2>6 DEF EndsWithReview
    <3> DEFINE end == CASE HardStop(review.outcome) -> Received
                        [] review.outcome = "pass" /\ ~review.snapshotDebt -> End(Received, "completed")
                        [] OTHER -> End(Received, "debt")
    <3>4. Terminalize(end)
      BY <2>6 DEF EndsWithReview
    <3>5. end = Received
      BY <3>1 DEF HardStop
    <3> HIDE DEF end
    <3>2. Terminalize(Received)
      BY <3>4, <3>5
    <3>3. Received.status = state.status /\ Received.stop = state.stop
      BY <2>2 DEF Received, StateRecord
    <3> QED
      BY <2>4, <3>1, <3>2, <3>3
  <2>7. CASE RepairRequired
    BY <2>3, <2>7 DEF RepairRequired, HardStop
  <2>8. CASE Handoff
    <3>1. \/ state' = [state EXCEPT !.launched = TRUE]
          \/ state' = [state EXCEPT !.status = "failed"]
      BY <2>8 DEF Handoff, End
    <3> QED
      BY <2>2, <2>8, <3>1 DEF Handoff, StateRecord
  <2>9. CASE Project \/ RequestCancel
    BY <2>9 DEF Project, RequestCancel
  <2> QED
    BY <2>1, <2>5, <2>6, <2>7, <2>8, <2>9 DEF Next, WorkflowStep, Start, Materialize, ChildFails,
       IdentityFails, ProducerReturns, RepairerReturns, ReviewerStops, ReviewReturns
<1> QED
  BY <1>1, WorkflowInvariant, PTL DEF Spec, EndsAsDecided
============================================================================
