------------------------ MODULE FoundryWorkflow_proofs ------------------------
(***************************************************************************)
(* The safety of FoundryWorkflow, for any updates and any bounds.  An      *)
(* activity changes the ledger or the provider and answers one actor; a    *)
(* step of the workflow or of a handler changes neither.  The invariant is *)
(* stated in parts that follow this division, and each kind of step is     *)
(* shown to keep it once, before the actions are taken one by one.         *)
(***************************************************************************)
EXTENDS FoundryWorkflow, TLAPS

Waits == {"start", "authorize", "submit", "cancel", "fail"}
Automatic == ProviderStates \cup {"evaluating", "activating"}
Working == {"launch", "observe", "handlers", "read", "settle"}
Observing == {"observe", "handlers", "read", "settle"}
MainPlaces == {"start", "awaiting", "advance", "fail", "closed"} \cup Working
CancelPlaces == {"idle", "authorize", "waiting", "query", "stop", "stopped", "cancel", "fail", "done"}
DecisionPlaces == {"idle", "submit", "done"}
ProviderCancel == {"query", "stop", "stopped"}
Places == MainPlaces \cup CancelPlaces \cup DecisionPlaces

Entry == [stage : 1..Stages, status : {"running", "finished", "stopped", "broken"}]
CursorSet == {None} \cup [op : DOMAIN provider, status : {"pending", "terminal"}]

Held(s, a) == \E i \in DOMAIN s : s[i] = a
Distinct(s) == \A i, j \in DOMAIN s : i # j => s[i] # s[j]
Fresh(r) == r = Len(ledger) \/ Over(Len(ledger))

-----------------------------------------------------------------------------
(* The invariant. *)

LedgerTypes ==
  /\ ledger \in Seq(States)
  /\ \A r \in DOMAIN provider : /\ r \in 1..Len(ledger) /\ ledger[r] \in ProviderStates
                                /\ provider[r] \in Entry
  /\ provider = [r \in DOMAIN provider |-> provider[r]]
  /\ faults \in 0..MaxFaults /\ instance \in Instances

FlowTypes ==
  /\ seen \in 0..Len(ledger) /\ op \in 0..Len(ledger)
  /\ cursor \in CursorSet
  /\ active \in BOOLEAN /\ (active => cursor # None)
  /\ requested \in BOOLEAN /\ transition \in BOOLEAN
  /\ observations \in 0..MaxObservations

ActorTypes ==
  /\ tail \in Seq(Actors) /\ Distinct(tail)
  /\ pc \in [Actors -> Places] /\ reply \in [Actors -> {Failed} \cup 0..Len(ledger)]
  /\ pc[Main] \in MainPlaces

UpdateTypes ==
  /\ expected \in [Handlers -> 0..Len(ledger)] /\ captured \in [Handlers -> CursorSet]
  /\ target \in [Handlers -> 0..Stages] /\ committed \in [Handlers -> BOOLEAN]

\* Only the last state of a run can be an end, and what follows a provider
\* operation that has not finished is a cancel or a failure.
LedgerShape ==
  /\ \A r \in 1..Len(ledger) : r < Len(ledger) => ledger[r] \notin Terminal
  /\ \A r \in DOMAIN provider :
       /\ provider[r].status # "finished" /\ r < Len(ledger) => ledger[r + 1] \in {"cancelled", "failed"}
       /\ provider[r].status = "broken" => faults > 0
  /\ FailureHasCause

\* serialize: its callers wait in the tail, only the head is answered, and while
\* the workflow starts no handler has come to hold it.
Queue ==
  /\ \A a \in Actors : pc[a] \in Waits <=> Held(tail, a)
  /\ \A a \in Actors : pc[a] \in Waits /\ reply[a] # 0 => tail[1] = a
  /\ pc[Main] = "start" =>
       tail[1] = Main /\ \A h \in Handlers : pc[h] \in {"idle", "authorize", "submit", "done"}

\* The operation of the iteration, by the place of the workflow function.
Positions ==
  /\ observations = MaxObservations => pc[Main] \in {"handlers", "closed"}
  /\ pc[Main] \notin {"start", "closed"} => op # 0 /\ op <= seen
  /\ pc[Main] \in Observing => op \in DOMAIN provider
  /\ pc[Main] \in Working => ledger[op] \in ProviderStates
  /\ pc[Main] = "advance" => ledger[op] \in Automatic
  /\ pc[Main] \in {"read", "settle"} => provider[op].status = "finished"
  /\ pc[Main] = "advance" /\ ledger[op] \in ProviderStates =>
       op \in DOMAIN provider /\ provider[op].status = "finished"

\* The workflow works on the last revision unless the run is over: what it has
\* seen in an automatic state, what it works on and what it hands over.
Known ==
  /\ pc[Main] \in Working \/ (pc[Main] = "advance" /\ reply[Main] = 0) => Fresh(op)
  /\ pc[Main] \notin {"start", "closed"} /\ ledger[seen] \in Automatic =>
       \/ Fresh(seen)
       \/ seen = op /\ (pc[Main] = "fail" \/ (pc[Main] = "advance" /\ reply[Main] # 0))
  /\ pc[Main] = "start" /\ cursor.status = "pending" => Fresh(cursor.op)
  /\ pc[Main] = "closed" => faults > 0 \/ Over(Len(ledger))
  /\ pc[Main] = "fail" =>
       \/ faults > 0 \/ Over(Len(ledger))
       \/ op = Len(ledger) /\ op \in DOMAIN provider /\ provider[op].status = "stopped"

\* What an activity that the workflow function awaits has answered.
MainAnswered ==
  LET r == reply[Main] IN
  /\ r # 0 => pc[Main] \in {"start", "launch", "advance", "fail", "closed"}
  /\ pc[Main] = "start" => (r > 0 => r = Len(ledger)) /\ (r = Failed => faults > 0)
  /\ pc[Main] = "launch" => /\ r > 0 => r = op /\ op \in DOMAIN provider
                            /\ r = Failed => faults > 0 \/ Over(Len(ledger))
  /\ pc[Main] = "advance" => /\ r > 0 => r = op + 1 /\ (ledger[r] \in Automatic => Fresh(r))
                             /\ r = Failed => faults > 0 \/ Over(Len(ledger))
  /\ pc[Main] = "fail" => /\ r > 0 => r = Len(ledger) /\ Over(Len(ledger))
                          /\ r = Failed => faults > 0

\* What an update handler keeps, and what its activity has answered.
Answered(h) ==
  /\ h \in Cancels => pc[h] \in CancelPlaces
  /\ h \in Decisions => pc[h] \in DecisionPlaces
  /\ pc[h] \notin {"idle", "done"} => expected[h] # 0
  /\ pc[h] \in ProviderCancel => captured[h] # None
  /\ pc[h] = "fail" => committed[h]
  /\ reply[h] # 0 => pc[h] \in {"authorize", "submit", "stopped", "cancel", "fail"}
  /\ pc[h] \in {"cancel", "fail"} /\ reply[h] > 0 => Over(Len(ledger))
  /\ pc[h] = "submit" /\ reply[h] > 0 =>
       \/ Over(Len(ledger))
       \/ /\ reply[h] = Len(ledger) /\ seen < Len(ledger) /\ op < Len(ledger)
          /\ reply[Main] < Len(ledger)

Types == LedgerTypes /\ FlowTypes /\ ActorTypes /\ UpdateTypes
Agree == LedgerShape /\ Queue /\ Positions /\ Known /\ MainAnswered /\ \A h \in Handlers : Answered(h)
WorkflowInv == Types /\ Agree

-----------------------------------------------------------------------------
(* The queue of serialize. *)

\* Whoever calls serialize is behind those who wait already.
LEMMA HeldAppend ==
  ASSUME NEW S, NEW s \in Seq(S), Distinct(s), NEW a \in S, ~Held(s, a)
  PROVE  /\ Append(s, a) \in Seq(S) /\ Distinct(Append(s, a))
         /\ \A b : Held(Append(s, a), b) <=> Held(s, b) \/ b = a
         /\ \A b : Held(s, b) => Append(s, a)[1] = s[1]
<1> DEFINE t == Append(s, a)
<1>1. /\ t \in Seq(S) /\ DOMAIN t = 1..Len(s) + 1 /\ DOMAIN s = 1..Len(s) /\ Len(s) \in Nat
      /\ \A i \in 1..Len(s) : t[i] = s[i]
      /\ t[Len(s) + 1] = a
  OBVIOUS
<1> HIDE DEF t
<1>2. Distinct(t)
  BY <1>1 DEF Distinct, Held
<1>3. \A b : Held(t, b) <=> Held(s, b) \/ b = a
  BY <1>1 DEF Held
<1>4. \A b : Held(s, b) => t[1] = s[1]
  BY <1>1 DEF Held
<1> QED
  BY <1>1, <1>2, <1>3, <1>4 DEF t

\* The caller that leaves is the head, and nobody else leaves.
LEMMA HeldTail ==
  ASSUME NEW S, NEW s \in Seq(S), Distinct(s), NEW a, Held(s, a)
  PROVE  /\ Tail(s) \in Seq(S) /\ Distinct(Tail(s))
         /\ \A b : Held(Tail(s), b) <=> Held(s, b) /\ b # s[1]
<1> DEFINE t == Tail(s)
<1>1. /\ t \in Seq(S) /\ DOMAIN t = 1..Len(s) - 1 /\ DOMAIN s = 1..Len(s) /\ Len(s) \in Nat
      /\ \A i \in 1..Len(s) - 1 : t[i] = s[i + 1]
      /\ Len(s) > 0
  <2>1. s # <<>>
    BY DEF Held
  <2> QED
    BY <2>1
<1> HIDE DEF t
<1>2. Distinct(t)
  <2> SUFFICES ASSUME NEW i \in DOMAIN t, NEW j \in DOMAIN t, i # j
               PROVE  t[i] # t[j]
    BY DEF Distinct
  <2> QED
    BY <1>1 DEF Distinct
<1>3. \A b : Held(t, b) => Held(s, b) /\ b # s[1]
  <2> SUFFICES ASSUME NEW i \in DOMAIN t
               PROVE  Held(s, t[i]) /\ t[i] # s[1]
    BY DEF Held
  <2>1. i + 1 \in DOMAIN s /\ 1 \in DOMAIN s /\ i + 1 # 1 /\ t[i] = s[i + 1]
    BY <1>1
  <2> QED
    BY <2>1 DEF Held, Distinct
<1>4. \A b : Held(s, b) /\ b # s[1] => Held(t, b)
  <2> SUFFICES ASSUME NEW i \in DOMAIN s, s[i] # s[1]
               PROVE  Held(t, s[i])
    BY DEF Held
  <2>1. i - 1 \in DOMAIN t /\ t[i - 1] = s[i]
    BY <1>1
  <2> QED
    BY <2>1 DEF Held
<1> QED
  BY <1>1, <1>2, <1>3, <1>4 DEF t

\* The tail after a step: it is the same, or one actor has joined it, or its
\* answered head has left it or has called again.
Queued(a) ==
  LET waits == pc[a] \in Waits  waits2 == pc'[a] \in Waits IN
  /\ \A b \in Actors : b # a => (pc'[b] \in Waits <=> pc[b] \in Waits) /\ reply'[b] = reply[b]
  /\ \/ tail' = tail /\ (waits <=> waits2) /\ (waits2 /\ reply'[a] # 0 => tail[1] = a)
     \/ tail' = Append(tail, a) /\ ~waits /\ waits2 /\ reply'[a] = 0
     \/ tail' = Tail(tail) /\ waits /\ ~waits2 /\ reply[a] # 0
     \/ tail' = Append(Tail(tail), a) /\ waits /\ waits2 /\ reply[a] # 0 /\ reply'[a] = 0

\* A step that serialize makes with one actor keeps the queue.
LEMMA QueueKept ==
  ASSUME ActorTypes, Queue, NEW a \in Actors, Queued(a)
  PROVE  /\ tail' \in Seq(Actors) /\ Distinct(tail')
         /\ \A b \in Actors : pc'[b] \in Waits <=> Held(tail', b)
         /\ \A b \in Actors : pc'[b] \in Waits /\ reply'[b] # 0 => tail'[1] = b
<1>1. /\ tail \in Seq(Actors) /\ Distinct(tail)
      /\ \A b \in Actors : pc[b] \in Waits <=> Held(tail, b)
      /\ \A b \in Actors : pc[b] \in Waits /\ reply[b] # 0 => tail[1] = b
      /\ \A b \in Actors : b # a => (pc'[b] \in Waits <=> pc[b] \in Waits) /\ reply'[b] = reply[b]
  BY DEF ActorTypes, Queue, Queued
<1>2. CASE tail' = tail /\ (pc[a] \in Waits <=> pc'[a] \in Waits)
           /\ (pc'[a] \in Waits /\ reply'[a] # 0 => tail[1] = a)
  BY <1>1, <1>2
<1>3. CASE tail' = Append(tail, a) /\ pc[a] \notin Waits /\ pc'[a] \in Waits /\ reply'[a] = 0
  <2>1. /\ tail' \in Seq(Actors) /\ Distinct(tail')
        /\ \A b : Held(tail', b) <=> Held(tail, b) \/ b = a
        /\ \A b : Held(tail, b) => tail'[1] = tail[1]
    BY <1>1, <1>3, HeldAppend
  <2> QED
    BY <1>1, <1>3, <2>1
<1>4. CASE tail' = Tail(tail) /\ pc[a] \in Waits /\ pc'[a] \notin Waits /\ reply[a] # 0
  <2>1. tail[1] = a /\ Held(tail, a)
    BY <1>1, <1>4
  <2>2. /\ tail' \in Seq(Actors) /\ Distinct(tail')
        /\ \A b : Held(tail', b) <=> Held(tail, b) /\ b # a
    BY <1>1, <1>4, <2>1, HeldTail
  <2> QED
    BY <1>1, <1>4, <2>1, <2>2
<1>5. CASE tail' = Append(Tail(tail), a) /\ pc[a] \in Waits /\ pc'[a] \in Waits
           /\ reply[a] # 0 /\ reply'[a] = 0
  <2>1. tail[1] = a /\ Held(tail, a)
    BY <1>1, <1>5
  <2>2. PICK s : s = Tail(tail)
    OBVIOUS
  <2>3. /\ s \in Seq(Actors) /\ Distinct(s)
        /\ \A b : Held(s, b) <=> Held(tail, b) /\ b # a
    BY <1>1, <2>1, <2>2, HeldTail
  <2>4. /\ tail' \in Seq(Actors) /\ Distinct(tail')
        /\ \A b : Held(tail', b) <=> Held(s, b) \/ b = a
    BY <1>5, <2>2, <2>3, HeldAppend
  <2> QED
    BY <1>1, <1>5, <2>1, <2>3, <2>4
<1> QED
  BY <1>2, <1>3, <1>4, <1>5 DEF Queued

-----------------------------------------------------------------------------
(* The ledger. *)

\* Adding one state keeps those before it.
LEMMA AppendOne ==
  ASSUME NEW S, NEW s \in Seq(S), NEW x \in S
  PROVE  /\ Append(s, x) \in Seq(S) /\ Len(Append(s, x)) = Len(s) + 1
         /\ Append(s, x)[Len(s) + 1] = x
         /\ \A r \in 1..Len(s) : Append(s, x)[r] = s[r]
OBVIOUS

\* Lengths and bounds are natural numbers.
LEMMA Bounds ==
  ASSUME LedgerTypes
  PROVE  /\ Len(ledger) \in Nat /\ DOMAIN ledger = 1..Len(ledger)
         /\ \A r \in 1..Len(ledger) : ledger[r] \in States
         /\ Stages \in Nat \ {0} /\ MaxObservations \in Nat \ {0}
         /\ MaxFaults \in Nat /\ faults \in Nat
         /\ Main \notin Handlers /\ instance.updates \subseteq Handlers
BY FoundryWorkflowAssumption DEF LedgerTypes, Stages, MaxObservations, MaxFaults

\* What a transition of the kernel leads to.
LEMMA Transitions ==
  ASSUME NEW s \in Automatic
  PROVE  Successors(s) \subseteq States /\ s \notin Terminal
BY DEF Automatic, Successors, States, ProviderStates, Terminal

\* An automatic state names one of the three kinds of work.
LEMMA Waiting ==
  ASSUME LedgerTypes, NEW r \in 1..Len(ledger), NEW c,
         NEW next, next = NextAwait(r, c)
  PROVE  \/ next = "closed" /\ Over(r)
         \/ next = "awaiting" /\ ~Over(r) /\ ledger[r] = "awaiting"
         \/ next = "observe" /\ ~Over(r) /\ ledger[r] \in ProviderStates /\ c = Cursor(r, "pending")
         \/ next = "launch" /\ ~Over(r) /\ ledger[r] \in ProviderStates
         \/ next = "advance" /\ ~Over(r) /\ ledger[r] \in Automatic \ ProviderStates
<1>1. ledger[r] \in States /\ r > 0 /\ r \in Nat
  BY Bounds
<1>2. CASE ledger[r] \in Terminal
  BY <1>1, <1>2 DEF NextAwait, Over, Terminal, ProviderStates
<1>3. CASE ledger[r] = "awaiting"
  BY <1>1, <1>3 DEF NextAwait, Over, Terminal, ProviderStates
<1>4. CASE ledger[r] \in ProviderStates /\ c = Cursor(r, "pending")
  BY <1>1, <1>4 DEF NextAwait, Over, Terminal, ProviderStates
<1>5. CASE ledger[r] \in ProviderStates /\ c # Cursor(r, "pending")
  BY <1>1, <1>5 DEF NextAwait, Over, Terminal, ProviderStates
<1>6. CASE ledger[r] \in {"evaluating", "activating"}
  BY <1>1, <1>6 DEF NextAwait, Over, Terminal, ProviderStates, Automatic
<1> QED
  BY <1>1, <1>2, <1>3, <1>4, <1>5, <1>6 DEF States

\* Nothing follows the end of a run, so a revision that is over is the last.
LEMMA OverIsLast ==
  ASSUME LedgerTypes, LedgerShape, NEW r \in 0..Len(ledger), Over(r)
  PROVE  r = Len(ledger) /\ Over(Len(ledger))
<1>1. Len(ledger) \in Nat /\ r > 0 /\ ledger[r] \in Terminal /\ r \in 1..Len(ledger)
  BY Bounds DEF Over
<1>2. r = Len(ledger)
  BY <1>1 DEF LedgerShape
<1> QED
  BY <1>2

\* The types of the proof are those of the model.
LEMMA TypesAreTypes ==
  ASSUME Types PROVE TypeOK
<1>1. DOMAIN provider \subseteq {r \in DOMAIN ledger : ledger[r] \in ProviderStates}
  BY Bounds DEF Types, LedgerTypes
<1>2. /\ ledger \in Seq(States)
      /\ \A r \in DOMAIN provider :
           provider[r] \in [stage : 1..Stages, status : {"running", "finished", "stopped", "broken"}]
      /\ faults \in 0..MaxFaults /\ instance \in Instances
  BY DEF Types, LedgerTypes, Entry
<1>3. /\ seen \in 0..Len(ledger) /\ op \in 0..Len(ledger)
      /\ cursor \in {None} \cup [op : DOMAIN provider, status : {"pending", "terminal"}]
      /\ active \in BOOLEAN /\ (active => cursor # None)
      /\ requested \in BOOLEAN /\ transition \in BOOLEAN
      /\ observations \in 0..MaxObservations
  BY DEF Types, FlowTypes, CursorSet
<1>4. /\ tail \in Seq(Actors) /\ \A i, j \in DOMAIN tail : i # j => tail[i] # tail[j]
      /\ pc \in [Actors -> Places] /\ reply \in [Actors -> {Failed} \cup 0..Len(ledger)]
  BY DEF Types, ActorTypes, Distinct
<1>5. /\ expected \in [Handlers -> 0..Len(ledger)]
      /\ captured \in [Handlers -> {None} \cup [op : DOMAIN provider, status : {"pending", "terminal"}]]
      /\ target \in [Handlers -> 0..Stages] /\ committed \in [Handlers -> BOOLEAN]
  BY DEF Types, UpdateTypes, CursorSet
<1>6. pc \in [Actors -> {"idle", "start", "awaiting", "launch", "observe", "handlers", "read",
                         "settle", "advance", "authorize", "waiting", "query", "stop", "stopped",
                         "cancel", "submit", "fail", "done", "closed"}]
  <2>1. Places \subseteq {"idle", "start", "awaiting", "launch", "observe", "handlers", "read",
                         "settle", "advance", "authorize", "waiting", "query", "stop", "stopped",
                         "cancel", "submit", "fail", "done", "closed"}
    BY DEF Places, MainPlaces, CancelPlaces, DecisionPlaces, Working
  <2> QED
    BY <1>4, <2>1
<1> QED
  BY <1>1, <1>2, <1>3, <1>4, <1>5, <1>6 DEF TypeOK

-----------------------------------------------------------------------------
(* The invariant holds at first. *)

\* The workflow starts with an empty ledger and everyone idle.
LEMMA WorkflowInit == Init => WorkflowInv
<1> SUFFICES ASSUME Init PROVE WorkflowInv
  OBVIOUS
<1>1. /\ ledger = <<>> /\ provider = <<>> /\ Len(ledger) = 0 /\ DOMAIN provider = {}
      /\ instance \in Instances /\ faults = 0
  BY DEF Init
<1>2. LedgerTypes
  <2>1. MaxFaults \in Nat
    BY <1>1, FoundryWorkflowAssumption DEF MaxFaults
  <2> QED
    BY <1>1, <2>1 DEF LedgerTypes
<1>3. FlowTypes
  <2>1. MaxObservations \in Nat
    BY <1>2, Bounds
  <2>2. /\ seen = 0 /\ op = 0 /\ cursor = None /\ observations = 0
        /\ active = FALSE /\ requested = FALSE /\ transition = FALSE
    BY DEF Init
  <2>3. cursor \in CursorSet
    BY <2>2 DEF CursorSet
  <2>4. active \in BOOLEAN /\ (active => cursor # None)
    BY <2>2, Zenon
  <2>5. requested \in BOOLEAN /\ transition \in BOOLEAN
    BY <2>2
  <2>6. seen \in 0..Len(ledger) /\ op \in 0..Len(ledger) /\ observations \in 0..MaxObservations
    BY <1>1, <2>1, <2>2
  <2> QED
    BY <2>3, <2>4, <2>5, <2>6 DEF FlowTypes
<1>4. ActorTypes
  <2>1. tail \in Seq(Actors) /\ Distinct(tail)
    BY DEF Init, Actors, Distinct
  <2>2. pc \in [Actors -> Places] /\ pc[Main] \in MainPlaces
    BY DEF Init, Actors, Places, MainPlaces, CancelPlaces
  <2>3. reply \in [Actors -> {Failed} \cup 0..Len(ledger)]
    BY <1>1 DEF Init
  <2> QED
    BY <2>1, <2>2, <2>3 DEF ActorTypes
<1>5. UpdateTypes
  BY <1>1, <1>2, Bounds DEF Init, UpdateTypes, CursorSet
<1>6. LedgerShape
  BY <1>1 DEF LedgerShape, FailureHasCause
<1>7. /\ pc[Main] = "start" /\ \A h \in Handlers : pc[h] = "idle" /\ reply[h] = 0 /\ reply[Main] = 0
      /\ tail = <<Main>> /\ cursor = None
  BY <1>2, Bounds DEF Init, Actors
<1>8. Queue
  <2>1. \A a \in Actors : Held(tail, a) <=> a = Main
    BY <1>7 DEF Held
  <2> QED
    BY <1>7, <2>1 DEF Queue, Waits, Actors
<1>9. Positions
  BY <1>2, <1>7, Bounds DEF Init, Positions, Working, Observing
<1>10. Known
  BY <1>7 DEF Known, Working, None
<1>11. MainAnswered
  <2>1. reply[Main] = 0
    BY DEF Init, Actors
  <2> QED
    BY <1>7, <2>1 DEF MainAnswered, Failed
<1>12. \A h \in Handlers : Answered(h)
  BY <1>7 DEF Answered, CancelPlaces, DecisionPlaces, ProviderCancel
<1> QED
  BY <1>2, <1>3, <1>4, <1>5, <1>6, <1>8, <1>9, <1>10, <1>11, <1>12 DEF WorkflowInv, Types, Agree

-----------------------------------------------------------------------------
(* Activities. *)

\* Who may add which state to the ledger.
Appends(a, s) ==
  \/ /\ a = Main /\ pc[a] = "start" /\ tail[1] = a
     /\ Len(ledger) = 0 /\ s = "designing"
  \/ /\ pc[a] \in {"cancel", "fail"} /\ tail[1] = a
     /\ Len(ledger) > 0 /\ ~Over(Len(ledger))
     /\ s \in {"cancelled", "failed"} /\ (s = "failed" => pc[a] = "fail")
  \/ /\ a \in Decisions /\ pc[a] = "submit" /\ tail[1] = a
     /\ Len(ledger) > 0 /\ ledger[Len(ledger)] = "awaiting"
     /\ s \in {"evaluating", "activating", "rejected"}
  \/ /\ a = Main /\ pc[a] = "advance"
     /\ Len(ledger) = op
     /\ s \in Successors(ledger[op]) \/ (s = "failed" /\ faults' > 0)

\* What an activity of an actor does to the ledger.
Wrote(a) ==
  \/ ledger' = ledger
  \/ \E s : /\ ledger' = Append(ledger, s) /\ Appends(a, s)
            /\ reply[a] = 0 /\ reply'[a] # 0

\* What it, or a StageRun of its own accord, does to the provider.
Moved(a) ==
  \/ provider' = provider
  \/ /\ ledger' = ledger /\ a = Main /\ pc[a] = "launch" /\ Len(ledger) = op
     /\ provider' = [r \in DOMAIN provider \cup {op} |->
                       IF r \in DOMAIN provider THEN provider[r]
                                                ELSE [stage |-> 1, status |-> "running"]]
  \/ /\ ledger' = ledger
     /\ \E r \in DOMAIN provider : \E e \in Entry :
          /\ provider[r].status = "running" /\ provider' = [provider EXCEPT ![r] = e]
          /\ e.status = "broken" => faults' > 0

Callable == {"start", "launch", "advance", "fail", "authorize", "submit", "query", "stop", "cancel"}

Activity(a) ==
  /\ Wrote(a) /\ Moved(a)
  /\ faults' \in 0..MaxFaults /\ faults <= faults'
  /\ seen' = seen /\ UNCHANGED flow /\ tail' = tail
  /\ expected' = expected /\ captured' = captured /\ committed' = committed
  /\ target' \in [Handlers -> 0..Stages] /\ instance' = instance
  /\ pc' \in [Actors -> Places] /\ reply' \in [Actors -> {Failed} \cup 0..Len(ledger')]
  /\ \A b \in Actors :
       /\ b # a => reply'[b] = reply[b]
       /\ \/ pc'[b] = pc[b]
          \/ b = a /\ b \in Cancels /\ pc[b] \in ProviderCancel /\ pc'[b] \in ProviderCancel
  /\ reply' = reply \/ (reply[a] = 0 /\ pc[a] \in Callable)
  /\ pc[a] \in Waits /\ reply'[a] # 0 => tail[1] = a

\* The ledger and the provider only grow, and a StageRun that has ended stays so.
Grown ==
  /\ Len(ledger') \in Nat /\ Len(ledger) <= Len(ledger')
  /\ \A r \in 1..Len(ledger) : ledger'[r] = ledger[r]
  /\ \A r \in DOMAIN provider :
       /\ r \in DOMAIN provider'
       /\ provider[r].status # "running" => provider'[r] = provider[r]

\* Nothing is added after the end of a run.
LEMMA NothingAfterEnd ==
  ASSUME LedgerTypes, Positions, NEW a \in Actors, Wrote(a), Over(Len(ledger))
  PROVE  ledger' = ledger
<1> SUFFICES ASSUME NEW s, Appends(a, s) PROVE FALSE
  BY DEF Wrote
<1>1. ledger[Len(ledger)] \in Terminal
  BY DEF Over
<1>2. CASE a = Main /\ pc[a] = "advance" /\ Len(ledger) = op
  <2>1. ledger[Len(ledger)] \in Automatic
    BY <1>2 DEF Positions
  <2> QED
    BY <1>1, <2>1, Transitions
<1>3. CASE ledger[Len(ledger)] = "awaiting"
  BY <1>1, <1>3 DEF Terminal
<1>4. Len(ledger) > 0 /\ Over(Len(ledger))
  BY DEF Over
<1> QED
  BY <1>2, <1>3, <1>4 DEF Appends

\* What is added is a state.
LEMMA StateAdded ==
  ASSUME Types, Positions, NEW a \in Actors, NEW s, Appends(a, s)
  PROVE  s \in States
<1>1. CASE a = Main /\ pc[a] = "advance" /\ Len(ledger) = op /\ s \in Successors(ledger[op])
  <2>1. ledger[op] \in Automatic
    BY <1>1 DEF Positions
  <2> QED
    BY <1>1, <2>1, Transitions
<1>2. CASE s \in {"designing", "evaluating", "activating", "rejected", "cancelled", "failed"}
  BY <1>2 DEF States, ProviderStates, Terminal
<1> QED
  BY <1>1, <1>2 DEF Appends

\* What an activity commits keeps the types of the ledger and only grows it.
LEMMA ActivityGrows ==
  ASSUME Types, Positions, NEW a \in Actors, Activity(a)
  PROVE  LedgerTypes' /\ Grown
<1>1. /\ ledger \in Seq(States) /\ Len(ledger) \in Nat
      /\ \A r \in DOMAIN provider : r \in 1..Len(ledger) /\ ledger[r] \in ProviderStates /\ provider[r] \in Entry
      /\ instance' = instance /\ faults' \in 0..MaxFaults /\ op \in 0..Len(ledger)
      /\ provider = [r \in DOMAIN provider |-> provider[r]]
      /\ instance \in Instances
  BY Bounds DEF Types, LedgerTypes, Activity, FlowTypes
<1>2. /\ ledger' \in Seq(States) /\ Len(ledger') \in Nat /\ Len(ledger) <= Len(ledger')
      /\ \A r \in 1..Len(ledger) : ledger'[r] = ledger[r]
  <2>1. CASE ledger' = ledger
    BY <1>1, <2>1
  <2>2. ASSUME NEW s, ledger' = Append(ledger, s), Appends(a, s)
        PROVE  /\ ledger' \in Seq(States) /\ Len(ledger') \in Nat /\ Len(ledger) <= Len(ledger')
               /\ \A r \in 1..Len(ledger) : ledger'[r] = ledger[r]
    <3>1. s \in States
      BY <2>2, StateAdded
    <3> QED
      BY <1>1, <2>2, <3>1, AppendOne
  <2> QED
    BY <2>1, <2>2 DEF Activity, Wrote
<1> DEFINE Same(r) == provider[r].status # "running" => provider'[r] = provider[r]
<1>3. /\ \A r \in DOMAIN provider' : r \in 1..Len(ledger) /\ ledger[r] \in ProviderStates
                                      /\ provider'[r] \in Entry
      /\ provider' = [r \in DOMAIN provider' |-> provider'[r]]
      /\ \A r \in DOMAIN provider : r \in DOMAIN provider' /\ Same(r)
  <2>1. CASE provider' = provider
    BY <1>1, <2>1
  <2>2. CASE a = Main /\ pc[a] = "launch"
             /\ provider' = [r \in DOMAIN provider \cup {op} |->
                               IF r \in DOMAIN provider THEN provider[r]
                                                        ELSE [stage |-> 1, status |-> "running"]]
    <3>1. op \in 1..Len(ledger) /\ ledger[op] \in ProviderStates
      BY <1>1, <2>2 DEF Positions, Working
    <3>2. [stage |-> 1, status |-> "running"] \in Entry
      BY Bounds DEF Entry, Types
    <3> QED
      BY <1>1, <2>2, <3>1, <3>2
  <2>3. ASSUME NEW k \in DOMAIN provider, NEW e \in Entry, provider[k].status = "running",
               provider' = [provider EXCEPT ![k] = e]
        PROVE  /\ \A r \in DOMAIN provider' : r \in 1..Len(ledger) /\ ledger[r] \in ProviderStates
                                               /\ provider'[r] \in Entry
               /\ provider' = [r \in DOMAIN provider' |-> provider'[r]]
               /\ \A r \in DOMAIN provider : r \in DOMAIN provider' /\ Same(r)
    BY <1>1, <2>3
  <2> QED
    BY <2>1, <2>2, <2>3 DEF Activity, Moved
<1>4. LedgerTypes'
  <2>1. Entry' = Entry /\ MaxFaults' = MaxFaults
    BY <1>1 DEF Entry, Stages, MaxFaults
  <2> QED
    BY <1>1, <1>2, <1>3, <2>1 DEF LedgerTypes
<1> QED
  BY <1>2, <1>3, <1>4 DEF Grown

\* With the ledger grown, every other variable keeps its type.
LEMMA ActivityTypes ==
  ASSUME Types, Positions, NEW a \in Actors, Activity(a)
  PROVE  Types'
<1>1. LedgerTypes' /\ Grown
  BY ActivityGrows
<1>2. 0..Len(ledger) \subseteq 0..Len(ledger') /\ CursorSet \subseteq CursorSet'
  <2>1. Len(ledger) \in Nat /\ Len(ledger') \in Nat /\ Len(ledger) <= Len(ledger')
    BY <1>1, Bounds DEF Grown, Types
  <2>2. DOMAIN provider \subseteq DOMAIN provider'
    BY <1>1 DEF Grown
  <2> QED
    BY <2>1, <2>2 DEF CursorSet
<1>3. Stages' = Stages /\ MaxObservations' = MaxObservations
  BY DEF Activity, Stages, MaxObservations
<1>4. FlowTypes'
  <2>1. /\ seen' = seen /\ op' = op /\ cursor' = cursor /\ active' = active
        /\ requested' = requested /\ transition' = transition /\ observations' = observations
    BY DEF Activity, flow
  <2> QED
    BY <1>2, <1>3, <2>1 DEF Types, FlowTypes
<1>5. ActorTypes'
  <2>1. pc'[Main] = pc[Main]
    BY FoundryWorkflowAssumption DEF Activity, Actors, Handlers
  <2> QED
    BY <2>1 DEF Activity, Types, ActorTypes, Distinct
<1>6. UpdateTypes'
  BY <1>2, <1>3 DEF Activity, Types, UpdateTypes
<1> QED
  BY <1>1, <1>4, <1>5, <1>6 DEF Types

\* An activity keeps the order of the ledger, and a run that it makes fail has a
\* reason to.
LEMMA ActivityLedger ==
  ASSUME WorkflowInv, NEW a \in Actors, Activity(a)
  PROVE  LedgerShape'
<1>1. /\ Types /\ Positions /\ LedgerShape /\ Grown /\ LedgerTypes'
      /\ ledger \in Seq(States) /\ Len(ledger) \in Nat /\ op \in 0..Len(ledger)
      /\ faults \in Nat /\ faults' \in Nat /\ faults <= faults'
      /\ Wrote(a) /\ Moved(a) /\ committed' = committed
  <2>1. Types /\ Positions /\ LedgerShape /\ Wrote(a) /\ Moved(a) /\ committed' = committed
    BY DEF WorkflowInv, Agree, Activity
  <2>2. Grown /\ LedgerTypes'
    BY <2>1, ActivityGrows
  <2>3. LedgerTypes /\ MaxFaults \in Nat /\ faults \in Nat /\ Len(ledger) \in Nat
    BY <2>1, Bounds DEF Types
  <2>4. faults' \in Nat /\ faults <= faults'
    BY <2>3 DEF Activity
  <2> QED
    BY <2>1, <2>2, <2>3, <2>4 DEF Types, FlowTypes, LedgerTypes
<1> DEFINE n == Len(ledger)
<1>2. ASSUME NEW s, ledger' = Append(ledger, s), Appends(a, s)
      PROVE  /\ Len(ledger') = n + 1 /\ ledger'[n + 1] = s
             /\ n > 0 => ledger[n] \notin Terminal
             /\ n \in DOMAIN provider /\ provider[n].status # "finished" => s \in {"cancelled", "failed"}
  <2>1. Len(ledger') = n + 1 /\ ledger'[n + 1] = s
    BY <1>1, <1>2, StateAdded, AppendOne
  <2>2. CASE a = Main /\ pc[a] = "start" /\ n = 0
    BY <1>1, <2>1, <2>2 DEF Types, LedgerTypes
  <2>3. CASE ~Over(n) /\ s \in {"cancelled", "failed"}
    BY <2>1, <2>3 DEF Over
  <2>4. CASE ledger[n] = "awaiting"
    <3>1. n \in DOMAIN provider => ledger[n] \in ProviderStates
      BY <1>1 DEF Types, LedgerTypes
    <3> QED
      BY <2>1, <2>4, <3>1 DEF ProviderStates, Terminal
  <2>5. CASE a = Main /\ pc[a] = "advance" /\ n = op /\ n > 0
    <3>1. ledger[n] \in Automatic
      BY <1>1, <2>5 DEF Positions
    <3>2. n \in DOMAIN provider => provider[n].status = "finished"
      BY <1>1, <2>5 DEF Positions, Types, LedgerTypes
    <3> QED
      BY <2>1, <3>1, <3>2, Transitions
  <2>6. pc[Main] = "advance" /\ n = op => n > 0
    BY <1>1 DEF Positions
  <2> QED
    BY <1>2, <2>2, <2>3, <2>4, <2>5, <2>6 DEF Appends
<1>3. ASSUME NEW r \in 1..Len(ledger'), r < Len(ledger')
      PROVE  ledger'[r] \notin Terminal
  <2>1. CASE ledger' = ledger
    BY <1>1, <1>3, <2>1 DEF LedgerShape
  <2>2. ASSUME NEW s, ledger' = Append(ledger, s), Appends(a, s)
        PROVE  ledger'[r] \notin Terminal
    <3>1. Len(ledger') = n + 1 /\ r \in 1..n
      BY <1>1, <1>2, <1>3, <2>2
    <3>2. ledger'[r] = ledger[r]
      BY <1>1, <3>1 DEF Grown
    <3>3. r = n => ledger[r] \notin Terminal
      BY <1>1, <1>2, <2>2, <3>1
    <3>4. r < n => ledger[r] \notin Terminal
      BY <1>1, <3>1 DEF LedgerShape
    <3> QED
      BY <1>1, <3>1, <3>2, <3>3, <3>4
  <2> QED
    BY <1>1, <2>1, <2>2 DEF Wrote
<1>4. ASSUME NEW r \in DOMAIN provider', provider'[r].status # "finished", r < Len(ledger')
      PROVE  ledger'[r + 1] \in {"cancelled", "failed"}
  <2>1. CASE provider' = provider /\ ledger' = ledger
    BY <1>1, <1>4, <2>1 DEF LedgerShape
  <2>2. CASE ledger' = ledger /\ Len(ledger) = op
             /\ provider' = [k \in DOMAIN provider \cup {op} |->
                               IF k \in DOMAIN provider THEN provider[k]
                                                        ELSE [stage |-> 1, status |-> "running"]]
    <3>1. r \in DOMAIN provider /\ provider'[r] = provider[r]
      BY <1>4, <2>2
    <3> QED
      BY <1>1, <1>4, <2>2, <3>1 DEF LedgerShape
  <2>3. ASSUME NEW k \in DOMAIN provider, NEW e \in Entry, provider[k].status = "running",
               ledger' = ledger, provider' = [provider EXCEPT ![k] = e]
        PROVE  ledger'[r + 1] \in {"cancelled", "failed"}
    <3>1. r \in DOMAIN provider /\ provider[r].status # "finished"
      BY <1>4, <2>3
    <3> QED
      BY <1>1, <1>4, <2>3, <3>1 DEF LedgerShape
  <2>4. ASSUME NEW s, ledger' = Append(ledger, s), Appends(a, s), provider' = provider
        PROVE  ledger'[r + 1] \in {"cancelled", "failed"}
    <3>1. r \in 1..n /\ Len(ledger') = n + 1
      BY <1>1, <1>2, <2>4 DEF Types, LedgerTypes
    <3>2. r = n => ledger'[r + 1] \in {"cancelled", "failed"}
      BY <1>2, <1>4, <2>4
    <3>3. r < n => ledger[r + 1] \in {"cancelled", "failed"} /\ ledger'[r + 1] = ledger[r + 1]
      BY <1>1, <1>4, <2>4, <3>1 DEF LedgerShape, Grown
    <3> QED
      BY <1>1, <3>1, <3>2, <3>3
  <2>5. ledger' = ledger \/ provider' = provider
    BY <1>1 DEF Moved
  <2>6. CASE provider' = provider
    BY <1>1, <2>1, <2>4, <2>6 DEF Wrote
  <2>7. CASE provider' # provider
    BY <1>1, <2>2, <2>3, <2>7 DEF Moved
  <2> QED
    BY <2>6, <2>7
<1>5. ASSUME NEW r \in DOMAIN provider', provider'[r].status = "broken"
      PROVE  faults' > 0
  <2>1. \A k \in DOMAIN provider : provider[k].status = "broken" => faults' > 0
    BY <1>1 DEF LedgerShape
  <2>2. CASE provider' = [k \in DOMAIN provider \cup {op} |->
                            IF k \in DOMAIN provider THEN provider[k]
                                                     ELSE [stage |-> 1, status |-> "running"]]
    BY <1>5, <2>1, <2>2
  <2>3. ASSUME NEW k \in DOMAIN provider, NEW e \in Entry,
               provider' = [provider EXCEPT ![k] = e], e.status = "broken" => faults' > 0
        PROVE  faults' > 0
    BY <1>5, <2>1, <2>3
  <2>4. CASE provider' = provider
    BY <1>5, <2>1, <2>4
  <2> QED
    BY <1>1, <2>2, <2>3, <2>4 DEF Moved
<1>6. FailureHasCause'
  <2> SUFFICES ASSUME ledger' # <<>>, ledger'[Len(ledger')] = "failed", ~(faults' > 0)
               PROVE  \/ \E h \in Cancels : committed'[h]
                      \/ \E r \in DOMAIN provider' : provider'[r].status = "stopped"
    BY DEF FailureHasCause, Last
  <2>1. ASSUME NEW r \in DOMAIN provider, provider[r].status = "stopped"
        PROVE  \E k \in DOMAIN provider' : provider'[k].status = "stopped"
    BY <1>1, <2>1 DEF Grown
  <2>2. CASE ledger' = ledger
    <3>1. \/ \E h \in Cancels : committed[h]
          \/ \E r \in DOMAIN provider : provider[r].status = "stopped"
      BY <1>1, <2>2 DEF LedgerShape, FailureHasCause, Last
    <3> QED
      BY <1>1, <2>1, <3>1
  <2>3. ASSUME NEW s, ledger' = Append(ledger, s), Appends(a, s)
        PROVE  \/ \E h \in Cancels : committed'[h]
               \/ \E r \in DOMAIN provider' : provider'[r].status = "stopped"
    <3>1. s = "failed"
      BY <1>2, <2>3
    <3>2. pc[a] = "fail" /\ ~Over(n)
      <4>1. ASSUME pc[Main] = "advance", n = op, s \in Successors(ledger[op]) PROVE FALSE
        <5>1. ledger[op] \in Automatic
          BY <1>1, <4>1 DEF Positions
        <5> QED
          BY <3>1, <4>1, <5>1 DEF Automatic, ProviderStates, Successors
      <4> QED
        BY <2>3, <3>1, <4>1 DEF Appends
    <3>3. CASE a = Main
      <4>1. op \in DOMAIN provider /\ provider[op].status = "stopped"
        BY <1>1, <3>2, <3>3 DEF WorkflowInv, Agree, Known
      <4> QED
        BY <2>1, <4>1
    <3>4. CASE a \in Handlers
      <4>1. a \in Cancels /\ committed[a]
        BY <3>2, <3>4 DEF WorkflowInv, Agree, Answered, DecisionPlaces, Handlers
      <4> QED
        BY <1>1, <4>1
    <3> QED
      BY <3>3, <3>4 DEF Actors
  <2> QED
    BY <1>1, <2>2, <2>3 DEF Wrote
<1> QED
  BY <1>3, <1>4, <1>5, <1>6 DEF LedgerShape

\* What is known of the last revision stays known of it: only the workflow's own
\* advance leaves an automatic state behind.
LEMMA FreshStays ==
  ASSUME WorkflowInv, NEW a \in Actors, Activity(a),
         NEW r \in 1..Len(ledger), ledger[r] \in Automatic, Fresh(r)
  PROVE  \/ Fresh(r)'
         \/ a = Main /\ pc[Main] = "advance" /\ r = op /\ reply[Main] = 0 /\ reply'[Main] # 0
<1>1. LedgerTypes /\ Positions /\ Wrote(a) /\ Types /\ Len(ledger) \in Nat
  BY Bounds DEF WorkflowInv, Types, Agree, Activity
<1>2. CASE ledger' = ledger
  BY <1>2 DEF Fresh, Over
<1>3. ASSUME NEW s, ledger' = Append(ledger, s), Appends(a, s), reply[a] = 0, reply'[a] # 0
      PROVE  \/ Fresh(r)'
             \/ a = Main /\ pc[Main] = "advance" /\ r = op /\ reply[Main] = 0 /\ reply'[Main] # 0
  <2>1. r = Len(ledger)
    <3>1. Append(ledger, s) # ledger
      <4>1. Len(Append(ledger, s)) = Len(ledger) + 1
        BY <1>1, <1>3, StateAdded, AppendOne DEF LedgerTypes
      <4> QED
        BY <1>1, <4>1
    <3>2. ~Over(Len(ledger))
      BY <1>1, <1>3, <3>1, NothingAfterEnd
    <3> QED
      BY <3>2 DEF Fresh
  <2>2. Len(ledger') = Len(ledger) + 1 /\ ledger'[Len(ledger) + 1] = s
    BY <1>1, <1>3, StateAdded, AppendOne DEF LedgerTypes
  <2>3. CASE s \in {"cancelled", "failed"}
    BY <1>1, <2>2, <2>3 DEF Fresh, Over, Terminal
  <2>4. CASE ledger[Len(ledger)] = "awaiting"
    BY <2>1, <2>4 DEF Automatic, ProviderStates
  <2>5. CASE a = Main /\ pc[a] = "advance" /\ Len(ledger) = op
    BY <1>3, <2>1, <2>5
  <2>6. Len(ledger) > 0
    BY <1>1, <2>1
  <2> QED
    BY <1>3, <2>3, <2>4, <2>5, <2>6 DEF Appends
<1> QED
  BY <1>1, <1>2, <1>3 DEF Wrote

\* A run that is over stays over.
LEMMA OverStays ==
  ASSUME WorkflowInv, NEW a \in Actors, Activity(a), Over(Len(ledger))
  PROVE  ledger' = ledger /\ Over(Len(ledger))'
<1>1. ledger' = ledger
  BY NothingAfterEnd DEF WorkflowInv, Types, Agree, Activity
<1> QED
  BY <1>1 DEF Over

\* An activity answers only the head of the tail, or one who does not wait in it.
LEMMA ActivityQueue ==
  ASSUME WorkflowInv, NEW a \in Actors, Activity(a)
  PROVE  Queue'
<1>1. ActorTypes /\ Queue /\ Main \notin Handlers
  BY FoundryWorkflowAssumption DEF WorkflowInv, Types, Agree
<1>2. \A b \in Actors : pc'[b] \in Waits <=> pc[b] \in Waits
  BY DEF Activity, ProviderCancel, Waits
<1>3. Queued(a)
  <2>1. \A b \in Actors : b # a => reply'[b] = reply[b]
    BY DEF Activity
  <2>2. tail' = tail /\ (pc'[a] \in Waits /\ reply'[a] # 0 => tail[1] = a)
    BY <1>2 DEF Activity
  <2> QED
    BY <1>2, <2>1, <2>2 DEF Queued
<1>4. /\ \A b \in Actors : pc'[b] \in Waits <=> Held(tail', b)
      /\ \A b \in Actors : pc'[b] \in Waits /\ reply'[b] # 0 => tail'[1] = b
  BY <1>1, <1>3, QueueKept
<1>5. ASSUME pc'[Main] = "start"
      PROVE  tail'[1] = Main /\ \A h \in Handlers : pc'[h] \in {"idle", "authorize", "submit", "done"}
  <2>1. pc[Main] = "start" /\ tail' = tail
    BY <1>1, <1>5 DEF Activity, Actors, Handlers
  <2>2. tail[1] = Main /\ \A h \in Handlers : pc[h] \in {"idle", "authorize", "submit", "done"}
    BY <1>1, <2>1 DEF Queue
  <2>3. \A h \in Handlers : pc'[h] = pc[h]
    BY <2>2 DEF Activity, ProviderCancel, Actors
  <2> QED
    BY <2>1, <2>2, <2>3
<1> QED
  BY <1>4, <1>5 DEF Queue

\* The positions of the loop speak of revisions that an activity does not change.
LEMMA ActivityPositions ==
  ASSUME WorkflowInv, NEW a \in Actors, Activity(a)
  PROVE  Positions'
<1>1. /\ Positions /\ Grown /\ Types /\ Len(ledger) \in Nat /\ op \in 0..Len(ledger)
      /\ op' = op /\ seen' = seen /\ observations' = observations /\ MaxObservations' = MaxObservations
  BY ActivityGrows, Bounds DEF WorkflowInv, Types, Agree, Activity, flow, MaxObservations, FlowTypes
<1>2. pc'[Main] = pc[Main]
  BY FoundryWorkflowAssumption DEF Activity, Actors, Handlers
<1>3. op # 0 => ledger'[op] = ledger[op]
  BY <1>1 DEF Grown
<1>4. op \in DOMAIN provider => /\ op \in DOMAIN provider'
                                /\ provider[op].status # "running" => provider'[op] = provider[op]
  BY <1>1 DEF Grown
<1> QED
  BY <1>1, <1>2, <1>3, <1>4 DEF Positions, Working, Observing

\* What the loop works on stays the last revision, or the run is over.
LEMMA ActivityKnown ==
  ASSUME WorkflowInv, NEW a \in Actors, Activity(a)
  PROVE  Known'
<1>1. /\ Known /\ Positions /\ Grown /\ Types /\ Len(ledger) \in Nat
      /\ op \in 0..Len(ledger) /\ seen \in 0..Len(ledger)
      /\ faults \in Nat /\ faults' \in Nat /\ faults <= faults'
      /\ op' = op /\ seen' = seen /\ cursor' = cursor
  <2>1. faults \in Nat /\ MaxFaults \in Nat
    BY Bounds DEF WorkflowInv, Types
  <2> QED
    BY <2>1, ActivityGrows, Bounds DEF WorkflowInv, Types, Agree, Activity, flow, FlowTypes
<1>2. /\ pc'[Main] = pc[Main]
      /\ reply'[Main] = 0 => ~(a = Main /\ reply[Main] = 0 /\ reply'[Main] # 0)
  BY FoundryWorkflowAssumption DEF Activity, Actors, Handlers
<1>3. Over(Len(ledger)) => Over(Len(ledger))'
  BY OverStays
<1>4. \A r \in 1..Len(ledger) : ledger'[r] = ledger[r]
  BY <1>1 DEF Grown
<1>5. ASSUME pc[Main] \in Working \/ (pc[Main] = "advance" /\ reply'[Main] = 0)
      PROVE  Fresh(op)'
  <2>1. op \in 1..Len(ledger) /\ ledger[op] \in Automatic
    BY <1>1, <1>5 DEF Positions, Working, Automatic
  <2>2. pc[Main] = "advance" => reply[Main] = 0
    <3>1. reply'[Main] = 0 /\ reply' # reply => reply[Main] = 0
      BY DEF Activity, Actors
    <3> QED
      BY <1>5, <3>1 DEF Working
  <2>3. Fresh(op)
    BY <1>1, <1>5, <2>2 DEF Known
  <2>4. PICK k : k = op
    OBVIOUS
  <2>5. Fresh(k)' \/ (pc[Main] = "advance" /\ reply'[Main] # 0)
    BY <2>1, <2>3, <2>4, FreshStays
  <2>6. Fresh(k)'
    BY <1>5, <2>5 DEF Working
  <2> QED
    BY <1>1, <2>4, <2>6 DEF Fresh, Over
<1>6. ASSUME pc[Main] \notin {"start", "closed"}, ledger'[seen] \in Automatic
      PROVE  \/ Fresh(seen)'
             \/ seen = op /\ (pc[Main] = "fail" \/ (pc[Main] = "advance" /\ reply'[Main] # 0))
  <2>0. op # 0 /\ op <= seen
    BY <1>1, <1>6 DEF Positions
  <2>1. seen \in 1..Len(ledger) /\ ledger[seen] \in Automatic
    BY <1>1, <1>4, <1>6, <2>0
  <2>2. CASE Fresh(seen)
    <3>1. PICK k : k = seen
      OBVIOUS
    <3>2. \/ Fresh(k)'
          \/ a = Main /\ pc[Main] = "advance" /\ k = op /\ reply[Main] = 0 /\ reply'[Main] # 0
      BY <2>1, <2>2, <3>1, FreshStays
    <3>3. Fresh(k)' => Fresh(seen)'
      BY <1>1, <3>1 DEF Fresh, Over
    <3> QED
      BY <3>1, <3>2, <3>3
  <2>3. CASE ~Fresh(seen)
    <3>1. seen = op /\ (pc[Main] = "fail" \/ (pc[Main] = "advance" /\ reply[Main] # 0))
      BY <1>1, <1>6, <2>1, <2>3 DEF Known
    <3>2. reply[Main] # 0 => reply'[Main] = reply[Main]
      BY DEF Activity, Actors
    <3> QED
      BY <3>1, <3>2
  <2> QED
    BY <2>2, <2>3
<1>7. ASSUME pc[Main] = "start", cursor.status = "pending"
      PROVE  Fresh(cursor.op)'
  <2>1. Fresh(cursor.op) /\ cursor.op \in 1..Len(ledger) /\ ledger[cursor.op] \in Automatic
    <3>1. cursor \in [op : DOMAIN provider, status : {"pending", "terminal"}]
      BY <1>1, <1>7 DEF Types, FlowTypes, CursorSet, None
    <3>2. cursor.op \in DOMAIN provider
      BY <3>1
    <3> QED
      BY <1>1, <1>7, <3>2 DEF Types, LedgerTypes, Known, Automatic
  <2>2. PICK k : k = cursor.op
    OBVIOUS
  <2>3. Fresh(k)'
    BY <1>7, <2>1, <2>2, FreshStays
  <2> QED
    BY <1>1, <2>2, <2>3 DEF Fresh, Over
<1>8. ASSUME pc[Main] = "fail"
      PROVE  \/ faults' > 0 \/ Over(Len(ledger))'
             \/ op = Len(ledger') /\ op \in DOMAIN provider' /\ provider'[op].status = "stopped"
  <2>1. CASE faults > 0
    BY <1>1, <2>1
  <2>2. CASE Over(Len(ledger))
    BY <1>3, <2>2
  <2>3. CASE op = Len(ledger) /\ op \in DOMAIN provider /\ provider[op].status = "stopped"
    <3>1. op \in DOMAIN provider' /\ provider'[op].status = "stopped"
      BY <1>1, <2>3 DEF Grown
    <3>2. op \in 1..Len(ledger) /\ ledger[op] \in Automatic /\ Fresh(op)
      BY <1>1, <2>3 DEF Types, LedgerTypes, Automatic, Fresh
    <3>3. PICK k : k = op
      OBVIOUS
    <3>4. Fresh(k)'
      BY <1>8, <3>2, <3>3, FreshStays
    <3> QED
      BY <1>1, <3>1, <3>3, <3>4 DEF Fresh
  <2> QED
    BY <1>1, <1>8, <2>1, <2>2, <2>3 DEF Known
<1>9. ASSUME pc[Main] = "closed"
      PROVE  faults' > 0 \/ Over(Len(ledger))'
  BY <1>1, <1>3, <1>9 DEF Known
<1> QED
  BY <1>1, <1>2, <1>5, <1>6, <1>7, <1>8, <1>9 DEF Known

\* What the workflow function has been answered stays true when others commit.
LEMMA ActivityMain ==
  ASSUME WorkflowInv, NEW a \in Actors, a # Main, Activity(a)
  PROVE  MainAnswered'
<1>1. /\ MainAnswered /\ Grown /\ Types /\ Queue /\ Len(ledger) \in Nat
      /\ faults \in Nat /\ faults' \in Nat /\ faults <= faults' /\ op' = op
  <2>1. faults \in Nat /\ MaxFaults \in Nat
    BY Bounds DEF WorkflowInv, Types
  <2> QED
    BY <2>1, ActivityGrows, Bounds DEF WorkflowInv, Types, Agree, Activity, flow
<1>2. pc'[Main] = pc[Main] /\ reply'[Main] = reply[Main] /\ reply[Main] \in {Failed} \cup 0..Len(ledger)
  BY <1>1, FoundryWorkflowAssumption DEF Activity, Actors, Handlers, Types, ActorTypes
<1>3. Over(Len(ledger)) => ledger' = ledger /\ Over(Len(ledger))'
  BY OverStays
<1>4. tail[1] = Main => ledger' = ledger
  BY <1>1, FoundryWorkflowAssumption DEF Activity, Wrote, Appends
<1>5. pc[Main] \in {"start", "fail"} /\ reply[Main] # 0 => tail[1] = Main
  BY <1>1 DEF Queue, Waits, Actors
<1>6. \A r \in 1..Len(ledger) : ledger'[r] = ledger[r]
  BY <1>1 DEF Grown
<1>7. ASSUME NEW r \in 1..Len(ledger), ledger[r] \in Automatic, Fresh(r)
      PROVE  Fresh(r)'
  BY <1>7, FreshStays
<1>8. op \in DOMAIN provider => op \in DOMAIN provider'
  BY <1>1 DEF Grown
<1> DEFINE r == reply[Main]
<1>9. ASSUME pc[Main] = "advance", r > 0
      PROVE  r = op + 1 /\ (ledger'[r] \in Automatic => Fresh(r)')
  <2>1. r = op + 1 /\ r \in 1..Len(ledger) /\ (ledger[r] \in Automatic => Fresh(r))
    BY <1>1, <1>2, <1>9 DEF MainAnswered, Failed
  <2>2. PICK k : k = r
    OBVIOUS
  <2>3. ledger[k] \in Automatic => Fresh(k)'
    BY <1>7, <2>1, <2>2
  <2>4. r' = r
    BY <1>2
  <2>5. Fresh(k)' => Fresh(r)'
    BY <2>2, <2>4 DEF Fresh, Over
  <2> QED
    BY <1>6, <2>1, <2>2, <2>3, <2>5
<1> HIDE DEF r
<1>10. /\ pc[Main] = "start" => (r > 0 => r = Len(ledger')) /\ (r = Failed => faults' > 0)
       /\ pc[Main] = "launch" => /\ r > 0 => r = op /\ op \in DOMAIN provider'
                                 /\ r = Failed => faults' > 0 \/ Over(Len(ledger))'
       /\ pc[Main] = "advance" => (r = Failed => faults' > 0 \/ Over(Len(ledger))')
       /\ pc[Main] = "fail" => /\ r > 0 => r = Len(ledger') /\ Over(Len(ledger))'
                               /\ r = Failed => faults' > 0
       /\ r # 0 => pc[Main] \in {"start", "launch", "advance", "fail", "closed"}
  BY <1>1, <1>2, <1>3, <1>4, <1>5, <1>8 DEF MainAnswered, r, Failed
<1>11. r' = r
  BY <1>2 DEF r
<1> QED
  BY <1>1, <1>2, <1>9, <1>10, <1>11 DEF MainAnswered, r

\* What a handler has been answered stays true when others commit.
LEMMA ActivityHandlers ==
  ASSUME WorkflowInv, NEW a \in Actors, Activity(a), MainAnswered', NEW h \in Handlers, h # a
  PROVE  Answered(h)'
<1>1. /\ Answered(h) /\ Types /\ Queue /\ Known /\ Positions /\ Len(ledger) \in Nat
      /\ op' = op /\ seen' = seen /\ expected' = expected /\ captured' = captured /\ committed' = committed
  BY Bounds DEF WorkflowInv, Types, Agree, Activity, flow
<1>2. pc'[h] = pc[h] /\ reply'[h] = reply[h] /\ reply[h] \in {Failed} \cup 0..Len(ledger) /\ h \in Actors
  BY <1>1 DEF Activity, Actors, Types, ActorTypes
<1>3. Over(Len(ledger)) => ledger' = ledger /\ Over(Len(ledger))'
  BY OverStays
<1>4. ASSUME pc[h] = "submit", reply[h] > 0, ~Over(Len(ledger))
      PROVE  /\ reply[h] = Len(ledger') /\ seen < Len(ledger') /\ op < Len(ledger')
             /\ reply'[Main] < Len(ledger') \/ Over(Len(ledger))'
  <2>1. /\ reply[h] = Len(ledger) /\ seen < Len(ledger) /\ op < Len(ledger) /\ reply[Main] < Len(ledger)
    BY <1>1, <1>4 DEF Answered
  <2>2. tail[1] = h
    BY <1>1, <1>2, <1>4, <2>1 DEF Queue, Waits
  <2>3. ledger' = ledger
    <3>1. ~ \E s : Appends(a, s)
      BY <2>1, <2>2 DEF Appends
    <3> QED
      BY <3>1 DEF Activity, Wrote
  <2>4. reply'[Main] < Len(ledger) \/ Over(Len(ledger))
    <3>1. CASE reply'[Main] = reply[Main]
      BY <2>1, <3>1
    <3>2. CASE reply'[Main] # reply[Main]
      <4>1. a = Main /\ reply[Main] = 0 /\ pc[Main] \in Callable
        BY <3>2, FoundryWorkflowAssumption DEF Activity, Actors, Handlers
      <4>2. reply'[Main] # 0 /\ pc'[Main] = pc[Main]
        BY <3>2, <4>1, FoundryWorkflowAssumption DEF Activity, Actors, Handlers
      <4>3. pc[Main] \notin {"start", "fail"}
        <5>1. ASSUME pc[Main] \in Waits PROVE FALSE
          <6>1. tail[1] = Main
            BY <4>1, <4>2, <5>1 DEF Activity
          <6> QED
            BY <2>2, <6>1, FoundryWorkflowAssumption
        <5> QED
          BY <5>1 DEF Waits
      <4>4. pc[Main] \in {"launch", "advance"}
        BY <4>2, <4>3, <4>1 DEF MainAnswered, Callable
      <4>5. CASE pc[Main] = "advance"
        <5>1. Fresh(op)
          BY <1>1, <4>1, <4>5 DEF Known
        <5> QED
          BY <1>1, <2>1, <5>1 DEF Fresh
      <4>6. CASE pc[Main] = "launch"
        <5>1. reply'[Main] > 0 => reply'[Main] = op
          BY <1>1, <4>2, <4>6 DEF MainAnswered
        <5>2. reply'[Main] \in {Failed} \cup 0..Len(ledger)
          <6>1. reply' \in [Actors -> {Failed} \cup 0..Len(ledger')]
            BY DEF Activity
          <6> QED
            BY <2>3, <6>1 DEF Actors
        <5> QED
          BY <1>1, <1>4, <2>1, <5>1, <5>2 DEF Failed
      <4> QED
        BY <4>4, <4>5, <4>6
    <3> QED
      BY <3>1, <3>2
  <2> QED
    BY <1>3, <2>1, <2>3, <2>4
<1>5. pc[h] \in {"cancel", "fail"} /\ reply[h] > 0 => Over(Len(ledger))'
  BY <1>1, <1>3 DEF Answered
<1> QED
  BY <1>1, <1>2, <1>3, <1>4, <1>5 DEF Answered

\* An activity keeps the invariant if its answer fits it.
LEMMA ActivityKeeps ==
  ASSUME WorkflowInv, NEW a \in Actors, Activity(a),
         a = Main => MainAnswered',
         a \in Handlers => Answered(a)'
  PROVE  WorkflowInv'
<1>1. Types'
  BY ActivityTypes DEF WorkflowInv, Agree
<1>2. LedgerShape' /\ Queue' /\ Positions' /\ Known'
  BY ActivityLedger, ActivityQueue, ActivityPositions, ActivityKnown
<1>3. MainAnswered'
  BY ActivityMain
<1>4. \A h \in Handlers : Answered(h)'
  BY <1>3, ActivityHandlers
<1> QED
  BY <1>1, <1>2, <1>3, <1>4 DEF WorkflowInv, Agree

\* How an activity at the ledger ends.
LEMMA Attempted ==
  ASSUME Types, NEW a \in Actors, NEW allowed \in BOOLEAN, NEW next, Len(next) \in Nat \ {0},
         Attempt(a, allowed, next)
  PROVE  /\ faults' \in 0..MaxFaults /\ faults <= faults'
         /\ reply' = [reply EXCEPT ![a] = reply'[a]]
         /\ \A b \in Actors : b # a => reply'[b] = reply[b]
         /\ reply'[a] # 0
         /\ \/ allowed /\ ledger' = next /\ reply'[a] = Len(next)
            \/ ~allowed /\ ledger' = ledger /\ reply'[a] = Failed
            \/ /\ faults' > 0 /\ reply'[a] = Failed
               /\ ledger' = ledger \/ (allowed /\ ledger' = next)
<1>1. reply \in [Actors -> {Failed} \cup 0..Len(ledger)] /\ faults \in 0..MaxFaults /\ MaxFaults \in Nat
  BY Bounds DEF Types, ActorTypes, LedgerTypes
<1>2. CASE allowed /\ ledger' = next /\ Answer(a, Len(next)) /\ UNCHANGED faults
  BY <1>1, <1>2 DEF Answer
<1>3. CASE ~allowed /\ Answer(a, Failed) /\ UNCHANGED <<ledger, faults>>
  BY <1>1, <1>3 DEF Answer, Failed
<1>4. CASE /\ faults < MaxFaults /\ faults' = faults + 1 /\ Answer(a, Failed)
           /\ ledger' \in {ledger} \cup (IF allowed THEN {next} ELSE {})
  BY <1>1, <1>4 DEF Answer, Failed
<1> QED
  BY <1>2, <1>3, <1>4 DEF Attempt

\* An activity at the ledger is an activity if what it writes is its own.
LEMMA AtLedger ==
  ASSUME WorkflowInv, NEW a \in Actors, NEW allowed \in BOOLEAN, NEW next,
         Len(next) \in Nat \ {0}, Attempt(a, allowed, next), reply[a] = 0, pc[a] \in Callable,
         UNCHANGED <<provider, seen, flow, tail, pc, update>>, instance' = instance,
         pc[a] \in Waits => tail[1] = a,
         allowed => \/ next = ledger
                    \/ \E s : next = Append(ledger, s) /\ Appends(a, s)
  PROVE  Activity(a)
<1>1. /\ Types /\ Positions
      /\ pc \in [Actors -> Places] /\ reply \in [Actors -> {Failed} \cup 0..Len(ledger)]
      /\ target \in [Handlers -> 0..Stages] /\ Len(ledger) \in Nat
  BY Bounds DEF WorkflowInv, Agree, Types, ActorTypes, UpdateTypes
<1>2. /\ faults' \in 0..MaxFaults /\ faults <= faults'
      /\ reply' = [reply EXCEPT ![a] = reply'[a]]
      /\ \A b \in Actors : b # a => reply'[b] = reply[b]
      /\ reply'[a] # 0
      /\ \/ allowed /\ ledger' = next /\ reply'[a] = Len(next)
         \/ ~allowed /\ ledger' = ledger /\ reply'[a] = Failed
         \/ /\ faults' > 0 /\ reply'[a] = Failed
            /\ ledger' = ledger \/ (allowed /\ ledger' = next)
  BY <1>1, Attempted
<1>3. Wrote(a)
  BY <1>2 DEF Wrote
<1>4. Len(ledger') \in Nat /\ Len(ledger) <= Len(ledger')
  <2>1. ASSUME NEW s, ledger' = Append(ledger, s), Appends(a, s)
        PROVE  Len(ledger') = Len(ledger) + 1
    BY <1>1, <2>1, StateAdded, AppendOne DEF Types, LedgerTypes
  <2> QED
    BY <1>1, <1>3, <2>1 DEF Wrote
<1>5. reply'[a] \in {Failed} \cup 0..Len(ledger')
  BY <1>2, <1>4
<1>6. reply' \in [Actors -> {Failed} \cup 0..Len(ledger')]
  BY <1>1, <1>2, <1>4, <1>5
<1>7. Moved(a)
  BY DEF Moved
<1>8. /\ seen' = seen /\ UNCHANGED flow /\ tail' = tail /\ pc' = pc
      /\ expected' = expected /\ captured' = captured /\ committed' = committed /\ target' = target
  BY DEF update
<1>9. Stages' = Stages
  BY DEF Stages
<1> QED
  BY <1>1, <1>2, <1>3, <1>6, <1>7, <1>8 DEF Activity

\* The head of the queue.
LEMMA AtHead ==
  ASSUME Types, NEW a \in Actors, NEW where, Serialized(a, where)
  PROVE  tail[1] = a /\ pc[a] = where /\ reply[a] = 0
BY DEF Types, ActorTypes, Serialized, Calling

\* inspectRun, which creates the run where there is none, reports the last revision.
LEMMA StartRunStep ==
  ASSUME WorkflowInv, StartRun, instance' = instance
  PROVE  WorkflowInv'
<1> DEFINE next == IF ledger = <<>> THEN <<"designing">> ELSE ledger
<1>1. /\ Types /\ Main \in Actors /\ ledger \in Seq(States) /\ Len(ledger) \in Nat
      /\ tail[1] = Main /\ pc[Main] = "start" /\ reply[Main] = 0
  BY AtHead, Bounds DEF WorkflowInv, Types, LedgerTypes, StartRun, Actors
<1>2. /\ ledger = <<>> => next = Append(ledger, "designing") /\ Len(ledger) = 0
      /\ ledger # <<>> => next = ledger
      /\ Len(next) \in Nat \ {0}
  BY <1>1
<1>3. /\ Attempt(Main, TRUE, next) /\ pc' = pc /\ op' = op
      /\ UNCHANGED <<provider, seen, flow, tail, pc, update>>
  BY DEF StartRun, flow
<1> HIDE DEF next
<1>4. next = ledger \/ \E s : next = Append(ledger, s) /\ Appends(Main, s)
  BY <1>1, <1>2 DEF Appends
<1>5. Activity(Main)
  BY <1>1, <1>2, <1>3, <1>4, AtLedger DEF Callable
<1>6. MainAnswered'
  <2>1. \/ ledger' = next /\ reply'[Main] = Len(next)
        \/ faults' > 0 /\ reply'[Main] = Failed
    BY <1>1, <1>2, <1>3, Attempted
  <2> QED
    BY <1>1, <1>2, <1>3, <2>1 DEF MainAnswered, Failed
<1> QED
  BY <1>1, <1>5, <1>6, ActivityKeeps, FoundryWorkflowAssumption

\* Authorizing a cancel only reads the ledger.
LEMMA AuthorizeStep ==
  ASSUME WorkflowInv, NEW h \in Cancels, AuthorizeCancelRun(h), instance' = instance
  PROVE  WorkflowInv'
<1> DEFINE allowed == IsReplay(h) \/ AtExpected(h)
<1>1. /\ Types /\ h \in Handlers /\ h \in Actors /\ h # Main /\ Len(ledger) \in Nat /\ Answered(h)
      /\ tail[1] = h /\ pc[h] = "authorize" /\ reply[h] = 0
  BY AtHead, Bounds DEF WorkflowInv, Types, Agree, AuthorizeCancelRun, Actors, Handlers
<1>2. expected[h] \in 1..Len(ledger) /\ Len(ledger) \in Nat \ {0}
  BY <1>1 DEF Types, UpdateTypes, Answered
<1>3. /\ Attempt(h, allowed, ledger) /\ pc' = pc /\ expected' = expected
      /\ captured' = captured /\ committed' = committed
      /\ UNCHANGED <<provider, seen, flow, tail, pc, update>>
  BY DEF AuthorizeCancelRun, update
<1>4. allowed \in BOOLEAN
  BY DEF IsReplay, AtExpected
<1> HIDE DEF allowed
<1>5. Activity(h)
  BY <1>1, <1>2, <1>3, <1>4, AtLedger DEF Callable
<1>6. Answered(h)'
  BY <1>1, <1>3 DEF Answered, ProviderCancel
<1> QED
  BY <1>1, <1>5, <1>6, ActivityKeeps

\* A cancel ends the run, or finds itself recorded or refused.
LEMMA CancelRunStep ==
  ASSUME WorkflowInv, NEW h \in Cancels, CancelRun(h), instance' = instance
  PROVE  WorkflowInv'
<1> DEFINE open == AtExpected(h) /\ ledger[expected[h]] # "activating"
<1>1. /\ Types /\ h \in Handlers /\ h \in Actors /\ h # Main /\ Len(ledger) \in Nat /\ Answered(h)
      /\ tail[1] = h /\ pc[h] = "cancel" /\ reply[h] = 0
      /\ ledger \in Seq(States) /\ LedgerShape
  BY AtHead, Bounds DEF WorkflowInv, Types, LedgerTypes, Agree, CancelRun, Actors, Handlers
<1>2. expected[h] \in 1..Len(ledger) /\ Len(ledger) \in Nat \ {0}
  BY <1>1 DEF Types, UpdateTypes, Answered
<1>3. /\ pc' = pc /\ expected' = expected
      /\ captured' = captured /\ committed' = committed
      /\ UNCHANGED <<provider, seen, flow, tail, pc, update>>
  BY DEF CancelRun, update
<1>4. open \in BOOLEAN
  BY DEF AtExpected
<1>5. CASE IsReplay(h)
  <2>1. Attempt(h, TRUE, ledger)
    BY <1>5 DEF CancelRun
  <2>2. Activity(h)
    BY <1>1, <1>2, <1>3, <2>1, AtLedger DEF Callable
  <2>3. Over(Len(ledger)) /\ ledger' = ledger
    <3>1. expected[h] + 1 \in 1..Len(ledger) /\ ledger[expected[h] + 1] \in Terminal
      BY <1>1, <1>2, <1>5 DEF IsReplay, Terminal
    <3>2. expected[h] + 1 = Len(ledger)
      BY <1>1, <1>2, <3>1 DEF LedgerShape
    <3>3. ledger' = ledger
      BY <1>1, <1>2, <2>1, Attempted
    <3> QED
      BY <1>2, <3>1, <3>2, <3>3 DEF Over
  <2>4. Over(Len(ledger))'
    BY <2>3 DEF Over
  <2>5. Answered(h)'
    BY <1>1, <1>3, <2>4 DEF Answered, ProviderCancel
  <2> QED
    BY <1>1, <2>2, <2>5, ActivityKeeps
<1>6. CASE ~IsReplay(h)
  <2>1. Attempt(h, open, Append(ledger, "cancelled"))
    BY <1>6 DEF CancelRun
  <2>2. PICK next : next = Append(ledger, "cancelled")
    OBVIOUS
  <2>3. /\ Len(next) = Len(ledger) + 1 /\ next[Len(ledger) + 1] = "cancelled"
        /\ Len(next) \in Nat \ {0}
    BY <1>1, <2>2, AppendOne DEF States, Terminal
  <2>4. open => Appends(h, "cancelled")
    BY <1>1, <1>2 DEF Appends, AtExpected
  <2> HIDE DEF open
  <2>5. Attempt(h, open, next)
    BY <2>1, <2>2
  <2>6. Activity(h)
    BY <1>1, <1>2, <1>3, <1>4, <2>2, <2>3, <2>4, <2>5, AtLedger DEF Callable
  <2>7. reply'[h] > 0 => ledger' = next
    BY <1>1, <1>4, <2>3, <2>5, Attempted DEF Failed
  <2>8. reply'[h] > 0 => Over(Len(ledger))'
    BY <1>1, <2>3, <2>7 DEF Over, Terminal
  <2>9. Answered(h)'
    BY <1>1, <1>3, <2>8 DEF Answered, ProviderCancel
  <2> QED
    BY <1>1, <2>6, <2>9, ActivityKeeps
<1> QED
  BY <1>5, <1>6

\* Failing a run ends it, finds it over, or is refused before the owner.
LEMMA FailRunStep ==
  ASSUME WorkflowInv, NEW a \in Actors, FailRun(a), instance' = instance
  PROVE  WorkflowInv'
<1> DEFINE open == ledger[Len(ledger)] # "awaiting"
<1>1. /\ Types /\ Len(ledger) \in Nat /\ Main \notin Handlers
      /\ tail[1] = a /\ pc[a] = "fail" /\ reply[a] = 0
      /\ ledger \in Seq(States) /\ op \in 0..Len(ledger) /\ Known /\ Positions /\ LedgerTypes
  BY AtHead, Bounds DEF WorkflowInv, Types, LedgerTypes, FlowTypes, Agree, FailRun
<1>2. Len(ledger) \in Nat \ {0}
  <2>1. CASE a = Main
    BY <1>1, <2>1 DEF Positions
  <2>2. CASE a \in Handlers
    <3>1. expected[a] # 0 /\ expected[a] \in 0..Len(ledger)
      BY <1>1, <2>2 DEF WorkflowInv, Agree, Types, UpdateTypes, Answered
    <3> QED
      BY <1>1, <3>1
  <2> QED
    BY <2>1, <2>2 DEF Actors
<1>3. /\ pc' = pc /\ expected' = expected /\ op' = op
      /\ captured' = captured /\ committed' = committed
      /\ UNCHANGED <<provider, seen, flow, tail, pc, update>>
  BY DEF FailRun, update, flow
<1>4. open \in BOOLEAN
  OBVIOUS
<1>5. a = Main => faults > 0 \/ Over(Len(ledger)) \/ open
  <2>1. ASSUME op = Len(ledger), op \in DOMAIN provider PROVE open
    BY <1>1, <2>1 DEF LedgerTypes, ProviderStates
  <2> QED
    BY <1>1, <2>1 DEF Known
<1> HIDE DEF open
<1>6. Activity(a) /\ (reply'[a] > 0 => reply'[a] = Len(ledger') /\ Over(Len(ledger))')
      /\ (reply'[a] = Failed => faults' > 0 \/ (~Over(Len(ledger)) /\ ~open))
  <2>1. CASE Over(Len(ledger))
    <3>1. Attempt(a, TRUE, ledger)
      BY <2>1 DEF FailRun
    <3>2. Activity(a)
      BY <1>1, <1>2, <1>3, <3>1, AtLedger DEF Callable
    <3>3. ledger' = ledger /\ (reply'[a] = Len(ledger) \/ (reply'[a] = Failed /\ faults' > 0))
      BY <1>1, <1>2, <3>1, Attempted
    <3> QED
      BY <1>2, <2>1, <3>2, <3>3 DEF Failed, Over
  <2>2. CASE ~Over(Len(ledger))
    <3>1. Attempt(a, open, Append(ledger, "failed"))
      BY <2>2 DEF FailRun, open
    <3>2. PICK next : next = Append(ledger, "failed")
      OBVIOUS
    <3>3. /\ Len(next) = Len(ledger) + 1 /\ next[Len(ledger) + 1] = "failed"
          /\ Len(next) \in Nat \ {0}
      BY <1>1, <3>2, AppendOne DEF States, Terminal
    <3>4. Appends(a, "failed")
      BY <1>1, <1>2, <2>2 DEF Appends
    <3>5. Attempt(a, open, next)
      BY <3>1, <3>2
    <3>6. Activity(a)
      BY <1>1, <1>2, <1>3, <1>4, <3>2, <3>3, <3>4, <3>5, AtLedger DEF Callable
    <3>7. \/ open /\ ledger' = next /\ reply'[a] = Len(next)
          \/ ~open /\ reply'[a] = Failed
          \/ faults' > 0 /\ reply'[a] = Failed
      BY <1>1, <1>4, <3>3, <3>5, Attempted
    <3> QED
      BY <1>1, <2>2, <3>3, <3>6, <3>7 DEF Failed, Over, Terminal
  <2> QED
    BY <2>1, <2>2
<1>7. CASE a = Main
  <2>1. faults > 0 => faults' > 0
    <3>1. faults \in Nat /\ MaxFaults \in Nat
      BY <1>1, Bounds
    <3> QED
      BY <1>6, <3>1 DEF Activity
  <2>2. MainAnswered'
    BY <1>1, <1>3, <1>5, <1>6, <1>7, <2>1 DEF MainAnswered
  <2> QED
    BY <1>1, <1>6, <1>7, <2>2, ActivityKeeps
<1>8. CASE a \in Handlers
  <2>1. Answered(a)
    BY <1>8 DEF WorkflowInv, Agree
  <2>2. Answered(a)'
    BY <1>1, <1>3, <1>6, <2>1 DEF Answered, ProviderCancel
  <2> QED
    BY <1>1, <1>6, <1>8, <2>2, ActivityKeeps
<1> QED
  BY <1>7, <1>8 DEF Actors

\* An owner decision is taken at the revision it names, which awaits one.
LEMMA SubmitStep ==
  ASSUME WorkflowInv, NEW h \in Decisions, SubmitOwnerDecision(h), instance' = instance
  PROVE  WorkflowInv'
<1> DEFINE open == AtExpected(h) /\ ledger[expected[h]] = "awaiting"
<1>1. /\ Types /\ h \in Handlers /\ h \in Actors /\ h # Main /\ Len(ledger) \in Nat /\ Answered(h)
      /\ tail[1] = h /\ pc[h] = "submit" /\ reply[h] = 0
      /\ ledger \in Seq(States)
      /\ seen \in 0..Len(ledger) /\ op \in 0..Len(ledger) /\ reply[Main] \in {Failed} \cup 0..Len(ledger)
  BY AtHead, Bounds
     DEF WorkflowInv, Types, LedgerTypes, FlowTypes, ActorTypes, Agree, SubmitOwnerDecision, Actors, Handlers
<1>2. expected[h] \in 1..Len(ledger) /\ Len(ledger) \in Nat \ {0}
  BY <1>1 DEF Types, UpdateTypes, Answered
<1>3. /\ pc' = pc /\ expected' = expected /\ op' = op /\ seen' = seen
      /\ captured' = captured /\ committed' = committed
      /\ UNCHANGED <<provider, seen, flow, tail, pc, update>>
  BY DEF SubmitOwnerDecision, update, flow
<1>4. open \in BOOLEAN
  BY DEF AtExpected
<1>5. PICK s \in {"evaluating", "activating", "rejected"} : Attempt(h, open, Append(ledger, s))
  BY DEF SubmitOwnerDecision
<1>6. PICK next : next = Append(ledger, s)
  OBVIOUS
<1>7. Len(next) = Len(ledger) + 1 /\ Len(next) \in Nat \ {0}
  BY <1>1, <1>6, AppendOne DEF States, Terminal
<1>8. open => Appends(h, s)
  BY <1>1, <1>2 DEF Appends, AtExpected
<1>9. Attempt(h, open, next)
  BY <1>5, <1>6
<1> HIDE DEF open
<1>10. Activity(h)
  BY <1>1, <1>2, <1>3, <1>4, <1>6, <1>7, <1>8, <1>9, AtLedger DEF Callable
<1>11. reply'[h] > 0 => ledger' = next /\ reply'[h] = Len(next)
  BY <1>1, <1>4, <1>7, <1>9, Attempted DEF Failed
<1>12. reply'[Main] = reply[Main]
  BY <1>1, <1>10, FoundryWorkflowAssumption DEF Activity, Actors, Handlers
<1>13. reply'[h] > 0 => /\ reply'[h] = Len(ledger') /\ seen < Len(ledger') /\ op < Len(ledger')
                        /\ reply'[Main] < Len(ledger')
  BY <1>1, <1>7, <1>11, <1>12 DEF Failed
<1>14. Answered(h)'
  BY <1>1, <1>3, <1>13 DEF Answered, ProviderCancel
<1> QED
  BY <1>1, <1>10, <1>14, ActivityKeeps

\* Advancing commits after the revision asked for, finds that done, or fails.
LEMMA AdvanceRunStep ==
  ASSUME WorkflowInv, AdvanceRun, instance' = instance
  PROVE  WorkflowInv'
<1>1. /\ Types /\ Main \in Actors /\ ledger \in Seq(States) /\ Len(ledger) \in Nat
      /\ pc[Main] = "advance" /\ reply[Main] = 0
      /\ Known /\ Positions /\ LedgerTypes
      /\ faults \in 0..MaxFaults /\ MaxFaults \in Nat
  BY Bounds DEF WorkflowInv, Types, LedgerTypes, Agree, AdvanceRun, Actors, Calling
<1>2. /\ op \in 1..Len(ledger) /\ ledger[op] \in Automatic /\ Fresh(op) /\ Len(ledger) \in Nat \ {0}
  BY <1>1 DEF Types, FlowTypes, Positions, Known
<1>3. /\ pc' = pc /\ op' = op
      /\ UNCHANGED <<provider, seen, flow, tail, pc, update>>
  BY DEF AdvanceRun, flow
<1> DEFINE recovered == /\ Len(ledger) = op + 1
                        /\ ledger[op + 1] \in Successors(ledger[op]) \cup {"failed"}
<1>4. CASE recovered
  <2>1. Attempt(Main, TRUE, ledger)
    BY <1>4 DEF AdvanceRun
  <2>2. Activity(Main)
    BY <1>1, <1>2, <1>3, <2>1, AtLedger DEF Callable, Waits
  <2>3. ledger' = ledger /\ (reply'[Main] = Len(ledger) \/ (reply'[Main] = Failed /\ faults' > 0))
    BY <1>1, <1>2, <2>1, Attempted
  <2>4. Over(Len(ledger))'
    BY <1>2, <1>4, <2>3 DEF Fresh, Over
  <2>5. MainAnswered'
    BY <1>1, <1>2, <1>3, <1>4, <2>3, <2>4 DEF MainAnswered, Failed, Fresh
  <2> QED
    BY <1>1, <2>2, <2>5, ActivityKeeps, FoundryWorkflowAssumption
<1>5. ASSUME NEW s \in Successors(ledger[op]), Attempt(Main, Len(ledger) = op, Append(ledger, s))
      PROVE  WorkflowInv'
  <2>1. PICK next : next = Append(ledger, s)
    OBVIOUS
  <2>2. Len(next) = Len(ledger) + 1 /\ Len(next) \in Nat \ {0}
    BY <1>1, <1>2, <2>1, AppendOne, Transitions
  <2>3. Len(ledger) = op => Appends(Main, s)
    BY <1>1, <1>5 DEF Appends
  <2>4. PICK open \in BOOLEAN : open <=> Len(ledger) = op
    OBVIOUS
  <2>5. Attempt(Main, open, next)
    BY <1>5, <2>1, <2>4
  <2>6. Activity(Main)
    BY <1>1, <1>2, <1>3, <2>1, <2>2, <2>3, <2>4, <2>5, AtLedger DEF Callable, Waits
  <2>7. \/ open /\ ledger' = next /\ reply'[Main] = Len(next)
        \/ ~open /\ ledger' = ledger /\ reply'[Main] = Failed
        \/ faults' > 0 /\ reply'[Main] = Failed
    BY <1>1, <2>2, <2>5, Attempted
  <2>8. MainAnswered'
    <3>1. CASE open /\ ledger' = next /\ reply'[Main] = Len(next)
      BY <1>1, <1>2, <1>3, <2>2, <2>4, <3>1 DEF MainAnswered, Failed, Fresh
    <3>2. CASE ~open /\ ledger' = ledger /\ reply'[Main] = Failed
      BY <1>1, <1>2, <1>3, <2>4, <3>2 DEF MainAnswered, Failed, Fresh, Over
    <3>3. CASE faults' > 0 /\ reply'[Main] = Failed
      BY <1>1, <1>3, <3>3 DEF MainAnswered, Failed
    <3> QED
      BY <2>7, <3>1, <3>2, <3>3
  <2> QED
    BY <1>1, <2>6, <2>8, ActivityKeeps, FoundryWorkflowAssumption
<1>6. CASE /\ Len(ledger) = op /\ faults < MaxFaults /\ faults' = faults + 1
           /\ ledger' = Append(ledger, "failed") /\ Answer(Main, op + 1)
  <2>1. PICK next : next = Append(ledger, "failed")
    OBVIOUS
  <2>2. Len(next) = Len(ledger) + 1 /\ next[Len(ledger) + 1] = "failed"
    BY <1>1, <2>1, AppendOne DEF States, Terminal
  <2>3. /\ reply \in [Actors -> {Failed} \cup 0..Len(ledger)]
        /\ reply' = [reply EXCEPT ![Main] = op + 1]
        /\ pc \in [Actors -> Places] /\ target \in [Handlers -> 0..Stages]
    BY <1>1, <1>6 DEF Types, ActorTypes, UpdateTypes, Answer
  <2>4. /\ Len(ledger') = Len(ledger) + 1 /\ ledger' = next
        /\ reply' \in [Actors -> {Failed} \cup 0..Len(ledger')] /\ reply'[Main] = op + 1
        /\ \A b \in Actors : b # Main => reply'[b] = reply[b]
        /\ faults' \in 0..MaxFaults /\ faults <= faults' /\ faults' > 0
    BY <1>1, <1>2, <1>6, <2>1, <2>2, <2>3
  <2>5. Wrote(Main) /\ Moved(Main)
    BY <1>1, <1>2, <1>3, <1>6, <2>4 DEF Wrote, Moved, Appends
  <2>6. Activity(Main)
    <3>1. /\ seen' = seen /\ UNCHANGED flow /\ tail' = tail /\ pc' = pc
          /\ expected' = expected /\ captured' = captured /\ committed' = committed /\ target' = target
      BY <1>3 DEF update
    <3> QED
      BY <1>1, <2>3, <2>4, <2>5, <3>1 DEF Activity, Callable, Waits
  <2>7. MainAnswered'
    BY <1>1, <1>2, <1>3, <1>6, <2>4 DEF MainAnswered, Failed, Fresh
  <2> QED
    BY <1>1, <2>6, <2>7, ActivityKeeps, FoundryWorkflowAssumption
<1> QED
  BY <1>4, <1>5, <1>6 DEF AdvanceRun

\* The provider keeps what it has, and a launch adds the operation.
LEMMA LaunchProviderOperationStep ==
  ASSUME WorkflowInv, LaunchProviderOperation, instance' = instance
  PROVE  WorkflowInv'
<1> DEFINE launched == [r \in DOMAIN provider \cup {op} |->
                          IF r \in DOMAIN provider THEN provider[r]
                                                   ELSE [stage |-> 1, status |-> "running"]]
<1>1. /\ Types /\ Main \in Actors /\ Len(ledger) \in Nat
      /\ pc[Main] = "launch" /\ reply[Main] = 0
      /\ Known /\ Positions /\ faults \in 0..MaxFaults /\ MaxFaults \in Nat
      /\ reply \in [Actors -> {Failed} \cup 0..Len(ledger)]
      /\ pc \in [Actors -> Places] /\ target \in [Handlers -> 0..Stages]
  BY Bounds DEF WorkflowInv, Types, LedgerTypes, ActorTypes, UpdateTypes, Agree,
                LaunchProviderOperation, Actors, Calling
<1>2. /\ op \in 1..Len(ledger) /\ Fresh(op)
  BY <1>1 DEF Types, FlowTypes, Positions, Known, Working
<1>3. /\ pc' = pc /\ op' = op /\ ledger' = ledger /\ seen' = seen /\ UNCHANGED flow /\ tail' = tail
      /\ expected' = expected /\ captured' = captured /\ committed' = committed /\ target' = target
  BY DEF LaunchProviderOperation, flow, update
<1>4. /\ faults' \in 0..MaxFaults /\ faults <= faults'
      /\ \/ Answer(Main, op) /\ provider' = launched
         \/ Answer(Main, Failed) /\ (faults' > 0 \/ Len(ledger) # op)
      /\ provider' = provider \/ (provider' = launched /\ Len(ledger) = op)
  <2>1. CASE Len(ledger) = op /\ provider' = launched /\ Answer(Main, op) /\ UNCHANGED faults
    BY <1>1, <2>1
  <2>2. CASE Len(ledger) # op /\ Answer(Main, Failed) /\ UNCHANGED <<provider, faults>>
    BY <1>1, <2>2
  <2>3. CASE /\ faults < MaxFaults /\ faults' = faults + 1 /\ Answer(Main, Failed)
             /\ provider' \in {provider} \cup (IF Len(ledger) = op THEN {launched} ELSE {})
    BY <1>1, <2>3
  <2> QED
    BY <2>1, <2>2, <2>3 DEF LaunchProviderOperation
<1>5. /\ reply' \in [Actors -> {Failed} \cup 0..Len(ledger')]
      /\ \A b \in Actors : b # Main => reply'[b] = reply[b]
      /\ \/ reply'[Main] = op /\ op \in DOMAIN provider'
         \/ reply'[Main] = Failed /\ (faults' > 0 \/ Len(ledger) # op)
  BY <1>1, <1>2, <1>3, <1>4 DEF Answer
<1>6. Wrote(Main) /\ Moved(Main)
  BY <1>1, <1>3, <1>4 DEF Wrote, Moved
<1>7. Activity(Main)
  BY <1>1, <1>3, <1>4, <1>5, <1>6 DEF Activity, Callable, Waits
<1>8. MainAnswered'
  BY <1>1, <1>2, <1>3, <1>5 DEF MainAnswered, Failed, Fresh, Over
<1> QED
  BY <1>1, <1>7, <1>8, ActivityKeeps, FoundryWorkflowAssumption

\* A cancel asks which StageRun the operation is at.
LEMMA QueryStep ==
  ASSUME WorkflowInv, NEW h \in Cancels, QueryProviderOperation(h), instance' = instance
  PROVE  WorkflowInv'
<1>1. /\ Types /\ h \in Handlers /\ h \in Actors /\ h # Main /\ Len(ledger) \in Nat /\ Answered(h)
      /\ pc[h] = "query" /\ reply[h] = 0
      /\ faults \in 0..MaxFaults /\ MaxFaults \in Nat
      /\ reply \in [Actors -> {Failed} \cup 0..Len(ledger)]
      /\ pc \in [Actors -> Places] /\ target \in [Handlers -> 0..Stages]
  BY Bounds DEF WorkflowInv, Types, LedgerTypes, ActorTypes, UpdateTypes, Agree,
                QueryProviderOperation, Actors, Handlers, Calling
<1>2. captured[h].op \in DOMAIN provider /\ captured[h].op \in 1..Len(ledger)
      /\ provider[captured[h].op] \in Entry
  <2>1. captured[h] \in CursorSet /\ captured[h] # None
    BY <1>1 DEF Types, UpdateTypes, Answered, ProviderCancel
  <2>2. captured[h] \in [op : DOMAIN provider, status : {"pending", "terminal"}]
    BY <2>1 DEF CursorSet
  <2>3. captured[h].op \in DOMAIN provider
    BY <2>2
  <2> QED
    BY <1>1, <2>3 DEF Types, LedgerTypes
<1>3. /\ ledger' = ledger /\ provider' = provider /\ seen' = seen /\ UNCHANGED flow /\ tail' = tail
      /\ expected' = expected /\ captured' = captured /\ committed' = committed
  BY DEF QueryProviderOperation
<1>4. /\ faults' \in 0..MaxFaults /\ faults <= faults'
      /\ pc' = [pc EXCEPT ![h] = pc'[h]] /\ pc'[h] \in ProviderCancel
      /\ target' \in [Handlers -> 0..Stages]
      /\ reply' = [reply EXCEPT ![h] = reply'[h]] /\ reply'[h] \in {Failed} \cup 0..Len(ledger)
      /\ reply'[h] # 0 => pc'[h] = "stopped"
  <2>1. CASE /\ pc' = [pc EXCEPT ![h] = "stop"]
             /\ target' = [target EXCEPT ![h] = provider[captured[h].op].stage]
             /\ UNCHANGED <<reply, faults>>
    <3>1. provider[captured[h].op].stage \in 0..Stages
      BY <1>1, <1>2, Bounds DEF Entry, Types
    <3> QED
      BY <1>1, <2>1, <3>1 DEF ProviderCancel
  <2>2. CASE /\ pc' = [pc EXCEPT ![h] = "stopped"] /\ Answer(h, captured[h].op)
             /\ UNCHANGED <<target, faults>>
    BY <1>1, <1>2, <2>2 DEF ProviderCancel, Answer
  <2>3. CASE /\ faults < MaxFaults /\ faults' = faults + 1
             /\ pc' = [pc EXCEPT ![h] = "stopped"] /\ Answer(h, Failed) /\ UNCHANGED target
    BY <1>1, <2>3 DEF ProviderCancel, Answer
  <2> QED
    BY <2>1, <2>2, <2>3 DEF QueryProviderOperation
<1>5. /\ pc' \in [Actors -> Places] /\ reply' \in [Actors -> {Failed} \cup 0..Len(ledger')]
      /\ \A b \in Actors : b # h => pc'[b] = pc[b] /\ reply'[b] = reply[b]
  <2>1. ProviderCancel \subseteq Places
    BY DEF ProviderCancel, Places, CancelPlaces
  <2> QED
    BY <1>1, <1>3, <1>4, <2>1
<1>6. Wrote(h) /\ Moved(h)
  BY <1>3 DEF Wrote, Moved
<1>7. Activity(h)
  BY <1>1, <1>3, <1>4, <1>5, <1>6 DEF Activity, Callable, Waits, ProviderCancel
<1>8. Answered(h)'
  <2>1. pc'[h] \in CancelPlaces /\ pc'[h] \notin {"fail", "cancel", "submit"} /\ (h \notin Decisions)
    BY <1>4, FoundryWorkflowAssumption DEF ProviderCancel, CancelPlaces
  <2> QED
    BY <1>1, <1>3, <1>4, <2>1 DEF Answered, ProviderCancel
<1> QED
  BY <1>1, <1>7, <1>8, ActivityKeeps

\* A StageRun is stopped only while it is the one the operation is at.
LEMMA CancelStageRunStep ==
  ASSUME WorkflowInv, NEW h \in Cancels, CancelStageRun(h), instance' = instance
  PROVE  WorkflowInv'
<1> DEFINE r == captured[h].op
           found == provider[r] = [stage |-> target[h], status |-> "running"]
           stopped == [provider EXCEPT ![r].status = "stopped"]
<1>1. /\ Types /\ h \in Handlers /\ h \in Actors /\ h # Main /\ Len(ledger) \in Nat /\ Answered(h)
      /\ pc[h] = "stop" /\ reply[h] = 0
      /\ faults \in 0..MaxFaults /\ MaxFaults \in Nat
      /\ reply \in [Actors -> {Failed} \cup 0..Len(ledger)]
      /\ pc \in [Actors -> Places] /\ target \in [Handlers -> 0..Stages]
  BY Bounds DEF WorkflowInv, Types, LedgerTypes, ActorTypes, UpdateTypes, Agree,
                CancelStageRun, Actors, Handlers, Calling
<1>2. r \in DOMAIN provider /\ r \in 1..Len(ledger) /\ provider[r] \in Entry
  <2>1. captured[h] \in CursorSet /\ captured[h] # None
    BY <1>1 DEF Types, UpdateTypes, Answered, ProviderCancel
  <2>2. captured[h] \in [op : DOMAIN provider, status : {"pending", "terminal"}]
    BY <2>1 DEF CursorSet
  <2>3. r \in DOMAIN provider
    BY <2>2
  <2> QED
    BY <1>1, <2>3 DEF Types, LedgerTypes
<1>3. /\ ledger' = ledger /\ seen' = seen /\ UNCHANGED flow /\ tail' = tail
      /\ expected' = expected /\ captured' = captured /\ committed' = committed /\ target' = target
      /\ pc' = [pc EXCEPT ![h] = "stopped"]
  BY DEF CancelStageRun, update
<1>4. /\ faults' \in 0..MaxFaults /\ faults <= faults'
      /\ Answer(h, r) \/ Answer(h, Failed)
      /\ provider' = provider \/ (found /\ provider' = stopped)
  <2>1. CASE found /\ provider' = stopped /\ Answer(h, r) /\ UNCHANGED faults
    BY <1>1, <2>1
  <2>2. CASE (Answer(h, r) \/ Answer(h, Failed)) /\ UNCHANGED <<provider, faults>>
    BY <1>1, <2>2
  <2>3. CASE /\ faults < MaxFaults /\ faults' = faults + 1 /\ Answer(h, Failed)
             /\ provider' \in {provider} \cup (IF found THEN {stopped} ELSE {})
    BY <1>1, <2>3
  <2> QED
    BY <2>1, <2>2, <2>3 DEF CancelStageRun
<1>5. /\ pc' \in [Actors -> Places] /\ reply' \in [Actors -> {Failed} \cup 0..Len(ledger')]
      /\ \A b \in Actors : b # h => pc'[b] = pc[b] /\ reply'[b] = reply[b]
      /\ pc'[h] = "stopped"
  BY <1>1, <1>2, <1>3, <1>4 DEF Answer, Places, CancelPlaces
<1>6. Wrote(h) /\ Moved(h)
  <2>1. ASSUME found, provider' = stopped
        PROVE  \E k \in DOMAIN provider : \E e \in Entry :
                 /\ provider[k].status = "running" /\ provider' = [provider EXCEPT ![k] = e]
                 /\ e.status = "broken" => faults' > 0
    <3>1. PICK e : e = [provider[r] EXCEPT !.status = "stopped"]
      OBVIOUS
    <3>2. e \in Entry /\ e.status = "stopped"
      BY <1>2, <3>1 DEF Entry
    <3>3. provider' = [provider EXCEPT ![r] = e]
      BY <2>1, <3>1
    <3>4. provider[r].status = "running"
      BY <2>1
    <3> QED
      BY <1>2, <3>2, <3>3, <3>4
  <2> HIDE DEF found, stopped
  <2> QED
    BY <1>3, <1>4, <2>1 DEF Wrote, Moved
<1> HIDE DEF found, stopped
<1>7. Activity(h)
  BY <1>1, <1>3, <1>4, <1>5, <1>6 DEF Activity, Callable, Waits, ProviderCancel
<1>8. Answered(h)'
  BY <1>1, <1>3, <1>5, FoundryWorkflowAssumption DEF Answered, ProviderCancel, CancelPlaces
<1> QED
  BY <1>1, <1>7, <1>8, ActivityKeeps

\* A StageRun of the provider that moves of its own accord answers nobody.
LEMMA MoveStep ==
  ASSUME WorkflowInv, NEW r \in DOMAIN provider, NEW at, NEW next \in Entry, at.status = "running",
         Move(r, at, next), faults' \in 0..MaxFaults, faults <= faults',
         next.status = "broken" => faults' > 0, instance' = instance
  PROVE  WorkflowInv'
<1>1. /\ Types /\ Main \in Actors /\ MainAnswered /\ Queue
      /\ faults \in 0..MaxFaults /\ MaxFaults \in Nat /\ Len(ledger) \in Nat
      /\ reply \in [Actors -> {Failed} \cup 0..Len(ledger)]
      /\ pc \in [Actors -> Places] /\ target \in [Handlers -> 0..Stages]
  BY Bounds DEF WorkflowInv, Types, LedgerTypes, ActorTypes, UpdateTypes, Agree, Actors
<1>2. /\ ledger' = ledger /\ seen' = seen /\ UNCHANGED flow /\ tail' = tail /\ op' = op
      /\ expected' = expected /\ captured' = captured /\ committed' = committed /\ target' = target
      /\ pc' = pc /\ reply' = reply /\ provider' = [provider EXCEPT ![r] = next]
      /\ provider[r] = at
  BY DEF Move, update, flow
<1>3. Wrote(Main) /\ Moved(Main)
  BY <1>2 DEF Wrote, Moved
<1>4. pc[Main] \in Waits /\ reply[Main] # 0 => tail[1] = Main
  BY <1>1 DEF Queue
<1>5. Activity(Main)
  BY <1>1, <1>2, <1>3, <1>4 DEF Activity
<1>6. MainAnswered'
  <2>1. DOMAIN provider' = DOMAIN provider
    BY <1>2
  <2>2. faults > 0 => faults' > 0
    BY <1>1
  <2> QED
    BY <1>1, <1>2, <2>1, <2>2 DEF MainAnswered, Fresh, Over
<1> QED
  BY <1>1, <1>5, <1>6, ActivityKeeps, FoundryWorkflowAssumption

\* The provider goes on by itself, or breaks at the cost of a fault.
LEMMA ProviderStep ==
  ASSUME WorkflowInv, NEW r \in DOMAIN provider, ProgressStageRun(r) \/ BreakStageRun(r),
         instance' = instance
  PROVE  WorkflowInv'
<1>1. Stages \in Nat \ {0} /\ MaxFaults \in Nat /\ faults \in 0..MaxFaults
  BY Bounds DEF WorkflowInv, Types, LedgerTypes
<1>2. CASE ProgressStageRun(r)
  <2>1. PICK stage \in 1..Stages :
          /\ Move(r, [stage |-> stage, status |-> "running"],
                  IF stage < Stages THEN [stage |-> stage + 1, status |-> "running"]
                                    ELSE [stage |-> stage, status |-> "finished"])
          /\ UNCHANGED faults
    BY <1>2 DEF ProgressStageRun
  <2>2. PICK next : next = IF stage < Stages THEN [stage |-> stage + 1, status |-> "running"]
                                             ELSE [stage |-> stage, status |-> "finished"]
    OBVIOUS
  <2>3. next \in Entry /\ next.status # "broken"
    BY <1>1, <2>2 DEF Entry
  <2>4. Move(r, [stage |-> stage, status |-> "running"], next)
    BY <2>1, <2>2
  <2>5. PICK at : at = [stage |-> stage, status |-> "running"]
    OBVIOUS
  <2>6. Move(r, at, next) /\ at.status = "running"
    BY <2>4, <2>5
  <2> QED
    BY <1>1, <2>1, <2>3, <2>6, MoveStep
<1>3. CASE BreakStageRun(r)
  <2>1. PICK stage \in 1..Stages :
          /\ faults < MaxFaults /\ faults' = faults + 1
          /\ Move(r, [stage |-> stage, status |-> "running"], [stage |-> stage, status |-> "broken"])
    BY <1>3 DEF BreakStageRun
  <2>2. PICK next : next = [stage |-> stage, status |-> "broken"]
    OBVIOUS
  <2>3. PICK at : at = [stage |-> stage, status |-> "running"]
    OBVIOUS
  <2>4. next \in Entry /\ Move(r, at, next) /\ at.status = "running"
    BY <2>1, <2>2, <2>3 DEF Entry
  <2>5. faults' \in 0..MaxFaults /\ faults <= faults' /\ faults' > 0
    BY <1>1, <2>1
  <2> QED
    BY <2>4, <2>5, MoveStep
<1> QED
  BY <1>2, <1>3

-----------------------------------------------------------------------------
(* The workflow function. *)

\* What a step of the workflow function leaves alone, and what it may learn.
Resumes ==
  /\ ledger' = ledger /\ provider' = provider /\ UNCHANGED update /\ instance' = instance
  /\ faults' \in 0..MaxFaults /\ faults <= faults'
  /\ pc' = [pc EXCEPT ![Main] = pc'[Main]] /\ pc'[Main] \in MainPlaces
  /\ reply' = [reply EXCEPT ![Main] = 0]
  /\ seen' \in {0, seen} \/ (seen' = reply[Main] /\ reply[Main] > 0)
  /\ op' \in {0, op, seen} \/ (op' = reply[Main] /\ reply[Main] > 0)
  /\ Queued(Main)

\* A step of the workflow function that fits Resumes keeps the invariant.
LEMMA ResumeKeeps ==
  ASSUME WorkflowInv, Resumes, FlowTypes', Positions', Known',
         pc'[Main] = "start" =>
           tail'[1] = Main /\ \A h \in Handlers : pc[h] \in {"idle", "authorize", "submit", "done"}
  PROVE  WorkflowInv'
<1>1. /\ Types /\ Agree /\ Len(ledger) \in Nat /\ Main \in Actors /\ Main \notin Handlers
      /\ ledger' = ledger /\ provider' = provider /\ instance' = instance
      /\ expected' = expected /\ captured' = captured /\ target' = target /\ committed' = committed
      /\ faults \in Nat /\ faults' \in Nat /\ faults <= faults' /\ faults' \in 0..MaxFaults
      /\ pc \in [Actors -> Places] /\ reply \in [Actors -> {Failed} \cup 0..Len(ledger)]
  <2>1. faults \in Nat /\ MaxFaults \in Nat /\ Len(ledger) \in Nat /\ Main \notin Handlers
    BY Bounds DEF WorkflowInv, Types
  <2> QED
    BY <2>1 DEF WorkflowInv, Types, ActorTypes, Resumes, update, Actors
<1>2. /\ pc' \in [Actors -> Places] /\ reply' \in [Actors -> {Failed} \cup 0..Len(ledger)]
      /\ reply'[Main] = 0 /\ pc'[Main] \in MainPlaces
      /\ \A h \in Handlers : pc'[h] = pc[h] /\ reply'[h] = reply[h]
  BY <1>1 DEF Resumes, Places, Actors
<1>3. LedgerTypes' /\ UpdateTypes'
  BY <1>1 DEF Types, LedgerTypes, UpdateTypes, Stages, MaxFaults, Entry, CursorSet
<1>4. LedgerShape'
  <2>1. FailureHasCause'
    BY <1>1 DEF Agree, LedgerShape, FailureHasCause, Last
  <2> QED
    BY <1>1, <2>1 DEF Agree, LedgerShape
<1>5. Queue' /\ ActorTypes'
  <2>1. /\ tail' \in Seq(Actors) /\ Distinct(tail')
        /\ \A b \in Actors : pc'[b] \in Waits <=> Held(tail', b)
        /\ \A b \in Actors : pc'[b] \in Waits /\ reply'[b] # 0 => tail'[1] = b
    BY <1>1, QueueKept DEF Types, Agree, Resumes
  <2>2. Queue'
    BY <1>2, <2>1 DEF Queue
  <2>3. ActorTypes'
    BY <1>1, <1>2, <2>1 DEF ActorTypes
  <2> QED
    BY <2>2, <2>3
<1>6. MainAnswered'
  BY <1>2 DEF MainAnswered, Failed
<1>7. ASSUME NEW h \in Handlers
      PROVE  Answered(h)'
  <2>1. Answered(h) /\ pc'[h] = pc[h] /\ reply'[h] = reply[h]
    BY <1>1, <1>2 DEF Agree
  <2>2. ASSUME pc[h] = "submit", reply[h] > 0, ~Over(Len(ledger))
        PROVE  /\ reply[h] = Len(ledger) /\ seen' < Len(ledger) /\ op' < Len(ledger)
    <3>1. /\ reply[h] = Len(ledger) /\ seen < Len(ledger) /\ op < Len(ledger) /\ reply[Main] < Len(ledger)
      BY <2>1, <2>2 DEF Answered
    <3> QED
      BY <1>1, <2>2, <3>1 DEF Resumes
  <2>3. Over(Len(ledger))' <=> Over(Len(ledger))
    BY <1>1 DEF Over
  <2> QED
    BY <1>1, <1>2, <2>1, <2>2, <2>3 DEF Answered
<1> QED
  BY <1>3, <1>4, <1>5, <1>6, <1>7 DEF WorkflowInv, Types, Agree

\* What every step of the workflow function keeps.
Untouched ==
  /\ ledger' = ledger /\ provider' = provider /\ UNCHANGED update /\ instance' = instance
  /\ faults' \in 0..MaxFaults /\ faults <= faults'
  /\ reply' = [reply EXCEPT ![Main] = 0]

\* The function leaves the queue if its answer has come through it.
Unqueued ==
  \/ tail' = tail /\ pc[Main] \notin Waits
  \/ tail' = Tail(tail) /\ pc[Main] \in Waits /\ reply[Main] # 0

\* The next iteration starts from a revision that is the last one if there is
\* automatic work to do.
LEMMA IterateKeeps ==
  ASSUME WorkflowInv, Untouched, Unqueued,
         requested' = requested, observations' = observations,
         NEW r \in 1..Len(ledger), NEW c \in CursorSet, Iterate(r, c),
         r = seen \/ r = reply[Main],
         ledger[r] \in Automatic => Fresh(r),
         observations = MaxObservations => Over(r)
  PROVE  WorkflowInv'
<1>1. /\ Types /\ LedgerTypes /\ LedgerShape /\ Len(ledger) \in Nat /\ Main \in Actors /\ Main \notin Handlers
      /\ pc \in [Actors -> Places]
      /\ ledger' = ledger /\ provider' = provider /\ instance' = instance
  BY Bounds DEF WorkflowInv, Types, Agree, ActorTypes, Untouched, Actors
<1>2. PICK next : next = NextAwait(r, c)
  OBVIOUS
<1>3. /\ pc' = [pc EXCEPT ![Main] = next] /\ seen' = r /\ cursor' = c /\ op' = r
      /\ active' = (next = "observe") /\ transition' = (next = "launch")
  BY <1>2 DEF Iterate
<1>4. \/ next = "closed" /\ Over(r)
      \/ next = "awaiting" /\ ~Over(r) /\ ledger[r] = "awaiting"
      \/ next = "observe" /\ ~Over(r) /\ ledger[r] \in ProviderStates /\ c = Cursor(r, "pending")
      \/ next = "launch" /\ ~Over(r) /\ ledger[r] \in ProviderStates
      \/ next = "advance" /\ ~Over(r) /\ ledger[r] \in Automatic \ ProviderStates
  BY <1>1, <1>2, Waiting
<1>5. pc'[Main] = next /\ next \in MainPlaces \ Waits /\ reply'[Main] = 0
  <2>1. reply'[Main] = 0
    BY <1>1 DEF Untouched, Types, ActorTypes
  <2> QED
    BY <1>1, <1>3, <1>4, <2>1 DEF MainPlaces, Waits, Working
<1>6. FlowTypes'
  <2>1. active' => c # None
    <3>1. active' => next = "observe"
      BY <1>3, Zenon
    <3>2. Cursor(r, "pending") # None
      BY DEF Cursor, None
    <3> QED
      BY <1>4, <3>1, <3>2
  <2>2. CursorSet' = CursorSet
    BY <1>1 DEF CursorSet
  <2>3. active' \in BOOLEAN /\ transition' \in BOOLEAN
    BY <1>3
  <2> QED
    BY <1>1, <1>3, <2>1, <2>2, <2>3 DEF Types, FlowTypes, MaxObservations
<1>7. next = "observe" => r \in DOMAIN provider
  <2>1. ASSUME c = Cursor(r, "pending") PROVE r \in DOMAIN provider
    BY <2>1 DEF Cursor, CursorSet, None
  <2> QED
    BY <1>4, <2>1
<1>8. Positions'
  BY <1>1, <1>3, <1>4, <1>5, <1>7 DEF Positions, Working, Observing, MaxObservations
<1>9. Known'
  <2>1. Over(r) => Over(Len(ledger))
    BY <1>1, OverIsLast
  <2>2. Fresh(r) => r = Len(ledger') \/ Over(Len(ledger))'
    BY <1>1 DEF Fresh, Over
  <2>3. Over(Len(ledger)) => Over(Len(ledger))'
    BY <1>1 DEF Over
  <2>4. next \in Working \cup {"advance"} => ledger[r] \in Automatic
    BY <1>4 DEF Automatic, Working
  <2> QED
    BY <1>1, <1>3, <1>4, <1>5, <2>1, <2>2, <2>3, <2>4 DEF Known, Fresh, Working, Waits
<1>10. Queued(Main)
  BY <1>1, <1>3, <1>5 DEF Queued, Untouched, Unqueued
<1>11. Resumes
  <2>1. r = seen \/ (r = reply[Main] /\ reply[Main] > 0)
    BY <1>1
  <2> QED
    BY <1>3, <1>5, <1>10, <2>1 DEF Resumes, Untouched
<1> QED
  BY <1>5, <1>6, <1>8, <1>9, <1>11, ResumeKeeps DEF Waits

\* An error either belongs to an operation that is no longer current, or the
\* run is to fail for it.
LEMMA CatchKeeps ==
  ASSUME WorkflowInv, Untouched, Catch,
         requested' = requested, observations' = observations,
         pc[Main] \in {"launch", "observe", "read", "advance"},
         \/ faults' > 0 \/ Over(Len(ledger))
         \/ op = Len(ledger) /\ op \in DOMAIN provider /\ provider[op].status = "stopped"
  PROVE  WorkflowInv'
<1>1. /\ Types /\ LedgerTypes /\ LedgerShape /\ Len(ledger) \in Nat /\ Main \in Actors /\ Main \notin Handlers
      /\ pc \in [Actors -> Places] /\ Known /\ Positions
      /\ ledger' = ledger /\ provider' = provider /\ instance' = instance
      /\ pc[Main] \notin Waits /\ pc[Main] \notin {"start", "closed", "fail", "handlers"}
      /\ op \in 0..Len(ledger) /\ seen \in 0..Len(ledger) /\ cursor \in CursorSet
  BY Bounds DEF WorkflowInv, Types, Agree, ActorTypes, FlowTypes, Untouched, Actors, Waits
<1>2. op # 0 /\ op <= seen /\ observations # MaxObservations
  BY <1>1 DEF Positions
<1>3. seen \in 1..Len(ledger) /\ op \in 1..Len(ledger)
  BY <1>1, <1>2
<1>4. CASE (Over(seen) \/ seen # op) /\ Iterate(seen, cursor) /\ UNCHANGED tail
  <2>1. Unqueued
    BY <1>1, <1>4 DEF Unqueued
  <2>2. ledger[seen] \in Automatic => Fresh(seen)
    <3>1. Over(seen) => ledger[seen] \notin Automatic
      BY Transitions DEF Over
    <3> QED
      BY <1>1, <1>4, <3>1 DEF Known
  <2> QED
    BY <1>1, <1>2, <1>3, <1>4, <2>1, <2>2, IterateKeeps
<1>5. CASE /\ ~Over(seen) /\ seen = op
           /\ pc' = [pc EXCEPT ![Main] = "fail"] /\ tail' = Append(tail, Main)
           /\ transition' = FALSE
           /\ UNCHANGED <<seen, cursor, op, active>>
  <2>1. pc'[Main] = "fail" /\ reply'[Main] = 0
    BY <1>1, <1>5 DEF Untouched, Types, ActorTypes
  <2>2. FlowTypes'
    <3>1. CursorSet' = CursorSet
      BY <1>1 DEF CursorSet
    <3> QED
      BY <1>1, <1>5, <3>1 DEF Types, FlowTypes, MaxObservations
  <2>3. Positions'
    BY <1>1, <1>2, <1>5, <2>1 DEF Positions, Working, Observing, MaxObservations
  <2>4. Known'
    <3>1. Over(Len(ledger)) => Over(Len(ledger))'
      BY <1>1 DEF Over
    <3> QED
      BY <1>1, <1>5, <2>1, <3>1 DEF Known, Fresh, Working
  <2>5. Queued(Main)
    BY <1>1, <1>5, <2>1 DEF Queued, Untouched, Waits
  <2>6. Resumes
    BY <1>5, <2>1, <2>5 DEF Resumes, Untouched, MainPlaces
  <2> QED
    BY <2>1, <2>2, <2>3, <2>4, <2>6, ResumeKeeps
<1> QED
  BY <1>4, <1>5 DEF Catch

\* What holds wherever the workflow function is.
LEMMA AtMain ==
  ASSUME WorkflowInv
  PROVE  /\ Len(ledger) \in Nat /\ Main \in Actors /\ Main \notin Handlers
         /\ op \in 0..Len(ledger) /\ seen \in 0..Len(ledger) /\ cursor \in CursorSet
         /\ faults \in 0..MaxFaults /\ MaxFaults \in Nat /\ MaxObservations \in Nat \ {0}
         /\ observations \in 0..MaxObservations
         /\ pc \in [Actors -> Places] /\ reply \in [Actors -> {Failed} \cup 0..Len(ledger)]
         /\ Positions /\ Known /\ MainAnswered /\ Queue /\ LedgerShape /\ LedgerTypes
BY Bounds DEF WorkflowInv, Types, Agree, LedgerTypes, FlowTypes, ActorTypes, Actors

\* Where it awaits no activity, it has no answer to take.
LEMMA NoAnswer ==
  ASSUME WorkflowInv, pc[Main] \in {"awaiting", "observe", "handlers", "read", "settle"}
  PROVE  reply = [reply EXCEPT ![Main] = 0] /\ pc[Main] \notin Waits
<1>1. reply[Main] = 0
  BY AtMain DEF MainAnswered
<1> QED
  BY <1>1, AtMain DEF Waits

\* The workflow function ends with its run, or when nothing can be repaired.
LEMMA CloseKeeps ==
  ASSUME WorkflowInv, Untouched, Unqueued, Close, faults' > 0 \/ Over(Len(ledger))
  PROVE  WorkflowInv'
<1>1. /\ pc' = [pc EXCEPT ![Main] = "closed"]
      /\ seen' = seen /\ cursor' = cursor /\ active' = active /\ requested' = requested
      /\ transition' = transition /\ observations' = observations /\ op' = op
      /\ ledger' = ledger /\ provider' = provider /\ instance' = instance
  BY DEF Close, flow, Untouched
<1>2. pc'[Main] = "closed" /\ reply'[Main] = 0
  BY <1>1, AtMain DEF Untouched
<1>3. FlowTypes'
  BY <1>1 DEF WorkflowInv, Types, FlowTypes, CursorSet, MaxObservations
<1>4. Positions'
  BY <1>1, <1>2 DEF Positions, Working, Observing
<1>5. Known'
  <2>1. Over(Len(ledger)) => Over(Len(ledger))'
    BY <1>1 DEF Over
  <2> QED
    BY <1>2, <2>1 DEF Known, Working
<1>6. Queued(Main)
  BY <1>1, <1>2, AtMain DEF Queued, Untouched, Unqueued, Waits
<1>7. Resumes
  BY <1>1, <1>2, <1>6 DEF Resumes, Untouched, MainPlaces
<1> QED
  BY <1>2, <1>3, <1>4, <1>5, <1>7, ResumeKeeps

\* Other moves of the function leave the queue alone, as they are outside it.
LEMMA MoveKeeps ==
  ASSUME WorkflowInv, Untouched, tail' = tail, pc[Main] \notin Waits,
         pc' = [pc EXCEPT ![Main] = pc'[Main]], pc'[Main] \in MainPlaces \ Waits,
         seen' = seen, op' = op, FlowTypes', Positions', Known'
  PROVE  WorkflowInv'
<1>1. Queued(Main)
  BY AtMain DEF Queued, Untouched
<1>2. Resumes
  BY <1>1 DEF Resumes, Untouched
<1> QED
  BY <1>2, ResumeKeeps DEF Waits

\* The loop begins on what the first inspection reports.
LEMMA StartedStep ==
  ASSUME WorkflowInv, Started, instance' = instance
  PROVE  WorkflowInv'
<1> DEFINE r == Newer(reply[Main])
<1>1. /\ pc[Main] = "start" /\ reply[Main] # 0 /\ tail' = Tail(tail)
      /\ Untouched /\ Unqueued
  BY AtMain DEF Started, Returned, Taken, Untouched, Unqueued, Waits
<1>2. reply[Main] = Failed => faults' > 0
  <2>1. reply[Main] = Failed => faults > 0
    BY <1>1, AtMain DEF MainAnswered
  <2> QED
    BY <1>1, <2>1, AtMain DEF Untouched
<1>3. reply[Main] # Failed => r = Len(ledger) /\ r \in 1..Len(ledger) /\ (r = seen \/ r = reply[Main])
  <2>1. reply[Main] # Failed => reply[Main] > 0 /\ reply[Main] = Len(ledger)
    BY <1>1, AtMain DEF MainAnswered
  <2> QED
    BY <2>1, AtMain DEF Newer
<1>4. cursor.status = "pending" /\ cursor.op # Len(ledger) => Over(Len(ledger))
  BY <1>1, AtMain DEF Known, Fresh
<1>5. CASE reply[Main] = Failed \/ (cursor.status = "pending" /\ cursor.op # r)
  <2>1. faults' > 0 \/ Over(Len(ledger))
    BY <1>2, <1>3, <1>4, <1>5
  <2> QED
    BY <1>1, <1>5, <2>1, CloseKeeps DEF Started
<1>6. CASE ~(reply[Main] = Failed \/ (cursor.status = "pending" /\ cursor.op # r))
  <2>1. Iterate(r, cursor) /\ requested' = requested /\ observations' = observations
    BY <1>6 DEF Started
  <2>2. observations # MaxObservations
    BY <1>1, AtMain DEF Positions
  <2>3. Fresh(r)
    BY <1>3, <1>6 DEF Fresh
  <2> HIDE DEF r
  <2> QED
    BY <1>1, <1>3, <1>6, <2>1, <2>2, <2>3, AtMain, IterateKeeps
<1> QED
  BY <1>5, <1>6

\* The loop goes on after an owner decision on what the handler has adopted.
LEMMA DecidedStep ==
  ASSUME WorkflowInv, Decided, instance' = instance
  PROVE  WorkflowInv'
<1>1. /\ pc[Main] = "awaiting" /\ Untouched /\ Unqueued
      /\ Iterate(seen, cursor) /\ requested' = requested /\ observations' = observations
  BY NoAnswer, AtMain DEF Decided, Untouched, Unqueued
<1>2. seen \in 1..Len(ledger) /\ observations # MaxObservations
  BY <1>1, AtMain DEF Positions
<1>3. ledger[seen] \in Automatic => Fresh(seen)
  BY <1>1, AtMain DEF Known
<1> QED
  BY <1>1, <1>2, <1>3, AtMain, IterateKeeps

\* A launched operation becomes the cursor the loop observes.
LEMMA LaunchedStep ==
  ASSUME WorkflowInv, Launched, instance' = instance
  PROVE  WorkflowInv'
<1>1. /\ pc[Main] = "launch" /\ reply[Main] # 0 /\ Untouched
      /\ requested' = requested /\ observations' = observations
  BY AtMain DEF Launched, Returned, Taken, Untouched
<1>2. CASE reply[Main] = Failed
  <2>1. faults' > 0 \/ Over(Len(ledger))
    BY <1>1, <1>2, AtMain DEF MainAnswered, Untouched
  <2> QED
    BY <1>1, <1>2, <2>1, CatchKeeps DEF Launched
<1>3. CASE reply[Main] # Failed
  <2>1. /\ pc' = [pc EXCEPT ![Main] = "observe"]
        /\ cursor' = Cursor(op, "pending") /\ active' = TRUE /\ transition' = FALSE
        /\ seen' = seen /\ op' = op /\ tail' = tail
        /\ ledger' = ledger /\ provider' = provider /\ instance' = instance
    BY <1>1, <1>3 DEF Launched, Untouched
  <2>2. /\ op \in DOMAIN provider /\ op \in 1..Len(ledger)
        /\ pc'[Main] = "observe" /\ pc[Main] \notin Waits /\ reply'[Main] = 0
    <3>1. reply[Main] > 0
      BY <1>1, <1>3, AtMain
    <3> QED
      BY <1>1, <2>1, <3>1, AtMain DEF MainAnswered, Waits, LedgerTypes, Untouched
  <2>3. FlowTypes'
    <3>1. Cursor(op, "pending") \in CursorSet' /\ Cursor(op, "pending") # None
      BY <2>1, <2>2 DEF Cursor, CursorSet, None
    <3>2. active' \in BOOLEAN /\ transition' \in BOOLEAN
      BY <2>1
    <3>3. active' => cursor' # None
      BY <2>1, <3>1
    <3> QED
      BY <1>1, <2>1, <3>1, <3>2, <3>3 DEF WorkflowInv, Types, FlowTypes, MaxObservations
  <2>4. Positions'
    BY <1>1, <2>1, <2>2, AtMain DEF Positions, Working, Observing, MaxObservations
  <2>5. Known'
    <3>1. Fresh(op) /\ (ledger[seen] \in Automatic => Fresh(seen))
      BY <1>1, AtMain DEF Known, Working
    <3> QED
      BY <2>1, <2>2, <3>1 DEF Known, Fresh, Over, Working
  <2> QED
    BY <1>1, <2>1, <2>2, <2>3, <2>4, <2>5, MoveKeeps DEF MainPlaces, Waits, Working
<1> QED
  BY <1>2, <1>3

\* A run found over under a requested cancel is looked at again.
LEMMA CancelObservedStep ==
  ASSUME WorkflowInv, CancelObserved, instance' = instance
  PROVE  WorkflowInv'
<1>1. /\ pc[Main] = "observe" /\ Untouched /\ Unqueued /\ Over(seen)
      /\ Iterate(seen, cursor) /\ requested' = requested /\ observations' = observations
  BY NoAnswer, AtMain DEF CancelObserved, Untouched, Unqueued
<1>2. seen \in 1..Len(ledger) /\ observations # MaxObservations
  BY <1>1, AtMain DEF Positions
<1>3. ledger[seen] \in Automatic => Fresh(seen)
  BY <1>1, AtMain DEF Known
<1> QED
  BY <1>1, <1>2, <1>3, AtMain, IterateKeeps

\* Once the handlers have finished, the result is used or the run found over.
LEMMA SettleStep ==
  ASSUME WorkflowInv, Settle, instance' = instance
  PROVE  WorkflowInv'
<1>1. /\ pc[Main] = "settle" /\ Untouched /\ Unqueued
      /\ requested' = requested /\ observations' = observations /\ tail' = tail /\ reply' = reply
  BY NoAnswer, AtMain DEF Settle, Untouched, Unqueued
<1>2. seen \in 1..Len(ledger) /\ observations # MaxObservations
  BY <1>1, AtMain DEF Positions
<1>3. (ledger[seen] \in Automatic => Fresh(seen)) /\ Fresh(op)
  BY <1>1, AtMain DEF Known, Working
<1>4. CASE Over(seen)
  <2>1. Iterate(seen, cursor)
    BY <1>4 DEF Settle
  <2> QED
    BY <1>1, <1>2, <1>3, <2>1, AtMain, IterateKeeps
<1>5. CASE ~Over(seen)
  <2>1. /\ pc' = [pc EXCEPT ![Main] = "advance"]
        /\ seen' = seen /\ op' = op /\ cursor' = cursor /\ active' = active /\ transition' = transition
        /\ ledger' = ledger /\ provider' = provider /\ instance' = instance
    BY <1>1, <1>5 DEF Settle, Untouched
  <2>2. pc'[Main] = "advance" /\ pc[Main] \notin Waits /\ reply'[Main] = 0
    BY <1>1, <2>1, AtMain, NoAnswer DEF Untouched
  <2>3. FlowTypes'
    BY <1>1, <2>1 DEF WorkflowInv, Types, FlowTypes, CursorSet, MaxObservations
  <2>4. Positions'
    BY <1>1, <2>1, <2>2, AtMain DEF Positions, Working, Observing, MaxObservations, Automatic
  <2>5. Known'
    BY <1>3, <2>1, <2>2 DEF Known, Fresh, Over, Working
  <2> QED
    BY <1>1, <2>1, <2>2, <2>3, <2>4, <2>5, MoveKeeps DEF MainPlaces, Waits
<1> QED
  BY <1>4, <1>5

\* The loop adopts the revision its advance reports.
LEMMA AdvancedStep ==
  ASSUME WorkflowInv, Advanced, instance' = instance
  PROVE  WorkflowInv'
<1>1. /\ pc[Main] = "advance" /\ reply[Main] # 0 /\ Untouched
      /\ requested' = requested /\ observations' = observations
  BY AtMain DEF Advanced, Returned, Taken, Untouched
<1>2. CASE reply[Main] = Failed
  <2>1. faults' > 0 \/ Over(Len(ledger))
    BY <1>1, <1>2, AtMain DEF MainAnswered, Untouched
  <2> QED
    BY <1>1, <1>2, <2>1, CatchKeeps DEF Advanced
<1>3. CASE reply[Main] # Failed
  <2>1. reply[Main] > 0 /\ reply[Main] = op + 1 /\ (ledger[reply[Main]] \in Automatic => Fresh(reply[Main]))
    BY <1>1, <1>3, AtMain DEF MainAnswered
  <2>2. PICK r : r = Newer(reply[Main])
    OBVIOUS
  <2>3. Iterate(r, cursor) /\ tail' = tail /\ Unqueued
    BY <1>1, <1>3, <2>2 DEF Advanced, Unqueued, Waits
  <2>4. r \in 1..Len(ledger) /\ (r = seen \/ r = reply[Main]) /\ observations # MaxObservations
    <3>1. reply[Main] \in 1..Len(ledger) /\ seen \in 0..Len(ledger) /\ Len(ledger) \in Nat
      BY <1>3, <2>1, AtMain
    <3>2. observations # MaxObservations
      BY <1>1, AtMain DEF Positions
    <3> QED
      BY <2>2, <3>1, <3>2 DEF Newer
  <2>5. ledger[r] \in Automatic => Fresh(r)
    <3>1. CASE r = reply[Main]
      BY <2>1, <3>1
    <3>2. CASE r # reply[Main]
      <4>1. r = seen /\ seen # op
        BY <2>1, <2>2, <3>2, AtMain DEF Newer
      <4> QED
        BY <1>1, <4>1, AtMain DEF Known
    <3> QED
      BY <3>1, <3>2
  <2> QED
    BY <1>1, <2>3, <2>4, <2>5, AtMain, IterateKeeps
<1> QED
  BY <1>2, <1>3

\* The workflow goes to the end of the run it has failed, or fails itself.
LEMMA RunFailedStep ==
  ASSUME WorkflowInv, RunFailed, instance' = instance
  PROVE  WorkflowInv'
<1>1. /\ pc[Main] = "fail" /\ reply[Main] # 0 /\ Untouched /\ Unqueued
  BY AtMain DEF RunFailed, Returned, Taken, Untouched, Unqueued, Waits
<1>2. CASE reply[Main] = Failed
  <2>1. faults' > 0
    BY <1>1, <1>2, AtMain DEF MainAnswered, Untouched
  <2> QED
    BY <1>1, <1>2, <2>1, CloseKeeps DEF RunFailed
<1>3. CASE reply[Main] # Failed
  <2>1. reply[Main] > 0 /\ reply[Main] = Len(ledger)
    BY <1>1, <1>3, AtMain DEF MainAnswered
  <2>2. PICK r : r = Newer(reply[Main])
    OBVIOUS
  <2>3. Iterate(r, cursor) /\ requested' = requested /\ observations' = observations
    BY <1>1, <1>3, <2>2 DEF RunFailed
  <2>4. r \in 1..Len(ledger) /\ (r = seen \/ r = reply[Main]) /\ observations # MaxObservations /\ Fresh(r)
    BY <1>1, <2>1, <2>2, AtMain DEF Newer, Positions, Fresh
  <2> QED
    BY <1>1, <2>3, <2>4, AtMain, IterateKeeps
<1> QED
  BY <1>2, <1>3

\* An observation moves the cursor, ends the wait or fails the loop.
LEMMA ObserveStep ==
  ASSUME WorkflowInv, ObserveProviderOperation, instance' = instance
  PROVE  WorkflowInv'
<1>1. /\ pc[Main] = "observe" /\ reply' = [reply EXCEPT ![Main] = 0] /\ pc[Main] \notin Waits
      /\ requested' = requested
      /\ ledger' = ledger /\ provider' = provider /\ UNCHANGED update /\ instance' = instance
  BY NoAnswer DEF ObserveProviderOperation
<1>2. /\ op \in DOMAIN provider /\ op \in 1..Len(ledger) /\ seen \in 1..Len(ledger)
      /\ observations # MaxObservations /\ Fresh(op) /\ (ledger[seen] \in Automatic => Fresh(seen))
  BY <1>1, AtMain DEF Positions, Known, Working, Observing
<1>3. /\ Cursor(op, "pending") \in CursorSet /\ Cursor(op, "terminal") \in CursorSet
      /\ Cursor(op, "pending") # None /\ Cursor(op, "terminal") # None
  BY <1>2 DEF Cursor, CursorSet, None
<1>4. CursorSet' = CursorSet /\ MaxObservations' = MaxObservations
  BY <1>1 DEF CursorSet, MaxObservations
<1>5. CASE /\ \/ provider[op].status = "running" /\ UNCHANGED faults
              \/ faults < MaxFaults /\ faults' = faults + 1
           /\ observations' = observations + 1
           /\ pc' = [pc EXCEPT ![Main] = IF observations' = MaxObservations THEN "handlers" ELSE @]
           /\ cursor' = Cursor(op, "pending") /\ active' = TRUE
           /\ UNCHANGED <<seen, op, transition, tail>>
  <2>1. Untouched /\ tail' = tail /\ seen' = seen /\ op' = op
    BY <1>1, <1>5, AtMain DEF Untouched
  <2>2. /\ pc' = [pc EXCEPT ![Main] = pc'[Main]] /\ reply'[Main] = 0
        /\ \/ pc'[Main] = "observe" /\ observations' # MaxObservations
           \/ pc'[Main] = "handlers"
    BY <1>1, <1>5, AtMain
  <2>3. FlowTypes'
    <3>1. observations' \in 0..MaxObservations
      BY <1>2, <1>5, AtMain
    <3>2. active' \in BOOLEAN /\ (active' => cursor' # None) /\ cursor' \in CursorSet
      BY <1>3, <1>5
    <3> QED
      BY <1>1, <1>4, <1>5, <3>1, <3>2 DEF WorkflowInv, Types, FlowTypes
  <2>4. Positions'
    BY <1>1, <1>4, <2>1, <2>2, AtMain DEF Positions, Working, Observing
  <2>5. Known'
    BY <1>1, <1>2, <2>1, <2>2 DEF Known, Fresh, Over, Working
  <2> QED
    BY <1>1, <2>1, <2>2, <2>3, <2>4, <2>5, MoveKeeps DEF MainPlaces, Waits, Working
<1>6. CASE /\ Succeeded(op) /\ ~Over(seen)
           /\ cursor' = Cursor(op, "terminal") /\ active' = TRUE
           /\ pc' = [pc EXCEPT ![Main] = "read"] /\ transition' = TRUE
           /\ UNCHANGED <<seen, op, observations, tail, faults>>
  <2>1. Untouched /\ tail' = tail /\ seen' = seen /\ op' = op /\ observations' = observations
    BY <1>1, <1>6, AtMain DEF Untouched
  <2>2. pc'[Main] = "read" /\ reply'[Main] = 0
    BY <1>1, <1>6, AtMain
  <2>3. FlowTypes'
    <3>1. active' \in BOOLEAN /\ (active' => cursor' # None) /\ cursor' \in CursorSet /\ transition' \in BOOLEAN
      BY <1>3, <1>6
    <3> QED
      BY <1>1, <1>4, <1>6, <3>1 DEF WorkflowInv, Types, FlowTypes
  <2>4. Positions'
    BY <1>1, <1>2, <1>4, <1>6, <2>1, <2>2, AtMain DEF Positions, Working, Observing, Succeeded
  <2>5. Known'
    BY <1>1, <1>2, <2>1, <2>2 DEF Known, Fresh, Over, Working
  <2> QED
    BY <1>1, <1>6, <2>1, <2>2, <2>3, <2>4, <2>5, MoveKeeps DEF MainPlaces, Waits, Working
<1>7. CASE /\ Succeeded(op) /\ Over(seen)
           /\ Iterate(seen, Cursor(op, "terminal")) /\ UNCHANGED <<observations, tail, faults>>
  <2>1. Untouched /\ Unqueued
    BY <1>1, <1>7, AtMain DEF Untouched, Unqueued
  <2>2. PICK c : c = Cursor(op, "terminal")
    OBVIOUS
  <2>3. Iterate(seen, c) /\ c \in CursorSet
    BY <1>3, <1>7, <2>2
  <2> QED
    BY <1>1, <1>2, <1>7, <2>1, <2>3, IterateKeeps
<1>8. CASE Ended(op) /\ Catch /\ UNCHANGED <<observations, faults>>
  <2>1. Untouched
    BY <1>1, <1>8, AtMain DEF Untouched
  <2>2. provider[op].status \in {"stopped", "broken"}
    BY <1>2, <1>8, AtMain DEF Ended, Succeeded, LedgerTypes, Entry
  <2>3. \/ faults' > 0 \/ Over(Len(ledger))
        \/ op = Len(ledger) /\ op \in DOMAIN provider /\ provider[op].status = "stopped"
    BY <1>2, <1>8, <2>2, AtMain DEF LedgerShape, Fresh
  <2> QED
    BY <1>1, <1>8, <2>1, <2>3, CatchKeeps
<1>9. CASE faults < MaxFaults /\ faults' = faults + 1 /\ Catch /\ UNCHANGED observations
  <2>1. Untouched /\ faults' > 0
    BY <1>1, <1>9, AtMain DEF Untouched
  <2> QED
    BY <1>1, <1>9, <2>1, CatchKeeps
<1> QED
  BY <1>5, <1>6, <1>7, <1>8, <1>9 DEF ObserveProviderOperation

\* A new execution keeps only the cursor, and only with no handler in between.
LEMMA ContinueAsNewStep ==
  ASSUME WorkflowInv, ContinueAsNew, instance' = instance
  PROVE  WorkflowInv'
<1>1. /\ pc[Main] = "handlers" /\ Untouched /\ pc[Main] \notin Waits /\ AllHandlersFinished
      /\ ledger' = ledger /\ provider' = provider /\ instance' = instance
  BY NoAnswer, AtMain DEF ContinueAsNew, Untouched
<1>2. /\ op \in DOMAIN provider /\ op \in 1..Len(ledger) /\ seen \in 1..Len(ledger)
      /\ Fresh(op) /\ (ledger[seen] \in Automatic => Fresh(seen))
  BY <1>1, AtMain DEF Positions, Known, Working, Observing
<1>3. CASE Over(seen) /\ Iterate(seen, cursor) /\ UNCHANGED <<requested, observations, tail>>
  <2>1. Unqueued
    BY <1>1, <1>3 DEF Unqueued
  <2> QED
    BY <1>1, <1>2, <1>3, <2>1, AtMain, IterateKeeps
<1>4. CASE NewExecution
  <2>1. /\ pc' = [pc EXCEPT ![Main] = "start"] /\ tail' = <<Main>>
        /\ seen' = 0 /\ cursor' = Cursor(op, "pending") /\ op' = 0 /\ observations' = 0
        /\ active' = FALSE /\ requested' = FALSE /\ transition' = FALSE
    BY <1>4 DEF NewExecution
  <2>2. pc'[Main] = "start" /\ reply'[Main] = 0
    BY <1>1, <2>1, AtMain DEF Untouched
  <2>3. tail = <<>>
    <3>1. \A b \in Actors : ~Held(tail, b)
      BY <1>1, AtMain DEF Queue, AllHandlersFinished, Actors, Waits
    <3>2. tail \in Seq(Actors)
      BY DEF WorkflowInv, Types, ActorTypes
    <3>3. ASSUME tail # <<>> PROVE FALSE
      <4>1. 1 \in DOMAIN tail /\ tail[1] \in Actors
        BY <3>2, <3>3
      <4> QED
        BY <3>1, <4>1 DEF Held
    <3> QED
      BY <3>3
  <2>4. Queued(Main)
    <3>1. tail' = Append(tail, Main)
      BY <2>1, <2>3
    <3> QED
      BY <1>1, <2>1, <2>2, <3>1, AtMain DEF Queued, Untouched, Waits
  <2>5. Resumes
    BY <1>1, <2>1, <2>2, <2>4 DEF Resumes, Untouched, MainPlaces
  <2>6. FlowTypes'
    <3>1. Cursor(op, "pending") \in CursorSet' /\ MaxObservations' = MaxObservations
      BY <1>1, <1>2 DEF Cursor, CursorSet, MaxObservations
    <3>2. active' \in BOOLEAN /\ requested' \in BOOLEAN /\ transition' \in BOOLEAN /\ ~active'
      BY <2>1
    <3>3. seen' \in 0..Len(ledger') /\ op' \in 0..Len(ledger') /\ observations' \in 0..MaxObservations
      BY <1>1, <2>1, AtMain
    <3> QED
      BY <2>1, <3>1, <3>2, <3>3 DEF FlowTypes
  <2>7. Positions'
    <3>1. observations' # MaxObservations'
      BY <1>1, <2>1, AtMain DEF MaxObservations
    <3> QED
      BY <2>2, <3>1 DEF Positions, Working, Observing
  <2>8. Known'
    <3>1. Fresh(cursor.op)'
      BY <1>1, <1>2, <2>1 DEF Fresh, Over, Cursor
    <3> QED
      BY <2>2, <3>1 DEF Known, Working
  <2>9. tail'[1] = Main /\ \A h \in Handlers : pc[h] \in {"idle", "authorize", "submit", "done"}
    BY <1>1, <2>1 DEF AllHandlersFinished
  <2> QED
    BY <2>5, <2>6, <2>7, <2>8, <2>9, ResumeKeeps
<1> QED
  BY <1>3, <1>4 DEF ContinueAsNew

\* The result is read only of an operation that has finished.
LEMMA ReadStep ==
  ASSUME WorkflowInv, ReadProviderOperationTerminal, instance' = instance
  PROVE  WorkflowInv'
<1>1. /\ pc[Main] = "read" /\ reply' = [reply EXCEPT ![Main] = 0] /\ pc[Main] \notin Waits
      /\ requested' = requested /\ observations' = observations
      /\ ledger' = ledger /\ provider' = provider /\ UNCHANGED update /\ instance' = instance
  BY NoAnswer DEF ReadProviderOperationTerminal
<1>2. /\ op \in DOMAIN provider /\ op \in 1..Len(ledger)
      /\ Fresh(op) /\ (ledger[seen] \in Automatic => Fresh(seen))
  BY <1>1, AtMain DEF Positions, Known, Working, Observing
<1>3. CASE /\ pc' = [pc EXCEPT ![Main] = "settle"] /\ transition' = FALSE
           /\ cursor' = Cursor(op, "terminal") /\ active' = TRUE
           /\ UNCHANGED <<seen, op, tail, faults>>
  <2>1. Untouched /\ tail' = tail /\ seen' = seen /\ op' = op
    BY <1>1, <1>3, AtMain DEF Untouched
  <2>2. pc'[Main] = "settle" /\ reply'[Main] = 0
    BY <1>1, <1>3, AtMain
  <2>3. FlowTypes'
    <3>1. Cursor(op, "terminal") \in CursorSet' /\ Cursor(op, "terminal") # None
      BY <1>1, <1>2 DEF Cursor, CursorSet, None
    <3>2. active' \in BOOLEAN /\ (active' => cursor' # None) /\ transition' \in BOOLEAN
      BY <1>3, <3>1
    <3> QED
      BY <1>1, <1>3, <3>1, <3>2 DEF WorkflowInv, Types, FlowTypes, MaxObservations
  <2>4. Positions'
    BY <1>1, <2>1, <2>2, AtMain DEF Positions, Working, Observing, MaxObservations
  <2>5. Known'
    BY <1>1, <1>2, <2>1, <2>2 DEF Known, Fresh, Over, Working
  <2> QED
    BY <1>1, <1>3, <2>1, <2>2, <2>3, <2>4, <2>5, MoveKeeps DEF MainPlaces, Waits, Working
<1>4. CASE faults < MaxFaults /\ faults' = faults + 1 /\ Catch
  <2>1. Untouched /\ faults' > 0
    BY <1>1, <1>4, AtMain DEF Untouched
  <2> QED
    BY <1>1, <1>4, <2>1, CatchKeeps
<1> QED
  BY <1>3, <1>4 DEF ReadProviderOperationTerminal

-----------------------------------------------------------------------------
(* The update handlers. *)

\* What a step of a handler leaves alone: it learns of a later revision from its
\* own answer only, and gives the workflow only a cursor it has captured.
Handles(h) ==
  /\ ledger' = ledger /\ provider' = provider /\ instance' = instance /\ faults' = faults
  /\ op' = op /\ transition' = transition /\ observations' = observations
  /\ requested' \in BOOLEAN
  /\ \/ cursor' = cursor /\ active' = active
     \/ cursor' = captured[h] /\ active' = TRUE /\ pc[h] = "stopped"
  /\ \/ seen' = seen
     \/ seen' = reply[h] /\ reply[h] > seen /\ pc[h] \in {"submit", "cancel", "fail"}
  /\ expected' \in [Handlers -> 0..Len(ledger)] /\ captured' \in [Handlers -> CursorSet]
  /\ target' \in [Handlers -> 0..Stages] /\ committed' \in [Handlers -> BOOLEAN]
  /\ \A k \in Handlers :
       /\ k # h => /\ expected'[k] = expected[k] /\ captured'[k] = captured[k]
                   /\ pc'[k] = pc[k]
       /\ committed[k] => committed'[k]
  /\ pc' \in [Actors -> Places] /\ reply' \in [Actors -> {Failed} \cup 0..Len(ledger)]
  /\ \A b \in Actors : b # h => reply'[b] = reply[b]
  /\ \/ pc'[Main] = pc[Main]
     \/ pc[Main] = "advance" /\ pc'[Main] = "closed" /\ Over(Len(ledger))
  /\ \/ pc[h] = "idle" /\ pc'[h] \in {"authorize", "submit"}
     \/ pc[h] \in {"waiting", "stopped"}
     \/ pc[h] \in Waits /\ reply[h] # 0
  /\ Queued(h)

\* A step of a handler that fits Handles keeps the invariant.
LEMMA HandlerKeeps ==
  ASSUME WorkflowInv, NEW h \in Handlers, Handles(h), Answered(h)'
  PROVE  WorkflowInv'
<1>1. /\ Types /\ Agree /\ h \in Actors /\ h # Main
      /\ ledger' = ledger /\ provider' = provider /\ instance' = instance /\ faults' = faults /\ op' = op
      /\ Answered(h)
  BY AtMain DEF WorkflowInv, Agree, Handles, Actors
<1>2. Over(Len(ledger))' <=> Over(Len(ledger))
  BY <1>1 DEF Over
<1>3. pc[h] \in Waits /\ reply[h] # 0 => tail[1] = h
  BY <1>1 DEF Agree, Queue
<1>4. LedgerTypes' /\ UpdateTypes'
  BY <1>1 DEF Types, LedgerTypes, UpdateTypes, Stages, MaxFaults, Entry, CursorSet, Handles
<1>5. LedgerShape'
  <2>1. \A k \in Cancels : committed[k] => committed'[k]
    BY DEF Handles, Handlers
  <2>2. FailureHasCause'
    BY <1>1, <2>1 DEF Agree, LedgerShape, FailureHasCause, Last
  <2> QED
    BY <1>1, <2>2 DEF Agree, LedgerShape
<1>6. pc[Main] = "start" => pc[h] = "idle" \/ (pc[h] \in Waits /\ reply[h] # 0)
  BY <1>1 DEF Agree, Queue, Handles
<1>7. pc[Main] = "start" => pc[h] = "idle"
  BY <1>1, <1>3, <1>6 DEF Agree, Queue
<1>8. FlowTypes'
  <2>1. seen' \in 0..Len(ledger)
    BY <1>1, AtMain DEF Handles, Failed
  <2>2. cursor' \in CursorSet /\ active' \in BOOLEAN /\ (active' => cursor' # None)
    <3>1. CASE cursor' = cursor /\ active' = active
      BY <3>1 DEF WorkflowInv, Types, FlowTypes
    <3>2. CASE cursor' = captured[h] /\ active' = TRUE /\ pc[h] = "stopped"
      <4>1. captured[h] \in CursorSet /\ captured[h] # None
        BY <1>1, <3>2 DEF Types, UpdateTypes, Answered, ProviderCancel
      <4> QED
        BY <3>2, <4>1
    <3> QED
      BY <3>1, <3>2 DEF Handles
  <2>3. /\ requested' \in BOOLEAN /\ transition' = transition /\ observations' = observations
        /\ CursorSet' = CursorSet /\ MaxObservations' = MaxObservations
    BY <1>1 DEF Handles, CursorSet, MaxObservations
  <2> QED
    BY <1>1, <2>1, <2>2, <2>3 DEF Types, FlowTypes
<1>9. Queue' /\ ActorTypes'
  <2>1. /\ tail' \in Seq(Actors) /\ Distinct(tail')
        /\ \A b \in Actors : pc'[b] \in Waits <=> Held(tail', b)
        /\ \A b \in Actors : pc'[b] \in Waits /\ reply'[b] # 0 => tail'[1] = b
    BY <1>1, QueueKept DEF Types, Agree, Handles
  <2>2. ASSUME pc'[Main] = "start"
        PROVE  /\ tail'[1] = Main
               /\ \A k \in Handlers : pc'[k] \in {"idle", "authorize", "submit", "done"}
    <3>1. pc[Main] = "start"
      BY <2>2 DEF Handles
    <3>2. tail[1] = Main /\ \A k \in Handlers : pc[k] \in {"idle", "authorize", "submit", "done"}
      BY <1>1, <3>1 DEF Agree, Queue
    <3>3. pc[h] = "idle" /\ pc'[h] \in {"authorize", "submit"}
      BY <1>7, <3>1 DEF Handles, Waits
    <3>4. tail' = Append(tail, h)
      BY <3>3 DEF Queued, Handles, Waits
    <3>5. Held(tail, Main) /\ ~Held(tail, h) /\ tail \in Seq(Actors) /\ Distinct(tail)
      BY <1>1, <3>1, <3>3, AtMain DEF Agree, Queue, Waits, Types, ActorTypes
    <3>6. tail'[1] = tail[1]
      BY <1>1, <3>4, <3>5, HeldAppend
    <3> QED
      BY <3>2, <3>3, <3>6 DEF Handles
  <2>3. Queue'
    BY <2>1, <2>2 DEF Queue
  <2>4. ActorTypes'
    BY <1>1, <2>1 DEF ActorTypes, Types, Handles, MainPlaces
  <2> QED
    BY <2>3, <2>4
<1>10. seen <= seen' /\ (seen' = seen \/ (Fresh(seen') /\ seen' = reply[h] /\ tail[1] = h))
  <2>1. CASE seen' = seen
    BY <2>1, AtMain
  <2>2. CASE seen' = reply[h] /\ reply[h] > seen /\ pc[h] \in {"submit", "cancel", "fail"}
    <3>1. reply[h] > 0 /\ reply[h] # 0 /\ seen <= seen'
      <4>1. reply[h] \in Int /\ seen \in Nat
        BY <1>1, AtMain DEF Failed
      <4> QED
        BY <2>2, <4>1
    <3>2. Over(Len(ledger)) \/ reply[h] = Len(ledger)
      BY <1>1, <2>2, <3>1 DEF Answered
    <3> QED
      BY <1>3, <2>2, <3>1, <3>2 DEF Fresh, Waits
  <2> QED
    BY <2>1, <2>2 DEF Handles
<1>11. Positions'
  <2>1. observations' = observations /\ MaxObservations' = MaxObservations
    BY <1>1 DEF Handles, MaxObservations
  <2>2. Positions /\ op \in Nat /\ seen \in Nat /\ seen' \in Nat
    BY <1>8, AtMain DEF FlowTypes, Handles
  <2>3. pc'[Main] = pc[Main] \/ pc'[Main] = "closed"
    BY DEF Handles
  <2>4. CASE pc'[Main] = pc[Main]
    BY <1>1, <1>10, <2>1, <2>2, <2>4 DEF Positions
  <2>5. CASE pc'[Main] = "closed"
    BY <2>5 DEF Positions, Working, Observing
  <2> QED
    BY <2>3, <2>4, <2>5
<1>12. reply'[Main] = reply[Main]
  BY <1>1, AtMain DEF Handles
<1>13. Known'
  <2>2. CASE pc'[Main] = "closed" /\ Over(Len(ledger))
    BY <1>2, <2>2 DEF Known, Working
  <2>3. CASE pc'[Main] = pc[Main]
    <3>1. pc[Main] = "start" => cursor' = cursor
      BY <1>7 DEF Handles
    <3>2. ASSUME pc[Main] \notin {"start", "closed"}, ledger[seen'] \in Automatic
          PROVE  \/ seen' = Len(ledger) \/ Over(Len(ledger))
                 \/ seen' = op /\ (pc[Main] = "fail" \/ (pc[Main] = "advance" /\ reply[Main] # 0))
      <4>1. seen' = seen => \/ seen = Len(ledger) \/ Over(Len(ledger))
                            \/ seen = op /\ (pc[Main] = "fail" \/ (pc[Main] = "advance" /\ reply[Main] # 0))
        BY <3>2, AtMain DEF Known, Fresh
      <4> QED
        BY <1>10, <4>1 DEF Fresh
    <3>3. /\ pc[Main] \in Working \/ (pc[Main] = "advance" /\ reply[Main] = 0) => Fresh(op)'
          /\ pc[Main] = "start" /\ cursor'.status = "pending" => Fresh(cursor.op)'
      BY <1>1, <1>2, <3>1, AtMain DEF Known, Fresh
    <3>4. /\ pc[Main] = "closed" => faults' > 0 \/ Over(Len(ledger))'
          /\ pc[Main] = "fail" =>
               \/ faults' > 0 \/ Over(Len(ledger))'
               \/ op' = Len(ledger') /\ op' \in DOMAIN provider' /\ provider'[op'].status = "stopped"
      BY <1>1, <1>2, AtMain DEF Known
    <3>5. pc[Main] \notin {"start", "closed"} /\ ledger'[seen'] \in Automatic =>
            \/ Fresh(seen)'
            \/ seen' = op' /\ (pc[Main] = "fail" \/ (pc[Main] = "advance" /\ reply'[Main] # 0))
      BY <1>1, <1>2, <1>12, <3>2 DEF Fresh
    <3> QED
      BY <1>12, <2>3, <3>3, <3>4, <3>5 DEF Known
  <2> QED
    BY <2>2, <2>3 DEF Handles
<1>14. MainAnswered'
  <2>1. ledger' = ledger /\ op' = op /\ faults' = faults /\ DOMAIN provider' = DOMAIN provider
    BY <1>1
  <2>2. MainAnswered /\ (pc'[Main] = pc[Main] \/ pc'[Main] = "closed")
    BY AtMain DEF Handles
  <2> QED
    BY <1>12, <2>1, <2>2 DEF MainAnswered, Fresh, Over
<1>15. ASSUME NEW k \in Handlers, k # h
       PROVE  Answered(k)'
  <2>1. /\ Answered(k) /\ pc'[k] = pc[k] /\ reply'[k] = reply[k] /\ k \in Actors
        /\ expected'[k] = expected[k] /\ captured'[k] = captured[k] /\ (committed[k] => committed'[k])
    BY <1>1, <1>15 DEF Agree, Handles, Actors
  <2>2. pc[k] = "submit" /\ reply[k] > 0 => tail[1] = k
    BY <1>1, <2>1 DEF Agree, Queue, Waits
  <2>3. pc[k] = "submit" /\ reply[k] > 0 => seen' = seen
    BY <1>10, <1>15, <2>2
  <2> QED
    BY <1>1, <1>2, <1>12, <2>1, <2>3 DEF Answered
<1>16. \A k \in Handlers : Answered(k)'
  BY <1>15
<1> QED
  BY <1>4, <1>5, <1>8, <1>9, <1>11, <1>13, <1>14, <1>16 DEF WorkflowInv, Types, Agree

\* What holds at a handler.
LEMMA AtHandler ==
  ASSUME WorkflowInv, NEW h \in Handlers
  PROVE  /\ h \in Actors /\ h # Main /\ Answered(h) /\ Main \in Actors
         /\ (h \in Cancels => h \notin Decisions)
         /\ expected \in [Handlers -> 0..Len(ledger)] /\ captured \in [Handlers -> CursorSet]
         /\ target \in [Handlers -> 0..Stages] /\ committed \in [Handlers -> BOOLEAN]
         /\ requested \in BOOLEAN
         /\ pc \in [Actors -> Places] /\ reply \in [Actors -> {Failed} \cup 0..Len(ledger)]
         /\ 0 \in 0..Len(ledger) /\ 0 \in 0..Stages /\ None \in CursorSet
         /\ reply[h] > seen => seen \in Nat /\ reply[h] > 0
<1>1. Stages \in Nat \ {0} /\ Len(ledger) \in Nat /\ seen \in 0..Len(ledger) /\ h \in Actors
  BY AtMain, Bounds DEF WorkflowInv, Types, Actors
<1>2. reply \in [Actors -> {Failed} \cup 0..Len(ledger)]
  BY AtMain
<1>3. reply[h] > seen => seen \in Nat /\ reply[h] > 0
  <2>1. reply[h] \in Int
    BY <1>1, <1>2 DEF Failed
  <2> QED
    BY <1>1, <2>1
<1> QED
  BY <1>1, <1>2, <1>3, AtMain, FoundryWorkflowAssumption
     DEF WorkflowInv, Types, Agree, UpdateTypes, FlowTypes, CursorSet, Actors

\* The places of a handler.
LEMMA HandlerPlaces ==
  CancelPlaces \subseteq Places /\ DecisionPlaces \subseteq Places
BY DEF Places

\* An update arrives, naming the revision its sender has seen.
LEMMA DeliverStep ==
  ASSUME WorkflowInv, NEW h \in Handlers, Deliver(h), instance' = instance
  PROVE  WorkflowInv'
<1>1. /\ ledger' = ledger /\ provider' = provider /\ seen' = seen /\ op' = op /\ cursor' = cursor
      /\ active' = active /\ requested' = requested /\ transition' = transition
      /\ observations' = observations /\ reply' = reply /\ captured' = captured /\ target' = target
      /\ committed' = committed /\ faults' = faults
      /\ pc[h] = "idle" /\ tail' = Append(tail, h)
      /\ pc' = [pc EXCEPT ![h] = IF h \in Cancels THEN "authorize" ELSE "submit"]
  BY DEF Deliver, flow
<1>2. PICK r \in DOMAIN ledger : expected' = [expected EXCEPT ![h] = r]
  BY DEF Deliver
<1>3. r \in 1..Len(ledger)
  BY <1>2, AtMain, Bounds
<1>4. /\ expected' \in [Handlers -> 0..Len(ledger)] /\ expected'[h] # 0
      /\ \A k \in Handlers : k # h => expected'[k] = expected[k]
  BY <1>2, <1>3, AtHandler, AtMain
<1>5. /\ pc'[h] = (IF h \in Cancels THEN "authorize" ELSE "submit")
      /\ \A b \in Actors : b # h => pc'[b] = pc[b]
      /\ pc' \in [Actors -> Places]
  BY <1>1, AtHandler DEF Places, CancelPlaces, DecisionPlaces
<1>6. reply[h] = 0
  BY <1>1, AtHandler DEF Answered
<1>7. Queued(h)
  BY <1>1, <1>5, <1>6 DEF Queued, Waits
<1>8. Handles(h)
  <2>2. pc'[Main] = pc[Main] /\ \A k \in Handlers : k # h => pc'[k] = pc[k]
    BY <1>5, AtHandler DEF Actors
  <2> QED
    BY <1>1, <1>4, <1>5, <1>7, <2>2, AtHandler DEF Handles
<1>9. Answered(h)'
  BY <1>1, <1>4, <1>5, <1>6, AtHandler DEF Answered, CancelPlaces, DecisionPlaces, ProviderCancel, Handlers
<1> QED
  BY <1>8, <1>9, HandlerKeeps

\* A handler that has answered its update keeps nothing.
LEMMA DoneWith ==
  ASSUME WorkflowInv, NEW h \in Handlers, Done(h), pc'[h] = "done",
         committed' = committed, op' = op
  PROVE  /\ reply' \in [Actors -> {Failed} \cup 0..Len(ledger)] /\ reply'[h] = 0
         /\ \A b \in Actors : b # h => reply'[b] = reply[b]
         /\ expected' \in [Handlers -> 0..Len(ledger)] /\ captured' \in [Handlers -> CursorSet]
         /\ target' \in [Handlers -> 0..Stages]
         /\ \A k \in Handlers : k # h => expected'[k] = expected[k] /\ captured'[k] = captured[k]
         /\ Answered(h)'
<1>1. /\ reply' \in [Actors -> {Failed} \cup 0..Len(ledger)] /\ reply'[h] = 0
      /\ \A b \in Actors : b # h => reply'[b] = reply[b]
  BY AtHandler DEF Done
<1>2. /\ expected' \in [Handlers -> 0..Len(ledger)]
      /\ \A k \in Handlers : k # h => expected'[k] = expected[k]
  BY AtHandler DEF Done
<1>3. /\ captured' \in [Handlers -> CursorSet]
      /\ \A k \in Handlers : k # h => captured'[k] = captured[k]
  BY AtHandler DEF Done
<1>4. target' \in [Handlers -> 0..Stages]
  BY AtHandler DEF Done
<1>5. Answered(h)'
  BY <1>1, AtHandler DEF Answered, CancelPlaces, DecisionPlaces, ProviderCancel, Failed
<1> QED
  BY <1>1, <1>2, <1>3, <1>4, <1>5

\* The other actors stay where they are.
LEMMA Elsewhere ==
  ASSUME WorkflowInv, NEW h \in Handlers, NEW place \in Places, pc' = [pc EXCEPT ![h] = place]
  PROVE  /\ pc' \in [Actors -> Places] /\ pc'[h] = place /\ pc'[Main] = pc[Main]
         /\ \A b \in Actors : b # h => pc'[b] = pc[b]
         /\ \A k \in Handlers : k # h => pc'[k] = pc[k]
BY AtHandler DEF Actors

\* The handler of a decision adopts the revision reported, if it is newer.
LEMMA SubmittedStep ==
  ASSUME WorkflowInv, NEW h \in Decisions, Submitted(h), instance' = instance
  PROVE  WorkflowInv'
<1>1. /\ ledger' = ledger /\ provider' = provider /\ op' = op /\ cursor' = cursor
      /\ active' = active /\ requested' = requested /\ transition' = transition
      /\ observations' = observations /\ committed' = committed /\ faults' = faults
      /\ pc[h] = "submit" /\ reply[h] # 0 /\ tail' = Tail(tail)
      /\ pc' = [pc EXCEPT ![h] = "done"] /\ seen' = Newer(reply[h]) /\ Done(h) /\ h \in Handlers
  BY DEF Submitted, Returned, flow, Handlers
<1>2. "done" \in Places
  BY DEF Places, CancelPlaces
<1>3. /\ pc' \in [Actors -> Places] /\ pc'[h] = "done" /\ pc'[Main] = pc[Main]
      /\ \A b \in Actors : b # h => pc'[b] = pc[b]
      /\ \A k \in Handlers : k # h => pc'[k] = pc[k]
  BY <1>1, <1>2, Elsewhere
<1>4. /\ reply' \in [Actors -> {Failed} \cup 0..Len(ledger)] /\ reply'[h] = 0
      /\ \A b \in Actors : b # h => reply'[b] = reply[b]
      /\ expected' \in [Handlers -> 0..Len(ledger)] /\ captured' \in [Handlers -> CursorSet]
      /\ target' \in [Handlers -> 0..Stages]
      /\ \A k \in Handlers : k # h => expected'[k] = expected[k] /\ captured'[k] = captured[k]
      /\ Answered(h)'
  BY <1>1, <1>3, DoneWith
<1>6. Queued(h)
  BY <1>1, <1>3, <1>4 DEF Queued, Waits
<1>7. Handles(h)
  BY <1>1, <1>3, <1>4, <1>6, AtHandler DEF Handles, Waits, Newer
<1> QED
  BY <1>1, <1>4, <1>7, HandlerKeeps

\* An authorized cancel is requested; a refused one gives up.
LEMMA AuthorizedStep ==
  ASSUME WorkflowInv, NEW h \in Cancels, Authorized(h), instance' = instance
  PROVE  WorkflowInv'
<1>1. /\ ledger' = ledger /\ provider' = provider /\ op' = op /\ cursor' = cursor /\ seen' = seen
      /\ active' = active /\ transition' = transition
      /\ observations' = observations /\ committed' = committed /\ faults' = faults
      /\ pc[h] = "authorize" /\ reply[h] # 0 /\ tail' = Tail(tail) /\ h \in Handlers
  BY DEF Authorized, Returned, Handlers
<1>2. "done" \in Places /\ "waiting" \in Places
  BY DEF Places, CancelPlaces
<1>4. CASE /\ Taken(h) /\ requested' = TRUE /\ pc' = [pc EXCEPT ![h] = "waiting"]
           /\ UNCHANGED <<expected, captured, target>>
  <2>1. /\ pc' \in [Actors -> Places] /\ pc'[h] = "waiting" /\ pc'[Main] = pc[Main]
        /\ \A b \in Actors : b # h => pc'[b] = pc[b]
        /\ \A k \in Handlers : k # h => pc'[k] = pc[k]
    BY <1>1, <1>2, <1>4, Elsewhere
  <2>2. /\ reply' \in [Actors -> {Failed} \cup 0..Len(ledger)] /\ reply'[h] = 0
        /\ \A b \in Actors : b # h => reply'[b] = reply[b]
    BY <1>1, <1>4, AtHandler DEF Taken
  <2>3. Queued(h)
    BY <1>1, <2>1, <2>2 DEF Queued, Waits
  <2>4. Handles(h)
    BY <1>1, <1>4, <2>1, <2>2, <2>3, AtHandler DEF Handles, Waits
  <2>5. Answered(h)'
    BY <1>1, <1>4, <2>1, <2>2, AtHandler DEF Answered, CancelPlaces, ProviderCancel, Failed
  <2> QED
    BY <1>1, <2>4, <2>5, HandlerKeeps
<1>5. CASE Done(h) /\ pc' = [pc EXCEPT ![h] = "done"] /\ UNCHANGED requested
  <2>1. /\ pc' \in [Actors -> Places] /\ pc'[h] = "done" /\ pc'[Main] = pc[Main]
        /\ \A b \in Actors : b # h => pc'[b] = pc[b]
        /\ \A k \in Handlers : k # h => pc'[k] = pc[k]
    BY <1>1, <1>2, <1>5, Elsewhere
  <2>2. /\ reply' \in [Actors -> {Failed} \cup 0..Len(ledger)] /\ reply'[h] = 0
        /\ \A b \in Actors : b # h => reply'[b] = reply[b]
        /\ expected' \in [Handlers -> 0..Len(ledger)] /\ captured' \in [Handlers -> CursorSet]
        /\ target' \in [Handlers -> 0..Stages]
        /\ \A k \in Handlers : k # h => expected'[k] = expected[k] /\ captured'[k] = captured[k]
        /\ Answered(h)'
    BY <1>1, <1>5, <2>1, DoneWith
  <2>3. Queued(h)
    BY <1>1, <2>1, <2>2 DEF Queued, Waits
  <2>4. Handles(h)
    BY <1>1, <1>5, <2>1, <2>2, <2>3, AtHandler DEF Handles, Waits
  <2> QED
    BY <1>1, <2>2, <2>4, HandlerKeeps
<1> QED
  BY <1>4, <1>5 DEF Authorized

\* A cancel captures the cursor of an active operation, or goes to the run at once.
LEMMA CaptureStep ==
  ASSUME WorkflowInv, NEW h \in Cancels, Capture(h), instance' = instance
  PROVE  WorkflowInv'
<1>1. /\ ledger' = ledger /\ provider' = provider /\ op' = op /\ cursor' = cursor /\ seen' = seen
      /\ active' = active /\ requested' = requested /\ transition' = transition
      /\ observations' = observations /\ committed' = committed /\ faults' = faults
      /\ reply' = reply /\ expected' = expected /\ target' = target
      /\ pc[h] = "waiting" /\ h \in Handlers /\ h \in Actors
  BY AtHandler DEF Capture, flow, Handlers
<1>2. "query" \in Places /\ "cancel" \in Places
  BY DEF Places, CancelPlaces
<1>3. reply[h] = 0
  BY <1>1, AtHandler DEF Answered
<1>4. CASE active /\ captured' = [captured EXCEPT ![h] = cursor]
           /\ pc' = [pc EXCEPT ![h] = "query"] /\ UNCHANGED tail
  <2>1. /\ pc' \in [Actors -> Places] /\ pc'[h] = "query" /\ pc'[Main] = pc[Main]
        /\ \A b \in Actors : b # h => pc'[b] = pc[b]
        /\ \A k \in Handlers : k # h => pc'[k] = pc[k]
    BY <1>1, <1>2, <1>4, Elsewhere
  <2>2. cursor \in CursorSet /\ cursor # None
    BY <1>4 DEF WorkflowInv, Types, FlowTypes
  <2>3. /\ captured' \in [Handlers -> CursorSet] /\ captured'[h] # None
        /\ \A k \in Handlers : k # h => captured'[k] = captured[k]
    BY <1>1, <1>4, <2>2, AtHandler
  <2>4. Queued(h)
    BY <1>1, <1>3, <1>4, <2>1 DEF Queued, Waits
  <2>5. Handles(h)
    BY <1>1, <1>4, <2>1, <2>3, <2>4, AtHandler DEF Handles, Waits
  <2>6. Answered(h)'
    BY <1>1, <1>3, <2>1, <2>3, AtHandler DEF Answered, CancelPlaces, ProviderCancel
  <2> QED
    BY <1>1, <2>5, <2>6, HandlerKeeps
<1>5. CASE tail' = Append(tail, h) /\ pc' = [pc EXCEPT ![h] = "cancel"] /\ UNCHANGED captured
  <2>1. /\ pc' \in [Actors -> Places] /\ pc'[h] = "cancel" /\ pc'[Main] = pc[Main]
        /\ \A b \in Actors : b # h => pc'[b] = pc[b]
        /\ \A k \in Handlers : k # h => pc'[k] = pc[k]
    BY <1>1, <1>2, <1>5, Elsewhere
  <2>3. Queued(h)
    BY <1>1, <1>3, <1>5, <2>1 DEF Queued, Waits
  <2>4. Handles(h)
    BY <1>1, <1>5, <2>1, <2>3, AtHandler DEF Handles, Waits
  <2>5. Answered(h)'
    BY <1>1, <1>3, <1>5, <2>1, AtHandler DEF Answered, CancelPlaces, ProviderCancel
  <2> QED
    BY <1>1, <2>4, <2>5, HandlerKeeps
<1> QED
  BY <1>4, <1>5 DEF Capture

\* A cancel that has stopped the provider commits to ending the run.
LEMMA ProviderCancelledStep ==
  ASSUME WorkflowInv, NEW h \in Cancels, ProviderCancelled(h), instance' = instance
  PROVE  WorkflowInv'
<1>1. /\ ledger' = ledger /\ provider' = provider /\ op' = op /\ seen' = seen
      /\ transition' = transition /\ observations' = observations /\ faults' = faults
      /\ pc[h] = "stopped" /\ reply[h] # 0 /\ h \in Handlers /\ h \in Actors
  BY AtHandler DEF ProviderCancelled, Returned, Handlers
<1>2. "cancel" \in Places /\ "done" \in Places
  BY DEF Places, CancelPlaces
<1>3. CASE /\ Taken(h) /\ committed' = [committed EXCEPT ![h] = TRUE]
           /\ cursor' = captured[h] /\ active' = TRUE
           /\ pc' = [pc EXCEPT ![h] = "cancel"] /\ tail' = Append(tail, h)
           /\ UNCHANGED <<requested, expected, captured, target>>
  <2>1. /\ pc' \in [Actors -> Places] /\ pc'[h] = "cancel" /\ pc'[Main] = pc[Main]
        /\ \A b \in Actors : b # h => pc'[b] = pc[b]
        /\ \A k \in Handlers : k # h => pc'[k] = pc[k]
    BY <1>1, <1>2, <1>3, Elsewhere
  <2>2. /\ reply' \in [Actors -> {Failed} \cup 0..Len(ledger)] /\ reply'[h] = 0
        /\ \A b \in Actors : b # h => reply'[b] = reply[b]
    BY <1>1, <1>3, AtHandler DEF Taken
  <2>3. /\ committed' \in [Handlers -> BOOLEAN]
        /\ \A k \in Handlers : committed[k] => committed'[k]
    BY <1>1, <1>3, AtHandler
  <2>5. Queued(h)
    BY <1>1, <1>3, <2>1, <2>2 DEF Queued, Waits
  <2>4. /\ requested' = requested /\ expected' = expected /\ captured' = captured
        /\ target' = target
    BY <1>3
  <2>6. Handles(h)
    <3>1. requested' \in BOOLEAN
      BY <1>1, <2>4, AtHandler
    <3>2. cursor' = captured[h] /\ active' = TRUE
      BY <1>3
    <3>3. /\ expected' \in [Handlers -> 0..Len(ledger)] /\ captured' \in [Handlers -> CursorSet]
          /\ target' \in [Handlers -> 0..Stages]
      BY <1>1, <2>4, AtHandler
    <3> QED
      BY <1>1, <2>1, <2>2, <2>3, <2>4, <2>5, <3>1, <3>2, <3>3 DEF Handles
  <2>7. Answered(h)'
    <3>1. Answered(h) /\ h \notin Decisions
      BY <1>1, AtHandler
    <3> QED
      BY <1>1, <2>1, <2>2, <2>4, <3>1 DEF Answered, CancelPlaces, ProviderCancel
  <2> QED
    BY <1>1, <2>6, <2>7, HandlerKeeps
<1>4. CASE GiveUp(h) /\ UNCHANGED <<cursor, active, tail, committed>>
  <2>1. /\ pc' \in [Actors -> Places] /\ pc'[h] = "done" /\ pc'[Main] = pc[Main]
        /\ \A b \in Actors : b # h => pc'[b] = pc[b]
        /\ \A k \in Handlers : k # h => pc'[k] = pc[k]
    BY <1>1, <1>2, <1>4, Elsewhere DEF GiveUp
  <2>2. /\ reply' \in [Actors -> {Failed} \cup 0..Len(ledger)] /\ reply'[h] = 0
        /\ \A b \in Actors : b # h => reply'[b] = reply[b]
        /\ expected' \in [Handlers -> 0..Len(ledger)] /\ captured' \in [Handlers -> CursorSet]
        /\ target' \in [Handlers -> 0..Stages]
        /\ \A k \in Handlers : k # h => expected'[k] = expected[k] /\ captured'[k] = captured[k]
        /\ Answered(h)'
    BY <1>1, <1>4, <2>1, DoneWith DEF GiveUp
  <2>3. Queued(h)
    BY <1>1, <1>4, <2>1, <2>2 DEF Queued, Waits
  <2>4. Handles(h)
    <3>1. requested' \in BOOLEAN
      BY <1>4 DEF GiveUp
    <3> QED
      BY <1>1, <1>4, <2>1, <2>2, <2>3, <3>1, AtHandler DEF Handles, Waits
  <2> QED
    BY <1>1, <2>2, <2>4, HandlerKeeps
<1> QED
  BY <1>3, <1>4 DEF ProviderCancelled

\* A recorded cancel ends an advance under way; a refused one fails the run.
LEMMA RunCancelledStep ==
  ASSUME WorkflowInv, NEW h \in Cancels, RunCancelled(h), instance' = instance
  PROVE  WorkflowInv'
<1>1. /\ ledger' = ledger /\ provider' = provider /\ op' = op /\ cursor' = cursor /\ active' = active
      /\ transition' = transition /\ observations' = observations /\ faults' = faults
      /\ committed' = committed
      /\ pc[h] = "cancel" /\ reply[h] # 0 /\ h \in Handlers /\ h \in Actors /\ h # Main
  BY AtHandler DEF RunCancelled, Returned, Handlers
<1>2. "fail" \in Places /\ "done" \in Places /\ "closed" \in Places
  BY DEF Places, CancelPlaces, MainPlaces
<1>5. CASE /\ reply[h] # Failed /\ Done(h)
           /\ seen' = Newer(reply[h]) /\ tail' = Tail(tail)
           /\ pc' = [pc EXCEPT ![h] = "done",
                               ![Main] = IF @ = "advance" THEN "closed" ELSE @]
           /\ UNCHANGED requested
  <2>1. /\ pc' \in [Actors -> Places] /\ pc'[h] = "done"
        /\ pc'[Main] = (IF pc[Main] = "advance" THEN "closed" ELSE pc[Main])
        /\ \A b \in Actors : b # h /\ b # Main => pc'[b] = pc[b]
        /\ \A k \in Handlers : k # h => pc'[k] = pc[k]
    BY <1>1, <1>2, <1>5, AtHandler, AtMain DEF Actors
  <2>2. /\ reply' \in [Actors -> {Failed} \cup 0..Len(ledger)] /\ reply'[h] = 0
        /\ \A b \in Actors : b # h => reply'[b] = reply[b]
        /\ expected' \in [Handlers -> 0..Len(ledger)] /\ captured' \in [Handlers -> CursorSet]
        /\ target' \in [Handlers -> 0..Stages]
        /\ \A k \in Handlers : k # h => expected'[k] = expected[k] /\ captured'[k] = captured[k]
        /\ Answered(h)'
    BY <1>1, <1>5, <2>1, DoneWith
  <2>3. Over(Len(ledger))
    <3>1. reply[h] > 0
      BY <1>1, <1>5, AtHandler DEF Failed
    <3> QED
      BY <1>1, <3>1, AtHandler DEF Answered
  <2>4. Queued(h)
    <3>1. \A b \in Actors : b # h => (pc'[b] \in Waits <=> pc[b] \in Waits)
      BY <2>1 DEF Waits
    <3> QED
      BY <1>1, <1>5, <2>1, <2>2, <3>1 DEF Queued, Waits
  <2>5. Handles(h)
    BY <1>1, <1>5, <2>1, <2>2, <2>3, <2>4, AtHandler DEF Handles, Waits, Newer
  <2> QED
    BY <1>1, <2>2, <2>5, HandlerKeeps
<1>6. CASE /\ reply[h] = Failed /\ committed[h] /\ Taken(h)
           /\ pc' = [pc EXCEPT ![h] = "fail"] /\ tail' = Append(Tail(tail), h)
           /\ UNCHANGED <<seen, requested, expected, captured, target>>
  <2>1. /\ pc' \in [Actors -> Places] /\ pc'[h] = "fail" /\ pc'[Main] = pc[Main]
        /\ \A b \in Actors : b # h => pc'[b] = pc[b]
        /\ \A k \in Handlers : k # h => pc'[k] = pc[k]
    BY <1>1, <1>2, <1>6, Elsewhere
  <2>2. /\ reply' \in [Actors -> {Failed} \cup 0..Len(ledger)] /\ reply'[h] = 0
        /\ \A b \in Actors : b # h => reply'[b] = reply[b]
    BY <1>1, <1>6, AtHandler DEF Taken
  <2>3. Queued(h)
    BY <1>1, <1>6, <2>1, <2>2 DEF Queued, Waits
  <2>4. Handles(h)
    BY <1>1, <1>6, <2>1, <2>2, <2>3, AtHandler DEF Handles, Waits
  <2>5. Answered(h)'
    <3>1. Answered(h) /\ h \notin Decisions
      BY <1>1, AtHandler
    <3>2. expected' = expected /\ committed[h]
      BY <1>6
    <3> QED
      BY <1>1, <2>1, <2>2, <3>1, <3>2 DEF Answered, CancelPlaces, ProviderCancel
  <2> QED
    BY <1>1, <2>4, <2>5, HandlerKeeps
<1>7. CASE GiveUp(h) /\ tail' = Tail(tail) /\ UNCHANGED seen
  <2>1. /\ pc' \in [Actors -> Places] /\ pc'[h] = "done" /\ pc'[Main] = pc[Main]
        /\ \A b \in Actors : b # h => pc'[b] = pc[b]
        /\ \A k \in Handlers : k # h => pc'[k] = pc[k]
    BY <1>1, <1>2, <1>7, Elsewhere DEF GiveUp
  <2>2. /\ reply' \in [Actors -> {Failed} \cup 0..Len(ledger)] /\ reply'[h] = 0
        /\ \A b \in Actors : b # h => reply'[b] = reply[b]
        /\ expected' \in [Handlers -> 0..Len(ledger)] /\ captured' \in [Handlers -> CursorSet]
        /\ target' \in [Handlers -> 0..Stages]
        /\ \A k \in Handlers : k # h => expected'[k] = expected[k] /\ captured'[k] = captured[k]
        /\ Answered(h)'
    BY <1>1, <1>7, <2>1, DoneWith DEF GiveUp
  <2>3. Queued(h)
    BY <1>1, <1>7, <2>1, <2>2 DEF Queued, Waits
  <2>4. Handles(h)
    <3>1. requested' \in BOOLEAN
      BY <1>7 DEF GiveUp
    <3> QED
      BY <1>1, <1>7, <2>1, <2>2, <2>3, <3>1, AtHandler DEF Handles, Waits
  <2> QED
    BY <1>1, <2>2, <2>4, HandlerKeeps
<1> QED
  BY <1>5, <1>6, <1>7 DEF RunCancelled

\* A handler that asked to fail the run gives its request up unless the run is over.
LEMMA CancelFailedStep ==
  ASSUME WorkflowInv, NEW h \in Cancels, CancelFailed(h), instance' = instance
  PROVE  WorkflowInv'
<1>1. /\ ledger' = ledger /\ provider' = provider /\ op' = op /\ cursor' = cursor /\ active' = active
      /\ transition' = transition /\ observations' = observations /\ faults' = faults
      /\ committed' = committed
      /\ pc[h] = "fail" /\ reply[h] # 0 /\ h \in Handlers /\ h \in Actors /\ tail' = Tail(tail)
      /\ pc' = [pc EXCEPT ![h] = "done"] /\ seen' = Newer(reply[h]) /\ Done(h)
  BY AtHandler DEF CancelFailed, Returned, Handlers
<1>2. requested' \in BOOLEAN
  BY DEF CancelFailed
<1>3. "done" \in Places
  BY DEF Places, CancelPlaces
<1>4. /\ pc' \in [Actors -> Places] /\ pc'[h] = "done" /\ pc'[Main] = pc[Main]
      /\ \A b \in Actors : b # h => pc'[b] = pc[b]
      /\ \A k \in Handlers : k # h => pc'[k] = pc[k]
  BY <1>1, <1>3, Elsewhere
<1>5. /\ reply' \in [Actors -> {Failed} \cup 0..Len(ledger)] /\ reply'[h] = 0
      /\ \A b \in Actors : b # h => reply'[b] = reply[b]
      /\ expected' \in [Handlers -> 0..Len(ledger)] /\ captured' \in [Handlers -> CursorSet]
      /\ target' \in [Handlers -> 0..Stages]
      /\ \A k \in Handlers : k # h => expected'[k] = expected[k] /\ captured'[k] = captured[k]
      /\ Answered(h)'
  BY <1>1, <1>4, DoneWith
<1>7. Queued(h)
  BY <1>1, <1>4, <1>5 DEF Queued, Waits
<1>8. Handles(h)
  BY <1>1, <1>2, <1>4, <1>5, <1>7, AtHandler DEF Handles, Waits, Newer
<1> QED
  BY <1>1, <1>5, <1>8, HandlerKeeps

-----------------------------------------------------------------------------
(* The theorems. *)

\* Every step keeps the invariant, and so does a stutter.
LEMMA WorkflowNext == WorkflowInv /\ [Next]_vars => WorkflowInv'
<1> SUFFICES ASSUME WorkflowInv, [Next]_vars PROVE WorkflowInv'
  OBVIOUS
<1>1. CASE MainStep /\ instance' = instance
  <2>1. CASE StartRun \/ Started \/ Decided \/ LaunchProviderOperation \/ Launched
    BY <1>1, <2>1, StartRunStep, StartedStep, DecidedStep, LaunchProviderOperationStep, LaunchedStep
  <2>2. CASE ObserveProviderOperation \/ CancelObserved \/ ContinueAsNew
             \/ ReadProviderOperationTerminal \/ Settle
    BY <1>1, <2>2, ObserveStep, CancelObservedStep, ContinueAsNewStep, ReadStep, SettleStep
  <2>3. CASE AdvanceRun \/ Advanced \/ FailRun(Main) \/ RunFailed
    BY <1>1, <2>3, AtMain, AdvanceRunStep, AdvancedStep, FailRunStep, RunFailedStep
  <2> QED
    BY <1>1, <2>1, <2>2, <2>3 DEF MainStep
<1>2. ASSUME NEW h \in Handlers, Deliver(h), instance' = instance
      PROVE  WorkflowInv'
  BY <1>2, DeliverStep
<1>3. ASSUME NEW h \in Cancels, CancelStep(h), instance' = instance
      PROVE  WorkflowInv'
  <2>1. h \in Actors
    BY DEF Actors, Handlers
  <2>2. CASE AuthorizeCancelRun(h) \/ Authorized(h) \/ Capture(h) \/ QueryProviderOperation(h)
             \/ CancelStageRun(h)
    BY <1>3, <2>2, AuthorizeStep, AuthorizedStep, CaptureStep, QueryStep, CancelStageRunStep
  <2>3. CASE ProviderCancelled(h) \/ CancelRun(h) \/ RunCancelled(h) \/ FailRun(h) \/ CancelFailed(h)
    BY <1>3, <2>1, <2>3, ProviderCancelledStep, CancelRunStep, RunCancelledStep, FailRunStep,
       CancelFailedStep
  <2> QED
    BY <1>3, <2>2, <2>3 DEF CancelStep
<1>4. ASSUME NEW h \in Decisions, DecisionStep(h), instance' = instance
      PROVE  WorkflowInv'
  BY <1>4, SubmitStep, SubmittedStep DEF DecisionStep
<1>5. ASSUME NEW r \in DOMAIN provider, ProgressStageRun(r) \/ BreakStageRun(r), instance' = instance
      PROVE  WorkflowInv'
  BY <1>5, ProviderStep
<1>6. CASE UNCHANGED vars
  <2>1. /\ ledger' = ledger /\ provider' = provider /\ seen' = seen /\ cursor' = cursor
        /\ active' = active /\ requested' = requested /\ transition' = transition
        /\ observations' = observations /\ op' = op /\ tail' = tail /\ pc' = pc /\ reply' = reply
        /\ expected' = expected /\ captured' = captured /\ target' = target
        /\ committed' = committed /\ faults' = faults /\ instance' = instance
    BY <1>6 DEF vars, flow, update
  <2>2. Types'
    BY <2>1 DEF WorkflowInv, Types, LedgerTypes, FlowTypes, ActorTypes, UpdateTypes, Stages,
                MaxFaults, MaxObservations, Entry, CursorSet
  <2>3. LedgerShape' /\ Queue' /\ Positions' /\ MainAnswered'
    BY <2>1 DEF WorkflowInv, Agree, LedgerShape, FailureHasCause, Last, Queue, Positions,
                MaxObservations, MainAnswered, Fresh, Over
  <2>4. Known' /\ \A h \in Handlers : Answered(h)'
    BY <2>1 DEF WorkflowInv, Agree, Known, Answered, Fresh, Over
  <2> QED
    BY <2>2, <2>3, <2>4 DEF WorkflowInv, Agree
<1> QED
  BY <1>1, <1>2, <1>3, <1>4, <1>5, <1>6 DEF Next, Step, Progress

\* The inductive invariant holds, whatever updates arrive and whatever fails.
THEOREM WorkflowInvariant == Spec => []WorkflowInv
<1>1. Init => WorkflowInv
  BY WorkflowInit
<1>2. WorkflowInv /\ [Next]_vars => WorkflowInv'
  BY WorkflowNext
<1> QED
  BY <1>1, <1>2, PTL DEF Spec

\* Every variable keeps its type: a cursor names an operation that was launched,
\* and each operation launched one revision that calls the provider.
THEOREM TypeCorrect == Spec => []TypeOK
<1>1. WorkflowInv => TypeOK
  BY TypesAreTypes DEF WorkflowInv
<1> QED
  BY <1>1, WorkflowInvariant, PTL

\* Unless something has failed, the workflow ends only with its run; and a run
\* fails only with a cause: an activity or StageRun that failed, or a cancel that
\* has reached the provider.
THEOREM EndsJustified == Spec => []EndsAreJustified
<1>1. ASSUME WorkflowInv PROVE EndsAreJustified
  <2>1. pc[Main] = "closed" /\ faults = 0 => Over(Len(ledger))
    BY <1>1, AtMain DEF Known
  <2>2. FailureHasCause
    BY <1>1, AtMain DEF LedgerShape
  <2> QED
    BY <2>1, <2>2 DEF EndsAreJustified, ClosedMeansOver
<1> QED
  BY <1>1, WorkflowInvariant, PTL

\* An operation of the provider and its run agree on whether they go on: what
\* still runs belongs to the current revision, and what a cancel has stopped is
\* never used.
THEOREM ProviderFollows == Spec => []ProviderFollowsRun
<1>1. ASSUME WorkflowInv PROVE ProviderFollowsRun
  <2>1. ASSUME NEW r \in DOMAIN provider, provider[r].status # "finished", r # Len(ledger)
        PROVE  ledger[r + 1] \in {"cancelled", "failed"} /\ r + 1 \in 1..Len(ledger)
    BY <1>1, <2>1, AtMain DEF LedgerTypes, LedgerShape
  <2>2. RunningIsCurrent
    <3> SUFFICES ASSUME NEW r \in DOMAIN provider, provider[r].status = "running", r # Len(ledger)
                 PROVE  Over(Len(ledger))
      BY DEF RunningIsCurrent
    <3>1. r + 1 \in 1..Len(ledger) /\ ledger[r + 1] \in Terminal
      BY <2>1 DEF Terminal
    <3>2. r + 1 = Len(ledger)
      BY <1>1, <3>1, AtMain DEF LedgerShape
    <3> QED
      BY <1>1, <3>1, <3>2, AtMain DEF Over
  <2>3. StoppedIsNeverUsed
    BY <1>1, AtMain DEF LedgerShape, StoppedIsNeverUsed
  <2> QED
    BY <2>2, <2>3 DEF ProviderFollowsRun
<1> QED
  BY <1>1, WorkflowInvariant, PTL
=============================================================================
