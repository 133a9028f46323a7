---------------------------- MODULE FoundryRunLog ----------------------------
(***************************************************************************)
(* What the Foundry event store promises of its runs whatever happens to   *)
(* its lock files: a run is an append-only sequence of events, each stored *)
(* once and none after a terminal one, and what a caller was told is       *)
(* stored stays.  Locks, reservation, index and crashes do not appear.     *)
(***************************************************************************)
EXTENDS Naturals, Sequences

CONSTANTS Runs, Accept, Keys, Ends

VARIABLES
  log,       \* the events of each run
  promised   \* those some caller was told are stored

logVars == <<log, promised>>

Prefix(s, t) == Len(s) <= Len(t) /\ \A i \in 1..Len(s) : s[i] = t[i]

Init ==
  /\ log = [r \in Runs |-> <<>>]
  /\ promised = [r \in Runs |-> <<>>]

AcceptRun(r) ==
  /\ log[r] = <<>>
  /\ log' = [log EXCEPT ![r] = <<Accept>>]
  /\ UNCHANGED promised

Extend(r, k) ==
  /\ log[r] # <<>>
  /\ log[r][Len(log[r])] \notin Ends
  /\ \A i \in 1..Len(log[r]) : log[r][i] # k
  /\ log' = [log EXCEPT ![r] = Append(@, k)]
  /\ UNCHANGED promised

Promise(r, events) ==
  /\ Prefix(promised[r], events)
  /\ Prefix(events, log[r])
  /\ promised' = [promised EXCEPT ![r] = events]
  /\ UNCHANGED log

Step(r) ==
  \/ AcceptRun(r)
  \/ \E k \in Keys : Extend(r, k)
  \/ \E n \in 1..Len(log[r]) : Promise(r, SubSeq(log[r], 1, n))

Next == \E r \in Runs : Step(r)

Spec == Init /\ [][Next]_logVars
=============================================================================
