-------------------------- MODULE DurableStageRun --------------------------
(***************************************************************************)
(* What the launch registry promises a caller of one StageRun invocation:  *)
(* the invocation is bound to one immutable spec for good, the spec is     *)
(* executed at most once, the registry learns of that execution only after *)
(* it exists, never forgets it, and closes the StageRun for good only once *)
(* the execution has reached its outcome.  Callers, leases, claims, lost   *)
(* answers and crashes do not appear here.                                 *)
(***************************************************************************)
CONSTANTS Specs, NoSpec

VARIABLES
  spec,       \* the spec the invocation is bound to
  execution,  \* "none", "running", "decided" (outcome reached) or "ended"
  known       \* what the registry knows: "nothing", "started" or "closed"

durableVars == <<spec, execution, known>>

Init ==
  /\ spec = NoSpec
  /\ execution = "none"
  /\ known = "nothing"

Bind(s) ==
  /\ spec = NoSpec
  /\ spec' = s
  /\ UNCHANGED <<execution, known>>

Execute ==
  /\ spec # NoSpec
  /\ execution = "none"
  /\ execution' = "running"
  /\ UNCHANGED <<spec, known>>

Decide ==
  /\ execution = "running"
  /\ execution' = "decided"
  /\ UNCHANGED <<spec, known>>

End ==
  /\ execution \in {"running", "decided"}
  /\ execution' = "ended"
  /\ UNCHANGED <<spec, known>>

Learn ==
  /\ execution # "none"
  /\ known = "nothing"
  /\ known' = "started"
  /\ UNCHANGED <<spec, execution>>

Close ==
  /\ execution \in {"decided", "ended"}
  /\ known = "started"
  /\ known' = "closed"
  /\ UNCHANGED <<spec, execution>>

Next == (\E s \in Specs : Bind(s)) \/ Execute \/ Decide \/ End \/ Learn \/ Close

Spec == Init /\ [][Next]_durableVars
=============================================================================
