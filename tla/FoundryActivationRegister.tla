---------------------- MODULE FoundryActivationRegister ----------------------
(***************************************************************************)
(* What the version registry of a target promises: a compare-and-swap      *)
(* register of the active AgentVersion that keeps its whole history.       *)
(* Versions are registered before they are activated, a switch takes the   *)
(* place it expected, a rollback goes back to a version that was active,   *)
(* and what a caller was told stays.  Files, locks and crashes do not      *)
(* appear.                                                                 *)
(***************************************************************************)
EXTENDS Naturals, Sequences

CONSTANTS Versions, Receipts, NoReceipt

VARIABLES
  registered,   \* versions that may be activated
  history,      \* every switch of the register
  told          \* how much of the history some caller was told of

registerVars == <<registered, history, told>>

Switches == [kind: {"activate", "rollback"}, to: Versions, receipt: Receipts \cup {NoReceipt}]

WasActive(v) == \E i \in 1..Len(history) : history[i].to = v
IsActive(v) == Len(history) > 0 /\ history[Len(history)].to = v

Init ==
  /\ registered = {}
  /\ history = <<>>
  /\ told = 0

Register(v) ==
  /\ registered' = registered \cup {v}
  /\ UNCHANGED <<history, told>>

Switch(s) ==
  /\ s.to \in registered
  /\ s.kind = "rollback" => s.receipt # NoReceipt /\ WasActive(s.to) /\ ~IsActive(s.to)
  /\ history' = Append(history, s)
  /\ UNCHANGED <<registered, told>>

Tell(n) ==
  /\ told' = n
  /\ UNCHANGED <<registered, history>>

Next ==
  \/ \E v \in Versions : Register(v)
  \/ \E s \in Switches : Switch(s)
  \/ \E n \in told..Len(history) : Tell(n)

Spec == Init /\ [][Next]_registerVars
=============================================================================
