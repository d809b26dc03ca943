--------------------------- MODULE OrderLifecycle ---------------------------
(***************************************************************************)
(* What the billing subsystem promises about one payment order, whatever   *)
(* the order in which notifications, workers and sweeps run: a failed      *)
(* payment may still be settled, a settled order never changes again, and  *)
(* a licence is recorded on an order once, after its settlement.           *)
(***************************************************************************)
CONSTANT Orders

VARIABLES
  phase,     \* order -> "absent", "pending", "failed" or "settlement"
  licensed   \* the orders that carry an issued licence key

vars == <<phase, licensed>>

Init ==
  /\ phase = [o \in Orders |-> "absent"]
  /\ licensed = {}

Open(o) ==
  /\ phase[o] = "absent"
  /\ phase' = [phase EXCEPT ![o] = "pending"]
  /\ UNCHANGED licensed

Fail(o) ==
  /\ phase[o] \in {"pending", "failed"}
  /\ phase' = [phase EXCEPT ![o] = "failed"]
  /\ UNCHANGED licensed

Settle(o) ==
  /\ phase[o] \in {"pending", "failed"}
  /\ phase' = [phase EXCEPT ![o] = "settlement"]
  /\ UNCHANGED licensed

Issue(o) ==
  /\ phase[o] = "settlement"
  /\ o \notin licensed
  /\ licensed' = licensed \cup {o}
  /\ UNCHANGED phase

Next == \E o \in Orders : Open(o) \/ Fail(o) \/ Settle(o) \/ Issue(o)

Spec == Init /\ [][Next]_vars
=============================================================================
