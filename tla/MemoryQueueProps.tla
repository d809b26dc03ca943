------------------------- MODULE MemoryQueueProps --------------------------
(***************************************************************************)
(* What must hold of the memory of chat turns.                             *)
(***************************************************************************)
EXTENDS MemoryQueue

(***************************************************************************)
(* Every write of a turn beyond the first is paid for by a fault (a lost   *)
(* answer, a crash, an add sent twice): the queue and the inline path never*)
(* both write a turn ("NO SECOND WRITE HERE", cognee-memory.ts:64), and a  *)
(* turn that was dropped or lost is not written.                           *)
(***************************************************************************)
ExtraWrites == {w \in Turns \X (2 .. 2 + MaxFaults) : w[2] <= stored[w[1]]}

ExtraWritesArePaid ==
  /\ Cardinality(ExtraWrites) <= faults
  /\ \A t \in Turns : turn[t] \in {"dropped", "lost"} => stored[t] = 0

(***************************************************************************)
(* The cap holds up to the requests that read the depth at the same time   *)
(* and the faults that skip the check or double an add ("Redis growth at a *)
(* bounded size", memory-queue.ts:98): jobs in backoff count.              *)
(***************************************************************************)
Pending == Cardinality({j \in Jobs : job[j].state \in {"waiting", "delayed", "active"}})

DepthBound == Pending <= MaxDepth + Writers - 1 + faults

(***************************************************************************)
(* "a turn the user saw must eventually be remembered" (memory-queue.ts:94)*)
(* as far as it goes: every turn is dropped, tried inline, stored, or left *)
(* as a failed job, or the sidecar is off, or the process died before the  *)
(* turn was queued; none is reported stored by an answer that stored       *)
(* nothing, and a queued turn survives every crash.                        *)
(***************************************************************************)
Remembered(t) ==
  \/ turn[t] \in {"dropped", "inlined", "lost"}
  \/ turn[t] = "queued" /\ job[<<t, 1>>].state \in {"failed", "off"}
  \/ turn[t] = "queued" /\ job[<<t, 1>>].state = "completed" /\ stored[t] > 0

TurnsSettle == \A t \in Turns : <>Remembered(t)
=============================================================================
