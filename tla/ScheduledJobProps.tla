------------------------- MODULE ScheduledJobProps -------------------------
(***************************************************************************)
(* What must hold of a tick.                                               *)
(***************************************************************************)
EXTENDS ScheduledJob

(***************************************************************************)
(* "No more double-execution" (scheduler-queue.ts:11), as far as it goes:  *)
(* two pipelines of a tick are under way at the same time only if one of   *)
(* them has timed out and goes on, and its attempt was settled (the retry) *)
(* or its lock was lost.  Two within their time are never side by side,    *)
(* although a blocked execution goes on, markers expire and whoever ends   *)
(* deletes the marker of another.  This fails once an execution sets the   *)
(* marker after it has lost its lock, or is suspended past its marker.     *)
(***************************************************************************)
UnderWay == {e \in Executions : exec[e].at = "run"} \cup lingering

LeftBehind(e) == e \in lingering /\ (exec[e].at = "done" \/ job.stalls > 0)

OneRunAtATime ==
  ~unowned /\ ~outlived =>
    \A e, f \in UnderWay : e = f \/ LeftBehind(e) \/ LeftBehind(f)

(***************************************************************************)
(* Retries and stalls together cost a bounded number of runs.              *)
(***************************************************************************)
RunBound == runs <= MaxAttempts + MaxStalls

(***************************************************************************)
(* A job does not complete before an outcome that needs no retry: "Deleted *)
(* on settle so BullMQ retries (same job.id) can re-acquire" (scheduler/   *)
(* index.ts:579).  This fails, and a tick is lost as a duplicate of        *)
(* itself, if the job stalled, a deletion of the marker failed, or a SET   *)
(* NX was executed and sent again.                                         *)
(***************************************************************************)
CompletedIsConcluded ==
  job.state = "completed" /\ job.stalls = 0 /\ ~kept /\ ~resent => concluded

(***************************************************************************)
(* "a transient failure that succeeds on retry shouldn't page the user     *)
(* with a false alarm" (scheduler/index.ts:375).                           *)
(***************************************************************************)
NoFalseAlarm == job.stalls = 0 => ~(alerted /\ succeeded)

(***************************************************************************)
(* Every tick is settled, whichever execution dies or is blocked.          *)
(***************************************************************************)
TickSettles == <>Settled
=============================================================================
