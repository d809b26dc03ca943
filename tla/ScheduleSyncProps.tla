------------------------- MODULE ScheduleSyncProps -------------------------
(***************************************************************************)
(* What must hold of a schedule and its triggers.                          *)
(***************************************************************************)
EXTENDS ScheduleSync

(***************************************************************************)
(* Writers that do not overlap and whose calls succeed leave exactly the   *)
(* trigger the row asks for, with its current payload, whatever sequence   *)
(* of creations, edits, deactivations, deletions and sweeps they form:     *)
(* "removal must use the exact pattern AND tz that were stored on add"     *)
(* (scheduler-queue.ts:17).                                                *)
(***************************************************************************)
UndisturbedInSync == ~disturbed /\ (\A w \in Writers : Resting(w)) => trigger = Wanted(row)

(***************************************************************************)
(* Whatever failed or overlapped, a later re-sync repairs it: over and     *)
(* over again a schedule that is not active has no trigger, and an active  *)
(* one has one at its own time (scheduler-queue.ts:183).  It may be        *)
(* missing for the moment between the removal and the add of a re-sync,    *)
(* may carry an old payload, and may have a second trigger beside it.      *)
(***************************************************************************)
Served == IF row.state = "active" THEN trigger[row.cron] # None ELSE Stored = {}

Healed == []<>Served
=============================================================================
