---------------------------- MODULE ScheduledJob ----------------------------
(***************************************************************************)
(* One tick of a schedule: the job BullMQ hands to the scheduler service,  *)
(* the executions of it, and the deduplication marker in Redis that every  *)
(* execution tries to set first.                                           *)
(*                                                                         *)
(* An execution holds a lock on the job and renews it.  One that dies, or  *)
(* is blocked for too long, loses it: the job is stalled and handed out    *)
(* again, while a blocked execution goes on with its work and finds only   *)
(* at its end that the queue no longer listens to it.                      *)
(*                                                                         *)
(* The timeout of a run is a race: the pipeline that lost it is asked to   *)
(* stop, and goes on until it looks at the signal.                         *)
(*                                                                         *)
(* The marker has no owner: whoever ends deletes whatever is there.  Its   *)
(* life exceeds the timeout of a run (DEDUP_TTL_SEC), but not the          *)
(* notification and the writes after the run, nor a process that is        *)
(* suspended.                                                              *)
(***************************************************************************)
EXTENDS Naturals

CONSTANTS
  Executions,    \* bound: executions of the tick
  MaxAttempts,   \* attempts of a job
  MaxFaults,     \* bound: deaths, suspensions, lost locks and failed calls
  None           \* no marker, no owner

ASSUME JobAssumption ==
  /\ None \notin Executions
  /\ MaxAttempts \in Nat \ {0}
  /\ MaxFaults \in Nat

MaxStalls == 1   \* maxStalledCount

VARIABLES
  job,         \* the job at the queue
  marker,      \* the execution that set the deduplication marker, or None
  exec,        \* execution -> where it stands
  lingering,   \* executions whose pipeline goes on after its timeout
  exists,      \* the ScheduledRun row exists
  faults,      \* faults so far
  runs,        \* history: runs of the chat pipeline started
  concluded,   \* history: an outcome that asks for no retry was reached
  succeeded,   \* history: a success was notified
  alerted,     \* history: a failure was notified
  kept,        \* history: a deletion of the marker failed
  unowned,     \* history: the marker was set without the lock on the job
  resent,      \* history: a SET NX that had been executed was sent again
  outlived     \* history: the marker expired before its run was over

vars == <<job, marker, exec, lingering, exists, faults, runs, concluded, succeeded, alerted,
          kept, unowned, resent, outlived>>

Stages   == {"free", "acquire", "gate", "run", "notify", "record", "release", "settle", "done", "dead"}
Outcomes == {"none", "duplicate", "gone", "locked", "success", "transient", "permanent"}

TypeOK ==
  /\ job \in [state : {"waiting", "active", "completed", "failed"}, made : 0 .. MaxAttempts,
              stalls : 0 .. MaxStalls + 1, owner : Executions \cup {None}]
  /\ marker \in Executions \cup {None}
  /\ exec \in [Executions -> [at : Stages, outcome : Outcomes, last : BOOLEAN]]
  /\ lingering \in SUBSET Executions
  /\ exists \in BOOLEAN
  /\ faults \in 0 .. MaxFaults
  /\ runs \in Nat
  /\ concluded \in BOOLEAN /\ succeeded \in BOOLEAN /\ alerted \in BOOLEAN
  /\ kept \in BOOLEAN /\ unowned \in BOOLEAN /\ resent \in BOOLEAN /\ outlived \in BOOLEAN

Init ==
  /\ job = [state |-> "waiting", made |-> 0, stalls |-> 0, owner |-> None]
  /\ marker = None
  /\ exec = [e \in Executions |-> [at |-> "free", outcome |-> "none", last |-> FALSE]]
  /\ lingering = {}
  /\ exists = TRUE
  /\ faults = 0
  /\ runs = 0
  /\ concluded = FALSE /\ succeeded = FALSE /\ alerted = FALSE
  /\ kept = FALSE /\ unowned = FALSE /\ resent = FALSE /\ outlived = FALSE

Fault == faults < MaxFaults /\ faults' = faults + 1

Goto(e, stage)     == exec' = [exec EXCEPT ![e].at = stage]
Ends(e, stage, how) == exec' = [exec EXCEPT ![e].at = stage, ![e].outcome = how]

reports == <<succeeded, alerted>>
misses  == <<kept, unowned, resent, outlived>>

-----------------------------------------------------------------------------
(***************************************************************************)
(* An execution.                                                           *)
(***************************************************************************)
\* A slip: the attempt before the last one is taken for the last.
LastAttemptEarly == job.made + 2 >= MaxAttempts

\* isLastAttempt, decided when the job is handed out.
LastAttempt == job.made + 1 >= MaxAttempts

\* Executions are interchangeable: any free one is the next.
NextFree == CHOOSE e \in Executions : exec[e].at = "free"

Take(e) ==
  /\ job.state = "waiting" /\ exec[e].at = "free" /\ e = NextFree
  /\ job' = [job EXCEPT !.state = "active", !.owner = e]
  /\ exec' = [exec EXCEPT ![e].at = "acquire", ![e].last = LastAttempt]
  /\ UNCHANGED <<marker, lingering, exists, faults, runs, concluded, reports, misses>>

\* A slip: the marker is set whether it is there or not.
AcquireAnyway(e) ==
  /\ exec[e].at = "acquire"
  /\ marker' = e
  /\ Goto(e, "gate")
  /\ unowned' = (unowned \/ job.owner # e)
  /\ UNCHANGED <<job, lingering, exists, faults, runs, concluded, reports, kept, resent, outlived>>

\* SET NX; an error of Redis fails the attempt.  One whose answer is lost is sent again
\* when the connection is back, and then finds the marker that it has set itself.
Acquire(e) ==
  /\ exec[e].at = "acquire"
  /\ \/ /\ marker = None /\ marker' = e
        /\ Goto(e, "gate")
        /\ unowned' = (unowned \/ job.owner # e)
        /\ UNCHANGED <<faults, resent>>
     \/ /\ marker # None /\ Ends(e, "settle", "duplicate")
        /\ UNCHANGED <<marker, faults, unowned, resent>>
     \/ /\ marker = None /\ marker' = e /\ Fault
        /\ Ends(e, "settle", "duplicate") /\ resent' = TRUE
        /\ UNCHANGED unowned
     \/ /\ Ends(e, "settle", "transient") /\ Fault
        /\ UNCHANGED <<marker, unowned, resent>>
  /\ UNCHANGED <<job, lingering, exists, runs, concluded, reports, kept, outlived>>

\* The row and the licence; these reads are outside the try of the run.
Gate(e) ==
  /\ exec[e].at = "gate"
  /\ \/ ~exists /\ Ends(e, "release", "gone") /\ concluded' = TRUE /\ UNCHANGED <<faults, runs>>
     \/ exists /\ Ends(e, "release", "locked") /\ concluded' = TRUE /\ UNCHANGED <<faults, runs>>
     \/ exists /\ Goto(e, "run") /\ runs' = runs + 1 /\ UNCHANGED <<faults, concluded>>
     \/ Ends(e, "release", "transient") /\ Fault /\ UNCHANGED <<runs, concluded>>
  /\ UNCHANGED <<job, marker, lingering, exists, reports, misses>>

\* The chat pipeline against the clock: a timeout is a transient failure of the
\* attempt, while its pipeline may go on.
Run(e) ==
  /\ exec[e].at = "run"
  /\ \E how \in {"success", "transient", "permanent"} :
       /\ Ends(e, "notify", how)
       /\ concluded' = (concluded \/ how # "transient")
       /\ lingering' \in {lingering} \cup (IF how = "transient" THEN {lingering \cup {e}} ELSE {})
  /\ UNCHANGED <<job, marker, exists, faults, runs, reports, misses>>

\* It looks at the signal, or is done; nobody waits for it.
PipelineEnds(e) ==
  /\ e \in lingering
  /\ lingering' = lingering \ {e}
  /\ UNCHANGED <<job, marker, exec, exists, faults, runs, concluded, reports, misses>>

Notify(e) ==
  /\ exec[e].at = "notify"
  /\ Goto(e, "record")
  /\ succeeded' = (succeeded \/ exec[e].outcome = "success")
  /\ alerted' = (alerted \/ (exec[e].outcome # "success" /\ exec[e].last))
  /\ UNCHANGED <<job, marker, lingering, exists, faults, runs, concluded, misses>>

\* lastRunAt, the log row and the audit row: each caught.
Record(e) ==
  /\ exec[e].at = "record"
  /\ Goto(e, "release")
  /\ UNCHANGED <<job, marker, lingering, exists, faults, runs, concluded, reports, misses>>

\* A slip: the marker is deleted after a success only.
ReleaseSuccess(e) ==
  /\ exec[e].at = "release"
  /\ Goto(e, "settle")
  /\ marker' = IF exec[e].outcome = "transient" THEN marker ELSE None
  /\ UNCHANGED <<job, lingering, exists, faults, runs, concluded, reports, misses>>

\* The finally of the worker.
Release(e) ==
  /\ exec[e].at = "release"
  /\ Goto(e, "settle")
  /\ \/ marker' = None /\ UNCHANGED <<faults, kept>>
     \/ UNCHANGED marker /\ Fault /\ kept' = TRUE
  /\ UNCHANGED <<job, lingering, exists, runs, concluded, reports, unowned, resent, outlived>>

-----------------------------------------------------------------------------
(***************************************************************************)
(* The queue.                                                              *)
(***************************************************************************)
\* A slip: attempts are compared before this one is counted.
FailedOnceMore ==
  [job EXCEPT !.made = @ + 1, !.owner = None,
              !.state = IF job.made < MaxAttempts THEN "waiting" ELSE "failed"]

\* A throw: the next attempt waits for its backoff.
FailedAttempt ==
  [job EXCEPT !.made = @ + 1, !.owner = None,
              !.state = IF job.made + 1 < MaxAttempts THEN "waiting" ELSE "failed"]

\* The outcome is heard from the owner only.
Settle(e) ==
  /\ exec[e].at = "settle"
  /\ Goto(e, "done")
  /\ job' = IF job.owner # e THEN job
            ELSE IF exec[e].outcome = "transient" THEN FailedAttempt
            ELSE [job EXCEPT !.state = "completed", !.owner = None]
  /\ UNCHANGED <<marker, lingering, exists, faults, runs, concluded, reports, misses>>

StalledJob ==
  [job EXCEPT !.stalls = @ + 1, !.owner = None,
              !.state = IF job.stalls >= MaxStalls THEN "failed" ELSE "waiting"]

\* A slip: a job that stalled before is not looked at again.
StallOnce ==
  /\ job.state = "active" /\ exec[job.owner].at = "dead" /\ job.stalls = 0
  /\ job' = StalledJob
  /\ UNCHANGED <<marker, exec, lingering, exists, faults, runs, concluded, reports, misses>>

\* The stalled check finds the lock of a dead execution gone ...
Stall ==
  /\ job.state = "active" /\ exec[job.owner].at = "dead"
  /\ job' = StalledJob
  /\ UNCHANGED <<marker, exec, lingering, exists, faults, runs, concluded, reports, misses>>

\* ... or that of one that was blocked and goes on.
LosesLock ==
  /\ job.state = "active" /\ exec[job.owner].at # "dead" /\ Fault
  /\ job' = StalledJob
  /\ UNCHANGED <<marker, exec, lingering, exists, runs, concluded, reports, misses>>

-----------------------------------------------------------------------------
(***************************************************************************)
(* The environment.                                                        *)
(***************************************************************************)
Live(e) == exec[e].at \notin {"free", "done", "dead"}

Dies(e) ==
  /\ Live(e) /\ Fault
  /\ Goto(e, "dead")
  /\ lingering' = lingering \ {e}
  /\ UNCHANGED <<job, marker, exists, runs, concluded, reports, misses>>

\* The run times out before the marker does, unless its process is suspended for
\* longer than the marker lives; the notification has its own retries and may take
\* longer, as may the writes after it.
MarkerExpires ==
  /\ marker # None /\ marker' = None
  /\ IF exec[marker].at \in {"gate", "run"} THEN Fault /\ outlived' = TRUE
     ELSE UNCHANGED <<faults, outlived>>
  /\ UNCHANGED <<job, exec, lingering, exists, runs, concluded, reports, kept, unowned, resent>>

DeleteRow ==
  /\ exists /\ exists' = FALSE
  /\ UNCHANGED <<job, marker, exec, lingering, faults, runs, concluded, reports, misses>>

Settled == job.state \in {"completed", "failed"}

-----------------------------------------------------------------------------
Work(e) == \/ Take(e) \/ Acquire(e) \/ Gate(e) \/ Run(e) \/ Notify(e) \/ Record(e)
           \/ Release(e) \/ Settle(e)

Next == \/ \E e \in Executions : Work(e) \/ Dies(e) \/ PipelineEnds(e)
        \/ Stall \/ LosesLock \/ MarkerExpires \/ DeleteRow

Spec == Init /\ [][Next]_vars

(***************************************************************************)
(* A waiting job is handed out, an execution that lives moves on, and the  *)
(* stalled check runs every thirty seconds.                                *)
(***************************************************************************)
Fairness == WF_vars(\E e \in Executions : Work(e)) /\ WF_vars(Stall)

FairSpec == Spec /\ Fairness
=============================================================================
