---------------------------- MODULE MemoryQueue ----------------------------
(***************************************************************************)
(* What becomes of a chat turn that is to be remembered: the request hands *)
(* it to a queue in Redis with a bounded depth, or writes it inline when   *)
(* Redis is not ready, or drops it; one worker writes the queued turns to  *)
(* the memory sidecar, one at a time.                                      *)
(*                                                                         *)
(* The sidecar refuses a write while a pipeline of the dataset runs, with  *)
(* an answer that looks like success; an answer can be lost after the      *)
(* write is stored; and Redis can execute an add whose acknowledgement is  *)
(* lost and that the client sends again.  Requests and worker are one      *)
(* process: when it dies, the turns it is handing over are lost.           *)
(***************************************************************************)
EXTENDS Naturals, FiniteSets

CONSTANTS
  Turns,        \* chat turns
  Writers,      \* bound: turns that are being handed over at once
  MaxDepth,     \* MEMORY_QUEUE_MAX_DEPTH
  MaxAttempts,  \* MEMORY_WRITE_ATTEMPTS
  MaxStalls,    \* maxStalledCount
  MaxFaults,    \* bound: crashes, lost answers and locks, doubled and failed commands
  None          \* no job

Jobs == Turns \X {1, 2}   \* the second of a turn is an add that was sent again

ASSUME QueueAssumption ==
  /\ IsFiniteSet(Turns)
  /\ Writers \in Nat \ {0} /\ MaxDepth \in Nat \ {0} /\ MaxAttempts \in Nat \ {0}
  /\ MaxStalls \in Nat /\ MaxFaults \in Nat
  /\ None \notin Jobs

VARIABLES
  up,       \* the connection to Redis is ready
  turn,     \* turn -> where the hand-over stands, or its verdict
  job,      \* job -> [state, made, stalls]
  worker,   \* what the live worker executes
  faults,   \* faults so far
  stored    \* history: turn -> how often the sidecar stored it

vars == <<up, turn, job, worker, faults, stored>>

HandingOver == {"status", "depth", "add", "inline"}
Verdicts    == {"queued", "inlined", "dropped", "lost"}

TypeOK ==
  /\ up \in BOOLEAN
  /\ turn \in [Turns -> {"idle"} \cup HandingOver \cup Verdicts]
  /\ job \in [Jobs -> [state : {"absent", "waiting", "delayed", "active", "completed", "failed", "off"},
                       made : 0 .. MaxAttempts, stalls : 0 .. MaxStalls + 1]]
  /\ worker \in [job : Jobs \cup {None}, at : {"idle", "write", "stored", "failed", "fatal", "skipped"}]
  /\ faults \in 0 .. MaxFaults
  /\ stored \in [Turns -> 0 .. 2 + MaxFaults]

Idle == [job |-> None, at |-> "idle"]

Init ==
  /\ up = TRUE
  /\ turn = [t \in Turns |-> "idle"]
  /\ job = [j \in Jobs |-> [state |-> "absent", made |-> 0, stalls |-> 0]]
  /\ worker = Idle
  /\ faults = 0
  /\ stored = [t \in Turns |-> 0]

Fault == faults < MaxFaults /\ faults' = faults + 1

Handing == {t \in Turns : turn[t] \in HandingOver}

Stores(t) == stored' = [stored EXCEPT ![t] = @ + 1]
TurnTo(t, to) == turn' = [turn EXCEPT ![t] = to]

-----------------------------------------------------------------------------
(***************************************************************************)
(* The request: enqueueMemoryWrite.                                        *)
(***************************************************************************)
\* The licence is locked or cannot be read: the turn is dropped.
Begin(t) ==
  /\ turn[t] = "idle"
  /\ Cardinality(Handing) < Writers
  /\ \E to \in {"status", "dropped"} : TurnTo(t, to)
  /\ UNCHANGED <<up, job, worker, faults, stored>>

\* The connection is looked at before the add, which would wait for it for ever.
Status(t) ==
  /\ turn[t] = "status"
  /\ TurnTo(t, IF up THEN "depth" ELSE "inline")
  /\ UNCHANGED <<up, job, worker, faults, stored>>

\* A slip: jobs that wait for their next attempt are not counted.
CountedWaiting == {"waiting", "active"}

\* wait, active, delayed (the backoff of a failed attempt).
Counted == {"waiting", "active", "delayed"}

Depth == Cardinality({j \in Jobs : job[j].state \in Counted})

\* A depth that cannot be read allows the write.
CheckDepth(t) ==
  /\ turn[t] = "depth"
  /\ \/ up /\ TurnTo(t, IF Depth >= MaxDepth THEN "dropped" ELSE "add") /\ UNCHANGED faults
     \/ TurnTo(t, "add") /\ Fault
  /\ UNCHANGED <<up, job, worker, stored>>

Enqueue(J) == job' = [j \in Jobs |-> IF j \in J THEN [job[j] EXCEPT !.state = "waiting"] ELSE job[j]]

\* A slip: a write that was queued is attempted inline as well.
AddedTo == "inline"

Added == "queued"

\* The add waits for the connection; it may be sent twice, or rejected.
Add(t) ==
  /\ turn[t] = "add" /\ up
  /\ \/ Enqueue({<<t, 1>>}) /\ TurnTo(t, Added) /\ UNCHANGED faults
     \/ Enqueue({<<t, 1>>, <<t, 2>>}) /\ TurnTo(t, Added) /\ Fault
     \/ TurnTo(t, "inline") /\ Fault /\ UNCHANGED job
  /\ UNCHANGED <<up, worker, stored>>

\* writeTurnInline tries once and only warns.
Inline(t) ==
  /\ turn[t] = "inline"
  /\ TurnTo(t, "inlined")
  /\ Stores(t) \/ UNCHANGED stored
  /\ UNCHANGED <<up, job, worker, faults>>

-----------------------------------------------------------------------------
(***************************************************************************)
(* The worker: performMemoryWrite.                                         *)
(***************************************************************************)
Take(j) ==
  /\ worker = Idle /\ up /\ job[j].state \in {"waiting", "delayed"}
  /\ job' = [job EXCEPT ![j].state = "active"]
  /\ worker' = [job |-> j, at |-> "write"]
  /\ UNCHANGED <<up, turn, faults, stored>>

\* A slip: a refused write, which answers 200 as well, passes for a stored one.
RefusedAsStored == "stored"

\* writeNotStored: the worker throws, so that the write is retried.
Refused == "failed"

\* Locked: unrecoverable.  No sidecar: the job returns.  A lost answer is a failure
\* of an attempt that stored the turn.
Write ==
  /\ worker.at = "write"
  /\ LET t == worker.job[1] IN
     \/ /\ \E at \in {"fatal", "skipped", Refused} : worker' = [worker EXCEPT !.at = at]
        /\ UNCHANGED <<faults, stored>>
     \/ worker' = [worker EXCEPT !.at = "stored"] /\ Stores(t) /\ UNCHANGED faults
     \/ worker' = [worker EXCEPT !.at = "failed"] /\ Stores(t) /\ Fault
  /\ UNCHANGED <<up, turn, job>>

\* A slip: attempts are compared before this one is counted.
FailedOnceMore(r) ==
  [r EXCEPT !.made = @ + 1, !.state = IF r.made < MaxAttempts THEN "delayed" ELSE "failed"]

Failed(r) ==
  [r EXCEPT !.made = @ + 1, !.state = IF r.made + 1 < MaxAttempts THEN "delayed" ELSE "failed"]

\* The queue hears the outcome once the connection is there.  (A job that returned
\* because there is no sidecar is completed too; it is kept apart as "off".)
Settle ==
  /\ worker.at \in {"stored", "skipped", "failed", "fatal"} /\ up
  /\ LET j == worker.job IN
     job' = [job EXCEPT ![j] = CASE worker.at = "stored"  -> [@ EXCEPT !.state = "completed"]
                                 [] worker.at = "skipped" -> [@ EXCEPT !.state = "off"]
                                 [] worker.at = "failed"  -> Failed(@)
                                 [] worker.at = "fatal"   -> [@ EXCEPT !.state = "failed"]]
  /\ worker' = Idle
  /\ UNCHANGED <<up, turn, faults, stored>>

\* The process dies and starts again: the turns that it is handing over, an add
\* parked for the connection among them, are forgotten; the queue is not.
Crash ==
  /\ worker # Idle \/ Handing # {}
  /\ Fault
  /\ worker' = Idle
  /\ turn' = [t \in Turns |-> IF t \in Handing THEN "lost" ELSE turn[t]]
  /\ UNCHANGED <<up, job, stored>>

Stalled(j) ==
  job' = [job EXCEPT ![j].stalls = @ + 1,
                     ![j].state = IF job[j].stalls >= MaxStalls THEN "failed" ELSE "waiting"]

\* The lock of an abandoned job is found expired.
Stall(j) ==
  /\ up /\ job[j].state = "active" /\ worker.job # j
  /\ Stalled(j)
  /\ UNCHANGED <<up, turn, worker, faults, stored>>

\* An outage outlasts the lock: the job is found stalled while its write goes on,
\* stores the turn or not, and is not heard (the one worker is busy until it ends).
LosesLock ==
  /\ up /\ worker # Idle /\ Fault
  /\ Stalled(worker.job)
  /\ worker' = Idle
  /\ UNCHANGED stored \/ (worker.at = "write" /\ Stores(worker.job[1]))
  /\ UNCHANGED <<up, turn>>

-----------------------------------------------------------------------------
GoesDown == up /\ Fault /\ up' = FALSE /\ UNCHANGED <<turn, job, worker, stored>>
ComesUp  == ~up /\ up' = TRUE /\ UNCHANGED <<turn, job, worker, faults, stored>>

HandOver(t) == Begin(t) \/ Status(t) \/ CheckDepth(t) \/ Add(t) \/ Inline(t)

Work == Write \/ Settle \/ \E j \in Jobs : Take(j) \/ Stall(j)

Next == ComesUp \/ GoesDown \/ Crash \/ LosesLock \/ Work \/ \E t \in Turns : HandOver(t)

Spec == Init /\ [][Next]_vars

(***************************************************************************)
(* Requests go on, the connection comes back, the worker drains the queue  *)
(* and the stalled check runs every minute.                                *)
(***************************************************************************)
Fairness ==
  /\ \A t \in Turns : WF_vars(HandOver(t))
  /\ WF_vars(ComesUp)
  /\ WF_vars(Write \/ Settle \/ \E j \in Jobs : Take(j))
  /\ \A j \in Jobs : WF_vars(Stall(j))

FairSpec == Spec /\ Fairness
=============================================================================
