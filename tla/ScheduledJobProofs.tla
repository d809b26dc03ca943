------------------------- MODULE ScheduledJobProofs -------------------------
(***************************************************************************)
(* For every number of executions, attempts and faults: a tick runs once   *)
(* at a time, a bounded number of times, reports what happened, and moves  *)
(* towards its end with every move of its job.                             *)
(***************************************************************************)
EXTENDS ScheduledJobProps, FiniteSets, FiniteSetTheorems, TLAPS

\* The chat pipeline is about to run or runs; the marker is not given back yet.
Inside  == {"gate", "run"}
Holding == Inside \cup {"notify", "record", "release"}

(***************************************************************************)
(* The queue hands out an open job once, and to one execution.             *)
(***************************************************************************)
JobInv ==
  /\ job.owner # None <=> job.state = "active"
  /\ job.state \in {"waiting", "active"} => job.made < MaxAttempts /\ job.stalls <= MaxStalls
  /\ job.state = "active" => exec[job.owner].at \notin {"free", "done"}
  /\ job.stalls = 0 => \A e \in Executions : Live(e) => e = job.owner

(***************************************************************************)
(* Why OneRunAtATime holds.  After the first stall an execution that goes  *)
(* on still has its marker and is alone; a second stall ends the job.      *)
(***************************************************************************)
AloneInv ==
  ~unowned /\ ~outlived =>
    /\ \A e, f \in Executions : exec[e].at \in Inside /\ exec[f].at \in Inside => e = f
    /\ job.stalls = 0 => \A e \in Executions : exec[e].at \in Inside => marker = e
    /\ job.stalls = 1 => \A e \in Executions :
         exec[e].at \in Inside /\ e # job.owner =>
           /\ marker = e
           /\ \A f \in Executions : exec[f].at \in Holding => f = e

\* A pipeline goes on beside the rest of its execution, after its stage.
LingerInv ==
  \A e \in lingering : exec[e].at \in {"notify", "record", "release", "settle", "done"}

(***************************************************************************)
(* Why CompletedIsConcluded holds.  Before the first stall a marker that   *)
(* is there is the owner's, so no execution mistakes itself for a          *)
(* duplicate.                                                              *)
(***************************************************************************)
OutcomeInv ==
  \A e \in Executions :
    /\ exec[e].outcome \in {"gone", "locked", "success", "permanent"} => concluded
    /\ exec[e].at \in {"notify", "record", "release", "settle"} => exec[e].outcome # "none"
    /\ exec[e].at \in {"free", "acquire", "gate", "run"} => exec[e].outcome = "none"

OwnMarker ==
  job.stalls = 0 /\ ~kept /\ ~resent =>
    /\ marker # None => marker = job.owner /\ exec[marker].at \in Holding \cup {"dead"}
    /\ \A e \in Executions : exec[e].outcome # "duplicate"

ConcludedInv == OutcomeInv /\ OwnMarker /\ CompletedIsConcluded

(***************************************************************************)
(* Why NoFalseAlarm holds.  Before the first stall a report is the         *)
(* owner's, and the job does not outlive it.                               *)
(***************************************************************************)
Reported == exec[job.owner].at \in {"record", "release", "settle", "dead"}

ReportInv ==
  /\ job.state = "active" /\ exec[job.owner].last => job.made + 1 >= MaxAttempts
  /\ job.stalls = 0 => ~(alerted /\ succeeded)
  /\ job.stalls = 0 /\ job.state = "waiting" => ~alerted /\ ~succeeded
  /\ job.stalls = 0 /\ job.state = "active" =>
       /\ alerted   => Reported /\ exec[job.owner].last /\ exec[job.owner].outcome # "success"
       /\ succeeded => Reported /\ exec[job.owner].outcome = "success"

(***************************************************************************)
(* Why RunBound holds.  Each execution that was begun spent an attempt or  *)
(* a stall, or is the current one, and starts the pipeline at most once.   *)
(***************************************************************************)
Begun  == {e \in Executions : exec[e].at # "free"}
Before == {e \in Executions : exec[e].at \in {"acquire", "gate"}}

Spent == job.made + job.stalls + (IF job.state \in {"active", "completed"} THEN 1 ELSE 0)

CountInv ==
  /\ job.made + job.stalls + (IF job.state = "completed" THEN 1 ELSE 0)
       <= MaxAttempts + MaxStalls
  /\ IsFiniteSet(Begun)
  /\ Cardinality(Begun) = Spent
  /\ runs + Cardinality(Before) <= Cardinality(Begun)

IndInv == TypeOK /\ JobInv /\ AloneInv /\ LingerInv /\ ConcludedInv /\ ReportInv /\ CountInv

-----------------------------------------------------------------------------
ExecType == [Executions -> [at : Stages, outcome : Outcomes, last : BOOLEAN]]

\* Faults are counted up to their bound.
LEMMA FaultType == TypeOK /\ Fault => faults' \in 0 .. MaxFaults
BY JobAssumption DEF TypeOK, Fault

\* What the queue makes of a failed attempt.
LEMMA FailedType ==
  ASSUME TypeOK, JobInv, job.state = "active"
  PROVE  /\ FailedAttempt \in [state : {"waiting", "failed"}, made : 0 .. MaxAttempts,
                               stalls : 0 .. MaxStalls + 1, owner : {None}]
         /\ FailedAttempt.made = job.made + 1 /\ FailedAttempt.stalls = job.stalls
         /\ FailedAttempt.state = "waiting" => job.made + 1 < MaxAttempts
<1> DEFINE state == IF job.made + 1 < MaxAttempts THEN "waiting" ELSE "failed"
<1>1. state \in {"waiting", "failed"} /\ (state = "waiting" => job.made + 1 < MaxAttempts)
  OBVIOUS
<1>2. job.made + 1 \in 0 .. MaxAttempts
  BY JobAssumption DEF TypeOK, JobInv
<1>3. FailedAttempt = [job EXCEPT !.made = @ + 1, !.owner = None, !.state = state]
  BY DEF FailedAttempt
<1> HIDE DEF state
<1> QED
  BY <1>1, <1>2, <1>3 DEF TypeOK

\* What the queue makes of a stall.
LEMMA StalledType ==
  ASSUME TypeOK, JobInv, job.state = "active"
  PROVE  /\ StalledJob \in [state : {"waiting", "failed"}, made : 0 .. MaxAttempts,
                            stalls : 0 .. MaxStalls + 1, owner : {None}]
         /\ StalledJob.made = job.made /\ StalledJob.stalls = job.stalls + 1
         /\ StalledJob.state = "waiting" => job.stalls = 0
<1> DEFINE state == IF job.stalls >= MaxStalls THEN "failed" ELSE "waiting"
<1>1. state \in {"waiting", "failed"} /\ (state = "waiting" => job.stalls = 0)
  BY DEF MaxStalls, TypeOK
<1>2. job.stalls + 1 \in 0 .. MaxStalls + 1
  BY DEF TypeOK, JobInv, MaxStalls
<1>3. StalledJob = [job EXCEPT !.stalls = @ + 1, !.owner = None, !.state = state]
  BY DEF StalledJob
<1> HIDE DEF state
<1> QED
  BY <1>1, <1>2, <1>3 DEF TypeOK

\* An execution that settles is the owner of an active job, or changes nothing.
LEMMA SettleJob ==
  ASSUME TypeOK, JobInv, NEW e \in Executions, Settle(e)
  PROVE  \/ job' = job /\ job.owner # e
         \/ /\ job.owner = e /\ job.state = "active" /\ exec[e].outcome = "transient"
            /\ job' = FailedAttempt
         \/ /\ job.owner = e /\ job.state = "active" /\ exec[e].outcome # "transient"
            /\ job' = [job EXCEPT !.state = "completed", !.owner = None]
BY JobAssumption DEF TypeOK, JobInv, Settle

\* The state stays well typed.
LEMMA TypeStep == TypeOK /\ JobInv /\ [Next]_vars => TypeOK'
<1> SUFFICES ASSUME TypeOK, JobInv, [Next]_vars PROVE TypeOK'
  OBVIOUS
<1> USE JobAssumption
<1>1. ASSUME NEW e \in Executions, Take(e) PROVE TypeOK'
  <2>1. exec' = [exec EXCEPT ![e].at = "acquire", ![e].last = LastAttempt]
    BY <1>1 DEF Take
  <2>2. LastAttempt \in BOOLEAN
    BY DEF LastAttempt
  <2>3. exec' \in ExecType
    <3>1. "acquire" \in Stages
      BY DEF Stages
    <3> QED
      BY <2>1, <2>2, <3>1 DEF TypeOK, ExecType
  <2>4. job' \in [state : {"active"}, made : 0 .. MaxAttempts,
                  stalls : 0 .. MaxStalls + 1, owner : Executions]
    BY <1>1 DEF TypeOK, Take
  <2> QED
    BY <1>1, <2>3, <2>4 DEF TypeOK, ExecType, Take, reports, misses
<1>2. ASSUME NEW e \in Executions, Acquire(e) PROVE TypeOK'
  <2>1. exec' \in ExecType
    BY <1>2 DEF TypeOK, Acquire, Goto, Ends, Stages, Outcomes, ExecType
  <2> QED
    <3>1. faults' \in 0 .. MaxFaults
      BY <1>2, FaultType DEF Acquire, TypeOK
    <3>2. marker' \in Executions \cup {None}
      BY <1>2 DEF Acquire, TypeOK
    <3>3. unowned' \in BOOLEAN /\ resent' \in BOOLEAN
      BY <1>2 DEF Acquire, TypeOK
    <3> QED
      BY <1>2, <2>1, <3>1, <3>2, <3>3 DEF TypeOK, Acquire, ExecType, reports
<1>3. ASSUME NEW e \in Executions, Gate(e) PROVE TypeOK'
  <2>1. exec' \in ExecType
    BY <1>3 DEF TypeOK, Gate, Goto, Ends, Stages, Outcomes, ExecType
  <2> QED
    <3>1. faults' \in 0 .. MaxFaults
      BY <1>3, FaultType DEF Gate, TypeOK
    <3>2. runs' \in Nat
      BY <1>3 DEF Gate, TypeOK
    <3>3. concluded' \in BOOLEAN
      BY <1>3 DEF Gate, TypeOK
    <3> QED
      BY <1>3, <2>1, <3>1, <3>2, <3>3 DEF TypeOK, Gate, ExecType, reports, misses
<1>4. ASSUME NEW e \in Executions, Run(e) PROVE TypeOK'
  <2>1. exec' \in ExecType
    <3>1. PICK how \in {"success", "transient", "permanent"} : Ends(e, "notify", how)
      BY <1>4 DEF Run
    <3>2. how \in Outcomes /\ "notify" \in Stages
      BY DEF Outcomes, Stages
    <3>3. exec[e] \in [at : Stages, outcome : Outcomes, last : BOOLEAN]
      BY DEF TypeOK
    <3>4. [exec[e] EXCEPT !.at = "notify", !.outcome = how]
            \in [at : Stages, outcome : Outcomes, last : BOOLEAN]
      BY <3>2, <3>3
    <3>5. exec' = [exec EXCEPT ![e] = [exec[e] EXCEPT !.at = "notify", !.outcome = how]]
      BY <3>1 DEF Ends, TypeOK
    <3> QED
      BY <3>4, <3>5 DEF TypeOK, ExecType
  <2>2. lingering' \in SUBSET Executions /\ concluded' \in BOOLEAN
    BY <1>4 DEF TypeOK, Run
  <2> QED
    BY <1>4, <2>1, <2>2 DEF TypeOK, Run, ExecType, reports, misses
<1>5. ASSUME NEW e \in Executions, Notify(e) PROVE TypeOK'
  BY <1>5 DEF TypeOK, Notify, Stages, Goto, reports, misses
<1>6. ASSUME NEW e \in Executions, Record(e) PROVE TypeOK'
  BY <1>6 DEF TypeOK, Record, Stages, Goto, reports, misses
<1>7. ASSUME NEW e \in Executions, Release(e) PROVE TypeOK'
  <2>1. exec' \in ExecType
    BY <1>7 DEF TypeOK, Release, Goto, Ends, Stages, Outcomes, ExecType
  <2>2. faults' \in 0 .. MaxFaults /\ marker' \in Executions \cup {None} /\ kept' \in BOOLEAN
    BY <1>7, FaultType DEF Release, TypeOK
  <2> QED
    BY <1>7, <2>1, <2>2 DEF TypeOK, Release, ExecType, reports
<1>8. ASSUME NEW e \in Executions, Settle(e) PROVE TypeOK'
  <2>1. exec' \in ExecType
    BY <1>8 DEF Settle, Goto, TypeOK, Stages, ExecType
  <2>2. job' \in [state : {"waiting", "active", "completed", "failed"}, made : 0 .. MaxAttempts,
                  stalls : 0 .. MaxStalls + 1, owner : Executions \cup {None}]
    BY <1>8, SettleJob, FailedType DEF TypeOK
  <2> QED
    BY <1>8, <2>1, <2>2 DEF Settle, TypeOK, ExecType, reports, misses
<1>9. ASSUME Stall \/ LosesLock PROVE TypeOK'
  BY <1>9, StalledType, FaultType DEF TypeOK, Stall, LosesLock, reports, misses
<1>10. ASSUME NEW e \in Executions, Dies(e) PROVE TypeOK'
  BY <1>10 DEF TypeOK, Dies, Stages, Goto, Fault, reports, misses
<1>11. ASSUME MarkerExpires PROVE TypeOK'
  <2>1. marker' = None /\ faults' \in 0 .. MaxFaults /\ outlived' \in BOOLEAN
    BY <1>11, FaultType DEF TypeOK, MarkerExpires
  <2> QED
    BY <1>11, <2>1 DEF TypeOK, MarkerExpires, reports
<1>12. ASSUME NEW e \in Executions, PipelineEnds(e) \/ DeleteRow PROVE TypeOK'
  BY <1>12 DEF TypeOK, PipelineEnds, DeleteRow, reports, misses
<1>13. ASSUME UNCHANGED vars PROVE TypeOK'
  BY <1>13 DEF TypeOK, vars
<1>14. ASSUME DeleteRow PROVE TypeOK'
  BY <1>14 DEF TypeOK, DeleteRow, reports, misses
<1> QED
  BY <1>1, <1>2, <1>3, <1>4, <1>5, <1>6, <1>7, <1>8, <1>9, <1>10, <1>11, <1>12, <1>13, <1>14
     DEF Next, Work

\* The queue keeps its word.
LEMMA JobStep == TypeOK /\ JobInv /\ [Next]_vars => JobInv'
<1> SUFFICES ASSUME TypeOK, JobInv, [Next]_vars PROVE JobInv'
  OBVIOUS
<1> USE JobAssumption
<1>1. ASSUME NEW e \in Executions, Take(e) PROVE JobInv'
  BY <1>1 DEF TypeOK, JobInv, Take, Live
<1>2. ASSUME NEW e \in Executions, Acquire(e) PROVE JobInv'
  BY <1>2 DEF TypeOK, JobInv, Acquire, Goto, Ends, Live
<1>3. ASSUME NEW e \in Executions, Gate(e) PROVE JobInv'
  BY <1>3 DEF TypeOK, JobInv, Gate, Goto, Ends, Live
<1>4. ASSUME NEW e \in Executions, Run(e) PROVE JobInv'
  BY <1>4 DEF TypeOK, JobInv, Run, Ends, Live
<1>5. ASSUME NEW e \in Executions, Notify(e) \/ Record(e) \/ Release(e) PROVE JobInv'
  BY <1>5 DEF TypeOK, JobInv, Notify, Record, Release, Goto, Live
<1>6. ASSUME NEW e \in Executions, Settle(e) PROVE JobInv'
  <2>1. \A f \in Executions : exec'[f].at = IF f = e THEN "done" ELSE exec[f].at
    BY <1>6 DEF Settle, Goto, TypeOK
  <2>2. exec[e].at = "settle" /\ (Live(e) <=> TRUE)
    BY <1>6 DEF Settle, Live
  <2>3. CASE job' = job /\ job.owner # e
    BY <2>1, <2>2, <2>3 DEF JobInv, Live, TypeOK
  <2>4. CASE job.owner = e /\ job.state = "active" /\ job' = FailedAttempt
    BY <2>1, <2>2, <2>4, FailedType DEF JobInv, Live, TypeOK
  <2>5. CASE job.owner = e /\ job.state = "active"
             /\ job' = [job EXCEPT !.state = "completed", !.owner = None]
    BY <2>1, <2>2, <2>5 DEF JobInv, Live, TypeOK
  <2> QED
    BY <1>6, <2>3, <2>4, <2>5, SettleJob
<1>7. ASSUME Stall \/ LosesLock PROVE JobInv'
  BY <1>7, StalledType DEF TypeOK, JobInv, Stall, LosesLock, Live, MaxStalls
<1>8. ASSUME NEW e \in Executions, Dies(e) PROVE JobInv'
  BY <1>8 DEF TypeOK, JobInv, Dies, Goto, Live
<1>9. ASSUME \/ \E e \in Executions : PipelineEnds(e)
             \/ MarkerExpires \/ DeleteRow \/ UNCHANGED vars
      PROVE  JobInv'
  BY <1>9 DEF JobInv, PipelineEnds, MarkerExpires, DeleteRow, vars, Live
<1> QED
  BY <1>1, <1>2, <1>3, <1>4, <1>5, <1>6, <1>7, <1>8, <1>9 DEF Next, Work

\* A step of an execution leaves the others where they are.
LEMMA Moved ==
  ASSUME TypeOK, NEW e \in Executions, NEW stage, NEW how, NEW f \in Executions
  PROVE  /\ Goto(e, stage) =>
              /\ exec'[f].at = (IF f = e THEN stage ELSE exec[f].at)
              /\ exec'[f].outcome = exec[f].outcome /\ exec'[f].last = exec[f].last
         /\ Ends(e, stage, how) =>
              /\ exec'[f].at = (IF f = e THEN stage ELSE exec[f].at)
              /\ exec'[f].outcome = (IF f = e THEN how ELSE exec[f].outcome)
              /\ exec'[f].last = exec[f].last
BY DEF TypeOK, Goto, Ends

\* Taking the job leaves the other executions where they are.
LEMMA Taken ==
  ASSUME TypeOK, NEW e \in Executions, Take(e), NEW f \in Executions
  PROVE  /\ exec'[f].at = (IF f = e THEN "acquire" ELSE exec[f].at)
         /\ exec'[f].outcome = exec[f].outcome
         /\ exec'[f].last = (IF f = e THEN LastAttempt ELSE exec[f].last)
         /\ exec[e].at = "free" /\ job.state = "waiting"
         /\ job'.state = "active" /\ job'.owner = e
         /\ job'.made = job.made /\ job'.stalls = job.stalls
BY DEF TypeOK, Take

-----------------------------------------------------------------------------
\* An execution that keeps or leaves its place inside, and leaves the marker
\* and the job alone, cannot be joined by another.
LEMMA AloneFrame ==
  ASSUME TypeOK, AloneInv, job' = job, marker' = marker,
         unowned' = unowned, outlived' = outlived,
         \A f \in Executions :
           /\ exec'[f].at \in Inside => exec[f].at \in Inside
           /\ exec'[f].at \in Holding => exec[f].at \in Holding
  PROVE  AloneInv'
BY DEF AloneInv

\* A tick is run by one execution at a time.
LEMMA AloneStep == TypeOK /\ JobInv /\ AloneInv /\ [Next]_vars => AloneInv'
<1> SUFFICES ASSUME TypeOK, JobInv, AloneInv, [Next]_vars PROVE AloneInv'
  OBVIOUS
<1>1. ASSUME NEW e \in Executions, Take(e) PROVE AloneInv'
  <2>1. marker' = marker /\ unowned' = unowned /\ outlived' = outlived
    BY <1>1 DEF Take, misses
  <2>2. job.owner = None
    BY <1>1, Taken DEF JobInv
  <2>3. \A f \in Executions :
          /\ exec'[f].at \in Inside  => exec[f].at \in Inside
          /\ exec'[f].at \in Holding => exec[f].at \in Holding
    BY <1>1, Taken DEF Inside, Holding
  <2> QED
    BY <1>1, <2>1, <2>2, <2>3, Taken, JobAssumption DEF AloneInv
<1>2. ASSUME NEW e \in Executions, Acquire(e) PROVE AloneInv'
  <2>1. CASE marker = None /\ marker' = e /\ Goto(e, "gate")
             /\ unowned' = (unowned \/ job.owner # e) /\ job' = job /\ outlived' = outlived
    <3> SUFFICES ASSUME ~unowned', ~outlived' PROVE AloneInv'
      BY DEF AloneInv
    <3>1. ~unowned /\ ~outlived /\ job.owner = e
      BY <2>1
    <3>2. job.state = "active" /\ job.stalls \in {0, 1}
      BY <3>1, JobAssumption DEF JobInv, MaxStalls, TypeOK
    <3>3. \A f \in Executions : exec[f].at \notin Inside
      <4>1. exec[e].at \notin Inside
        BY <1>2 DEF Acquire, Inside
      <4> QED
        BY <2>1, <3>1, <3>2, <4>1, JobAssumption DEF AloneInv
    <3>4. \A f \in Executions : exec'[f].at \in Inside => f = e
      BY <2>1, <3>3, Moved
    <3> QED
      BY <2>1, <3>1, <3>4 DEF AloneInv
  <2>2. CASE marker' = marker /\ unowned' = unowned /\ outlived' = outlived /\ job' = job
             /\ \E how \in Outcomes : Ends(e, "settle", how)
    <3>1. \A f \in Executions :
            /\ exec'[f].at \in Inside  => exec[f].at \in Inside
            /\ exec'[f].at \in Holding => exec[f].at \in Holding
      BY <2>2, Moved DEF Inside, Holding
    <3> QED
      BY <2>2, <3>1, AloneFrame
  <2>3. CASE marker = None /\ marker' = e /\ Ends(e, "settle", "duplicate") /\ job' = job
             /\ unowned' = unowned /\ outlived' = outlived
    <3>1. \A f \in Executions :
            /\ exec'[f].at \in Inside  => exec[f].at \in Inside
            /\ exec'[f].at \in Holding => exec[f].at \in Holding
      BY <2>3, Moved DEF Inside, Holding
    <3> QED
      BY <2>3, <3>1, JobAssumption DEF AloneInv
  <2> QED
    BY <1>2, <2>1, <2>2, <2>3 DEF Acquire, Outcomes
<1>3. ASSUME NEW e \in Executions,
             Gate(e) \/ Run(e) \/ Notify(e) \/ Record(e) \/ Dies(e)
      PROVE  AloneInv'
  <2>1. job' = job /\ marker' = marker /\ unowned' = unowned /\ outlived' = outlived
    BY <1>3 DEF Gate, Run, Notify, Record, Dies, misses
  <2>2. PICK stage \in Stages :
          /\ Goto(e, stage) \/ \E how \in Outcomes : Ends(e, stage, how)
          /\ stage \in Inside => exec[e].at \in Inside
          /\ stage \in Holding => exec[e].at \in Holding
    BY <1>3 DEF Gate, Run, Notify, Record, Dies, Inside, Holding, Outcomes, Stages
  <2>3. \A f \in Executions :
          /\ exec'[f].at \in Inside  => exec[f].at \in Inside
          /\ exec'[f].at \in Holding => exec[f].at \in Holding
    BY <2>2, Moved
  <2> QED
    BY <2>1, <2>3, AloneFrame
<1>4. ASSUME NEW e \in Executions, Release(e) PROVE AloneInv'
  <2>1. job' = job /\ unowned' = unowned /\ outlived' = outlived /\ exec[e].at = "release" /\ Goto(e, "settle")
    BY <1>4 DEF Release
  <2>2. \A f \in Executions :
          /\ exec'[f].at \in Inside  => exec[f].at \in Inside /\ f # e
          /\ exec'[f].at \in Holding => exec[f].at \in Holding
    BY <2>1, Moved DEF Inside, Holding
  <2>3. exec[e].at \in Holding /\ Live(e)
    BY <2>1 DEF Holding, Live
  <2>4. \A f \in Executions : exec[f].at \in Inside => Live(f)
    BY DEF Inside, Live
  <2>5. ASSUME NEW f \in Executions, exec'[f].at \in Inside, ~unowned, ~outlived, job.stalls = 0
        PROVE  FALSE
    BY <2>2, <2>3, <2>4, <2>5 DEF JobInv
  <2>6. ASSUME NEW f \in Executions, exec'[f].at \in Inside, ~unowned, ~outlived, job.stalls = 1
        PROVE  f = job.owner
    BY <2>2, <2>3, <2>6 DEF AloneInv
  <2> QED
    BY <2>1, <2>2, <2>5, <2>6 DEF AloneInv
<1>5. ASSUME NEW e \in Executions, Settle(e) PROVE AloneInv'
  <2>1. marker' = marker /\ unowned' = unowned /\ outlived' = outlived /\ exec[e].at = "settle" /\ Goto(e, "done")
    BY <1>5 DEF Settle, misses
  <2>2. \A f \in Executions :
          /\ exec'[f].at \in Inside  => exec[f].at \in Inside /\ f # e
          /\ exec'[f].at \in Holding => exec[f].at \in Holding
    BY <2>1, Moved DEF Inside, Holding
  <2>3. CASE job' = job
    BY <2>1, <2>2, <2>3, AloneFrame
  <2>4. CASE job.owner = e /\ job'.stalls = job.stalls
    BY <2>1, <2>2, <2>4 DEF AloneInv
  <2>5. job' # job => job.owner = e /\ job'.stalls = job.stalls
    <3>1. CASE job' = FailedAttempt /\ job.owner = e /\ job.state = "active"
      BY <3>1, FailedType
    <3>2. CASE job' = [job EXCEPT !.state = "completed", !.owner = None] /\ job.owner = e
      BY <3>2 DEF TypeOK
    <3> QED
      BY <1>5, <3>1, <3>2, SettleJob
  <2> QED
    BY <2>3, <2>4, <2>5
<1>6. ASSUME Stall \/ LosesLock PROVE AloneInv'
  <2>1. /\ job.state = "active" /\ job' = StalledJob
        /\ marker' = marker /\ unowned' = unowned /\ outlived' = outlived /\ exec' = exec
    BY <1>6 DEF Stall, LosesLock, misses
  <2>2. job'.stalls = job.stalls + 1 /\ job'.owner = None /\ job.stalls \in {0, 1}
    BY <2>1, StalledType DEF TypeOK, JobInv, MaxStalls
  <2>3. \A f \in Executions : exec[f].at \in Holding => Live(f)
    BY DEF Inside, Holding, Live
  <2>4. ASSUME NEW e \in Executions, exec[e].at \in Inside, job.stalls = 0, ~unowned, ~outlived
        PROVE  marker = e /\ \A f \in Executions : exec[f].at \in Holding => f = e
    BY <2>3, <2>4 DEF JobInv, AloneInv, Holding
  <2> QED
    BY <2>1, <2>2, <2>4 DEF AloneInv
<1>7. ASSUME MarkerExpires PROVE AloneInv'
  <2> SUFFICES ASSUME ~outlived' PROVE AloneInv'
    BY DEF AloneInv
  <2>1. job' = job /\ unowned' = unowned /\ exec' = exec /\ marker # None
    BY <1>7 DEF MarkerExpires
  <2>2. ~outlived /\ exec[marker].at \notin Inside
    BY <1>7 DEF MarkerExpires, Inside
  <2> QED
    BY <2>1, <2>2 DEF AloneInv
<1>8. ASSUME (\E e \in Executions : PipelineEnds(e)) \/ DeleteRow \/ UNCHANGED vars
      PROVE  AloneInv'
  BY <1>8 DEF AloneInv, PipelineEnds, DeleteRow, vars, misses
<1>9. ASSUME NEW e \in Executions, Work(e) \/ Dies(e) PROVE AloneInv'
  BY <1>1, <1>2, <1>3, <1>4, <1>5, <1>9 DEF Work
<1> QED
  BY <1>6, <1>7, <1>8, <1>9 DEF Next

\* Only an attempt that timed out leaves a pipeline behind.
LEMMA LingerStep == TypeOK /\ LingerInv /\ [Next]_vars => LingerInv'
<1> SUFFICES ASSUME TypeOK, LingerInv, [Next]_vars PROVE LingerInv'
  OBVIOUS
<1>1. ASSUME NEW e \in Executions, Take(e) PROVE LingerInv'
  <2>1. lingering' = lingering /\ exec[e].at = "free"
    BY <1>1 DEF Take
  <2> QED
    BY <1>1, <2>1, Taken DEF LingerInv, TypeOK
<1>2. ASSUME NEW e \in Executions, Acquire(e) \/ Gate(e) PROVE LingerInv'
  <2>1. lingering' = lingering /\ exec[e].at \in {"acquire", "gate"}
    BY <1>2 DEF Acquire, Gate
  <2>2. \E stage \in Stages, how \in Outcomes : Goto(e, stage) \/ Ends(e, stage, how)
    BY <1>2 DEF Acquire, Gate, Stages, Outcomes
  <2> QED
    BY <2>1, <2>2, Moved DEF LingerInv, TypeOK
<1>3. ASSUME NEW e \in Executions, Run(e) PROVE LingerInv'
  <2>1. lingering' \subseteq lingering \cup {e}
    BY <1>3 DEF Run
  <2>2. PICK how \in {"success", "transient", "permanent"} : Ends(e, "notify", how)
    BY <1>3 DEF Run
  <2>3. \A f \in Executions : exec'[f].at = IF f = e THEN "notify" ELSE exec[f].at
    BY <2>2, Moved
  <2>4. lingering \subseteq Executions
    BY DEF TypeOK
  <2> QED
    BY <2>1, <2>3, <2>4 DEF LingerInv
<1>4. ASSUME NEW e \in Executions, Notify(e) \/ Record(e) \/ Release(e) \/ Settle(e)
      PROVE  LingerInv'
  <2>1. lingering' = lingering
    BY <1>4 DEF Notify, Record, Release, Settle
  <2>2. PICK stage \in {"record", "release", "settle", "done"} : Goto(e, stage)
    BY <1>4 DEF Notify, Record, Release, Settle
  <2>3. \A f \in Executions : exec'[f].at = IF f = e THEN stage ELSE exec[f].at
    BY <2>2, Moved
  <2>4. lingering \subseteq Executions
    BY DEF TypeOK
  <2> QED
    BY <2>1, <2>2, <2>3, <2>4 DEF LingerInv
<1>5. ASSUME NEW e \in Executions, Dies(e) PROVE LingerInv'
  <2>1. lingering' = lingering \ {e} /\ Goto(e, "dead")
    BY <1>5 DEF Dies
  <2> QED
    BY <2>1, Moved DEF LingerInv, TypeOK
<1>6. ASSUME \/ \E e \in Executions : PipelineEnds(e)
             \/ Stall \/ LosesLock \/ MarkerExpires \/ DeleteRow \/ UNCHANGED vars
      PROVE  LingerInv'
  BY <1>6 DEF LingerInv, PipelineEnds, Stall, LosesLock, MarkerExpires, DeleteRow, vars
<1> QED
  BY <1>1, <1>2, <1>3, <1>4, <1>5, <1>6 DEF Next, Work

-----------------------------------------------------------------------------
\* An execution has an outcome once it has one, and a conclusion is remembered.
LEMMA OutcomeStep == TypeOK /\ OutcomeInv /\ [Next]_vars => OutcomeInv'
<1> SUFFICES ASSUME TypeOK, OutcomeInv, [Next]_vars PROVE OutcomeInv'
  OBVIOUS
<1>1. ASSUME NEW e \in Executions, Take(e) PROVE OutcomeInv'
  <2>1. concluded' = concluded
    BY <1>1 DEF Take
  <2> QED
    BY <1>1, <2>1, Taken DEF OutcomeInv
<1>2. ASSUME NEW e \in Executions, Acquire(e) PROVE OutcomeInv'
  <2>1. concluded' = concluded /\ exec[e].at = "acquire"
    BY <1>2 DEF Acquire
  <2>2. Goto(e, "gate") \/ Ends(e, "settle", "duplicate") \/ Ends(e, "settle", "transient")
    BY <1>2 DEF Acquire
  <2> QED
    BY <2>1, <2>2, Moved DEF OutcomeInv
<1>3. ASSUME NEW e \in Executions, Gate(e) PROVE OutcomeInv'
  <2>1. exec[e].at = "gate" /\ (concluded => concluded')
    BY <1>3 DEF Gate
  <2>2. \/ Ends(e, "release", "gone") /\ concluded'
        \/ Ends(e, "release", "locked") /\ concluded'
        \/ Goto(e, "run")
        \/ Ends(e, "release", "transient")
    BY <1>3 DEF Gate
  <2> QED
    BY <2>1, <2>2, Moved DEF OutcomeInv
<1>4. ASSUME NEW e \in Executions, Run(e) PROVE OutcomeInv'
  <2>1. PICK how \in {"success", "transient", "permanent"} :
          Ends(e, "notify", how) /\ concluded' = (concluded \/ how # "transient")
    BY <1>4 DEF Run
  <2>2. (concluded => concluded') /\ (how # "transient" => concluded')
    BY <2>1
  <2>3. Ends(e, "notify", how)
    BY <2>1
  <2> QED
    BY <2>2, <2>3, Moved DEF OutcomeInv
<1>5. ASSUME NEW e \in Executions,
             Notify(e) \/ Record(e) \/ Release(e) \/ Settle(e) \/ Dies(e)
      PROVE  OutcomeInv'
  <2>1. concluded' = concluded
    BY <1>5 DEF Notify, Record, Release, Settle, Dies
  <2>2. \/ exec[e].at \in {"notify", "record", "release"}
           /\ (Goto(e, "record") \/ Goto(e, "release") \/ Goto(e, "settle"))
        \/ Goto(e, "done") \/ Goto(e, "dead")
    BY <1>5 DEF Notify, Record, Release, Settle, Dies
  <2> QED
    BY <2>1, <2>2, Moved DEF OutcomeInv
<1>6. ASSUME \/ \E e \in Executions : PipelineEnds(e)
             \/ Stall \/ LosesLock \/ MarkerExpires \/ DeleteRow \/ UNCHANGED vars
      PROVE  OutcomeInv'
  BY <1>6 DEF OutcomeInv, PipelineEnds, Stall, LosesLock, MarkerExpires, DeleteRow, vars
<1>7. ASSUME NEW e \in Executions, Work(e) \/ Dies(e) PROVE OutcomeInv'
  BY <1>1, <1>2, <1>3, <1>4, <1>5, <1>7 DEF Work
<1> QED
  BY <1>6, <1>7 DEF Next

\* Before the first stall the marker is the owner's.
LEMMA MarkerStep == TypeOK /\ JobInv /\ OutcomeInv /\ OwnMarker /\ [Next]_vars => OwnMarker'
<1> SUFFICES ASSUME TypeOK, JobInv, OutcomeInv, OwnMarker, [Next]_vars,
                    job'.stalls = 0, ~kept', ~resent'
             PROVE  OwnMarker'
  BY DEF OwnMarker
<1>0. ASSUME NEW e \in Executions, Take(e) PROVE OwnMarker'
  <2>1. marker' = marker /\ kept' = kept /\ resent' = resent
    BY <1>0 DEF Take, misses
  <2>2. job.owner = None /\ job.stalls = 0
    BY <1>0, Taken DEF JobInv
  <2>3. marker' = None
    BY <2>1, <2>2 DEF OwnMarker
  <2> QED
    BY <1>0, <2>1, <2>2, <2>3, Taken DEF OwnMarker
<1>1. ASSUME NEW e \in Executions, Acquire(e) PROVE OwnMarker'
  <2>1. /\ job' = job /\ kept' = kept /\ ~resent /\ exec[e].at = "acquire"
        /\ marker' \in {marker, e}
    BY <1>1 DEF Acquire
  <2>2. e = job.owner
    BY <2>1 DEF JobInv, Live
  <2>3. marker = None
    BY <2>1, <2>2 DEF OwnMarker, Inside, Holding
  <2>4. \/ marker' = e /\ Goto(e, "gate")
        \/ marker' = None /\ Ends(e, "settle", "transient")
    BY <1>1, <2>3 DEF Acquire
  <2> QED
    BY <2>1, <2>2, <2>4, Moved DEF OwnMarker, Inside, Holding
<1>2. ASSUME NEW e \in Executions, Gate(e) \/ Run(e) \/ Notify(e) \/ Record(e) \/ Dies(e)
      PROVE  OwnMarker'
  <2>1. /\ job' = job /\ marker' = marker /\ kept' = kept /\ resent' = resent
    BY <1>2 DEF Gate, Run, Notify, Record, Dies, misses
  <2>2. PICK stage \in Holding \cup {"dead"} :
          Goto(e, stage) \/ \E how \in Outcomes \ {"duplicate"} : Ends(e, stage, how)
    BY <1>2 DEF Gate, Run, Notify, Record, Dies, Inside, Holding, Outcomes
  <2>3. \A f \in Executions :
          /\ exec'[f].at \in Holding \cup {"dead"} \cup {exec[f].at}
          /\ exec'[f].outcome # "duplicate" \/ exec'[f].outcome = exec[f].outcome
    BY <2>2, Moved
  <2> QED
    BY <2>1, <2>3 DEF OwnMarker, TypeOK
<1>3. ASSUME NEW e \in Executions, Release(e) PROVE OwnMarker'
  <2>1. job' = job /\ marker' = None /\ kept' = kept /\ resent' = resent /\ Goto(e, "settle")
    BY <1>3 DEF Release
  <2> QED
    BY <2>1, Moved DEF OwnMarker
<1>4. ASSUME NEW e \in Executions, Settle(e) PROVE OwnMarker'
  <2>1. marker' = marker /\ kept' = kept /\ resent' = resent /\ exec[e].at = "settle" /\ Goto(e, "done")
    BY <1>4 DEF Settle, misses
  <2>2. job'.stalls = job.stalls
    <3>1. CASE job' = FailedAttempt /\ job.state = "active"
      BY <3>1, FailedType
    <3>2. CASE job' = [job EXCEPT !.state = "completed", !.owner = None]
      BY <3>2 DEF TypeOK
    <3> QED
      BY <1>4, <3>1, <3>2, SettleJob
  <2>3. job.owner = e
    BY <2>1, <2>2 DEF JobInv, Live
  <2>4. marker = None
    BY <2>1, <2>2, <2>3 DEF OwnMarker, Inside, Holding
  <2> QED
    BY <2>1, <2>2, <2>4, Moved DEF OwnMarker
<1>5. ASSUME Stall \/ LosesLock PROVE OwnMarker'
  BY <1>5, StalledType DEF Stall, LosesLock, TypeOK
<1>6. ASSUME \/ \E e \in Executions : PipelineEnds(e)
             \/ MarkerExpires \/ DeleteRow \/ UNCHANGED vars
      PROVE  OwnMarker'
  BY <1>6 DEF OwnMarker, PipelineEnds, MarkerExpires, DeleteRow, vars, misses
<1>7. ASSUME NEW e \in Executions, Work(e) \/ Dies(e) PROVE OwnMarker'
  BY <1>0, <1>1, <1>2, <1>3, <1>4, <1>7 DEF Work
<1> QED
  BY <1>5, <1>6, <1>7 DEF Next

\* A job is completed by a settling owner only.
LEMMA Completing ==
  ASSUME TypeOK, JobInv, [Next]_vars, job'.state = "completed", job.state # "completed"
  PROVE  \E e \in Executions : Settle(e) /\ job.owner = e /\ exec[e].outcome # "transient"
                                /\ job' = [job EXCEPT !.state = "completed", !.owner = None]
<1>1. job' # job
  OBVIOUS
<1>2. ~(Stall \/ LosesLock)
  BY StalledType DEF Stall, LosesLock
<1>3. \A e \in Executions : ~Take(e)
  BY Taken
<1>4. PICK e \in Executions : Settle(e)
  BY <1>1, <1>2, <1>3 DEF Next, Work, Acquire, Gate, Run, Notify, Record, Release, Dies,
                          PipelineEnds, MarkerExpires, DeleteRow, vars
<1>5. ~(job.state = "active" /\ job' = FailedAttempt)
  BY FailedType
<1> QED
  BY <1>1, <1>4, <1>5, SettleJob

\* What completes a job before the first stall is an outcome that needs no retry.
LEMMA ConcludedStep ==
  TypeOK /\ JobInv /\ ConcludedInv /\ [Next]_vars => ConcludedInv'
<1> SUFFICES ASSUME TypeOK, JobInv, OutcomeInv, OwnMarker, CompletedIsConcluded, [Next]_vars
             PROVE  CompletedIsConcluded'
  BY OutcomeStep, MarkerStep DEF ConcludedInv
<1> SUFFICES ASSUME job'.state = "completed", job'.stalls = 0, ~kept', ~resent'
             PROVE  concluded'
  BY DEF CompletedIsConcluded
<1>1. CASE job.state = "completed"
  <2>1. (concluded => concluded') /\ (kept => kept') /\ (resent => resent')
    <3>1. ASSUME NEW e \in Executions, Gate(e) \/ Run(e)
          PROVE  (concluded => concluded') /\ (kept => kept') /\ (resent => resent')
      <4>1. kept' = kept /\ resent' = resent
        BY <3>1 DEF Gate, Run, misses
      <4>2. Gate(e) => (concluded => concluded')
        BY DEF Gate
      <4>3. Run(e) => (concluded => concluded')
        BY DEF Run
      <4> QED
        BY <3>1, <4>1, <4>2, <4>3
    <3>2. ASSUME NEW e \in Executions, Release(e)
          PROVE  (concluded => concluded') /\ (kept => kept') /\ (resent => resent')
      BY <3>2 DEF Release
    <3>3. ASSUME NEW e \in Executions,
                 Take(e) \/ Acquire(e) \/ Notify(e) \/ Record(e) \/ Settle(e) \/ Dies(e)
                   \/ PipelineEnds(e)
          PROVE  concluded' = concluded /\ kept' = kept /\ (resent => resent')
      BY <3>3 DEF Take, Acquire, Notify, Record, Settle, Dies, PipelineEnds, misses
    <3>4. ASSUME Stall \/ LosesLock \/ MarkerExpires \/ DeleteRow \/ UNCHANGED vars
          PROVE  concluded' = concluded /\ kept' = kept /\ resent' = resent
      BY <3>4 DEF Stall, LosesLock, MarkerExpires, DeleteRow, vars, misses
    <3> QED
      BY <3>1, <3>2, <3>3, <3>4 DEF Next, Work
  <2>2. job.stalls = 0
    <3>1. job'.stalls >= job.stalls
      <4>1. ASSUME NEW e \in Executions, Settle(e) PROVE job' = job
        BY <1>1, <4>1, SettleJob
      <4>2. \A e \in Executions : ~Take(e)
        BY <1>1 DEF Take
      <4>3. ~(Stall \/ LosesLock)
        BY <1>1 DEF Stall, LosesLock
      <4>4. job' = job
        BY <4>1, <4>2, <4>3 DEF Next, Work, Acquire, Gate, Run, Notify, Record, Release, Dies,
                                PipelineEnds, MarkerExpires, DeleteRow, vars
      <4> QED
        BY <4>4 DEF TypeOK
    <3> QED
      BY <3>1 DEF TypeOK
  <2> QED
    BY <1>1, <2>1, <2>2 DEF CompletedIsConcluded
<1>2. CASE job.state # "completed"
  <2>1. PICK e \in Executions :
          /\ Settle(e) /\ job.owner = e /\ exec[e].outcome # "transient"
          /\ job' = [job EXCEPT !.state = "completed", !.owner = None]
    BY <1>2, Completing
  <2>2. job.stalls = 0 /\ ~kept /\ ~resent /\ concluded' = concluded /\ exec[e].at = "settle"
    BY <2>1 DEF Settle, TypeOK, misses
  <2>3. exec[e].outcome \notin {"none", "transient", "duplicate"} /\ exec[e].outcome \in Outcomes
    BY <2>1, <2>2 DEF OutcomeInv, OwnMarker, TypeOK
  <2> QED
    BY <2>2, <2>3 DEF OutcomeInv, Outcomes
<1> QED
  BY <1>1, <1>2

-----------------------------------------------------------------------------
\* Before the first stall a failure is reported for the last attempt only.
LEMMA ReportStep ==
  TypeOK /\ JobInv /\ ReportInv /\ [Next]_vars => ReportInv'
<1> SUFFICES ASSUME TypeOK, JobInv, ReportInv, [Next]_vars PROVE ReportInv'
  OBVIOUS
<1> USE JobAssumption
<1>1. ASSUME NEW e \in Executions, Take(e) PROVE ReportInv'
  <2>1. alerted' = alerted /\ succeeded' = succeeded
    BY <1>1 DEF Take, reports
  <2>2. exec'[e].last => job'.made + 1 >= MaxAttempts
    BY <1>1, Taken DEF LastAttempt
  <2> QED
    BY <1>1, <2>1, <2>2, Taken DEF ReportInv
<1>2. ASSUME NEW e \in Executions, Acquire(e) \/ Gate(e) \/ Run(e) PROVE ReportInv'
  <2>1. job' = job /\ alerted' = alerted /\ succeeded' = succeeded
    BY <1>2 DEF Acquire, Gate, Run, reports
  <2>2. exec[e].at \in {"acquire", "gate", "run"}
    BY <1>2 DEF Acquire, Gate, Run
  <2>3. \E stage \in Stages, how \in Outcomes : Goto(e, stage) \/ Ends(e, stage, how)
    BY <1>2 DEF Acquire, Gate, Run, Stages, Outcomes
  <2>4. \A f \in Executions : exec'[f].last = exec[f].last /\ (f # e => exec'[f].at = exec[f].at)
                              /\ (f # e => exec'[f].outcome = exec[f].outcome)
    BY <2>3, Moved
  <2>5. job.state = "active" => job.owner \in Executions
    BY DEF JobInv, TypeOK
  <2> QED
    BY <2>1, <2>2, <2>4, <2>5 DEF ReportInv, Reported
<1>3. ASSUME NEW e \in Executions, Notify(e) PROVE ReportInv'
  <2>1. job' = job /\ exec[e].at = "notify" /\ Goto(e, "record")
    BY <1>3 DEF Notify
  <2>2. \A f \in Executions : exec'[f].last = exec[f].last
    BY <2>1, Moved
  <2>3. CASE job.stalls = 0
    <3>1. job.owner = e /\ job.state = "active"
      BY <2>1, <2>3 DEF JobInv, Live
    <3>2. ~alerted /\ ~succeeded
      BY <2>1, <2>3, <3>1 DEF ReportInv, Reported
    <3>3. succeeded' <=> exec[e].outcome = "success"
      BY <1>3, <3>2 DEF Notify
    <3>4. alerted' <=> (exec[e].outcome # "success" /\ exec[e].last)
      BY <1>3, <3>2 DEF Notify
    <3>5. exec'[e].at = "record" /\ exec'[e].outcome = exec[e].outcome
      BY <2>1, Moved
    <3> QED
      BY <2>1, <2>2, <2>3, <3>1, <3>3, <3>4, <3>5 DEF ReportInv, Reported
  <2>4. CASE job.stalls # 0
    BY <2>1, <2>2, <2>4 DEF ReportInv, JobInv, TypeOK
  <2> QED
    BY <2>3, <2>4
<1>4. ASSUME NEW e \in Executions, Record(e) \/ Release(e) \/ Dies(e) PROVE ReportInv'
  <2>1. job' = job /\ alerted' = alerted /\ succeeded' = succeeded
    BY <1>4 DEF Record, Release, Dies, reports
  <2>2. Goto(e, "release") \/ Goto(e, "settle") \/ Goto(e, "dead")
    BY <1>4 DEF Record, Release, Dies
  <2>3. \A f \in Executions :
          /\ exec'[f].last = exec[f].last /\ exec'[f].outcome = exec[f].outcome
          /\ exec'[f].at \in {"release", "settle", "dead"} \/ exec'[f].at = exec[f].at
    BY <2>2, Moved
  <2>4. job.state = "active" => job.owner \in Executions
    BY DEF JobInv, TypeOK
  <2> QED
    BY <2>1, <2>3, <2>4 DEF ReportInv, Reported
<1>5. ASSUME NEW e \in Executions, Settle(e) PROVE ReportInv'
  <2>1. alerted' = alerted /\ succeeded' = succeeded /\ Goto(e, "done")
    BY <1>5 DEF Settle, reports
  <2>2. CASE job' = job /\ job.owner # e
    <3>1. job.state = "active" => /\ job.owner \in Executions
                                  /\ exec'[job.owner].at = exec[job.owner].at
                                  /\ exec'[job.owner].outcome = exec[job.owner].outcome
                                  /\ exec'[job.owner].last = exec[job.owner].last
      BY <2>1, <2>2, Moved DEF JobInv, TypeOK
    <3> QED
      BY <2>1, <2>2, <3>1 DEF ReportInv, Reported
  <2>3. CASE job' = FailedAttempt /\ job.owner = e /\ job.state = "active" /\ exec[e].outcome = "transient"
    <3>1. job'.state \in {"waiting", "failed"} /\ job'.stalls = job.stalls
          /\ (job'.state = "waiting" => job.made + 1 < MaxAttempts)
      BY <2>3, FailedType
    <3> QED
      BY <2>1, <2>3, <3>1 DEF ReportInv, TypeOK
  <2>4. CASE job' = [job EXCEPT !.state = "completed", !.owner = None]
    BY <2>1, <2>4 DEF ReportInv, TypeOK
  <2> QED
    BY <1>5, <2>2, <2>3, <2>4, SettleJob
<1>6. ASSUME Stall \/ LosesLock PROVE ReportInv'
  <2>1. job'.state \in {"waiting", "failed"} /\ job'.stalls = job.stalls + 1
    BY <1>6, StalledType DEF Stall, LosesLock
  <2> QED
    BY <2>1 DEF ReportInv, TypeOK
<1>7. ASSUME \/ \E e \in Executions : PipelineEnds(e)
             \/ MarkerExpires \/ DeleteRow \/ UNCHANGED vars
      PROVE  ReportInv'
  BY <1>7 DEF ReportInv, Reported, PipelineEnds, MarkerExpires, DeleteRow, vars, reports
<1>8. ASSUME NEW e \in Executions, Work(e) \/ Dies(e) PROVE ReportInv'
  BY <1>1, <1>2, <1>3, <1>4, <1>5, <1>8 DEF Work
<1> QED
  BY <1>6, <1>7, <1>8 DEF Next

-----------------------------------------------------------------------------
\* The executions before their run are among those begun, and finitely many.
LEMMA BeforeFinite ==
  ASSUME CountInv
  PROVE  /\ IsFiniteSet(Before) /\ Before \subseteq Begun
         /\ Cardinality(Before) \in Nat /\ Cardinality(Begun) \in Nat
<1>1. Before \subseteq Begun /\ IsFiniteSet(Begun)
  BY DEF Before, Begun, CountInv
<1> QED
  BY <1>1, FS_Subset, FS_CardinalityType

\* A step that begins no execution and starts no run.
LEMMA CountFrame ==
  ASSUME TypeOK, CountInv, Begun' = Begun, Before' \subseteq Before,
         runs' = runs, Spent' = Spent,
         (job.made + job.stalls + (IF job.state = "completed" THEN 1 ELSE 0)
            <= MaxAttempts + MaxStalls)'
  PROVE  CountInv'
<1>1. /\ Cardinality(Before') \in Nat /\ Cardinality(Before') <= Cardinality(Before)
      /\ Cardinality(Before) \in Nat /\ Cardinality(Begun) \in Nat
  BY BeforeFinite, FS_Subset, FS_CardinalityType
<1> QED
  BY <1>1 DEF CountInv, TypeOK

\* An execution that leaves the stages before the run lowers their number.
LEMMA Leaves ==
  ASSUME CountInv, NEW e \in Before, Before' = Before \ {e}
  PROVE  Cardinality(Before') = Cardinality(Before) - 1
BY BeforeFinite, FS_RemoveElement

\* Each execution starts the pipeline once, and costs an attempt or a stall.
LEMMA CountStep ==
  TypeOK /\ JobInv /\ CountInv /\ [Next]_vars => CountInv'
<1> SUFFICES ASSUME TypeOK, JobInv, CountInv, [Next]_vars PROVE CountInv'
  OBVIOUS
<1> USE JobAssumption
<1>1. ASSUME NEW e \in Executions, Take(e) PROVE CountInv'
  <2>1. e \notin Begun /\ Begun' = Begun \cup {e}
    BY <1>1, Taken DEF Begun
  <2>2. e \notin Before /\ Before' = Before \cup {e}
    BY <1>1, Taken DEF Before
  <2>3. Cardinality(Begun') = Cardinality(Begun) + 1 /\ IsFiniteSet(Begun')
    BY <2>1, FS_AddElement DEF CountInv
  <2>4. Cardinality(Before') = Cardinality(Before) + 1
    BY <2>2, BeforeFinite, FS_AddElement
  <2>5. runs' = runs
    BY <1>1 DEF Take
  <2>6. Spent' = Spent + 1
    BY <1>1, Taken DEF Spent, TypeOK
  <2>7. (job.made + job.stalls + (IF job.state = "completed" THEN 1 ELSE 0)
           <= MaxAttempts + MaxStalls)'
    BY <1>1, Taken DEF CountInv, TypeOK
  <2> QED
    BY <2>3, <2>4, <2>5, <2>6, <2>7, BeforeFinite DEF CountInv, TypeOK
<1>2. ASSUME NEW e \in Executions, Gate(e), Goto(e, "run"), runs' = runs + 1 PROVE CountInv'
  <2>1. job' = job /\ exec[e].at = "gate"
    BY <1>2 DEF Gate
  <2>2. Begun' = Begun
    BY <1>2, <2>1, Moved DEF Begun
  <2>3. e \in Before /\ Before' = Before \ {e}
    BY <1>2, <2>1, Moved DEF Before
  <2>4. Cardinality(Before') = Cardinality(Before) - 1
    BY <2>3, Leaves
  <2> QED
    BY <1>2, <2>1, <2>2, <2>4, BeforeFinite DEF CountInv, Spent, TypeOK
<1>3. ASSUME NEW e \in Executions,
             \/ Acquire(e) \/ (Gate(e) /\ runs' = runs) \/ Run(e) \/ Notify(e) \/ Record(e)
             \/ Release(e) \/ Dies(e)
      PROVE  CountInv'
  <2>1. job' = job /\ runs' = runs /\ exec[e].at # "free"
    BY <1>3 DEF Acquire, Gate, Run, Notify, Record, Release, Dies, Live
  <2>2. PICK stage \in Stages, how \in Outcomes :
          /\ Goto(e, stage) \/ Ends(e, stage, how)
          /\ stage # "free" /\ stage # "acquire"
          /\ stage = "gate" => exec[e].at = "acquire"
    BY <1>3 DEF Acquire, Gate, Run, Notify, Record, Release, Dies, Stages, Outcomes
  <2>3. Begun' = Begun
    BY <2>1, <2>2, Moved DEF Begun
  <2>4. Before' \subseteq Before
    BY <2>2, Moved DEF Before
  <2> QED
    BY <2>1, <2>3, <2>4, CountFrame DEF Spent, CountInv
<1>4. ASSUME NEW e \in Executions, Settle(e) PROVE CountInv'
  <2>1. runs' = runs /\ exec[e].at = "settle" /\ Goto(e, "done")
    BY <1>4 DEF Settle
  <2>2. Begun' = Begun /\ Before' \subseteq Before
    BY <2>1, Moved DEF Begun, Before
  <2>3. CASE job' = job
    BY <2>1, <2>2, <2>3, CountFrame DEF Spent, CountInv
  <2>4. CASE job' = FailedAttempt /\ job.state = "active"
    <3>1. /\ job'.made = job.made + 1 /\ job'.stalls = job.stalls
          /\ job'.state \in {"waiting", "failed"}
      BY <2>4, FailedType
    <3>2. Spent' = Spent
      BY <2>4, <3>1 DEF Spent, TypeOK
    <3> QED
      BY <2>1, <2>2, <2>4, <3>1, <3>2, CountFrame DEF TypeOK, JobInv, MaxStalls
  <2>5. CASE job' = [job EXCEPT !.state = "completed", !.owner = None] /\ job.state = "active"
    <3>1. /\ job'.made = job.made /\ job'.stalls = job.stalls /\ job'.state = "completed"
      BY <2>5 DEF TypeOK
    <3>2. Spent' = Spent
      BY <2>5, <3>1 DEF Spent
    <3> QED
      BY <2>1, <2>2, <2>5, <3>1, <3>2, CountFrame DEF TypeOK, JobInv, MaxStalls
  <2> QED
    BY <1>4, <2>3, <2>4, <2>5, SettleJob
<1>5. ASSUME Stall \/ LosesLock PROVE CountInv'
  <2>1. job.state = "active" /\ runs' = runs /\ exec' = exec
    BY <1>5 DEF Stall, LosesLock
  <2>2. /\ job'.made = job.made /\ job'.stalls = job.stalls + 1
        /\ job'.state \in {"waiting", "failed"}
    BY <1>5, StalledType DEF Stall, LosesLock
  <2>3. Spent' = Spent
    BY <2>1, <2>2 DEF Spent, TypeOK
  <2>4. Begun' = Begun /\ Before' = Before
    BY <2>1 DEF Begun, Before
  <2> QED
    BY <2>1, <2>2, <2>3, <2>4, CountFrame DEF TypeOK, JobInv, MaxStalls
<1>6. ASSUME \/ \E e \in Executions : PipelineEnds(e)
             \/ MarkerExpires \/ DeleteRow \/ UNCHANGED vars
      PROVE  CountInv'
  BY <1>6 DEF CountInv, Begun, Before, Spent, PipelineEnds, MarkerExpires, DeleteRow, vars
<1>7. ASSUME NEW e \in Executions, Gate(e) PROVE CountInv'
  <2>1. (Goto(e, "run") /\ runs' = runs + 1) \/ runs' = runs
    BY <1>7 DEF Gate
  <2> QED
    BY <1>2, <1>3, <1>7, <2>1
<1>8. ASSUME NEW e \in Executions, Work(e) \/ Dies(e) PROVE CountInv'
  BY <1>1, <1>3, <1>4, <1>7, <1>8 DEF Work
<1> QED
  BY <1>5, <1>6, <1>8 DEF Next

\* What was begun bounds what was run.
LEMMA CountBound == TypeOK /\ JobInv /\ CountInv => RunBound
<1> SUFFICES ASSUME TypeOK, JobInv, CountInv PROVE RunBound
  OBVIOUS
<1>1. Spent <= MaxAttempts + MaxStalls
  BY JobAssumption DEF Spent, CountInv, JobInv, TypeOK, MaxStalls
<1> QED
  BY <1>1, BeforeFinite, JobAssumption DEF CountInv, RunBound, TypeOK, MaxStalls

-----------------------------------------------------------------------------
\* The invariant holds of a tick nobody took.
LEMMA IndInit == Init => IndInv
<1> SUFFICES ASSUME Init PROVE IndInv
  OBVIOUS
<1> USE JobAssumption
<1>1. /\ job.state = "waiting" /\ job.made = 0 /\ job.stalls = 0 /\ job.owner = None
      /\ \A e \in Executions : exec[e].at = "free" /\ exec[e].outcome = "none" /\ ~exec[e].last
      /\ marker = None /\ runs = 0 /\ ~alerted /\ ~succeeded
  BY DEF Init
<1>2. TypeOK
  <2>1. exec \in ExecType
    BY DEF Init, ExecType, Stages, Outcomes
  <2>2. job \in [state : {"waiting"}, made : {0}, stalls : {0}, owner : {None}]
    BY DEF Init
  <2>3. {0} \subseteq 0 .. MaxAttempts /\ {0} \subseteq 0 .. MaxStalls + 1
    BY DEF MaxStalls
  <2>4. job \in [state : {"waiting", "active", "completed", "failed"}, made : 0 .. MaxAttempts,
                 stalls : 0 .. MaxStalls + 1, owner : Executions \cup {None}]
    BY <2>2, <2>3
  <2>5. /\ exists \in BOOLEAN /\ concluded \in BOOLEAN /\ succeeded \in BOOLEAN
        /\ alerted \in BOOLEAN /\ kept \in BOOLEAN /\ unowned \in BOOLEAN
        /\ resent \in BOOLEAN /\ outlived \in BOOLEAN /\ lingering \in SUBSET Executions
    BY DEF Init
  <2>6. marker \in Executions \cup {None} /\ faults \in 0 .. MaxFaults /\ runs \in Nat
    BY DEF Init
  <2> QED
    BY <2>1, <2>4, <2>5, <2>6 DEF TypeOK, ExecType
<1>3. JobInv
  BY <1>1 DEF JobInv, Live, MaxStalls
<1>4. AloneInv
  BY <1>1 DEF AloneInv, Inside
<1>5. ConcludedInv
  BY <1>1 DEF ConcludedInv, OutcomeInv, OwnMarker, CompletedIsConcluded
<1>6. ReportInv
  BY <1>1 DEF ReportInv
<1>7. CountInv
  <2>1. Begun = {} /\ Before = {}
    BY <1>1 DEF Begun, Before
  <2> QED
    BY <1>1, <2>1, FS_EmptySet DEF CountInv, Spent, MaxStalls
<1>8. LingerInv
  BY DEF Init, LingerInv
<1> QED
  BY <1>2, <1>3, <1>4, <1>5, <1>6, <1>7, <1>8 DEF IndInv

\* Every step keeps the invariant.
LEMMA IndStep == IndInv /\ [Next]_vars => IndInv'
BY TypeStep, JobStep, AloneStep, LingerStep, ConcludedStep, ReportStep, CountStep DEF IndInv

\* The invariant holds of every reachable state.
THEOREM Inductive == Spec => []IndInv
BY IndInit, IndStep, PTL DEF Spec

(***************************************************************************)
(* The state of a tick is well typed: attempts and stalls stay in bounds.  *)
(***************************************************************************)
THEOREM TickTypes == Spec => []TypeOK
BY Inductive, PTL DEF IndInv

(***************************************************************************)
(* Two pipelines of a tick are under way at the same time only if one of   *)
(* them lost the race with its timeout and was left behind, by the settled *)
(* attempt or by a stall: unless an execution set its marker after it had  *)
(* lost the job, or was suspended for longer than its marker lives.        *)
(***************************************************************************)
THEOREM RunsAreAlone == Spec => []OneRunAtATime
<1>1. ASSUME IndInv PROVE OneRunAtATime
  <2> SUFFICES ASSUME ~unowned, ~outlived, NEW e \in UnderWay, NEW f \in UnderWay,
                      ~LeftBehind(e), ~LeftBehind(f)
               PROVE  e = f
    BY DEF OneRunAtATime
  <2>1. e \in Executions /\ f \in Executions
    BY <1>1 DEF IndInv, TypeOK, UnderWay
  <2>2. \A g \in {e, f} : g \in lingering => Live(g) /\ ~(job.stalls > 0)
    BY <1>1 DEF IndInv, LingerInv, LeftBehind, Live
  <2>3. \A g \in {e, f} : Live(g)
    BY <2>2 DEF UnderWay, Live
  <2>4. CASE e \in lingering \/ f \in lingering
    <3>1. job.stalls = 0
      BY <1>1, <2>2, <2>4 DEF IndInv, TypeOK
    <3> QED
      BY <1>1, <2>1, <2>3, <3>1 DEF IndInv, JobInv
  <2>5. CASE exec[e].at = "run" /\ exec[f].at = "run"
    BY <1>1, <2>1, <2>5 DEF IndInv, AloneInv, Inside
  <2> QED
    BY <2>4, <2>5 DEF UnderWay
<1> QED
  BY <1>1, Inductive, PTL

(***************************************************************************)
(* Attempts and stalls together bound the runs of a tick.                  *)
(***************************************************************************)
THEOREM RunsAreBounded == Spec => []RunBound
<1>1. IndInv => RunBound
  BY CountBound DEF IndInv
<1> QED
  BY <1>1, Inductive, PTL

(***************************************************************************)
(* A job that did not stall, whose marker was always deleted and whose SET *)
(* NX was never sent twice, completes with an outcome that needs no retry. *)
(***************************************************************************)
THEOREM CompletionsConclude == Spec => []CompletedIsConcluded
<1>1. IndInv => CompletedIsConcluded
  BY DEF IndInv, ConcludedInv
<1> QED
  BY <1>1, Inductive, PTL

(***************************************************************************)
(* A job that did not stall is not reported as failed and as succeeded.    *)
(***************************************************************************)
THEOREM AlarmsAreTrue == Spec => []NoFalseAlarm
<1>1. IndInv => NoFalseAlarm
  BY DEF IndInv, ReportInv, NoFalseAlarm
<1> QED
  BY <1>1, Inductive, PTL
-----------------------------------------------------------------------------
(***************************************************************************)
(* What a tick has ahead of it: its attempts and stalls, each worth a      *)
(* delivery, and the awaits left of the delivery under way.                *)
(***************************************************************************)
StepsLeft(e) ==
  CASE exec[e].at = "acquire" -> 8
    [] exec[e].at = "gate"    -> 7
    [] exec[e].at = "run"     -> 6
    [] exec[e].at = "notify"  -> 5
    [] exec[e].at = "record"  -> 4
    [] exec[e].at = "release" -> 3
    [] exec[e].at = "settle"  -> 2
    [] OTHER                  -> 1

Deliveries == (MaxAttempts - job.made) + (MaxStalls + 1 - job.stalls)

Ahead ==
  IF Settled THEN 0
  ELSE 10 * Deliveries + (IF job.state = "waiting" THEN 9 ELSE StepsLeft(job.owner))

\* The job moves, or the execution that has it.
Moves == job' # job \/ (job.owner # None /\ exec'[job.owner] # exec[job.owner])

\* A number that no other step changes, and that every move lowers.
Advances == Ahead \in Nat /\ (IF Moves THEN Ahead' < Ahead ELSE Ahead' = Ahead)

\* Numbers, all of them.
LEMMA AheadType ==
  ASSUME TypeOK, JobInv
  PROVE  /\ \A e \in Executions : StepsLeft(e) \in 1 .. 8
         /\ Deliveries \in Nat /\ Ahead \in Nat
         /\ ~Settled => Ahead >= 10 * Deliveries + 1 /\ Deliveries >= 2
         /\ ~Settled <=> job.state \in {"waiting", "active"}
<1> USE JobAssumption
<1>1. \A e \in Executions : StepsLeft(e) \in 1 .. 8
  BY DEF StepsLeft
<1>2. job.made \in Nat /\ job.stalls \in Nat /\ MaxAttempts - job.made \in Nat
      /\ MaxStalls + 1 - job.stalls \in Nat
  BY DEF TypeOK, MaxStalls
<1>3. Deliveries \in Nat
  BY <1>2 DEF Deliveries, MaxStalls
<1>4. ~Settled <=> job.state \in {"waiting", "active"}
  BY DEF TypeOK, Settled
<1>5. ~Settled => Deliveries >= 2
  BY <1>2, <1>4 DEF JobInv, Deliveries, MaxStalls
<1>6. job.state = "active" => job.owner \in Executions
  BY DEF TypeOK, JobInv
<1> HIDE DEF Deliveries, StepsLeft
<1> QED
  BY <1>1, <1>3, <1>4, <1>5, <1>6 DEF Ahead

\* Another delivery begins, or none: one of them is spent.
LEMMA DeliveryEnds ==
  ASSUME TypeOK, JobInv, (TypeOK /\ JobInv)', ~Settled, job.state = "active",
         \/ job' = FailedAttempt \/ job' = StalledJob
         \/ job' = [job EXCEPT !.state = "completed", !.owner = None]
  PROVE  Moves /\ Ahead' < Ahead
<1> USE JobAssumption
<1>1. job' # job
  BY FailedType, StalledType DEF TypeOK, JobInv
<1>2. CASE job'.state \notin {"waiting", "active"}
  <2>1. Settled' /\ Ahead' = 0
    BY <1>2 DEF Ahead, Settled, TypeOK
  <2> QED
    BY <1>1, <2>1, AheadType DEF Moves
<1>3. CASE job'.state = "waiting"
  <2>1. \/ job'.made = job.made + 1 /\ job'.stalls = job.stalls
        \/ job'.made = job.made /\ job'.stalls = job.stalls + 1
    BY <1>3, FailedType, StalledType DEF TypeOK
  <2>2. Deliveries' = Deliveries - 1
    BY <2>1 DEF Deliveries, TypeOK, MaxStalls
  <2>3. Ahead' = 10 * Deliveries' + 9
    BY <1>3 DEF Ahead, Settled
  <2> QED
    BY <1>1, <2>2, <2>3, AheadType DEF Moves
<1> QED
  BY <1>2, <1>3, FailedType, StalledType DEF TypeOK

\* A step of an execution that leaves the job to its owner.
LEMMA OwnerMoves ==
  ASSUME TypeOK, JobInv, TypeOK', job' = job, NEW e \in Executions,
         \A f \in Executions \ {e} : exec'[f] = exec[f],
         exec'[e] # exec[e], StepsLeft(e)' < StepsLeft(e)
  PROVE  IF Moves THEN Ahead' < Ahead ELSE Ahead' = Ahead
<1>1. CASE job.state = "active" /\ job.owner = e
  <2>1. Ahead' = 10 * Deliveries + StepsLeft(e)' /\ Ahead = 10 * Deliveries + StepsLeft(e)
    BY <1>1 DEF Ahead, Settled, Deliveries
  <2>2. StepsLeft(e)' \in Int
    BY DEF StepsLeft
  <2>3. Moves
    BY <1>1, JobAssumption DEF Moves, JobInv
  <2> QED
    BY <2>1, <2>2, <2>3, AheadType
<1>2. CASE job.state = "active" /\ job.owner # e
  <2>1. exec'[job.owner] = exec[job.owner]
    BY <1>2, JobAssumption DEF TypeOK, JobInv
  <2> QED
    BY <1>2, <2>1 DEF Ahead, Settled, Deliveries, StepsLeft, Moves
<1>3. CASE job.state # "active"
  BY <1>3 DEF Ahead, Settled, Deliveries, Moves, JobInv, TypeOK
<1> QED
  BY <1>1, <1>2, <1>3

\* Every move uses up some of what is ahead.
LEMMA AheadStep ==
  TypeOK /\ JobInv /\ (TypeOK /\ JobInv)' /\ Next
    => IF Moves THEN Ahead' < Ahead ELSE Ahead' = Ahead
<1> SUFFICES ASSUME TypeOK, JobInv, TypeOK', JobInv', Next
             PROVE  IF Moves THEN Ahead' < Ahead ELSE Ahead' = Ahead
  OBVIOUS
<1>1. ASSUME NEW e \in Executions, Take(e) PROVE Moves /\ Ahead' < Ahead
  <2>1. /\ job.state = "waiting" /\ job'.state = "active" /\ job'.owner = e
        /\ job'.made = job.made /\ job'.stalls = job.stalls /\ exec'[e].at = "acquire"
    BY <1>1 DEF Take, TypeOK
  <2>2. Ahead = 10 * Deliveries + 9 /\ Ahead' = 10 * Deliveries + 8
    BY <2>1 DEF Ahead, Settled, Deliveries, StepsLeft
  <2> QED
    BY <2>1, <2>2, AheadType DEF Moves
<1>2. ASSUME NEW e \in Executions,
             \/ Acquire(e) \/ Gate(e) \/ Run(e) \/ Notify(e) \/ Record(e) \/ Release(e) \/ Dies(e)
      PROVE  IF Moves THEN Ahead' < Ahead ELSE Ahead' = Ahead
  <2>1. job' = job /\ \A f \in Executions \ {e} : exec'[f] = exec[f]
    BY <1>2 DEF Acquire, Gate, Run, Notify, Record, Release, Dies, Goto, Ends, TypeOK
  <2>2. exec'[e] # exec[e] /\ StepsLeft(e)' < StepsLeft(e)
    <3>1. CASE Acquire(e) \/ Gate(e)
      BY <3>1 DEF Acquire, Gate, Goto, Ends, StepsLeft, TypeOK
    <3>2. CASE Run(e) \/ Notify(e) \/ Record(e) \/ Release(e)
      BY <3>2 DEF Run, Notify, Record, Release, Goto, Ends, StepsLeft, TypeOK
    <3>3. CASE Dies(e)
      BY <3>3 DEF Dies, Live, Goto, StepsLeft, TypeOK, Stages
    <3> QED
      BY <1>2, <3>1, <3>2, <3>3
  <2> QED
    BY <2>1, <2>2, OwnerMoves
<1>3. ASSUME NEW e \in Executions, Settle(e)
      PROVE  IF Moves THEN Ahead' < Ahead ELSE Ahead' = Ahead
  <2>1. CASE job' = job
    <3>1. exec[e].at = "settle" /\ exec' = [exec EXCEPT ![e].at = "done"]
      BY <1>3 DEF Settle, Goto
    <3>2. exec'[e] # exec[e] /\ StepsLeft(e)' < StepsLeft(e)
      BY <3>1 DEF StepsLeft, TypeOK
    <3>3. \A f \in Executions \ {e} : exec'[f] = exec[f]
      BY <3>1 DEF TypeOK
    <3> QED
      BY <2>1, <3>2, <3>3, OwnerMoves
  <2>2. CASE job' # job
    BY <1>3, <2>2, SettleJob, AheadType, DeliveryEnds
  <2> QED
    BY <2>1, <2>2
<1>4. CASE Stall \/ LosesLock
  BY <1>4, AheadType, DeliveryEnds DEF Stall, LosesLock
<1>5. CASE (\E e \in Executions : PipelineEnds(e)) \/ MarkerExpires \/ DeleteRow
  BY <1>5 DEF PipelineEnds, MarkerExpires, DeleteRow, Moves, Ahead, Settled, Deliveries, StepsLeft
<1> QED
  BY <1>1, <1>2, <1>3, <1>4, <1>5 DEF Next, Work

(***************************************************************************)
(* The safety half of TickSettles: nothing but a move of its job, or of    *)
(* the execution that has it, changes what a tick has ahead of it, and     *)
(* every move uses some of it up.  A tick that is settled stays so.        *)
(***************************************************************************)
THEOREM TickAdvances == Spec => [][Advances]_vars
<1>1. IndInv /\ IndInv' /\ [Next]_vars => [Advances]_vars
  BY AheadType, AheadStep DEF IndInv, Advances
<1> QED
  BY <1>1, Inductive, PTL DEF Spec

(***************************************************************************)
(* And a tick that is not settled has somebody to move it: the queue hands *)
(* it out, or an execution has it that lives, or that died and is found by *)
(* the stalled check.                                                      *)
(***************************************************************************)
THEOREM TickIsNotStuck ==
  Spec => [](Settled \/ job.state = "waiting"
               \/ (job.owner \in Executions
                    /\ (Live(job.owner) \/ exec[job.owner].at = "dead")))
<1>1. IndInv => Settled \/ job.state = "waiting"
                  \/ (job.owner \in Executions /\ (Live(job.owner) \/ exec[job.owner].at = "dead"))
  BY JobAssumption DEF IndInv, TypeOK, JobInv, Settled, Live
<1> QED
  BY <1>1, Inductive, PTL
=============================================================================
